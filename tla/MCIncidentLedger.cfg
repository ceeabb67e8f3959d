SPECIFICATION Spec
CONSTANTS
  None = None
  Cands = {p1, p2}
  Runs = {r1, r2}
  Checks = {"sensitivity", "prior_appearance", "corroboration"}
  MaxRulings = 2
  MaxCrashes = 1
SYMMETRY Symmetry
CHECK_DEADLOCK FALSE
INVARIANTS DefensibleUse AssessmentExplained
PROPERTIES HumanDecides KeepsRights
