SPECIFICATION Spec
CONSTANTS
  None = None
  Cands = {p1}
  Runs = {r1}
  Checks = {"sensitivity", "prior_appearance", "corroboration"}
  MaxRulings = 2
  MaxCrashes = 0
PROPERTIES PlanRenderable
CHECK_DEADLOCK FALSE
