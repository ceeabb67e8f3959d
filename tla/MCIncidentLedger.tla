-------------------------- MODULE MCIncidentLedger --------------------------
(* Instances of IncidentLedger for TLC.                                    *)
EXTENDS IncidentLedger, TLC

Symmetry == Permutations(Runs) \cup Permutations(Cands)
=============================================================================
