------------------------------ MODULE UseRights ------------------------------
(***************************************************************************)
(* What the incident media engine promises of other people's footage,      *)
(* without saying how: a piece is unjudged, then verified, then usable;    *)
(* it may end at any stage and never comes back; and the video pipeline    *)
(* takes it up as a source only while it is usable.  The order is that of  *)
(* the status machine of services/incident/incidentStatus.js:              *)
(* "verification precedes clearance precedes construction".                *)
(***************************************************************************)
CONSTANT Media

VARIABLES
  phase,   \* phase[m]: how far the piece has come
  sourced  \* the pieces the video pipeline has taken up

vars == <<phase, sourced>>

Init ==
  /\ phase = [m \in Media |-> "unjudged"]
  /\ sourced = {}

Advance(m, from, to) ==
  /\ phase[m] = from
  /\ phase' = [phase EXCEPT ![m] = to]
  /\ UNCHANGED sourced

Judge(m) == Advance(m, "unjudged", "verified")
Clear(m) == Advance(m, "verified", "usable")
End(m)   == \E from \in {"unjudged", "verified", "usable"} : Advance(m, from, "ended")

Source(m) ==
  /\ phase[m] = "usable"
  /\ sourced' = sourced \cup {m}
  /\ UNCHANGED phase

Next == \E m \in Media : Judge(m) \/ Clear(m) \/ End(m) \/ Source(m)

Spec == Init /\ [][Next]_vars
=============================================================================
