---------------------------- MODULE MCNewsletter ----------------------------
(* An instance of Newsletter for TLC: a day has two parts, an edition in     *)
(* each.                                                                     *)
EXTENDS Newsletter, TLC
MCAfter  == [d1 |-> 1, d3 |-> 2, reminder |-> 1]
MCBefore == [d1 |-> 2, d3 |-> 3, reminder |-> 2]
MCFires  == [rest |-> 0, americas |-> 1]
=============================================================================
