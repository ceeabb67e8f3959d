---------------------------- MODULE MCEventGraph ----------------------------
(* An instance of EventGraph for TLC: two clusters, one of a single outlet,  *)
(* three rows for events.                                                    *)
EXTENDS EventGraph, TLC
CONSTANTS a1, a2, a3, a4, a5, c1, c2
MCNamed  == c1 :> {a1, a2} @@ c2 :> {a3, a4, a5}
MCBorn   == c1 :> 1 @@ c2 :> 1
MCOutlet == a1 :> "one" @@ a2 :> "one" @@ a3 :> "one" @@ a4 :> "two" @@ a5 :> "one"
MCKin    == {{a1, a2}, {a3, a4}}
=============================================================================
