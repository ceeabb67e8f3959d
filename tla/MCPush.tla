------------------------------- MODULE MCPush -------------------------------
(* An instance of Push for TLC.  The cast chooses what the behaviour is      *)
(* about: one device between the broadcasts and the dispatcher; two users,   *)
(* of whom either may be without a device; one user with two devices, in two *)
(* slices.  There is one story and one alert at a time, each followed by     *)
(* others.                                                                   *)
EXTENDS Push, TLC
CONSTANTS d1, d2, d3, u1, u2, a1, n1

MCOwner   == d1 :> u1 @@ d2 :> u2 @@ d3 :> u1
MCFollows == d1 :> {a1} @@ d2 :> {} @@ d3 :> {}
MCCasts   == {[devices |-> {d1},     messages |-> {a1, n1}],
              [devices |-> {d1, d2}, messages |-> {n1}],
              [devices |-> {d1, d3}, messages |-> {n1}]}
=============================================================================
