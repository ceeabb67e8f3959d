---------------------------- MODULE MCVideoPosts ----------------------------
(* Instances of VideoPosts for TLC.                                        *)
EXTENDS VideoPosts, TLC

CONSTANTS feed, reel, instagram, facebook

\* Facebook's feed and Reel share a column; Instagram fetches the file by URL.
SurfaceOrder == <<feed, reel, instagram>>
ColumnOf == (feed :> facebook) @@ (reel :> facebook) @@ (instagram :> instagram)
CapOf    == (feed :> 2) @@ (reel :> 2) @@ (instagram :> 1)

Symmetry == Permutations(Articles) \cup Permutations(Cycles)
=============================================================================
