---------------------------- MODULE MCXTextQueue ----------------------------
(* Instances of XTextQueue for TLC.                                        *)
EXTENDS XTextQueue, TLC

CONSTANTS thread, split

\* A thread of two parts and a single row that is split into two posts.
PartsOfArticle == (thread :> 2) @@ (split :> 1)
PlanOfArticle  == (thread :> <<1, 2>>) @@ (split :> <<1, 1>>)
=============================================================================
