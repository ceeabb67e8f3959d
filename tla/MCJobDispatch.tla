--------------------------- MODULE MCJobDispatch ---------------------------
(* An instance of JobDispatch for TLC.                                     *)
EXTENDS JobDispatch
=============================================================================
