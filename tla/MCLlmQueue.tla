----------------------------- MODULE MCLlmQueue -----------------------------
(* Instance of LlmQueue for TLC; its constants are all in the .cfg.        *)
EXTENDS LlmQueue
=============================================================================
