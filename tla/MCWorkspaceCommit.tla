------------------------- MODULE MCWorkspaceCommit -------------------------
(***************************************************************************)
(* Two Pre-commit sessions; the first may be restarted once.               *)
(***************************************************************************)
EXTENDS WorkspaceCommit

Attempts == <<2, 1>>
=============================================================================
