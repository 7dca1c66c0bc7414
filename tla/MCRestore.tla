----------------------------- MODULE MCRestore ------------------------------
(* Two tracked files of one parent directory; "t" is what the Index holds. *)
EXTENDS RestoreTransaction

MCTarget == [e \in Entry |-> "t"]
MCParent == [e \in Entry |-> "d"]
=============================================================================
