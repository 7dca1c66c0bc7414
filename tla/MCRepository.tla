---------------------------- MODULE MCRepository ----------------------------
(* Workspace wa on main and, when there is a second one, wb on dev.        *)
EXTENDS Repository, TLC

CONSTANTS main, dev

MCStartHead == [w \in Workspaces |-> IF w = "wa" THEN main ELSE dev]
ProcessSymmetry == Permutations(Processes)
=============================================================================
