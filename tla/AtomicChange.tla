---------------------------- MODULE AtomicChange ----------------------------
(***************************************************************************)
(* What a worktree transaction of the standalone repository promises: an   *)
(* all-or-nothing change of the world.  While a change is pending the      *)
(* world is the old one; the change then either happens entirely or not at *)
(* all, however often the program crashes and recovers in between.         *)
(* checkout, rm and restore are each shown to implement this module.       *)
(***************************************************************************)
CONSTANT Worlds   \* the states a transaction moves between

VARIABLES
    world,    \* the state outside observers may rely on
    pending   \* the state the pending change leads to: a set of at most one

vars == <<world, pending>>

Init == world \in Worlds /\ pending = {}

Begin(w) == pending = {} /\ pending' = {w} /\ world' = world

Commit == \E w \in pending : world' = w /\ pending' = {}

Abort == pending # {} /\ world' = world /\ pending' = {}

Next == (\E w \in Worlds : Begin(w)) \/ Commit \/ Abort

Spec == Init /\ [][Next]_vars
=============================================================================
