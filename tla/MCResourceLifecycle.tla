------------------------ MODULE MCResourceLifecycle ------------------------
EXTENDS ResourceLifecycle

Case(vs, absent, retries, restores, holds, crashes, js, refusals, interrupts) ==
    [volumes |-> vs, absent |-> absent,
     left |-> [retries |-> retries, restores |-> restores, holds |-> holds, crashes |-> crashes,
               jobs |-> js, refusals |-> refusals, interrupts |-> interrupts]]

(* A retry, a restore and an Agent crash; a hold, refused commands and an  *)
(* interrupted pass; a Job and a crash on a scope with a missing root; a   *)
(* resource without any volume (only such a restore completes, see         *)
(* RestoreNotRefused); two volumes whose reports race.                     *)
Cases ==
    {Case({1}, {}, 1, 1, 0, 1, 0, 0, 0),
     Case({1}, {}, 1, 0, 1, 0, 0, 1, 1),
     Case({1}, {2}, 1, 0, 0, 1, 1, 0, 0),
     Case({}, {}, 1, 1, 1, 0, 0, 0, 1),
     Case({1, 2}, {1}, 0, 0, 0, 0, 0, 0, 0)}

OneRestore == {Case({1}, {}, 0, 1, 0, 0, 0, 0, 0)}
=============================================================================
