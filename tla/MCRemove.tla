------------------------------ MODULE MCRemove ------------------------------
(* Tracked files whose Index content is "o".                               *)
EXTENDS RemoveTransaction

MCRecorded == [e \in 1..N |-> "o"]
=============================================================================
