------------------------- MODULE RemoveTransaction --------------------------
(***************************************************************************)
(* The persistent transaction behind `neoengram rm PATH [--cached]         *)
(* [--force]` and its settlement by `neoengram recover [--abort]`          *)
(* (crates/neoengram-runtime/src/local/worktree/remove.rs).                *)
(*                                                                         *)
(* rm moves every tracked file of its scope into the transaction's backup  *)
(* and then removes the files from the Index.  The Index decides: before   *)
(* it is written an error, a crash and recover all bring the files back;   *)
(* once it is written recover only completes the cleanup.                  *)
(*                                                                         *)
(* A path is absent, a file with a content, or something rm refuses to     *)
(* move (Other: a directory or a special file).  The Index is "before" or  *)
(* "after" because the write lock keeps other commands away.  Left out:    *)
(* parent directories (rm removes none and recreates the missing ones) and *)
(* the draft directory, invisible until it is renamed.                     *)
(***************************************************************************)
EXTENDS Integers

CONSTANTS
    N,               \* files in the scope of the rm
    Contents,        \* file contents
    Absent, Other,
    Recorded,        \* the content the Index records for each file
    CachedFlags,     \* the values of --cached that are tried
    MaxCrashes, MaxEdits, MaxFaults

Entry == 1..N
Node == Contents \cup {Absent, Other}

ASSUME ConstantsAssumption ==
    /\ N \in Nat \ {0}
    /\ Absent \notin Contents /\ Other \notin Contents /\ Absent # Other
    /\ Recorded \in [Entry -> Contents]
    /\ CachedFlags \subseteq BOOLEAN
    /\ MaxCrashes \in Nat /\ MaxEdits \in Nat /\ MaxFaults \in Nat

EntryStates == {"planned", "observed_absent", "move_intent"}

VARIABLES
    file,      \* worktree: what is at each path
    index,     \* the WorkspaceIndex: "before" or "after"
    txn,       \* is there a transaction directory?
    state,     \* its STATE: "prepared" or "index_committed"
    entry,     \* its manifest: the state of each entry
    backup,    \* its backup directory
    pc,        \* control point of the running command
    cur,       \* the entry the command is at
    moved,     \* entries the running command restores when it rolls back
    force,
    before,    \* history: the worktree when the transaction was created
    touched,   \* history: entries the user changed since then
    raced,     \* history: entries changed between a check and its rename
    stuck,     \* history: recovery refused although the user changed nothing
    crashes, edits, faults

journal == <<txn, state, entry, backup>>
control == <<pc, cur, moved, force>>
history == <<before, touched, raced, stuck>>
bounds == <<crashes, edits, faults>>
vars == <<file, index, txn, state, entry, backup, pc, cur, moved, force,
          before, touched, raced, stuck, crashes, edits, faults>>

PCs == {"idle", "check", "rename", "index", "mark", "finish", "restore", "restore_rename"}

TypeOK ==
    /\ file \in [Entry -> Node]
    /\ index \in {"before", "after"}
    /\ txn \in BOOLEAN
    /\ state \in {"prepared", "index_committed"}
    /\ entry \in [Entry -> EntryStates]
    /\ backup \in [Entry -> Node]
    /\ pc \in PCs
    /\ cur \in 0..(N + 1)
    /\ pc \in {"rename", "restore_rename"} => cur \in Entry
    /\ pc = "check" => cur > 0
    /\ pc = "restore" => cur <= N
    /\ moved \subseteq Entry
    /\ force \in BOOLEAN
    /\ before \in [Entry -> Node]
    /\ touched \subseteq Entry
    /\ raced \subseteq Entry
    /\ stuck \in BOOLEAN
    /\ crashes \in 0..MaxCrashes
    /\ edits \in 0..MaxEdits
    /\ faults \in 0..MaxFaults

Init ==
    /\ file \in [Entry -> Node]
    /\ index = "before"
    /\ txn = FALSE
    /\ state = "prepared"
    /\ entry = [e \in Entry |-> "planned"]
    /\ backup = [e \in Entry |-> Absent]
    /\ pc = "idle"
    /\ cur = 0
    /\ moved = {}
    /\ force = FALSE
    /\ before = file
    /\ touched = {}
    /\ raced = {}
    /\ stuck = FALSE
    /\ crashes = 0
    /\ edits = 0
    /\ faults = 0

-----------------------------------------------------------------------------
(* ensure_workspace_is_clean: unless forced, a file must be what the Index *)
(* records, or already gone.                                               *)
Clean == \A e \in Entry : file[e] \in {Recorded[e], Absent}

(* rm --cached only writes the Index.                                      *)
RemoveCached(f) ==
    /\ TRUE \in CachedFlags
    /\ pc = "idle" /\ ~txn /\ index = "before"
    /\ f \/ Clean
    /\ index' = "after"
    /\ UNCHANGED <<file, journal, control, history, bounds>>

(* RemovalTransaction::create: the manifest, both Indexes and PREPARED are *)
(* durable before the directory gets its formal name.                      *)
RemoveTrackedPath(f) ==
    /\ FALSE \in CachedFlags
    /\ pc = "idle" /\ ~txn /\ index = "before"
    /\ f \/ Clean
    /\ txn' = TRUE
    /\ state' = "prepared"
    /\ entry' = [e \in Entry |-> "planned"]
    /\ backup' = [e \in Entry |-> Absent]
    /\ pc' = "check"
    /\ cur' = 1
    /\ moved' = {}
    /\ force' = f
    /\ before' = file
    /\ touched' = {}
    /\ raced' = {}
    /\ UNCHANGED <<file, index, stuck, bounds>>

(* rollback_operation: undo the moves of this process, last one first.     *)
StartRollback == pc' = "restore" /\ cur' = N

(* Mutant: no second look at the content before the rename.                *)
Movable_Unverified(e) == file[e] # Other

(* move_workspace_file up to the journaled intent.                         *)
Movable(e) == IF force THEN file[e] # Other ELSE file[e] = Recorded[e]

CheckEntry ==
    /\ pc = "check"
    /\ \/ /\ cur > N
          /\ pc' = "index"
          /\ UNCHANGED <<cur, entry>>
       \/ /\ cur <= N /\ file[cur] = Absent
          /\ entry' = [entry EXCEPT ![cur] = "observed_absent"]
          /\ cur' = cur + 1
          /\ UNCHANGED pc
       \/ /\ cur <= N /\ file[cur] # Absent /\ Movable(cur)
          /\ entry' = [entry EXCEPT ![cur] = "move_intent"]
          /\ pc' = "rename"
          /\ UNCHANGED cur
       \/ /\ cur <= N /\ file[cur] # Absent /\ ~Movable(cur)
          /\ StartRollback
          /\ UNCHANGED entry
    /\ UNCHANGED <<file, index, txn, state, backup, moved, force, history, bounds>>

(* The rename into the backup, which fails when the file has vanished.     *)
MoveEntry ==
    /\ pc = "rename"
    /\ \/ /\ file[cur] = Absent
          /\ StartRollback
          /\ UNCHANGED <<file, backup, moved>>
       \/ /\ file[cur] # Absent
          /\ backup' = [backup EXCEPT ![cur] = file[cur]]
          /\ file' = [file EXCEPT ![cur] = Absent]
          /\ moved' = moved \cup {cur}
          /\ cur' = cur + 1
          /\ pc' = "check"
    /\ UNCHANGED <<index, txn, state, entry, force, history, bounds>>

(* The Index CAS: it succeeds, fails without effect (rollback), or fails   *)
(* after it took effect (the transaction is kept for recover).             *)
WriteIndex ==
    /\ pc = "index"
    /\ \/ index' = "after" /\ pc' = "mark" /\ UNCHANGED <<cur, faults>>
       \/ /\ faults < MaxFaults
          /\ faults' = faults + 1
          /\ StartRollback
          /\ UNCHANGED index
       \/ /\ faults < MaxFaults
          /\ faults' = faults + 1
          /\ index' = "after"
          /\ pc' = "idle"
          /\ UNCHANGED cur
    /\ UNCHANGED <<file, journal, moved, force, history, crashes, edits>>

MarkIndexCommitted ==
    /\ pc = "mark"
    /\ state' = "index_committed"
    /\ pc' = "finish"
    /\ UNCHANGED <<file, index, txn, entry, backup, cur, moved, force, history, bounds>>

(* finish, and the last step of every rollback: the directory goes, with   *)
(* whatever its backup still holds.                                        *)
Finish ==
    /\ pc = "finish"
    /\ txn' = FALSE
    /\ backup' = [e \in Entry |-> Absent]
    /\ pc' = "idle"
    /\ UNCHANGED <<file, index, state, entry, cur, moved, force, history, bounds>>

-----------------------------------------------------------------------------
(* Recovery stops and keeps the transaction.                               *)
Refuse ==
    /\ pc' = "idle"
    /\ stuck' = (stuck \/ touched = {})
    /\ UNCHANGED <<cur, before, touched, raced>>

(* Mutant: a file that is back in place is taken for a lost one.           *)
InPlace_Never(e) == FALSE

(* restore_observed_move: exactly one of the file and its backup is there. *)
Restorable(e) == file[e] = Absent /\ backup[e] # Absent
InPlace(e) == file[e] \in Contents /\ backup[e] = Absent

RestoreEntry ==
    /\ pc = "restore"
    /\ \/ /\ cur = 0
          /\ pc' = "finish"
          /\ UNCHANGED <<cur, history>>
       \/ /\ cur > 0
          /\ cur \notin moved \/ InPlace(cur)
          /\ cur' = cur - 1
          /\ UNCHANGED <<pc, history>>
       \/ /\ cur > 0
          /\ cur \in moved /\ Restorable(cur) /\ backup[cur] # Other
          /\ pc' = "restore_rename"
          /\ UNCHANGED <<cur, history>>
       \/ /\ cur > 0
          /\ cur \in moved /\ ~InPlace(cur) /\ ~(Restorable(cur) /\ backup[cur] # Other)
          /\ Refuse
    /\ UNCHANGED <<file, index, journal, moved, force, bounds>>

(* rename_noreplace_durable never replaces a file that appeared meanwhile. *)
RestoreRename ==
    /\ pc = "restore_rename"
    /\ \/ /\ file[cur] # Absent
          /\ Refuse
          /\ UNCHANGED <<file, backup>>
       \/ /\ file[cur] = Absent
          /\ file' = [file EXCEPT ![cur] = backup[cur]]
          /\ backup' = [backup EXCEPT ![cur] = Absent]
          /\ cur' = cur - 1
          /\ pc' = "restore"
          /\ UNCHANGED history
    /\ UNCHANGED <<index, txn, state, entry, moved, force, bounds>>

(* Mutant: recovery trusts the moves of its own process, not the manifest. *)
Recover_ForgetsManifest(abort) ==
    /\ pc = "idle" /\ txn
    /\ \/ index = "after" /\ ~abort /\ pc' = "finish" /\ UNCHANGED cur
       \/ index = "before" /\ StartRollback
    /\ UNCHANGED <<file, index, journal, moved, force, history, bounds>>

(* Mutant: --abort rolls back whatever the Index says.                     *)
Recover_AbortRollsBack(abort) ==
    /\ pc = "idle" /\ txn
    /\ \/ index = "after" /\ ~abort /\ pc' = "finish" /\ UNCHANGED <<cur, moved>>
       \/ /\ index = "before" \/ abort
          /\ moved' = {e \in Entry : entry[e] = "move_intent"}
          /\ StartRollback
    /\ UNCHANGED <<file, index, journal, force, history, bounds>>

(* recover_transaction: the Index tells which way to go.                   *)
Recover(abort) ==
    /\ pc = "idle" /\ txn
    /\ \/ /\ index = "after" /\ ~abort
          /\ pc' = "finish"
          /\ UNCHANGED <<cur, moved, history>>
       \/ /\ index = "before" /\ state = "prepared"
          /\ \A e \in Entry : entry[e] # "move_intent" => backup[e] = Absent
          /\ moved' = {e \in Entry : entry[e] = "move_intent"}
          /\ StartRollback
          /\ UNCHANGED history
       \/ /\ index = "before"
          /\ \/ state # "prepared"
             \/ \E e \in Entry : entry[e] # "move_intent" /\ backup[e] # Absent
          /\ Refuse
          /\ UNCHANGED moved
    /\ UNCHANGED <<file, index, journal, force, bounds>>

-----------------------------------------------------------------------------
Crash ==
    /\ pc # "idle"
    /\ crashes < MaxCrashes
    /\ crashes' = crashes + 1
    /\ pc' = "idle"
    /\ moved' = {}
    /\ UNCHANGED <<file, index, journal, cur, force, history, edits, faults>>

(* The user writes, deletes or replaces a file.                            *)
UserEdit(e, c) ==
    /\ edits < MaxEdits
    /\ c # file[e]
    /\ file' = [file EXCEPT ![e] = c]
    /\ edits' = edits + 1
    /\ touched' = touched \cup {e}
    /\ raced' = IF pc = "rename" /\ cur = e THEN raced \cup {e} ELSE raced
    /\ UNCHANGED <<index, journal, control, before, stuck, crashes, faults>>

Command == CheckEntry \/ MoveEntry \/ WriteIndex \/ MarkIndexCommitted \/ Finish
           \/ RestoreEntry \/ RestoreRename

Next ==
    \/ Command
    \/ \E f \in BOOLEAN : RemoveTrackedPath(f) \/ RemoveCached(f)
    \/ \E abort \in BOOLEAN : Recover(abort)
    \/ Crash
    \/ \E e \in Entry, c \in Node : UserEdit(e, c)

Safety == Init /\ [][Next]_vars

(* A running command keeps running; someone runs recover (without --abort) *)
(* on an unfinished transaction.                                           *)
Spec == Safety /\ WF_vars(Command) /\ WF_vars(Recover(FALSE))

-----------------------------------------------------------------------------
(* Once the Index has dropped the files the rm stands: whatever write      *)
(* fails, whoever crashes and whichever recover is run, --abort included,  *)
(* the Index keeps its new value and no file comes back from the backup;   *)
(* only the user changes a path (remove_workspace_and_update_index,        *)
(* recover_transaction).                                                   *)
CommittedStaysRemoved ==
    [][index = "after" =>
         /\ index' = "after"
         /\ \A e \in Entry : file'[e] # file[e] => edits' # edits]_vars

(* A transaction that ends without the Index having been written leaves    *)
(* every file the user did not touch exactly as it was before the rm, and  *)
(* discards no backup (RemovalTransaction::rollback, recover_transaction). *)
RollbackRestoresOriginal ==
    txn /\ pc = "finish" /\ index = "before" =>
        \A e \in Entry : backup[e] = Absent /\ (e \notin touched => file[e] = before[e])

(* An rm without --force never destroys content the Index does not record, *)
(* unless the user wrote it between the check and the rename of that file  *)
(* (move_workspace_file).                                                  *)
Lost(e) == {file[e], backup[e]} \ {file'[e], backup'[e], Absent, Recorded[e]}

UnforcedKeepsEdits ==
    [][\A e \in Entry : Lost(e) # {} => edits' # edits \/ force \/ e \in raced]_vars

(* Recovery never refuses a transaction whose files the user left alone,   *)
(* however often it was interrupted (restore_observed_move).               *)
RecoverySettles == ~stuck

(* An unfinished rm is eventually completed or rolled back, unless an edit *)
(* of the user stands in the way.                                          *)
TransactionSettles == txn ~> (~txn \/ edits > 0)

(* Files and Index change together or not at all: up to the first edit by  *)
(* the user the specification implements AtomicChange!Spec, but for the    *)
(* single Index write of rm --cached.                                      *)
World(f, i) == [files |-> f, index |-> i]

Worlds == {World(f, i) : f \in [Entry -> Node], i \in {"before", "after"}}

Atomic == INSTANCE AtomicChange WITH
    world <- IF txn THEN World(before, "before") ELSE World(file, index),
    pending <- IF txn THEN {World([e \in Entry |-> Absent], "after")} ELSE {}

AllOrNothing == Atomic!Init /\ [][Atomic!Next \/ RemoveCached(TRUE) \/ edits' > 0]_(Atomic!vars)
=============================================================================
