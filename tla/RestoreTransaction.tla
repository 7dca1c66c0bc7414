------------------------- MODULE RestoreTransaction -------------------------
(***************************************************************************)
(* The persistent transaction behind `neoengram restore PATH` and the part *)
(* of `neoengram recover [--abort]` that settles it after a crash          *)
(* (crates/neoengram-runtime/src/local/worktree/restore.rs).               *)
(*                                                                         *)
(* A restore copies the Index content of some tracked files back into the  *)
(* worktree.  It stages the new bytes in a transaction directory, moves    *)
(* each differing original to a backup, renames the staged file into       *)
(* place, and retires the directory.  Every durable file-system operation  *)
(* is one action, a Crash may fall between any two of them, and the user   *)
(* may change a file at any moment, because no lock binds the user.        *)
(*                                                                         *)
(* Abstractions: a file is its content; the entries of the journal are     *)
(* numbered in path order; parent directories are one level deep; a        *)
(* transaction draft has no effect outside its own directory, so creating, *)
(* journaling and staging it is one action.  The Engine journal that wraps *)
(* apply (engine/mutation.rs) is left out.                                 *)
(***************************************************************************)
EXTENDS Naturals, FiniteSets

CONSTANTS
    N,            \* number of tracked files in the restored scope
    Contents,     \* file contents
    Absent,       \* "no such file"
    Dirs,         \* parent directories below the worktree root
    Root,         \* the worktree root itself, which always exists
    Target,       \* what the Index records for each file
    Parent,       \* the parent directory of each file
    MaxCrashes,   \* bound on crashes
    MaxEdits      \* bound on user edits

Entry == 1..N

ASSUME ConstantsAssumption ==
    /\ N \in Nat
    /\ Absent \notin Contents
    /\ Root \notin Dirs
    /\ Target \in [Entry -> Contents]
    /\ Parent \in [Entry -> Dirs \cup {Root}]
    /\ MaxCrashes \in Nat
    /\ MaxEdits \in Nat

MaybeFile == Contents \cup {Absent}

Phases == {"prepared", "applying", "applied", "rolled_back"}
Presence == {"unknown", "present", "absent"}

VARIABLES
    file,      \* worktree: content at each tracked path
    dirs,      \* worktree: parent directories that exist
    txn,       \* transactions/: "none", a "draft", or a "formal" directory
    phase,     \* journal.phase
    entries,   \* journal.entries
    orig,      \* journal.entries[i].original_present
    made,      \* journal.created_directories
    staged,    \* entries whose staged file is in the transaction directory
    backup,    \* the transaction's backup of each entry
    pc,        \* control point of the running command, "idle" if none runs
    cur,       \* the entry the running command works on
    force,     \* the command's --force
    before,    \* history: file and dirs when the transaction was created
    touched,   \* history: entries the user changed since then
    raced,     \* history: entries changed between a verification and its unlink
    crashes, edits

worktree == <<file, dirs>>
journal == <<txn, phase, entries, orig, made, staged, backup>>
history == <<before, touched, raced>>
vars == <<file, dirs, txn, phase, entries, orig, made, staged, backup, pc,
          cur, force, before, touched, raced, crashes, edits>>

PCs == {"idle", "publish", "apply", "check", "back_up", "parents",
        "make_dir", "publish_file", "applied", "finish", "rb_entry",
        "rb_remove", "rb_parents", "rb_restore", "rb_dirs", "rb_phase"}

-----------------------------------------------------------------------------
(* The order in which apply (ascending) and rollback (descending) visit    *)
(* the journal entries; 0 stands for "no entry left".                      *)

After(e) == {d \in entries : d > e}
Before(e) == {d \in entries : d < e}

GoTo(point, e) == pc' = point /\ cur' = e

FirstOf(S, point) == \E d \in S : (\A x \in S : d <= x) /\ GoTo(point, d)
LastOf(S, point) == \E d \in S : (\A x \in S : d >= x) /\ GoTo(point, d)

NextEntry == IF After(cur) = {} THEN GoTo("applied", 0)
                                ELSE FirstOf(After(cur), "check")

PreviousEntry == IF Before(cur) = {} THEN GoTo("rb_dirs", 0)
                                     ELSE LastOf(Before(cur), "rb_entry")

(* Entering rollback: the last entry first.                                *)
StartRollback == IF entries = {} THEN GoTo("rb_dirs", 0)
                                 ELSE LastOf(entries, "rb_entry")

(* A rollback that gives up leaves the transaction directory where it is.  *)
GiveUp == /\ GoTo("idle", 0)
          /\ UNCHANGED <<worktree, journal, force, before, touched, raced, crashes, edits>>

-----------------------------------------------------------------------------
TypeOK ==
    /\ file \in [Entry -> MaybeFile]
    /\ dirs \subseteq Dirs
    /\ txn \in {"none", "draft", "formal"}
    /\ phase \in Phases
    /\ entries \subseteq Entry
    /\ orig \in [Entry -> Presence]
    /\ made \subseteq Dirs
    /\ staged \subseteq Entry
    /\ backup \in [Entry -> MaybeFile]
    /\ pc \in PCs
    /\ cur \in 0..N
    /\ force \in BOOLEAN
    /\ before \in [file : [Entry -> MaybeFile], dirs : SUBSET Dirs]
    /\ touched \subseteq Entry
    /\ raced \subseteq Entry
    /\ crashes \in 0..MaxCrashes
    /\ edits \in 0..MaxEdits

NoBackup == [e \in Entry |-> Absent]
NothingSeen == [e \in Entry |-> "unknown"]

Init ==
    /\ file \in [Entry -> MaybeFile]
    /\ dirs \in SUBSET Dirs
    /\ \A e \in Entry : file[e] # Absent => Parent[e] \in dirs \cup {Root}
    /\ txn = "none"
    /\ phase = "prepared"
    /\ entries = {}
    /\ orig = NothingSeen
    /\ made = {}
    /\ staged = {}
    /\ backup = NoBackup
    /\ pc = "idle"
    /\ cur = 0
    /\ force = FALSE
    /\ before = [file |-> file, dirs |-> dirs]
    /\ touched = {}
    /\ raced = {}
    /\ crashes = 0
    /\ edits = 0

-----------------------------------------------------------------------------
(* The restore command.                                                    *)

(* Under the worktree lock (which first removes drafts and refuses when a  *)
(* formal transaction exists): select the files that differ from the       *)
(* Index, refuse a modified one unless --force, then create the draft,     *)
(* write its journal and stage the target bytes.                           *)
RestoreWorktreePaths(scope, f) ==
    LET writes == {e \in scope : file[e] # Target[e]} IN
    /\ pc = "idle"
    /\ txn # "formal"
    /\ writes # {}
    /\ f \/ \A e \in writes : file[e] = Absent
    /\ txn' = "draft"
    /\ phase' = "prepared"
    /\ entries' = writes
    /\ orig' = NothingSeen
    /\ made' = {}
    /\ staged' = writes
    /\ backup' = NoBackup
    /\ GoTo("publish", 0)
    /\ force' = f
    /\ before' = [file |-> file, dirs |-> dirs]
    /\ touched' = {}
    /\ raced' = {}
    /\ UNCHANGED <<worktree, crashes, edits>>

(* publish: rename the draft directory to its formal name.                 *)
Publish ==
    /\ pc = "publish"
    /\ txn' = "formal"
    /\ GoTo("apply", 0)
    /\ UNCHANGED <<worktree, phase, entries, orig, made, staged, backup, force, history, crashes, edits>>

(* apply: the Applying phase is durable before the first file is touched.  *)
BeginApply ==
    /\ pc = "apply"
    /\ phase' = "applying"
    /\ FirstOf(entries, "check")
    /\ UNCHANGED <<worktree, txn, entries, orig, made, staged, backup, force, history, crashes, edits>>

(* Look at the destination again: a file that already matches is skipped,  *)
(* a modified one without --force sends the command into rollback, and     *)
(* otherwise original_present becomes durable before anything moves.       *)
CheckEntry ==
    /\ pc = "check"
    /\ \/ /\ file[cur] = Target[cur]
          /\ NextEntry
          /\ UNCHANGED orig
       \/ /\ file[cur] \notin {Absent, Target[cur]}
          /\ ~force
          /\ StartRollback
          /\ UNCHANGED orig
       \/ /\ file[cur] # Target[cur]
          /\ force \/ file[cur] = Absent
          /\ orig' = [orig EXCEPT ![cur] =
                        IF file[cur] = Absent THEN "absent" ELSE "present"]
          /\ GoTo(IF file[cur] = Absent THEN "parents" ELSE "back_up", cur)
    /\ UNCHANGED <<worktree, txn, phase, entries, made, staged, backup, force, history, crashes, edits>>

(* rename destination -> backup without replacing; the file may be gone.   *)
BackUp ==
    /\ pc = "back_up"
    /\ \/ /\ file[cur] = Absent
          /\ StartRollback
          /\ UNCHANGED <<file, backup>>
       \/ /\ file[cur] # Absent
          /\ backup' = [backup EXCEPT ![cur] = file[cur]]
          /\ file' = [file EXCEPT ![cur] = Absent]
          /\ GoTo("parents", cur)
    /\ UNCHANGED <<dirs, txn, phase, entries, orig, made, staged, force, history, crashes, edits>>

(* ensure_parents journals a missing directory, then creates it.           *)
EnsureParents ==
    /\ pc = "parents"
    /\ IF Parent[cur] \in dirs \cup {Root}
       THEN GoTo("publish_file", cur) /\ UNCHANGED made
       ELSE GoTo("make_dir", cur) /\ made' = made \cup {Parent[cur]}
    /\ UNCHANGED <<worktree, txn, phase, entries, orig, staged, backup, force, history, crashes, edits>>

MakeParent ==
    /\ pc = "make_dir"
    /\ dirs' = dirs \cup {Parent[cur]}
    /\ GoTo("publish_file", cur)
    /\ UNCHANGED <<file, journal, force, history, crashes, edits>>

(* rename staged -> destination without replacing a file the user created. *)
PublishFile ==
    /\ pc = "publish_file"
    /\ \/ /\ file[cur] # Absent
          /\ StartRollback
          /\ UNCHANGED <<file, staged>>
       \/ /\ file[cur] = Absent
          /\ file' = [file EXCEPT ![cur] = Target[cur]]
          /\ staged' = staged \ {cur}
          /\ NextEntry
    /\ UNCHANGED <<dirs, txn, phase, entries, orig, made, backup, force, history, crashes, edits>>

SetApplied ==
    /\ pc = "applied"
    /\ phase' = "applied"
    /\ GoTo("finish", 0)
    /\ UNCHANGED <<worktree, txn, entries, orig, made, staged, backup, force, history, crashes, edits>>

(* finish: one rename to a draft name retires the directory.               *)
Finish ==
    /\ pc = "finish"
    /\ txn' = "none"
    /\ entries' = {}
    /\ orig' = NothingSeen
    /\ made' = {}
    /\ staged' = {}
    /\ backup' = NoBackup
    /\ GoTo("idle", 0)
    /\ UNCHANGED <<worktree, phase, force, history, crashes, edits>>

-----------------------------------------------------------------------------
(* Rollback, run by a failing restore and by recover.                      *)

(* Mutant: the file at the destination is taken for the published one.     *)
OwnOutput_Unverified(e) == file[e] # Absent

(* Mutant: published files whose original was absent are not undone.       *)
Undoes_BackupsOnly(e) == orig[e] = "present" /\ backup[e] # Absent

(* Mutant: a missing backup is refused although the rename never happened. *)
RollbackRefuses_IgnoresStaged(e) == orig[e] = "present" /\ backup[e] = Absent

(* A backup, or a published file whose original was absent, has to be      *)
(* undone; the file at the destination is unlinked first, but only if the  *)
(* staged file is gone (so it was published) and it still is that file.    *)
OwnOutput(e) == file[e] = Target[e]

Undoes(e) ==
    orig[e] = "absent" \/ (orig[e] = "present" /\ backup[e] # Absent)

Unlinks(e) == Undoes(e) /\ e \notin staged /\ file[e] # Absent

RollbackRefuses(e) ==
    \/ orig[e] = "present" /\ backup[e] = Absent /\ e \notin staged
    \/ orig[e] = "absent" /\ backup[e] # Absent
    \/ Unlinks(e) /\ ~OwnOutput(e)

RollbackEntry ==
    /\ pc = "rb_entry"
    /\ IF RollbackRefuses(cur)
       THEN GiveUp
       ELSE /\ IF Unlinks(cur) THEN GoTo("rb_remove", cur)
               ELSE IF backup[cur] # Absent THEN GoTo("rb_parents", cur)
               ELSE PreviousEntry
            /\ UNCHANGED <<worktree, journal, force, history, crashes, edits>>

(* remove_file fails if the file has vanished since the check.             *)
RollbackRemove ==
    /\ pc = "rb_remove"
    /\ \/ /\ file[cur] = Absent
          /\ GiveUp
       \/ /\ file[cur] # Absent
          /\ file' = [file EXCEPT ![cur] = Absent]
          /\ IF backup[cur] # Absent THEN GoTo("rb_parents", cur) ELSE PreviousEntry
          /\ UNCHANGED <<dirs, journal, force, history, crashes, edits>>

(* ensure_restore_parents does not journal what it creates.                *)
RollbackParents ==
    /\ pc = "rb_parents"
    /\ dirs' = dirs \cup ({Parent[cur]} \ {Root})
    /\ GoTo("rb_restore", cur)
    /\ UNCHANGED <<file, journal, force, history, crashes, edits>>

RollbackRestore ==
    /\ pc = "rb_restore"
    /\ \/ /\ file[cur] # Absent
          /\ GiveUp
       \/ /\ file[cur] = Absent
          /\ file' = [file EXCEPT ![cur] = backup[cur]]
          /\ backup' = [backup EXCEPT ![cur] = Absent]
          /\ PreviousEntry
          /\ UNCHANGED <<dirs, txn, phase, entries, orig, made, staged, force, history, crashes, edits>>

(* Journaled directories are removed if they are empty.                    *)
EmptyDir(d) == \A e \in Entry : Parent[e] = d => file[e] = Absent

RollbackDirs ==
    /\ pc = "rb_dirs"
    /\ dirs' = {d \in dirs : d \in made => ~EmptyDir(d)}
    /\ GoTo("rb_phase", 0)
    /\ UNCHANGED <<file, journal, force, history, crashes, edits>>

SetRolledBack ==
    /\ pc = "rb_phase"
    /\ phase' = "rolled_back"
    /\ GoTo("finish", 0)
    /\ UNCHANGED <<worktree, txn, entries, orig, made, staged, backup, force, history, crashes, edits>>

-----------------------------------------------------------------------------
(* Mutant: recover completes whatever phase it finds.                      *)
Recover_IgnoresPhase(abort) ==
    /\ pc = "idle"
    /\ txn = "formal"
    /\ IF abort THEN StartRollback ELSE GoTo("finish", 0)
    /\ UNCHANGED <<worktree, journal, force, history, crashes, edits>>

(* recover_transaction: a fully applied restore is completed if every      *)
(* published file is still in place, and otherwise left for --abort;       *)
(* anything else is rolled back.                                           *)
Recover(abort) ==
    /\ pc = "idle"
    /\ txn = "formal"
    /\ IF abort \/ phase # "applied"
       THEN StartRollback
       ELSE (\A e \in entries : OwnOutput(e)) /\ GoTo("finish", 0)
    /\ UNCHANGED <<worktree, journal, force, history, crashes, edits>>

(* The process dies; what is on disk stays.                                *)
Crash ==
    /\ pc # "idle"
    /\ crashes < MaxCrashes
    /\ crashes' = crashes + 1
    /\ GoTo("idle", 0)
    /\ UNCHANGED <<worktree, journal, force, history, edits>>

(* The user writes or deletes a tracked file (in an existing directory).   *)
UserEdit(e, c) ==
    /\ edits < MaxEdits
    /\ c # file[e]
    /\ Parent[e] \in dirs \cup {Root}
    /\ file' = [file EXCEPT ![e] = c]
    /\ edits' = edits + 1
    /\ touched' = touched \cup {e}
    /\ raced' = IF pc = "rb_remove" /\ cur = e THEN raced \cup {e} ELSE raced
    /\ UNCHANGED <<dirs, journal, pc, cur, force, before, crashes>>

-----------------------------------------------------------------------------
Command == Publish \/ BeginApply \/ CheckEntry \/ BackUp \/ EnsureParents
           \/ MakeParent \/ PublishFile \/ SetApplied \/ Finish
           \/ RollbackEntry \/ RollbackRemove \/ RollbackParents
           \/ RollbackRestore \/ RollbackDirs \/ SetRolledBack

Next ==
    \/ Command
    \/ \E scope \in SUBSET Entry, f \in BOOLEAN : RestoreWorktreePaths(scope, f)
    \/ \E abort \in BOOLEAN : Recover(abort)
    \/ Crash
    \/ \E e \in Entry, c \in MaybeFile : UserEdit(e, c)

(* A running command keeps running, and an operator who finds an           *)
(* unfinished transaction eventually runs recover.                         *)
Fairness == WF_vars(Command) /\ WF_vars(\E abort \in BOOLEAN : Recover(abort))

Spec == Init /\ [][Next]_vars /\ Fairness

-----------------------------------------------------------------------------
(* Properties.                                                             *)

(* A rolled-back restore has put every path the user left alone back to    *)
(* what it was, keeps no backup that finish would throw away, and, if the  *)
(* user interfered with nothing, leaves no directory of its own behind     *)
(* (RestoreTransaction::rollback, whatever crash preceded it).             *)
RollbackRestoresOriginal ==
    txn = "formal" /\ phase = "rolled_back" =>
        /\ \A e \in Entry \ touched : file[e] = before.file[e]
        /\ backup = NoBackup
        /\ touched = {} => dirs = before.dirs

(* No step of restore or recover destroys content the user could miss:     *)
(* what disappears from the worktree and the backups is the target itself  *)
(* (kept in the object store), the user's own edit, an original discarded  *)
(* by the finish of a fully applied --force restore, or an edit that fell  *)
(* between the verification of a published file and its unlink             *)
(* (remove_published_target, rename_noreplace_durable).                    *)
Lost(e) == {file[e], backup[e]} \ {file'[e], backup'[e], Absent, Target[e]}

OnlyOwnOutputDestroyed ==
    [][\A e \in Entry :
         Lost(e) # {} =>
            \/ edits' # edits
            \/ pc = "finish" /\ phase = "applied" /\ force
            \/ pc = "rb_remove" /\ e \in raced]_vars

(* A rollback died after it had moved an original back: the journal still  *)
(* says the original was there, backup and staged file are both gone, and  *)
(* every later rollback takes the original for lost (restore.rs:391).      *)
Stranded ==
    /\ pc = "idle"
    /\ \E e \in entries : orig[e] = "present" /\ backup[e] = Absent /\ e \notin staged

(* A published transaction is eventually completed or rolled back, unless  *)
(* an edit of the user stands in the way or a rollback was interrupted in  *)
(* that one place (rollback, recover_transaction).                         *)
TransactionSettles == txn = "formal" ~> (txn = "none" \/ edits > 0 \/ Stranded)

(* What docs/reference/cli.md:390 promises of recover, and lines 393-394   *)
(* limit only by the user's own changes: an unfinished restore goes back   *)
(* to where it began, however often the recovery itself is interrupted.    *)
RecoverSettles == txn = "formal" ~> (txn = "none" \/ edits > 0)

(* The transaction is all-or-nothing over the tracked files, at whatever   *)
(* point it is interrupted (module AtomicChange): up to the first edit by  *)
(* the user the specification implements AtomicChange!Spec.                *)
Atomic == INSTANCE AtomicChange WITH
    Worlds <- [Entry -> MaybeFile],
    world <- IF txn = "formal" THEN before.file ELSE file,
    pending <- IF txn = "formal"
               THEN {[e \in Entry |-> IF e \in entries THEN Target[e] ELSE before.file[e]]}
               ELSE {}

AllOrNothing == Atomic!Init /\ [][Atomic!Next \/ edits' > 0]_(Atomic!vars)
=============================================================================
