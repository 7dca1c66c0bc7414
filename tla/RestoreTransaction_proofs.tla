------------------- MODULE RestoreTransaction_proofs -------------------
(***************************************************************************)
(* restore and its recovery, for any number of files, directories, crashes *)
(* and edits.  RollbackRestoresOriginal is not inductive: it needs what    *)
(* the journal tells of every file at every point (EntryInv, SameInv), that*)
(* rollback leaves the entries it has passed undone (UndoneInv), also when *)
(* it is interrupted and starts again, and that the journaled directories  *)
(* are exactly the ones the transaction made (DirInv).  The refinement     *)
(* also needs that apply has published the entries it has passed           *)
(* (PassedInv).                                                            *)
(***************************************************************************)
EXTENDS RestoreTransaction, TLAPS

ApplyPoints == {"check", "back_up", "parents", "make_dir", "publish_file"}
UndoPoints == {"rb_entry", "rb_remove", "rb_parents", "rb_restore"}

(* Which control points go with which transaction and phase.               *)
PhaseInv ==
    /\ pc \in ApplyPoints \cup UndoPoints => cur \in entries
    /\ pc \notin {"idle", "publish"} => txn = "formal"
    /\ txn = "draft" => pc \in {"idle", "publish"} /\ phase = "prepared"
    /\ txn = "none" => pc = "idle" /\ entries = {}
    /\ pc = "publish" => txn = "draft"
    /\ pc = "apply" => phase = "prepared"
    /\ pc \in ApplyPoints \cup {"applied"} => phase = "applying"
    /\ pc = "finish" => phase \in {"applied", "rolled_back"}

(* What the journal, the backup and the staged file of an entry tell.      *)
EntryOk(e) ==
    /\ e \notin entries => orig[e] = "unknown"
    /\ orig[e] \in {"unknown", "absent"} => backup[e] = Absent
    /\ orig[e] = "unknown" /\ e \in entries => e \in staged
    /\ ~force => orig[e] # "present"
EntryInv == \A e \in Entry : EntryOk(e)

(* Where the original of a file is that the user has left alone.           *)
SameOk(e) ==
    e \notin touched =>
        /\ orig[e] = "unknown" => file[e] = before.file[e]
        /\ orig[e] = "absent" =>
            /\ before.file[e] = Absent /\ file[e] \in {Absent, Target[e]}
            /\ e \in staged => file[e] = Absent
        /\ orig[e] = "present" =>
            IF backup[e] = Absent THEN file[e] = before.file[e]
            ELSE backup[e] = before.file[e] /\ file[e] \in {Absent, Target[e]}
SameInv == txn # "none" => \A e \in Entry : SameOk(e)

(* What the running command knows of its entry.                            *)
PointInv ==
    /\ txn = "draft" \/ pc = "apply" => \A e \in Entry : orig[e] = "unknown"
    /\ pc \in ApplyPoints => \A d \in entries : d > cur => orig[d] = "unknown"
    /\ pc = "check" => orig[cur] = "unknown"
    /\ pc = "back_up" => orig[cur] = "present" /\ backup[cur] = Absent /\ cur \in staged
    /\ pc \in {"parents", "make_dir", "publish_file"} =>
        /\ cur \in staged
        /\ orig[cur] = "absent" \/ (orig[cur] = "present" /\ backup[cur] # Absent)
    /\ pc = "rb_remove" =>
        /\ orig[cur] = "absent" \/ (orig[cur] = "present" /\ backup[cur] # Absent)
        /\ cur \notin raced => file[cur] = Target[cur]
    /\ pc \in {"rb_parents", "rb_restore"} => orig[cur] = "present" /\ backup[cur] # Absent

(* The entries that rollback has passed are as they were.                  *)
Undone(e) == backup[e] = Absent /\ (e \notin touched => file[e] = before.file[e])
UndoneInv ==
    /\ pc \in UndoPoints => \A d \in entries : d > cur => Undone(d)
    /\ pc \in {"rb_dirs", "rb_phase"} => \A d \in entries : Undone(d)
    /\ txn = "formal" /\ phase = "rolled_back" => \A d \in entries : Undone(d)

(* The directories: every file is in one, and the journal names the ones   *)
(* that were not there before.                                             *)
ParentInv ==
    /\ \A e \in Entry : file[e] # Absent => Parent[e] \in dirs \cup {Root}
    /\ txn # "none" =>
        \A e \in Entry : before.file[e] # Absent => Parent[e] \in before.dirs \cup {Root}
    /\ pc = "make_dir" => Parent[cur] \in made
    /\ pc \in {"publish_file", "rb_restore"} => Parent[cur] \in dirs \cup {Root}
DirInv ==
    txn # "none" =>
        /\ before.dirs \subseteq dirs /\ made \cap before.dirs = {}
        /\ touched = {} => dirs \subseteq before.dirs \cup made
        /\ touched = {} /\ (pc = "rb_phase" \/ (txn = "formal" /\ phase = "rolled_back")) =>
            dirs = before.dirs

(* Until the first edit, the entries that apply has passed are published.  *)
PassedInv ==
    /\ edits = 0 => touched = {}
    /\ edits = 0 /\ pc \in ApplyPoints => \A d \in entries : d < cur => file[d] = Target[d]
    /\ edits = 0 /\ (pc = "applied" \/ (pc = "finish" /\ phase = "applied")) =>
        \A d \in entries : file[d] = Target[d]

IInv ==
    /\ TypeOK /\ PhaseInv /\ EntryInv /\ SameInv /\ PointInv /\ UndoneInv /\ ParentInv
    /\ DirInv /\ PassedInv

-----------------------------------------------------------------------------
(* Where the steps from entry to entry lead.                               *)
ToNext ==
    /\ cur' \in 0..N
    /\ \/ pc' = "applied" /\ \A d \in entries : d < cur \/ d = cur
       \/ /\ pc' = "check" /\ cur' \in entries /\ cur' > cur
          /\ \A d \in entries : (d > cur' => d > cur) /\ (d < cur' => d < cur \/ d = cur)

ToPrevious ==
    /\ cur' \in 0..N /\ cur' # cur
    /\ \/ pc' = "rb_dirs" /\ \A d \in entries : d > cur \/ d = cur
       \/ pc' = "rb_entry" /\ cur' \in entries
    /\ \A d \in entries : d > cur' => d > cur \/ d = cur

ToRollback ==
    /\ cur' \in 0..N
    /\ \/ pc' = "rb_dirs" /\ entries = {}
       \/ pc' = "rb_entry" /\ cur' \in entries
    /\ \A d \in entries : ~(d > cur')

LEMMA NextEntryFacts ==
  ASSUME entries \subseteq Entry, cur \in Entry, NextEntry
  PROVE  ToNext
  <1>. USE ConstantsAssumption DEF ConstantsAssumption, Entry, GoTo, ToNext
  <1>1. CASE After(cur) = {}
    BY <1>1 DEF NextEntry, After
  <1>2. CASE After(cur) # {}
    BY <1>2 DEF NextEntry, After, FirstOf
  <1>. QED BY <1>1, <1>2

LEMMA PreviousEntryFacts ==
  ASSUME entries \subseteq Entry, cur \in Entry, PreviousEntry
  PROVE  ToPrevious
  <1>. USE ConstantsAssumption DEF ConstantsAssumption, Entry, GoTo, ToPrevious
  <1>1. CASE Before(cur) = {}
    BY <1>1 DEF PreviousEntry, Before
  <1>2. CASE Before(cur) # {}
    BY <1>2 DEF PreviousEntry, Before, LastOf
  <1>. QED BY <1>1, <1>2

LEMMA StartRollbackFacts ==
  ASSUME entries \subseteq Entry, StartRollback
  PROVE  ToRollback
  <1>. USE ConstantsAssumption DEF ConstantsAssumption, Entry, GoTo, ToRollback
  <1>1. CASE entries = {}
    BY <1>1 DEF StartRollback
  <1>2. CASE entries # {}
    BY <1>2 DEF StartRollback, LastOf
  <1>. QED BY <1>1, <1>2

(* A repository without a transaction satisfies the invariant.             *)
LEMMA InitIInv == Init => IInv
  <1>. SUFFICES ASSUME Init PROVE IInv
    OBVIOUS
  <1>. USE ConstantsAssumption DEF ConstantsAssumption, Init, Entry, MaybeFile, ApplyPoints,
           UndoPoints
  <1>1. TypeOK
    <2>1. force \in BOOLEAN
      OBVIOUS
    <2>2. cur \in 0..N /\ crashes \in 0..MaxCrashes /\ edits \in 0..MaxEdits
      OBVIOUS
    <2>3. before \in [file : [Entry -> MaybeFile], dirs : SUBSET Dirs]
      OBVIOUS
    <2>4. orig \in [Entry -> Presence] /\ backup \in [Entry -> MaybeFile]
      BY DEF NothingSeen, NoBackup, Presence
    <2>. QED BY <2>1, <2>2, <2>3, <2>4 DEF TypeOK, Phases, PCs
  <1>2. PhaseInv /\ EntryInv /\ SameInv
    BY DEF PhaseInv, EntryInv, EntryOk, SameInv, NothingSeen, NoBackup
  <1>3. PointInv /\ UndoneInv
    BY DEF PointInv, UndoneInv
  <1>4. ParentInv /\ DirInv /\ PassedInv
    BY DEF ParentInv, DirInv, PassedInv
  <1>. QED BY <1>1, <1>2, <1>3, <1>4 DEF IInv

(* RestoreWorktreePaths keeps the invariant.                               *)
LEMMA RestoreWorktreePathsStep ==
  ASSUME IInv, NEW scope \in SUBSET Entry, NEW f \in BOOLEAN, RestoreWorktreePaths(scope, f)
  PROVE  IInv'
  <1>. USE ConstantsAssumption DEF ConstantsAssumption, IInv, Entry, MaybeFile,
      ApplyPoints, UndoPoints
  <1>1. file' = file /\ dirs' = dirs /\ crashes' = crashes /\ edits' = edits
    BY DEF RestoreWorktreePaths, NothingSeen, NoBackup, Presence, worktree, journal,
        history, GiveUp
  <1>2. /\ pc = "idle" /\ pc' = "publish" /\ cur' = 0 /\ txn # "formal" /\ txn' = "draft"
        /\ phase' = "prepared" /\ orig' = NothingSeen /\ backup' = NoBackup /\ made' = {}
        /\ touched' = {} /\ raced' = {} /\ force' = f /\ entries' = staged'
        /\ before' = [file |-> file, dirs |-> dirs]
    BY <1>1 DEF RestoreWorktreePaths, NothingSeen, NoBackup, Presence, TypeOK,
        PhaseInv, GoTo
  <1>3. staged' \subseteq Entry
    BY <1>1, <1>2 DEF RestoreWorktreePaths, NothingSeen, NoBackup, Presence, TypeOK,
        PhaseInv, GoTo
  <1>4. before'.file = file /\ before'.dirs = dirs
    BY <1>1, <1>2, <1>3 DEF RestoreWorktreePaths, NothingSeen, NoBackup, Presence,
        TypeOK, PhaseInv, GoTo
  <1>5. orig' \in [Entry -> Presence] /\ backup' \in [Entry -> MaybeFile]
    BY <1>1, <1>2, <1>3, <1>4 DEF RestoreWorktreePaths, NothingSeen, NoBackup,
        Presence, TypeOK, PhaseInv, GoTo
  <1>6. TypeOK'
    BY <1>1, <1>2, <1>3, <1>4, <1>5 DEF TypeOK, Phases, Presence, PCs, NoBackup,
        NothingSeen
  <1>7. PhaseInv'
    BY <1>1, <1>2, <1>3, <1>4, <1>5 DEF TypeOK, PhaseInv, PCs
  <1>8. EntryInv'
    BY <1>1, <1>2, <1>3, <1>4, <1>5 DEF TypeOK, PhaseInv, EntryInv, EntryOk,
        PointInv, NoBackup, NothingSeen, Presence
  <1>9. SameInv'
    BY <1>1, <1>2, <1>3, <1>4, <1>5 DEF TypeOK, PhaseInv, EntryInv, EntryOk,
        SameInv, SameOk, PointInv, NoBackup, NothingSeen, Presence
  <1>10. PointInv'
    BY <1>1, <1>2, <1>3, <1>4, <1>5 DEF TypeOK, PhaseInv, EntryInv, EntryOk,
        PointInv, NoBackup, NothingSeen, Presence, Unlinks, Undoes, RollbackRefuses,
        OwnOutput
  <1>11. UndoneInv'
    BY <1>1, <1>2, <1>3, <1>4, <1>5 DEF TypeOK, PhaseInv, EntryInv, EntryOk,
        SameInv, SameOk, PointInv, UndoneInv, Undone, Presence, Unlinks, Undoes,
        RollbackRefuses, OwnOutput
  <1>12. ParentInv'
    BY <1>1, <1>2, <1>3, <1>4, <1>5 DEF TypeOK, PhaseInv, EntryInv, EntryOk,
        PointInv, ParentInv
  <1>13. DirInv'
    BY <1>1, <1>2, <1>3, <1>4, <1>5 DEF TypeOK, PhaseInv, EntryInv, EntryOk,
        SameInv, SameOk, UndoneInv, Undone, ParentInv, DirInv, EmptyDir
  <1>14. PassedInv'
    BY <1>1, <1>2, <1>3, <1>4, <1>5 DEF TypeOK, PhaseInv, PointInv, PassedInv
  <1>. QED BY <1>6, <1>7, <1>8, <1>9, <1>10, <1>11, <1>12, <1>13, <1>14

(* Publish keeps the invariant.                                            *)
LEMMA PublishStep ==
  ASSUME IInv, Publish
  PROVE  IInv'
  <1>. USE ConstantsAssumption DEF ConstantsAssumption, IInv, Entry, MaybeFile,
      ApplyPoints, UndoPoints
  <1>1. file' = file /\ dirs' = dirs /\ phase' = phase /\ entries' = entries /\
            orig' = orig /\ made' = made /\ staged' = staged /\ backup' = backup /\
            force' = force /\ before' = before /\ touched' = touched /\ raced' =
            raced /\ crashes' = crashes /\ edits' = edits
    BY DEF Publish, worktree, journal, history, GiveUp
  <1>2. pc = "publish" /\ pc' = "apply" /\ cur' = 0 /\ txn' = "formal"
    BY <1>1 DEF Publish, TypeOK, PhaseInv, GoTo
  <1>3. TypeOK'
    BY <1>1, <1>2 DEF TypeOK, Phases, Presence, PCs, NoBackup, NothingSeen
  <1>4. PhaseInv'
    BY <1>1, <1>2 DEF TypeOK, PhaseInv, PCs
  <1>5. EntryInv'
    BY <1>1, <1>2 DEF TypeOK, PhaseInv, EntryInv, EntryOk, PointInv, NoBackup,
        NothingSeen, Presence
  <1>6. SameInv'
    BY <1>1, <1>2 DEF TypeOK, PhaseInv, EntryInv, EntryOk, SameInv, SameOk,
        PointInv, NoBackup, NothingSeen, Presence
  <1>7. PointInv'
    BY <1>1, <1>2 DEF TypeOK, PhaseInv, EntryInv, EntryOk, PointInv, NoBackup,
        NothingSeen, Presence, Unlinks, Undoes, RollbackRefuses, OwnOutput
  <1>8. UndoneInv'
    BY <1>1, <1>2 DEF TypeOK, PhaseInv, EntryInv, EntryOk, SameInv, SameOk,
        PointInv, UndoneInv, Undone, Presence, Unlinks, Undoes, RollbackRefuses,
        OwnOutput
  <1>9. ParentInv'
    BY <1>1, <1>2 DEF TypeOK, PhaseInv, EntryInv, EntryOk, PointInv, ParentInv
  <1>10. DirInv'
    BY <1>1, <1>2 DEF TypeOK, PhaseInv, EntryInv, EntryOk, SameInv, SameOk,
        UndoneInv, Undone, ParentInv, DirInv, EmptyDir
  <1>11. PassedInv'
    BY <1>1, <1>2 DEF TypeOK, PhaseInv, PointInv, PassedInv
  <1>. QED BY <1>3, <1>4, <1>5, <1>6, <1>7, <1>8, <1>9, <1>10, <1>11

(* BeginApply keeps the invariant.                                         *)
LEMMA BeginApplyStep ==
  ASSUME IInv, BeginApply
  PROVE  IInv'
  <1>. USE ConstantsAssumption DEF ConstantsAssumption, IInv, Entry, MaybeFile,
      ApplyPoints, UndoPoints
  <1>1. file' = file /\ dirs' = dirs /\ txn' = txn /\ entries' = entries /\ orig' =
            orig /\ made' = made /\ staged' = staged /\ backup' = backup /\ force' =
            force /\ before' = before /\ touched' = touched /\ raced' = raced /\
            crashes' = crashes /\ edits' = edits
    BY DEF BeginApply, FirstOf, worktree, journal, history, GiveUp
  <1>2. /\ pc = "apply" /\ pc' = "check" /\ phase' = "applying"
        /\ cur' \in entries /\ \A d \in entries : cur' <= d
    BY <1>1 DEF BeginApply, FirstOf, TypeOK, PhaseInv, GoTo
  <1>3. TypeOK'
    BY <1>1, <1>2 DEF TypeOK, Phases, Presence, PCs, NoBackup, NothingSeen
  <1>4. PhaseInv'
    BY <1>1, <1>2 DEF TypeOK, PhaseInv, PCs
  <1>5. EntryInv'
    BY <1>1, <1>2 DEF TypeOK, PhaseInv, EntryInv, EntryOk, PointInv, NoBackup,
        NothingSeen, Presence
  <1>6. SameInv'
    BY <1>1, <1>2 DEF TypeOK, PhaseInv, EntryInv, EntryOk, SameInv, SameOk,
        PointInv, NoBackup, NothingSeen, Presence
  <1>7. PointInv'
    BY <1>1, <1>2 DEF TypeOK, PhaseInv, EntryInv, EntryOk, PointInv, NoBackup,
        NothingSeen, Presence, Unlinks, Undoes, RollbackRefuses, OwnOutput
  <1>8. UndoneInv'
    BY <1>1, <1>2 DEF TypeOK, PhaseInv, EntryInv, EntryOk, SameInv, SameOk,
        PointInv, UndoneInv, Undone, Presence, Unlinks, Undoes, RollbackRefuses,
        OwnOutput
  <1>9. ParentInv'
    BY <1>1, <1>2 DEF TypeOK, PhaseInv, EntryInv, EntryOk, PointInv, ParentInv
  <1>10. DirInv'
    BY <1>1, <1>2 DEF TypeOK, PhaseInv, EntryInv, EntryOk, SameInv, SameOk,
        UndoneInv, Undone, ParentInv, DirInv, EmptyDir
  <1>11. PassedInv'
    BY <1>1, <1>2 DEF TypeOK, PhaseInv, PointInv, PassedInv
  <1>. QED BY <1>3, <1>4, <1>5, <1>6, <1>7, <1>8, <1>9, <1>10, <1>11

(* CheckEntry keeps the invariant.                                         *)
LEMMA CheckEntryStep ==
  ASSUME IInv, CheckEntry
  PROVE  IInv'
  <1>. USE ConstantsAssumption DEF ConstantsAssumption, IInv, Entry, MaybeFile,
      ApplyPoints, UndoPoints
  <1>1. file' = file /\ dirs' = dirs /\ txn' = txn /\ phase' = phase /\ entries' =
            entries /\ made' = made /\ staged' = staged /\ backup' = backup /\
            force' = force /\ before' = before /\ touched' = touched /\ raced' =
            raced /\ crashes' = crashes /\ edits' = edits
    BY DEF CheckEntry, worktree, journal, history, GiveUp
  <1>2. pc = "check" /\ cur \in entries /\ cur \in Entry
    BY <1>1 DEF CheckEntry, TypeOK, PhaseInv, GoTo
  <1>3. \/ /\ orig' = orig /\ file[cur] = Target[cur]
           /\ ToNext
        \/ /\ orig' = orig
           /\ ToRollback
        \/ /\ file[cur] = Absent /\ pc' = "parents" /\ cur' = cur
           /\ orig' = [orig EXCEPT ![cur] = "absent"]
        \/ /\ force /\ file[cur] # Absent /\ pc' = "back_up" /\ cur' = cur
           /\ orig' = [orig EXCEPT ![cur] = "present"]
    BY <1>1, <1>2, NextEntryFacts, StartRollbackFacts DEF CheckEntry, GoTo, TypeOK
  <1>4. TypeOK'
    <2>1. cur' \in 0..N
      BY <1>1, <1>2, <1>3 DEF ToNext, ToRollback, TypeOK
    <2>2. pc' \in PCs
      BY <1>1, <1>2, <1>3 DEF ToNext, ToRollback, PCs, TypeOK
    <2>3. orig' \in [Entry -> Presence]
      BY <1>1, <1>2, <1>3 DEF ToNext, ToRollback, TypeOK, Presence, EntryInv, EntryOk
    <2>. QED BY <1>1, <2>1, <2>2, <2>3 DEF TypeOK
  <1>5. PhaseInv'
    BY <1>1, <1>2, <1>3 DEF ToNext, ToRollback, TypeOK, PhaseInv, PCs
  <1>6. EntryInv'
    BY <1>1, <1>2, <1>3 DEF ToNext, ToRollback, TypeOK, PhaseInv, EntryInv, EntryOk,
        PointInv, NoBackup, NothingSeen, Presence
  <1>7. SameInv'
    BY <1>1, <1>2, <1>3 DEF ToNext, ToRollback, TypeOK, PhaseInv, EntryInv, EntryOk,
        SameInv, SameOk, PointInv, NoBackup, NothingSeen, Presence
  <1>8. PointInv'
    <2>1. CASE pc' = "check"
      <3>1. cur' \in entries /\ cur' > cur /\ cur' \in Entry
        BY <1>1, <1>2, <1>3, <2>1 DEF ToNext, ToRollback, TypeOK
      <3>2. \A d \in entries : d > cur' => d > cur
        BY <1>1, <1>2, <1>3, <2>1, <3>1 DEF ToNext, ToRollback, TypeOK
      <3>3. orig' = orig
        BY <1>1, <1>2, <1>3, <2>1 DEF ToNext, ToRollback
      <3>. QED BY <1>1, <1>2, <2>1, <3>1, <3>2, <3>3 DEF PointInv, PhaseInv
    <2>2. CASE pc' # "check"
      <3>1. \A d \in entries : d > cur => d # cur /\ d \in Entry
        BY <1>2 DEF TypeOK
      <3>2. orig[cur] = "unknown" /\ backup[cur] = Absent /\ cur \in staged
        BY <1>2 DEF PointInv, EntryInv, EntryOk
      <3>3. \A d \in entries : d > cur => orig[d] = "unknown"
        BY <1>2 DEF PointInv
      <3>4. orig \in [Entry -> Presence] /\ txn = "formal"
        BY <1>2 DEF TypeOK, PhaseInv
      <3>5. CASE pc' \in {"applied", "rb_dirs", "rb_entry"}
        BY <1>1, <3>4, <3>5 DEF PointInv
      <3>6. CASE pc' = "parents" \/ pc' = "back_up"
        <4>1. orig'[cur] = IF pc' = "parents" THEN "absent" ELSE "present"
          BY <1>2, <1>3, <3>4, <3>6 DEF ToNext, ToRollback
        <4>2. cur' = cur /\ \A d \in entries : d > cur => orig'[d] = "unknown"
          BY <1>3, <3>1, <3>3, <3>4, <3>6 DEF ToNext, ToRollback
        <4>. QED BY <1>1, <3>2, <3>4, <3>6, <4>1, <4>2 DEF PointInv
      <3>. QED BY <1>3, <2>2, <3>5, <3>6 DEF ToNext, ToRollback
    <2>. QED BY <2>1, <2>2
  <1>9. UndoneInv'
    <2>1. pc' \in UndoPoints => \A d \in entries : ~(d > cur')
      BY <1>1, <1>2, <1>3 DEF ToNext, ToRollback, TypeOK
    <2>2. pc' # "rb_phase" /\ (pc' = "rb_dirs" => entries = {})
      BY <1>1, <1>2, <1>3 DEF ToNext, ToRollback
    <2>3. phase = "applying"
      BY <1>2 DEF PhaseInv
    <2>. QED BY <1>1, <2>1, <2>2, <2>3 DEF UndoneInv
  <1>10. ParentInv'
    BY <1>1, <1>2, <1>3 DEF ToNext, ToRollback, TypeOK, PhaseInv, EntryInv, EntryOk,
        PointInv, ParentInv
  <1>11. DirInv'
    BY <1>1, <1>2, <1>3 DEF ToNext, ToRollback, TypeOK, PhaseInv, EntryInv, EntryOk,
        SameInv, SameOk, UndoneInv, Undone, ParentInv, DirInv, EmptyDir
  <1>12. PassedInv'
    <2>. SUFFICES ASSUME edits = 0 PROVE PassedInv'
      BY <1>1 DEF PassedInv
    <2>1. \A d \in entries : d < cur => file'[d] = Target[d]
      BY <1>1, <1>2, <1>3 DEF ToNext, ToRollback, PassedInv, TypeOK
    <2>2. pc' \in {"check", "applied"} => file'[cur] = Target[cur]
      BY <1>1, <1>2, <1>3 DEF ToNext, ToRollback, TypeOK
    <2>3. pc' = "check" => \A d \in entries : d < cur' => d < cur \/ d = cur
      BY <1>1, <1>2, <1>3 DEF ToNext, ToRollback, TypeOK
    <2>4. pc' = "applied" => \A d \in entries : d < cur \/ d = cur
      BY <1>1, <1>2, <1>3 DEF ToNext, ToRollback, TypeOK
    <2>5. pc' \in ApplyPoints \ {"check"} => cur' = cur
      BY <1>1, <1>2, <1>3 DEF ToNext, ToRollback
    <2>6. pc' # "finish" /\ touched = {}
      BY <1>1, <1>2, <1>3 DEF ToNext, ToRollback, PassedInv
    <2>. QED BY <1>1, <2>1, <2>2, <2>3, <2>4, <2>5, <2>6 DEF PassedInv
  <1>. QED BY <1>4, <1>5, <1>6, <1>7, <1>8, <1>9, <1>10, <1>11, <1>12

(* BackUp keeps the invariant.                                             *)
LEMMA BackUpStep ==
  ASSUME IInv, BackUp
  PROVE  IInv'
  <1>. USE ConstantsAssumption DEF ConstantsAssumption, IInv, Entry, MaybeFile,
      ApplyPoints, UndoPoints
  <1>1. dirs' = dirs /\ txn' = txn /\ phase' = phase /\ entries' = entries /\ orig'
            = orig /\ made' = made /\ staged' = staged /\ force' = force /\ before'
            = before /\ touched' = touched /\ raced' = raced /\ crashes' = crashes
            /\ edits' = edits
    BY DEF BackUp, worktree, journal, history, GiveUp
  <1>2. pc = "back_up" /\ cur \in entries /\ cur \in Entry
    BY <1>1 DEF BackUp, TypeOK, PhaseInv, GoTo
  <1>3. \/ /\ file' = file /\ backup' = backup
           /\ ToRollback
        \/ /\ file[cur] # Absent /\ pc' = "parents" /\ cur' = cur
           /\ file' = [file EXCEPT ![cur] = Absent] /\ backup' = [backup EXCEPT ![cur] = file[cur]]
    BY <1>1, <1>2, StartRollbackFacts DEF BackUp, GoTo, TypeOK
  <1>4. TypeOK'
    <2>1. cur' \in 0..N
      BY <1>1, <1>2, <1>3 DEF ToRollback, TypeOK
    <2>2. pc' \in PCs
      BY <1>1, <1>2, <1>3 DEF ToRollback, PCs, TypeOK
    <2>3. file' \in [Entry -> MaybeFile] /\ backup' \in [Entry -> MaybeFile]
      BY <1>1, <1>2, <1>3 DEF ToRollback, TypeOK, Presence, EntryInv, EntryOk
    <2>. QED BY <1>1, <2>1, <2>2, <2>3 DEF TypeOK
  <1>5. PhaseInv'
    BY <1>1, <1>2, <1>3 DEF ToRollback, TypeOK, PhaseInv, PCs
  <1>6. EntryInv'
    BY <1>1, <1>2, <1>3 DEF ToRollback, TypeOK, PhaseInv, EntryInv, EntryOk,
        PointInv, NoBackup, NothingSeen, Presence
  <1>7. SameInv'
    BY <1>1, <1>2, <1>3 DEF ToRollback, TypeOK, PhaseInv, EntryInv, EntryOk,
        SameInv, SameOk, PointInv, NoBackup, NothingSeen, Presence
  <1>8. PointInv'
    BY <1>1, <1>2, <1>3 DEF ToRollback, TypeOK, PhaseInv, EntryInv, EntryOk,
        PointInv, NoBackup, NothingSeen, Presence, Unlinks, Undoes, RollbackRefuses,
        OwnOutput
  <1>9. UndoneInv'
    <2>1. pc' \in UndoPoints => \A d \in entries : ~(d > cur')
      BY <1>1, <1>2, <1>3 DEF ToRollback, TypeOK
    <2>2. pc' # "rb_phase" /\ (pc' = "rb_dirs" => entries = {})
      BY <1>1, <1>2, <1>3 DEF ToRollback
    <2>3. phase = "applying"
      BY <1>2 DEF PhaseInv
    <2>. QED BY <1>1, <2>1, <2>2, <2>3 DEF UndoneInv
  <1>10. ParentInv'
    BY <1>1, <1>2, <1>3 DEF ToRollback, TypeOK, PhaseInv, EntryInv, EntryOk,
        PointInv, ParentInv
  <1>11. DirInv'
    BY <1>1, <1>2, <1>3 DEF ToRollback, TypeOK, PhaseInv, EntryInv, EntryOk,
        SameInv, SameOk, UndoneInv, Undone, ParentInv, DirInv, EmptyDir
  <1>12. PassedInv'
    BY <1>1, <1>2, <1>3 DEF ToRollback, TypeOK, PhaseInv, PointInv, PassedInv
  <1>. QED BY <1>4, <1>5, <1>6, <1>7, <1>8, <1>9, <1>10, <1>11, <1>12

(* EnsureParents keeps the invariant.                                      *)
LEMMA EnsureParentsStep ==
  ASSUME IInv, EnsureParents
  PROVE  IInv'
  <1>. USE ConstantsAssumption DEF ConstantsAssumption, IInv, Entry, MaybeFile,
      ApplyPoints, UndoPoints
  <1>1. file' = file /\ dirs' = dirs /\ txn' = txn /\ phase' = phase /\ entries' =
            entries /\ orig' = orig /\ staged' = staged /\ backup' = backup /\
            force' = force /\ before' = before /\ touched' = touched /\ raced' =
            raced /\ crashes' = crashes /\ edits' = edits
    BY DEF EnsureParents, worktree, journal, history, GiveUp
  <1>2. pc = "parents" /\ cur \in entries /\ cur \in Entry /\ cur' = cur
    BY <1>1 DEF EnsureParents, TypeOK, PhaseInv, GoTo
  <1>3. \/ pc' = "publish_file" /\ Parent[cur] \in dirs \cup {Root} /\ made' = made
        \/ /\ pc' = "make_dir" /\ Parent[cur] \in Dirs /\ Parent[cur] \notin dirs
           /\ made' = made \cup {Parent[cur]}
    BY <1>1, <1>2 DEF EnsureParents, TypeOK, PhaseInv, GoTo
  <1>4. TypeOK'
    BY <1>1, <1>2, <1>3 DEF TypeOK, Phases, Presence, PCs, NoBackup, NothingSeen
  <1>5. PhaseInv'
    BY <1>1, <1>2, <1>3 DEF TypeOK, PhaseInv, PCs
  <1>6. EntryInv'
    BY <1>1, <1>2, <1>3 DEF TypeOK, PhaseInv, EntryInv, EntryOk, PointInv, NoBackup,
        NothingSeen, Presence
  <1>7. SameInv'
    BY <1>1, <1>2, <1>3 DEF TypeOK, PhaseInv, EntryInv, EntryOk, SameInv, SameOk,
        PointInv, NoBackup, NothingSeen, Presence
  <1>8. PointInv'
    BY <1>1, <1>2, <1>3 DEF TypeOK, PhaseInv, EntryInv, EntryOk, PointInv, NoBackup,
        NothingSeen, Presence, Unlinks, Undoes, RollbackRefuses, OwnOutput
  <1>9. UndoneInv'
    BY <1>1, <1>2, <1>3 DEF TypeOK, PhaseInv, EntryInv, EntryOk, SameInv, SameOk,
        PointInv, UndoneInv, Undone, Presence, Unlinks, Undoes, RollbackRefuses,
        OwnOutput
  <1>10. ParentInv'
    BY <1>1, <1>2, <1>3 DEF TypeOK, PhaseInv, EntryInv, EntryOk, PointInv, ParentInv
  <1>11. DirInv'
    BY <1>1, <1>2, <1>3 DEF TypeOK, PhaseInv, EntryInv, EntryOk, SameInv, SameOk,
        UndoneInv, Undone, ParentInv, DirInv, EmptyDir
  <1>12. PassedInv'
    BY <1>1, <1>2, <1>3 DEF TypeOK, PhaseInv, PointInv, PassedInv
  <1>. QED BY <1>4, <1>5, <1>6, <1>7, <1>8, <1>9, <1>10, <1>11, <1>12

(* MakeParent keeps the invariant.                                         *)
LEMMA MakeParentStep ==
  ASSUME IInv, MakeParent
  PROVE  IInv'
  <1>. USE ConstantsAssumption DEF ConstantsAssumption, IInv, Entry, MaybeFile,
      ApplyPoints, UndoPoints
  <1>1. file' = file /\ txn' = txn /\ phase' = phase /\ entries' = entries /\ orig'
            = orig /\ made' = made /\ staged' = staged /\ backup' = backup /\ force'
            = force /\ before' = before /\ touched' = touched /\ raced' = raced /\
            crashes' = crashes /\ edits' = edits
    BY DEF MakeParent, ParentInv, worktree, journal, history, GiveUp
  <1>2. pc = "make_dir" /\ cur \in entries /\ cur \in Entry /\ cur' = cur /\ pc' = "publish_file"
    BY <1>1 DEF MakeParent, ParentInv, TypeOK, PhaseInv, GoTo
  <1>3. dirs' = dirs \cup {Parent[cur]} /\ Parent[cur] \in made
    BY <1>1, <1>2 DEF MakeParent, ParentInv, TypeOK, PhaseInv, GoTo
  <1>4. TypeOK'
    BY <1>1, <1>2, <1>3 DEF TypeOK, Phases, Presence, PCs, NoBackup, NothingSeen
  <1>5. PhaseInv'
    BY <1>1, <1>2, <1>3 DEF TypeOK, PhaseInv, PCs
  <1>6. EntryInv'
    BY <1>1, <1>2, <1>3 DEF TypeOK, PhaseInv, EntryInv, EntryOk, PointInv, NoBackup,
        NothingSeen, Presence
  <1>7. SameInv'
    BY <1>1, <1>2, <1>3 DEF TypeOK, PhaseInv, EntryInv, EntryOk, SameInv, SameOk,
        PointInv, NoBackup, NothingSeen, Presence
  <1>8. PointInv'
    BY <1>1, <1>2, <1>3 DEF TypeOK, PhaseInv, EntryInv, EntryOk, PointInv, NoBackup,
        NothingSeen, Presence, Unlinks, Undoes, RollbackRefuses, OwnOutput
  <1>9. UndoneInv'
    BY <1>1, <1>2, <1>3 DEF TypeOK, PhaseInv, EntryInv, EntryOk, SameInv, SameOk,
        PointInv, UndoneInv, Undone, Presence, Unlinks, Undoes, RollbackRefuses,
        OwnOutput
  <1>10. ParentInv'
    BY <1>1, <1>2, <1>3 DEF TypeOK, PhaseInv, EntryInv, EntryOk, PointInv, ParentInv
  <1>11. DirInv'
    BY <1>1, <1>2, <1>3 DEF TypeOK, PhaseInv, EntryInv, EntryOk, SameInv, SameOk,
        UndoneInv, Undone, ParentInv, DirInv, EmptyDir
  <1>12. PassedInv'
    BY <1>1, <1>2, <1>3 DEF TypeOK, PhaseInv, PointInv, PassedInv
  <1>. QED BY <1>4, <1>5, <1>6, <1>7, <1>8, <1>9, <1>10, <1>11, <1>12

(* PublishFile keeps the invariant.                                        *)
LEMMA PublishFileStep ==
  ASSUME IInv, PublishFile
  PROVE  IInv'
  <1>. USE ConstantsAssumption DEF ConstantsAssumption, IInv, Entry, MaybeFile,
      ApplyPoints, UndoPoints
  <1>1. dirs' = dirs /\ txn' = txn /\ phase' = phase /\ entries' = entries /\ orig'
            = orig /\ made' = made /\ backup' = backup /\ force' = force /\ before'
            = before /\ touched' = touched /\ raced' = raced /\ crashes' = crashes
            /\ edits' = edits
    BY DEF PublishFile, worktree, journal, history, GiveUp
  <1>2. pc = "publish_file" /\ cur \in entries /\ cur \in Entry
    BY <1>1 DEF PublishFile, TypeOK, PhaseInv, GoTo
  <1>3. \/ /\ file' = file /\ staged' = staged
           /\ ToRollback
        \/ /\ file[cur] = Absent /\ file' = [file EXCEPT ![cur] = Target[cur]] /\ staged' = staged \ {cur}
           /\ ToNext
    BY <1>1, <1>2, NextEntryFacts, StartRollbackFacts DEF PublishFile, GoTo, TypeOK
  <1>4. TypeOK'
    <2>1. cur' \in 0..N
      BY <1>1, <1>2, <1>3 DEF ToNext, ToRollback, TypeOK
    <2>2. pc' \in PCs
      BY <1>1, <1>2, <1>3 DEF ToNext, ToRollback, PCs, TypeOK
    <2>3. file' \in [Entry -> MaybeFile] /\ staged' \subseteq Entry
      BY <1>1, <1>2, <1>3 DEF ToNext, ToRollback, TypeOK, Presence, EntryInv, EntryOk
    <2>. QED BY <1>1, <2>1, <2>2, <2>3 DEF TypeOK
  <1>5. PhaseInv'
    BY <1>1, <1>2, <1>3 DEF ToNext, ToRollback, TypeOK, PhaseInv, PCs
  <1>6. EntryInv'
    BY <1>1, <1>2, <1>3 DEF ToNext, ToRollback, TypeOK, PhaseInv, EntryInv, EntryOk,
        PointInv, NoBackup, NothingSeen, Presence
  <1>7. SameInv'
    BY <1>1, <1>2, <1>3 DEF ToNext, ToRollback, TypeOK, PhaseInv, EntryInv, EntryOk,
        SameInv, SameOk, PointInv, NoBackup, NothingSeen, Presence
  <1>8. PointInv'
    <2>1. CASE pc' = "check"
      <3>1. cur' \in entries /\ cur' > cur /\ cur' \in Entry
        BY <1>1, <1>2, <1>3, <2>1 DEF ToNext, ToRollback, TypeOK
      <3>2. \A d \in entries : d > cur' => d > cur
        BY <1>1, <1>2, <1>3, <2>1, <3>1 DEF ToNext, ToRollback, TypeOK
      <3>3. orig' = orig
        BY <1>1, <1>2, <1>3, <2>1 DEF ToNext, ToRollback
      <3>. QED BY <1>1, <1>2, <2>1, <3>1, <3>2, <3>3 DEF PointInv, PhaseInv
    <2>2. CASE pc' # "check"
      BY <1>1, <1>2, <1>3, <2>2 DEF ToNext, ToRollback, PointInv, EntryInv, EntryOk, TypeOK
    <2>. QED BY <2>1, <2>2
  <1>9. UndoneInv'
    <2>1. pc' \in UndoPoints => \A d \in entries : ~(d > cur')
      BY <1>1, <1>2, <1>3 DEF ToNext, ToRollback, TypeOK
    <2>2. pc' # "rb_phase" /\ (pc' = "rb_dirs" => entries = {})
      BY <1>1, <1>2, <1>3 DEF ToNext, ToRollback
    <2>3. phase = "applying"
      BY <1>2 DEF PhaseInv
    <2>. QED BY <1>1, <2>1, <2>2, <2>3 DEF UndoneInv
  <1>10. ParentInv'
    BY <1>1, <1>2, <1>3 DEF ToNext, ToRollback, TypeOK, PhaseInv, EntryInv, EntryOk,
        PointInv, ParentInv
  <1>11. DirInv'
    BY <1>1, <1>2, <1>3 DEF ToNext, ToRollback, TypeOK, PhaseInv, EntryInv, EntryOk,
        SameInv, SameOk, UndoneInv, Undone, ParentInv, DirInv, EmptyDir
  <1>12. PassedInv'
    <2>. SUFFICES ASSUME edits = 0 PROVE PassedInv'
      BY <1>1 DEF PassedInv
    <2>1. \A d \in entries : d < cur => file'[d] = Target[d]
      BY <1>1, <1>2, <1>3 DEF ToNext, ToRollback, PassedInv, TypeOK
    <2>2. pc' \in {"check", "applied"} => file'[cur] = Target[cur]
      BY <1>1, <1>2, <1>3 DEF ToNext, ToRollback, TypeOK
    <2>3. pc' = "check" => \A d \in entries : d < cur' => d < cur \/ d = cur
      BY <1>1, <1>2, <1>3 DEF ToNext, ToRollback, TypeOK
    <2>4. pc' = "applied" => \A d \in entries : d < cur \/ d = cur
      BY <1>1, <1>2, <1>3 DEF ToNext, ToRollback, TypeOK
    <2>5. pc' \in ApplyPoints \ {"check"} => cur' = cur
      BY <1>1, <1>2, <1>3 DEF ToNext, ToRollback
    <2>6. pc' # "finish" /\ touched = {}
      BY <1>1, <1>2, <1>3 DEF ToNext, ToRollback, PassedInv
    <2>. QED BY <1>1, <2>1, <2>2, <2>3, <2>4, <2>5, <2>6 DEF PassedInv
  <1>. QED BY <1>4, <1>5, <1>6, <1>7, <1>8, <1>9, <1>10, <1>11, <1>12

(* SetApplied keeps the invariant.                                         *)
LEMMA SetAppliedStep ==
  ASSUME IInv, SetApplied
  PROVE  IInv'
  <1>. USE ConstantsAssumption DEF ConstantsAssumption, IInv, Entry, MaybeFile,
      ApplyPoints, UndoPoints
  <1>1. file' = file /\ dirs' = dirs /\ txn' = txn /\ entries' = entries /\ orig' =
            orig /\ made' = made /\ staged' = staged /\ backup' = backup /\ force' =
            force /\ before' = before /\ touched' = touched /\ raced' = raced /\
            crashes' = crashes /\ edits' = edits
    BY DEF SetApplied, worktree, journal, history, GiveUp
  <1>2. pc = "applied" /\ pc' = "finish" /\ cur' = 0 /\ phase' = "applied"
    BY <1>1 DEF SetApplied, TypeOK, PhaseInv, GoTo
  <1>3. TypeOK'
    BY <1>1, <1>2 DEF TypeOK, Phases, Presence, PCs, NoBackup, NothingSeen
  <1>4. PhaseInv'
    BY <1>1, <1>2 DEF TypeOK, PhaseInv, PCs
  <1>5. EntryInv'
    BY <1>1, <1>2 DEF TypeOK, PhaseInv, EntryInv, EntryOk, PointInv, NoBackup,
        NothingSeen, Presence
  <1>6. SameInv'
    BY <1>1, <1>2 DEF TypeOK, PhaseInv, EntryInv, EntryOk, SameInv, SameOk,
        PointInv, NoBackup, NothingSeen, Presence
  <1>7. PointInv'
    BY <1>1, <1>2 DEF TypeOK, PhaseInv, EntryInv, EntryOk, PointInv, NoBackup,
        NothingSeen, Presence, Unlinks, Undoes, RollbackRefuses, OwnOutput
  <1>8. UndoneInv'
    BY <1>1, <1>2 DEF TypeOK, PhaseInv, EntryInv, EntryOk, SameInv, SameOk,
        PointInv, UndoneInv, Undone, Presence, Unlinks, Undoes, RollbackRefuses,
        OwnOutput
  <1>9. ParentInv'
    BY <1>1, <1>2 DEF TypeOK, PhaseInv, EntryInv, EntryOk, PointInv, ParentInv
  <1>10. DirInv'
    BY <1>1, <1>2 DEF TypeOK, PhaseInv, EntryInv, EntryOk, SameInv, SameOk,
        UndoneInv, Undone, ParentInv, DirInv, EmptyDir
  <1>11. PassedInv'
    BY <1>1, <1>2 DEF TypeOK, PhaseInv, PointInv, PassedInv
  <1>. QED BY <1>3, <1>4, <1>5, <1>6, <1>7, <1>8, <1>9, <1>10, <1>11

(* Finish keeps the invariant.                                             *)
LEMMA FinishStep ==
  ASSUME IInv, Finish
  PROVE  IInv'
  <1>. USE ConstantsAssumption DEF ConstantsAssumption, IInv, Entry, MaybeFile,
      ApplyPoints, UndoPoints
  <1>1. file' = file /\ dirs' = dirs /\ phase' = phase /\ force' = force /\ before'
            = before /\ touched' = touched /\ raced' = raced /\ crashes' = crashes
            /\ edits' = edits
    BY DEF Finish, worktree, journal, history, GiveUp
  <1>2. pc = "finish" /\ pc' = "idle" /\ cur' = 0 /\ txn' = "none" /\ entries' = {}
    BY <1>1 DEF Finish, TypeOK, PhaseInv, GoTo
  <1>3. orig' = NothingSeen /\ backup' = NoBackup /\ made' = {} /\ staged' = {}
    BY <1>1, <1>2 DEF Finish, TypeOK, PhaseInv, GoTo
  <1>4. TypeOK'
    BY <1>1, <1>2, <1>3 DEF TypeOK, Phases, Presence, PCs, NoBackup, NothingSeen
  <1>5. PhaseInv'
    BY <1>1, <1>2, <1>3 DEF TypeOK, PhaseInv, PCs
  <1>6. EntryInv'
    BY <1>1, <1>2, <1>3 DEF TypeOK, PhaseInv, EntryInv, EntryOk, PointInv, NoBackup,
        NothingSeen, Presence
  <1>7. SameInv'
    BY <1>1, <1>2, <1>3 DEF TypeOK, PhaseInv, EntryInv, EntryOk, SameInv, SameOk,
        PointInv, NoBackup, NothingSeen, Presence
  <1>8. PointInv'
    BY <1>1, <1>2, <1>3 DEF TypeOK, PhaseInv, EntryInv, EntryOk, PointInv, NoBackup,
        NothingSeen, Presence, Unlinks, Undoes, RollbackRefuses, OwnOutput
  <1>9. UndoneInv'
    BY <1>1, <1>2, <1>3 DEF TypeOK, PhaseInv, EntryInv, EntryOk, SameInv, SameOk,
        PointInv, UndoneInv, Undone, Presence, Unlinks, Undoes, RollbackRefuses,
        OwnOutput
  <1>10. ParentInv'
    BY <1>1, <1>2, <1>3 DEF TypeOK, PhaseInv, EntryInv, EntryOk, PointInv, ParentInv
  <1>11. DirInv'
    BY <1>1, <1>2, <1>3 DEF TypeOK, PhaseInv, EntryInv, EntryOk, SameInv, SameOk,
        UndoneInv, Undone, ParentInv, DirInv, EmptyDir
  <1>12. PassedInv'
    BY <1>1, <1>2, <1>3 DEF TypeOK, PhaseInv, PointInv, PassedInv
  <1>. QED BY <1>4, <1>5, <1>6, <1>7, <1>8, <1>9, <1>10, <1>11, <1>12

(* RollbackEntry keeps the invariant.                                      *)
LEMMA RollbackEntryStep ==
  ASSUME IInv, RollbackEntry
  PROVE  IInv'
  <1>. USE ConstantsAssumption DEF ConstantsAssumption, IInv, Entry, MaybeFile,
      ApplyPoints, UndoPoints
  <1>1. file' = file /\ dirs' = dirs /\ txn' = txn /\ phase' = phase /\ entries' =
            entries /\ orig' = orig /\ made' = made /\ staged' = staged /\ backup' =
            backup /\ force' = force /\ before' = before /\ touched' = touched /\
            raced' = raced /\ crashes' = crashes /\ edits' = edits
    BY DEF RollbackEntry, worktree, journal, history, GiveUp
  <1>2. pc = "rb_entry" /\ cur \in entries /\ cur \in Entry
    BY <1>1 DEF RollbackEntry, TypeOK, PhaseInv, GoTo
  <1>3. \/ pc' = "idle" /\ cur' = 0
        \/ pc' = "rb_remove" /\ cur' = cur /\ Unlinks(cur) /\ OwnOutput(cur)
        \/ pc' = "rb_parents" /\ cur' = cur /\ ~RollbackRefuses(cur) /\ backup[cur] # Absent
        \/ /\ ~RollbackRefuses(cur) /\ ~Unlinks(cur) /\ backup[cur] = Absent
           /\ ToPrevious
    BY <1>1, <1>2, PreviousEntryFacts DEF RollbackEntry, RollbackRefuses, GiveUp,
        GoTo, TypeOK
  <1>4. TypeOK'
    <2>1. cur' \in 0..N
      BY <1>1, <1>2, <1>3 DEF ToPrevious, TypeOK
    <2>2. pc' \in PCs
      BY <1>1, <1>2, <1>3 DEF ToPrevious, PCs, TypeOK
    <2>. QED BY <1>1, <2>1, <2>2 DEF TypeOK
  <1>5. PhaseInv'
    BY <1>1, <1>2, <1>3 DEF ToPrevious, TypeOK, PhaseInv, PCs
  <1>6. EntryInv'
    BY <1>1, <1>2, <1>3 DEF ToPrevious, TypeOK, PhaseInv, EntryInv, EntryOk,
        PointInv, NoBackup, NothingSeen, Presence
  <1>7. SameInv'
    BY <1>1, <1>2, <1>3 DEF ToPrevious, TypeOK, PhaseInv, EntryInv, EntryOk,
        SameInv, SameOk, PointInv, NoBackup, NothingSeen, Presence
  <1>8. PointInv'
    BY <1>1, <1>2, <1>3 DEF ToPrevious, TypeOK, PhaseInv, EntryInv, EntryOk,
        PointInv, NoBackup, NothingSeen, Presence, Unlinks, Undoes, RollbackRefuses,
        OwnOutput
  <1>9. UndoneInv'
    <2>1. pc' \in UndoPoints => \A d \in entries : d > cur' => d > cur \/ (d = cur /\ cur' # cur)
      BY <1>1, <1>2, <1>3 DEF ToPrevious, TypeOK
    <2>2. pc' # "rb_phase" /\ (pc' = "rb_dirs" => \A d \in entries : d > cur \/ d = cur)
      BY <1>1, <1>2, <1>3 DEF ToPrevious, TypeOK
    <2>3. \A d \in entries : d > cur => Undone(d)'
      BY <1>1, <1>2, <1>3 DEF ToPrevious, UndoneInv, Undone, TypeOK
    <2>4. \A d \in entries : d = cur /\ cur' # cur /\ pc' # "idle" => Undone(d)'
      BY <1>1, <1>2, <1>3 DEF ToPrevious, TypeOK, PhaseInv, EntryInv, EntryOk,
          SameInv, SameOk, PointInv, Undone, Presence,
          Unlinks, Undoes, RollbackRefuses
    <2>5. phase = "rolled_back" => \A d \in entries : Undone(d)'
      BY <1>1, <1>2, <1>3 DEF ToPrevious, UndoneInv, Undone, PhaseInv
    <2>6. pc' = "rb_dirs" => cur' # cur
      BY <1>1, <1>2, <1>3 DEF ToPrevious, TypeOK
    <2>. QED BY <1>1, <2>1, <2>2, <2>3, <2>4, <2>5, <2>6 DEF UndoneInv, Undone
  <1>10. ParentInv'
    BY <1>1, <1>2, <1>3 DEF ToPrevious, TypeOK, PhaseInv, EntryInv, EntryOk,
        PointInv, ParentInv
  <1>11. DirInv'
    BY <1>1, <1>2, <1>3 DEF ToPrevious, TypeOK, PhaseInv, EntryInv, EntryOk,
        SameInv, SameOk, UndoneInv, Undone, ParentInv, DirInv, EmptyDir
  <1>12. PassedInv'
    BY <1>1, <1>2, <1>3 DEF ToPrevious, TypeOK, PhaseInv, PointInv, PassedInv
  <1>. QED BY <1>4, <1>5, <1>6, <1>7, <1>8, <1>9, <1>10, <1>11, <1>12

(* RollbackRemove keeps the invariant.                                     *)
LEMMA RollbackRemoveStep ==
  ASSUME IInv, RollbackRemove
  PROVE  IInv'
  <1>. USE ConstantsAssumption DEF ConstantsAssumption, IInv, Entry, MaybeFile,
      ApplyPoints, UndoPoints
  <1>1. dirs' = dirs /\ txn' = txn /\ phase' = phase /\ entries' = entries /\ orig'
            = orig /\ made' = made /\ staged' = staged /\ backup' = backup /\ force'
            = force /\ before' = before /\ touched' = touched /\ raced' = raced /\
            crashes' = crashes /\ edits' = edits
    BY DEF RollbackRemove, worktree, journal, history, GiveUp
  <1>2. pc = "rb_remove" /\ cur \in entries /\ cur \in Entry
    BY <1>1 DEF RollbackRemove, TypeOK, PhaseInv, GoTo
  <1>3. \/ pc' = "idle" /\ cur' = 0 /\ file' = file
        \/ /\ file' = [file EXCEPT ![cur] = Absent]
           /\ \/ pc' = "rb_parents" /\ cur' = cur /\ backup[cur] # Absent
              \/ backup[cur] = Absent /\ ToPrevious
    BY <1>1, <1>2, PreviousEntryFacts DEF RollbackRemove, GiveUp, worktree, GoTo, TypeOK
  <1>4. TypeOK'
    <2>1. cur' \in 0..N
      BY <1>1, <1>2, <1>3 DEF ToPrevious, TypeOK
    <2>2. pc' \in PCs
      BY <1>1, <1>2, <1>3 DEF ToPrevious, PCs, TypeOK
    <2>3. file' \in [Entry -> MaybeFile]
      BY <1>1, <1>2, <1>3 DEF ToPrevious, TypeOK, Presence, EntryInv, EntryOk
    <2>. QED BY <1>1, <2>1, <2>2, <2>3 DEF TypeOK
  <1>5. PhaseInv'
    BY <1>1, <1>2, <1>3 DEF ToPrevious, TypeOK, PhaseInv, PCs
  <1>6. EntryInv'
    BY <1>1, <1>2, <1>3 DEF ToPrevious, TypeOK, PhaseInv, EntryInv, EntryOk,
        PointInv, NoBackup, NothingSeen, Presence
  <1>7. SameInv'
    BY <1>1, <1>2, <1>3 DEF ToPrevious, TypeOK, PhaseInv, EntryInv, EntryOk,
        SameInv, SameOk, PointInv, NoBackup, NothingSeen, Presence
  <1>8. PointInv'
    BY <1>1, <1>2, <1>3 DEF ToPrevious, TypeOK, PhaseInv, EntryInv, EntryOk,
        PointInv, NoBackup, NothingSeen, Presence, Unlinks, Undoes, RollbackRefuses,
        OwnOutput
  <1>9. UndoneInv'
    <2>1. pc' \in UndoPoints => \A d \in entries : d > cur' => d > cur \/ (d = cur /\ cur' # cur)
      BY <1>1, <1>2, <1>3 DEF ToPrevious, TypeOK
    <2>2. pc' # "rb_phase" /\ (pc' = "rb_dirs" => \A d \in entries : d > cur \/ d = cur)
      BY <1>1, <1>2, <1>3 DEF ToPrevious, TypeOK
    <2>3. \A d \in entries : d > cur => Undone(d)'
      BY <1>1, <1>2, <1>3 DEF ToPrevious, UndoneInv, Undone, TypeOK
    <2>4. \A d \in entries : d = cur /\ cur' # cur /\ pc' # "idle" => Undone(d)'
      BY <1>1, <1>2, <1>3 DEF ToPrevious, TypeOK, PhaseInv, EntryInv, EntryOk,
          SameInv, SameOk, PointInv, Undone, Presence
    <2>5. phase = "rolled_back" => \A d \in entries : Undone(d)'
      BY <1>1, <1>2, <1>3 DEF ToPrevious, TypeOK, PhaseInv, EntryInv, EntryOk,
          SameInv, SameOk, PointInv, UndoneInv, Undone, Presence
    <2>6. pc' = "rb_dirs" => cur' # cur
      BY <1>1, <1>2, <1>3 DEF ToPrevious, TypeOK
    <2>. QED BY <1>1, <2>1, <2>2, <2>3, <2>4, <2>5, <2>6 DEF UndoneInv, Undone
  <1>10. ParentInv'
    BY <1>1, <1>2, <1>3 DEF ToPrevious, TypeOK, PhaseInv, EntryInv, EntryOk,
        PointInv, ParentInv
  <1>11. DirInv'
    BY <1>1, <1>2, <1>3 DEF ToPrevious, TypeOK, PhaseInv, EntryInv, EntryOk,
        SameInv, SameOk, UndoneInv, Undone, ParentInv, DirInv, EmptyDir
  <1>12. PassedInv'
    BY <1>1, <1>2, <1>3 DEF ToPrevious, TypeOK, PhaseInv, PointInv, PassedInv
  <1>. QED BY <1>4, <1>5, <1>6, <1>7, <1>8, <1>9, <1>10, <1>11, <1>12

(* RollbackParents keeps the invariant.                                    *)
LEMMA RollbackParentsStep ==
  ASSUME IInv, RollbackParents
  PROVE  IInv'
  <1>. USE ConstantsAssumption DEF ConstantsAssumption, IInv, Entry, MaybeFile,
      ApplyPoints, UndoPoints
  <1>1. file' = file /\ txn' = txn /\ phase' = phase /\ entries' = entries /\ orig'
            = orig /\ made' = made /\ staged' = staged /\ backup' = backup /\ force'
            = force /\ before' = before /\ touched' = touched /\ raced' = raced /\
            crashes' = crashes /\ edits' = edits
    BY DEF RollbackParents, worktree, journal, history, GiveUp
  <1>2. pc = "rb_parents" /\ cur \in entries /\ cur \in Entry /\ cur' = cur /\ pc' = "rb_restore"
    BY <1>1 DEF RollbackParents, TypeOK, PhaseInv, GoTo
  <1>3. dirs' = dirs \cup ({Parent[cur]} \ {Root})
    BY <1>1, <1>2 DEF RollbackParents, TypeOK, PhaseInv, GoTo
  <1>4. TypeOK'
    BY <1>1, <1>2, <1>3 DEF TypeOK, Phases, Presence, PCs, NoBackup, NothingSeen
  <1>5. PhaseInv'
    BY <1>1, <1>2, <1>3 DEF TypeOK, PhaseInv, PCs
  <1>6. EntryInv'
    BY <1>1, <1>2, <1>3 DEF TypeOK, PhaseInv, EntryInv, EntryOk, PointInv, NoBackup,
        NothingSeen, Presence
  <1>7. SameInv'
    BY <1>1, <1>2, <1>3 DEF TypeOK, PhaseInv, EntryInv, EntryOk, SameInv, SameOk,
        PointInv, NoBackup, NothingSeen, Presence
  <1>8. PointInv'
    BY <1>1, <1>2, <1>3 DEF TypeOK, PhaseInv, EntryInv, EntryOk, PointInv, NoBackup,
        NothingSeen, Presence, Unlinks, Undoes, RollbackRefuses, OwnOutput
  <1>9. UndoneInv'
    BY <1>1, <1>2, <1>3 DEF TypeOK, PhaseInv, EntryInv, EntryOk, SameInv, SameOk,
        PointInv, UndoneInv, Undone, Presence, Unlinks, Undoes, RollbackRefuses,
        OwnOutput
  <1>10. ParentInv'
    BY <1>1, <1>2, <1>3 DEF TypeOK, PhaseInv, EntryInv, EntryOk, PointInv, ParentInv
  <1>11. DirInv'
    <2>1. orig[cur] = "present" /\ backup[cur] # Absent /\ txn = "formal"
      BY <1>2 DEF PointInv, PhaseInv
    <2>2. cur \notin touched => Parent[cur] \in before.dirs \cup {Root}
      BY <1>2, <2>1 DEF SameInv, SameOk, ParentInv
    <2>3. phase # "rolled_back"
      BY <1>2, <2>1 DEF UndoneInv, Undone
    <2>. QED BY <1>1, <1>2, <1>3, <2>1, <2>2, <2>3 DEF DirInv
  <1>12. PassedInv'
    BY <1>1, <1>2, <1>3 DEF TypeOK, PhaseInv, PointInv, PassedInv
  <1>. QED BY <1>4, <1>5, <1>6, <1>7, <1>8, <1>9, <1>10, <1>11, <1>12

(* RollbackRestore keeps the invariant.                                    *)
LEMMA RollbackRestoreStep ==
  ASSUME IInv, RollbackRestore
  PROVE  IInv'
  <1>. USE ConstantsAssumption DEF ConstantsAssumption, IInv, Entry, MaybeFile,
      ApplyPoints, UndoPoints
  <1>1. dirs' = dirs /\ txn' = txn /\ phase' = phase /\ entries' = entries /\ orig'
            = orig /\ made' = made /\ staged' = staged /\ force' = force /\ before'
            = before /\ touched' = touched /\ raced' = raced /\ crashes' = crashes
            /\ edits' = edits
    BY DEF RollbackRestore, worktree, journal, history, GiveUp
  <1>2. pc = "rb_restore" /\ cur \in entries /\ cur \in Entry
    BY <1>1 DEF RollbackRestore, TypeOK, PhaseInv, GoTo
  <1>3. \/ pc' = "idle" /\ cur' = 0 /\ file' = file /\ backup' = backup
        \/ /\ file[cur] = Absent
           /\ file' = [file EXCEPT ![cur] = backup[cur]] /\ backup' = [backup EXCEPT ![cur] = Absent]
           /\ ToPrevious
    BY <1>1, <1>2, PreviousEntryFacts DEF RollbackRestore, GiveUp, worktree,
        journal, GoTo, TypeOK
  <1>4. TypeOK'
    <2>1. cur' \in 0..N
      BY <1>1, <1>2, <1>3 DEF ToPrevious, TypeOK
    <2>2. pc' \in PCs
      BY <1>1, <1>2, <1>3 DEF ToPrevious, PCs, TypeOK
    <2>3. file' \in [Entry -> MaybeFile] /\ backup' \in [Entry -> MaybeFile]
      BY <1>1, <1>2, <1>3 DEF ToPrevious, TypeOK, Presence, EntryInv, EntryOk
    <2>. QED BY <1>1, <2>1, <2>2, <2>3 DEF TypeOK
  <1>5. PhaseInv'
    BY <1>1, <1>2, <1>3 DEF ToPrevious, TypeOK, PhaseInv, PCs
  <1>6. EntryInv'
    BY <1>1, <1>2, <1>3 DEF ToPrevious, TypeOK, PhaseInv, EntryInv, EntryOk,
        PointInv, NoBackup, NothingSeen, Presence
  <1>7. SameInv'
    BY <1>1, <1>2, <1>3 DEF ToPrevious, TypeOK, PhaseInv, EntryInv, EntryOk,
        SameInv, SameOk, PointInv, NoBackup, NothingSeen, Presence
  <1>8. PointInv'
    BY <1>1, <1>2, <1>3 DEF ToPrevious, TypeOK, PhaseInv, EntryInv, EntryOk,
        PointInv, NoBackup, NothingSeen, Presence, Unlinks, Undoes, RollbackRefuses,
        OwnOutput
  <1>9. UndoneInv'
    <2>1. pc' \in UndoPoints => \A d \in entries : d > cur' => d > cur \/ (d = cur /\ cur' # cur)
      BY <1>1, <1>2, <1>3 DEF ToPrevious, TypeOK
    <2>2. pc' # "rb_phase" /\ (pc' = "rb_dirs" => \A d \in entries : d > cur \/ d = cur)
      BY <1>1, <1>2, <1>3 DEF ToPrevious, TypeOK
    <2>3. \A d \in entries : d > cur => Undone(d)'
      BY <1>1, <1>2, <1>3 DEF ToPrevious, UndoneInv, Undone, TypeOK
    <2>4. \A d \in entries : d = cur /\ cur' # cur /\ pc' # "idle" => Undone(d)'
      BY <1>1, <1>2, <1>3 DEF ToPrevious, TypeOK, PhaseInv, EntryInv, EntryOk,
          SameInv, SameOk, PointInv, Undone, Presence
    <2>5. phase = "rolled_back" => \A d \in entries : Undone(d)'
      BY <1>1, <1>2, <1>3 DEF ToPrevious, TypeOK, PhaseInv, EntryInv, EntryOk,
          SameInv, SameOk, PointInv, UndoneInv, Undone, Presence
    <2>6. pc' = "rb_dirs" => cur' # cur
      BY <1>1, <1>2, <1>3 DEF ToPrevious, TypeOK
    <2>. QED BY <1>1, <2>1, <2>2, <2>3, <2>4, <2>5, <2>6 DEF UndoneInv, Undone
  <1>10. ParentInv'
    BY <1>1, <1>2, <1>3 DEF ToPrevious, TypeOK, PhaseInv, EntryInv, EntryOk,
        PointInv, ParentInv
  <1>11. DirInv'
    BY <1>1, <1>2, <1>3 DEF ToPrevious, TypeOK, PhaseInv, EntryInv, EntryOk,
        SameInv, SameOk, UndoneInv, Undone, ParentInv, DirInv, EmptyDir
  <1>12. PassedInv'
    BY <1>1, <1>2, <1>3 DEF ToPrevious, TypeOK, PhaseInv, PointInv, PassedInv
  <1>. QED BY <1>4, <1>5, <1>6, <1>7, <1>8, <1>9, <1>10, <1>11, <1>12

(* RollbackDirs keeps the invariant.                                       *)
LEMMA RollbackDirsStep ==
  ASSUME IInv, RollbackDirs
  PROVE  IInv'
  <1>. USE ConstantsAssumption DEF ConstantsAssumption, IInv, Entry, MaybeFile,
      ApplyPoints, UndoPoints
  <1>1. file' = file /\ txn' = txn /\ phase' = phase /\ entries' = entries /\ orig'
            = orig /\ made' = made /\ staged' = staged /\ backup' = backup /\ force'
            = force /\ before' = before /\ touched' = touched /\ raced' = raced /\
            crashes' = crashes /\ edits' = edits
    BY DEF RollbackDirs, worktree, journal, history, GiveUp
  <1>2. pc = "rb_dirs" /\ cur' = 0 /\ pc' = "rb_phase"
    BY <1>1 DEF RollbackDirs, TypeOK, PhaseInv, GoTo
  <1>3. dirs' = {d \in dirs : d \in made => ~EmptyDir(d)}
    BY <1>1, <1>2 DEF RollbackDirs, TypeOK, PhaseInv, GoTo
  <1>4. TypeOK'
    BY <1>1, <1>2, <1>3 DEF TypeOK, Phases, Presence, PCs, NoBackup, NothingSeen
  <1>5. PhaseInv'
    BY <1>1, <1>2, <1>3 DEF TypeOK, PhaseInv, PCs
  <1>6. EntryInv'
    BY <1>1, <1>2, <1>3 DEF TypeOK, PhaseInv, EntryInv, EntryOk, PointInv, NoBackup,
        NothingSeen, Presence
  <1>7. SameInv'
    BY <1>1, <1>2, <1>3 DEF TypeOK, PhaseInv, EntryInv, EntryOk, SameInv, SameOk,
        PointInv, NoBackup, NothingSeen, Presence
  <1>8. PointInv'
    BY <1>1, <1>2, <1>3 DEF TypeOK, PhaseInv, EntryInv, EntryOk, PointInv, NoBackup,
        NothingSeen, Presence, Unlinks, Undoes, RollbackRefuses, OwnOutput
  <1>9. UndoneInv'
    BY <1>1, <1>2, <1>3 DEF TypeOK, PhaseInv, EntryInv, EntryOk, SameInv, SameOk,
        PointInv, UndoneInv, Undone, Presence, Unlinks, Undoes, RollbackRefuses,
        OwnOutput
  <1>10. ParentInv'
    BY <1>1, <1>2, <1>3 DEF TypeOK, PhaseInv, EntryInv, EntryOk, PointInv,
        ParentInv, EmptyDir
  <1>11. DirInv'
    BY <1>1, <1>2, <1>3 DEF TypeOK, PhaseInv, EntryInv, EntryOk, SameInv, SameOk,
        UndoneInv, Undone, ParentInv, DirInv, EmptyDir
  <1>12. PassedInv'
    BY <1>1, <1>2, <1>3 DEF TypeOK, PhaseInv, PointInv, PassedInv
  <1>. QED BY <1>4, <1>5, <1>6, <1>7, <1>8, <1>9, <1>10, <1>11, <1>12

(* SetRolledBack keeps the invariant.                                      *)
LEMMA SetRolledBackStep ==
  ASSUME IInv, SetRolledBack
  PROVE  IInv'
  <1>. USE ConstantsAssumption DEF ConstantsAssumption, IInv, Entry, MaybeFile,
      ApplyPoints, UndoPoints
  <1>1. file' = file /\ dirs' = dirs /\ txn' = txn /\ entries' = entries /\ orig' =
            orig /\ made' = made /\ staged' = staged /\ backup' = backup /\ force' =
            force /\ before' = before /\ touched' = touched /\ raced' = raced /\
            crashes' = crashes /\ edits' = edits
    BY DEF SetRolledBack, worktree, journal, history, GiveUp
  <1>2. pc = "rb_phase" /\ pc' = "finish" /\ cur' = 0 /\ phase' = "rolled_back"
    BY <1>1 DEF SetRolledBack, TypeOK, PhaseInv, GoTo
  <1>3. TypeOK'
    BY <1>1, <1>2 DEF TypeOK, Phases, Presence, PCs, NoBackup, NothingSeen
  <1>4. PhaseInv'
    BY <1>1, <1>2 DEF TypeOK, PhaseInv, PCs
  <1>5. EntryInv'
    BY <1>1, <1>2 DEF TypeOK, PhaseInv, EntryInv, EntryOk, PointInv, NoBackup,
        NothingSeen, Presence
  <1>6. SameInv'
    BY <1>1, <1>2 DEF TypeOK, PhaseInv, EntryInv, EntryOk, SameInv, SameOk,
        PointInv, NoBackup, NothingSeen, Presence
  <1>7. PointInv'
    BY <1>1, <1>2 DEF TypeOK, PhaseInv, EntryInv, EntryOk, PointInv, NoBackup,
        NothingSeen, Presence, Unlinks, Undoes, RollbackRefuses, OwnOutput
  <1>8. UndoneInv'
    BY <1>1, <1>2 DEF TypeOK, PhaseInv, EntryInv, EntryOk, SameInv, SameOk,
        PointInv, UndoneInv, Undone, Presence, Unlinks, Undoes, RollbackRefuses,
        OwnOutput
  <1>9. ParentInv'
    BY <1>1, <1>2 DEF TypeOK, PhaseInv, EntryInv, EntryOk, PointInv, ParentInv
  <1>10. DirInv'
    BY <1>1, <1>2 DEF TypeOK, PhaseInv, EntryInv, EntryOk, SameInv, SameOk,
        UndoneInv, Undone, ParentInv, DirInv, EmptyDir
  <1>11. PassedInv'
    BY <1>1, <1>2 DEF TypeOK, PhaseInv, PointInv, PassedInv
  <1>. QED BY <1>3, <1>4, <1>5, <1>6, <1>7, <1>8, <1>9, <1>10, <1>11

(* Recover keeps the invariant.                                            *)
LEMMA RecoverStep ==
  ASSUME IInv, NEW abort \in BOOLEAN, Recover(abort)
  PROVE  IInv'
  <1>. USE ConstantsAssumption DEF ConstantsAssumption, IInv, Entry, MaybeFile,
      ApplyPoints, UndoPoints
  <1>1. file' = file /\ dirs' = dirs /\ txn' = txn /\ phase' = phase /\ entries' =
            entries /\ orig' = orig /\ made' = made /\ staged' = staged /\ backup' =
            backup /\ force' = force /\ before' = before /\ touched' = touched /\
            raced' = raced /\ crashes' = crashes /\ edits' = edits
    BY DEF Recover, worktree, journal, history, GiveUp
  <1>2. pc = "idle" /\ txn = "formal"
    BY <1>1 DEF Recover, TypeOK, PhaseInv, GoTo
  <1>3. \/ ToRollback
        \/ pc' = "finish" /\ cur' = 0 /\ phase = "applied" /\ \A e \in entries : file[e] = Target[e]
    BY <1>1, <1>2, StartRollbackFacts DEF Recover, OwnOutput, GoTo, TypeOK
  <1>4. TypeOK'
    <2>1. cur' \in 0..N
      BY <1>1, <1>2, <1>3 DEF ToRollback, TypeOK
    <2>2. pc' \in PCs
      BY <1>1, <1>2, <1>3 DEF ToRollback, PCs, TypeOK
    <2>. QED BY <1>1, <2>1, <2>2 DEF TypeOK
  <1>5. PhaseInv'
    BY <1>1, <1>2, <1>3 DEF ToRollback, TypeOK, PhaseInv, PCs
  <1>6. EntryInv'
    BY <1>1, <1>2, <1>3 DEF ToRollback, TypeOK, PhaseInv, EntryInv, EntryOk,
        PointInv, NoBackup, NothingSeen, Presence
  <1>7. SameInv'
    BY <1>1, <1>2, <1>3 DEF ToRollback, TypeOK, PhaseInv, EntryInv, EntryOk,
        SameInv, SameOk, PointInv, NoBackup, NothingSeen, Presence
  <1>8. PointInv'
    BY <1>1, <1>2, <1>3 DEF ToRollback, TypeOK, PhaseInv, EntryInv, EntryOk,
        PointInv, NoBackup, NothingSeen, Presence, Unlinks, Undoes, RollbackRefuses,
        OwnOutput
  <1>9. UndoneInv'
    <2>1. pc' \in UndoPoints => \A d \in entries : ~(d > cur')
      BY <1>1, <1>2, <1>3 DEF ToRollback, TypeOK
    <2>2. pc' # "rb_phase" /\ (pc' = "rb_dirs" => entries = {})
      BY <1>1, <1>2, <1>3 DEF ToRollback
    <2>3. txn = "formal" /\ phase = "rolled_back" => \A d \in entries : Undone(d)'
      BY <1>1, <1>2, <1>3 DEF ToRollback, UndoneInv, Undone
    <2>. QED BY <1>1, <2>1, <2>2, <2>3 DEF UndoneInv
  <1>10. ParentInv'
    BY <1>1, <1>2, <1>3 DEF ToRollback, TypeOK, PhaseInv, EntryInv, EntryOk,
        PointInv, ParentInv
  <1>11. DirInv'
    BY <1>1, <1>2, <1>3 DEF ToRollback, TypeOK, PhaseInv, EntryInv, EntryOk,
        SameInv, SameOk, UndoneInv, Undone, ParentInv, DirInv, EmptyDir
  <1>12. PassedInv'
    BY <1>1, <1>2, <1>3 DEF ToRollback, TypeOK, PhaseInv, PointInv, PassedInv
  <1>. QED BY <1>4, <1>5, <1>6, <1>7, <1>8, <1>9, <1>10, <1>11, <1>12

(* Crash keeps the invariant.                                              *)
LEMMA CrashStep ==
  ASSUME IInv, Crash
  PROVE  IInv'
  <1>. USE ConstantsAssumption DEF ConstantsAssumption, IInv, Entry, MaybeFile,
      ApplyPoints, UndoPoints
  <1>1. file' = file /\ dirs' = dirs /\ txn' = txn /\ phase' = phase /\ entries' =
            entries /\ orig' = orig /\ made' = made /\ staged' = staged /\ backup' =
            backup /\ force' = force /\ before' = before /\ touched' = touched /\
            raced' = raced /\ edits' = edits
    BY DEF Crash, worktree, journal, history, GiveUp
  <1>2. pc' = "idle" /\ cur' = 0
    BY <1>1 DEF Crash, TypeOK, PhaseInv, GoTo
  <1>3. crashes' \in 0..MaxCrashes
    BY <1>1, <1>2 DEF Crash, TypeOK, PhaseInv, GoTo
  <1>4. TypeOK'
    BY <1>1, <1>2, <1>3 DEF TypeOK, Phases, Presence, PCs, NoBackup, NothingSeen
  <1>5. PhaseInv'
    BY <1>1, <1>2, <1>3 DEF TypeOK, PhaseInv, PCs
  <1>6. EntryInv'
    BY <1>1, <1>2, <1>3 DEF TypeOK, PhaseInv, EntryInv, EntryOk, PointInv, NoBackup,
        NothingSeen, Presence
  <1>7. SameInv'
    BY <1>1, <1>2, <1>3 DEF TypeOK, PhaseInv, EntryInv, EntryOk, SameInv, SameOk,
        PointInv, NoBackup, NothingSeen, Presence
  <1>8. PointInv'
    BY <1>1, <1>2, <1>3 DEF TypeOK, PhaseInv, EntryInv, EntryOk, PointInv, NoBackup,
        NothingSeen, Presence, Unlinks, Undoes, RollbackRefuses, OwnOutput
  <1>9. UndoneInv'
    BY <1>1, <1>2, <1>3 DEF TypeOK, PhaseInv, EntryInv, EntryOk, SameInv, SameOk,
        PointInv, UndoneInv, Undone, Presence, Unlinks, Undoes, RollbackRefuses,
        OwnOutput
  <1>10. ParentInv'
    BY <1>1, <1>2, <1>3 DEF TypeOK, PhaseInv, EntryInv, EntryOk, PointInv, ParentInv
  <1>11. DirInv'
    BY <1>1, <1>2, <1>3 DEF TypeOK, PhaseInv, EntryInv, EntryOk, SameInv, SameOk,
        UndoneInv, Undone, ParentInv, DirInv, EmptyDir
  <1>12. PassedInv'
    BY <1>1, <1>2, <1>3 DEF TypeOK, PhaseInv, PointInv, PassedInv
  <1>. QED BY <1>4, <1>5, <1>6, <1>7, <1>8, <1>9, <1>10, <1>11, <1>12

(* UserEdit keeps the invariant.                                           *)
LEMMA UserEditStep ==
  ASSUME IInv, NEW u \in Entry, NEW c \in MaybeFile, UserEdit(u, c)
  PROVE  IInv'
  <1>. USE ConstantsAssumption DEF ConstantsAssumption, IInv, Entry, MaybeFile,
      ApplyPoints, UndoPoints
  <1>1. dirs' = dirs /\ txn' = txn /\ phase' = phase /\ entries' = entries /\ orig'
            = orig /\ made' = made /\ staged' = staged /\ backup' = backup /\ force'
            = force /\ before' = before /\ crashes' = crashes
    BY DEF UserEdit, worktree, journal, history, GiveUp
  <1>2. pc' = pc /\ cur' = cur /\ Parent[u] \in dirs \cup {Root}
    BY <1>1 DEF UserEdit, TypeOK, PhaseInv, GoTo
  <1>3. file' = [file EXCEPT ![u] = c] /\ touched' = touched \cup {u}
    BY <1>1, <1>2 DEF UserEdit, TypeOK, PhaseInv, GoTo
  <1>4. /\ raced \subseteq raced' /\ raced' \subseteq Entry
        /\ pc = "rb_remove" /\ cur = u => u \in raced'
    BY <1>1, <1>2, <1>3 DEF UserEdit, TypeOK, PhaseInv, GoTo
  <1>5. edits' \in 0..MaxEdits /\ edits' # 0
    BY <1>1, <1>2, <1>3, <1>4 DEF UserEdit, TypeOK, PhaseInv, GoTo
  <1>6. TypeOK'
    BY <1>1, <1>2, <1>3, <1>4, <1>5 DEF TypeOK, Phases, Presence, PCs, NoBackup,
        NothingSeen
  <1>7. PhaseInv'
    BY <1>1, <1>2, <1>3, <1>4, <1>5 DEF TypeOK, PhaseInv, PCs
  <1>8. EntryInv'
    BY <1>1, <1>2, <1>3, <1>4, <1>5 DEF TypeOK, PhaseInv, EntryInv, EntryOk,
        PointInv, NoBackup, NothingSeen, Presence
  <1>9. SameInv'
    BY <1>1, <1>2, <1>3, <1>4, <1>5 DEF TypeOK, PhaseInv, EntryInv, EntryOk,
        SameInv, SameOk, PointInv, NoBackup, NothingSeen, Presence
  <1>10. PointInv'
    BY <1>1, <1>2, <1>3, <1>4, <1>5 DEF TypeOK, PhaseInv, EntryInv, EntryOk,
        PointInv, NoBackup, NothingSeen, Presence, Unlinks, Undoes, RollbackRefuses,
        OwnOutput
  <1>11. UndoneInv'
    BY <1>1, <1>2, <1>3, <1>4, <1>5 DEF TypeOK, PhaseInv, EntryInv, EntryOk,
        SameInv, SameOk, PointInv, UndoneInv, Undone, Presence, Unlinks, Undoes,
        RollbackRefuses, OwnOutput
  <1>12. ParentInv'
    BY <1>1, <1>2, <1>3, <1>4, <1>5 DEF TypeOK, PhaseInv, EntryInv, EntryOk,
        PointInv, ParentInv
  <1>13. DirInv'
    BY <1>1, <1>2, <1>3, <1>4, <1>5 DEF TypeOK, PhaseInv, EntryInv, EntryOk,
        SameInv, SameOk, UndoneInv, Undone, ParentInv, DirInv, EmptyDir
  <1>14. PassedInv'
    BY <1>1, <1>2, <1>3, <1>4, <1>5 DEF TypeOK, PhaseInv, PointInv, PassedInv
  <1>. QED BY <1>6, <1>7, <1>8, <1>9, <1>10, <1>11, <1>12, <1>13, <1>14

(* Every step keeps the invariant.                                         *)
LEMMA NextIInv == IInv /\ [Next]_vars => IInv'
  <1>. SUFFICES ASSUME IInv, [Next]_vars PROVE IInv'
    OBVIOUS
  <1>1. CASE Command
    BY <1>1, PublishStep, BeginApplyStep, CheckEntryStep, BackUpStep, EnsureParentsStep,
        MakeParentStep, PublishFileStep, SetAppliedStep, FinishStep, RollbackEntryStep,
        RollbackRemoveStep, RollbackParentsStep, RollbackRestoreStep, RollbackDirsStep,
        SetRolledBackStep DEF Command
  <1>2. ASSUME NEW scope \in SUBSET Entry, NEW f \in BOOLEAN, RestoreWorktreePaths(scope, f)
        PROVE  IInv'
    BY <1>2, RestoreWorktreePathsStep
  <1>3. ASSUME NEW abort \in BOOLEAN, Recover(abort)
        PROVE  IInv'
    BY <1>3, RecoverStep
  <1>4. CASE Crash
    BY <1>4, CrashStep
  <1>5. ASSUME NEW u \in Entry, NEW c \in MaybeFile, UserEdit(u, c)
        PROVE  IInv'
    BY <1>5, UserEditStep
  <1>6. CASE UNCHANGED vars
    <2>. USE <1>6 DEF vars, IInv
    <2>1. TypeOK' /\ PhaseInv'
      BY DEF TypeOK, PhaseInv
    <2>2. EntryInv' /\ SameInv' /\ PointInv'
      BY DEF EntryInv, EntryOk, SameInv, SameOk, PointInv
    <2>3. UndoneInv' /\ ParentInv' /\ DirInv' /\ PassedInv'
      BY DEF UndoneInv, Undone, ParentInv, DirInv, PassedInv
    <2>. QED BY <2>1, <2>2, <2>3
  <1>. QED BY <1>1, <1>2, <1>3, <1>4, <1>5, <1>6 DEF Next

-----------------------------------------------------------------------------
(* The invariant holds throughout.                                         *)
THEOREM Invariance == Spec => []IInv
  BY InitIInv, NextIInv, PTL DEF Spec

(* Type correctness of restore and its recovery.                           *)
THEOREM TypeCorrect == Spec => []TypeOK
  <1>1. IInv => TypeOK
    BY DEF IInv
  <1>. QED BY Invariance, <1>1, PTL

(* A restore that was rolled back (RestoreTransaction::rollback) has put   *)
(* every file the user left alone back, leaves no backup for finish to     *)
(* throw away and, if the user left everything alone, no directory behind. *)
THEOREM RollbackSafe == Spec => []RollbackRestoresOriginal
  <1>1. ASSUME IInv, txn = "formal", phase = "rolled_back"
        PROVE  /\ \A e \in Entry \ touched : file[e] = before.file[e]
               /\ backup = NoBackup
               /\ touched = {} => dirs = before.dirs
    <2>. USE <1>1 DEF IInv
    <2>1. \A d \in entries : Undone(d)
      BY DEF UndoneInv
    <2>2. \A e \in Entry : e \notin entries => orig[e] = "unknown" /\ backup[e] = Absent
      BY DEF EntryInv, EntryOk
    <2>3. \A e \in Entry \ touched : file[e] = before.file[e]
      BY <2>1, <2>2 DEF Undone, SameInv, SameOk
    <2>4. \A e \in Entry : backup[e] = Absent
      BY <2>1, <2>2 DEF Undone
    <2>5. backup = NoBackup
      BY <2>4 DEF TypeOK, NoBackup
    <2>6. touched = {} => dirs = before.dirs
      BY DEF DirInv
    <2>. QED BY <2>3, <2>5, <2>6
  <1>2. IInv => RollbackRestoresOriginal
    BY <1>1 DEF RollbackRestoresOriginal
  <1>. QED BY Invariance, <1>2, PTL

-----------------------------------------------------------------------------
(* The edit counter is a number.                                           *)
LEMMA EditsNat == IInv => edits \in Nat
  BY ConstantsAssumption DEF ConstantsAssumption, IInv, TypeOK

(* A finished rollback leaves everything as it was, and every backup is    *)
(* discarded by the finish of a restore that ran with --force.             *)
LEMMA FinishLoses ==
  ASSUME IInv, Finish, NEW e \in Entry
  PROVE  /\ txn = "formal" /\ phase \in {"applied", "rolled_back"}
         /\ phase = "rolled_back" \/ ~force => backup[e] = Absent
  <1>1. txn = "formal" /\ phase \in {"applied", "rolled_back"}
    BY DEF IInv, PhaseInv, Finish
  <1>2. phase = "rolled_back" => backup[e] = Absent
    BY <1>1 DEF IInv, UndoneInv, Undone, EntryInv, EntryOk
  <1>3. ~force => backup[e] = Absent
    BY DEF IInv, EntryInv, EntryOk, TypeOK, Presence
  <1>. QED BY <1>1, <1>2, <1>3

(* Restore and recover destroy nothing but their own output and what       *)
(* --force allows (remove_published_target verifies before it unlinks,     *)
(* rename_noreplace_durable replaces nothing), except an edit that falls   *)
(* between the two.                                                        *)
THEOREM NothingElseDestroyed == Spec => OnlyOwnOutputDestroyed
  <1>1. ASSUME IInv, [Next]_vars, NEW e \in Entry, edits' = edits,
               ~(pc = "finish" /\ phase = "applied" /\ force),
               ~(pc = "rb_remove" /\ e \in raced)
        PROVE  Lost(e) = {}
    <2>. USE DEF Lost, worktree, journal, history
    <2>1. CASE Finish
      <3>1. pc = "finish" /\ file' = file /\ backup[e] = Absent
        BY <1>1, <2>1, FinishLoses DEF Finish
      <3>. QED BY <3>1
    <2>2. CASE BackUp
      <3>1. cur \in Entry /\ backup[cur] = Absent /\ file \in [Entry -> MaybeFile]
            /\ backup \in [Entry -> MaybeFile]
        BY <1>1, <2>2 DEF BackUp, IInv, PointInv, PhaseInv, TypeOK, ApplyPoints
      <3>. QED BY <2>2, <3>1 DEF BackUp
    <2>3. CASE PublishFile
      <3>1. file \in [Entry -> MaybeFile]
        BY <1>1 DEF IInv, TypeOK
      <3>. QED BY <2>3, <3>1 DEF PublishFile
    <2>4. CASE RollbackRemove
      <3>1. pc = "rb_remove" /\ cur \in Entry /\ file \in [Entry -> MaybeFile]
        BY <1>1, <2>4 DEF RollbackRemove, IInv, PhaseInv, TypeOK, UndoPoints
      <3>2. e = cur => file[e] = Target[e]
        BY <1>1, <3>1 DEF IInv, PointInv
      <3>. QED BY <2>4, <3>1, <3>2 DEF RollbackRemove, GiveUp, worktree, journal
    <2>5. CASE RollbackRestore
      <3>1. cur \in Entry /\ file \in [Entry -> MaybeFile] /\ backup \in [Entry -> MaybeFile]
        BY <1>1, <2>5 DEF RollbackRestore, IInv, PhaseInv, TypeOK, UndoPoints
      <3>. QED BY <2>5, <3>1 DEF RollbackRestore, GiveUp
    <2>6. CASE \/ Publish \/ BeginApply \/ CheckEntry \/ EnsureParents \/ MakeParent \/ SetApplied
               \/ RollbackEntry \/ RollbackParents \/ RollbackDirs \/ SetRolledBack \/ Crash
      BY <2>6 DEF Publish, BeginApply, CheckEntry, EnsureParents, MakeParent, SetApplied,
          RollbackEntry, GiveUp, RollbackParents, RollbackDirs, SetRolledBack, Crash
    <2>7. ASSUME NEW scope \in SUBSET Entry, NEW f \in BOOLEAN, RestoreWorktreePaths(scope, f)
          PROVE  Lost(e) = {}
      <3>1. orig[e] = "unknown" => backup[e] = Absent
        BY <1>1 DEF IInv, EntryInv, EntryOk
      <3>2. pc = "idle" /\ txn # "formal" /\ file' = file
        BY <2>7 DEF RestoreWorktreePaths
      <3>3. orig[e] = "unknown"
        BY <1>1, <3>2 DEF IInv, PhaseInv, PointInv, EntryInv, EntryOk, TypeOK
      <3>. QED BY <3>1, <3>2, <3>3
    <2>8. ASSUME NEW abort \in BOOLEAN, Recover(abort)
          PROVE  Lost(e) = {}
      BY <2>8 DEF Recover
    <2>9. ASSUME NEW u \in Entry, NEW c \in MaybeFile, UserEdit(u, c)
          PROVE  FALSE
      BY <1>1, <2>9, EditsNat DEF UserEdit
    <2>10. CASE UNCHANGED vars
      BY <2>10 DEF vars
    <2>. QED BY <1>1, <2>1, <2>2, <2>3, <2>4, <2>5, <2>6, <2>7, <2>8, <2>9, <2>10
          DEF Next, Command
  <1>2. IInv /\ [Next]_vars =>
          [\A e \in Entry :
             Lost(e) # {} =>
                \/ edits' # edits
                \/ pc = "finish" /\ phase = "applied" /\ force
                \/ pc = "rb_remove" /\ e \in raced]_vars
    BY <1>1
  <1>. QED BY Invariance, <1>2, PTL DEF Spec, OnlyOwnOutputDestroyed

-----------------------------------------------------------------------------
(* What a transaction leads to.                                            *)
Goal == [e \in Entry |-> IF e \in entries THEN Target[e] ELSE before.file[e]]

(* Until the user interferes, restore implements AtomicChange: publish     *)
(* begins the change, finish commits or aborts it, and every other step    *)
(* stutters.                                                               *)
THEOREM Refinement == Spec => AllOrNothing
  <1>. DEFINE Step == Atomic!Next \/ edits' > 0
  <1>1. Init => Atomic!Init
    BY DEF Init, Atomic!Init
  <1>2. ASSUME IInv, [Next]_vars
        PROVE  [Step]_(Atomic!vars)
    <2>. USE DEF Atomic!vars, worktree, journal, history
    <2>1. CASE Publish
      <3>1. txn = "draft" /\ txn' = "formal" /\ before' = before /\ entries' = entries
        BY <1>2, <2>1 DEF Publish, IInv, PhaseInv
      <3>2. CASE edits > 0
        BY <2>1, <3>2 DEF Publish
      <3>3. CASE edits = 0
        <4>1. \A e \in Entry : file[e] = before.file[e]
          BY <1>2, <3>1, <3>3 DEF IInv, PassedInv, PointInv, SameInv, SameOk
        <4>2. file = before.file
          BY <1>2, <4>1 DEF IInv, TypeOK
        <4>3. Goal \in [Entry -> MaybeFile]
          BY <1>2, ConstantsAssumption DEF ConstantsAssumption, IInv, TypeOK,
              MaybeFile, Goal
        <4>4. PICK w \in [Entry -> MaybeFile] : w = Goal
          BY <4>3
        <4>5. Atomic!Begin(w)
          BY <3>1, <4>2, <4>4 DEF Atomic!Begin, Goal
        <4>6. Atomic!Next
          BY <4>5, <4>4 DEF Atomic!Next
        <4>. QED BY <4>6
      <3>. QED BY <1>2, EditsNat, <3>2, <3>3
    <2>2. CASE Finish
      <3>1. txn = "formal" /\ txn' = "none" /\ file' = file /\ edits' = edits
        BY <1>2, <2>2, FinishLoses DEF Finish, IInv, PhaseInv
      <3>2. CASE edits > 0
        BY <3>1, <3>2
      <3>3. CASE edits = 0 /\ phase = "applied"
        <4>1. \A e \in Entry : file[e] = Goal[e]
          BY <1>2, <2>2, <3>1, <3>3
          DEF Finish, IInv, PassedInv, EntryInv, EntryOk, SameInv, SameOk, TypeOK, Goal
        <4>2. file = Goal
          BY <1>2, <4>1 DEF IInv, TypeOK, Goal
        <4>3. Atomic!Commit
          BY <3>1, <4>2 DEF Atomic!Commit, Goal
        <4>. QED BY <4>3 DEF Atomic!Next
      <3>4. CASE edits = 0 /\ phase = "rolled_back"
        <4>1. \A e \in Entry : file[e] = before.file[e]
          BY <1>2, <3>1, <3>4
          DEF IInv, PassedInv, UndoneInv, Undone, EntryInv, EntryOk, SameInv, SameOk
        <4>2. file = before.file
          BY <1>2, <4>1 DEF IInv, TypeOK
        <4>3. Atomic!Abort
          BY <3>1, <4>2 DEF Atomic!Abort
        <4>. QED BY <4>3 DEF Atomic!Next
      <3>5. phase = "applied" \/ phase = "rolled_back"
        BY <1>2, <2>2 DEF IInv, PhaseInv, Finish
      <3>. QED BY <1>2, EditsNat, <3>2, <3>3, <3>4, <3>5
    <2>3. CASE \/ BeginApply \/ CheckEntry \/ BackUp \/ EnsureParents \/ MakeParent \/ PublishFile
               \/ SetApplied \/ RollbackEntry \/ RollbackRemove \/ RollbackParents
               \/ RollbackRestore \/ RollbackDirs \/ SetRolledBack
      <3>1. txn = "formal" /\ txn' = txn /\ before' = before /\ entries' = entries
        BY <1>2, <2>3 DEF BeginApply, CheckEntry, BackUp, EnsureParents, MakeParent,
            PublishFile,
            SetApplied, RollbackEntry, GiveUp, RollbackRemove, RollbackParents, RollbackRestore,
            RollbackDirs, SetRolledBack, IInv, PhaseInv
      <3>. QED BY <3>1
    <2>4. ASSUME NEW scope \in SUBSET Entry, NEW f \in BOOLEAN, RestoreWorktreePaths(scope, f)
          PROVE  UNCHANGED Atomic!vars
      BY <2>4 DEF RestoreWorktreePaths
    <2>5. CASE (\E abort \in BOOLEAN : Recover(abort)) \/ Crash
      BY <2>5 DEF Recover, Crash
    <2>6. ASSUME NEW u \in Entry, NEW c \in MaybeFile, UserEdit(u, c)
          PROVE  Step
      BY <1>2, <2>6, EditsNat DEF UserEdit
    <2>7. CASE UNCHANGED vars
      BY <2>7 DEF vars
    <2>. QED BY <1>2, <2>1, <2>2, <2>3, <2>4, <2>5, <2>6, <2>7 DEF Next, Command
  <1>3. IInv /\ [Next]_vars => [Step]_(Atomic!vars)
    BY <1>2
  <1>. QED BY Invariance, <1>1, <1>3, PTL DEF Spec, AllOrNothing
=============================================================================
