---------------------- MODULE RemoveTransaction_proofs ----------------------
(***************************************************************************)
(* rm is safe for every number of files, every set of contents and every   *)
(* bound on crashes, user edits and faults.  The argument rests on one     *)
(* inductive invariant, IInv: RollbackRestoresOriginal speaks of the end   *)
(* of a rollback only, so it is strengthened to say at every point where a *)
(* file the user left alone is (FileInv), which backups the running        *)
(* process still knows of (BackupInv, MovedInv) and what control point and *)
(* durable state have to do with each other (PhaseInv).                    *)
(***************************************************************************)
EXTENDS RemoveTransaction, TLAPS

(* The points at which a process is applying or undoing the removal.       *)
Applying == {"check", "rename", "index"}
Undoing == {"restore", "restore_rename"}

(* TypeOK in four parts.                                                   *)
TypeFiles ==
    /\ file \in [Entry -> Node]
    /\ backup \in [Entry -> Node]
    /\ before \in [Entry -> Node]

TypeJournal ==
    /\ index \in {"before", "after"}
    /\ txn \in BOOLEAN
    /\ state \in {"prepared", "index_committed"}
    /\ entry \in [Entry -> EntryStates]

TypeControl ==
    /\ pc \in PCs
    /\ cur \in 0..(N + 1)
    /\ pc \in {"rename", "restore_rename"} => cur \in Entry
    /\ pc = "check" => cur > 0
    /\ pc = "restore" => cur <= N
    /\ moved \subseteq Entry
    /\ force \in BOOLEAN

TypeHistory ==
    /\ touched \subseteq Entry
    /\ raced \subseteq Entry
    /\ stuck \in BOOLEAN
    /\ crashes \in 0..MaxCrashes
    /\ edits \in 0..MaxEdits
    /\ faults \in 0..MaxFaults

(* A command runs inside its transaction, and the Index is written after   *)
(* the last file was moved.                                                *)
PhaseInv ==
    /\ pc # "idle" => txn
    /\ pc \in Applying \cup Undoing => index = "before"
    /\ pc = "mark" => index = "after"
    /\ txn /\ index = "before" => state = "prepared"
    /\ pc = "rename" => entry[cur] = "move_intent"

(* Every backup is announced in the manifest and known to the running      *)
(* process, and the rollback works its way down to the first entry.        *)
BackupInv ==
    \A e \in Entry : backup[e] # Absent =>
        /\ txn
        /\ entry[e] = "move_intent"
        /\ pc \in Applying \cup Undoing => e \in moved
        /\ pc \in {"check", "rename"} => e < cur
        /\ pc \in Undoing => e <= cur
        /\ pc = "finish" => index = "after"

MovedInv ==
    pc \in Applying \cup Undoing =>
        \A e \in moved : entry[e] = "move_intent" /\ (pc \in {"check", "rename"} => e < cur)

(* A file the user left alone is in place or in the backup, never both,    *)
(* never neither.                                                          *)
FileInv ==
    txn /\ index = "before" =>
        \A e \in Entry \ touched :
            /\ \/ file[e] = before[e] /\ backup[e] = Absent
               \/ file[e] = Absent /\ backup[e] = before[e] /\ before[e] # Absent
            /\ entry[e] = "move_intent" => before[e] \in Contents
            /\ pc = "restore_rename" /\ cur = e => file[e] = Absent

(* Without --force a backup holds what the Index records.                  *)
ContentInv ==
    ~force => \A e \in Entry \ raced :
        /\ backup[e] \in {Absent, Recorded[e]}
        /\ pc = "rename" /\ cur = e => file[e] = Recorded[e]

(* While the user leaves everything alone, the entries passed are gone.    *)
GoneInv ==
    edits = 0 =>
        /\ touched = {}
        /\ pc \in {"check", "rename"} => \A e \in Entry : e < cur => file[e] = Absent
        /\ pc = "index" \/ (txn /\ index = "after") => \A e \in Entry : file[e] = Absent

NotStuck == ~stuck

IInv == /\ TypeFiles /\ TypeJournal /\ TypeControl /\ TypeHistory
        /\ PhaseInv /\ BackupInv /\ MovedInv /\ FileInv /\ ContentInv /\ GoneInv /\ NotStuck

-----------------------------------------------------------------------------
(* The four parts are the type invariant.                                  *)
LEMMA TypeParts == TypeOK <=> TypeFiles /\ TypeJournal /\ TypeControl /\ TypeHistory
  BY DEF TypeOK, TypeFiles, TypeJournal, TypeControl, TypeHistory

(* A repository without a transaction satisfies the invariant.             *)
LEMMA InitIInv == Init => IInv
  <1>. SUFFICES ASSUME Init PROVE IInv
    OBVIOUS
  <1>. USE ConstantsAssumption DEF ConstantsAssumption, Init, Entry, Node
  <1>1. TypeFiles /\ TypeJournal
    BY DEF TypeFiles, TypeJournal, EntryStates
  <1>2. TypeControl
    <2>1. force \in BOOLEAN
      OBVIOUS
    <2>2. cur \in 0..(N + 1)
      OBVIOUS
    <2>. QED BY <2>1, <2>2 DEF TypeControl, PCs
  <1>5. TypeHistory
    <2>1. stuck \in BOOLEAN
      OBVIOUS
    <2>2. crashes \in 0..MaxCrashes /\ edits \in 0..MaxEdits /\ faults \in 0..MaxFaults
      OBVIOUS
    <2>. QED BY <2>1, <2>2 DEF TypeHistory
  <1>3. PhaseInv /\ BackupInv /\ MovedInv
    BY DEF PhaseInv, BackupInv, MovedInv, Applying, Undoing
  <1>4. FileInv /\ ContentInv /\ GoneInv /\ NotStuck
    BY DEF FileInv, ContentInv, GoneInv, NotStuck
  <1>. QED BY <1>1, <1>2, <1>3, <1>4, <1>5 DEF IInv

(* Every step keeps the invariant, action by action.                       *)
LEMMA NextIInv == IInv /\ [Next]_vars => IInv'
  <1>. SUFFICES ASSUME IInv, [Next]_vars PROVE IInv'
    OBVIOUS
  <1>. USE ConstantsAssumption DEF ConstantsAssumption, IInv, Entry, Node, Applying,
          Undoing, EntryStates, PCs, journal, control, history, bounds
  <1>1. ASSUME NEW f \in BOOLEAN, RemoveTrackedPath(f) PROVE IInv'
    <2>1. TypeFiles' BY <1>1 DEF RemoveTrackedPath, Clean, TypeFiles, TypeJournal,
            TypeControl
    <2>2. TypeJournal' BY <1>1 DEF RemoveTrackedPath, Clean, TypeJournal, TypeControl
    <2>3. TypeControl' BY <1>1 DEF RemoveTrackedPath, Clean, TypeControl, TypeJournal
    <2>4. TypeHistory' BY <1>1 DEF RemoveTrackedPath, Clean, TypeHistory
    <2>5. PhaseInv' BY <1>1 DEF RemoveTrackedPath, Clean, PhaseInv, TypeControl,
            TypeJournal
    <2>6. BackupInv'
      BY <1>1 DEF RemoveTrackedPath, Clean, BackupInv, TypeFiles, TypeControl,
          TypeJournal, PhaseInv
    <2>7. MovedInv'
      BY <1>1 DEF RemoveTrackedPath, Clean, MovedInv, TypeControl, TypeJournal, PhaseInv
    <2>8. FileInv'
      BY <1>1 DEF RemoveTrackedPath, Clean, FileInv, TypeFiles, TypeControl,
          TypeJournal, PhaseInv, BackupInv, MovedInv
    <2>9. ContentInv'
      BY <1>1 DEF RemoveTrackedPath, Clean, ContentInv, TypeFiles, TypeControl,
          PhaseInv, BackupInv
    <2>10. GoneInv'
      BY <1>1 DEF RemoveTrackedPath, Clean, GoneInv, TypeFiles, TypeControl,
          TypeHistory, PhaseInv
    <2>11. NotStuck'
      BY <1>1 DEF RemoveTrackedPath, Clean, NotStuck, TypeFiles, TypeControl,
          TypeHistory, PhaseInv, BackupInv, MovedInv, FileInv
    <2>. QED BY <2>1, <2>2, <2>3, <2>4, <2>5, <2>6, <2>7, <2>8, <2>9, <2>10, <2>11
          DEF IInv
  <1>2. ASSUME NEW f \in BOOLEAN, RemoveCached(f) PROVE IInv'
    <2>1. TypeFiles' BY <1>2 DEF RemoveCached, Clean, TypeFiles, TypeJournal,
            TypeControl
    <2>2. TypeJournal' BY <1>2 DEF RemoveCached, Clean, TypeJournal, TypeControl
    <2>3. TypeControl' BY <1>2 DEF RemoveCached, Clean, TypeControl, TypeJournal
    <2>4. TypeHistory' BY <1>2 DEF RemoveCached, Clean, TypeHistory
    <2>5. PhaseInv' BY <1>2 DEF RemoveCached, Clean, PhaseInv, TypeControl, TypeJournal
    <2>6. BackupInv'
      BY <1>2 DEF RemoveCached, Clean, BackupInv, TypeFiles, TypeControl, TypeJournal,
          PhaseInv
    <2>7. MovedInv' BY <1>2 DEF RemoveCached, Clean, MovedInv, TypeControl,
            TypeJournal, PhaseInv
    <2>8. FileInv'
      BY <1>2 DEF RemoveCached, Clean, FileInv, TypeFiles, TypeControl, TypeJournal,
          PhaseInv, BackupInv, MovedInv
    <2>9. ContentInv'
      BY <1>2 DEF RemoveCached, Clean, ContentInv, TypeFiles, TypeControl, PhaseInv,
          BackupInv
    <2>10. GoneInv'
      BY <1>2 DEF RemoveCached, Clean, GoneInv, TypeFiles, TypeControl, TypeHistory,
          PhaseInv
    <2>11. NotStuck'
      BY <1>2 DEF RemoveCached, Clean, NotStuck, TypeFiles, TypeControl, TypeHistory,
          PhaseInv, BackupInv, MovedInv, FileInv
    <2>. QED BY <2>1, <2>2, <2>3, <2>4, <2>5, <2>6, <2>7, <2>8, <2>9, <2>10, <2>11
          DEF IInv
  <1>3. CASE CheckEntry
    <2>1. TypeFiles'
      BY <1>3 DEF CheckEntry, StartRollback, Movable, TypeFiles, TypeJournal,
          TypeControl
    <2>2. TypeJournal' BY <1>3 DEF CheckEntry, StartRollback, Movable, TypeJournal,
            TypeControl
    <2>3. TypeControl' BY <1>3 DEF CheckEntry, StartRollback, Movable, TypeControl,
            TypeJournal
    <2>4. TypeHistory' BY <1>3 DEF CheckEntry, StartRollback, Movable, TypeHistory
    <2>5. PhaseInv'
      BY <1>3 DEF CheckEntry, StartRollback, Movable, PhaseInv, TypeControl, TypeJournal
    <2>6. BackupInv'
      BY <1>3 DEF CheckEntry, StartRollback, Movable, BackupInv, TypeFiles,
          TypeControl, TypeJournal, PhaseInv
    <2>7. MovedInv'
      BY <1>3 DEF CheckEntry, StartRollback, Movable, MovedInv, TypeControl,
          TypeJournal, PhaseInv
    <2>8. FileInv'
      BY <1>3 DEF CheckEntry, StartRollback, Movable, FileInv, TypeFiles, TypeControl,
          TypeJournal, PhaseInv, BackupInv, MovedInv
    <2>9. ContentInv'
      BY <1>3 DEF CheckEntry, StartRollback, Movable, ContentInv, TypeFiles,
          TypeControl, PhaseInv, BackupInv
    <2>10. GoneInv'
      BY <1>3 DEF CheckEntry, StartRollback, Movable, GoneInv, TypeFiles, TypeControl,
          TypeHistory, PhaseInv
    <2>11. NotStuck'
      BY <1>3 DEF CheckEntry, StartRollback, Movable, NotStuck, TypeFiles,
          TypeControl, TypeHistory, PhaseInv, BackupInv, MovedInv, FileInv
    <2>. QED BY <2>1, <2>2, <2>3, <2>4, <2>5, <2>6, <2>7, <2>8, <2>9, <2>10, <2>11
          DEF IInv
  <1>4. CASE MoveEntry
    <2>1. TypeFiles' BY <1>4 DEF MoveEntry, StartRollback, TypeFiles, TypeJournal,
            TypeControl
    <2>2. TypeJournal' BY <1>4 DEF MoveEntry, StartRollback, TypeJournal, TypeControl
    <2>3. TypeControl'
      <3>1. cur \in 1..N /\ cur + 1 \in 0..(N + 1) /\ N \in 0..(N + 1)
        BY <1>4 DEF MoveEntry, TypeControl
      <3>2. moved' \subseteq Entry
        BY <1>4, <3>1 DEF MoveEntry, TypeControl
      <3>. QED BY <1>4, <3>1, <3>2 DEF MoveEntry, StartRollback, TypeControl
    <2>4. TypeHistory' BY <1>4 DEF MoveEntry, StartRollback, TypeHistory
    <2>5. PhaseInv' BY <1>4 DEF MoveEntry, StartRollback, PhaseInv, TypeControl,
            TypeJournal
    <2>6. BackupInv'
      BY <1>4 DEF MoveEntry, StartRollback, BackupInv, TypeFiles, TypeControl,
          TypeJournal, PhaseInv
    <2>7. MovedInv'
      <3>1. CASE file[cur] = Absent
        BY <1>4, <3>1 DEF MoveEntry, StartRollback, MovedInv
      <3>2. CASE file[cur] # Absent
        <4>1. cur \in 1..N /\ moved \subseteq 1..N /\ entry[cur] = "move_intent"
          BY <1>4 DEF MoveEntry, TypeControl, PhaseInv
        <4>2. moved' = moved \cup {cur} /\ cur' = cur + 1 /\ entry' = entry
          BY <1>4, <3>2 DEF MoveEntry
        <4>3. \A e \in moved : entry[e] = "move_intent" /\ e < cur
          BY <1>4 DEF MoveEntry, MovedInv
        <4>. QED BY <4>1, <4>2, <4>3 DEF MovedInv
      <3>. QED BY <3>1, <3>2
    <2>8. FileInv'
      BY <1>4 DEF MoveEntry, StartRollback, FileInv, TypeFiles, TypeControl,
          TypeJournal, PhaseInv, BackupInv, MovedInv
    <2>9. ContentInv'
      BY <1>4 DEF MoveEntry, StartRollback, ContentInv, TypeFiles, TypeControl,
          PhaseInv, BackupInv
    <2>10. GoneInv'
      BY <1>4 DEF MoveEntry, StartRollback, GoneInv, TypeFiles, TypeControl,
          TypeHistory, PhaseInv
    <2>11. NotStuck'
      BY <1>4 DEF MoveEntry, StartRollback, NotStuck, TypeFiles, TypeControl,
          TypeHistory, PhaseInv, BackupInv, MovedInv, FileInv
    <2>. QED BY <2>1, <2>2, <2>3, <2>4, <2>5, <2>6, <2>7, <2>8, <2>9, <2>10, <2>11
          DEF IInv
  <1>5. CASE WriteIndex
    <2>1. TypeFiles' BY <1>5 DEF WriteIndex, StartRollback, TypeFiles, TypeJournal,
            TypeControl
    <2>2. TypeJournal' BY <1>5 DEF WriteIndex, StartRollback, TypeJournal, TypeControl
    <2>3. TypeControl' BY <1>5 DEF WriteIndex, StartRollback, TypeControl, TypeJournal
    <2>4. TypeHistory' BY <1>5 DEF WriteIndex, StartRollback, TypeHistory
    <2>5. PhaseInv' BY <1>5 DEF WriteIndex, StartRollback, PhaseInv, TypeControl,
            TypeJournal
    <2>6. BackupInv'
      BY <1>5 DEF WriteIndex, StartRollback, BackupInv, TypeFiles, TypeControl,
          TypeJournal, PhaseInv
    <2>7. MovedInv'
      BY <1>5 DEF WriteIndex, StartRollback, MovedInv, TypeControl, TypeJournal,
          PhaseInv
    <2>8. FileInv'
      BY <1>5 DEF WriteIndex, StartRollback, FileInv, TypeFiles, TypeControl,
          TypeJournal, PhaseInv, BackupInv, MovedInv
    <2>9. ContentInv'
      BY <1>5 DEF WriteIndex, StartRollback, ContentInv, TypeFiles, TypeControl,
          PhaseInv, BackupInv
    <2>10. GoneInv'
      BY <1>5 DEF WriteIndex, StartRollback, GoneInv, TypeFiles, TypeControl,
          TypeHistory, PhaseInv
    <2>11. NotStuck'
      BY <1>5 DEF WriteIndex, StartRollback, NotStuck, TypeFiles, TypeControl,
          TypeHistory, PhaseInv, BackupInv, MovedInv, FileInv
    <2>. QED BY <2>1, <2>2, <2>3, <2>4, <2>5, <2>6, <2>7, <2>8, <2>9, <2>10, <2>11
          DEF IInv
  <1>6. CASE MarkIndexCommitted
    <2>1. TypeFiles' BY <1>6 DEF MarkIndexCommitted, TypeFiles, TypeJournal, TypeControl
    <2>2. TypeJournal' BY <1>6 DEF MarkIndexCommitted, TypeJournal, TypeControl
    <2>3. TypeControl' BY <1>6 DEF MarkIndexCommitted, TypeControl, TypeJournal
    <2>4. TypeHistory' BY <1>6 DEF MarkIndexCommitted, TypeHistory
    <2>5. PhaseInv' BY <1>6 DEF MarkIndexCommitted, PhaseInv, TypeControl, TypeJournal
    <2>6. BackupInv'
      BY <1>6 DEF MarkIndexCommitted, BackupInv, TypeFiles, TypeControl, TypeJournal,
          PhaseInv
    <2>7. MovedInv' BY <1>6 DEF MarkIndexCommitted, MovedInv, TypeControl,
            TypeJournal, PhaseInv
    <2>8. FileInv'
      BY <1>6 DEF MarkIndexCommitted, FileInv, TypeFiles, TypeControl, TypeJournal,
          PhaseInv, BackupInv, MovedInv
    <2>9. ContentInv'
      BY <1>6 DEF MarkIndexCommitted, ContentInv, TypeFiles, TypeControl, PhaseInv,
          BackupInv
    <2>10. GoneInv'
      BY <1>6 DEF MarkIndexCommitted, GoneInv, TypeFiles, TypeControl, TypeHistory,
          PhaseInv
    <2>11. NotStuck'
      BY <1>6 DEF MarkIndexCommitted, NotStuck, TypeFiles, TypeControl, TypeHistory,
          PhaseInv, BackupInv, MovedInv, FileInv
    <2>. QED BY <2>1, <2>2, <2>3, <2>4, <2>5, <2>6, <2>7, <2>8, <2>9, <2>10, <2>11
          DEF IInv
  <1>7. CASE Finish
    <2>1. TypeFiles' BY <1>7 DEF Finish, TypeFiles, TypeJournal, TypeControl
    <2>2. TypeJournal' BY <1>7 DEF Finish, TypeJournal, TypeControl
    <2>3. TypeControl' BY <1>7 DEF Finish, TypeControl, TypeJournal
    <2>4. TypeHistory' BY <1>7 DEF Finish, TypeHistory
    <2>5. PhaseInv' BY <1>7 DEF Finish, PhaseInv, TypeControl, TypeJournal
    <2>6. BackupInv' BY <1>7 DEF Finish, BackupInv, TypeFiles, TypeControl,
            TypeJournal, PhaseInv
    <2>7. MovedInv' BY <1>7 DEF Finish, MovedInv, TypeControl, TypeJournal, PhaseInv
    <2>8. FileInv'
      BY <1>7 DEF Finish, FileInv, TypeFiles, TypeControl, TypeJournal, PhaseInv,
          BackupInv, MovedInv
    <2>9. ContentInv' BY <1>7 DEF Finish, ContentInv, TypeFiles, TypeControl,
            PhaseInv, BackupInv
    <2>10. GoneInv' BY <1>7 DEF Finish, GoneInv, TypeFiles, TypeControl, TypeHistory,
            PhaseInv
    <2>11. NotStuck'
      BY <1>7 DEF Finish, NotStuck, TypeFiles, TypeControl, TypeHistory, PhaseInv,
          BackupInv, MovedInv, FileInv
    <2>. QED BY <2>1, <2>2, <2>3, <2>4, <2>5, <2>6, <2>7, <2>8, <2>9, <2>10, <2>11
          DEF IInv
  <1>8. CASE RestoreEntry
    <2>1. TypeFiles'
      BY <1>8 DEF RestoreEntry, Refuse, Restorable, InPlace, TypeFiles, TypeJournal,
          TypeControl
    <2>2. TypeJournal'
      BY <1>8 DEF RestoreEntry, Refuse, Restorable, InPlace, TypeJournal, TypeControl
    <2>3. TypeControl'
      BY <1>8 DEF RestoreEntry, Refuse, Restorable, InPlace, TypeControl, TypeJournal
    <2>4. TypeHistory' BY <1>8 DEF RestoreEntry, Refuse, Restorable, InPlace,
            TypeHistory
    <2>5. PhaseInv'
      BY <1>8 DEF RestoreEntry, Refuse, Restorable, InPlace, PhaseInv, TypeControl,
          TypeJournal
    <2>6. BackupInv'
      BY <1>8 DEF RestoreEntry, Refuse, Restorable, InPlace, BackupInv, TypeFiles,
          TypeControl, TypeJournal, PhaseInv
    <2>7. MovedInv'
      BY <1>8 DEF RestoreEntry, Refuse, Restorable, InPlace, MovedInv, TypeControl,
          TypeJournal, PhaseInv
    <2>8. FileInv'
      BY <1>8 DEF RestoreEntry, Refuse, Restorable, InPlace, FileInv, TypeFiles,
          TypeControl, TypeJournal, PhaseInv, BackupInv, MovedInv
    <2>9. ContentInv'
      BY <1>8 DEF RestoreEntry, Refuse, Restorable, InPlace, ContentInv, TypeFiles,
          TypeControl, PhaseInv, BackupInv
    <2>10. GoneInv'
      BY <1>8 DEF RestoreEntry, Refuse, Restorable, InPlace, GoneInv, TypeFiles,
          TypeControl, TypeHistory, PhaseInv
    <2>11. NotStuck'
      BY <1>8 DEF RestoreEntry, Refuse, Restorable, InPlace, NotStuck, TypeFiles,
          TypeControl, TypeHistory, PhaseInv, BackupInv, MovedInv, FileInv
    <2>. QED BY <2>1, <2>2, <2>3, <2>4, <2>5, <2>6, <2>7, <2>8, <2>9, <2>10, <2>11
          DEF IInv
  <1>9. CASE RestoreRename
    <2>1. TypeFiles' BY <1>9 DEF RestoreRename, Refuse, TypeFiles, TypeJournal,
            TypeControl
    <2>2. TypeJournal' BY <1>9 DEF RestoreRename, Refuse, TypeJournal, TypeControl
    <2>3. TypeControl' BY <1>9 DEF RestoreRename, Refuse, TypeControl, TypeJournal
    <2>4. TypeHistory' BY <1>9 DEF RestoreRename, Refuse, TypeHistory
    <2>5. PhaseInv' BY <1>9 DEF RestoreRename, Refuse, PhaseInv, TypeControl,
            TypeJournal
    <2>6. BackupInv'
      BY <1>9 DEF RestoreRename, Refuse, BackupInv, TypeFiles, TypeControl,
          TypeJournal, PhaseInv
    <2>7. MovedInv' BY <1>9 DEF RestoreRename, Refuse, MovedInv, TypeControl,
            TypeJournal, PhaseInv
    <2>8. FileInv'
      BY <1>9 DEF RestoreRename, Refuse, FileInv, TypeFiles, TypeControl, TypeJournal,
          PhaseInv, BackupInv, MovedInv
    <2>9. ContentInv'
      BY <1>9 DEF RestoreRename, Refuse, ContentInv, TypeFiles, TypeControl, PhaseInv,
          BackupInv
    <2>10. GoneInv'
      BY <1>9 DEF RestoreRename, Refuse, GoneInv, TypeFiles, TypeControl, TypeHistory,
          PhaseInv
    <2>11. NotStuck'
      BY <1>9 DEF RestoreRename, Refuse, NotStuck, TypeFiles, TypeControl,
          TypeHistory, PhaseInv, BackupInv, MovedInv, FileInv
    <2>. QED BY <2>1, <2>2, <2>3, <2>4, <2>5, <2>6, <2>7, <2>8, <2>9, <2>10, <2>11
          DEF IInv
  <1>10. ASSUME NEW abort \in BOOLEAN, Recover(abort) PROVE IInv'
    <2>1. TypeFiles'
      BY <1>10 DEF Recover, StartRollback, Refuse, TypeFiles, TypeJournal, TypeControl
    <2>2. TypeJournal' BY <1>10 DEF Recover, StartRollback, Refuse, TypeJournal,
            TypeControl
    <2>3. TypeControl'
      <3>1. N \in 0..(N + 1)
        OBVIOUS
      <3>2. moved' \subseteq Entry
        BY <1>10 DEF Recover, TypeControl
      <3>. QED BY <1>10, <3>1, <3>2 DEF Recover, StartRollback, Refuse, TypeControl
    <2>4. TypeHistory' BY <1>10 DEF Recover, StartRollback, Refuse, TypeHistory
    <2>5. PhaseInv' BY <1>10 DEF Recover, StartRollback, Refuse, PhaseInv,
            TypeControl, TypeJournal
    <2>6. BackupInv'
      BY <1>10 DEF Recover, StartRollback, Refuse, BackupInv, TypeFiles, TypeControl,
          TypeJournal, PhaseInv
    <2>7. MovedInv'
      BY <1>10 DEF Recover, StartRollback, Refuse, MovedInv, TypeControl, TypeJournal,
          PhaseInv
    <2>8. FileInv'
      BY <1>10 DEF Recover, StartRollback, Refuse, FileInv, TypeFiles, TypeControl,
          TypeJournal, PhaseInv, BackupInv, MovedInv
    <2>9. ContentInv'
      BY <1>10 DEF Recover, StartRollback, Refuse, ContentInv, TypeFiles, TypeControl,
          PhaseInv, BackupInv
    <2>10. GoneInv'
      BY <1>10 DEF Recover, StartRollback, Refuse, GoneInv, TypeFiles, TypeControl,
          TypeHistory, PhaseInv
    <2>11. NotStuck'
      BY <1>10 DEF Recover, StartRollback, Refuse, NotStuck, TypeFiles, TypeControl,
          TypeHistory, PhaseInv, BackupInv, MovedInv, FileInv
    <2>. QED BY <2>1, <2>2, <2>3, <2>4, <2>5, <2>6, <2>7, <2>8, <2>9, <2>10, <2>11
          DEF IInv
  <1>11. CASE Crash
    <2>1. TypeFiles' BY <1>11 DEF Crash, TypeFiles, TypeJournal, TypeControl
    <2>2. TypeJournal' BY <1>11 DEF Crash, TypeJournal, TypeControl
    <2>3. TypeControl' BY <1>11 DEF Crash, TypeControl, TypeJournal
    <2>4. TypeHistory' BY <1>11 DEF Crash, TypeHistory
    <2>5. PhaseInv' BY <1>11 DEF Crash, PhaseInv, TypeControl, TypeJournal
    <2>6. BackupInv' BY <1>11 DEF Crash, BackupInv, TypeFiles, TypeControl,
            TypeJournal, PhaseInv
    <2>7. MovedInv' BY <1>11 DEF Crash, MovedInv, TypeControl, TypeJournal, PhaseInv
    <2>8. FileInv'
      BY <1>11 DEF Crash, FileInv, TypeFiles, TypeControl, TypeJournal, PhaseInv,
          BackupInv, MovedInv
    <2>9. ContentInv' BY <1>11 DEF Crash, ContentInv, TypeFiles, TypeControl,
            PhaseInv, BackupInv
    <2>10. GoneInv' BY <1>11 DEF Crash, GoneInv, TypeFiles, TypeControl, TypeHistory,
            PhaseInv
    <2>11. NotStuck'
      BY <1>11 DEF Crash, NotStuck, TypeFiles, TypeControl, TypeHistory, PhaseInv,
          BackupInv, MovedInv, FileInv
    <2>. QED BY <2>1, <2>2, <2>3, <2>4, <2>5, <2>6, <2>7, <2>8, <2>9, <2>10, <2>11
          DEF IInv
  <1>12. ASSUME NEW u \in Entry, NEW c \in Node, UserEdit(u, c) PROVE IInv'
    <2>1. TypeFiles' BY <1>12 DEF UserEdit, TypeFiles, TypeJournal, TypeControl
    <2>2. TypeJournal' BY <1>12 DEF UserEdit, TypeJournal, TypeControl
    <2>3. TypeControl' BY <1>12 DEF UserEdit, TypeControl, TypeJournal
    <2>4. TypeHistory' BY <1>12 DEF UserEdit, TypeHistory
    <2>5. PhaseInv' BY <1>12 DEF UserEdit, PhaseInv, TypeControl, TypeJournal
    <2>6. BackupInv' BY <1>12 DEF UserEdit, BackupInv, TypeFiles, TypeControl,
            TypeJournal, PhaseInv
    <2>7. MovedInv' BY <1>12 DEF UserEdit, MovedInv, TypeControl, TypeJournal, PhaseInv
    <2>8. FileInv'
      BY <1>12 DEF UserEdit, FileInv, TypeFiles, TypeControl, TypeJournal, PhaseInv,
          BackupInv, MovedInv
    <2>9. ContentInv' BY <1>12 DEF UserEdit, ContentInv, TypeFiles, TypeControl,
            PhaseInv, BackupInv
    <2>10. GoneInv' BY <1>12 DEF UserEdit, GoneInv, TypeFiles, TypeControl,
            TypeHistory, PhaseInv
    <2>11. NotStuck'
      BY <1>12 DEF UserEdit, NotStuck, TypeFiles, TypeControl, TypeHistory, PhaseInv,
          BackupInv, MovedInv, FileInv
    <2>. QED BY <2>1, <2>2, <2>3, <2>4, <2>5, <2>6, <2>7, <2>8, <2>9, <2>10, <2>11
          DEF IInv
  <1>13. CASE UNCHANGED vars
    BY <1>13 DEF vars, TypeFiles, TypeJournal, TypeControl, TypeHistory, PhaseInv,
        BackupInv, MovedInv,
                 FileInv, ContentInv, GoneInv, NotStuck
  <1>. QED
    BY <1>1, <1>2, <1>3, <1>4, <1>5, <1>6, <1>7, <1>8, <1>9, <1>10, <1>11, <1>12, <1>13
    DEF Next, Command
-----------------------------------------------------------------------------
(* The invariant holds throughout.                                         *)
THEOREM Invariance == Spec => []IInv
  BY InitIInv, NextIInv, PTL DEF Spec, Safety

(* Type correctness of rm and its recovery.                                *)
THEOREM TypeCorrect == Spec => []TypeOK
  <1>1. IInv => TypeOK
    BY TypeParts DEF IInv
  <1>. QED BY Invariance, <1>1, PTL

(* A rollback of rm that reports success (RemovalTransaction::rollback,    *)
(* recover_transaction) has put every file the user left alone back and    *)
(* discards no backup, however many files, crashes and edits there were.   *)
THEOREM RollbackSafe == Spec => []RollbackRestoresOriginal
  <1>1. IInv => RollbackRestoresOriginal
    BY DEF IInv, RollbackRestoresOriginal, BackupInv, FileInv, TypeJournal
  <1>. QED BY Invariance, <1>1, PTL

(* Recovery never refuses an rm whose files the user left alone            *)
(* (restore_observed_move is idempotent).                                  *)
THEOREM RecoveryNeverRefuses == Spec => []RecoverySettles
  <1>1. IInv => RecoverySettles
    BY DEF IInv, NotStuck, RecoverySettles
  <1>. QED BY Invariance, <1>1, PTL

-----------------------------------------------------------------------------
(* Once the Index is written it stays written and only the user changes    *)
(* files: the actions that move files (move_workspace_file,                *)
(* restore_observed_move) run only with the Index of before the rm, and no *)
(* crash or recover --abort leads back to them.                            *)
THEOREM CommitIsFinal == Spec => CommittedStaysRemoved
  <1>1. ASSUME IInv, [Next]_vars, index = "after"
        PROVE  index' = "after" /\ \A e \in Entry : file'[e] # file[e] => edits' # edits
    <2>. USE DEF IInv, PhaseInv, TypeHistory, Applying, Undoing, journal, control,
            history, bounds
    <2>1. CASE Command
      BY <1>1, <2>1 DEF Command, CheckEntry, MoveEntry, WriteIndex,
          MarkIndexCommitted, Finish,
                        RestoreEntry, RestoreRename
    <2>2. ASSUME NEW u \in Entry, NEW c \in Node, UserEdit(u, c)
          PROVE  index' = index /\ edits' # edits
      BY <2>2, <1>1, ConstantsAssumption DEF UserEdit, ConstantsAssumption
    <2>3. CASE (\E f \in BOOLEAN : RemoveTrackedPath(f) \/ RemoveCached(f)) \/ Crash
      BY <1>1, <2>3 DEF RemoveTrackedPath, RemoveCached, Crash
    <2>4. CASE \E abort \in BOOLEAN : Recover(abort)
      BY <1>1, <2>4 DEF Recover
    <2>5. CASE UNCHANGED vars
      BY <1>1, <2>5 DEF vars
    <2>. QED BY <1>1, <2>1, <2>2, <2>3, <2>4, <2>5 DEF Next
  <1>2. IInv /\ [Next]_vars =>
          [index = "after" =>
             /\ index' = "after"
             /\ \A e \in Entry : file'[e] # file[e] => edits' # edits]_vars
    BY <1>1
  <1>. QED BY Invariance, <1>2, PTL DEF Spec, Safety, CommittedStaysRemoved

(* An rm without --force destroys no content the Index does not record,    *)
(* unless the user wrote it between the check and the rename of the file   *)
(* (move_workspace_file, RemovalTransaction::finish).                      *)
THEOREM UnforcedIsSafe == Spec => UnforcedKeepsEdits
  <1>1. ASSUME IInv, [Next]_vars, NEW e \in Entry, edits' = edits, ~force, e \notin raced
        PROVE  Lost(e) = {}
    <2>. USE ConstantsAssumption
         DEF ConstantsAssumption, IInv, Entry, Node, Lost, TypeFiles, TypeControl,
             TypeHistory,
             journal, control, history, bounds
    <2>1. CASE MoveEntry
      <3>1. backup[cur] = Absent /\ cur \in Entry
        BY <2>1, <1>1 DEF MoveEntry, BackupInv
      <3>. QED BY <1>1, <2>1, <3>1 DEF MoveEntry
    <2>2. CASE RestoreRename
      BY <1>1, <2>2 DEF RestoreRename
    <2>3. CASE Finish
      BY <1>1, <2>3 DEF Finish, ContentInv
    <2>4. CASE CheckEntry \/ WriteIndex \/ MarkIndexCommitted \/ RestoreEntry
      BY <1>1, <2>4 DEF CheckEntry, WriteIndex, MarkIndexCommitted, RestoreEntry
    <2>5. ASSUME NEW f \in BOOLEAN, RemoveTrackedPath(f)
          PROVE  Lost(e) = {}
      BY <1>1, <2>5 DEF RemoveTrackedPath, BackupInv
    <2>6. CASE (\E f \in BOOLEAN : RemoveCached(f)) \/ (\E abort \in BOOLEAN : Recover(abort)) \/ Crash
      BY <1>1, <2>6 DEF RemoveCached, Recover, Crash
    <2>7. ASSUME NEW u \in Entry, NEW c \in Node, UserEdit(u, c)
          PROVE  FALSE
      BY <1>1, <2>7 DEF UserEdit
    <2>8. CASE UNCHANGED vars
      BY <1>1, <2>8 DEF vars
    <2>. QED BY <1>1, <2>1, <2>2, <2>3, <2>4, <2>5, <2>6, <2>7, <2>8 DEF Next, Command
  <1>2. IInv /\ [Next]_vars =>
          [\A e \in Entry : Lost(e) # {} => edits' # edits \/ force \/ e \in raced]_vars
    BY <1>1
  <1>. QED BY Invariance, <1>2, PTL DEF Spec, Safety, UnforcedKeepsEdits

-----------------------------------------------------------------------------
(* The edit counter is a number.                                           *)
LEMMA EditsNat == IInv => edits \in Nat
  BY ConstantsAssumption DEF ConstantsAssumption, IInv, TypeHistory

(* Until the user interferes, rm implements AtomicChange: the directory    *)
(* publication begins the change, finish commits or aborts it, and every   *)
(* other step stutters.                                                    *)
THEOREM Refinement == Spec => AllOrNothing
  <1>. DEFINE Step == Atomic!Next \/ RemoveCached(TRUE) \/ edits' > 0
  <1>1. Init => Atomic!Init
    BY DEF Init, Atomic!Init, World, Worlds
  <1>2. ASSUME IInv, [Next]_vars
        PROVE  [Step]_(Atomic!vars)
    <2>. USE DEF IInv, PhaseInv, Atomic!vars, journal, control, history, bounds
    <2>1. ASSUME NEW f \in BOOLEAN, RemoveTrackedPath(f)
          PROVE  Step
      <3>1. /\ ~txn /\ txn' /\ index = "before"
            /\ before' = file
        BY <2>1 DEF RemoveTrackedPath
      <3>2. World([e \in Entry |-> Absent], "after") \in Worlds
        BY DEF Node, World, Worlds
      <3>3. Atomic!Begin(World([e \in Entry |-> Absent], "after"))
        BY <3>1 DEF Atomic!Begin
      <3>. QED BY <3>2, <3>3, Zenon DEF Atomic!Next
    <2>2. ASSUME NEW f \in BOOLEAN, RemoveCached(f)
          PROVE  Step
      BY <2>2 DEF RemoveCached
    <2>3. CASE Finish
      <3>1. txn /\ ~txn' /\ file' = file /\ index' = index /\ edits' = edits
        BY <1>2, <2>3 DEF Finish
      <3>2. CASE edits > 0
        BY <3>1, <3>2
      <3>3. CASE edits = 0 /\ index = "after"
        <4>1. file = [e \in Entry |-> Absent]
          BY <1>2, <3>1, <3>3 DEF GoneInv, TypeFiles
        <4>2. Atomic!Commit
          BY <3>1, <3>3, <4>1 DEF Atomic!Commit
        <4>. QED BY <4>2 DEF Atomic!Next
      <3>4. CASE edits = 0 /\ index = "before"
        <4>1. \A e \in Entry : file[e] = before[e]
          BY <1>2, <2>3, <3>1, <3>4 DEF Finish, GoneInv, FileInv, BackupInv
        <4>2. file = before
          BY <1>2, <4>1 DEF TypeFiles
        <4>3. Atomic!Abort
          BY <3>1, <3>4, <4>2 DEF Atomic!Abort
        <4>. QED BY <4>3 DEF Atomic!Next
      <3>5. edits > 0 \/ edits = 0
        BY <1>2, EditsNat
      <3>6. index = "before" \/ index = "after"
        BY <1>2 DEF TypeJournal
      <3>. QED BY <3>2, <3>3, <3>4, <3>5, <3>6, Zenon
    <2>4. CASE CheckEntry \/ MoveEntry \/ WriteIndex \/ MarkIndexCommitted \/ RestoreEntry \/ RestoreRename
      <3>1. txn /\ txn' = txn /\ before' = before
        BY <1>2, <2>4 DEF CheckEntry, MoveEntry, WriteIndex, MarkIndexCommitted,
            RestoreEntry,
                          RestoreRename, Refuse
      <3>. QED BY <3>1
    <2>5. CASE (\E abort \in BOOLEAN : Recover(abort)) \/ Crash
      <3>1. txn /\ txn' = txn /\ before' = before
        BY <1>2, <2>5 DEF Recover, Refuse, Crash
      <3>. QED BY <3>1
    <2>6. ASSUME NEW u \in Entry, NEW c \in Node, UserEdit(u, c)
          PROVE  Step
      <3>1. edits \in Nat
        BY <1>2, EditsNat
      <3>2. edits' > 0
        BY <2>6, <3>1 DEF UserEdit
      <3>. QED BY <3>2
    <2>7. CASE UNCHANGED vars
      BY <2>7 DEF vars
    <2>. QED BY <1>2, <2>1, <2>2, <2>3, <2>4, <2>5, <2>6, <2>7 DEF Next, Command
  <1>3. IInv /\ [Next]_vars => [Step]_(Atomic!vars)
    BY <1>2
  <1>. QED BY Invariance, <1>1, <1>3, PTL DEF Spec, Safety, AllOrNothing
=============================================================================
