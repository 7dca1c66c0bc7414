-------------------------- MODULE Repository_proofs --------------------------
(***************************************************************************)
(* Two layers of invariants of the repository, for every number of         *)
(* workspaces, processes, branches, objects and crashes.                   *)
(*                                                                         *)
(* IInv: every stored Commit keeps its payload.  CommitsBacked alone is    *)
(* not inductive: it also needs that a mark set stays complete while gc    *)
(* sweeps (MarkInv) and that what commit verified stays stored until the   *)
(* Commit is written (VerifiedInv), and both rest on the write lock        *)
(* (LockInv, MutexInv).                                                    *)
(*                                                                         *)
(* SInv, on top of it: every Index keeps its payload and no recovery is    *)
(* refused.  The argument is that a published journal is never overlooked  *)
(* (HolderInv), so that it stays true until it is used (JournalInv).  gc   *)
(* and commit only look at the journal of their own workspace, which is    *)
(* why this layer holds where Confined does.                               *)
(***************************************************************************)
EXTENDS Repository, TLAPS

Stored == 1..Len(commits)

(* TypeOK in parts.                                                        *)
TypeStore ==
    /\ objects \subseteq Objects
    /\ index \in [Workspaces -> SUBSET Objects]
    /\ version \in [Workspaces -> 0..MaxVersion]

TypeCommits == commits \in Seq(Commit) /\ Len(commits) \in 1..MaxCommits

TypeHeads ==
    /\ refs \in [Branches -> CommitId]
    /\ head \in [Workspaces -> Heads]
    /\ refused \in BOOLEAN
    /\ crashes \in 0..MaxCrashes

TypeTxn == txn \in [Workspaces -> Transaction \cup {None}]

TypeProc == proc \in [Processes -> Process]

(* The locks a command holds and the points it can be at.                  *)
LockInv ==
    \A p \in Processes :
        /\ proc[p].cmd = "none" => proc[p].pc = "idle"
        /\ proc[p].cmd \in {"add", "add_all"} => proc[p].pc = "publish"
        /\ proc[p].cmd = "commit" => /\ proc[p].pc \in {"store", "advance"}
                                     /\ "write" \in proc[p].locks
        /\ proc[p].cmd = "gc" => "write" \in proc[p].locks /\ proc[p].pc = "sweep"
        /\ proc[p].cmd \in {"checkout", "recover", "abort"} =>
              /\ proc[p].pc \in {"index", "head", "finish", "rb_head", "rb_index"}
              /\ "write" \in proc[p].locks
              /\ txn[proc[p].ws] # None

(* write.lock has one holder.                                              *)
MutexInv ==
    \A p, q \in Processes : "write" \in proc[p].locks /\ "write" \in proc[q].locks => p = q

(* Branches, HEADs and journals name stored Commits.                       *)
IdInv ==
    /\ \A b \in Branches : refs[b] \in Stored
    /\ \A w \in Workspaces : head[w] \in Branches \cup Stored
    /\ \A w \in Workspaces : txn[w] # None =>
          /\ txn[w].commitBefore \in Stored /\ txn[w].target \in Stored
          /\ txn[w].headBefore \in Branches \cup Stored
          /\ txn[w].headAfter \in Branches \cup Stored

(* What gc has marked covers every Commit while it sweeps.                 *)
MarkInv ==
    \A p \in Processes : proc[p].cmd = "gc" => \A c \in Stored : commits[c].tree \subseteq proc[p].data

(* What commit has verified is still stored when it writes the Commit.     *)
VerifiedInv ==
    \A p \in Processes :
        proc[p].cmd = "commit" /\ proc[p].pc = "store" => proc[p].base \subseteq objects

BackedInv == \A c \in Stored : commits[c].tree \subseteq objects

IInv == /\ TypeStore /\ TypeCommits /\ TypeHeads /\ TypeTxn /\ TypeProc
        /\ LockInv /\ MutexInv /\ IdInv /\ MarkInv /\ VerifiedInv /\ BackedInv

-----------------------------------------------------------------------------
(* The parts are the type invariant.                                       *)
LEMMA TypeParts == TypeOK <=> TypeStore /\ TypeCommits /\ TypeHeads /\ TypeTxn /\ TypeProc
  BY DEF TypeOK, TypeStore, TypeCommits, TypeHeads, TypeTxn, TypeProc

(* HEADs resolve to stored Commits.                                        *)
LEMMA ResolveStored ==
    ASSUME IInv, NEW h \in Branches \cup Stored
    PROVE  Resolve(h) \in Stored
  BY DEF IInv, IdInv, Resolve

(* A stored Commit is a Commit, and its id is in range.                    *)
LEMMA StoredCommit ==
    ASSUME IInv, NEW c \in Stored
    PROVE  commits[c] \in Commit /\ c \in CommitId /\ commits[c].tree \subseteq Objects
  <1>1. commits[c] \in Commit
    BY DEF IInv, TypeCommits, Stored
  <1>2. c \in CommitId
    BY ConstantsAssumption DEF ConstantsAssumption, IInv, TypeCommits, Stored, CommitId
  <1>. QED BY <1>1, <1>2 DEF Commit

(* A process about to start a command is a process record.                 *)
LEMMA IdleProcess ==
    ASSUME NEW w \in Workspaces
    PROVE  Idle(w) \in Process
  BY ConstantsAssumption DEF ConstantsAssumption, Idle, Process, Commands, PCs, Locks

(* Starting a command keeps the process records.                           *)
LEMMA StartType ==
    ASSUME TypeProc, TypeStore, NEW p \in Processes, NEW w \in Workspaces,
           NEW cmd \in Commands, NEW pc \in PCs, NEW locks \in SUBSET Locks,
           Start(p, cmd, pc, w, locks)
    PROVE  TypeProc'
  <1>1. Idle(w) \in Process
    BY IdleProcess
  <1>2. version[w] \in 0..MaxVersion /\ index[w] \subseteq Objects
    BY DEF TypeStore
  <1>3. [Idle(w) EXCEPT !.cmd = cmd, !.pc = pc, !.locks = locks,
                        !.seen = version[w], !.base = index[w]] \in Process
    BY <1>1, <1>2 DEF Process
  <1>. QED BY <1>3 DEF Start, TypeProc

(* So does moving on to the next step of a command.                        *)
LEMMA GotoType ==
    ASSUME TypeProc, NEW p \in Processes, NEW pc \in PCs, Goto(p, pc)
    PROVE  TypeProc'
  BY DEF Goto, TypeProc, Process

(* So does ending a command.                                               *)
LEMMA EndType ==
    ASSUME TypeProc, NEW p \in Processes, End(p)
    PROVE  TypeProc'
  <1>1. proc[p].ws \in Workspaces
    BY DEF TypeProc, Process
  <1>2. Idle(proc[p].ws) \in Process
    BY <1>1, IdleProcess
  <1>. QED BY <1>2 DEF End, TypeProc

(* gc marks every Commit, and nothing but objects.                         *)
LEMMA MarksCommits ==
    ASSUME IInv, NEW w \in Workspaces
    PROVE  /\ \A c \in Stored : commits[c].tree \subseteq Referenced(w)
           /\ Referenced(w) \subseteq Objects
  <1>1. \A c \in Stored : Tree(c) \subseteq Objects
    BY StoredCommit DEF Tree
  <1>2. \A v \in Workspaces : index[v] \subseteq Objects
    BY DEF IInv, TypeStore
  <1>. DEFINE I == UNION {index[v] : v \in Workspaces}
              T == UNION {Tree(c) : c \in 1..Len(commits)}
  <1>3. I \subseteq Objects
    BY <1>2, Zenon
  <1>4. T \subseteq Objects
    BY <1>1, Zenon DEF Stored
  <1>5. \A c \in Stored : Tree(c) \subseteq T
    BY Zenon DEF Stored
  <1>6. Referenced(w) = I \cup T
    BY DEF Referenced
  <1>. HIDE DEF I, T
  <1>7. Referenced(w) \subseteq Objects
    BY <1>3, <1>4, <1>6
  <1>8. \A c \in Stored : Tree(c) \subseteq Referenced(w)
    BY <1>5, <1>6
  <1>. QED BY <1>7, <1>8 DEF Tree

(* The repository after its first Commit satisfies the invariant.          *)
LEMMA InitIInv == Init => IInv
  <1>. SUFFICES ASSUME Init PROVE IInv
    OBVIOUS
  <1>. USE ConstantsAssumption DEF ConstantsAssumption, Init
  <1>0. commits = <<[parent |-> None, tree |-> StartObjects]>> /\ Len(commits) = 1
    OBVIOUS
  <1>1. TypeStore
    BY DEF TypeStore
  <1>2. TypeCommits
    BY <1>0 DEF TypeCommits, Commit, CommitId
  <1>3. TypeHeads
    <2>1. refused \in BOOLEAN
      OBVIOUS
    <2>2. crashes \in 0..MaxCrashes /\ 1 \in CommitId
      BY DEF CommitId
    <2>. QED BY <2>1, <2>2 DEF TypeHeads, Heads
  <1>4. TypeTxn
    BY DEF TypeTxn
  <1>5. TypeProc
    <2>1. (CHOOSE w \in Workspaces : TRUE) \in Workspaces
      OBVIOUS
    <2>. QED BY <2>1, IdleProcess DEF TypeProc
  <1>6. \A p \in Processes : proc[p].cmd = "none" /\ proc[p].pc = "idle" /\ proc[p].locks = {}
    BY DEF Idle
  <1>7. LockInv /\ MutexInv /\ MarkInv /\ VerifiedInv
    BY <1>6 DEF LockInv, MutexInv, MarkInv, VerifiedInv
  <1>8. IdInv
    BY <1>0 DEF IdInv, Stored
  <1>9. BackedInv
    BY <1>0 DEF BackedInv, Stored
  <1>. QED BY <1>1, <1>2, <1>3, <1>4, <1>5, <1>7, <1>8, <1>9 DEF IInv

(* Every step keeps the invariant, action by action.                       *)
LEMMA NextIInv == IInv /\ [Next]_vars => IInv'
  <1>. SUFFICES ASSUME IInv, [Next]_vars PROVE IInv'
    OBVIOUS
  <1>. USE ConstantsAssumption DEF ConstantsAssumption, IInv, metadata
  <1>1. ASSUME NEW w \in Workspaces, NEW S \in SUBSET Objects, RestoreStaged(w, S)
        PROVE  IInv'
    <2>1. TypeStore'
      BY <1>1 DEF RestoreStaged, WriteIndex, Tree, TypeStore, TypeCommits
    <2>2. TypeCommits'
      BY <1>1 DEF RestoreStaged, WriteIndex, Tree, TypeCommits
    <2>3. TypeHeads'
      BY <1>1 DEF RestoreStaged, WriteIndex, Tree, TypeHeads, CommitId, Heads
    <2>4. TypeTxn'
      BY <1>1 DEF RestoreStaged, WriteIndex, Tree, TypeTxn, TypeStore, TypeHeads,
          Transaction
    <2>5. TypeProc'
      BY <1>1 DEF RestoreStaged, WriteIndex, Tree, TypeProc, TypeStore, Process,
          Commands, PCs, Locks
    <2>6. LockInv'
      BY <1>1 DEF RestoreStaged, WriteIndex, Tree, LockInv, TypeProc, Process, Idle
    <2>7. MutexInv'
      BY <1>1 DEF RestoreStaged, WriteIndex, Tree, MutexInv, TypeProc, Process, Idle,
          LockInv
    <2>8. IdInv'
      BY <1>1 DEF RestoreStaged, WriteIndex, Tree, IdInv, Stored, TypeCommits,
          TypeHeads, TypeTxn
    <2>9. MarkInv'
      BY <1>1 DEF RestoreStaged, WriteIndex, Tree, MarkInv, Stored, TypeProc, Process,
          Idle, LockInv, MutexInv
    <2>10. VerifiedInv'
      BY <1>1 DEF RestoreStaged, WriteIndex, Tree, VerifiedInv, TypeProc, Process,
          Idle, LockInv, MutexInv
    <2>11. BackedInv'
      BY <1>1 DEF RestoreStaged, WriteIndex, Tree, BackedInv, Stored, TypeCommits
    <2>. QED BY <2>1, <2>2, <2>3, <2>4, <2>5, <2>6, <2>7, <2>8, <2>9, <2>10, <2>11
  <1>2. ASSUME NEW p \in Processes, NEW w \in Workspaces, NEW cmd \in {"add", "add_all"}, AddBegin(p, w, cmd)
        PROVE  IInv'
    <2>1. TypeStore'
      BY <1>2 DEF AddBegin, Start, Free, TypeStore, TypeCommits
    <2>2. TypeCommits'
      BY <1>2 DEF AddBegin, Start, Free, TypeCommits
    <2>3. TypeHeads'
      BY <1>2 DEF AddBegin, Start, Free, TypeHeads, CommitId, Heads
    <2>4. TypeTxn'
      BY <1>2 DEF AddBegin, Start, Free, TypeTxn, TypeStore, TypeHeads, Transaction
    <2>5. TypeProc'
      BY <1>2, StartType DEF AddBegin, Commands, PCs, Locks
    <2>6. LockInv'
      BY <1>2 DEF AddBegin, Start, Free, LockInv, TypeProc, Process, Idle
    <2>7. MutexInv'
      BY <1>2 DEF AddBegin, Start, Free, MutexInv, TypeProc, Process, Idle, LockInv
    <2>8. IdInv'
      BY <1>2 DEF AddBegin, Start, Free, IdInv, Stored, TypeCommits, TypeHeads, TypeTxn
    <2>9. MarkInv'
      BY <1>2 DEF AddBegin, Start, Free, MarkInv, Stored, TypeProc, Process, Idle,
          LockInv, MutexInv
    <2>10. VerifiedInv'
      BY <1>2 DEF AddBegin, Start, Free, VerifiedInv, TypeProc, Process, Idle,
          LockInv, MutexInv
    <2>11. BackedInv'
      BY <1>2 DEF AddBegin, Start, Free, BackedInv, Stored, TypeCommits
    <2>. QED BY <2>1, <2>2, <2>3, <2>4, <2>5, <2>6, <2>7, <2>8, <2>9, <2>10, <2>11
  <1>3. ASSUME NEW p \in Processes, NEW o \in Objects, AddObject(p, o)
        PROVE  IInv'
    <2>1. TypeStore'
      BY <1>3 DEF AddObject, At, TypeStore, TypeCommits
    <2>2. TypeCommits'
      BY <1>3 DEF AddObject, At, TypeCommits
    <2>3. TypeHeads'
      BY <1>3 DEF AddObject, At, TypeHeads, CommitId, Heads
    <2>4. TypeTxn'
      BY <1>3 DEF AddObject, At, TypeTxn, TypeStore, TypeHeads, Transaction
    <2>5. TypeProc'
      BY <1>3 DEF AddObject, At, TypeProc, TypeStore, Process, Commands, PCs, Locks
    <2>6. LockInv'
      BY <1>3 DEF AddObject, At, LockInv, TypeProc, Process, Idle
    <2>7. MutexInv'
      BY <1>3 DEF AddObject, At, MutexInv, TypeProc, Process, Idle, LockInv
    <2>8. IdInv'
      BY <1>3 DEF AddObject, At, IdInv, Stored, TypeCommits, TypeHeads, TypeTxn
    <2>9. MarkInv'
      BY <1>3 DEF AddObject, At, MarkInv, Stored, TypeProc, Process, Idle, LockInv,
          MutexInv
    <2>10. VerifiedInv'
      BY <1>3 DEF AddObject, At, VerifiedInv, TypeProc, Process, Idle, LockInv, MutexInv
    <2>11. BackedInv'
      BY <1>3 DEF AddObject, At, BackedInv, Stored, TypeCommits
    <2>. QED BY <2>1, <2>2, <2>3, <2>4, <2>5, <2>6, <2>7, <2>8, <2>9, <2>10, <2>11
  <1>4. ASSUME NEW p \in Processes, AddIndex(p)
        PROVE  IInv'
    <2>1. TypeStore'
      <3>1. proc[p].base \subseteq Objects /\ proc[p].data \subseteq Objects /\ proc[p].ws \in Workspaces
        BY DEF TypeProc, Process
      <3>. QED BY <1>4, <3>1 DEF AddIndex, WriteIndex, TypeStore
    <2>2. TypeCommits'
      BY <1>4 DEF AddIndex, At, End, WriteIndex, TypeCommits
    <2>3. TypeHeads'
      BY <1>4 DEF AddIndex, At, End, WriteIndex, TypeHeads, CommitId, Heads
    <2>4. TypeTxn'
      BY <1>4 DEF AddIndex, At, End, WriteIndex, TypeTxn, TypeStore, TypeHeads,
          Transaction
    <2>5. TypeProc'
      BY <1>4, EndType DEF AddIndex
    <2>6. LockInv'
      BY <1>4 DEF AddIndex, At, End, WriteIndex, LockInv, TypeProc, Process, Idle
    <2>7. MutexInv'
      BY <1>4 DEF AddIndex, At, End, WriteIndex, MutexInv, TypeProc, Process, Idle,
          LockInv
    <2>8. IdInv'
      BY <1>4 DEF AddIndex, At, End, WriteIndex, IdInv, Stored, TypeCommits,
          TypeHeads, TypeTxn
    <2>9. MarkInv'
      BY <1>4 DEF AddIndex, At, End, WriteIndex, MarkInv, Stored, TypeProc, Process,
          Idle, LockInv, MutexInv
    <2>10. VerifiedInv'
      BY <1>4 DEF AddIndex, At, End, WriteIndex, VerifiedInv, TypeProc, Process, Idle,
          LockInv, MutexInv
    <2>11. BackedInv'
      BY <1>4 DEF AddIndex, At, End, WriteIndex, BackedInv, Stored, TypeCommits
    <2>. QED BY <2>1, <2>2, <2>3, <2>4, <2>5, <2>6, <2>7, <2>8, <2>9, <2>10, <2>11
  <1>5. ASSUME NEW p \in Processes, AddUnpublished(p)
        PROVE  IInv'
    <2>1. TypeStore'
      BY <1>5 DEF AddUnpublished, At, End, TypeStore, TypeCommits
    <2>2. TypeCommits'
      BY <1>5 DEF AddUnpublished, At, End, TypeCommits
    <2>3. TypeHeads'
      BY <1>5 DEF AddUnpublished, At, End, TypeHeads, CommitId, Heads
    <2>4. TypeTxn'
      BY <1>5 DEF AddUnpublished, At, End, TypeTxn, TypeStore, TypeHeads, Transaction
    <2>5. TypeProc'
      BY <1>5, EndType DEF AddUnpublished
    <2>6. LockInv'
      BY <1>5 DEF AddUnpublished, At, End, LockInv, TypeProc, Process, Idle
    <2>7. MutexInv'
      BY <1>5 DEF AddUnpublished, At, End, MutexInv, TypeProc, Process, Idle, LockInv
    <2>8. IdInv'
      BY <1>5 DEF AddUnpublished, At, End, IdInv, Stored, TypeCommits, TypeHeads, TypeTxn
    <2>9. MarkInv'
      BY <1>5 DEF AddUnpublished, At, End, MarkInv, Stored, TypeProc, Process, Idle, LockInv,
          MutexInv
    <2>10. VerifiedInv'
      BY <1>5 DEF AddUnpublished, At, End, VerifiedInv, TypeProc, Process, Idle, LockInv,
          MutexInv
    <2>11. BackedInv'
      BY <1>5 DEF AddUnpublished, At, End, BackedInv, Stored, TypeCommits
    <2>. QED BY <2>1, <2>2, <2>3, <2>4, <2>5, <2>6, <2>7, <2>8, <2>9, <2>10, <2>11
  <1>6. ASSUME NEW p \in Processes, NEW w \in Workspaces, CommitBegin(p, w)
        PROVE  IInv'
    <2>1. TypeStore'
      BY <1>6 DEF CommitBegin, Start, Free, PayloadVerified, TypeStore, TypeCommits
    <2>2. TypeCommits'
      BY <1>6 DEF CommitBegin, Start, Free, PayloadVerified, TypeCommits
    <2>3. TypeHeads'
      BY <1>6 DEF CommitBegin, Start, Free, PayloadVerified, TypeHeads, CommitId, Heads
    <2>4. TypeTxn'
      BY <1>6 DEF CommitBegin, Start, Free, PayloadVerified, TypeTxn, TypeStore,
          TypeHeads, Transaction
    <2>5. TypeProc'
      BY <1>6, StartType DEF CommitBegin, Commands, PCs, Locks
    <2>6. LockInv'
      BY <1>6 DEF CommitBegin, Start, Free, PayloadVerified, LockInv, TypeProc,
          Process, Idle
    <2>7. MutexInv'
      BY <1>6 DEF CommitBegin, Start, Free, PayloadVerified, MutexInv, TypeProc,
          Process, Idle, LockInv
    <2>8. IdInv'
      BY <1>6 DEF CommitBegin, Start, Free, PayloadVerified, IdInv, Stored,
          TypeCommits, TypeHeads, TypeTxn
    <2>9. MarkInv'
      BY <1>6 DEF CommitBegin, Start, Free, PayloadVerified, MarkInv, Stored,
          TypeProc, Process, Idle, LockInv, MutexInv
    <2>10. VerifiedInv'
      BY <1>6 DEF CommitBegin, Start, Free, PayloadVerified, VerifiedInv, TypeProc,
          Process, Idle, LockInv, MutexInv
    <2>11. BackedInv'
      BY <1>6 DEF CommitBegin, Start, Free, PayloadVerified, BackedInv, Stored,
          TypeCommits
    <2>. QED BY <2>1, <2>2, <2>3, <2>4, <2>5, <2>6, <2>7, <2>8, <2>9, <2>10, <2>11
  <1>7. ASSUME NEW p \in Processes, CommitStore(p)
        PROVE  IInv'
    <2>1. TypeStore'
      BY <1>7 DEF CommitStore, At, Goto, TypeStore, TypeCommits
    <2>2. TypeCommits'
      <3>1. proc[p].ws \in Workspaces /\ proc[p].base \subseteq Objects
        BY DEF TypeProc, Process
      <3>2. Resolve(head[proc[p].ws]) \in CommitId
        BY <3>1, ResolveStored, StoredCommit DEF IdInv
      <3>3. [parent |-> Resolve(head[proc[p].ws]), tree |-> proc[p].base] \in Commit
        BY <3>1, <3>2 DEF Commit
      <3>. QED BY <1>7, <3>3 DEF CommitStore, TypeCommits
    <2>3. TypeHeads'
      BY <1>7 DEF CommitStore, At, Goto, TypeHeads, CommitId, Heads
    <2>4. TypeTxn'
      BY <1>7 DEF CommitStore, At, Goto, TypeTxn, TypeStore, TypeHeads, Transaction
    <2>5. TypeProc'
      BY <1>7, GotoType DEF CommitStore, PCs
    <2>6. LockInv'
      BY <1>7 DEF CommitStore, At, Goto, LockInv, TypeProc, Process, Idle
    <2>7. MutexInv'
      BY <1>7 DEF CommitStore, At, Goto, MutexInv, TypeProc, Process, Idle, LockInv
    <2>8. IdInv'
      BY <1>7 DEF CommitStore, At, Goto, IdInv, Stored, TypeCommits, TypeHeads, TypeTxn
    <2>9. MarkInv'
      BY <1>7 DEF CommitStore, At, Goto, MarkInv, Stored, TypeProc, Process, Idle,
          LockInv, MutexInv
    <2>10. VerifiedInv'
      BY <1>7 DEF CommitStore, At, Goto, VerifiedInv, TypeProc, Process, Idle,
          LockInv, MutexInv
    <2>11. BackedInv'
      <3>1. proc[p].base \subseteq objects
        BY <1>7 DEF CommitStore, At, VerifiedInv
      <3>2. objects' = objects /\ Len(commits') = Len(commits) + 1
            /\ commits'[Len(commits) + 1].tree = proc[p].base
            /\ \A c \in 1..Len(commits) : commits'[c] = commits[c]
        BY <1>7 DEF CommitStore, TypeCommits
      <3>3. Len(commits) \in Nat
        BY DEF TypeCommits
      <3>. QED BY <3>1, <3>2, <3>3 DEF BackedInv, Stored
    <2>. QED BY <2>1, <2>2, <2>3, <2>4, <2>5, <2>6, <2>7, <2>8, <2>9, <2>10, <2>11
  <1>8. ASSUME NEW p \in Processes, AdvanceHead(p)
        PROVE  IInv'
    <2>1. TypeStore'
      BY <1>8 DEF AdvanceHead, At, End, TypeStore, TypeCommits
    <2>2. TypeCommits'
      BY <1>8 DEF AdvanceHead, At, End, TypeCommits
    <2>3. TypeHeads'
      <3>1. Len(commits) \in CommitId
        BY DEF TypeCommits, CommitId
      <3>2. /\ refs' \in [Branches -> CommitId] /\ head' \in [Workspaces -> Heads]
            /\ refused' = refused /\ crashes' = crashes
        BY <1>8, <3>1 DEF AdvanceHead, TypeHeads, Heads
      <3>. QED BY <3>2 DEF TypeHeads
    <2>4. TypeTxn'
      BY <1>8 DEF AdvanceHead, At, End, TypeTxn, TypeStore, TypeHeads, Transaction
    <2>5. TypeProc'
      BY <1>8, EndType DEF AdvanceHead
    <2>6. LockInv'
      BY <1>8 DEF AdvanceHead, At, End, LockInv, TypeProc, Process, Idle
    <2>7. MutexInv'
      BY <1>8 DEF AdvanceHead, At, End, MutexInv, TypeProc, Process, Idle, LockInv
    <2>8. IdInv'
      BY <1>8 DEF AdvanceHead, At, End, IdInv, Stored, TypeCommits, TypeHeads, TypeTxn
    <2>9. MarkInv'
      BY <1>8 DEF AdvanceHead, At, End, MarkInv, Stored, TypeProc, Process, Idle,
          LockInv, MutexInv
    <2>10. VerifiedInv'
      BY <1>8 DEF AdvanceHead, At, End, VerifiedInv, TypeProc, Process, Idle, LockInv,
          MutexInv
    <2>11. BackedInv'
      BY <1>8 DEF AdvanceHead, At, End, BackedInv, Stored, TypeCommits
    <2>. QED BY <2>1, <2>2, <2>3, <2>4, <2>5, <2>6, <2>7, <2>8, <2>9, <2>10, <2>11
  <1>9. ASSUME NEW p \in Processes, NEW w \in Workspaces, GcBegin(p, w)
        PROVE  IInv'
    <2>1. TypeStore'
      BY <1>9 DEF GcBegin, Free, Referenced, Tree, TypeStore, TypeCommits
    <2>2. TypeCommits'
      BY <1>9 DEF GcBegin, Free, Referenced, Tree, TypeCommits
    <2>3. TypeHeads'
      BY <1>9 DEF GcBegin, Free, Referenced, Tree, TypeHeads, CommitId, Heads
    <2>4. TypeTxn'
      BY <1>9 DEF GcBegin, Free, Referenced, Tree, TypeTxn, TypeStore, TypeHeads,
          Transaction
    <2>5. TypeProc'
      <3>1. Referenced(w) \subseteq Objects
        BY MarksCommits
      <3>2. Idle(w) \in Process
        BY IdleProcess
      <3>. QED BY <1>9, <3>1, <3>2 DEF GcBegin, TypeProc, Process, Commands, PCs, Locks
    <2>6. LockInv'
      BY <1>9 DEF GcBegin, Free, Referenced, Tree, LockInv, TypeProc, Process, Idle
    <2>7. MutexInv'
      BY <1>9 DEF GcBegin, Free, Referenced, Tree, MutexInv, TypeProc, Process, Idle,
          LockInv
    <2>8. IdInv'
      BY <1>9 DEF GcBegin, Free, Referenced, Tree, IdInv, Stored, TypeCommits,
          TypeHeads, TypeTxn
    <2>9. MarkInv'
      <3>1. \A c \in Stored : commits[c].tree \subseteq Referenced(w)
        BY MarksCommits
      <3>2. /\ proc'[p].data = Referenced(w) /\ commits' = commits
            /\ \A q \in Processes \ {p} : proc'[q] = proc[q]
        BY <1>9 DEF GcBegin, TypeProc, Process, Idle
      <3>. QED BY <3>1, <3>2 DEF MarkInv, Stored
    <2>10. VerifiedInv'
      BY <1>9 DEF GcBegin, Free, Referenced, Tree, VerifiedInv, TypeProc, Process,
          Idle, LockInv, MutexInv
    <2>11. BackedInv'
      BY <1>9 DEF GcBegin, Free, Referenced, Tree, BackedInv, Stored, TypeCommits
    <2>. QED BY <2>1, <2>2, <2>3, <2>4, <2>5, <2>6, <2>7, <2>8, <2>9, <2>10, <2>11
  <1>10. ASSUME NEW p \in Processes, NEW o \in Objects, GcSweep(p, o)
        PROVE  IInv'
    <2>1. TypeStore'
      BY <1>10 DEF GcSweep, At, TypeStore, TypeCommits
    <2>2. TypeCommits'
      BY <1>10 DEF GcSweep, At, TypeCommits
    <2>3. TypeHeads'
      BY <1>10 DEF GcSweep, At, TypeHeads, CommitId, Heads
    <2>4. TypeTxn'
      BY <1>10 DEF GcSweep, At, TypeTxn, TypeStore, TypeHeads, Transaction
    <2>5. TypeProc'
      BY <1>10 DEF GcSweep, At, TypeProc, TypeStore, Process, Commands, PCs, Locks
    <2>6. LockInv'
      BY <1>10 DEF GcSweep, At, LockInv, TypeProc, Process, Idle
    <2>7. MutexInv'
      BY <1>10 DEF GcSweep, At, MutexInv, TypeProc, Process, Idle, LockInv
    <2>8. IdInv'
      BY <1>10 DEF GcSweep, At, IdInv, Stored, TypeCommits, TypeHeads, TypeTxn
    <2>9. MarkInv'
      BY <1>10 DEF GcSweep, At, MarkInv, Stored, TypeProc, Process, Idle, LockInv,
          MutexInv
    <2>10. VerifiedInv'
      BY <1>10 DEF GcSweep, At, VerifiedInv, TypeProc, Process, Idle, LockInv, MutexInv
    <2>11. BackedInv'
      <3>1. \A c \in Stored : commits[c].tree \subseteq proc[p].data
        BY <1>10 DEF GcSweep, At, MarkInv
      <3>. QED BY <1>10, <3>1 DEF GcSweep, BackedInv, Stored
    <2>. QED BY <2>1, <2>2, <2>3, <2>4, <2>5, <2>6, <2>7, <2>8, <2>9, <2>10, <2>11
  <1>11. ASSUME NEW p \in Processes, GcEnd(p)
        PROVE  IInv'
    <2>1. TypeStore'
      BY <1>11 DEF GcEnd, At, End, TypeStore, TypeCommits
    <2>2. TypeCommits'
      BY <1>11 DEF GcEnd, At, End, TypeCommits
    <2>3. TypeHeads'
      BY <1>11 DEF GcEnd, At, End, TypeHeads, CommitId, Heads
    <2>4. TypeTxn'
      BY <1>11 DEF GcEnd, At, End, TypeTxn, TypeStore, TypeHeads, Transaction
    <2>5. TypeProc'
      BY <1>11, EndType DEF GcEnd
    <2>6. LockInv'
      BY <1>11 DEF GcEnd, At, End, LockInv, TypeProc, Process, Idle
    <2>7. MutexInv'
      BY <1>11 DEF GcEnd, At, End, MutexInv, TypeProc, Process, Idle, LockInv
    <2>8. IdInv'
      BY <1>11 DEF GcEnd, At, End, IdInv, Stored, TypeCommits, TypeHeads, TypeTxn
    <2>9. MarkInv'
      BY <1>11 DEF GcEnd, At, End, MarkInv, Stored, TypeProc, Process, Idle, LockInv,
          MutexInv
    <2>10. VerifiedInv'
      BY <1>11 DEF GcEnd, At, End, VerifiedInv, TypeProc, Process, Idle, LockInv,
          MutexInv
    <2>11. BackedInv'
      BY <1>11 DEF GcEnd, At, End, BackedInv, Stored, TypeCommits
    <2>. QED BY <2>1, <2>2, <2>3, <2>4, <2>5, <2>6, <2>7, <2>8, <2>9, <2>10, <2>11
  <1>12. ASSUME NEW p \in Processes, NEW w \in Workspaces, NEW h \in Heads, NEW force \in BOOLEAN, CheckoutBegin(p, w, h, force)
        PROVE  IInv'
    <2>a. /\ head[w] \in Branches \cup Stored /\ h \in Branches \cup Stored
          /\ Resolve(head[w]) \in Stored /\ Resolve(h) \in Stored
      <3>1. head[w] \in Branches \cup Stored /\ h \in Branches \cup Stored
        BY <1>12 DEF CheckoutBegin, IdInv, Stored
      <3>. QED BY <3>1, ResolveStored
    <2>b. txn' = [txn EXCEPT ![w] = NewTransaction(w, h)] /\ NewTransaction(w, h) \in Transaction
      <3>1. Resolve(head[w]) \in CommitId /\ Resolve(h) \in CommitId
        BY <2>a, StoredCommit
      <3>2. head[w] \in Heads /\ index[w] \subseteq Objects
        BY DEF TypeHeads, TypeStore
      <3>. QED BY <1>12, <3>1, <3>2 DEF CheckoutBegin, NewTransaction, Transaction
    <2>1. TypeStore'
      BY <1>12 DEF CheckoutBegin, Start, Free, NewTransaction, TypeStore, TypeCommits
    <2>2. TypeCommits'
      BY <1>12 DEF CheckoutBegin, Start, Free, NewTransaction, TypeCommits
    <2>3. TypeHeads'
      BY <1>12 DEF CheckoutBegin, Start, Free, NewTransaction, TypeHeads, CommitId,
          Heads
    <2>4. TypeTxn'
      BY <2>b DEF TypeTxn
    <2>5. TypeProc'
      BY <1>12, StartType DEF CheckoutBegin, Commands, PCs, Locks
    <2>6. LockInv'
      <3>1. NewTransaction(w, h) # None
        BY NoneAssumption, <2>b DEF NoneAssumption
      <3>2. \A v \in Workspaces : txn[v] # None => txn'[v] # None
        BY <2>b, <3>1 DEF TypeTxn
      <3>3. txn'[w] # None
        BY <2>b, <3>1 DEF TypeTxn
      <3>4. /\ proc'[p].cmd = "checkout" /\ proc'[p].pc = "index" /\ proc'[p].ws = w
            /\ "write" \in proc'[p].locks
            /\ \A q \in Processes \ {p} : proc'[q] = proc[q]
        BY <1>12 DEF CheckoutBegin, Start, TypeProc, Process, Idle
      <3>5. \A q \in Processes : proc[q].ws \in Workspaces
        BY DEF TypeProc, Process
      <3>. QED BY <3>2, <3>3, <3>4, <3>5 DEF LockInv
    <2>7. MutexInv'
      BY <1>12 DEF CheckoutBegin, Start, Free, NewTransaction, MutexInv, TypeProc,
          Process, Idle, LockInv
    <2>8. IdInv'
      <3>1. refs' = refs /\ head' = head /\ commits' = commits
        BY <1>12 DEF CheckoutBegin
      <3>2. \A v \in Workspaces : txn'[v] = IF v = w THEN NewTransaction(w, h) ELSE txn[v]
        BY <2>b DEF TypeTxn
      <3>. QED BY <2>a, <3>1, <3>2 DEF IdInv, Stored, NewTransaction
    <2>9. MarkInv'
      BY <1>12 DEF CheckoutBegin, Start, Free, NewTransaction, MarkInv, Stored,
          TypeProc, Process, Idle, LockInv, MutexInv
    <2>10. VerifiedInv'
      BY <1>12 DEF CheckoutBegin, Start, Free, NewTransaction, VerifiedInv, TypeProc,
          Process, Idle, LockInv, MutexInv
    <2>11. BackedInv'
      BY <1>12 DEF CheckoutBegin, Start, Free, NewTransaction, BackedInv, Stored,
          TypeCommits
    <2>. QED BY <2>1, <2>2, <2>3, <2>4, <2>5, <2>6, <2>7, <2>8, <2>9, <2>10, <2>11
  <1>13. ASSUME NEW p \in Processes, CheckoutIndex(p)
        PROVE  IInv'
    <2>1. TypeStore'
      <3>1. txn[proc[p].ws].target \in Stored /\ proc[p].ws \in Workspaces
        BY <1>13 DEF CheckoutIndex, At, LockInv, IdInv, TypeProc, Process
      <3>2. Tree(txn[proc[p].ws].target) \subseteq Objects
        BY <3>1, StoredCommit DEF Tree
      <3>. QED BY <1>13, <3>1, <3>2 DEF CheckoutIndex, WriteIndex, TypeStore
    <2>2. TypeCommits'
      BY <1>13 DEF CheckoutIndex, At, Goto, WriteIndex, Tree, TypeCommits
    <2>3. TypeHeads'
      BY <1>13 DEF CheckoutIndex, At, Goto, WriteIndex, Tree, TypeHeads, CommitId, Heads
    <2>4. TypeTxn'
      BY <1>13 DEF CheckoutIndex, At, Goto, WriteIndex, Tree, TypeTxn, TypeStore,
          TypeHeads, Transaction
    <2>5. TypeProc'
      BY <1>13 DEF CheckoutIndex, At, Goto, TypeProc, Process, Commands, PCs
    <2>6. LockInv'
      BY <1>13 DEF CheckoutIndex, At, Goto, WriteIndex, Tree, LockInv, TypeProc,
          Process, Idle
    <2>7. MutexInv'
      BY <1>13 DEF CheckoutIndex, At, Goto, WriteIndex, Tree, MutexInv, TypeProc,
          Process, Idle, LockInv
    <2>8. IdInv'
      BY <1>13 DEF CheckoutIndex, At, Goto, WriteIndex, Tree, IdInv, Stored,
          TypeCommits, TypeHeads, TypeTxn
    <2>9. MarkInv'
      BY <1>13 DEF CheckoutIndex, At, Goto, WriteIndex, Tree, MarkInv, Stored,
          TypeProc, Process, Idle, LockInv, MutexInv
    <2>10. VerifiedInv'
      BY <1>13 DEF CheckoutIndex, At, Goto, WriteIndex, Tree, VerifiedInv, TypeProc,
          Process, Idle, LockInv, MutexInv
    <2>11. BackedInv'
      BY <1>13 DEF CheckoutIndex, At, Goto, WriteIndex, Tree, BackedInv, Stored,
          TypeCommits
    <2>. QED BY <2>1, <2>2, <2>3, <2>4, <2>5, <2>6, <2>7, <2>8, <2>9, <2>10, <2>11
  <1>14. ASSUME NEW p \in Processes, CheckoutHead(p)
        PROVE  IInv'
    <2>a. proc[p].ws \in Workspaces /\ txn[proc[p].ws].headAfter \in Branches \cup Stored
      BY <1>14 DEF CheckoutHead, At, LockInv, IdInv, TypeProc, Process
    <2>b. /\ head' = head \/ head' = [head EXCEPT ![proc[p].ws] = txn[proc[p].ws].headAfter]
          /\ refs' = refs /\ commits' = commits /\ txn' = txn /\ crashes' = crashes
      BY <1>14 DEF CheckoutHead
    <2>1. TypeStore'
      BY <1>14 DEF CheckoutHead, At, Goto, End, TypeStore, TypeCommits
    <2>2. TypeCommits'
      BY <1>14 DEF CheckoutHead, At, Goto, End, TypeCommits
    <2>3. TypeHeads'
      <3>1. txn[proc[p].ws].headAfter \in Heads
        BY <2>a, StoredCommit DEF Heads
      <3>2. head' \in [Workspaces -> Heads]
        BY <2>a, <2>b, <3>1 DEF TypeHeads
      <3>3. refused' \in BOOLEAN
        BY <1>14 DEF CheckoutHead, TypeHeads
      <3>. QED BY <2>b, <3>2, <3>3 DEF TypeHeads
    <2>4. TypeTxn'
      BY <1>14 DEF CheckoutHead, At, Goto, End, TypeTxn, TypeStore, TypeHeads,
          Transaction
    <2>5. TypeProc'
      BY <1>14, GotoType, EndType DEF CheckoutHead, PCs
    <2>6. LockInv'
      <3>1. /\ \/ proc'[p].cmd = "none" /\ proc'[p].pc = "idle"
               \/ /\ proc'[p].cmd = proc[p].cmd /\ proc'[p].ws = proc[p].ws
                  /\ proc'[p].locks = proc[p].locks /\ proc'[p].pc = "finish"
            /\ \A q \in Processes \ {p} : proc'[q] = proc[q]
        BY <1>14 DEF CheckoutHead, Goto, End, Idle, TypeProc, Process
      <3>. QED BY <1>14, <2>b, <3>1 DEF CheckoutHead, At, LockInv
    <2>7. MutexInv'
      BY <1>14 DEF CheckoutHead, At, Goto, End, MutexInv, TypeProc, Process, Idle,
          LockInv
    <2>8. IdInv'
      <3>1. \A w \in Workspaces : head'[w] \in Branches \cup Stored
        BY <2>a, <2>b DEF IdInv, TypeHeads
      <3>. QED BY <2>b, <3>1 DEF IdInv, Stored
    <2>9. MarkInv'
      BY <1>14 DEF CheckoutHead, At, Goto, End, MarkInv, Stored, TypeProc, Process,
          Idle, LockInv, MutexInv
    <2>10. VerifiedInv'
      BY <1>14 DEF CheckoutHead, At, Goto, End, VerifiedInv, TypeProc, Process, Idle,
          LockInv, MutexInv
    <2>11. BackedInv'
      BY <1>14 DEF CheckoutHead, At, Goto, End, BackedInv, Stored, TypeCommits
    <2>. QED BY <2>1, <2>2, <2>3, <2>4, <2>5, <2>6, <2>7, <2>8, <2>9, <2>10, <2>11
  <1>15. ASSUME NEW p \in Processes, CheckoutFinish(p)
        PROVE  IInv'
    <2>1. TypeStore'
      BY <1>15 DEF CheckoutFinish, At, End, TypeStore, TypeCommits
    <2>2. TypeCommits'
      BY <1>15 DEF CheckoutFinish, At, End, TypeCommits
    <2>3. TypeHeads'
      BY <1>15 DEF CheckoutFinish, At, End, TypeHeads, CommitId, Heads
    <2>4. TypeTxn'
      BY <1>15 DEF CheckoutFinish, At, End, TypeTxn, TypeStore, TypeHeads, Transaction
    <2>5. TypeProc'
      BY <1>15, EndType DEF CheckoutFinish
    <2>6. LockInv'
      <3>1. "write" \in proc[p].locks /\ txn[proc[p].ws] # None /\ proc[p].ws \in Workspaces
        BY <1>15 DEF CheckoutFinish, At, LockInv, TypeProc, Process
      <3>2. \A q \in Processes \ {p} : proc'[q] = proc[q] /\ "write" \notin proc[q].locks
        BY <1>15, <3>1 DEF CheckoutFinish, Goto, End, MutexInv, TypeProc
      <3>3. \/ proc'[p].cmd = "none" /\ proc'[p].pc = "idle"
            \/ /\ proc'[p].cmd = "recover" /\ proc'[p].ws = proc[p].ws
               /\ proc'[p].locks = proc[p].locks /\ proc'[p].pc = "index" /\ txn' = txn
        BY <1>15 DEF CheckoutFinish, Goto, End, Idle, TypeProc, Process
      <3>. QED BY <3>1, <3>2, <3>3 DEF LockInv
    <2>7. MutexInv'
      BY <1>15 DEF CheckoutFinish, At, End, MutexInv, TypeProc, Process, Idle, LockInv
    <2>8. IdInv'
      BY <1>15 DEF CheckoutFinish, At, End, IdInv, Stored, TypeCommits, TypeHeads,
          TypeTxn
    <2>9. MarkInv'
      BY <1>15 DEF CheckoutFinish, At, End, MarkInv, Stored, TypeProc, Process, Idle,
          LockInv, MutexInv
    <2>10. VerifiedInv'
      BY <1>15 DEF CheckoutFinish, At, End, VerifiedInv, TypeProc, Process, Idle,
          LockInv, MutexInv
    <2>11. BackedInv'
      BY <1>15 DEF CheckoutFinish, At, End, BackedInv, Stored, TypeCommits
    <2>. QED BY <2>1, <2>2, <2>3, <2>4, <2>5, <2>6, <2>7, <2>8, <2>9, <2>10, <2>11
  <1>16. ASSUME NEW p \in Processes, CheckoutFail(p)
        PROVE  IInv'
    <2>1. TypeStore'
      BY <1>16 DEF CheckoutFail, At, TypeStore, TypeCommits
    <2>2. TypeCommits'
      BY <1>16 DEF CheckoutFail, At, TypeCommits
    <2>3. TypeHeads'
      BY <1>16 DEF CheckoutFail, At, TypeHeads, CommitId, Heads
    <2>4. TypeTxn'
      BY <1>16 DEF CheckoutFail, At, TypeTxn, TypeStore, TypeHeads, Transaction
    <2>5. TypeProc'
      BY <1>16 DEF CheckoutFail, At, TypeProc, TypeStore, Process, Commands, PCs, Locks
    <2>6. LockInv'
      BY <1>16 DEF CheckoutFail, At, LockInv, TypeProc, Process, Idle
    <2>7. MutexInv'
      BY <1>16 DEF CheckoutFail, At, MutexInv, TypeProc, Process, Idle, LockInv
    <2>8. IdInv'
      BY <1>16 DEF CheckoutFail, At, IdInv, Stored, TypeCommits, TypeHeads, TypeTxn
    <2>9. MarkInv'
      BY <1>16 DEF CheckoutFail, At, MarkInv, Stored, TypeProc, Process, Idle,
          LockInv, MutexInv
    <2>10. VerifiedInv'
      BY <1>16 DEF CheckoutFail, At, VerifiedInv, TypeProc, Process, Idle, LockInv,
          MutexInv
    <2>11. BackedInv'
      BY <1>16 DEF CheckoutFail, At, BackedInv, Stored, TypeCommits
    <2>. QED BY <2>1, <2>2, <2>3, <2>4, <2>5, <2>6, <2>7, <2>8, <2>9, <2>10, <2>11
  <1>17. ASSUME NEW p \in Processes, NEW w \in Workspaces, NEW cmd \in {"recover", "abort"}, Recover(p, w, cmd)
        PROVE  IInv'
    <2>1. TypeStore'
      BY <1>17 DEF Recover, Start, Free, Settled, TypeStore, TypeCommits
    <2>2. TypeCommits'
      BY <1>17 DEF Recover, Start, Free, Settled, TypeCommits
    <2>3. TypeHeads'
      BY <1>17 DEF Recover, Start, Free, Settled, TypeHeads, CommitId, Heads
    <2>4. TypeTxn'
      BY <1>17 DEF Recover, Start, Free, Settled, TypeTxn, TypeStore, TypeHeads,
          Transaction
    <2>5. TypeProc'
      BY <1>17, StartType DEF Recover, Commands, PCs, Locks
    <2>6. LockInv'
      BY <1>17 DEF Recover, Start, Free, Settled, LockInv, TypeProc, Process, Idle
    <2>7. MutexInv'
      BY <1>17 DEF Recover, Start, Free, Settled, MutexInv, TypeProc, Process, Idle,
          LockInv
    <2>8. IdInv'
      BY <1>17 DEF Recover, Start, Free, Settled, IdInv, Stored, TypeCommits,
          TypeHeads, TypeTxn
    <2>9. MarkInv'
      BY <1>17 DEF Recover, Start, Free, Settled, MarkInv, Stored, TypeProc, Process,
          Idle, LockInv, MutexInv
    <2>10. VerifiedInv'
      BY <1>17 DEF Recover, Start, Free, Settled, VerifiedInv, TypeProc, Process,
          Idle, LockInv, MutexInv
    <2>11. BackedInv'
      BY <1>17 DEF Recover, Start, Free, Settled, BackedInv, Stored, TypeCommits
    <2>. QED BY <2>1, <2>2, <2>3, <2>4, <2>5, <2>6, <2>7, <2>8, <2>9, <2>10, <2>11
  <1>18. ASSUME NEW p \in Processes, RollbackHead(p)
        PROVE  IInv'
    <2>a. proc[p].ws \in Workspaces /\ txn[proc[p].ws].headBefore \in Branches \cup Stored
      BY <1>18 DEF RollbackHead, At, LockInv, IdInv, TypeProc, Process
    <2>b. /\ head' = head \/ head' = [head EXCEPT ![proc[p].ws] = txn[proc[p].ws].headBefore]
          /\ refs' = refs /\ commits' = commits /\ txn' = txn /\ crashes' = crashes
      BY <1>18 DEF RollbackHead
    <2>1. TypeStore'
      BY <1>18 DEF RollbackHead, At, Goto, End, TypeStore, TypeCommits
    <2>2. TypeCommits'
      BY <1>18 DEF RollbackHead, At, Goto, End, TypeCommits
    <2>3. TypeHeads'
      <3>1. txn[proc[p].ws].headBefore \in Heads
        BY <2>a, StoredCommit DEF Heads
      <3>2. head' \in [Workspaces -> Heads]
        BY <2>a, <2>b, <3>1 DEF TypeHeads
      <3>3. refused' \in BOOLEAN
        BY <1>18 DEF RollbackHead, TypeHeads
      <3>. QED BY <2>b, <3>2, <3>3 DEF TypeHeads
    <2>4. TypeTxn'
      BY <1>18 DEF RollbackHead, At, Goto, End, TypeTxn, TypeStore, TypeHeads,
          Transaction
    <2>5. TypeProc'
      BY <1>18, GotoType, EndType DEF RollbackHead, PCs
    <2>6. LockInv'
      BY <1>18 DEF RollbackHead, At, Goto, End, LockInv, TypeProc, Process, Idle
    <2>7. MutexInv'
      BY <1>18 DEF RollbackHead, At, Goto, End, MutexInv, TypeProc, Process, Idle,
          LockInv
    <2>8. IdInv'
      <3>1. \A w \in Workspaces : head'[w] \in Branches \cup Stored
        BY <2>a, <2>b DEF IdInv, TypeHeads
      <3>. QED BY <2>b, <3>1 DEF IdInv, Stored
    <2>9. MarkInv'
      BY <1>18 DEF RollbackHead, At, Goto, End, MarkInv, Stored, TypeProc, Process,
          Idle, LockInv, MutexInv
    <2>10. VerifiedInv'
      BY <1>18 DEF RollbackHead, At, Goto, End, VerifiedInv, TypeProc, Process, Idle,
          LockInv, MutexInv
    <2>11. BackedInv'
      BY <1>18 DEF RollbackHead, At, Goto, End, BackedInv, Stored, TypeCommits
    <2>. QED BY <2>1, <2>2, <2>3, <2>4, <2>5, <2>6, <2>7, <2>8, <2>9, <2>10, <2>11
  <1>19. ASSUME NEW p \in Processes, RollbackIndex(p)
        PROVE  IInv'
    <2>1. TypeStore'
      <3>1. proc[p].ws \in Workspaces /\ txn[proc[p].ws] \in Transaction
        BY <1>19 DEF RollbackIndex, At, LockInv, TypeProc, Process, TypeTxn
      <3>2. txn[proc[p].ws].before \subseteq Objects
        BY <3>1 DEF Transaction
      <3>. QED BY <1>19, <3>1, <3>2 DEF RollbackIndex, WriteIndex, TypeStore
    <2>2. TypeCommits'
      BY <1>19 DEF RollbackIndex, At, Goto, End, WriteIndex, TypeCommits
    <2>3. TypeHeads'
      BY <1>19 DEF RollbackIndex, At, Goto, End, WriteIndex, TypeHeads, CommitId, Heads
    <2>4. TypeTxn'
      BY <1>19 DEF RollbackIndex, At, Goto, End, WriteIndex, TypeTxn, TypeStore,
          TypeHeads, Transaction
    <2>5. TypeProc'
      BY <1>19, GotoType, EndType DEF RollbackIndex, PCs
    <2>6. LockInv'
      <3>1. "write" \in proc[p].locks /\ txn[proc[p].ws] # None /\ proc[p].ws \in Workspaces
        BY <1>19 DEF RollbackIndex, At, LockInv, TypeProc, Process
      <3>2. \A q \in Processes \ {p} : proc'[q] = proc[q] /\ "write" \notin proc[q].locks
        BY <1>19, <3>1 DEF RollbackIndex, Goto, End, MutexInv, TypeProc
      <3>3. \/ proc'[p].cmd = "none" /\ proc'[p].pc = "idle"
            \/ /\ proc'[p].cmd = "recover" /\ proc'[p].ws = proc[p].ws
               /\ proc'[p].locks = proc[p].locks /\ proc'[p].pc = "index" /\ txn' = txn
        BY <1>19 DEF RollbackIndex, Goto, End, Idle, TypeProc, Process
      <3>. QED BY <3>1, <3>2, <3>3 DEF LockInv
    <2>7. MutexInv'
      BY <1>19 DEF RollbackIndex, At, Goto, End, WriteIndex, MutexInv, TypeProc,
          Process, Idle, LockInv
    <2>8. IdInv'
      BY <1>19 DEF RollbackIndex, At, Goto, End, WriteIndex, IdInv, Stored,
          TypeCommits, TypeHeads, TypeTxn
    <2>9. MarkInv'
      BY <1>19 DEF RollbackIndex, At, Goto, End, WriteIndex, MarkInv, Stored,
          TypeProc, Process, Idle, LockInv, MutexInv
    <2>10. VerifiedInv'
      BY <1>19 DEF RollbackIndex, At, Goto, End, WriteIndex, VerifiedInv, TypeProc,
          Process, Idle, LockInv, MutexInv
    <2>11. BackedInv'
      BY <1>19 DEF RollbackIndex, At, Goto, End, WriteIndex, BackedInv, Stored,
          TypeCommits
    <2>. QED BY <2>1, <2>2, <2>3, <2>4, <2>5, <2>6, <2>7, <2>8, <2>9, <2>10, <2>11
  <1>20. ASSUME NEW p \in Processes, Crash(p)
        PROVE  IInv'
    <2>1. TypeStore'
      BY <1>20 DEF Crash, End, TypeStore, TypeCommits
    <2>2. TypeCommits'
      BY <1>20 DEF Crash, End, TypeCommits
    <2>3. TypeHeads'
      BY <1>20 DEF Crash, End, TypeHeads, CommitId, Heads
    <2>4. TypeTxn'
      BY <1>20 DEF Crash, End, TypeTxn, TypeStore, TypeHeads, Transaction
    <2>5. TypeProc'
      BY <1>20, EndType DEF Crash
    <2>6. LockInv'
      BY <1>20 DEF Crash, End, LockInv, TypeProc, Process, Idle
    <2>7. MutexInv'
      BY <1>20 DEF Crash, End, MutexInv, TypeProc, Process, Idle, LockInv
    <2>8. IdInv'
      BY <1>20 DEF Crash, End, IdInv, Stored, TypeCommits, TypeHeads, TypeTxn
    <2>9. MarkInv'
      BY <1>20 DEF Crash, End, MarkInv, Stored, TypeProc, Process, Idle, LockInv,
          MutexInv
    <2>10. VerifiedInv'
      BY <1>20 DEF Crash, End, VerifiedInv, TypeProc, Process, Idle, LockInv, MutexInv
    <2>11. BackedInv'
      BY <1>20 DEF Crash, End, BackedInv, Stored, TypeCommits
    <2>. QED BY <2>1, <2>2, <2>3, <2>4, <2>5, <2>6, <2>7, <2>8, <2>9, <2>10, <2>11
  <1>21. CASE UNCHANGED vars
    BY <1>21 DEF vars, TypeStore, TypeCommits, TypeHeads, TypeTxn, TypeProc, LockInv,
        MutexInv, IdInv,
              MarkInv, VerifiedInv, BackedInv, Stored
  <1>. QED
    BY <1>1, <1>2, <1>3, <1>4, <1>5, <1>6, <1>7, <1>8, <1>9, <1>10, <1>11, <1>12,
        <1>13, <1>14, <1>15, <1>16, <1>17, <1>18, <1>19, <1>20, <1>21
    DEF Next

-----------------------------------------------------------------------------
(* The invariant holds throughout.                                         *)
THEOREM Invariance == Spec => []IInv
  BY InitIInv, NextIInv, PTL DEF Spec

(* Type correctness of the repository.                                     *)
THEOREM TypeCorrect == Spec => []TypeOK
  <1>1. IInv => TypeOK
    BY TypeParts DEF IInv
  <1>. QED BY Invariance, <1>1, PTL

(* gc, whichever workspace runs it and whatever crashed before, never      *)
(* removes an object of a stored Commit (app/gc.rs, build_commit_graph).   *)
THEOREM CommitsStayBacked == Spec => []CommitsBacked
  <1>1. IInv => CommitsBacked
    BY DEF IInv, BackedInv, Stored, CommitsBacked, Tree
  <1>. QED BY Invariance, <1>1, PTL

(* A branch only moves from a Commit to its child, whatever add, checkout, *)
(* recover, gc and crashes run beside commit (advance_head).               *)
THEOREM HistoryGrows == Spec => BranchesGrow
  <1>1. ASSUME IInv, [Next]_vars, NEW b \in Branches, refs'[b] # refs[b]
        PROVE  commits'[refs'[b]].parent = refs[b]
    <2>1. ASSUME NEW p \in Processes, AdvanceHead(p)
          PROVE  commits'[refs'[b]].parent = refs[b]
      BY <1>1, <2>1 DEF AdvanceHead, IInv, TypeHeads
    <2>. USE DEF metadata
    <2>2. ASSUME NEW w \in Workspaces, NEW S \in SUBSET Objects, RestoreStaged(w, S)
          PROVE  FALSE
      BY <1>1, <2>2 DEF RestoreStaged
    <2>3. ASSUME NEW p \in Processes, NEW w \in Workspaces,
                 \/ \E cmd \in {"add", "add_all"} : AddBegin(p, w, cmd)
                 \/ CommitBegin(p, w) \/ GcBegin(p, w)
                 \/ \E h \in Heads, force \in BOOLEAN : CheckoutBegin(p, w, h, force)
                 \/ \E cmd \in {"recover", "abort"} : Recover(p, w, cmd)
          PROVE  FALSE
      BY <1>1, <2>3 DEF AddBegin, CommitBegin, GcBegin, CheckoutBegin, Recover
    <2>4. ASSUME NEW p \in Processes, NEW o \in Objects, AddObject(p, o) \/ GcSweep(p, o)
          PROVE  FALSE
      BY <1>1, <2>4 DEF AddObject, GcSweep
    <2>5. ASSUME NEW p \in Processes,
                 \/ AddIndex(p) \/ AddUnpublished(p) \/ CommitStore(p) \/ GcEnd(p)
                 \/ CheckoutIndex(p) \/ CheckoutHead(p) \/ CheckoutFinish(p) \/ CheckoutFail(p)
                 \/ RollbackHead(p) \/ RollbackIndex(p) \/ Crash(p)
          PROVE  FALSE
      BY <1>1, <2>5 DEF AddIndex, AddUnpublished, CommitStore, GcEnd, CheckoutIndex,
          CheckoutHead,
                        CheckoutFinish, CheckoutFail, RollbackHead, RollbackIndex, Crash
    <2>6. CASE UNCHANGED vars
      BY <1>1, <2>6 DEF vars
    <2>. QED BY <1>1, <2>1, <2>2, <2>3, <2>4, <2>5, <2>6 DEF Next
  <1>2. IInv /\ [Next]_vars =>
          [\A b \in Branches : refs'[b] # refs[b] => commits'[refs'[b]].parent = refs[b]]_vars
    BY <1>1
  <1>. QED BY Invariance, <1>2, PTL DEF Spec, BranchesGrow

-----------------------------------------------------------------------------
(* The second layer: what one command has read, found or journalled is     *)
(* still true when it acts on it.                                          *)

(* add read the Index at the revision it remembers: while the revision is  *)
(* the same, so is the Index.                                              *)
ReadInv ==
    \A p \in Processes : proc[p].cmd \in {"add", "add_all"} =>
        /\ proc[p].seen <= version[proc[p].ws]
        /\ proc[p].seen = version[proc[p].ws] => proc[p].base = index[proc[p].ws]

(* No branch is attached to two workspaces.                                *)
AttachInv == \A w \in Workspaces : Available(head[w], w)

(* objects.lock has one holder; add and gc hold it.                        *)
ObjectLockInv ==
    /\ \A p \in Processes : proc[p].cmd \in {"add", "add_all", "gc"} => "objects" \in proc[p].locks
    /\ \A p, q \in Processes : "objects" \in proc[p].locks /\ "objects" \in proc[q].locks => p = q

(* No other command can overlook a published journal: the command that     *)
(* wrote it, or recovers it, still runs and holds the write lock, or there *)
(* is no other workspace.                                                  *)
HolderInv ==
    /\ \A w \in Workspaces : txn[w] # None =>
          \/ \E p \in Processes : /\ proc[p].cmd \in {"checkout", "recover", "abort"}
                                  /\ proc[p].ws = w
          \/ \A v \in Workspaces : v = w
    /\ \A p \in Processes : proc[p].cmd \in {"commit", "gc"} => txn[proc[p].ws] = None

(* A journal still describes the repository: both HEADs resolve as it      *)
(* says, HEAD is one of them, their branches are free, and the Index it    *)
(* would put back is stored.                                               *)
JournalInv ==
    \A w \in Workspaces : txn[w] # None =>
        /\ Resolve(txn[w].headBefore) = txn[w].commitBefore
        /\ Resolve(txn[w].headAfter) = txn[w].target
        /\ head[w] \in {txn[w].headBefore, txn[w].headAfter}
        /\ Available(txn[w].headBefore, w) /\ Available(txn[w].headAfter, w)
        /\ txn[w].before \subseteq objects

(* What add read and what it published are stored until it writes them.    *)
AddedInv ==
    \A p \in Processes : proc[p].cmd \in {"add", "add_all"} =>
        proc[p].base \subseteq objects /\ proc[p].data \subseteq objects

(* What gc has marked covers every Index while it sweeps.                  *)
MarkedInv ==
    \A p \in Processes : proc[p].cmd = "gc" => \A w \in Workspaces : index[w] \subseteq proc[p].data

SInv == /\ ObjectLockInv /\ HolderInv /\ JournalInv /\ AddedInv /\ MarkedInv
        /\ IndexBacked /\ RecoveryNotRefused

(* gc and checkout look at the caller's own journal only.  That is enough  *)
(* in a repository with one workspace, or when no process dies.            *)
Confined == MaxCrashes = 0 \/ \A v, w \in Workspaces : v = w

(* A process that waits for a command runs none.                           *)
LEMMA IdleNone ==
    ASSUME IInv, NEW p \in Processes, proc[p].pc = "idle"
    PROVE  proc[p].cmd = "none"
  <1>1. proc[p].cmd \in Commands
    BY DEF IInv, TypeProc, Process
  <1>. QED BY <1>1 DEF IInv, LockInv, Commands

(* With the write lock free, a workspace without a journal shows that      *)
(* there is no journal anywhere.                                           *)
LEMMA AllSettled ==
    ASSUME IInv, HolderInv, Free("write"), NEW v \in Workspaces, Settled(v)
    PROVE  \A w \in Workspaces : txn[w] = None
  BY DEF IInv, LockInv, HolderInv, Free, Settled

(* The holder of the write lock works on the only journal there is, and    *)
(* commit and gc run without one.                                          *)
LEMMA OwnJournal ==
    ASSUME IInv, HolderInv, NEW p \in Processes, "write" \in proc[p].locks,
           NEW w \in Workspaces, txn[w] # None
    PROVE  proc[p].ws = w /\ proc[p].cmd \notin {"commit", "gc"}
  <1>1. proc[p].ws \in Workspaces
    BY DEF IInv, TypeProc, Process
  <1>2. proc[p].ws = w
    BY <1>1 DEF IInv, LockInv, MutexInv, HolderInv
  <1>. QED BY <1>2 DEF HolderInv

(* The tree of a HEAD is stored.                                           *)
LEMMA HeadBacked ==
    ASSUME IInv, NEW w \in Workspaces
    PROVE  Tree(Resolve(head[w])) \subseteq objects
  <1>1. Resolve(head[w]) \in Stored
    BY ResolveStored DEF IInv, IdInv
  <1>. QED BY <1>1 DEF IInv, BackedInv, Tree

(* Only in a repository with one workspace does a process die.             *)
LEMMA CrashMeansSingle ==
    ASSUME IInv, Confined, NEW p \in Processes, Crash(p)
    PROVE  \A v, w \in Workspaces : v = w
  BY ConstantsAssumption DEF ConstantsAssumption, IInv, TypeHeads, Confined, Crash

(* A journal stays true while HEADs and branches stay and the store grows. *)
LEMMA JournalFrame ==
    ASSUME JournalInv, refs' = refs, head' = head, txn' = txn, objects \subseteq objects'
    PROVE  JournalInv'
  BY DEF JournalInv, Resolve, Available

(* gc marks every Index.                                                   *)
LEMMA MarksIndexes ==
    ASSUME NEW w \in Workspaces
    PROVE  \A v \in Workspaces : index[v] \subseteq Referenced(w)
  <1>. DEFINE I == UNION {index[v] : v \in Workspaces}
              T == UNION {Tree(c) : c \in 1..Len(commits)}
  <1>1. \A v \in Workspaces : index[v] \subseteq I
    BY Zenon
  <1>2. Referenced(w) = I \cup T
    BY DEF Referenced
  <1>. HIDE DEF I, T
  <1>. QED BY <1>1, <1>2

-----------------------------------------------------------------------------

(* restore --staged takes what it puts back from a stored Commit.          *)
LEMMA ShelteredRestoreStaged ==
    ASSUME IInv, AttachInv, SInv, Confined, NEW w \in Workspaces, NEW S \in SUBSET Objects, RestoreStaged(w, S)
    PROVE  SInv'
  <1>w. \A v \in Workspaces : txn[v] = None
    BY AllSettled DEF SInv, RestoreStaged
  <1>x. \A q \in Processes : proc[q].cmd # "gc"
    BY DEF RestoreStaged, Free, IInv, LockInv
  <1>f. objects' = objects /\ txn' = txn /\ proc' = proc /\ head' = head /\ refs' = refs /\ refused' = refused
    BY DEF RestoreStaged
  <1>1. ObjectLockInv'
    BY <1>f, <1>w, <1>x DEF SInv, ObjectLockInv
  <1>2. HolderInv'
    BY <1>f, <1>w, <1>x DEF SInv, HolderInv
  <1>3. JournalInv'
    BY <1>f, JournalFrame DEF SInv
  <1>4. AddedInv'
    BY <1>f, <1>w, <1>x DEF SInv, AddedInv
  <1>5. MarkedInv'
    BY <1>f, <1>w, <1>x DEF SInv, MarkedInv
  <1>6. IndexBacked'
    <2>1. Tree(Resolve(head[w])) \subseteq objects
      BY HeadBacked
    <2>2. index' = [index EXCEPT ![w] = (index[w] \ S) \cup (Tree(Resolve(head[w])) \cap S)]
      BY DEF RestoreStaged, WriteIndex
    <2>. QED BY <1>f, <1>w, <1>x, <2>1, <2>2 DEF SInv, IndexBacked, IInv, TypeStore
  <1>7. RecoveryNotRefused'
    BY <1>f DEF SInv, RecoveryNotRefused
  <1>. QED BY <1>1, <1>2, <1>3, <1>4, <1>5, <1>6, <1>7 DEF SInv

(* add starts with the object lock, so no gc is sweeping.                  *)
LEMMA ShelteredAddBegin ==
    ASSUME IInv, AttachInv, SInv, Confined, NEW p \in Processes, NEW w \in Workspaces, NEW cmd \in {"add", "add_all"},
           AddBegin(p, w, cmd)
    PROVE  SInv'
  <1>f. objects' = objects /\ txn' = txn /\ index' = index /\ version' = version /\ head' = head /\ refs' = refs /\ refused' = refused
    BY DEF AddBegin, metadata
  <1>p. /\ proc'[p].cmd = cmd /\ proc'[p].ws = w /\ proc'[p].locks = {"objects", "shared"}
        /\ proc'[p].base = index[w] /\ proc'[p].data = {}
        /\ \A q \in Processes \ {p} : proc'[q] = proc[q]
    BY DEF AddBegin, Start, Idle, metadata, IInv, TypeProc, Process
  <1>i. proc[p].cmd = "none"
    BY IdleNone DEF AddBegin
  <1>1. ObjectLockInv'
    BY <1>p DEF SInv, ObjectLockInv, AddBegin, Free
  <1>2. HolderInv'
    BY <1>f, <1>p, <1>i DEF SInv, HolderInv
  <1>3. JournalInv'
    BY <1>f, JournalFrame DEF SInv
  <1>4. AddedInv'
    BY <1>f, <1>p DEF SInv, AddedInv, IndexBacked
  <1>5. MarkedInv'
    BY <1>f, <1>p, <1>i DEF SInv, MarkedInv
  <1>6. IndexBacked'
    BY <1>f DEF SInv, IndexBacked
  <1>7. RecoveryNotRefused'
    BY <1>f DEF SInv, RecoveryNotRefused
  <1>. QED BY <1>1, <1>2, <1>3, <1>4, <1>5, <1>6, <1>7 DEF SInv

(* A published object only makes the store larger.                         *)
LEMMA ShelteredAddObject ==
    ASSUME IInv, AttachInv, SInv, Confined, NEW p \in Processes, NEW o \in Objects, AddObject(p, o)
    PROVE  SInv'
  <1>f. txn' = txn /\ index' = index /\ version' = version /\ head' = head /\ refs' = refs /\ refused' = refused
        /\ objects' = objects \cup {o}
    BY DEF AddObject, metadata
  <1>p. /\ proc'[p].cmd = proc[p].cmd /\ proc'[p].ws = proc[p].ws /\ proc'[p].locks = proc[p].locks
        /\ proc'[p].base = proc[p].base /\ proc'[p].data = proc[p].data \cup {o}
        /\ \A q \in Processes \ {p} : proc'[q] = proc[q]
    BY DEF AddObject, metadata, IInv, TypeProc, Process
  <1>i. proc[p].cmd \in {"add", "add_all"}
    BY DEF AddObject, At
  <1>1. ObjectLockInv'
    BY <1>f, <1>p, <1>i DEF SInv, ObjectLockInv
  <1>2. HolderInv'
    BY <1>f, <1>p, <1>i DEF SInv, HolderInv
  <1>3. JournalInv'
    BY <1>f, JournalFrame DEF SInv
  <1>4. AddedInv'
    BY <1>f, <1>p, <1>i DEF SInv, AddedInv
  <1>5. MarkedInv'
    BY <1>f, <1>p, <1>i DEF SInv, MarkedInv
  <1>6. IndexBacked'
    BY <1>f DEF SInv, IndexBacked
  <1>7. RecoveryNotRefused'
    BY <1>f DEF SInv, RecoveryNotRefused
  <1>. QED BY <1>1, <1>2, <1>3, <1>4, <1>5, <1>6, <1>7 DEF SInv

(* add writes only what it read or published, while gc is kept out by the  *)
(* object lock.                                                            *)
LEMMA ShelteredAddIndex ==
    ASSUME IInv, AttachInv, SInv, Confined, NEW p \in Processes, AddIndex(p)
    PROVE  SInv'
  <1>w. proc[p].ws \in Workspaces
    BY DEF IInv, TypeProc, Process
  <1>x. \A v \in Workspaces : txn[v] = None
    BY <1>w, AllSettled DEF SInv, AddIndex
  <1>y. \A q \in Processes : proc[q].cmd # "gc"
    BY DEF AddIndex, Free, IInv, LockInv
  <1>f. objects' = objects /\ txn' = txn /\ head' = head /\ refs' = refs /\ refused' = refused
    BY DEF AddIndex
  <1>p. /\ proc'[p].cmd = "none" /\ proc'[p].locks = {} /\ proc'[p].pc = "idle"
        /\ \A q \in Processes \ {p} : proc'[q] = proc[q]
    BY DEF AddIndex, End, Idle, IInv, TypeProc, Process
  <1>i. proc[p].cmd \in {"add", "add_all"}
    BY DEF AddIndex, At
  <1>1. ObjectLockInv'
    BY <1>f, <1>w, <1>x, <1>y, <1>p, <1>i DEF SInv, ObjectLockInv
  <1>2. HolderInv'
    BY <1>f, <1>w, <1>x, <1>y, <1>p, <1>i DEF SInv, HolderInv
  <1>3. JournalInv'
    BY <1>f, JournalFrame DEF SInv
  <1>4. AddedInv'
    BY <1>f, <1>w, <1>x, <1>y, <1>p, <1>i DEF SInv, AddedInv
  <1>5. MarkedInv'
    BY <1>f, <1>w, <1>x, <1>y, <1>p, <1>i DEF SInv, MarkedInv
  <1>6. IndexBacked'
    <2>1. proc[p].base \subseteq objects /\ proc[p].data \subseteq objects
      BY DEF SInv, AddedInv, AddIndex, At
    <2>2. \E files \in {proc[p].base \cup proc[p].data, proc[p].data} :
            index' = [index EXCEPT ![proc[p].ws] = files]
      BY DEF AddIndex, WriteIndex
    <2>. QED BY <1>f, <1>w, <1>x, <1>y, <1>p, <1>i, <2>1, <2>2 DEF SInv, IndexBacked, IInv, TypeStore
  <1>7. RecoveryNotRefused'
    BY <1>f DEF SInv, RecoveryNotRefused
  <1>. QED BY <1>1, <1>2, <1>3, <1>4, <1>5, <1>6, <1>7 DEF SInv

(* A failed add writes nothing.                                            *)
LEMMA ShelteredAddUnpublished ==
    ASSUME IInv, AttachInv, SInv, Confined, NEW p \in Processes, AddUnpublished(p)
    PROVE  SInv'
  <1>f. objects' = objects /\ txn' = txn /\ index' = index /\ version' = version /\ head' = head /\ refs' = refs /\ refused' = refused
    BY DEF AddUnpublished, metadata
  <1>p. /\ proc'[p].cmd = "none" /\ proc'[p].locks = {} /\ proc'[p].pc = "idle"
        /\ \A q \in Processes \ {p} : proc'[q] = proc[q]
    BY DEF AddUnpublished, End, Idle, metadata, IInv, TypeProc, Process
  <1>i. proc[p].cmd \in {"add", "add_all"}
    BY DEF AddUnpublished, At
  <1>1. ObjectLockInv'
    BY <1>f, <1>p, <1>i DEF SInv, ObjectLockInv
  <1>2. HolderInv'
    BY <1>f, <1>p, <1>i DEF SInv, HolderInv
  <1>3. JournalInv'
    BY <1>f, JournalFrame DEF SInv
  <1>4. AddedInv'
    BY <1>f, <1>p, <1>i DEF SInv, AddedInv
  <1>5. MarkedInv'
    BY <1>f, <1>p, <1>i DEF SInv, MarkedInv
  <1>6. IndexBacked'
    BY <1>f DEF SInv, IndexBacked
  <1>7. RecoveryNotRefused'
    BY <1>f DEF SInv, RecoveryNotRefused
  <1>. QED BY <1>1, <1>2, <1>3, <1>4, <1>5, <1>6, <1>7 DEF SInv

(* commit starts in a workspace without a journal.                         *)
LEMMA ShelteredCommitBegin ==
    ASSUME IInv, AttachInv, SInv, Confined, NEW p \in Processes, NEW w \in Workspaces, CommitBegin(p, w)
    PROVE  SInv'
  <1>w. txn[w] = None
    BY DEF CommitBegin, Settled
  <1>f. objects' = objects /\ txn' = txn /\ index' = index /\ version' = version /\ head' = head /\ refs' = refs /\ refused' = refused
    BY DEF CommitBegin, metadata
  <1>p. /\ proc'[p].cmd = "commit" /\ proc'[p].ws = w /\ proc'[p].locks = {"write"}
        /\ \A q \in Processes \ {p} : proc'[q] = proc[q]
    BY DEF CommitBegin, Start, Idle, metadata, IInv, TypeProc, Process
  <1>i. proc[p].cmd = "none"
    BY IdleNone DEF CommitBegin
  <1>1. ObjectLockInv'
    BY <1>f, <1>w, <1>p, <1>i DEF SInv, ObjectLockInv
  <1>2. HolderInv'
    BY <1>f, <1>w, <1>p, <1>i DEF SInv, HolderInv
  <1>3. JournalInv'
    BY <1>f, JournalFrame DEF SInv
  <1>4. AddedInv'
    BY <1>f, <1>w, <1>p, <1>i DEF SInv, AddedInv
  <1>5. MarkedInv'
    BY <1>f, <1>w, <1>p, <1>i DEF SInv, MarkedInv
  <1>6. IndexBacked'
    BY <1>f DEF SInv, IndexBacked
  <1>7. RecoveryNotRefused'
    BY <1>f DEF SInv, RecoveryNotRefused
  <1>. QED BY <1>1, <1>2, <1>3, <1>4, <1>5, <1>6, <1>7 DEF SInv

(* A stored Commit leaves Index, HEAD and journals alone.                  *)
LEMMA ShelteredCommitStore ==
    ASSUME IInv, AttachInv, SInv, Confined, NEW p \in Processes, CommitStore(p)
    PROVE  SInv'
  <1>f. objects' = objects /\ txn' = txn /\ index' = index /\ version' = version /\ head' = head /\ refs' = refs /\ refused' = refused
    BY DEF CommitStore
  <1>p. /\ proc'[p].cmd = proc[p].cmd /\ proc'[p].ws = proc[p].ws /\ proc'[p].locks = proc[p].locks
        /\ \A q \in Processes \ {p} : proc'[q] = proc[q]
    BY DEF CommitStore, Goto, IInv, TypeProc, Process
  <1>i. proc[p].cmd \in {"commit"}
    BY DEF CommitStore, At
  <1>1. ObjectLockInv'
    BY <1>f, <1>p, <1>i DEF SInv, ObjectLockInv
  <1>2. HolderInv'
    BY <1>f, <1>p, <1>i DEF SInv, HolderInv
  <1>3. JournalInv'
    BY <1>f, JournalFrame DEF SInv
  <1>4. AddedInv'
    BY <1>f, <1>p, <1>i DEF SInv, AddedInv
  <1>5. MarkedInv'
    BY <1>f, <1>p, <1>i DEF SInv, MarkedInv
  <1>6. IndexBacked'
    BY <1>f DEF SInv, IndexBacked
  <1>7. RecoveryNotRefused'
    BY <1>f DEF SInv, RecoveryNotRefused
  <1>. QED BY <1>1, <1>2, <1>3, <1>4, <1>5, <1>6, <1>7 DEF SInv

(* commit moves a branch or a HEAD only while there is no journal at all.  *)
LEMMA ShelteredAdvanceHead ==
    ASSUME IInv, AttachInv, SInv, Confined, NEW p \in Processes, AdvanceHead(p)
    PROVE  SInv'
  <1>w. "write" \in proc[p].locks /\ proc[p].cmd = "commit"
    BY DEF AdvanceHead, At, IInv, LockInv
  <1>x. \A v \in Workspaces : txn[v] = None
    BY <1>w, OwnJournal DEF SInv
  <1>f. objects' = objects /\ txn' = txn /\ index' = index /\ version' = version /\ refused' = refused
    BY DEF AdvanceHead
  <1>p. /\ proc'[p].cmd = "none" /\ proc'[p].locks = {} /\ proc'[p].pc = "idle"
        /\ \A q \in Processes \ {p} : proc'[q] = proc[q]
    BY DEF AdvanceHead, End, Idle, IInv, TypeProc, Process
  <1>i. proc[p].cmd \in {"commit"}
    BY DEF AdvanceHead, At
  <1>1. ObjectLockInv'
    BY <1>f, <1>w, <1>x, <1>p, <1>i DEF SInv, ObjectLockInv
  <1>2. HolderInv'
    BY <1>f, <1>w, <1>x, <1>p, <1>i DEF SInv, HolderInv
  <1>3. JournalInv'
    BY <1>f, <1>w, <1>x, <1>p, <1>i DEF SInv, JournalInv, Resolve, Available
  <1>4. AddedInv'
    BY <1>f, <1>w, <1>x, <1>p, <1>i DEF SInv, AddedInv
  <1>5. MarkedInv'
    BY <1>f, <1>w, <1>x, <1>p, <1>i DEF SInv, MarkedInv
  <1>6. IndexBacked'
    BY <1>f DEF SInv, IndexBacked
  <1>7. RecoveryNotRefused'
    BY <1>f DEF SInv, RecoveryNotRefused
  <1>. QED BY <1>1, <1>2, <1>3, <1>4, <1>5, <1>6, <1>7 DEF SInv

(* gc marks every Index.                                                   *)
LEMMA ShelteredGcBegin ==
    ASSUME IInv, AttachInv, SInv, Confined, NEW p \in Processes, NEW w \in Workspaces, GcBegin(p, w)
    PROVE  SInv'
  <1>w. txn[w] = None
    BY DEF GcBegin, Settled
  <1>f. objects' = objects /\ txn' = txn /\ index' = index /\ version' = version /\ head' = head /\ refs' = refs /\ refused' = refused
    BY DEF GcBegin, metadata
  <1>p. /\ proc'[p].cmd = "gc" /\ proc'[p].ws = w /\ proc'[p].locks = {"objects", "write"}
        /\ proc'[p].data = Referenced(w)
        /\ \A q \in Processes \ {p} : proc'[q] = proc[q]
    BY DEF GcBegin, Idle, metadata, IInv, TypeProc, Process
  <1>i. proc[p].cmd = "none"
    BY IdleNone DEF GcBegin
  <1>1. ObjectLockInv'
    BY <1>p DEF SInv, ObjectLockInv, GcBegin, Free
  <1>2. HolderInv'
    BY <1>f, <1>w, <1>p, <1>i DEF SInv, HolderInv
  <1>3. JournalInv'
    BY <1>f, JournalFrame DEF SInv
  <1>4. AddedInv'
    BY <1>f, <1>w, <1>p, <1>i DEF SInv, AddedInv
  <1>5. MarkedInv'
    BY <1>f, <1>w, <1>p, <1>i, MarksIndexes DEF SInv, MarkedInv, GcBegin, Free, IInv, LockInv
  <1>6. IndexBacked'
    BY <1>f DEF SInv, IndexBacked
  <1>7. RecoveryNotRefused'
    BY <1>f DEF SInv, RecoveryNotRefused
  <1>. QED BY <1>1, <1>2, <1>3, <1>4, <1>5, <1>6, <1>7 DEF SInv

(* gc sweeps while there is neither an add nor a journal.                  *)
LEMMA ShelteredGcSweep ==
    ASSUME IInv, AttachInv, SInv, Confined, NEW p \in Processes, NEW o \in Objects, GcSweep(p, o)
    PROVE  SInv'
  <1>w. proc[p].cmd = "gc" /\ "write" \in proc[p].locks /\ "objects" \in proc[p].locks
    BY DEF GcSweep, At, IInv, LockInv, SInv, ObjectLockInv
  <1>x. \A v \in Workspaces : txn[v] = None
    BY <1>w, OwnJournal DEF SInv
  <1>y. \A q \in Processes : proc[q].cmd \notin {"add", "add_all"}
    BY <1>w DEF SInv, ObjectLockInv
  <1>f. txn' = txn /\ proc' = proc /\ index' = index /\ version' = version /\ head' = head /\ refs' = refs /\ refused' = refused
        /\ objects' = objects \ {o} /\ o \notin proc[p].data
    BY DEF GcSweep, metadata
  <1>1. ObjectLockInv'
    BY <1>f, <1>w, <1>x, <1>y DEF SInv, ObjectLockInv
  <1>2. HolderInv'
    BY <1>f, <1>w, <1>x, <1>y DEF SInv, HolderInv
  <1>3. JournalInv'
    BY <1>f, <1>w, <1>x, <1>y DEF SInv, JournalInv, Resolve, Available
  <1>4. AddedInv'
    BY <1>f, <1>w, <1>x, <1>y DEF SInv, AddedInv
  <1>5. MarkedInv'
    BY <1>f, <1>w, <1>x, <1>y DEF SInv, MarkedInv
  <1>6. IndexBacked'
    BY <1>f, <1>w, <1>x, <1>y DEF SInv, IndexBacked, MarkedInv
  <1>7. RecoveryNotRefused'
    BY <1>f DEF SInv, RecoveryNotRefused
  <1>. QED BY <1>1, <1>2, <1>3, <1>4, <1>5, <1>6, <1>7 DEF SInv

(* The end of gc releases its locks.                                       *)
LEMMA ShelteredGcEnd ==
    ASSUME IInv, AttachInv, SInv, Confined, NEW p \in Processes, GcEnd(p)
    PROVE  SInv'
  <1>f. objects' = objects /\ txn' = txn /\ index' = index /\ version' = version /\ head' = head /\ refs' = refs /\ refused' = refused
    BY DEF GcEnd, metadata
  <1>p. /\ proc'[p].cmd = "none" /\ proc'[p].locks = {} /\ proc'[p].pc = "idle"
        /\ \A q \in Processes \ {p} : proc'[q] = proc[q]
    BY DEF GcEnd, End, Idle, metadata, IInv, TypeProc, Process
  <1>i. proc[p].cmd \in {"gc"}
    BY DEF GcEnd, At
  <1>1. ObjectLockInv'
    BY <1>f, <1>p, <1>i DEF SInv, ObjectLockInv
  <1>2. HolderInv'
    BY <1>f, <1>p, <1>i DEF SInv, HolderInv
  <1>3. JournalInv'
    BY <1>f, JournalFrame DEF SInv
  <1>4. AddedInv'
    BY <1>f, <1>p, <1>i DEF SInv, AddedInv
  <1>5. MarkedInv'
    BY <1>f, <1>p, <1>i DEF SInv, MarkedInv
  <1>6. IndexBacked'
    BY <1>f DEF SInv, IndexBacked
  <1>7. RecoveryNotRefused'
    BY <1>f DEF SInv, RecoveryNotRefused
  <1>. QED BY <1>1, <1>2, <1>3, <1>4, <1>5, <1>6, <1>7 DEF SInv

(* The journal of checkout describes the repository it is written in.      *)
LEMMA ShelteredCheckoutBegin ==
    ASSUME IInv, AttachInv, SInv, Confined, NEW p \in Processes, NEW w \in Workspaces, NEW h \in Heads, NEW force \in BOOLEAN,
           CheckoutBegin(p, w, h, force)
    PROVE  SInv'
  <1>s. \A v \in Workspaces : txn[v] = None
    BY AllSettled DEF SInv, CheckoutBegin
  <1>t. \A v \in Workspaces : txn'[v] = IF v = w THEN NewTransaction(w, h) ELSE txn[v]
    BY DEF CheckoutBegin, IInv, TypeTxn
  <1>f. objects' = objects /\ index' = index /\ version' = version /\ head' = head /\ refs' = refs /\ refused' = refused
    BY DEF CheckoutBegin, metadata
  <1>p. /\ proc'[p].cmd = "checkout" /\ proc'[p].ws = w /\ proc'[p].locks = {"exclusive", "write"}
        /\ \A q \in Processes \ {p} : proc'[q] = proc[q]
    BY DEF CheckoutBegin, Start, Idle, metadata, IInv, TypeProc, Process
  <1>i. proc[p].cmd = "none"
    BY IdleNone DEF CheckoutBegin
  <1>1. ObjectLockInv'
    BY <1>f, <1>s, <1>t, <1>p, <1>i DEF SInv, ObjectLockInv
  <1>2. HolderInv'
    <2>1. \A q \in Processes : proc'[q].cmd \notin {"commit", "gc"}
      BY <1>p DEF CheckoutBegin, Free, IInv, LockInv
    <2>2. \A v \in Workspaces : txn'[v] # None => v = w
      BY <1>s, <1>t
    <2>. QED BY <1>p, <2>1, <2>2 DEF HolderInv
  <1>3. JournalInv'
    <2>1. Available(head[w], w) /\ Available(h, w)
      BY DEF AttachInv, CheckoutBegin
    <2>2. index[w] \subseteq objects
      BY DEF SInv, IndexBacked
    <2>3. ASSUME NEW v \in Workspaces, txn'[v] # None
          PROVE  v = w /\ txn'[v] = NewTransaction(w, h)
      BY <1>s, <1>t, <2>3
    <2>. QED BY <1>f, <2>1, <2>2, <2>3 DEF JournalInv, NewTransaction, Resolve, Available
  <1>4. AddedInv'
    BY <1>f, <1>s, <1>t, <1>p, <1>i DEF SInv, AddedInv
  <1>5. MarkedInv'
    BY <1>f, <1>s, <1>t, <1>p, <1>i DEF SInv, MarkedInv
  <1>6. IndexBacked'
    BY <1>f DEF SInv, IndexBacked
  <1>7. RecoveryNotRefused'
    BY <1>f DEF SInv, RecoveryNotRefused
  <1>. QED BY <1>1, <1>2, <1>3, <1>4, <1>5, <1>6, <1>7 DEF SInv

(* The Index checkout publishes is the tree of a stored Commit.            *)
LEMMA ShelteredCheckoutIndex ==
    ASSUME IInv, AttachInv, SInv, Confined, NEW p \in Processes, CheckoutIndex(p)
    PROVE  SInv'
  <1>w. /\ proc[p].ws \in Workspaces /\ txn[proc[p].ws] # None /\ "write" \in proc[p].locks
        /\ \A w \in Workspaces : txn[w] # None => w = proc[p].ws
        /\ proc[p].cmd \in {"checkout", "recover"}
    BY OwnJournal DEF CheckoutIndex, At, SInv, IInv, LockInv, TypeProc, Process
  <1>f. objects' = objects /\ txn' = txn /\ head' = head /\ refs' = refs /\ refused' = refused
    BY DEF CheckoutIndex
  <1>p. /\ proc'[p].cmd = proc[p].cmd /\ proc'[p].ws = proc[p].ws /\ proc'[p].locks = proc[p].locks
        /\ \A q \in Processes \ {p} : proc'[q] = proc[q]
    BY DEF CheckoutIndex, Goto, IInv, TypeProc, Process
  <1>1. ObjectLockInv'
    BY <1>f, <1>w, <1>p DEF SInv, ObjectLockInv
  <1>2. HolderInv'
    BY <1>f, <1>w, <1>p DEF SInv, HolderInv
  <1>3. JournalInv'
    BY <1>f, JournalFrame DEF SInv
  <1>4. AddedInv'
    BY <1>f, <1>w, <1>p DEF SInv, AddedInv
  <1>5. MarkedInv'
    <2>1. \A q \in Processes : proc[q].cmd # "gc"
      BY <1>w DEF IInv, LockInv, MutexInv
    <2>. QED BY <1>p, <2>1 DEF MarkedInv
  <1>6. IndexBacked'
    <2>1. Tree(txn[proc[p].ws].target) \subseteq objects
      BY <1>w DEF IInv, IdInv, BackedInv, Tree
    <2>2. index' = [index EXCEPT ![proc[p].ws] = Tree(txn[proc[p].ws].target)]
      BY DEF CheckoutIndex, WriteIndex
    <2>. QED BY <1>f, <1>w, <1>p, <2>1, <2>2 DEF SInv, IndexBacked, IInv, TypeStore
  <1>7. RecoveryNotRefused'
    BY <1>f DEF SInv, RecoveryNotRefused
  <1>. QED BY <1>1, <1>2, <1>3, <1>4, <1>5, <1>6, <1>7 DEF SInv

(* HEAD can be published: both HEADs of the journal still resolve as       *)
(* journalled.                                                             *)
LEMMA ShelteredCheckoutHead ==
    ASSUME IInv, AttachInv, SInv, Confined, NEW p \in Processes, CheckoutHead(p)
    PROVE  SInv'
  <1>w. /\ proc[p].ws \in Workspaces /\ txn[proc[p].ws] # None /\ "write" \in proc[p].locks
        /\ \A w \in Workspaces : txn[w] # None => w = proc[p].ws
        /\ proc[p].cmd \in {"checkout", "recover"}
    BY OwnJournal DEF CheckoutHead, At, SInv, IInv, LockInv, TypeProc, Process
  <1>m. /\ head' = [head EXCEPT ![proc[p].ws] = txn[proc[p].ws].headAfter]
        /\ Goto(p, "finish") /\ refused' = refused
    <2>1. /\ HeadMoves(proc[p].ws, txn[proc[p].ws].headBefore, txn[proc[p].ws].headAfter)
          /\ HeadMoves(proc[p].ws, txn[proc[p].ws].headAfter, txn[proc[p].ws].headBefore)
      BY <1>w DEF SInv, JournalInv, HeadMoves
    <2>. QED BY <1>w, <2>1 DEF CheckoutHead, SInv, JournalInv
  <1>f. objects' = objects /\ txn' = txn /\ index' = index /\ version' = version /\ refs' = refs
    BY DEF CheckoutHead
  <1>p. /\ proc'[p].cmd = proc[p].cmd /\ proc'[p].ws = proc[p].ws /\ proc'[p].locks = proc[p].locks
        /\ \A q \in Processes \ {p} : proc'[q] = proc[q]
    BY <1>m DEF CheckoutHead, Goto, IInv, TypeProc, Process
  <1>1. ObjectLockInv'
    BY <1>f, <1>w, <1>m, <1>p DEF SInv, ObjectLockInv
  <1>2. HolderInv'
    BY <1>f, <1>w, <1>m, <1>p DEF SInv, HolderInv
  <1>3. JournalInv'
    BY <1>f, <1>w, <1>m, <1>p DEF SInv, JournalInv, Resolve, Available
  <1>4. AddedInv'
    BY <1>f, <1>w, <1>m, <1>p DEF SInv, AddedInv
  <1>5. MarkedInv'
    BY <1>f, <1>w, <1>m, <1>p DEF SInv, MarkedInv
  <1>6. IndexBacked'
    BY <1>f DEF SInv, IndexBacked
  <1>7. RecoveryNotRefused'
    BY <1>m DEF SInv, RecoveryNotRefused
  <1>. QED BY <1>1, <1>2, <1>3, <1>4, <1>5, <1>6, <1>7 DEF SInv

(* A checkout that is through removes its journal.                         *)
LEMMA ShelteredCheckoutFinish ==
    ASSUME IInv, AttachInv, SInv, Confined, NEW p \in Processes, CheckoutFinish(p)
    PROVE  SInv'
  <1>w. /\ proc[p].ws \in Workspaces /\ txn[proc[p].ws] # None /\ "write" \in proc[p].locks
        /\ \A w \in Workspaces : txn[w] # None => w = proc[p].ws
        /\ proc[p].cmd \in {"checkout", "recover"}
    BY OwnJournal DEF CheckoutFinish, At, SInv, IInv, LockInv, TypeProc, Process
  <1>f. objects' = objects /\ index' = index /\ version' = version /\ head' = head /\ refs' = refs /\ refused' = refused
        /\ txn' = [txn EXCEPT ![proc[p].ws] = None]
    BY DEF CheckoutFinish, metadata
  <1>p. /\ proc'[p].cmd = "none" /\ proc'[p].locks = {} /\ proc'[p].pc = "idle"
        /\ \A q \in Processes \ {p} : proc'[q] = proc[q]
    BY DEF CheckoutFinish, End, Idle, metadata, IInv, TypeProc, Process
  <1>1. ObjectLockInv'
    BY <1>f, <1>w, <1>p DEF SInv, ObjectLockInv
  <1>2. HolderInv'
    <2>1. \A v \in Workspaces : txn'[v] = IF v = proc[p].ws THEN None ELSE txn[v]
      BY <1>f DEF IInv, TypeTxn
    <2>2. \A q \in Processes : proc[q].ws \in Workspaces
      BY DEF IInv, TypeProc, Process
    <2>. QED BY <1>w, <1>p, <2>1, <2>2 DEF SInv, HolderInv
  <1>3. JournalInv'
    BY <1>f, <1>w, <1>p DEF SInv, JournalInv, Resolve, Available
  <1>4. AddedInv'
    BY <1>f, <1>w, <1>p DEF SInv, AddedInv
  <1>5. MarkedInv'
    BY <1>f, <1>w, <1>p DEF SInv, MarkedInv
  <1>6. IndexBacked'
    BY <1>f DEF SInv, IndexBacked
  <1>7. RecoveryNotRefused'
    BY <1>f DEF SInv, RecoveryNotRefused
  <1>. QED BY <1>1, <1>2, <1>3, <1>4, <1>5, <1>6, <1>7 DEF SInv

(* A checkout that turns to its rollback keeps journal and locks.          *)
LEMMA ShelteredCheckoutFail ==
    ASSUME IInv, AttachInv, SInv, Confined, NEW p \in Processes, CheckoutFail(p)
    PROVE  SInv'
  <1>w. /\ proc[p].ws \in Workspaces /\ txn[proc[p].ws] # None /\ "write" \in proc[p].locks
        /\ \A w \in Workspaces : txn[w] # None => w = proc[p].ws
        /\ proc[p].cmd \in {"checkout", "recover"}
    BY OwnJournal DEF CheckoutFail, At, SInv, IInv, LockInv, TypeProc, Process
  <1>f. objects' = objects /\ txn' = txn /\ index' = index /\ version' = version /\ head' = head /\ refs' = refs /\ refused' = refused
    BY DEF CheckoutFail, metadata
  <1>p. /\ proc'[p].cmd = "abort" /\ proc'[p].ws = proc[p].ws /\ proc'[p].locks = proc[p].locks
        /\ \A q \in Processes \ {p} : proc'[q] = proc[q]
    BY DEF CheckoutFail, metadata, IInv, TypeProc, Process
  <1>1. ObjectLockInv'
    BY <1>f, <1>w, <1>p DEF SInv, ObjectLockInv
  <1>2. HolderInv'
    BY <1>f, <1>w, <1>p DEF SInv, HolderInv
  <1>3. JournalInv'
    BY <1>f, JournalFrame DEF SInv
  <1>4. AddedInv'
    BY <1>f, <1>w, <1>p DEF SInv, AddedInv
  <1>5. MarkedInv'
    BY <1>f, <1>w, <1>p DEF SInv, MarkedInv
  <1>6. IndexBacked'
    BY <1>f DEF SInv, IndexBacked
  <1>7. RecoveryNotRefused'
    BY <1>f DEF SInv, RecoveryNotRefused
  <1>. QED BY <1>1, <1>2, <1>3, <1>4, <1>5, <1>6, <1>7 DEF SInv

(* A recovery takes over the journal.                                      *)
LEMMA ShelteredRecover ==
    ASSUME IInv, AttachInv, SInv, Confined, NEW p \in Processes, NEW w \in Workspaces, NEW cmd \in {"recover", "abort"},
           Recover(p, w, cmd)
    PROVE  SInv'
  <1>f. objects' = objects /\ txn' = txn /\ index' = index /\ version' = version /\ head' = head /\ refs' = refs /\ refused' = refused
    BY DEF Recover, metadata
  <1>p. /\ proc'[p].cmd = cmd /\ proc'[p].ws = w /\ proc'[p].locks = {"exclusive", "write"}
        /\ \A q \in Processes \ {p} : proc'[q] = proc[q]
    BY DEF Recover, Start, Idle, metadata, IInv, TypeProc, Process
  <1>i. proc[p].cmd = "none"
    BY IdleNone DEF Recover
  <1>1. ObjectLockInv'
    BY <1>f, <1>p, <1>i DEF SInv, ObjectLockInv
  <1>2. HolderInv'
    BY <1>f, <1>p, <1>i DEF SInv, HolderInv
  <1>3. JournalInv'
    BY <1>f, JournalFrame DEF SInv
  <1>4. AddedInv'
    BY <1>f, <1>p, <1>i DEF SInv, AddedInv
  <1>5. MarkedInv'
    BY <1>f, <1>p, <1>i DEF SInv, MarkedInv
  <1>6. IndexBacked'
    BY <1>f DEF SInv, IndexBacked
  <1>7. RecoveryNotRefused'
    BY <1>f DEF SInv, RecoveryNotRefused
  <1>. QED BY <1>1, <1>2, <1>3, <1>4, <1>5, <1>6, <1>7 DEF SInv

(* HEAD can be put back, so recovery is not refused.                       *)
LEMMA ShelteredRollbackHead ==
    ASSUME IInv, AttachInv, SInv, Confined, NEW p \in Processes, RollbackHead(p)
    PROVE  SInv'
  <1>w. /\ proc[p].ws \in Workspaces /\ txn[proc[p].ws] # None /\ "write" \in proc[p].locks
        /\ \A w \in Workspaces : txn[w] # None => w = proc[p].ws
        /\ proc[p].cmd \in {"recover", "abort"}
    BY OwnJournal DEF RollbackHead, At, SInv, IInv, LockInv, TypeProc, Process
  <1>m. /\ head' = [head EXCEPT ![proc[p].ws] = txn[proc[p].ws].headBefore]
        /\ Goto(p, "rb_index") /\ refused' = refused
    <2>1. /\ HeadMoves(proc[p].ws, txn[proc[p].ws].headBefore, txn[proc[p].ws].headAfter)
          /\ HeadMoves(proc[p].ws, txn[proc[p].ws].headAfter, txn[proc[p].ws].headBefore)
      BY <1>w DEF SInv, JournalInv, HeadMoves
    <2>. QED BY <1>w, <2>1 DEF RollbackHead, SInv, JournalInv
  <1>f. objects' = objects /\ txn' = txn /\ index' = index /\ version' = version /\ refs' = refs
    BY DEF RollbackHead
  <1>p. /\ proc'[p].cmd = proc[p].cmd /\ proc'[p].ws = proc[p].ws /\ proc'[p].locks = proc[p].locks
        /\ \A q \in Processes \ {p} : proc'[q] = proc[q]
    BY <1>m DEF RollbackHead, Goto, IInv, TypeProc, Process
  <1>1. ObjectLockInv'
    BY <1>f, <1>w, <1>m, <1>p DEF SInv, ObjectLockInv
  <1>2. HolderInv'
    BY <1>f, <1>w, <1>m, <1>p DEF SInv, HolderInv
  <1>3. JournalInv'
    BY <1>f, <1>w, <1>m, <1>p DEF SInv, JournalInv, Resolve, Available
  <1>4. AddedInv'
    BY <1>f, <1>w, <1>m, <1>p DEF SInv, AddedInv
  <1>5. MarkedInv'
    BY <1>f, <1>w, <1>m, <1>p DEF SInv, MarkedInv
  <1>6. IndexBacked'
    BY <1>f DEF SInv, IndexBacked
  <1>7. RecoveryNotRefused'
    BY <1>m DEF SInv, RecoveryNotRefused
  <1>. QED BY <1>1, <1>2, <1>3, <1>4, <1>5, <1>6, <1>7 DEF SInv

(* The Index recovery puts back is still stored.                           *)
LEMMA ShelteredRollbackIndex ==
    ASSUME IInv, AttachInv, SInv, Confined, NEW p \in Processes, RollbackIndex(p)
    PROVE  SInv'
  <1>w. /\ proc[p].ws \in Workspaces /\ txn[proc[p].ws] # None /\ "write" \in proc[p].locks
        /\ \A w \in Workspaces : txn[w] # None => w = proc[p].ws
        /\ proc[p].cmd \in {"recover", "abort"}
    BY OwnJournal DEF RollbackIndex, At, SInv, IInv, LockInv, TypeProc, Process
  <1>f. objects' = objects /\ head' = head /\ refs' = refs /\ refused' = refused
    BY DEF RollbackIndex
  <1>p. /\ proc'[p].locks \subseteq proc[p].locks
        /\ \/ proc'[p].cmd = "none" /\ proc'[p].locks = {} /\ proc'[p].pc = "idle" /\ txn' = [txn EXCEPT ![proc[p].ws] = None]
           \/ /\ proc'[p].cmd = "recover" /\ proc'[p].ws = proc[p].ws
              /\ txn' = txn
        /\ \A q \in Processes \ {p} : proc'[q] = proc[q]
    BY DEF RollbackIndex, Goto, End, Idle, IInv, TypeProc, Process
  <1>1. ObjectLockInv'
    BY <1>f, <1>w, <1>p DEF SInv, ObjectLockInv
  <1>2. HolderInv'
    <2>1. CASE txn' = [txn EXCEPT ![proc[p].ws] = None] /\ proc'[p].cmd = "none"
      <3>1. \A v \in Workspaces : txn'[v] = IF v = proc[p].ws THEN None ELSE txn[v]
        BY <2>1 DEF IInv, TypeTxn
      <3>2. \A q \in Processes : proc[q].ws \in Workspaces
        BY DEF IInv, TypeProc, Process
      <3>. QED BY <1>w, <1>p, <2>1, <3>1, <3>2 DEF SInv, HolderInv
    <2>2. CASE txn' = txn /\ proc'[p].cmd = "recover" /\ proc'[p].ws = proc[p].ws
      BY <1>w, <1>p, <2>2 DEF SInv, HolderInv
    <2>. QED BY <1>p, <2>1, <2>2
  <1>3. JournalInv'
    <2>1. \A v \in Workspaces : txn'[v] # None => txn'[v] = txn[v]
      BY <1>w, <1>p DEF IInv, TypeTxn
    <2>. QED BY <1>f, <2>1 DEF SInv, JournalInv, Resolve, Available
  <1>4. AddedInv'
    BY <1>f, <1>w, <1>p DEF SInv, AddedInv
  <1>5. MarkedInv'
    <2>1. \A q \in Processes : proc[q].cmd # "gc"
      BY <1>w DEF IInv, LockInv, MutexInv
    <2>. QED BY <1>p, <2>1 DEF MarkedInv
  <1>6. IndexBacked'
    <2>1. txn[proc[p].ws].before \subseteq objects
      BY <1>w DEF SInv, JournalInv
    <2>2. index' = [index EXCEPT ![proc[p].ws] = txn[proc[p].ws].before]
      BY DEF RollbackIndex, WriteIndex
    <2>. QED BY <1>f, <1>w, <1>p, <2>1, <2>2 DEF SInv, IndexBacked, IInv, TypeStore
  <1>7. RecoveryNotRefused'
    BY <1>f DEF SInv, RecoveryNotRefused
  <1>. QED BY <1>1, <1>2, <1>3, <1>4, <1>5, <1>6, <1>7 DEF SInv

(* A process that dies leaves its journal behind: there is only one        *)
(* workspace then.                                                         *)
LEMMA ShelteredCrash ==
    ASSUME IInv, AttachInv, SInv, Confined, NEW p \in Processes, Crash(p)
    PROVE  SInv'
  <1>w. \A v, w \in Workspaces : v = w
    BY CrashMeansSingle
  <1>f. objects' = objects /\ txn' = txn /\ index' = index /\ version' = version /\ head' = head /\ refs' = refs /\ refused' = refused
    BY DEF Crash, metadata
  <1>p. /\ proc'[p].cmd = "none" /\ proc'[p].locks = {} /\ proc'[p].pc = "idle"
        /\ \A q \in Processes \ {p} : proc'[q] = proc[q]
    BY DEF Crash, End, Idle, metadata, IInv, TypeProc, Process
  <1>1. ObjectLockInv'
    BY <1>f, <1>w, <1>p DEF SInv, ObjectLockInv
  <1>2. HolderInv'
    BY <1>f, <1>w, <1>p DEF SInv, HolderInv
  <1>3. JournalInv'
    BY <1>f, JournalFrame DEF SInv
  <1>4. AddedInv'
    BY <1>f, <1>w, <1>p DEF SInv, AddedInv
  <1>5. MarkedInv'
    BY <1>f, <1>w, <1>p DEF SInv, MarkedInv
  <1>6. IndexBacked'
    BY <1>f DEF SInv, IndexBacked
  <1>7. RecoveryNotRefused'
    BY <1>f DEF SInv, RecoveryNotRefused
  <1>. QED BY <1>1, <1>2, <1>3, <1>4, <1>5, <1>6, <1>7 DEF SInv

(* The second layer is kept by every step of a confined repository.        *)
LEMMA NextSInv ==
    ASSUME IInv, AttachInv, SInv, Confined, [Next]_vars
    PROVE  SInv'
  <1>1. CASE UNCHANGED vars
    <2>1. UNCHANGED <<objects, index, refs, head, txn, proc, refused>>
      BY <1>1 DEF vars
    <2>2. JournalInv'
      BY <2>1, JournalFrame DEF SInv
    <2>. QED BY <2>1, <2>2 DEF SInv, ObjectLockInv, HolderInv, AddedInv, MarkedInv,
          IndexBacked, RecoveryNotRefused
  <1>2. CASE \E w \in Workspaces, S \in SUBSET Objects : RestoreStaged(w, S)
    BY <1>2, ShelteredRestoreStaged
  <1>3. ASSUME NEW p \in Processes, NEW w \in Workspaces,
               \/ \E cmd \in {"add", "add_all"} : AddBegin(p, w, cmd)
               \/ CommitBegin(p, w) \/ GcBegin(p, w)
               \/ \E h \in Heads, force \in BOOLEAN : CheckoutBegin(p, w, h, force)
               \/ \E cmd \in {"recover", "abort"} : Recover(p, w, cmd)
        PROVE  SInv'
    BY <1>3, ShelteredAddBegin, ShelteredCommitBegin, ShelteredGcBegin,
       ShelteredCheckoutBegin, ShelteredRecover
  <1>4. ASSUME NEW p \in Processes, NEW o \in Objects, AddObject(p, o) \/ GcSweep(p, o)
        PROVE  SInv'
    BY <1>4, ShelteredAddObject, ShelteredGcSweep
  <1>5. ASSUME NEW p \in Processes,
               AddIndex(p) \/ AddUnpublished(p) \/ CommitStore(p) \/ AdvanceHead(p) \/ GcEnd(p)
        PROVE  SInv'
    BY <1>5, ShelteredAddIndex, ShelteredAddUnpublished, ShelteredCommitStore,
       ShelteredAdvanceHead, ShelteredGcEnd
  <1>6. ASSUME NEW p \in Processes,
               \/ CheckoutIndex(p) \/ CheckoutHead(p) \/ CheckoutFinish(p) \/ CheckoutFail(p)
               \/ RollbackHead(p) \/ RollbackIndex(p) \/ Crash(p)
        PROVE  SInv'
    BY <1>6, ShelteredCheckoutIndex, ShelteredCheckoutHead, ShelteredCheckoutFinish,
       ShelteredCheckoutFail, ShelteredRollbackHead, ShelteredRollbackIndex, ShelteredCrash
  <1>. QED BY <1>1, <1>2, <1>3, <1>4, <1>5, <1>6 DEF Next

-----------------------------------------------------------------------------
(* Moving one HEAD to where it is, to a Commit or to a free branch keeps   *)
(* every branch in one workspace.                                          *)
LEMMA AttachMove ==
    ASSUME IInv, AttachInv, NEW x \in Workspaces, NEW h, h = head[x] \/ Available(h, x),
           head' = [head EXCEPT ![x] = h]
    PROVE  AttachInv'
  <1>1. \A v \in Workspaces : head'[v] = IF v = x THEN h ELSE head[v]
    BY DEF IInv, TypeHeads
  <1>. QED BY <1>1 DEF AttachInv, Available

(* No step attaches a branch twice.                                        *)
LEMMA NextAttach ==
    ASSUME IInv, AttachInv, [Next]_vars
    PROVE  AttachInv'
  <1>1. ASSUME head' = head PROVE AttachInv'
    BY <1>1 DEF AttachInv, Available
  <1>2. CASE UNCHANGED vars
    BY <1>1, <1>2 DEF vars
  <1>. USE DEF metadata
  <1>3. CASE \E w \in Workspaces, S \in SUBSET Objects : RestoreStaged(w, S)
    BY <1>1, <1>3 DEF RestoreStaged
  <1>4. ASSUME NEW p \in Processes, NEW w \in Workspaces,
               \/ \E cmd \in {"add", "add_all"} : AddBegin(p, w, cmd)
               \/ CommitBegin(p, w) \/ GcBegin(p, w)
               \/ \E h \in Heads, force \in BOOLEAN : CheckoutBegin(p, w, h, force)
               \/ \E cmd \in {"recover", "abort"} : Recover(p, w, cmd)
        PROVE  AttachInv'
    BY <1>1, <1>4 DEF AddBegin, CommitBegin, GcBegin, CheckoutBegin, Recover
  <1>5. ASSUME NEW p \in Processes, NEW o \in Objects, AddObject(p, o) \/ GcSweep(p, o)
        PROVE  AttachInv'
    BY <1>1, <1>5 DEF AddObject, GcSweep
  <1>6. ASSUME NEW p \in Processes,
               \/ AddIndex(p) \/ AddUnpublished(p) \/ CommitStore(p) \/ GcEnd(p) \/ CheckoutIndex(p)
               \/ CheckoutFinish(p) \/ CheckoutFail(p) \/ RollbackIndex(p) \/ Crash(p)
        PROVE  AttachInv'
    BY <1>1, <1>6 DEF AddIndex, AddUnpublished, CommitStore, GcEnd, CheckoutIndex,
       CheckoutFinish, CheckoutFail, RollbackIndex, Crash
  <1>7. ASSUME NEW p \in Processes, AdvanceHead(p)
        PROVE  AttachInv'
    <2>1. proc[p].ws \in Workspaces
      BY DEF IInv, TypeProc, Process
    <2>2. Available(Len(commits), proc[p].ws)
      BY ConstantsAssumption
      DEF ConstantsAssumption, Available, IInv, TypeCommits, CommitId
    <2>3. head' = head \/ head' = [head EXCEPT ![proc[p].ws] = Len(commits)]
      BY <1>7 DEF AdvanceHead
    <2>. QED BY <1>1, <2>1, <2>2, <2>3, AttachMove
  <1>8. ASSUME NEW p \in Processes, CheckoutHead(p) \/ RollbackHead(p)
        PROVE  AttachInv'
    <2>1. proc[p].ws \in Workspaces
      BY DEF IInv, TypeProc, Process
    <2>2. \/ head' = head
          \/ \E h : /\ h = head[proc[p].ws] \/ Available(h, proc[p].ws)
                    /\ head' = [head EXCEPT ![proc[p].ws] = h]
      BY <1>8 DEF CheckoutHead, RollbackHead, HeadMoves
    <2>. QED BY <1>1, <2>1, <2>2, AttachMove
  <1>. QED BY <1>2, <1>3, <1>4, <1>5, <1>6, <1>7, <1>8 DEF Next

-----------------------------------------------------------------------------
(* What add has read is still right if no Index changes.                   *)
LEMMA ReadFrame ==
    ASSUME ReadInv, index' = index, version' = version,
           \A q \in Processes : proc'[q].cmd \in {"add", "add_all"} => proc'[q] = proc[q]
    PROVE  ReadInv'
  BY DEF ReadInv

(* If an Index does change, its revision outgrows every revision read.     *)
LEMMA ReadWrite ==
    ASSUME IInv, ReadInv, NEW w \in Workspaces, NEW files, WriteIndex(w, files),
           \A q \in Processes : proc'[q].cmd \in {"add", "add_all"} => proc'[q] = proc[q]
    PROVE  ReadInv'
  <1>. SUFFICES ASSUME NEW q \in Processes, proc'[q].cmd \in {"add", "add_all"}
                PROVE  /\ proc[q].seen <= version'[proc[q].ws]
                       /\ proc[q].seen = version'[proc[q].ws] => proc[q].base = index'[proc[q].ws]
    BY DEF ReadInv
  <1>1. proc[q].ws \in Workspaces /\ proc[q].seen \in 0..MaxVersion
    BY DEF IInv, TypeProc, Process
  <1>2. /\ proc[q].seen <= version[proc[q].ws]
        /\ proc[q].seen = version[proc[q].ws] => proc[q].base = index[proc[q].ws]
    BY DEF ReadInv
  <1>3. \A v \in Workspaces : /\ version'[v] = IF v = w THEN version[w] + 1 ELSE version[v]
                              /\ v # w => index'[v] = index[v]
                              /\ version[v] \in Nat
    BY ConstantsAssumption DEF ConstantsAssumption, WriteIndex, IInv, TypeStore
  <1>. QED BY ConstantsAssumption, <1>1, <1>2, <1>3 DEF ConstantsAssumption

(* Ending or advancing a command starts no add.                            *)
LEMMA NoNewAdd ==
    ASSUME IInv, NEW p \in Processes,
           \/ End(p)
           \/ (\E pc \in PCs : Goto(p, pc)) /\ proc[p].cmd \notin {"add", "add_all"}
    PROVE  \A q \in Processes : proc'[q].cmd \in {"add", "add_all"} => proc'[q] = proc[q]
  BY DEF IInv, TypeProc, Process, End, Goto, Idle

(* A read Index stays right until its revision changes.                    *)
LEMMA NextRead ==
    ASSUME IInv, ReadInv, [Next]_vars
    PROVE  ReadInv'
  <1>1. CASE UNCHANGED vars
    BY <1>1, ReadFrame DEF vars
  <1>2. ASSUME NEW w \in Workspaces, NEW S \in SUBSET Objects, RestoreStaged(w, S)
        PROVE  ReadInv'
    BY <1>2, ReadWrite DEF RestoreStaged
  <1>. USE DEF metadata
  <1>3. ASSUME NEW p \in Processes, NEW w \in Workspaces, NEW cmd \in {"add", "add_all"},
               AddBegin(p, w, cmd)
        PROVE  ReadInv'
    <2>1. /\ proc'[p].ws = w /\ proc'[p].seen = version[w] /\ proc'[p].base = index[w]
          /\ \A q \in Processes \ {p} : proc'[q] = proc[q]
      BY <1>3 DEF AddBegin, Start, Idle, IInv, TypeProc, Process
    <2>2. version' = version /\ index' = index /\ version[w] \in Nat
      BY <1>3, ConstantsAssumption DEF ConstantsAssumption, AddBegin, IInv, TypeStore
    <2>. QED BY <2>1, <2>2 DEF ReadInv
  <1>4. ASSUME NEW p \in Processes, NEW w \in Workspaces,
               \/ CommitBegin(p, w) \/ GcBegin(p, w)
               \/ \E h \in Heads, force \in BOOLEAN : CheckoutBegin(p, w, h, force)
               \/ \E cmd \in {"recover", "abort"} : Recover(p, w, cmd)
        PROVE  ReadInv'
    <2>1. \A q \in Processes : proc'[q].cmd \in {"add", "add_all"} => proc'[q] = proc[q]
      <3>1. ASSUME NEW cmd \in {"commit", "checkout", "recover", "abort"}, NEW pc, NEW locks,
                   Start(p, cmd, pc, w, locks)
            PROVE  proc'[p].cmd = cmd /\ \A q \in Processes \ {p} : proc'[q] = proc[q]
        BY <3>1 DEF Start, Idle, IInv, TypeProc, Process
      <3>2. CASE GcBegin(p, w)
        BY <3>2 DEF GcBegin, Idle, IInv, TypeProc, Process
      <3>3. CASE CommitBegin(p, w)
        BY <3>1, <3>3 DEF CommitBegin
      <3>4. CASE \E h \in Heads, force \in BOOLEAN : CheckoutBegin(p, w, h, force)
        BY <3>1, <3>4 DEF CheckoutBegin
      <3>5. CASE \E cmd \in {"recover", "abort"} : Recover(p, w, cmd)
        BY <3>1, <3>5 DEF Recover
      <3>. QED BY <1>4, <3>2, <3>3, <3>4, <3>5
    <2>2. version' = version /\ index' = index
      BY <1>4 DEF CommitBegin, GcBegin, CheckoutBegin, Recover
    <2>. QED BY <2>1, <2>2, ReadFrame
  <1>5. ASSUME NEW p \in Processes, NEW o \in Objects, AddObject(p, o)
        PROVE  ReadInv'
    <2>1. /\ proc'[p].ws = proc[p].ws /\ proc'[p].cmd = proc[p].cmd
          /\ proc'[p].seen = proc[p].seen /\ proc'[p].base = proc[p].base
          /\ \A q \in Processes \ {p} : proc'[q] = proc[q]
      BY <1>5 DEF AddObject, IInv, TypeProc, Process
    <2>2. version' = version /\ index' = index
      BY <1>5 DEF AddObject
    <2>. QED BY <2>1, <2>2 DEF ReadInv
  <1>6. ASSUME NEW p \in Processes, NEW o \in Objects, GcSweep(p, o)
        PROVE  ReadInv'
    BY <1>6, ReadFrame DEF GcSweep
  <1>7. ASSUME NEW p \in Processes, AddIndex(p) \/ CheckoutIndex(p) \/ RollbackIndex(p)
        PROVE  ReadInv'
    <2>1. proc[p].ws \in Workspaces
      BY DEF IInv, TypeProc, Process
    <2>2. \E files : WriteIndex(proc[p].ws, files)
      BY <1>7, Zenon DEF AddIndex, CheckoutIndex, RollbackIndex
    <2>3. \A q \in Processes : proc'[q].cmd \in {"add", "add_all"} => proc'[q] = proc[q]
      BY <1>7, NoNewAdd DEF AddIndex, CheckoutIndex, RollbackIndex, At, PCs
    <2>. QED BY <2>1, <2>2, <2>3, ReadWrite
  <1>8. ASSUME NEW p \in Processes,
               \/ AddUnpublished(p) \/ CommitStore(p) \/ AdvanceHead(p) \/ GcEnd(p) \/ CheckoutHead(p)
               \/ CheckoutFinish(p) \/ RollbackHead(p) \/ Crash(p)
        PROVE  ReadInv'
    <2>1. \A q \in Processes : proc'[q].cmd \in {"add", "add_all"} => proc'[q] = proc[q]
      BY <1>8, NoNewAdd DEF AddUnpublished, CommitStore, AdvanceHead, GcEnd, CheckoutHead,
          CheckoutFinish, RollbackHead, Crash, At, PCs
    <2>2. version' = version /\ index' = index
      BY <1>8 DEF AddUnpublished, CommitStore, AdvanceHead, GcEnd, CheckoutHead, CheckoutFinish,
          RollbackHead, Crash
    <2>. QED BY <2>1, <2>2, ReadFrame
  <1>9. ASSUME NEW p \in Processes, CheckoutFail(p)
        PROVE  ReadInv'
    <2>1. \A q \in Processes : proc'[q].cmd \in {"add", "add_all"} => proc'[q] = proc[q]
      BY <1>9 DEF CheckoutFail, IInv, TypeProc, Process
    <2>. QED BY <1>9, <2>1, ReadFrame DEF CheckoutFail
  <1>. QED BY <1>1, <1>2, <1>3, <1>4, <1>5, <1>6, <1>7, <1>8, <1>9 DEF Next

-----------------------------------------------------------------------------
(* A branch is attached to one workspace at most, although checkout looks  *)
(* before it writes its journal and moves HEAD long after, perhaps in a    *)
(* recovery (ensure_branch_available, transition_head).                    *)
THEOREM BranchesAttachedOnce == Spec => []AttachInv
  <1>1. Init => AttachInv
    BY ConstantsAssumption DEF ConstantsAssumption, Init, AttachInv, Available
  <1>2. IInv /\ AttachInv /\ [Next]_vars => AttachInv'
    BY NextAttach
  <1>. QED BY Invariance, <1>1, <1>2, PTL DEF Spec

(* add extends the Index as it is when it writes it: a version that has    *)
(* not moved since the scan shows the Index has not either (update_index). *)
THEOREM AddsKeepOthersWork == Spec => AddKeepsOthersWork
  <1>1. Init => ReadInv
    BY DEF Init, ReadInv, Idle
  <1>2. IInv /\ ReadInv /\ [Next]_vars => ReadInv'
    BY NextRead
  <1>3. ASSUME IInv, ReadInv, [Next]_vars, NEW p \in Processes, proc[p].cmd = "add",
               version'[proc[p].ws] # version[proc[p].ws], proc'[p].pc = "idle"
        PROVE  index'[proc[p].ws] = index[proc[p].ws] \cup proc[p].data
    <2>1. proc[p].pc = "publish"
      BY <1>3 DEF IInv, LockInv
    <2>2. CASE AddIndex(p)
      <3>1. proc[p].base = index[proc[p].ws] /\ proc[p].ws \in Workspaces
        BY <1>3, <2>2 DEF AddIndex, VersionMatches, ReadInv, IInv, TypeProc, Process
      <3>2. index' = [index EXCEPT ![proc[p].ws] = proc[p].base \cup proc[p].data]
        BY <1>3, <2>2 DEF AddIndex, WriteIndex
      <3>. QED BY <1>3, <3>1, <3>2 DEF IInv, TypeStore
    <2>. USE DEF metadata
    <2>4. CASE UNCHANGED vars
      BY <1>3, <2>4 DEF vars
    <2>5. CASE \E w \in Workspaces, S \in SUBSET Objects : RestoreStaged(w, S)
      BY <1>3, <2>1, <2>5 DEF RestoreStaged
    <2>6. ASSUME NEW q \in Processes, NEW w \in Workspaces,
                 \/ \E cmd \in {"add", "add_all"} : AddBegin(q, w, cmd)
                 \/ CommitBegin(q, w) \/ GcBegin(q, w)
                 \/ \E h \in Heads, force \in BOOLEAN : CheckoutBegin(q, w, h, force)
                 \/ \E cmd \in {"recover", "abort"} : Recover(q, w, cmd)
          PROVE  FALSE
      BY <1>3, <2>6 DEF AddBegin, CommitBegin, GcBegin, CheckoutBegin, Recover
    <2>7. ASSUME NEW q \in Processes, NEW o \in Objects, AddObject(q, o) \/ GcSweep(q, o)
          PROVE  FALSE
      BY <1>3, <2>7 DEF AddObject, GcSweep
    <2>8. ASSUME NEW q \in Processes,
                 \/ AddUnpublished(q) \/ CommitStore(q) \/ AdvanceHead(q) \/ GcEnd(q) \/ CheckoutHead(q)
                 \/ CheckoutFinish(q) \/ CheckoutFail(q) \/ RollbackHead(q) \/ Crash(q)
          PROVE  FALSE
      BY <1>3, <2>8 DEF AddUnpublished, CommitStore, AdvanceHead, GcEnd, CheckoutHead,
          CheckoutFinish, CheckoutFail, RollbackHead, Crash
    <2>9. ASSUME NEW q \in Processes, q # p,
                 AddIndex(q) \/ CheckoutIndex(q) \/ RollbackIndex(q)
          PROVE  FALSE
      <3>1. proc'[p] = proc[p]
        BY <1>3, <2>9 DEF AddIndex, CheckoutIndex, RollbackIndex, End, Goto, IInv, TypeProc
      <3>. QED BY <1>3, <2>1, <3>1
    <2>10. ~CheckoutIndex(p) /\ ~RollbackIndex(p)
      BY <1>3 DEF CheckoutIndex, RollbackIndex, At
    <2>. QED BY <1>3, <2>2, <2>4, <2>5, <2>6, <2>7, <2>8, <2>9, <2>10 DEF Next
  <1>4. IInv /\ ReadInv /\ [Next]_vars =>
          [\A p \in Processes : proc[p].cmd = "add" /\ version'[proc[p].ws] # version[proc[p].ws]
               /\ proc'[p].pc = "idle"
             => index'[proc[p].ws] = index[proc[p].ws] \cup proc[p].data]_vars
    BY <1>3
  <1>. QED BY Invariance, <1>1, <1>2, <1>4, PTL DEF Spec, AddKeepsOthersWork

(* The second layer holds throughout in a confined repository.             *)
THEOREM Shelter ==
    ASSUME Confined
    PROVE  Spec => []SInv
  <1>1. Init => SInv
    <2>. SUFFICES ASSUME Init PROVE SInv
      OBVIOUS
    <2>1. \A p \in Processes : proc[p].cmd = "none" /\ proc[p].locks = {}
      BY DEF Init, Idle
    <2>2. /\ \A w \in Workspaces : txn[w] = None /\ index[w] \subseteq objects
          /\ ~refused
      BY DEF Init
    <2>. QED BY <2>1, <2>2 DEF SInv, ObjectLockInv, HolderInv, JournalInv, AddedInv,
          MarkedInv, IndexBacked, RecoveryNotRefused
  <1>2. IInv /\ AttachInv /\ SInv /\ [Next]_vars => SInv'
    BY Confined, NextSInv
  <1>. QED BY Invariance, BranchesAttachedOnce, <1>1, <1>2, PTL DEF Spec

(* Neither gc nor a recovery ever leaves an Index that refers to a removed *)
(* object, in a repository with one workspace whatever crashes, and in any *)
(* repository as long as no process dies (mark_referenced_chunks,          *)
(* CheckoutTransaction::rollback).                                         *)
THEOREM IndexesStayBacked ==
    ASSUME Confined
    PROVE  Spec => []IndexBacked
  <1>1. SInv => IndexBacked
    BY DEF SInv
  <1>. QED BY Shelter, Confined, <1>1, PTL

(* Under the same condition no recovery is refused because HEAD or its     *)
(* branch has moved since the journal was written.                         *)
THEOREM RecoveryIsNotRefused ==
    ASSUME Confined
    PROVE  Spec => []RecoveryNotRefused
  <1>1. SInv => RecoveryNotRefused
    BY DEF SInv
  <1>. QED BY Shelter, Confined, <1>1, PTL
=============================================================================
