---------------------- MODULE WorkspaceCommit_proofs ----------------------
(***************************************************************************)
(* Commits of a Workspace are safe for any number of Pre-commit sessions,  *)
(* requests and attempts and every bound on crashes and Index revisions.   *)
(* CandidateIsOwnScan and PublishedStays are not inductive alone: the      *)
(* first needs that the Job of a ready session has ended (ScanInv), the    *)
(* second that whoever publishes a Commit holds the stored one and that    *)
(* what was found in the history of the Head stays there (WorkInv).        *)
(***************************************************************************)
EXTENDS WorkspaceCommit, TLAPS

PreCommitRecord ==
    [state : Active \cup {"none", "Cancelled", "Committed"},
     phase : {"idle", "queued", "scanning"}, attempt : Nat, source : Versions,
     frozen : Nat, candidate : Versions \cup {None}, commit : Nat \cup {None},
     acked : BOOLEAN, job : (PreCommits \X Nat) \cup {None}]

CommitRecord == [parent : Nat, tree : Versions]

JobRecord ==
    [base : Versions, state : {"queued", "running", "succeeded", "failed"},
     version : Versions \cup {None}]

BeginRecord == [pre : PreCommits, head : Nat, source : Versions, attempt : Nat]

Points == {"store", "place", "observe", "advance", "recheck", "ack"}
WorkRecord == [pre : PreCommits, at : Points, commit : CommitRecord]

(* The types of the variables.                                             *)
TypeStore == index \in Versions /\ head \in Nat /\ placed \subseteq Stored
TypeCommits == commits \in Seq(CommitRecord)
TypePre == pre \in [PreCommits -> PreCommitRecord]
TypeJobs == jobs \in [DOMAIN jobs -> JobRecord]
TypeBegin == begin \in [Requests -> BeginRecord \cup {None}]
TypeWork == work \in [Workers -> WorkRecord \cup {None}]

(* Commits refer to older Commits; whatever names a Commit names a stored  *)
(* one.                                                                    *)
RefInv ==
    /\ head \in 0 .. Len(commits)
    /\ \A c \in Stored : commits[c].parent \in 0 .. (c - 1)
    /\ \A p \in PreCommits : pre[p].frozen \in 0 .. Len(commits)
    /\ \A r \in Requests : begin[r] # None => begin[r].head \in 0 .. Len(commits)
    /\ \A w \in Workers : work[w] # None => work[w].commit.parent \in 0 .. Len(commits)

(* The shape of a Pre-commit in each of its states.                        *)
ShapeInv ==
    \A p \in PreCommits :
        /\ pre[p].attempt \in 0 .. MaxAttempts[p]
        /\ (pre[p].candidate # None) = (pre[p].state \in {"Ready", "Committed"})
        /\ pre[p].commit \in Stored \cup {None}
        /\ (pre[p].commit # None) = (pre[p].state = "Committed")
        /\ (pre[p].phase = "idle") = (pre[p].state # "Running")
        /\ pre[p].acked => pre[p].state = "Committed"

ActiveInv ==
    \A p, q \in PreCommits : {pre[p].state, pre[q].state} \subseteq Active => p = q

(* The Job of a ready session has ended, so nothing changes it any more.   *)
ScanInv ==
    \A p \in PreCommits :
        pre[p].state \in {"Ready", "Committed"} =>
            /\ pre[p].job \in DOMAIN jobs
            /\ jobs[pre[p].job].state = "succeeded"
            /\ jobs[pre[p].job].version = pre[p].candidate
            /\ jobs[pre[p].job].base = pre[p].source
            /\ pre[p].state = "Committed" => commits[pre[p].commit].tree = pre[p].candidate

(* The Commits the Head contains.                                          *)
Published == History(head)

(* Past its transaction, a worker holds the Commit that was stored; at     *)
(* "ack" the Head contains it.                                             *)
WorkInv ==
    /\ work["coordinator"] # None => work["coordinator"].at # "store"
    /\ \A w \in Workers : work[w] # None /\ work[w].at # "store" =>
        /\ pre[work[w].pre].state = "Committed"
        /\ commits[pre[work[w].pre].commit] = work[w].commit
        /\ work[w].at = "ack" => pre[work[w].pre].commit \in Published

AckInv == \A p \in PreCommits : pre[p].acked => pre[p].commit \in Published

IInv == /\ TypeStore /\ TypeCommits /\ TypePre /\ TypeJobs /\ TypeBegin /\ TypeWork
        /\ RefInv /\ ShapeInv /\ ActiveInv /\ ScanInv /\ WorkInv /\ AckInv

-----------------------------------------------------------------------------
(* A Commit is in its own history, and so is the history of its parent.    *)
LEMMA HistoryOfChild ==
  ASSUME NEW c \in Stored
  PROVE  c \in History(c) /\ History(commits[c].parent) \subseteq History(c)
  BY DEF History, Closed, Stored

(* Storing a Commit takes nothing out of a history.                        *)
LEMMA HistoryGrows ==
  ASSUME TypeCommits, RefInv, NEW c \in CommitRecord, commits' = Append(commits, c),
         NEW h \in 0 .. Len(commits), NEW d \in History(h)
  PROVE  d \in History(h)'
  <1>1. Len(commits) \in Nat /\ Len(commits') = Len(commits) + 1
        /\ \A k \in 1 .. Len(commits) : commits'[k] = commits[k]
    BY DEF TypeCommits
  <1>2. ASSUME NEW S \in SUBSET Stored', Closed(S)', h \in S \cup {0}
        PROVE  d \in S
    <2>1. S \cap Stored \in SUBSET Stored /\ h \in (S \cap Stored) \cup {0}
      BY <1>1, <1>2 DEF Stored
    <2>2. Closed(S \cap Stored)
      BY <1>1, <1>2 DEF Closed, Stored, RefInv
    <2>. QED BY <2>1, <2>2 DEF History
  <1>. QED BY <1>1, <1>2 DEF History, Stored

(* The Commits the Head contains change only with the Head or the Commits. *)
LEMMA PublishedKept == UNCHANGED <<head, commits>> => Published' = Published
  BY DEF Published, History, Closed, Stored

(* Updates of a Pre-commit record give a Pre-commit record.                *)
LEMMA RecordUpdates ==
  ASSUME NEW r \in PreCommitRecord, NEW i \in Versions, NEW c \in Nat
  PROVE  /\ [r EXCEPT !.state = "Cancelled", !.phase = "idle", !.candidate = None] \in PreCommitRecord
         /\ [r EXCEPT !.state = "Ready", !.phase = "idle", !.candidate = i] \in PreCommitRecord
         /\ [r EXCEPT !.state = "Abnormal", !.phase = "idle"] \in PreCommitRecord
         /\ [r EXCEPT !.phase = "scanning"] \in PreCommitRecord
         /\ [r EXCEPT !.state = "Committed", !.commit = c] \in PreCommitRecord
         /\ [r EXCEPT !.acked = TRUE] \in PreCommitRecord
  <1>1. [r EXCEPT !.state = "Cancelled", !.phase = "idle", !.candidate = None] \in PreCommitRecord
    BY DEF PreCommitRecord, Active
  <1>2. [r EXCEPT !.state = "Ready", !.phase = "idle", !.candidate = i] \in PreCommitRecord
    BY DEF PreCommitRecord, Active
  <1>3. [r EXCEPT !.state = "Abnormal", !.phase = "idle"] \in PreCommitRecord
    BY DEF PreCommitRecord, Active
  <1>4. [r EXCEPT !.phase = "scanning"] \in PreCommitRecord
    BY DEF PreCommitRecord, Active
  <1>5. [r EXCEPT !.state = "Committed", !.commit = c] \in PreCommitRecord
    BY DEF PreCommitRecord, Active
  <1>6. [r EXCEPT !.acked = TRUE] \in PreCommitRecord
    BY DEF PreCommitRecord, Active
  <1>. QED BY <1>1, <1>2, <1>3, <1>4, <1>5, <1>6

(* A committed session names a stored Commit.                              *)
LEMMA LengthIsNat == TypeCommits => Len(commits) \in Nat
  BY DEF TypeCommits

LEMMA CommittedIsStored ==
  ASSUME IInv, NEW p \in PreCommits, pre[p].state = "Committed"
  PROVE  pre[p].commit \in Stored
  BY DEF IInv, ShapeInv

(* The state before the first request satisfies the invariant.             *)
LEMMA InitIInv == Init => IInv
  <1>. SUFFICES ASSUME Init PROVE IInv
    OBVIOUS
  <1>. USE ConstantsAssumption DEF ConstantsAssumption, Init, NoPrecommit
  <1>1. TypeStore /\ TypeCommits
    BY DEF TypeStore, TypeCommits, Versions
  <1>2. TypePre
    BY DEF TypePre, PreCommitRecord, Versions, Active
  <1>3. TypeJobs /\ TypeBegin /\ TypeWork
    BY DEF TypeJobs, TypeBegin, TypeWork, Workers
  <1>4. RefInv /\ ShapeInv /\ ActiveInv
    BY DEF RefInv, ShapeInv, ActiveInv, Stored, Active, Workers
  <1>5. ScanInv /\ WorkInv /\ AckInv
    BY DEF ScanInv, WorkInv, AckInv, Workers
  <1>. QED BY <1>1, <1>2, <1>3, <1>4, <1>5 DEF IInv


(* Every step keeps the invariant, action by action.                       *)
LEMMA NextIInv == IInv /\ [Next]_vars => IInv'
  <1>. SUFFICES ASSUME IInv, [Next]_vars PROVE IInv'
    OBVIOUS
  <1>. USE ConstantsAssumption DEF ConstantsAssumption, IInv
  <1>1. ASSUME NEW r \in Requests, NEW p \in PreCommits, BeginReads(r, p)
        PROVE  IInv'
    <2>1. TypeBegin'
      BY <1>1 DEF BeginReads, records, TypeBegin, BeginRecord, TypeStore, TypePre,
          PreCommitRecord
    <2>2. RefInv'
      BY <1>1 DEF BeginReads, records, RefInv, Stored, TypeBegin, BeginRecord,
          TypePre, PreCommitRecord, TypeWork, WorkRecord, Workers
    <2>3. TypeStore' /\ TypeCommits' /\ TypePre' /\ TypeJobs' /\ TypeWork' /\
        ShapeInv' /\ ActiveInv' /\ ScanInv' /\ WorkInv' /\ AckInv'
      BY <1>1, PublishedKept DEF BeginReads, records, TypeStore, Stored, TypeCommits,
          TypePre, TypeJobs, TypeWork, ShapeInv, ActiveInv, ScanInv, WorkInv, AckInv
    <2>. QED BY <2>1, <2>2, <2>3
  <1>2. ASSUME NEW r \in Requests, BeginStores(r)
        PROVE  IInv'
    <2>1. TypePre'
      <3>1. begin[r] \in BeginRecord
        BY <1>2 DEF BeginStores, TypeBegin
      <3>2. [state |-> "Running", phase |-> "queued", attempt |-> pre[begin[r].pre].attempt + 1,
             source |-> begin[r].source, frozen |-> begin[r].head, candidate |-> None,
             commit |-> None, acked |-> FALSE, job |-> <<begin[r].pre, begin[r].attempt>>]
               \in PreCommitRecord
        BY <3>1 DEF BeginRecord, PreCommitRecord, Active, TypePre
      <3>. QED BY <1>2, <3>2 DEF BeginStores, TypePre
    <2>2. TypeBegin'
      BY <1>2 DEF BeginStores, TypeBegin, BeginRecord, TypeStore, TypePre, PreCommitRecord
    <2>3. RefInv'
      BY <1>2 DEF BeginStores, RefInv, Stored, TypeBegin, BeginRecord, TypePre,
          PreCommitRecord, TypeWork, WorkRecord, Workers
    <2>4. ShapeInv'
      BY <1>2 DEF BeginStores, ShapeInv, Stored, Active, TypePre, PreCommitRecord
    <2>5. ActiveInv'
      BY <1>2 DEF BeginStores, ActiveInv, Active, TypePre, PreCommitRecord
    <2>6. ScanInv'
      BY <1>2 DEF BeginStores, ScanInv, Active, TypePre, PreCommitRecord
    <2>7. WorkInv'
      BY <1>2, PublishedKept DEF BeginStores, WorkInv, Active, TypePre,
          PreCommitRecord, TypeWork, WorkRecord, Workers
    <2>8. AckInv'
      BY <1>2, PublishedKept DEF BeginStores, AckInv, ShapeInv, Active, TypePre,
          PreCommitRecord
    <2>9. TypeStore' /\ TypeCommits' /\ TypeJobs' /\ TypeWork'
      BY <1>2 DEF BeginStores, records, TypeStore, Stored, TypeCommits, TypeJobs, TypeWork
    <2>. QED BY <2>1, <2>2, <2>3, <2>4, <2>5, <2>6, <2>7, <2>8, <2>9
  <1>3. ASSUME NEW p \in PreCommits, CancelPrecommit(p)
        PROVE  IInv'
    <2>1. TypePre'
      <3>1. pre[p] \in PreCommitRecord /\ 0 \in Nat /\ index \in Versions
        BY DEF TypePre, TypeStore
      <3>2. [pre[p] EXCEPT !.state = "Cancelled", !.phase = "idle", !.candidate = None]
               \in PreCommitRecord
        BY <3>1, RecordUpdates
      <3>. QED BY <1>3, <3>2 DEF CancelPrecommit, TypePre
    <2>2. RefInv'
      BY <1>3 DEF CancelPrecommit, RefInv, Stored, TypeBegin, BeginRecord, TypePre,
          PreCommitRecord, TypeWork, WorkRecord, Workers
    <2>3. ShapeInv'
      BY <1>3 DEF CancelPrecommit, ShapeInv, Stored, Active, TypePre, PreCommitRecord
    <2>4. ActiveInv'
      BY <1>3 DEF CancelPrecommit, ActiveInv, Active, TypePre, PreCommitRecord
    <2>5. ScanInv'
      BY <1>3 DEF CancelPrecommit, ScanInv, Active, TypePre, PreCommitRecord
    <2>6. WorkInv'
      BY <1>3, PublishedKept DEF CancelPrecommit, WorkInv, Active, TypePre,
          PreCommitRecord, TypeWork, WorkRecord, Workers
    <2>7. AckInv'
      BY <1>3, PublishedKept DEF CancelPrecommit, AckInv, ShapeInv, Active, TypePre,
          PreCommitRecord
    <2>8. TypeStore' /\ TypeCommits' /\ TypeJobs' /\ TypeBegin' /\ TypeWork'
      BY <1>3 DEF CancelPrecommit, records, TypeStore, Stored, TypeCommits, TypeJobs,
          TypeBegin, TypeWork
    <2>. QED BY <2>1, <2>2, <2>3, <2>4, <2>5, <2>6, <2>7, <2>8
  <1>4. ASSUME NEW p \in PreCommits, EnsureJob(p)
        PROVE  IInv'
    <2>1. TypeJobs'
      <3>1. [base |-> pre[p].source, state |-> "queued", version |-> None] \in JobRecord
        BY DEF JobRecord, TypePre, PreCommitRecord
      <3>. QED BY <1>4, <3>1 DEF EnsureJob, TypeJobs
    <2>2. ScanInv'
      BY <1>4 DEF EnsureJob, records, ScanInv, Active, TypePre, PreCommitRecord
    <2>3. TypeStore' /\ TypeCommits' /\ TypePre' /\ TypeBegin' /\ TypeWork' /\
        RefInv' /\ ShapeInv' /\ ActiveInv' /\ WorkInv' /\ AckInv'
      BY <1>4, PublishedKept DEF EnsureJob, records, TypeStore, Stored, TypeCommits,
          TypePre, TypeBegin, TypeWork, RefInv, ShapeInv, ActiveInv, WorkInv, AckInv
    <2>. QED BY <2>1, <2>2, <2>3
  <1>5. ASSUME NEW j \in DOMAIN jobs, JobRuns(j)
        PROVE  IInv'
    <2>1. TypeJobs'
      BY <1>5 DEF JobRuns, records, TypeJobs, JobRecord, TypePre, PreCommitRecord,
          TypeStore, Versions
    <2>2. ScanInv'
      BY <1>5 DEF JobRuns, records, ScanInv, Active, TypePre, PreCommitRecord
    <2>3. TypeStore' /\ TypeCommits' /\ TypePre' /\ TypeBegin' /\ TypeWork' /\
        RefInv' /\ ShapeInv' /\ ActiveInv' /\ WorkInv' /\ AckInv'
      BY <1>5, PublishedKept DEF JobRuns, records, TypeStore, Stored, TypeCommits,
          TypePre, TypeBegin, TypeWork, RefInv, ShapeInv, ActiveInv, WorkInv, AckInv
    <2>. QED BY <2>1, <2>2, <2>3
  <1>6. ASSUME NEW j \in DOMAIN jobs, JobPublishes(j)
        PROVE  IInv'
    <2>1. TypeStore'
      BY <1>6 DEF JobPublishes, records, TypeStore, Stored, Versions
    <2>2. TypeJobs'
      BY <1>6 DEF JobPublishes, records, TypeJobs, JobRecord, TypePre,
          PreCommitRecord, TypeStore, Versions
    <2>3. ScanInv'
      BY <1>6 DEF JobPublishes, records, ScanInv, Active, TypePre, PreCommitRecord
    <2>4. TypeCommits' /\ TypePre' /\ TypeBegin' /\ TypeWork' /\ RefInv' /\ ShapeInv'
        /\ ActiveInv' /\ WorkInv' /\ AckInv'
      BY <1>6, PublishedKept DEF JobPublishes, records, TypeCommits, TypePre,
          TypeBegin, TypeWork, RefInv, Stored, ShapeInv, ActiveInv, WorkInv, AckInv
    <2>. QED BY <2>1, <2>2, <2>3, <2>4
  <1>7. ASSUME NEW j \in DOMAIN jobs, JobFails(j)
        PROVE  IInv'
    <2>1. TypeJobs'
      BY <1>7 DEF JobFails, records, TypeJobs, JobRecord, TypePre, PreCommitRecord,
          TypeStore, Versions
    <2>2. ScanInv'
      BY <1>7 DEF JobFails, records, ScanInv, Active, TypePre, PreCommitRecord
    <2>3. TypeStore' /\ TypeCommits' /\ TypePre' /\ TypeBegin' /\ TypeWork' /\
        RefInv' /\ ShapeInv' /\ ActiveInv' /\ WorkInv' /\ AckInv'
      BY <1>7, PublishedKept DEF JobFails, records, TypeStore, Stored, TypeCommits,
          TypePre, TypeBegin, TypeWork, RefInv, ShapeInv, ActiveInv, WorkInv, AckInv
    <2>. QED BY <2>1, <2>2, <2>3
  <1>8. ASSUME OtherAddPublishes
        PROVE  IInv'
    <2>1. TypeStore'
      BY <1>8 DEF OtherAddPublishes, records, TypeStore, Stored, Versions
    <2>2. TypeCommits' /\ TypePre' /\ TypeJobs' /\ TypeBegin' /\ TypeWork' /\ RefInv'
        /\ ShapeInv' /\ ActiveInv' /\ ScanInv' /\ WorkInv' /\ AckInv'
      BY <1>8, PublishedKept DEF OtherAddPublishes, records, TypeCommits, TypePre,
          TypeJobs, TypeBegin, TypeWork, RefInv, Stored, ShapeInv, ActiveInv,
              ScanInv, WorkInv, AckInv
    <2>. QED BY <2>1, <2>2
  <1>9. ASSUME NEW p \in PreCommits, SyncJob(p)
        PROVE  IInv'
    <2>a. /\ pre[p] \in PreCommitRecord /\ index \in Versions /\ 0 \in Nat
          /\ pre[p].state = "Running" /\ pre[p].job \in DOMAIN jobs
          /\ jobs[pre[p].job].base = pre[p].source
      BY <1>9 DEF SyncJob, TypePre, TypeStore
    <2>b. PICK n : /\ pre' = [pre EXCEPT ![p] = n]
                   /\ \/ /\ n = [pre[p] EXCEPT !.state = "Ready", !.phase = "idle", !.candidate = index]
                         /\ jobs[pre[p].job].state = "succeeded"
                         /\ jobs[pre[p].job].version = index
                      \/ n = [pre[p] EXCEPT !.state = "Abnormal", !.phase = "idle"]
                      \/ n = [pre[p] EXCEPT !.phase = "scanning"]
      BY <1>9 DEF SyncJob
    <2>1. /\ \A q \in PreCommits \ {p} : pre'[q] = pre[q]
          /\ pre'[p].attempt = pre[p].attempt /\ pre'[p].source = pre[p].source
          /\ pre'[p].frozen = pre[p].frozen /\ pre'[p].commit = pre[p].commit
          /\ pre'[p].acked = pre[p].acked /\ pre'[p].job = pre[p].job
      <3>1. pre'[p] = n /\ \A q \in PreCommits \ {p} : pre'[q] = pre[q]
        BY <2>b DEF TypePre
      <3>2. /\ n.attempt = pre[p].attempt /\ n.source = pre[p].source
            /\ n.frozen = pre[p].frozen /\ n.commit = pre[p].commit
            /\ n.acked = pre[p].acked /\ n.job = pre[p].job
        BY <2>a, <2>b DEF PreCommitRecord
      <3>. QED BY <3>1, <3>2
    <2>2. \/ /\ pre'[p].state = "Ready" /\ pre'[p].phase = "idle"
             /\ pre'[p].candidate = index
             /\ jobs[pre[p].job].state = "succeeded" /\ jobs[pre[p].job].version = index
          \/ /\ pre'[p].state = "Abnormal" /\ pre'[p].phase = "idle"
             /\ pre'[p].candidate = pre[p].candidate
          \/ /\ pre'[p].state = "Running" /\ pre'[p].phase = "scanning"
             /\ pre'[p].candidate = pre[p].candidate
      BY <2>a, <2>b DEF TypePre, PreCommitRecord
    <2>3. UNCHANGED <<index, head, placed, commits, jobs, begin, work>>
      BY <1>9 DEF SyncJob
    <2>4. TypePre'
      <3>1. n \in PreCommitRecord
        BY <2>a, <2>b, RecordUpdates
      <3>. QED BY <2>b, <3>1 DEF TypePre
    <2>5. RefInv'
      BY <2>1, <2>3 DEF RefInv, Stored
    <2>6. ShapeInv'
      <3>1. index # None
        BY DEF TypeStore, Versions
      <3>. QED BY <2>a, <2>1, <2>2, <2>3, <3>1 DEF ShapeInv, Stored
    <2>7. ActiveInv'
      BY <2>a, <2>1, <2>2 DEF ActiveInv, Active
    <2>8. ScanInv'
      BY <2>a, <2>1, <2>2, <2>3 DEF ScanInv
    <2>9. WorkInv'
      BY <2>a, <2>1, <2>2, <2>3, PublishedKept DEF WorkInv, TypeWork, WorkRecord
    <2>10. AckInv'
      BY <2>a, <2>1, <2>2, <2>3, PublishedKept DEF AckInv
    <2>11. TypeStore' /\ TypeCommits' /\ TypeJobs' /\ TypeBegin' /\ TypeWork'
      BY <2>3 DEF TypeStore, Stored, TypeCommits, TypeJobs, TypeBegin, TypeWork
    <2>. QED BY <2>4, <2>5, <2>6, <2>7, <2>8, <2>9, <2>10, <2>11
  <1>10. ASSUME NEW p \in PreCommits, CommitBegins(p)
        PROVE  IInv'
    <2>1. TypeWork'
      <3>1. ASSUME pre[p].state = "Ready"
            PROVE  [pre |-> p, at |-> "store",
                    commit |-> [parent |-> pre[p].frozen, tree |-> pre[p].candidate]] \in WorkRecord
        <4>1. pre[p].frozen \in Nat /\ pre[p].candidate \in Versions
          BY <3>1 DEF ShapeInv, TypePre, PreCommitRecord
        <4>. QED BY <4>1 DEF WorkRecord, CommitRecord, Points
      <3>2. ASSUME pre[p].state = "Committed"
            PROVE  [pre |-> p, at |-> "place", commit |-> commits[pre[p].commit]] \in WorkRecord
        <4>1. commits[pre[p].commit] \in CommitRecord
          BY <3>2, CommittedIsStored DEF TypeCommits, Stored
        <4>. QED BY <4>1 DEF WorkRecord, Points
      <3>. QED BY <1>10, <3>1, <3>2 DEF CommitBegins, TypeWork, Workers
    <2>2. RefInv'
      <3>1. pre[p].state = "Committed" => commits[pre[p].commit].parent \in 0 .. Len(commits)
        BY CommittedIsStored, LengthIsNat DEF RefInv, Stored
      <3>. QED BY <1>10, <3>1 DEF CommitBegins, records, RefInv, Stored, TypeWork, Workers
    <2>3. WorkInv'
      BY <1>10, PublishedKept DEF CommitBegins, records, WorkInv, Active, TypePre,
          PreCommitRecord, TypeWork, WorkRecord, Workers
    <2>4. TypeStore' /\ TypeCommits' /\ TypePre' /\ TypeJobs' /\ TypeBegin' /\
        ShapeInv' /\ ActiveInv' /\ ScanInv' /\ AckInv'
      BY <1>10, PublishedKept DEF CommitBegins, records, TypeStore, Stored,
          TypeCommits, TypePre, TypeJobs, TypeBegin, ShapeInv, ActiveInv, ScanInv, AckInv
    <2>. QED BY <2>1, <2>2, <2>3, <2>4
  <1>11. ASSUME CommitStores
        PROVE  IInv'
    <2>. DEFINE p == work["request"].pre
                c == work["request"].commit
    <2>1. work["request"] \in WorkRecord /\ p \in PreCommits /\ c \in CommitRecord
          /\ c.parent \in 0 .. Len(commits) /\ Len(commits) \in Nat
      BY <1>11, LengthIsNat DEF CommitStores, TypeWork, WorkRecord, Workers, RefInv
    <2>2. CASE ~(pre[p].state = "Ready" /\ pre[p].candidate = c.tree /\ pre[p].frozen = c.parent)
      <3>1. work' = [work EXCEPT !["request"] = None] /\ UNCHANGED <<index, head, placed, commits, pre, jobs, begin>>
        BY <1>11, <2>2 DEF CommitStores, Done, records
      <3>2. TypeWork' /\ RefInv' /\ WorkInv'
        BY <3>1, PublishedKept DEF TypeWork, RefInv, WorkInv, Workers, Stored
      <3>3. TypeStore' /\ TypeCommits' /\ TypePre' /\ TypeJobs' /\ TypeBegin'
            /\ ShapeInv' /\ ActiveInv' /\ ScanInv' /\ AckInv'
        BY <3>1, PublishedKept DEF TypeStore, TypeCommits, TypePre, TypeJobs,
            TypeBegin, ShapeInv, ActiveInv, ScanInv, AckInv, Stored
      <3>. QED BY <3>2, <3>3
    <2>3. CASE pre[p].state = "Ready" /\ pre[p].candidate = c.tree /\ pre[p].frozen = c.parent
      <3>1. /\ commits' = Append(commits, c)
            /\ pre' = [pre EXCEPT ![p] = [pre[p] EXCEPT !.state = "Committed",
                                                       !.commit = Len(commits) + 1]]
            /\ work' = [work EXCEPT !["request"].at = "place"]
            /\ UNCHANGED <<index, head, placed, jobs, begin>>
        BY <1>11, <2>3 DEF CommitStores, Go
      <3>2. /\ Len(commits') = Len(commits) + 1 /\ commits'[Len(commits) + 1] = c
            /\ \A k \in Stored : commits'[k] = commits[k]
        BY <2>1, <3>1 DEF TypeCommits, Stored
      <3>3. /\ \A q \in PreCommits \ {p} : pre'[q] = pre[q]
            /\ pre'[p].attempt = pre[p].attempt /\ pre'[p].source = pre[p].source
            /\ pre'[p].frozen = pre[p].frozen /\ pre'[p].candidate = pre[p].candidate
            /\ pre'[p].acked = pre[p].acked /\ pre'[p].job = pre[p].job
            /\ pre'[p].phase = pre[p].phase
            /\ pre'[p].state = "Committed" /\ pre'[p].commit = Len(commits) + 1
        BY <2>1, <3>1 DEF TypePre, PreCommitRecord
      <3>4. /\ work'["request"].pre = p /\ work'["request"].commit = c
            /\ work'["request"].at = "place" /\ work'["coordinator"] = work["coordinator"]
        BY <2>1, <3>1 DEF TypeWork, WorkRecord, Workers
      <3>5. Published \subseteq Published'
        BY <2>1, <3>1, HistoryGrows DEF Published, RefInv
      <3>6. TypeStore' /\ TypeJobs' /\ TypeBegin'
        BY <2>1, <3>1, <3>2 DEF TypeStore, TypeJobs, TypeBegin, Stored
      <3>7. TypeCommits'
        BY <2>1, <3>1 DEF TypeCommits
      <3>8. TypePre'
        <4>1. pre[p] \in PreCommitRecord /\ index \in Versions /\ Len(commits) + 1 \in Nat
          BY <2>1 DEF TypePre, TypeStore
        <4>2. [pre[p] EXCEPT !.state = "Committed", !.commit = Len(commits) + 1]
                \in PreCommitRecord
          BY <4>1, RecordUpdates
        <4>. QED BY <2>1, <3>1, <4>2 DEF TypePre
      <3>9. TypeWork'
        <4>1. [work["request"] EXCEPT !.at = "place"] \in WorkRecord
          BY <2>1 DEF WorkRecord, Points
        <4>. QED BY <3>1, <4>1 DEF TypeWork
      <3>10. RefInv'
        <4>1. head' \in 0 .. Len(commits') /\ \A r \in Requests :
                begin'[r] # None => begin'[r].head \in 0 .. Len(commits')
          BY <2>1, <3>1, <3>2 DEF RefInv
        <4>2. \A k \in Stored' : commits'[k].parent \in 0 .. (k - 1)
          BY <2>1, <3>2 DEF RefInv, Stored
        <4>3. \A q \in PreCommits : pre'[q].frozen \in 0 .. Len(commits')
          BY <2>1, <3>2, <3>3 DEF RefInv
        <4>4. \A v \in Workers : work'[v] # None => work'[v].commit.parent \in 0 ..
            Len(commits')
          BY <2>1, <3>2, <3>4 DEF RefInv, Workers
        <4>. QED BY <4>1, <4>2, <4>3, <4>4 DEF RefInv
      <3>11. ShapeInv'
        BY <2>1, <2>3, <3>2, <3>3 DEF ShapeInv, Stored
      <3>12. ActiveInv'
        BY <2>1, <3>3 DEF ActiveInv, Active
      <3>13. ScanInv'
        <4>1. \A q \in PreCommits : pre[q].state = "Committed" => pre[q].commit \in Stored
          BY CommittedIsStored
        <4>2. \A q \in PreCommits \ {p} : pre'[q].state = "Committed" =>
                commits'[pre'[q].commit] = commits[pre[q].commit]
          BY <3>2, <3>3, <4>1
        <4>3. commits'[pre'[p].commit].tree = pre'[p].candidate
          BY <2>3, <3>2, <3>3
        <4>4. ASSUME NEW q \in PreCommits, pre'[q].state \in {"Ready", "Committed"}
              PROVE  /\ pre'[q].job \in DOMAIN jobs'
                     /\ jobs'[pre'[q].job].state = "succeeded"
                     /\ jobs'[pre'[q].job].version = pre'[q].candidate
                     /\ jobs'[pre'[q].job].base = pre'[q].source
          BY <2>1, <2>3, <3>1, <3>3, <4>4 DEF ScanInv
        <4>5. ASSUME NEW q \in PreCommits \ {p}, pre'[q].state = "Committed"
              PROVE  commits'[pre'[q].commit].tree = pre'[q].candidate
          BY <3>3, <4>2, <4>5 DEF ScanInv
        <4>. QED BY <4>3, <4>4, <4>5 DEF ScanInv
      <3>14. WorkInv'
        <4>1. \A q \in PreCommits : pre[q].state = "Committed" => q # p /\ pre[q].commit \in Stored
          BY <2>3, CommittedIsStored
        <4>2. work["coordinator"] # None =>
                work["coordinator"].pre \in PreCommits /\ work["coordinator"].at # "store"
          BY DEF TypeWork, WorkRecord, Workers, WorkInv
        <4>. QED BY <2>1, <3>2, <3>3, <3>4, <3>5, <4>1, <4>2 DEF WorkInv, Workers
      <3>15. AckInv'
        BY <2>1, <2>3, <3>3, <3>5 DEF AckInv, ShapeInv
      <3>. QED BY <3>6, <3>7, <3>8, <3>9, <3>10, <3>11, <3>12, <3>13, <3>14, <3>15
    <2>. QED BY <2>2, <2>3
  <1>12. ASSUME CommitPlaces
        PROVE  IInv'
    <2>1. TypeStore'
      <3>1. pre[work["request"].pre].commit \in Stored
        BY <1>12, CommittedIsStored DEF CommitPlaces, WorkInv, TypeWork, WorkRecord, Workers
      <3>. QED BY <1>12, <3>1 DEF CommitPlaces, TypeStore, records, Stored
    <2>2. TypeWork'
      BY <1>12 DEF CommitPlaces, Go, Done, records, TypeWork, WorkRecord,
          CommitRecord, Points, Workers, TypePre, PreCommitRecord
    <2>3. RefInv'
      <3>1. \A v \in Workers : work'[v] # None => work[v] # None /\ work'[v].commit = work[v].commit
        BY <1>12 DEF CommitPlaces, Go, Done, TypeWork, WorkRecord, Workers
      <3>. QED BY <1>12, <3>1 DEF CommitPlaces, records, RefInv, Stored
    <2>4. WorkInv'
      BY <1>12, PublishedKept DEF CommitPlaces, Go, Done, records, WorkInv, Active,
          TypePre, PreCommitRecord, TypeWork, WorkRecord, Workers
    <2>5. TypeCommits' /\ TypePre' /\ TypeJobs' /\ TypeBegin' /\ ShapeInv' /\
        ActiveInv' /\ ScanInv' /\ AckInv'
      BY <1>12, PublishedKept DEF CommitPlaces, records, TypeCommits, TypePre,
          TypeJobs, TypeBegin, ShapeInv, Stored, ActiveInv, ScanInv, AckInv
    <2>. QED BY <2>1, <2>2, <2>3, <2>4, <2>5
  <1>13. ASSUME NEW p \in PreCommits, RecoverCommit(p)
        PROVE  IInv'
    <2>1. TypeWork'
      <3>1. commits[pre[p].commit] \in CommitRecord
        BY <1>13, CommittedIsStored DEF RecoverCommit, TypeCommits, Stored
      <3>2. [pre |-> p, at |-> "observe", commit |-> commits[pre[p].commit]] \in WorkRecord
        BY <3>1 DEF WorkRecord, Points
      <3>. QED BY <1>13, <3>2 DEF RecoverCommit, TypeWork, Workers
    <2>2. RefInv'
      <3>1. commits[pre[p].commit].parent \in 0 .. Len(commits)
        BY <1>13, CommittedIsStored, LengthIsNat DEF RecoverCommit, RefInv, Stored
      <3>. QED BY <1>13, <3>1 DEF RecoverCommit, records, RefInv, Stored, TypeWork, Workers
    <2>3. WorkInv'
      BY <1>13, PublishedKept DEF RecoverCommit, records, WorkInv, Active, TypePre,
          PreCommitRecord, TypeWork, WorkRecord, Workers
    <2>4. TypeStore' /\ TypeCommits' /\ TypePre' /\ TypeJobs' /\ TypeBegin' /\
        ShapeInv' /\ ActiveInv' /\ ScanInv' /\ AckInv'
      BY <1>13, PublishedKept DEF RecoverCommit, records, TypeStore, Stored,
          TypeCommits, TypePre, TypeJobs, TypeBegin, ShapeInv, ActiveInv, ScanInv, AckInv
    <2>. QED BY <2>1, <2>2, <2>3, <2>4
  <1>14. ASSUME NEW w \in Workers, ObserveHead(w)
        PROVE  IInv'
    <2>1. TypeWork'
      BY <1>14 DEF ObserveHead, Go, At, CommitOf, Contains, Published, records,
          TypeWork, WorkRecord, CommitRecord, Points, Workers, TypePre, PreCommitRecord
    <2>2. RefInv'
      BY <1>14 DEF ObserveHead, Go, At, CommitOf, Contains, Published, records,
          RefInv, Stored, TypeBegin, BeginRecord, TypePre, PreCommitRecord, TypeWork,
              WorkRecord, Workers
    <2>3. WorkInv'
      BY <1>14, PublishedKept DEF ObserveHead, Go, At, CommitOf, Contains, Published,
          records, WorkInv, Active, TypePre, PreCommitRecord, TypeWork, WorkRecord, Workers
    <2>4. TypeStore' /\ TypeCommits' /\ TypePre' /\ TypeJobs' /\ TypeBegin' /\
        ShapeInv' /\ ActiveInv' /\ ScanInv' /\ AckInv'
      BY <1>14, PublishedKept DEF ObserveHead, records, TypeStore, Stored,
          TypeCommits, TypePre, TypeJobs, TypeBegin, ShapeInv, ActiveInv, ScanInv, AckInv
    <2>. QED BY <2>1, <2>2, <2>3, <2>4
  <1>15. ASSUME NEW w \in Workers, AdvanceHead(w)
        PROVE  IInv'
    <2>. DEFINE c == CommitOf(w)
    <2>1. /\ work[w] \in WorkRecord /\ work[w].at = "advance"
          /\ c \in Stored /\ commits[c] = work[w].commit
          /\ UNCHANGED <<index, placed, commits, pre, jobs, begin>>
      <3>1. work[w] \in WorkRecord /\ work[w].at = "advance"
            /\ UNCHANGED <<index, placed, commits, pre, jobs, begin>>
        BY <1>15 DEF AdvanceHead, At, TypeWork, records
      <3>2. pre[work[w].pre].state = "Committed" /\ commits[c] = work[w].commit
        BY <1>15, <3>1 DEF AdvanceHead, At, WorkInv, CommitOf
      <3>. QED BY <3>1, <3>2, CommittedIsStored DEF WorkRecord, CommitOf
    <2>2. CASE head \in {c, work[w].commit.parent}
      <3>1. head' = c /\ work' = [work EXCEPT ![w].at = "ack"]
        BY <1>15, <2>2 DEF AdvanceHead, Go
      <3>2. Published' = History(c)
        BY <2>1, <3>1 DEF Published, History, Closed, Stored
      <3>3. c \in Published' /\ Published \subseteq Published'
        BY <2>1, <2>2, <3>2, HistoryOfChild DEF Published
      <3>4. TypeStore' /\ TypeCommits' /\ TypePre' /\ TypeJobs' /\ TypeBegin'
        BY <2>1, <3>1, LengthIsNat DEF TypeStore, TypeCommits, TypePre, TypeJobs,
            TypeBegin, Stored
      <3>5. TypeWork'
        <4>1. [work[w] EXCEPT !.at = "ack"] \in WorkRecord
          BY <2>1 DEF WorkRecord, Points
        <4>. QED BY <3>1, <4>1 DEF TypeWork
      <3>6. \A v \in Workers :
              work'[v] # None => work[v] # None /\ work'[v].commit = work[v].commit
                                 /\ work'[v].pre = work[v].pre
                                 /\ (v # w => work'[v].at = work[v].at)
        <4>1. work'[w] = [work[w] EXCEPT !.at = "ack"]
              /\ \A v \in Workers \ {w} : work'[v] = work[v]
          BY <2>1, <3>1 DEF TypeWork
        <4>2. work[w] # None
          BY <1>15 DEF AdvanceHead, At
        <4>. QED BY <2>1, <4>1, <4>2 DEF WorkRecord
      <3>7. RefInv'
        BY <2>1, <3>1, <3>6, LengthIsNat DEF RefInv, Stored
      <3>8. ShapeInv' /\ ActiveInv' /\ ScanInv'
        BY <2>1 DEF ShapeInv, ActiveInv, ScanInv, Stored
      <3>9. WorkInv'
        <4>1. work["coordinator"]' # None => work["coordinator"].at' # "store"
          BY <2>1, <3>1 DEF WorkInv, TypeWork, WorkRecord, Workers
        <4>2. ASSUME NEW v \in Workers, work'[v] # None, work'[v].at # "store"
              PROVE  /\ pre'[work'[v].pre].state = "Committed"
                     /\ commits'[pre'[work'[v].pre].commit] = work'[v].commit
                     /\ work'[v].at = "ack" => pre'[work'[v].pre].commit \in Published'
          <5>1. work[v] # None /\ work[v].at # "store"
            BY <2>1, <3>6, <4>2
          <5>. QED BY <2>1, <3>3, <3>6, <4>2, <5>1 DEF WorkInv, CommitOf
        <4>. QED BY <4>1, <4>2 DEF WorkInv
      <3>10. AckInv'
        BY <2>1, <3>3 DEF AckInv
      <3>. QED BY <3>4, <3>5, <3>7, <3>8, <3>9, <3>10
    <2>3. CASE head \notin {c, work[w].commit.parent}
      <3>1. UNCHANGED head /\ work' = [work EXCEPT ![w].at = "recheck"]
        BY <1>15, <2>3 DEF AdvanceHead, Go
      <3>2. TypeWork'
        <4>1. [work[w] EXCEPT !.at = "recheck"] \in WorkRecord
          BY <2>1 DEF WorkRecord, Points
        <4>. QED BY <3>1, <4>1 DEF TypeWork
      <3>3. RefInv' /\ WorkInv'
        <4>1. work'[w] = [work[w] EXCEPT !.at = "recheck"]
              /\ \A v \in Workers \ {w} : work'[v] = work[v]
          BY <2>1, <3>1 DEF TypeWork
        <4>2. work[w] # None
          BY <1>15 DEF AdvanceHead, At
        <4>3. /\ work'[w].pre = work[w].pre /\ work'[w].commit = work[w].commit
              /\ work'[w].at = "recheck"
          BY <2>1, <4>1 DEF WorkRecord
        <4>4. RefInv'
          BY <2>1, <3>1, <4>1, <4>2, <4>3 DEF RefInv, Stored
        <4>5. WorkInv'
          BY <2>1, <3>1, <4>1, <4>2, <4>3, PublishedKept DEF WorkInv, Workers
        <4>. QED BY <4>4, <4>5
      <3>4. TypeStore' /\ TypeCommits' /\ TypePre' /\ TypeJobs' /\ TypeBegin'
            /\ ShapeInv' /\ ActiveInv' /\ ScanInv' /\ AckInv'
        BY <2>1, <3>1, PublishedKept DEF TypeStore, TypeCommits, TypePre, TypeJobs,
            TypeBegin, ShapeInv, ActiveInv, ScanInv, AckInv, Stored
      <3>. QED BY <3>2, <3>3, <3>4
    <2>. QED BY <2>2, <2>3
  <1>16. ASSUME NEW w \in Workers, RecheckHead(w)
        PROVE  IInv'
    <2>1. TypeWork'
      BY <1>16 DEF RecheckHead, Go, Done, At, CommitOf, Contains, Published, records,
          TypeWork, WorkRecord, CommitRecord, Points, Workers, TypePre, PreCommitRecord
    <2>2. RefInv'
      <3>1. \A v \in Workers : work'[v] # None => work[v] # None /\ work'[v].commit = work[v].commit
        BY <1>16 DEF RecheckHead, At, Go, Done, TypeWork, WorkRecord, Workers
      <3>. QED BY <1>16, <3>1 DEF RecheckHead, records, RefInv, Stored
    <2>3. WorkInv'
      BY <1>16, PublishedKept DEF RecheckHead, Go, Done, At, CommitOf, Contains,
          Published, records, WorkInv, Active, TypePre, PreCommitRecord, TypeWork,
              WorkRecord, Workers
    <2>4. TypeStore' /\ TypeCommits' /\ TypePre' /\ TypeJobs' /\ TypeBegin' /\
        ShapeInv' /\ ActiveInv' /\ ScanInv' /\ AckInv'
      BY <1>16, PublishedKept DEF RecheckHead, records, TypeStore, Stored,
          TypeCommits, TypePre, TypeJobs, TypeBegin, ShapeInv, ActiveInv, ScanInv, AckInv
    <2>. QED BY <2>1, <2>2, <2>3, <2>4
  <1>17. ASSUME NEW w \in Workers, AcknowledgeHead(w)
        PROVE  IInv'
    <2>. DEFINE p == work[w].pre
    <2>1. /\ p \in PreCommits /\ pre[p].state = "Committed" /\ pre[p].commit \in Published
          /\ work' = [work EXCEPT ![w] = None]
          /\ UNCHANGED <<index, head, placed, commits, jobs, begin>>
      BY <1>17 DEF AcknowledgeHead, At, Done, WorkInv, TypeWork, WorkRecord
    <2>2. /\ \A q \in PreCommits \ {p} : pre'[q] = pre[q]
          /\ pre'[p].attempt = pre[p].attempt /\ pre'[p].source = pre[p].source
          /\ pre'[p].frozen = pre[p].frozen /\ pre'[p].commit = pre[p].commit
          /\ pre'[p].candidate = pre[p].candidate /\ pre'[p].job = pre[p].job
          /\ pre'[p].phase = pre[p].phase /\ pre'[p].state = pre[p].state
      BY <1>17, <2>1 DEF AcknowledgeHead, TypePre, PreCommitRecord
    <2>3. TypePre'
      <3>1. pre[p] \in PreCommitRecord /\ index \in Versions /\ 0 \in Nat
        BY <2>1 DEF TypePre, TypeStore
      <3>2. [pre[p] EXCEPT !.acked = TRUE] \in PreCommitRecord
        BY <3>1, RecordUpdates
      <3>. QED BY <1>17, <3>2 DEF AcknowledgeHead, TypePre
    <2>4. TypeWork' /\ RefInv'
      BY <2>1, <2>2 DEF TypeWork, RefInv, Stored, Workers
    <2>5. ShapeInv'
      <3>1. \A q \in PreCommits : pre'[q].acked => pre'[q].state = "Committed"
        BY <2>1, <2>2 DEF ShapeInv
      <3>. QED BY <2>1, <2>2, <3>1 DEF ShapeInv, Stored
    <2>6. ActiveInv'
      BY <2>1, <2>2 DEF ActiveInv
    <2>7. ScanInv'
      BY <2>1, <2>2 DEF ScanInv
    <2>8. WorkInv'
      BY <2>1, <2>2, PublishedKept DEF WorkInv, TypeWork, WorkRecord, Workers
    <2>9. AckInv'
      BY <2>1, <2>2, PublishedKept DEF AckInv
    <2>10. TypeStore' /\ TypeCommits' /\ TypeJobs' /\ TypeBegin'
      BY <2>1 DEF TypeStore, TypeCommits, TypeJobs, TypeBegin, Stored
    <2>. QED BY <2>3, <2>4, <2>5, <2>6, <2>7, <2>8, <2>9, <2>10
  <1>18. ASSUME CentralCrashes
        PROVE  IInv'
    <2>1. TypeBegin'
      BY <1>18 DEF CentralCrashes, records, TypeBegin, BeginRecord, TypeStore,
          TypePre, PreCommitRecord
    <2>2. TypeWork'
      BY <1>18 DEF CentralCrashes, records, TypeWork, WorkRecord, CommitRecord,
          Points, Workers, TypePre, PreCommitRecord
    <2>3. RefInv'
      BY <1>18 DEF CentralCrashes, records, RefInv, Stored, TypeBegin, BeginRecord,
          TypePre, PreCommitRecord, TypeWork, WorkRecord, Workers
    <2>4. WorkInv'
      BY <1>18, PublishedKept DEF CentralCrashes, records, WorkInv, Active, TypePre,
          PreCommitRecord, TypeWork, WorkRecord, Workers
    <2>5. TypeStore' /\ TypeCommits' /\ TypePre' /\ TypeJobs' /\ ShapeInv' /\
        ActiveInv' /\ ScanInv' /\ AckInv'
      BY <1>18, PublishedKept DEF CentralCrashes, records, TypeStore, Stored,
          TypeCommits, TypePre, TypeJobs, ShapeInv, ActiveInv, ScanInv, AckInv
    <2>. QED BY <2>1, <2>2, <2>3, <2>4, <2>5
  <1>19. CASE UNCHANGED vars
    BY <1>19, PublishedKept DEF vars, records, TypeStore, TypeCommits, TypePre,
        TypeJobs, TypeBegin, TypeWork,
        RefInv, ShapeInv, ActiveInv, ScanInv, WorkInv, AckInv, Stored
  <1>. QED BY <1>1, <1>2, <1>3, <1>4, <1>5, <1>6, <1>7, <1>8, <1>9, <1>10, <1>11,
      <1>12, <1>13, <1>14, <1>15, <1>16, <1>17, <1>18, <1>19 DEF Next, PublishStep

-----------------------------------------------------------------------------
(* The invariant holds throughout.                                         *)
THEOREM Invariance == Spec => []IInv
  BY InitIInv, NextIInv, PTL DEF Spec

(* Type correctness of what Central stores about the Workspace's Commits.  *)
THEOREM TypeCorrect == Spec => []TypeOK
  <1>1. IInv => TypeOK
    <2>. SUFFICES ASSUME IInv PROVE TypeOK
      OBVIOUS
    <2>1. index \in Versions /\ head \in 0 .. Len(commits) /\ placed \subseteq Stored
      BY DEF IInv, TypeStore, RefInv
    <2>2. \A c \in Stored : commits[c].parent \in 0 .. (c - 1) /\ commits[c].tree \in Versions
      <3>1. \A c \in Stored : commits[c] \in CommitRecord
        BY LengthIsNat DEF IInv, TypeCommits, Stored
      <3>. QED BY <3>1 DEF IInv, RefInv, CommitRecord
    <2>3. ASSUME NEW p \in PreCommits
          PROVE  /\ pre[p].state \in Active \cup {"none", "Cancelled", "Committed"}
                 /\ pre[p].source \in Versions /\ pre[p].candidate \in Versions \cup {None}
      BY DEF IInv, TypePre, PreCommitRecord
    <2>4. \A w \in Workers : work[w] # None => work[w].at \in Points
      BY DEF IInv, TypeWork, WorkRecord
    <2>. QED BY <2>1, <2>2, <2>3, <2>4 DEF IInv, TypeOK, RefInv, ShapeInv, ActiveInv, Points
  <1>. QED BY Invariance, <1>1, PTL

(* A Commit freezes the scan its Pre-commit asked for, for any number of   *)
(* sessions, attempts and late Jobs (apply_job_sync, apply_commit).        *)
THEOREM CandidatesAreOwnScans == Spec => []CandidateIsOwnScan
  <1>1. IInv => CandidateIsOwnScan
    BY DEF IInv, CandidateIsOwnScan, ScanInv, ShapeInv
  <1>. QED BY Invariance, <1>1, PTL

(* A Commit whose Head publication was acknowledged stays in the history   *)
(* of the Head, although requests and the coordinator publish concurrently *)
(* and crash (publish_committed_workspace_head).                           *)
THEOREM PublishedCommitsStay == Spec => []PublishedStays
  <1>1. IInv => PublishedStays
    BY DEF IInv, PublishedStays, AckInv, Published
  <1>. QED BY Invariance, <1>1, PTL
=============================================================================
