-------------------------- MODULE WorkspaceCommit --------------------------
(***************************************************************************)
(* How one Workspace gets its Commits in Central: a Pre-commit freezes the *)
(* Head and has an Add Job scan the tree, a Commit consumes the Pre-commit *)
(* and then moves the Workspace's Head (neoengram-central: precommit.rs,   *)
(* mapper/sqlite/precommit.rs, service/{workspace_commit,coordinator,      *)
(* catalog}.rs).                                                           *)
(*                                                                         *)
(* The Commit and its Pre-commit are in the authority's database, the Head *)
(* is in the control catalog's, and the Index moves with every Add: each   *)
(* transaction is an action, and the process may crash between any two.    *)
(* Commit requests exclude each other by publication_lock; the coordinator *)
(* that publishes the Heads of stored Commits does not take it.            *)
(*                                                                         *)
(* Abstractions: the Index is its revision; a Commit is identified by its  *)
(* position among the stored ones; an Add Job is reduced to the compare-   *)
(* and-swap by which it publishes (ManagedAdd has its steps); tasks, the   *)
(* Artifact's convenience Head, lifecycle states, data layouts and request *)
(* identities that only replay an answer are left out.                     *)
(***************************************************************************)
EXTENDS Integers, Sequences, FiniteSets

CONSTANTS
    None,
    PreCommits,        \* the Pre-commit sessions of the Workspace
    Requests,          \* start or restart requests in flight
    MaxAttempts,       \* MaxAttempts[p]: bound on the attempts of a session
    MaxVersion, MaxCrashes

ASSUME ConstantsAssumption ==
    /\ MaxAttempts \in [PreCommits -> Nat \ {0}] /\ MaxVersion \in Nat /\ MaxCrashes \in Nat
    /\ IsFiniteSet(PreCommits) /\ None \notin PreCommits \cup Nat

VARIABLES
    index,         \* revision of the Workspace's published Index
    head,          \* head_commit_id of the Workspace, 0 for none
    commits,       \* the stored Commits: parent and the Index they freeze
    placed,        \* the Commits whose objects have their initial placement
    pre,           \* pre[p]: the PreCommitRecord
    jobs,          \* the Add Jobs, by session and attempt
    begin,         \* begin[r]: what a start or restart request has read
    work,          \* work[w]: the Commit a request or the coordinator handles
    crashes

records == <<commits, pre>>
vars == <<index, head, placed, records, jobs, begin, work, crashes>>

Workers == {"request", "coordinator"}
Active == {"Running", "Ready", "Abnormal"}

(* The Commits a Head contains (is_commit_ancestor walks the parents): the *)
(* ones in every set that holds the Head and the parents of its members.   *)
Stored == 1 .. Len(commits)
Closed(S) == \A c \in S : commits[c].parent \in S \cup {0}
History(c) == {d \in Stored : \A S \in SUBSET Stored : Closed(S) /\ c \in S \cup {0} => d \in S}

-----------------------------------------------------------------------------
(* start_workspace_precommit and restart_workspace_precommit read the      *)
(* Workspace's Head, its Index and, to restart, the attempt; then store.   *)

BeginReads(r, p) ==
    /\ begin[r] = None
    /\ pre[p].state \in {"none", "Abnormal", "Cancelled"} /\ pre[p].attempt < MaxAttempts[p]
    /\ begin' = [begin EXCEPT ![r] = [pre |-> p, head |-> head, source |-> index,
                                      attempt |-> pre[p].attempt + 1]]
    /\ UNCHANGED <<index, head, placed, records, jobs, work, crashes>>

(* build_started, apply_restart: refused when the Workspace has another    *)
(* active Pre-commit, or when this one was started meanwhile.              *)
BeginStores(r) ==
    /\ begin[r] # None
    /\ LET b == begin[r]
           p == b.pre
           admitted == /\ pre[p].state \in {"none", "Abnormal", "Cancelled"}
                       /\ (pre[p].state = "none") = (b.attempt = 1)
                       /\ pre[p].attempt < MaxAttempts[p]
                       /\ \A q \in PreCommits \ {p} : pre[q].state \notin Active
       IN IF admitted
          THEN pre' = [pre EXCEPT ![p] =
                 [state |-> "Running", phase |-> "queued", attempt |-> @.attempt + 1,
                  source |-> b.source, frozen |-> b.head, candidate |-> None, commit |-> None,
                  acked |-> FALSE, job |-> <<p, b.attempt>>]]
          ELSE UNCHANGED pre
    /\ begin' = [begin EXCEPT ![r] = None]
    /\ UNCHANGED <<index, head, placed, commits, jobs, work, crashes>>

(* Mutant: the candidate of a ready session stays on the record.           *)
CancelPrecommit_KeepsCandidate(p) ==
    /\ pre[p].state \in Active
    /\ pre' = [pre EXCEPT ![p] = [@ EXCEPT !.state = "Cancelled", !.phase = "idle"]]
    /\ UNCHANGED <<index, head, placed, commits, jobs, begin, work, crashes>>

(* cancel: the Add Job is left to itself.                                  *)
CancelPrecommit(p) ==
    /\ pre[p].state \in Active
    /\ pre' = [pre EXCEPT ![p] = [@ EXCEPT !.state = "Cancelled", !.phase = "idle",
                                                 !.candidate = None]]
    /\ UNCHANGED <<index, head, placed, commits, jobs, begin, work, crashes>>

-----------------------------------------------------------------------------
(* The Add Job of an attempt (precommit_add_job_spec): of its spec the     *)
(* model keeps the Index it builds on.                                     *)

(* ensure_precommit_job, by the request that began the attempt, by a replay*)
(* of it and by the coordinator.  A Job that is there is replayed when it  *)
(* has this spec and refused otherwise.                                    *)
EnsureJob(p) ==
    /\ pre[p].state = "Running"
    /\ pre[p].job \notin DOMAIN jobs /\ index = pre[p].source
    /\ jobs' = [j \in DOMAIN jobs \cup {pre[p].job} |->
                  IF j = pre[p].job THEN [base |-> pre[p].source, state |-> "queued", version |-> None]
                  ELSE jobs[j]]
    /\ UNCHANGED <<index, head, placed, records, begin, work, crashes>>

(* The Job and its publication (ManagedAdd).                               *)
JobRuns(j) ==
    /\ jobs[j].state = "queued"
    /\ jobs' = [jobs EXCEPT ![j].state = "running"]
    /\ UNCHANGED <<index, head, placed, records, begin, work, crashes>>

JobPublishes(j) ==
    /\ jobs[j].state = "running" /\ index = jobs[j].base /\ index < MaxVersion
    /\ index' = index + 1
    /\ jobs' = [jobs EXCEPT ![j].state = "succeeded", ![j].version = index']
    /\ UNCHANGED <<head, placed, records, begin, work, crashes>>

JobFails(j) ==
    /\ jobs[j].state \in {"queued", "running"}
    /\ jobs' = [jobs EXCEPT ![j].state = "failed"]
    /\ UNCHANGED <<index, head, placed, records, begin, work, crashes>>

(* An Add of the public API publishes.                                     *)
OtherAddPublishes ==
    /\ index < MaxVersion
    /\ index' = index + 1
    /\ UNCHANGED <<head, placed, records, jobs, begin, work, crashes>>

(* Mutant: whatever the Index is by now becomes the candidate.             *)
SyncJob_AnyIndex(p) ==
    /\ pre[p].state = "Running" /\ pre[p].job \in DOMAIN jobs
    /\ jobs[pre[p].job].base = pre[p].source
    /\ LET job == jobs[pre[p].job] IN
        \/ /\ job.state = "succeeded"
           /\ pre' = [pre EXCEPT ![p] = [@ EXCEPT !.state = "Ready", !.phase = "idle",
                                                        !.candidate = index]]
        \/ /\ job.state = "failed"
           /\ pre' = [pre EXCEPT ![p] = [@ EXCEPT !.state = "Abnormal", !.phase = "idle"]]
        \/ /\ job.state = "running" /\ pre[p].phase = "queued"
           /\ pre' = [pre EXCEPT ![p] = [@ EXCEPT !.phase = "scanning"]]
    /\ UNCHANGED <<index, head, placed, commits, jobs, begin, work, crashes>>

(* apply_job_sync on a Running record: queries, Commit requests and the    *)
(* coordinator call it.  The published Index is read again for a Job that  *)
(* succeeded, and must be the one the Job published.                       *)
SyncJob(p) ==
    /\ pre[p].state = "Running" /\ pre[p].job \in DOMAIN jobs
    /\ jobs[pre[p].job].base = pre[p].source
    /\ LET job == jobs[pre[p].job] IN
        \/ /\ job.state = "succeeded" /\ job.version = index
           /\ pre' = [pre EXCEPT ![p] = [@ EXCEPT !.state = "Ready", !.phase = "idle",
                                                        !.candidate = index]]
        \/ /\ job.state = "failed"
           /\ pre' = [pre EXCEPT ![p] = [@ EXCEPT !.state = "Abnormal", !.phase = "idle"]]
        \/ /\ job.state = "running" /\ pre[p].phase = "queued"
           /\ pre' = [pre EXCEPT ![p] = [@ EXCEPT !.phase = "scanning"]]
    /\ UNCHANGED <<index, head, placed, commits, jobs, begin, work, crashes>>

-----------------------------------------------------------------------------
(* commit_workspace, under publication_lock.  A request reads Workspace,   *)
(* Pre-commit and Index; one for a Committed record repeats what follows   *)
(* the stored Commit.                                                      *)

Go(w, at) == work' = [work EXCEPT ![w].at = at]
Done(w) == work' = [work EXCEPT ![w] = None]

CommitBegins(p) ==
    /\ work["request"] = None
    /\ \/ /\ pre[p].state = "Ready" /\ head = pre[p].frozen /\ index = pre[p].candidate
          /\ work' = [work EXCEPT !["request"] =
                [pre |-> p, at |-> "store",
                 commit |-> [parent |-> pre[p].frozen, tree |-> pre[p].candidate]]]
       \/ /\ pre[p].state = "Committed"
          /\ work' = [work EXCEPT !["request"] =
                [pre |-> p, at |-> "place", commit |-> commits[pre[p].commit]]]
    /\ UNCHANGED <<index, head, placed, records, jobs, begin, crashes>>

(* apply_commit compares the request with the record once more, in the     *)
(* transaction that stores the Commit.                                     *)
CommitStores ==
    /\ work["request"] # None /\ work["request"].at = "store"
    /\ LET p == work["request"].pre
           c == work["request"].commit
       IN IF pre[p].state = "Ready" /\ pre[p].candidate = c.tree /\ pre[p].frozen = c.parent
          THEN /\ commits' = Append(commits, c)
               /\ pre' = [pre EXCEPT ![p] = [@ EXCEPT !.state = "Committed",
                                                            !.commit = Len(commits) + 1]]
               /\ Go("request", "place")
          ELSE Done("request") /\ UNCHANGED records
    /\ UNCHANGED <<index, head, placed, jobs, begin, crashes>>

(* publish_initial_placement; a failure of the placement store ends the    *)
(* request.                                                                *)
CommitPlaces ==
    /\ work["request"] # None /\ work["request"].at = "place"
    /\ \/ /\ placed' = placed \cup {pre[work["request"].pre].commit}
          /\ Go("request", "observe")
       \/ Done("request") /\ UNCHANGED placed
    /\ UNCHANGED <<index, head, records, jobs, begin, crashes>>

(* recover_unpublished_commits                                             *)
RecoverCommit(p) ==
    /\ work["coordinator"] = None
    /\ pre[p].state = "Committed" /\ ~pre[p].acked
    /\ work' = [work EXCEPT !["coordinator"] =
          [pre |-> p, at |-> "observe", commit |-> commits[pre[p].commit]]]
    /\ UNCHANGED <<index, head, placed, records, jobs, begin, crashes>>

(* publish_committed_workspace_head, by either worker: look whether the    *)
(* Head contains the Commit (workspace_contains_commit), else swap the     *)
(* Head from the Commit's parent, and look again when that fails.          *)
At(w, at) == work[w] # None /\ work[w].at = at
CommitOf(w) == pre[work[w].pre].commit

(* Mutant: a Head that moved on to a descendant is not recognised.         *)
Contains_ExactHead(c) == head = c

Contains(c) == c \in History(head)

ObserveHead(w) ==
    /\ At(w, "observe")
    /\ Go(w, IF Contains(CommitOf(w)) THEN "ack" ELSE "advance")
    /\ UNCHANGED <<index, head, placed, records, jobs, begin, crashes>>

(* Mutant: the Head is set, not swapped.                                   *)
AdvanceHead_Blind(w) ==
    /\ At(w, "advance")
    /\ head' = CommitOf(w) /\ Go(w, "ack")
    /\ UNCHANGED <<index, placed, records, jobs, begin, crashes>>

AdvanceHead(w) ==
    /\ At(w, "advance")
    /\ IF head \in {CommitOf(w), work[w].commit.parent}
       THEN head' = CommitOf(w) /\ Go(w, "ack")
       ELSE Go(w, "recheck") /\ UNCHANGED head
    /\ UNCHANGED <<index, placed, records, jobs, begin, crashes>>

RecheckHead(w) ==
    /\ At(w, "recheck")
    /\ IF Contains(CommitOf(w)) THEN Go(w, "ack") ELSE Done(w)
    /\ UNCHANGED <<index, head, placed, records, jobs, begin, crashes>>

(* acknowledge_head_publication                                            *)
AcknowledgeHead(w) ==
    /\ At(w, "ack")
    /\ LET p == work[w].pre IN
        pre' = IF pre[p].acked THEN pre
               ELSE [pre EXCEPT ![p] = [@ EXCEPT !.acked = TRUE]]
    /\ Done(w)
    /\ UNCHANGED <<index, head, placed, commits, jobs, begin, crashes>>

CentralCrashes ==
    /\ crashes < MaxCrashes
    /\ crashes' = crashes + 1
    /\ begin' = [r \in Requests |-> None] /\ work' = [w \in Workers |-> None]
    /\ UNCHANGED <<index, head, placed, records, jobs>>

-----------------------------------------------------------------------------
NoPrecommit == [state |-> "none", phase |-> "idle", attempt |-> 0, source |-> 0, frozen |-> 0,
                candidate |-> None, commit |-> None, acked |-> FALSE, job |-> None]

Init ==
    /\ index = 0 /\ head = 0 /\ commits = <<>> /\ placed = {}
    /\ pre = [p \in PreCommits |-> NoPrecommit]
    /\ jobs = [j \in {} |-> None]
    /\ begin = [r \in Requests |-> None] /\ work = [w \in Workers |-> None]
    /\ crashes = 0

PublishStep(w) == ObserveHead(w) \/ AdvanceHead(w) \/ RecheckHead(w) \/ AcknowledgeHead(w)

Next ==
    \/ \E p \in PreCommits :
        \/ \E r \in Requests : BeginReads(r, p)
        \/ CancelPrecommit(p) \/ EnsureJob(p) \/ SyncJob(p)
        \/ CommitBegins(p) \/ RecoverCommit(p)
    \/ \E r \in Requests : BeginStores(r)
    \/ \E j \in DOMAIN jobs : JobRuns(j) \/ JobPublishes(j) \/ JobFails(j)
    \/ OtherAddPublishes \/ CommitStores \/ CommitPlaces
    \/ \E w \in Workers : PublishStep(w)
    \/ CentralCrashes

(* The coordinator runs in a loop and its cursor comes back to every       *)
(* unpublished Commit; nothing makes a user send or repeat a request.      *)
Fairness ==
    /\ WF_vars(PublishStep("coordinator"))
    /\ \A p \in PreCommits : SF_vars(RecoverCommit(p))

Spec == Init /\ [][Next]_vars /\ Fairness

-----------------------------------------------------------------------------
(* Properties.                                                             *)

Versions == 0 .. MaxVersion

(* The shape of the records (validate_record): a candidate exactly on a    *)
(* ready or committed Pre-commit, a Commit exactly on a committed one, an  *)
(* acknowledgement only there, and at most one active session.             *)
TypeOK ==
    /\ index \in Versions /\ head \in 0 .. Len(commits) /\ placed \subseteq Stored
    /\ \A c \in Stored : commits[c].parent \in 0 .. (c - 1) /\ commits[c].tree \in Versions
    /\ \A p \in PreCommits :
        /\ pre[p].state \in Active \cup {"none", "Cancelled", "Committed"}
        /\ pre[p].attempt \in 0 .. MaxAttempts[p]
        /\ pre[p].source \in Versions /\ pre[p].frozen \in 0 .. Len(commits)
        /\ pre[p].candidate \in Versions \cup {None}
        /\ (pre[p].candidate # None) = (pre[p].state \in {"Ready", "Committed"})
        /\ pre[p].commit \in Stored \cup {None}
        /\ (pre[p].commit # None) = (pre[p].state = "Committed")
        /\ (pre[p].phase = "idle") = (pre[p].state # "Running")
        /\ pre[p].acked => pre[p].state = "Committed"
    /\ \A p, q \in PreCommits : {pre[p].state, pre[q].state} \subseteq Active => p = q
    /\ \A w \in Workers : work[w] # None =>
        work[w].at \in {"store", "place", "observe", "advance", "recheck", "ack"}

(* A Commit freezes the scan its Pre-commit asked for: the candidate is    *)
(* what the Job of the record published on top of the Index the attempt    *)
(* started from, however many other Adds publish, attempts are cancelled   *)
(* and restarted, or Jobs of earlier attempts finish late.                 *)
CandidateIsOwnScan ==
    \A p \in PreCommits :
        pre[p].state \in {"Ready", "Committed"} =>
            /\ pre[p].job \in DOMAIN jobs
            /\ jobs[pre[p].job].version = pre[p].candidate
            /\ jobs[pre[p].job].base = pre[p].source
            /\ pre[p].commit # None => commits[pre[p].commit].tree = pre[p].candidate

(* A Commit whose publication was acknowledged stays in the history of the *)
(* Workspace's Head, also when the coordinator still works on older        *)
(* Commits and requests and crashes come in between.                       *)
PublishedStays ==
    \A p \in PreCommits : pre[p].acked => pre[p].commit \in History(head)

(* Another Commit with the same parent was published in its place.         *)
Overtaken(p) ==
    /\ pre[p].state = "Committed"
    /\ pre[p].commit \notin History(head) /\ head # commits[pre[p].commit].parent

(* A stored Commit does not wait for ever for its Head: it is acknowledged,*)
(* although requests crash half way and the Head may have moved on to a    *)
(* descendant, unless it was overtaken.                                    *)
StoredCommitsSettle ==
    \A p \in PreCommits : pre[p].state = "Committed" ~> pre[p].acked \/ Overtaken(p)
=============================================================================
