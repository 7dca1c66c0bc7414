------------------------- MODULE ResourceLifecycle -------------------------
(***************************************************************************)
(* One DeletionOperation: Central quarantines, restores or purges a        *)
(* resource's trees on the StorageVolumes that hold them (neoengram-       *)
(* central: service/resource_lifecycle.rs, control_plane.rs,               *)
(* mapper/sqlite/catalog.rs; neoengram-agent: resource_lifecycle.rs,       *)
(* session_runtime.rs, agent_core/lifecycle.rs, snapshot_mount.rs).        *)
(*                                                                         *)
(* Central's reconciler reads the operation, publishes one assignment per  *)
(* volume to the volume's Agent, and advances the operation once all are   *)
(* retired by a report.  Between any two of its repository calls a user    *)
(* may restore, retry or hold the operation, and a failed report may block *)
(* it; the operation's resource_version is the compare-and-swap that makes *)
(* them exclusive.  The Agent claims an assignment in its durable journal, *)
(* fences its Jobs, and moves the trees one rename at a time.              *)
(*                                                                         *)
(* Abstractions: resource_version is kept as the set of readers whose copy *)
(* of the operation is still current; an Agent process has one session     *)
(* generation for its life, so a new session is a new process; evidence,   *)
(* proofs, tasks, the delivery records a purge removes and the authority's *)
(* own rows are left out, except that erasing the metadata is recorded;    *)
(* mount and owner generations are fixed.  The memory gate and the durable *)
(* fence are set in one step (the gate comes first and a Job passes both), *)
(* and so are the removal of the fence and the Restored journal of a       *)
(* restore, which no command reaches (see RestoreNotRefused).              *)
(***************************************************************************)
EXTENDS Integers, FiniteSets

CONSTANTS
    None,
    Volumes,           \* StorageVolumes, numbered in the order of the commands
    Roots,             \* the relative roots of the scope, in the journal's order
    MaxSession,        \* bound on the session generations of an Agent
    Scenarios          \* the cases to explore, records of
                       \*   volumes: the volumes that hold the resource
                       \*   absent:  the roots that do not exist at first
                       \*   left:    how many retries, restores, holds, Agent
                       \*            crashes, Jobs, refused commands and
                       \*            interrupted reconcile passes there may be

ASSUME ConstantsAssumption ==
    /\ Volumes \subseteq Nat /\ IsFiniteSet(Volumes)
    /\ \E n \in 0 .. Cardinality(Roots) : Roots = 1 .. n
    /\ MaxSession \in Nat \ {0}
    /\ \A c \in Scenarios :
        /\ c.volumes \subseteq Volumes /\ c.absent \subseteq Roots
        /\ c.left \in [retries : Nat, restores : Nat, holds : Nat, crashes : Nat,
                       jobs : Nat, refusals : Nat, interrupts : Nat]
    /\ None \notin Volumes \cup Roots

VARIABLES
    volumes,       \* the volumes the operation's targets are on
    op,            \* the DeletionOperation
    window,        \* is now < purge_after_unix_ms
    held,          \* is a RetentionHold active
    erased,        \* has the authority's metadata been finalized
    outbox,        \* lifecycle_assignment_outbox, by assignment
    current,       \* readers whose copy of the operation is the stored one
    rec,           \* the reconciler: its step, its copy, the state it writes
    receiving,     \* receiving[v]: the failed report that is being handled
    up,            \* up[v]: is the Agent of v running
    session,       \* session[v]: its session generation
    claims,        \* claims[v]: its durable lifecycle_records
    run,           \* run[v]: the assignment it executes, or None
    reports,       \* reports[v]: its durable queue of reports
    journal,       \* journal[v]: the filesystem journal of the operation
    fence,         \* fence[v]: generation of the durable no-remount fence
    gate,          \* gate[v]: is the in-memory LifecycleJobGate fenced
    job,           \* job[v]: an ordinary Job on the resource
    place,         \* place[v][r]: where the tree of root r is
    left           \* the bounded events still to come

central == <<op, held, erased, outbox, current, rec, receiving>>
agent == <<up, session, claims, run, reports>>
disk == <<journal, fence, place>>
jobs == <<gate, job>>
vars == <<volumes, window, central, agent, disk, jobs, left>>

(* The readers of the operation are the reconciler and, named by their     *)
(* volumes, the handlers of the Agents' reports.                           *)
Reconciler == None

(* One of the bounded events.                                              *)
Happens(what) == left[what] > 0 /\ left' = [left EXCEPT ![what] = @ - 1]

-----------------------------------------------------------------------------
(* The operation's states and its assignments.                             *)

Stopped == {"Blocked", "Failed"}
Steps == [Requested |-> "Quiescing", Quiescing |-> "Quarantining",
          Quarantining |-> "Recoverable", Recoverable |-> "Purging",
          Purging |-> "Finalizing", Finalizing |-> "Completed", Restoring |-> "Completed"]
States == DOMAIN Steps \cup Stopped \cup {"Completed"}

(* valid_deletion_transition                                               *)
CanBecome(from, to) ==
    \/ from \in DOMAIN Steps /\ Steps[from] = to
    \/ from # "Completed" /\ to \in Stopped

(* The Agent's part of a state, and the assignments of an operation: their *)
(* identity is a digest of action, volume, lifecycle generation and retry  *)
(* count.                                                                  *)
ActionOf == [Quarantining |-> "quarantine", Purging |-> "purge", Restoring |-> "restore"]
Command(o, v) == [action |-> ActionOf[o.state], volume |-> v, gen |-> o.gen, retry |-> o.retry]
Commands(o) ==
    IF o.state \in DOMAIN ActionOf THEN {Command(o, v) : v \in volumes} ELSE {}

(* transition_deletion_transaction: what a transition stores.  Entering    *)
(* Quarantining and Completed moves the targets to a new lifecycle         *)
(* generation.                                                             *)
Transitioned(next) ==
    [op EXCEPT
        !.state = next,
        !.resume = IF next \notin Stopped THEN None
                   ELSE IF op.state \in Stopped THEN @ ELSE op.state,
        !.gen = IF next \in {"Quarantining", "Completed"} THEN @ + 1 ELSE @,
        !.completion = IF next # "Completed" THEN @
                       ELSE IF op.state = "Restoring" THEN "Restored" ELSE "Purged"]

(* ... and when it is accepted: the caller's copy is current, and the      *)
(* transaction that enters Purging looks at the window and the holds again.*)
MayTransition(who, from, next) ==
    /\ who \in current
    /\ op.state = from /\ CanBecome(from, next)
    /\ next = "Purging" => ~window /\ ~held

(* A write of the operation moves its resource_version.                    *)
Store(o) == op' = o /\ current' = {}

-----------------------------------------------------------------------------
(* Requests of users and the passing of time.                              *)

(* Mutant: a restore is accepted after the recovery window.                *)
RestoreDeletion_AnyTime ==
    /\ Happens("restores")
    /\ op.state \in {"Recoverable"} \cup Stopped
    /\ Store([op EXCEPT !.state = "Restoring", !.gen = @ + 1, !.resume = None])
    /\ UNCHANGED <<volumes, window, held, erased, outbox, rec, receiving, agent, disk, jobs>>

(* restore_deletion_transaction                                            *)
RestoreDeletion ==
    /\ Happens("restores")
    /\ op.state \in {"Recoverable"} \cup Stopped /\ window
    /\ Store([op EXCEPT !.state = "Restoring", !.gen = @ + 1, !.resume = None])
    /\ UNCHANGED <<volumes, window, held, erased, outbox, rec, receiving, agent, disk, jobs>>

(* Mutant: the state to resume stays on the record.                        *)
RetryDeletion_KeepsResume ==
    /\ Happens("retries")
    /\ op.state \in Stopped
    /\ Store([op EXCEPT !.state = op.resume, !.retry = @ + 1])
    /\ UNCHANGED <<volumes, window, held, erased, outbox, rec, receiving, agent, disk, jobs>>

(* retry_deletion_transaction                                              *)
RetryDeletion ==
    /\ Happens("retries")
    /\ op.state \in Stopped
    /\ Store([op EXCEPT !.state = op.resume, !.resume = None, !.retry = @ + 1])
    /\ UNCHANGED <<volumes, window, held, erased, outbox, rec, receiving, agent, disk, jobs>>

(* create_retention_hold_transaction and release_retention_hold_transaction*)
CreateHold ==
    /\ Happens("holds")
    /\ op.state \notin {"Purging", "Finalizing", "Completed"}
    /\ held' = TRUE
    /\ Store(op)
    /\ UNCHANGED <<volumes, window, erased, outbox, rec, receiving, agent, disk, jobs>>

ReleaseHold ==
    /\ held
    /\ held' = FALSE
    /\ Store(op)
    /\ UNCHANGED <<volumes, window, erased, outbox, rec, receiving, agent, disk, jobs, left>>

(* A hold expires without a write: retention_hold_is_active.               *)
HoldExpires ==
    /\ held
    /\ held' = FALSE
    /\ UNCHANGED <<volumes, window, op, erased, outbox, current, rec, receiving, agent, disk,
                   jobs, left>>

WindowElapses ==
    /\ window
    /\ window' = FALSE
    /\ UNCHANGED <<volumes, central, agent, disk, jobs, left>>

(* The deadline of an assignment (ASSIGNMENT_DEADLINE_MS) passes.          *)
AssignmentExpires(a) ==
    /\ ~outbox[a].late /\ ~outbox[a].retired
    /\ outbox' = [outbox EXCEPT ![a].late = TRUE]
    /\ UNCHANGED <<volumes, window, op, held, erased, current, rec, receiving, agent, disk, jobs,
                   left>>

-----------------------------------------------------------------------------
(* Central's reconciler: reconcile_once takes a copy of the operation and  *)
(* runs reconcile_operation on it.                                         *)

Idle == [at |-> "idle", seen |-> None, next |-> None]
central_but_rec == <<op, held, outbox, receiving>>

ReconcileBegins ==
    /\ rec.at = "idle" /\ op.state \in DOMAIN Steps
    /\ rec' = [at |-> "ensure", seen |-> op, next |-> None]
    /\ current' = current \cup {Reconciler}
    /\ UNCHANGED <<volumes, window, central_but_rec, erased, agent, disk, jobs, left>>

(* ensure_assignments, one volume at a time: enqueue what is missing, then *)
(* publish it.  The outbox refuses a command whose generation is not the   *)
(* stored operation's; the pass then ends.                                 *)
EnqueueAssignment(v) ==
    LET a == Command(rec.seen, v) IN
    /\ rec.at = "ensure" /\ v \in volumes /\ rec.seen.state \in DOMAIN ActionOf
    /\ a \notin DOMAIN outbox
    /\ IF op.state # "Completed" /\ op.gen = a.gen
       THEN /\ outbox' = [b \in DOMAIN outbox \cup {a} |->
                            IF b = a THEN [session |-> session[v], published |-> FALSE,
                                           retired |-> FALSE, late |-> FALSE]
                            ELSE outbox[b]]
            /\ UNCHANGED <<rec, current>>
       ELSE /\ rec' = Idle /\ current' = current \ {Reconciler}
            /\ UNCHANGED outbox
    /\ UNCHANGED <<volumes, window, op, held, erased, receiving, agent, disk, jobs, left>>

PublishAssignment(a) ==
    /\ rec.at = "ensure" /\ a \in Commands(rec.seen)
    /\ ~outbox[a].published
    /\ outbox' = [outbox EXCEPT ![a].published = TRUE]
    /\ UNCHANGED <<volumes, window, op, held, erased, current, rec, receiving, agent, disk, jobs,
                   left>>

(* assignments_complete looks at the commands in order and stops at the    *)
(* first that is not retired: an error if its deadline has passed, not     *)
(* complete yet otherwise.                                                 *)
Unretired(o) == {a \in Commands(o) : ~outbox[a].retired}
FirstUnretired(o) == CHOOSE a \in Unretired(o) : \A b \in Unretired(o) : a.volume <= b.volume

(* Mutant: a command whose deadline passed keeps waiting.                  *)
AssignmentsOutcome_NoDeadline(o) ==
    IF Unretired(o) = {} THEN "complete" ELSE "waiting"

AssignmentsOutcome(o) ==
    IF Unretired(o) = {} THEN "complete"
    ELSE IF outbox[FirstUnretired(o)].late THEN "expired" ELSE "waiting"

(* What reconcile_operation does with its copy: the state it will write,   *)
(* or None to leave the operation alone.                                   *)
Decision(o) ==
    CASE o.state = "Recoverable" -> IF window \/ held THEN None ELSE "Purging"
      [] o.state \in DOMAIN ActionOf ->
            CASE AssignmentsOutcome(o) = "complete" -> Steps[o.state]
              [] AssignmentsOutcome(o) = "expired" -> "Blocked"
              [] OTHER -> None
      [] OTHER -> Steps[o.state]

AllPublished(o) == \A a \in Commands(o) : a \in DOMAIN outbox /\ outbox[a].published

(* Finalizing erases the metadata (ensure_authority_action) before the     *)
(* transition is written.                                                  *)
ReconcileDecides ==
    /\ rec.at = "ensure"
    /\ AllPublished(rec.seen)
    /\ LET next == Decision(rec.seen) IN
        /\ erased' = (erased \/ rec.seen.state = "Finalizing")
        /\ IF next = None
           THEN rec' = Idle /\ current' = current \ {Reconciler}
           ELSE rec' = [rec EXCEPT !.at = "write", !.next = next] /\ UNCHANGED current
    /\ UNCHANGED <<volumes, window, central_but_rec, agent, disk, jobs, left>>

(* The commands are put together twice, before the first is enqueued and   *)
(* when their outcome is looked at.  That fails, and the operation will be *)
(* blocked, when a volume has no enrolled Agent, instance or session, when *)
(* the inventory is empty or when a replica is the only one.               *)
CommandsRefused ==
    /\ Happens("refusals")
    /\ \/ /\ rec.at = "idle" /\ op.state \in DOMAIN ActionOf
          /\ rec' = [at |-> "write", seen |-> op, next |-> "Blocked"]
          /\ current' = current \cup {Reconciler}
       \/ /\ rec.at = "ensure" /\ rec.seen.state \in DOMAIN ActionOf /\ AllPublished(rec.seen)
          /\ rec' = [rec EXCEPT !.at = "write", !.next = "Blocked"]
          /\ UNCHANGED current
    /\ UNCHANGED <<volumes, window, central_but_rec, erased, agent, disk, jobs>>

ReconcileWrites ==
    /\ rec.at = "write"
    /\ IF MayTransition(Reconciler, rec.seen.state, rec.next)
       THEN Store(Transitioned(rec.next))
       ELSE UNCHANGED op /\ current' = current \ {Reconciler}
    /\ rec' = Idle
    /\ UNCHANGED <<volumes, window, held, erased, outbox, receiving, agent, disk, jobs, left>>

(* A pass is cut short: Central stops, or another operation's error ends   *)
(* reconcile_once.                                                         *)
ReconcileInterrupted ==
    /\ Happens("interrupts")
    /\ rec.at # "idle"
    /\ rec' = Idle /\ current' = current \ {Reconciler}
    /\ UNCHANGED <<volumes, window, central_but_rec, erased, agent, disk, jobs>>

-----------------------------------------------------------------------------
(* receive_lifecycle_report.  A report of another session is rejected for  *)
(* good, which drops it from the Agent's queue; a success retires its      *)
(* assignment at once.  A failure first moves the operation, from the copy *)
(* the handler read, and retires the assignment after that; a conflict is  *)
(* retryable and the Agent sends the report again.                         *)

Drop(v, r) == reports' = [reports EXCEPT ![v] = @ \ {r}]
Retire(a) == outbox' = [outbox EXCEPT ![a].retired = TRUE]

ReceiveReport(v) ==
    /\ up[v] /\ receiving[v] = None
    /\ \E r \in reports[v] :
        \/ /\ r.session # session[v] \/ outbox[r.cmd].retired
           /\ Drop(v, r)
           /\ UNCHANGED <<outbox, receiving, current>>
        \/ /\ r.session = session[v] /\ ~outbox[r.cmd].retired /\ r.result = "done"
           /\ Retire(r.cmd) /\ Drop(v, r)
           /\ UNCHANGED <<receiving, current>>
        \/ /\ r.session = session[v] /\ ~outbox[r.cmd].retired /\ r.result # "done"
           /\ receiving' = [receiving EXCEPT
                              ![v] = [report |-> r, seen |-> op.state, stopped |-> FALSE]]
           /\ current' = current \cup {v}
           /\ UNCHANGED <<outbox, reports>>
    /\ UNCHANGED <<volumes, window, op, held, erased, rec, up, session, claims, run, disk, jobs,
                   left>>

StopOf == [blocked |-> "Blocked", failed |-> "Failed"]

(* Mutant: a failed report only retires its command.                       *)
FailureReceived_OnlyRetires(v) ==
    /\ receiving[v] # None /\ ~receiving[v].stopped
    /\ current' = current \ {v}
    /\ receiving' = [receiving EXCEPT ![v].stopped = TRUE]
    /\ UNCHANGED <<volumes, window, op, held, erased, outbox, rec, agent, disk, jobs, left>>

(* The transition: one that finds the operation stopped the same way is    *)
(* already made, a completed operation rejects the report for good.        *)
FailureReceived(v) ==
    /\ receiving[v] # None /\ ~receiving[v].stopped
    /\ LET r == receiving[v].report
           next == StopOf[r.result]
           stops == receiving' = [receiving EXCEPT ![v].stopped = TRUE]
           ends == receiving' = [receiving EXCEPT ![v] = None]
       IN \/ /\ v \in current /\ op.state = next
             /\ UNCHANGED <<op, reports>> /\ current' = current \ {v} /\ stops
          \/ /\ op.state # next /\ MayTransition(v, receiving[v].seen, next)
             /\ Store(Transitioned(next)) /\ UNCHANGED reports /\ stops
          \/ /\ v \in current /\ op.state = "Completed"
             /\ Drop(v, r)
             /\ UNCHANGED op /\ current' = current \ {v} /\ ends
          \/ /\ v \notin current
             /\ UNCHANGED <<reports, op, current>> /\ ends
    /\ UNCHANGED <<volumes, window, held, erased, outbox, rec, up, session, claims, run, disk,
                   jobs, left>>

(* ... and the end of the handler, some time later: the assignment is      *)
(* retired and the report acknowledged.                                    *)
FailureRetires(v) ==
    /\ receiving[v] # None /\ receiving[v].stopped
    /\ Retire(receiving[v].report.cmd) /\ Drop(v, receiving[v].report)
    /\ receiving' = [receiving EXCEPT ![v] = None]
    /\ UNCHANGED <<volumes, window, op, held, erased, current, rec, up, session, claims, run,
                   disk, jobs, left>>

-----------------------------------------------------------------------------
(* The Agent.  Its dispatcher runs the commands of one deletion one after  *)
(* the other.  handle_lifecycle_assignment: check session and deadline,    *)
(* claim, fence, execute, complete the claim, queue the report.            *)

Deliverable(v, a) ==
    /\ a.volume = v /\ outbox[a].published /\ ~outbox[a].retired
    /\ outbox[a].session = session[v] /\ ~outbox[a].late
    /\ up[v] /\ run[v] = None

Claimed(v) == {c.cmd : c \in claims[v]}

ClaimAssignment(v, a) ==
    /\ Deliverable(v, a) /\ a \notin Claimed(v)
    /\ claims' = [claims EXCEPT ![v] =
                    @ \cup {[cmd |-> a, session |-> session[v], result |-> None]}]
    /\ run' = [run EXCEPT ![v] = [cmd |-> a, at |-> "fence", root |-> 1, result |-> None]]
    /\ UNCHANGED <<volumes, window, central, up, session, reports, disk, jobs, left>>

(* A redelivered command that is complete: its report is queued again.     *)
ReplayReport(v, a) ==
    /\ Deliverable(v, a)
    /\ \E c \in claims[v] :
        /\ c.cmd = a /\ c.result # None
        /\ reports' = [reports EXCEPT ![v] = @ \cup {c}]
        /\ gate' = [gate EXCEPT ![v] = @ /\ ~(a.action = "restore" /\ c.result = "done")]
    /\ UNCHANGED <<volumes, window, central, up, session, claims, run, disk, job, left>>

(* The next point of the running command, or its end with a result.        *)
Continue(v, at, root) == run' = [run EXCEPT ![v].at = at, ![v].root = root]
Finish(v, result) == run' = [run EXCEPT ![v].at = "finish", ![v].result = result]

NewJournal == [state |-> "Fenced", present |-> [r \in Roots |-> "unknown"], purged |-> {}]
Inventoried(v) == \A r \in Roots : journal[v].present[r] # "unknown"

(* Mutant: running Jobs do not hold the fence back.                        *)
FenceJobs_NotCounted(v) ==
    /\ run[v] # None /\ run[v].at = "fence"
    /\ gate' = [gate EXCEPT ![v] = TRUE]
    /\ LET a == run[v].cmd IN
        IF a.action = "restore" THEN UNCHANGED <<journal, fence>>
        ELSE /\ journal' = [journal EXCEPT ![v] = IF @ = None THEN NewJournal ELSE @]
             /\ fence' = [fence EXCEPT ![v] = IF @ = None THEN a.gen ELSE @]
    /\ Continue(v, "start", 1)
    /\ UNCHANGED <<volumes, window, central, up, session, claims, reports, place, job, left>>

(* LifecycleJobGate::fence and prepare_fence.  Jobs that are still active  *)
(* block the command.  A durable fence of another generation refuses it.   *)
FenceJobs(v) ==
    /\ run[v] # None /\ run[v].at = "fence"
    /\ gate' = [gate EXCEPT ![v] = TRUE]
    /\ LET a == run[v].cmd
           busy == job[v] # "idle"
       IN IF a.action = "restore"
          THEN /\ IF busy THEN Finish(v, "blocked") ELSE Continue(v, "start", 1)
               /\ UNCHANGED <<journal, fence>>
          ELSE /\ journal' = [journal EXCEPT ![v] = IF @ = None THEN NewJournal ELSE @]
               /\ fence' = [fence EXCEPT ![v] = IF @ = None THEN a.gen ELSE @]
               /\ IF fence[v] \notin {None, a.gen} THEN Finish(v, "failed")
                  ELSE IF busy THEN Finish(v, "blocked") ELSE Continue(v, "start", 1)
    /\ UNCHANGED <<volumes, window, central, up, session, claims, reports, place, job, left>>

(* execute: each action first looks at the journal.  A repeated action is  *)
(* done, one that comes after a later phase or without an inventory is     *)
(* refused, and the phase is recorded before any tree is touched.          *)
Begun(v, action) ==
    run[v] # None /\ run[v].at = "start" /\ run[v].cmd.action = action

QuarantineBegins(v) ==
    /\ Begun(v, "quarantine")
    /\ \/ /\ journal[v].state = "Quarantined" /\ Finish(v, "done") /\ UNCHANGED journal
       \/ /\ journal[v].state \in {"Restoring", "Restored", "Purging", "Purged"}
          /\ Finish(v, "blocked") /\ UNCHANGED journal
       \/ /\ journal[v].state \in {"Fenced", "Quarantining"}
          /\ journal' = [journal EXCEPT ![v].state = "Quarantining"]
          /\ Continue(v, "move", 1)
    /\ UNCHANGED <<volumes, window, central, up, session, claims, reports, fence, place, jobs,
                   left>>

RestoreBegins(v) ==
    /\ Begun(v, "restore")
    /\ \/ /\ journal[v] # None /\ journal[v].state = "Restored"
          /\ Finish(v, "done") /\ UNCHANGED journal
       \/ /\ \/ journal[v] = None
             \/ journal[v] # None /\ journal[v].state \in {"Purging", "Purged"}
             \/ journal[v] # None /\ ~Inventoried(v)
          /\ Finish(v, "blocked") /\ UNCHANGED journal
       \/ /\ journal[v] # None /\ Inventoried(v)
          /\ journal[v].state \notin {"Restored", "Purging", "Purged"}
          /\ journal' = [journal EXCEPT ![v].state = "Restoring"]
          /\ Continue(v, "move", 1)
    /\ UNCHANGED <<volumes, window, central, up, session, claims, reports, fence, place, jobs,
                   left>>

PurgeBegins(v) ==
    /\ Begun(v, "purge")
    /\ \/ /\ journal[v].state = "Purged" /\ Finish(v, "done") /\ UNCHANGED journal
       \/ /\ journal[v].state = "Restored" \/ (journal[v].state # "Purged" /\ ~Inventoried(v))
          /\ Finish(v, "blocked") /\ UNCHANGED journal
       \/ /\ journal[v].state \notin {"Restored", "Purged"} /\ Inventoried(v)
          /\ journal' = [journal EXCEPT ![v].state = "Purging"]
          /\ Continue(v, "move", 1)
    /\ UNCHANGED <<volumes, window, central, up, session, claims, reports, fence, place, jobs,
                   left>>

(* The trees, root by root.  quarantine renames the active tree away and   *)
(* then records that it was there; a crash between the two is found again  *)
(* from where the tree is.                                                 *)
Moving(v, action) ==
    run[v] # None /\ run[v].at = "move" /\ run[v].cmd.action = action /\ run[v].root \in Roots
Put(v, r, where) == place' = [place EXCEPT ![v][r] = where]

QuarantineRoot(v) ==
    /\ Moving(v, "quarantine")
    /\ LET r == run[v].root
           was == journal[v].present[r]
           there == place[v][r]
       IN \/ /\ \/ there = {"active", "quarantine"}
                \/ was = "absent" /\ there # {}
                \/ was = "present" /\ there = {}
             /\ Finish(v, "blocked") /\ UNCHANGED place
          \/ /\ there = {"active"} /\ was # "absent"
             /\ Put(v, r, {"quarantine"}) /\ Continue(v, "record", r)
          \/ /\ there = {"quarantine"} /\ was # "absent"
             /\ Continue(v, "record", r) /\ UNCHANGED place
          \/ /\ there = {} /\ was # "present"
             /\ Continue(v, "record", r) /\ UNCHANGED place
    /\ UNCHANGED <<volumes, window, central, up, session, claims, reports, journal, fence, jobs,
                   left>>

QuarantineRecords(v) ==
    /\ run[v] # None /\ run[v].at = "record" /\ run[v].cmd.action = "quarantine"
    /\ LET r == run[v].root IN
        /\ journal' = [journal EXCEPT
             ![v].present[r] = IF place[v][r] = {} THEN "absent" ELSE "present"]
        /\ Continue(v, "move", r + 1)
    /\ UNCHANGED <<volumes, window, central, up, session, claims, reports, fence, place, jobs,
                   left>>

QuarantineEnds(v) ==
    /\ run[v] # None /\ run[v].at = "move" /\ run[v].cmd.action = "quarantine"
    /\ run[v].root \notin Roots
    /\ journal' = [journal EXCEPT ![v].state = "Quarantined"]
    /\ Finish(v, "done")
    /\ UNCHANGED <<volumes, window, central, up, session, claims, reports, fence, place, jobs,
                   left>>

RestoreRoot(v) ==
    /\ Moving(v, "restore")
    /\ LET r == run[v].root
           was == journal[v].present[r]
           there == place[v][r]
       IN \/ /\ \/ was = "absent" /\ there # {}
                \/ was = "present" /\ there \in {{}, {"active", "quarantine"}}
             /\ Finish(v, "blocked") /\ UNCHANGED place
          \/ /\ was = "present" /\ there = {"quarantine"}
             /\ Put(v, r, {"active"}) /\ Continue(v, "move", r + 1)
          \/ /\ <<was, there>> \in {<<"absent", {}>>, <<"present", {"active"}>>}
             /\ Continue(v, "move", r + 1) /\ UNCHANGED place
    /\ UNCHANGED <<volumes, window, central, up, session, claims, reports, journal, fence, jobs,
                   left>>

(* SnapshotDeliveryMountManager::lifecycle_restore removes the fence, which*)
(* must be there and have the generation of the command.                   *)
RestoreEnds(v) ==
    /\ run[v] # None /\ run[v].at = "move" /\ run[v].cmd.action = "restore"
    /\ run[v].root \notin Roots
    /\ IF fence[v] = run[v].cmd.gen
       THEN /\ fence' = [fence EXCEPT ![v] = None]
            /\ journal' = [journal EXCEPT ![v].state = "Restored"]
            /\ Finish(v, "done")
       ELSE /\ Finish(v, IF fence[v] = None THEN "blocked" ELSE "failed")
            /\ UNCHANGED <<fence, journal>>
    /\ UNCHANGED <<volumes, window, central, up, session, claims, reports, place, jobs, left>>

(* purge records the evidence of a tree before it destroys it, and takes   *)
(* the evidence for a tree that is gone.                                   *)
PurgeRoot(v) ==
    /\ Moving(v, "purge")
    /\ LET r == run[v].root
           kept == "quarantine" \in place[v][r]
           proven == r \in journal[v].purged
       IN \/ /\ journal[v].present[r] = "absent" \/ (~kept /\ proven)
             /\ Continue(v, "move", r + 1) /\ UNCHANGED <<journal, place>>
          \/ /\ journal[v].present[r] # "absent" /\ ~kept /\ ~proven
             /\ Finish(v, "blocked") /\ UNCHANGED <<journal, place>>
          \/ /\ journal[v].present[r] # "absent" /\ kept /\ ~proven
             /\ journal' = [journal EXCEPT ![v].purged = @ \cup {r}]
             /\ UNCHANGED <<place, run>>
          \/ /\ journal[v].present[r] # "absent" /\ kept /\ proven
             /\ Put(v, r, place[v][r] \ {"quarantine"}) /\ Continue(v, "move", r + 1)
             /\ UNCHANGED journal
    /\ UNCHANGED <<volumes, window, central, up, session, claims, reports, fence, jobs, left>>

PurgeEnds(v) ==
    /\ run[v] # None /\ run[v].at = "move" /\ run[v].cmd.action = "purge"
    /\ run[v].root \notin Roots
    /\ journal' = [journal EXCEPT ![v].state = "Purged"]
    /\ Finish(v, "done")
    /\ UNCHANGED <<volumes, window, central, up, session, claims, reports, fence, place, jobs,
                   left>>

(* The claim is completed, then the report is queued and a restore opens   *)
(* the gate again.                                                         *)
CompleteClaim(v) ==
    /\ run[v] # None /\ run[v].at = "finish"
    /\ claims' = [claims EXCEPT ![v] =
            {IF c.cmd = run[v].cmd THEN [c EXCEPT !.result = run[v].result] ELSE c : c \in @}]
    /\ Continue(v, "report", run[v].root)
    /\ UNCHANGED <<volumes, window, central, up, session, reports, disk, jobs, left>>

QueueReport(v) ==
    /\ run[v] # None /\ run[v].at = "report"
    /\ LET c == CHOOSE c \in claims[v] : c.cmd = run[v].cmd IN
        /\ reports' = [reports EXCEPT ![v] = @ \cup {c}]
        /\ gate' = [gate EXCEPT ![v] = @ /\ ~(c.cmd.action = "restore" /\ c.result = "done")]
    /\ run' = [run EXCEPT ![v] = None]
    /\ UNCHANGED <<volumes, window, central, up, session, claims, disk, job, left>>

-----------------------------------------------------------------------------
(* The Agent's process.  A crash loses what is in memory: the gate, the    *)
(* running command and the Jobs.  A start opens a new session and then     *)
(* fences the unfinished commands again (prepare_fence); the fence refuses *)
(* a command of another session, and with it the start.                    *)

AgentCrashes(v) ==
    /\ Happens("crashes")
    /\ up[v] /\ session[v] < MaxSession
    /\ up' = [up EXCEPT ![v] = FALSE]
    /\ run' = [run EXCEPT ![v] = None]
    /\ gate' = [gate EXCEPT ![v] = FALSE]
    /\ job' = [job EXCEPT ![v] = "idle"]
    /\ UNCHANGED <<volumes, window, central, session, claims, reports, disk>>

Unfinished(v) == {c \in claims[v] : c.result = None /\ c.cmd.action # "restore"}

AgentStarts(v) ==
    /\ ~up[v]
    /\ session' = [session EXCEPT ![v] = IF @ < MaxSession THEN @ + 1 ELSE @]
    /\ journal' = [journal EXCEPT ![v] =
                     IF @ = None /\ Unfinished(v) # {} THEN NewJournal ELSE @]
    /\ up' = [up EXCEPT ![v] = \A c \in Unfinished(v) : c.session = session'[v]]
    /\ UNCHANGED <<volumes, window, central, claims, run, reports, fence, place, jobs, left>>

-----------------------------------------------------------------------------
(* An ordinary Job on the resource (handle_assignment, recover_assignment):*)
(* it enters the gate, then asks the durable fence, then works on the      *)
(* active trees.                                                           *)

JobBegins(v) ==
    /\ Happens("jobs")
    /\ up[v] /\ v \in volumes /\ job[v] = "idle" /\ ~gate[v]
    /\ job' = [job EXCEPT ![v] = "begun"]
    /\ UNCHANGED <<volumes, window, central, agent, disk, gate>>

JobAdmitted(v) ==
    /\ job[v] = "begun"
    /\ job' = [job EXCEPT ![v] = IF fence[v] = None THEN "running" ELSE "idle"]
    /\ UNCHANGED <<volumes, window, central, agent, disk, gate, left>>

JobEnds(v) ==
    /\ job[v] = "running"
    /\ \E r \in Roots : Put(v, r, place[v][r] \cup {"active"})
    /\ job' = [job EXCEPT ![v] = "idle"]
    /\ UNCHANGED <<volumes, window, central, agent, journal, fence, gate, left>>

-----------------------------------------------------------------------------
(* create_deletion_transaction has stored the operation and fenced the     *)
(* resource in the catalog; the Agents run.                                *)
Init ==
    /\ op = [state |-> "Requested", resume |-> None, completion |-> None, gen |-> 1, retry |-> 0]
    /\ window = TRUE /\ held = FALSE /\ erased = FALSE
    /\ outbox = [a \in {} |-> None]
    /\ current = {} /\ rec = Idle
    /\ receiving = [v \in Volumes |-> None]
    /\ up = [v \in Volumes |-> TRUE] /\ session = [v \in Volumes |-> 1]
    /\ claims = [v \in Volumes |-> {}] /\ run = [v \in Volumes |-> None]
    /\ reports = [v \in Volumes |-> {}]
    /\ journal = [v \in Volumes |-> None] /\ fence = [v \in Volumes |-> None]
    /\ gate = [v \in Volumes |-> FALSE] /\ job = [v \in Volumes |-> "idle"]
    /\ \E c \in Scenarios :
        /\ volumes = c.volumes /\ left = c.left
        /\ place = [v \in Volumes |->
                     [r \in Roots |-> IF r \in c.absent THEN {} ELSE {"active"}]]

UserStep == RestoreDeletion \/ RetryDeletion \/ CreateHold \/ ReleaseHold
TimeStep == HoldExpires \/ WindowElapses \/ \E a \in DOMAIN outbox : AssignmentExpires(a)
ReconcileStep ==
    \/ ReconcileBegins \/ ReconcileDecides \/ ReconcileWrites
    \/ \E v \in Volumes : EnqueueAssignment(v)
    \/ \E a \in DOMAIN outbox : PublishAssignment(a)
ReportStep(v) == ReceiveReport(v) \/ FailureReceived(v) \/ FailureRetires(v)
ExecuteStep(v) ==
    \/ FenceJobs(v) \/ QuarantineBegins(v) \/ RestoreBegins(v) \/ PurgeBegins(v)
    \/ QuarantineRoot(v) \/ QuarantineRecords(v) \/ QuarantineEnds(v) \/ RestoreRoot(v)
    \/ RestoreEnds(v) \/ PurgeRoot(v) \/ PurgeEnds(v) \/ CompleteClaim(v) \/ QueueReport(v)
ClaimStep(v) == \E a \in DOMAIN outbox : ClaimAssignment(v, a) \/ ReplayReport(v, a)
JobStep(v) == JobBegins(v) \/ JobAdmitted(v) \/ JobEnds(v)

Next ==
    \/ UserStep \/ TimeStep \/ ReconcileStep \/ CommandsRefused \/ ReconcileInterrupted
    \/ \E v \in Volumes :
        \/ ReportStep(v) \/ ClaimStep(v) \/ ExecuteStep(v) \/ JobStep(v)
        \/ AgentCrashes(v) \/ AgentStarts(v)

(* Fairness: Central's lifecycle worker polls and its handlers finish, an  *)
(* Agent that runs executes what it has claimed and is restarted by its    *)
(* supervisor when it has stopped, deadlines pass.  Nothing makes a user   *)
(* act, a hold end or a Job arrive.                                        *)
Fairness ==
    /\ WF_vars(ReconcileStep)
    /\ WF_vars(\E a \in DOMAIN outbox : AssignmentExpires(a))
    /\ \A v \in Volumes :
        /\ WF_vars(ReportStep(v)) /\ WF_vars(ExecuteStep(v))
        /\ WF_vars(AgentStarts(v))

Spec == Init /\ [][Next]_vars /\ Fairness

-----------------------------------------------------------------------------
(* Properties.                                                             *)

CommandSet == [action : {"quarantine", "purge", "restore"}, volume : Volumes, gen : Nat,
               retry : Nat]
Results == {None, "done", "blocked", "failed"}
ClaimSet == [cmd : CommandSet, session : 1 .. MaxSession, result : Results]
JournalSet == [state : {"Fenced", "Quarantining", "Quarantined", "Restoring", "Restored",
                        "Purging", "Purged"},
               present : [Roots -> {"unknown", "present", "absent"}], purged : SUBSET Roots]

(* No value of a record is mistaken for an absent one.                     *)
ASSUME NoneAssumption ==
    /\ None \notin Nat
    /\ None \notin States \cup {"Restored", "Purged", "done", "blocked", "failed"}
    /\ None \notin JournalSet

(* The shape of the records Central and the Agents store; an operation has *)
(* a state to resume exactly when it is stopped, and a completion exactly  *)
(* when it is completed.                                                   *)
TypeOK ==
    /\ op.state \in States /\ op.gen \in Nat /\ op.retry \in Nat
    /\ op.resume \in DOMAIN Steps \cup {None} /\ (op.resume # None) = (op.state \in Stopped)
    /\ op.completion \in {None, "Restored", "Purged"}
    /\ (op.completion # None) = (op.state = "Completed")
    /\ \A a \in DOMAIN outbox :
        /\ a \in CommandSet
        /\ outbox[a] \in [session : 1 .. MaxSession, published : BOOLEAN, retired : BOOLEAN,
                          late : BOOLEAN]
    /\ current \subseteq Volumes \cup {Reconciler}
    /\ rec.at \in {"idle", "ensure", "write"}
    /\ \A v \in Volumes :
        /\ session[v] \in 1 .. MaxSession
        /\ claims[v] \subseteq ClaimSet /\ reports[v] \subseteq claims[v]
        /\ journal[v] \in JournalSet \cup {None}
        /\ fence[v] \in Nat \cup {None}
        /\ job[v] \in {"idle", "begun", "running"}
        /\ run[v] # None => run[v].cmd \in Claimed(v) /\ up[v]
    /\ place \in [Volumes -> [Roots -> SUBSET {"active", "quarantine"}]]

(* The catalog's metadata is erased (finalize_metadata) only when no volume*)
(* keeps a tree of the resource: a report that failed, or that belongs to  *)
(* an earlier attempt or an earlier session, never stands for a purge.     *)
ErasedIsPurged ==
    erased => \A v \in volumes, r \in Roots : place[v][r] = {}

(* A tree is destroyed only by an operation that has entered Purging, and  *)
(* from there nothing leads back: an operation that is restoring, has been *)
(* restored or may still be restored has every tree it began with.         *)
Destroyed(v) == journal[v] # None /\ \E r \in journal[v].purged : place[v][r] = {}
DestroyedPastRecovery ==
    (\E v \in volumes : Destroyed(v)) =>
        /\ \/ op.state \in {"Purging", "Finalizing"}
           \/ op.state \in Stopped /\ op.resume \in {"Purging", "Finalizing"}
           \/ op.completion = "Purged"
        /\ ~window

(* While a Job of the Agent works on the resource none of its trees is in  *)
(* quarantine, whatever crashes and restarts come between: the gate is in  *)
(* memory, the fence is on disk, and a Job passes both.                    *)
NoJobOnQuarantined ==
    \A v \in volumes :
        job[v] = "running" => \A r \in Roots : "quarantine" \notin place[v][r]

(* An operation that has work to do does not stay in that state: it comes  *)
(* to rest in Recoverable, Completed, Blocked or Failed, also when an      *)
(* Agent is gone, its reports are rejected or the pass is interrupted.     *)
Busy == {"Requested", "Quiescing", "Quarantining", "Purging", "Finalizing", "Restoring"}
OperationSettles == op.state \in Busy ~> op.state \notin Busy

(* A volume whose trees were all inventoried by the quarantine is restored *)
(* by the Restore command: the Agent does not refuse it for good.          *)
RestoreNotRefused ==
    \A v \in volumes : \A c \in claims[v] :
        c.cmd.action = "restore" => c.result # "failed"
=============================================================================
