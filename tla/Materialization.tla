--------------------------- MODULE Materialization ---------------------------
(***************************************************************************)
(* One Commit materialization: Central copies the objects of a Commit from *)
(* the StorageVolumes that hold them to a target StorageVolume.  The job   *)
(* has a plan (a revision, one task per object, one batch per source), the *)
(* plan's batches are delivered to the target's Agent, and the Agent's     *)
(* receipts turn into Placements (neoengram-central:                       *)
(* service/materialization.rs, control_plane.rs,                           *)
(* mapper/sqlite/placement.rs; neoengram-agent: replication.rs).           *)
(*                                                                         *)
(* Four requests run concurrently at Central: the planner of a create or   *)
(* a retry, the delivery loop of the Agent's session, the handler of the   *)
(* Agent's reports, and a cancellation.  Each is a sequence of repository  *)
(* calls, and any of them may be abandoned between two calls.  Receipts,   *)
(* plan installations and job updates are serialised by                    *)
(* materialization_receipt_gate and are one step.  A batch update          *)
(* (replace_materialization_batch) is two: it reads and checks the row,    *)
(* then updates it wherever revision and attempt match.                    *)
(*                                                                         *)
(* Abstractions: the goal is complete coverage; an object's attempt equals *)
(* its plan's revision, so only the revision is kept; byte offsets,        *)
(* manifests, tickets and the operation task that mirrors the job are left *)
(* out; the volume keeps its owner, so the placement generation is fixed.  *)
(* A create that is refused for the target's free space changes none of    *)
(* this and is left out.                                                   *)
(***************************************************************************)
EXTENDS Integers, Sequences, FiniteSets, SequencesExt

CONSTANTS
    None,
    Objects,           \* objects of the Commit, by ordinal
    Sources,           \* source volumes, numbered in the order of their keys
    Scenarios          \* the cases to explore, records of
                       \*   layout:  the objects each source holds
                       \*   target:  the objects the target holds already
                       \*   bounds:  how many plan revisions, sessions of the
                       \*            target's Agent, cancel requests and other
                       \*            events (lost routes, bad scans, failed
                       \*            transfers, abandoned requests) there are

ASSUME ConstantsAssumption ==
    /\ Sources \subseteq Nat /\ Objects \subseteq Nat
    /\ IsFiniteSet(Sources) /\ IsFiniteSet(Objects)
    /\ \A c \in Scenarios :
        /\ c.layout \in [Sources -> SUBSET Objects] /\ c.target \subseteq Objects
        /\ c.bounds \in [revisions : Nat \ {0}, sessions : Nat \ {0}, cancels : Nat, events : Nat]
    /\ None \notin Objects \cup Sources

VARIABLES
    holds,         \* holds[s]: the objects with a Placement on source s
    sick,          \* Placements whose last health observation was bad
    up,            \* sources with an active route
    online,        \* does the target's Agent have an active route
    session,       \* its session generation
    expired,       \* has the deadline of the current plan passed
    job,           \* the MaterializationJob, or None
    task,          \* the MaterializationObject of each object
    batch,         \* the MaterializationBatch of each revision and source
    leases,        \* active read and staging leases: [batch, object]
    present,       \* objects with a Placement on the target
    receipts,      \* stored receipts: [batch, object]
    planner,       \* what a create or retry has read, or None
    delivery,      \* the delivery loop of the Agent's session
    handler,       \* the handler of the Agent's reports
    cancel,        \* the cancellation request
    assigned,      \* assignments the Agent has received and not executed
    completed,     \* batches its dispatcher has completed
    reports,       \* the Agent's durable queue of reports
    left           \* the cancel requests and other events still to come

world == <<holds, sick, up, online, session, expired>>
plan == <<job, task, batch, leases>>
evidence == <<present, receipts>>
requests == <<planner, delivery, handler, cancel>>
agent == <<assigned, completed, reports>>
vars == <<world, plan, evidence, requests, agent, left>>

Target == None

(* One of the bounded events, or of the cancel requests.                   *)
Happens(what) == left[what] > 0 /\ left' = [left EXCEPT ![what] = @ - 1]

-----------------------------------------------------------------------------
(* The state machines of the protocol.                                     *)

Terminal == {"Complete", "Failed", "Cancelled"}
Ended == {"Succeeded", "Failed"}

JobSteps ==
    ({"Planning"} \X {"WaitingForSources", "Materializing", "Stalled", "Failed", "Cancelled"})
    \cup ({"WaitingForSources"} \X {"Planning", "Materializing", "Stalled", "Failed", "Cancelled"})
    \cup ({"Materializing"} \X {"Planning", "Verifying", "Stalled", "Failed", "Cancelled"})
    \cup ({"Verifying"} \X {"Planning", "Complete", "Stalled", "Failed", "Cancelled"})
    \cup ({"Stalled"} \X {"Planning", "Failed", "Cancelled"})
    \cup {<<"Failed", "Planning">>}

CanBecome(a, b) == a = b \/ <<a, b>> \in JobSteps

BatchSteps ==
    ({"Queued"} \X {"Assigned", "Failed"})
    \cup ({"Assigned"} \X {"Transferring", "Failed"})
    \cup ({"Transferring"} \X {"Verifying", "Failed"})
    \cup ({"Verifying"} \X {"Succeeded", "Failed"})
    \cup {<<"Failed", "Queued">>}

(* A replan is one write that goes through Planning.                       *)
ReplanAllowed(a, b) ==
    \/ a = "Complete" /\ b = "Planning"
    \/ CanBecome(a, b)
    \/ CanBecome(a, "Planning") /\ CanBecome("Planning", b)

Done(t) == t.state \in {"Verified", "AlreadyPresent"}

-----------------------------------------------------------------------------
(* Planning.  A create or retry reads the Placements and their health      *)
(* first and the routes afterwards, computes a plan from this view v, and  *)
(* installs it if the job still has the revision it had then.              *)

TargetPresent == {o \in present : <<Target, o>> \notin sick}
VerifiedSources(o) == {s \in Sources : o \in holds[s] /\ <<s, o>> \notin sick}

Missing(v) == Objects \ v.present
Routed(v, o) == v.verified[o] \cap v.up

(* The greedy cover: each round takes the source with the most objects     *)
(* still uncovered, the first one in key order among equals.               *)
ChooseSources(v) ==
    LET Covers(s, rest) == {o \in rest : s \in Routed(v, o)}
        Best(rest) == CHOOSE s \in Sources :
            \A t \in Sources \ {s} :
                \/ Cardinality(Covers(s, rest)) > Cardinality(Covers(t, rest))
                \/ Cardinality(Covers(s, rest)) = Cardinality(Covers(t, rest)) /\ s < t
        chosen[n \in 0..Cardinality(Sources)] ==
            IF n = 0 THEN <<>>
            ELSE LET earlier == chosen[n - 1]
                     rest == Missing(v) \ DOMAIN earlier
                 IN [o \in DOMAIN earlier \cup Covers(Best(rest), rest) |->
                        IF o \in rest THEN Best(rest) ELSE earlier[o]]
    IN chosen[Cardinality(Sources)]

PlanState(v, chosen) ==
    CASE Missing(v) = {} -> "Complete"
      [] Missing(v) # {} /\ v.from = "Complete" -> "Planning"
      [] Missing(v) # {} /\ v.from # "Complete" ->
            IF \E o \in Missing(v) : v.verified[o] = {} THEN "Failed"
            ELSE IF v.session = None \/ DOMAIN chosen # Missing(v) THEN "WaitingForSources"
            ELSE "Materializing"

(* Mutant: tasks name batches of the revision after the plan.              *)
PlanTasks_NextRevision(v, chosen) ==
    [o \in Objects |->
        CASE o \in v.present -> [state |-> "AlreadyPresent", batch |-> None]
          [] o \in DOMAIN chosen \ v.present ->
                [state |-> "Reserved",
                 batch |-> IF v.session # None THEN <<v.revision + 1, chosen[o]>> ELSE None]
          [] OTHER -> [state |-> "Missing", batch |-> None]]

(* The tasks, batches and leases of a plan.  Batches need a target route;  *)
(* every source of a batched object gets a read lease, its staging area a  *)
(* staging lease.                                                          *)
PlanTasks(v, chosen) ==
    [o \in Objects |->
        CASE o \in v.present -> [state |-> "AlreadyPresent", batch |-> None]
          [] o \in DOMAIN chosen \ v.present ->
                [state |-> "Reserved",
                 batch |-> IF v.session # None THEN <<v.revision, chosen[o]>> ELSE None]
          [] OTHER -> [state |-> "Missing", batch |-> None]]

PlanBatch(source, v, chosen) ==
    [objects |-> {o \in DOMAIN chosen : chosen[o] = source},
     state |-> "Queued", session |-> v.session]

Planned(v, chosen) ==
    IF v.session # None THEN {<<v.revision, chosen[o]>> : o \in DOMAIN chosen} ELSE {}

PlanLeases(v, chosen) ==
    {[batch |-> b, object |-> o] : b \in Planned(v, chosen), o \in DOMAIN chosen}

(* A lease is only granted on a Placement that is readable by now.         *)
LeasesGranted(v, chosen) ==
    Planned(v, chosen) # {} => \A o \in DOMAIN chosen : Routed(v, o) \subseteq VerifiedSources(o)

InstallPlan(v, chosen) ==
    /\ job' = [state |-> PlanState(v, chosen), revision |-> v.revision]
    /\ task' = PlanTasks(v, chosen)
    /\ batch' = [b \in DOMAIN batch |->
            IF b \in Planned(v, chosen) THEN PlanBatch(b[2], v, chosen)
            ELSE IF batch[b] # None /\ batch[b].state \notin Ended
            THEN [batch[b] EXCEPT !.state = "Failed"]
            ELSE batch[b]]
    /\ leases' = {l \in PlanLeases(v, chosen) : l.object \in batch'[l.batch].objects}
    /\ planner' = None

(* A retry of a Complete job that is still covered does nothing.           *)
PlanRead ==
    /\ planner = None
    /\ job # None => left["revisions"] > 0 /\ ~(job.state = "Complete" /\ TargetPresent = Objects)
    /\ planner' = [pc |-> "routes",
                   revision |-> IF job = None THEN 1 ELSE job.revision + 1,
                   from |-> IF job = None THEN None ELSE job.state,
                   present |-> TargetPresent,
                   verified |-> [o \in Objects |-> VerifiedSources(o)],
                   up |-> {}, session |-> None]
    /\ UNCHANGED <<world, plan, evidence, delivery, handler, cancel, agent, left>>

PlanRoutes ==
    /\ planner # None /\ planner.pc = "routes"
    /\ planner' = [planner EXCEPT !.pc = "install", !.up = up,
                                  !.session = IF online THEN session ELSE None]
    /\ UNCHANGED <<world, plan, evidence, delivery, handler, cancel, agent, left>>

(* The plan is refused, or its request is abandoned: nothing has changed.  *)
PlanDropped ==
    /\ planner # None /\ planner' = None
    /\ UNCHANGED <<world, plan, evidence, delivery, handler, cancel, agent, left>>

MaterializeCommit ==
    LET chosen == ChooseSources(planner) IN
    /\ planner # None /\ planner.pc = "install"
    /\ job = None
    /\ LeasesGranted(planner, chosen)
    /\ InstallPlan(planner, chosen)
    /\ UNCHANGED <<world, evidence, delivery, handler, cancel, agent, left>>

(* A completed object may only go back to missing in a repair, which       *)
(* reopens a Complete job.                                                 *)
KeepsProgress(missing) ==
    \/ job.state = "Complete"
    \/ \A o \in missing : ~Done(task[o])

RetryMaterialization ==
    LET chosen == ChooseSources(planner) IN
    /\ planner # None /\ planner.pc = "install"
    /\ job # None /\ planner.revision = job.revision + 1
    /\ LeasesGranted(planner, chosen)
    /\ ReplanAllowed(job.state, PlanState(planner, chosen))
    /\ KeepsProgress(Missing(planner))
    /\ InstallPlan(planner, chosen)
    /\ Happens("revisions")
    /\ expired' = FALSE
    /\ UNCHANGED <<holds, sick, up, online, session, evidence, delivery, handler, cancel, agent>>

-----------------------------------------------------------------------------
(* Batch updates.  The check and the update are separate statements; the   *)
(* update only tests the row's revision and attempt, which never change.   *)

CasAllowed(b, new) ==
    /\ job.revision = b[1]
    /\ \/ batch[b].state = new.state
       \/ <<batch[b].state, new.state>> \in BatchSteps

WriteBatch(request) == batch' = [batch EXCEPT ![request.batch] = request.row]

Idle == [pc |-> "idle", batch |-> None, row |-> None, session |-> 0]

(* The request waits to update row of its batch, if the check allows it.   *)
Update(request, pc, row) ==
    IF CasAllowed(request.batch, row) THEN [request EXCEPT !.pc = pc, !.row = row] ELSE Idle

WithoutLeases(b) == {l \in leases : l.batch # b}

-----------------------------------------------------------------------------
(* stall_materialization_batch: a batch that cannot be delivered is        *)
(* failed, then its leases are released and its job is stalled.            *)

Stall(request) ==
    IF batch[request.batch].state \in Ended THEN Idle
    ELSE Update(request, "stall_write", [batch[request.batch] EXCEPT !.state = "Failed"])

StallWrite ==
    /\ delivery.pc = "stall_write"
    /\ WriteBatch(delivery)
    /\ delivery' = [delivery EXCEPT !.pc = "stall_job"]
    /\ UNCHANGED <<world, job, task, leases, evidence, planner, handler, cancel, agent, left>>

(* Mutant: the stall does not compare the plan revision.                   *)
StallJob_AnyRevision ==
    /\ delivery.pc = "stall_job"
    /\ leases' = WithoutLeases(delivery.batch)
    /\ job' = IF job.state \notin Terminal /\ CanBecome(job.state, "Stalled")
              THEN [job EXCEPT !.state = "Stalled"] ELSE job
    /\ delivery' = Idle
    /\ UNCHANGED <<world, task, batch, evidence, planner, handler, cancel, agent, left>>

StallJob ==
    /\ delivery.pc = "stall_job"
    /\ leases' = WithoutLeases(delivery.batch)
    /\ job' = IF /\ job.revision = delivery.batch[1]
                 /\ job.state \notin Terminal
                 /\ CanBecome(job.state, "Stalled")
              THEN [job EXCEPT !.state = "Stalled"] ELSE job
    /\ delivery' = Idle
    /\ UNCHANGED <<world, task, batch, evidence, planner, handler, cancel, agent, left>>

-----------------------------------------------------------------------------
(* Delivery: list_active_materialization_batches_for_agent, then           *)
(* materialization_assignment for each batch: refresh the batch's routes,  *)
(* claim it, sign a ticket and send it.  Nothing is written between the    *)
(* reads of one step.                                                      *)

Admit(b) ==
    IF b \in completed THEN assigned
    ELSE {a \in assigned : a.batch # b} \cup {[batch |-> b, session |-> session]}

(* Mutant: a batch that is past its deadline is only sent again.           *)
Send_NoDeadline(request) ==
    /\ delivery' = Idle
    /\ assigned' = IF online /\ session = request.session THEN Admit(request.batch) ELSE assigned

(* A claimed batch is signed and sent unless its deadline has passed.  The *)
(* dispatcher of the Agent keeps the newest ticket of a batch and ignores  *)
(* a completed one; a session that was replaced loses the message.         *)
Send(request) ==
    IF expired
    THEN delivery' = Stall(request) /\ UNCHANGED assigned
    ELSE /\ delivery' = Idle
         /\ assigned' = IF online /\ session = request.session THEN Admit(request.batch) ELSE assigned

(* What the delivery does with a refreshed row.  It belongs to one session *)
(* and leaves the batch of another alone; the fences of both routes come   *)
(* before the claim, and nothing but the deadline after it.                *)
ClaimOrSend(request) ==
    IF request.row.session # request.session
    THEN delivery' = Idle /\ UNCHANGED assigned
    ELSE IF ~online \/ session # request.session \/ request.batch[2] \notin up
    THEN delivery' = Stall(request) /\ UNCHANGED assigned
    ELSE IF request.row.state = "Queued"
    THEN /\ delivery' = Update(request, "claim", [request.row EXCEPT !.state = "Assigned"])
         /\ UNCHANGED assigned
    ELSE Send(request)

Deliver(b) ==
    LET request == [pc |-> "listed", batch |-> b, row |-> batch[b], session |-> session]
        refreshed == [batch[b] EXCEPT !.session = session]
    IN
    /\ delivery.pc = "idle" /\ online
    /\ batch[b] # None /\ batch[b].state \notin Ended /\ job.revision = b[1]
    /\ IF b[2] \notin up THEN delivery' = Stall(request) /\ UNCHANGED assigned
       ELSE IF refreshed = batch[b] THEN ClaimOrSend(request)
       ELSE delivery' = Update(request, "refresh", refreshed) /\ UNCHANGED assigned
    /\ UNCHANGED <<world, plan, evidence, planner, handler, cancel, completed, reports, left>>

DeliverWrite ==
    /\ delivery.pc \in {"refresh", "claim"}
    /\ WriteBatch(delivery)
    /\ delivery' = [delivery EXCEPT !.pc = IF @ = "refresh" THEN "refreshed" ELSE "claimed"]
    /\ UNCHANGED <<world, job, task, leases, evidence, planner, handler, cancel, agent, left>>

DeliverContinue ==
    /\ \/ delivery.pc = "refreshed" /\ ClaimOrSend(delivery)
       \/ delivery.pc = "claimed" /\ Send(delivery)
    /\ UNCHANGED <<world, plan, evidence, planner, handler, cancel, completed, reports, left>>

-----------------------------------------------------------------------------
(* The target's Agent executes an assignment of its current session: it    *)
(* transfers the batch and queues a receipt per object in manifest order,  *)
(* or one failure for the batch, as it does for any batch past its         *)
(* deadline.  Completed batches are remembered until their deadline.       *)

Report(kind, a, o) == [kind |-> kind, batch |-> a.batch, session |-> a.session, object |-> o]

TooLate(a) == expired /\ a.batch[1] = job.revision

(* The manifest of a batch lists its objects by ordinal.                   *)
Manifests(objects) ==
    {m \in SeqOf(objects, Cardinality(Objects)) :
        /\ \A o \in objects : \E i \in DOMAIN m : m[i] = o
        /\ \A i, j \in DOMAIN m : i < j => m[i] < m[j]}

AgentTransfers(a) ==
    \E manifest \in Manifests(batch[a.batch].objects) :
    /\ a \in assigned /\ ~TooLate(a)
    /\ assigned' = assigned \ {a} /\ completed' = {c \in completed : c[1] = a.batch[1]} \cup {a.batch}
    /\ reports' = reports \o [i \in DOMAIN manifest |-> Report("receipt", a, manifest[i])]
    /\ UNCHANGED <<world, plan, evidence, requests, left>>

AgentFails(a) ==
    /\ a \in assigned
    /\ IF TooLate(a) THEN UNCHANGED left ELSE Happens("events")
    /\ assigned' = assigned \ {a}
    /\ reports' = Append(reports, Report("failed", a, None))
    /\ UNCHANGED <<world, plan, evidence, requests, completed>>

-----------------------------------------------------------------------------
(* receive_materialization_report, for the report at the head of the       *)
(* queue.  The Agent drops a report that was accepted or refused; when its *)
(* session was replaced before the answer, it sends the report again.      *)

Working(pc, r) == [pc |-> pc, batch |-> r.batch, row |-> None, session |-> session]

Answer(s) ==
    /\ handler' = Idle
    /\ reports' = IF online /\ session = s THEN Tail(reports) ELSE reports

(* What record_materialization_receipt makes of the job.                   *)
NextJobState(tasks) ==
    IF \A o \in Objects : Done(tasks[o]) THEN "Complete"
    ELSE IF job.state \in {"Planning", "WaitingForSources", "Materializing", "Verifying"}
    THEN "Verifying" ELSE job.state

(* Mutant: a receipt is taken whatever the plan is now.                    *)
RecordReceipt_AnyRevision(r) ==
    LET tasks == [task EXCEPT ![r.object].state = "Verified"] IN
    IF CanBecome(job.state, NextJobState(tasks))
    THEN /\ present' = present \cup {r.object}
         /\ receipts' = receipts \cup {[batch |-> r.batch, object |-> r.object]}
         /\ task' = tasks
         /\ job' = [job EXCEPT !.state = NextJobState(tasks)]
         /\ leases' = {l \in leases : l.batch # r.batch \/ l.object # r.object}
         /\ handler' = Working("advance", r)
         /\ UNCHANGED <<batch, reports>>
    ELSE Answer(session) /\ UNCHANGED <<plan, evidence>>

(* Mutant: the task completes without a verified placement.                *)
RecordReceipt_NoPlacement(r) ==
    /\ receipts' = receipts \cup {[batch |-> r.batch, object |-> r.object]}
    /\ task' = [task EXCEPT ![r.object].state = "Verified"]
    /\ job' = [job EXCEPT !.state = NextJobState(task')]
    /\ leases' = {l \in leases : l.batch # r.batch \/ l.object # r.object}
    /\ handler' = Working("advance", r)
    /\ UNCHANGED <<batch, reports, present>>

(* The publication of one receipt: Placement, receipt, task, job and the   *)
(* release of the object's leases.                                         *)
RecordReceipt(r) ==
    LET tasks == [task EXCEPT ![r.object].state =
                    IF Done(task[r.object]) THEN task[r.object].state ELSE "Verified"] IN
    IF job.revision = r.batch[1] /\ CanBecome(job.state, NextJobState(tasks))
    THEN /\ present' = present \cup {r.object}
         /\ receipts' = receipts \cup {[batch |-> r.batch, object |-> r.object]}
         /\ task' = tasks
         /\ job' = [job EXCEPT !.state = NextJobState(tasks)]
         /\ leases' = {l \in leases : l.batch # r.batch \/ l.object # r.object}
         /\ handler' = Working("advance", r)
         /\ UNCHANGED <<batch, reports>>
    ELSE Answer(session) /\ UNCHANGED <<plan, evidence>>

(* A stored receipt is acknowledged before any live fence is consulted.    *)
ReceiveReceipt ==
    LET r == Head(reports)
        stored == [batch |-> r.batch, object |-> r.object] \in receipts IN
    /\ handler.pc = "idle" /\ online /\ reports # <<>> /\ r.kind = "receipt"
    /\ IF /\ r.session = batch[r.batch].session /\ ~stored
          /\ r.session = session /\ task[r.object].batch = r.batch
       THEN RecordReceipt(r)
       ELSE Answer(session) /\ UNCHANGED <<plan, evidence>>
    /\ UNCHANGED <<world, planner, delivery, cancel, assigned, completed, left>>

BatchPath ==
    [Queued |-> "Assigned", Assigned |-> "Transferring", Transferring |-> "Verifying",
     Verifying |-> "Succeeded"]

(* When every object of the batch has its receipt, the batch is taken to   *)
(* Succeeded one update at a time; each reads the row again.  An update    *)
(* that is refused ends the request, as the last one does.                 *)
Advance ==
    LET b == handler.batch
        last == IF handler.row = None THEN batch[b] ELSE handler.row
        next == [batch[b] EXCEPT !.state = BatchPath[last.state]] IN
    /\ handler.pc = "advance"
    /\ IF /\ last.state \notin Ended
          /\ handler.row = None => \A o \in batch[b].objects : Done(task[o])
          /\ CasAllowed(b, next)
       THEN /\ handler' = [handler EXCEPT !.pc = "advance_write", !.row = next]
            /\ UNCHANGED reports
       ELSE Answer(handler.session)
    /\ UNCHANGED <<world, plan, evidence, planner, delivery, cancel, assigned, completed, left>>

AdvanceWrite ==
    /\ handler.pc = "advance_write"
    /\ WriteBatch(handler)
    /\ handler' = [handler EXCEPT !.pc = "advance"]
    /\ UNCHANGED <<world, job, task, leases, evidence, planner, delivery, cancel, agent, left>>

(* A failure releases the batch's leases, fails the batch and stalls the   *)
(* job that is stored by then.                                             *)
ReceiveFailure ==
    LET r == Head(reports) IN
    /\ handler.pc = "idle" /\ online /\ reports # <<>> /\ r.kind = "failed"
    /\ IF \/ r.session # batch[r.batch].session
          \/ r.session # session
          \/ job.revision # r.batch[1]
          \/ batch[r.batch].state \in Ended
       THEN Answer(session) /\ UNCHANGED leases
       ELSE /\ leases' = WithoutLeases(r.batch)
            /\ handler' = [Working("fail_write", r) EXCEPT
                              !.row = [batch[r.batch] EXCEPT !.state = "Failed"]]
            /\ UNCHANGED reports
    /\ UNCHANGED <<world, job, task, batch, evidence, planner, delivery, cancel, assigned, completed, left>>

FailWrite ==
    /\ handler.pc = "fail_write"
    /\ WriteBatch(handler)
    /\ handler' = [handler EXCEPT !.pc = "fail_job"]
    /\ UNCHANGED <<world, job, task, leases, evidence, planner, delivery, cancel, agent, left>>

FailJob ==
    /\ handler.pc = "fail_job"
    /\ job' = IF job.state \in Terminal THEN job ELSE [job EXCEPT !.state = "Stalled"]
    /\ Answer(handler.session)
    /\ UNCHANGED <<world, task, batch, leases, evidence, planner, delivery, cancel, assigned, completed, left>>

-----------------------------------------------------------------------------
(* cancel_commit_materialization for the revision the caller names.        *)

NotCancelling == [pc |-> "idle", revision |-> 0, todo |-> {}, batch |-> None, row |-> None]

CancelRequest ==
    /\ cancel.pc = "idle"
    /\ job # None /\ job.state \notin Terminal /\ Happens("cancels")
    /\ cancel' = [NotCancelling EXCEPT !.pc = "list", !.revision = job.revision]
    /\ UNCHANGED <<world, plan, evidence, planner, delivery, handler, agent>>

(* The batches are listed after the revision was compared.                 *)
CancelList ==
    /\ cancel.pc = "list"
    /\ cancel' = [cancel EXCEPT !.pc = "release",
                    !.todo = {[batch |-> b, row |-> batch[b]] :
                                b \in {c \in DOMAIN batch : batch[c] # None}}]
    /\ UNCHANGED <<world, plan, evidence, planner, delivery, handler, agent, left>>

Before(b, c) == b[1] < c[1] \/ (b[1] = c[1] /\ b[2] < c[2])

CancelBatch ==
    LET next == CHOOSE t \in cancel.todo :
                    \A u \in cancel.todo \ {t} : Before(t.batch, u.batch)
        failed == [next.row EXCEPT !.state = "Failed"] IN
    /\ cancel.pc = "release" /\ cancel.todo # {}
    /\ leases' = WithoutLeases(next.batch)
    /\ cancel' = IF next.row.state \in Ended THEN [cancel EXCEPT !.todo = @ \ {next}]
                 ELSE IF CasAllowed(next.batch, failed)
                 THEN [cancel EXCEPT !.pc = "write", !.todo = @ \ {next},
                                     !.batch = next.batch, !.row = failed]
                 ELSE NotCancelling
    /\ UNCHANGED <<world, job, task, batch, evidence, planner, delivery, handler, agent, left>>

CancelWrite ==
    /\ cancel.pc = "write"
    /\ WriteBatch(cancel)
    /\ cancel' = [cancel EXCEPT !.pc = "release", !.batch = None, !.row = None]
    /\ UNCHANGED <<world, job, task, leases, evidence, planner, delivery, handler, agent, left>>

CancelJob ==
    /\ cancel.pc = "release" /\ cancel.todo = {}
    /\ job' = IF job.revision = cancel.revision /\ CanBecome(job.state, "Cancelled")
              THEN [state |-> "Cancelled", revision |-> job.revision + 1] ELSE job
    /\ cancel' = NotCancelling
    /\ UNCHANGED <<world, task, batch, leases, evidence, planner, delivery, handler, agent, left>>

-----------------------------------------------------------------------------
(* The environment.                                                        *)

(* The target's Agent loses its session, and connects again with the next  *)
(* generation; assignments of the old one are discarded, and a restarted   *)
(* Agent has forgotten what it completed.                                  *)
Disconnect ==
    /\ online /\ Happens("sessions")
    /\ online' = FALSE
    /\ UNCHANGED <<holds, sick, up, session, expired, plan, evidence, requests, agent>>

Reconnect ==
    /\ ~online
    /\ online' = TRUE /\ session' = session + 1
    /\ assigned' = {} /\ completed' \in {completed, {}}
    /\ UNCHANGED <<holds, sick, up, expired, plan, evidence, requests, reports, left>>

SourceRoute(s) ==
    /\ \/ s \in up /\ up' = up \ {s} /\ Happens("events")
       \/ s \notin up /\ up' = up \cup {s} /\ UNCHANGED left
    /\ UNCHANGED <<holds, sick, online, session, expired, plan, evidence, requests, agent>>

(* receive_integrity_report: a scan finds a Placement bad, a later one     *)
(* finds it good.                                                          *)
Observe(v, o) ==
    /\ o \in (IF v = Target THEN present ELSE holds[v])
    /\ \/ <<v, o>> \notin sick /\ sick' = sick \cup {<<v, o>>} /\ Happens("events")
       \/ <<v, o>> \in sick /\ sick' = sick \ {<<v, o>>} /\ UNCHANGED left
    /\ UNCHANGED <<holds, up, online, session, expired, plan, evidence, requests, agent>>

Expire ==
    /\ job # None /\ ~expired /\ expired' = TRUE
    /\ UNCHANGED <<holds, sick, up, online, session, plan, evidence, requests, agent, left>>

(* A request is abandoned: its caller went away or Central stopped.  An    *)
(* abandoned report is sent again.                                         *)
Abandon ==
    /\ Happens("events")
    /\ \/ delivery # Idle /\ delivery' = Idle /\ UNCHANGED <<handler, cancel>>
       \/ handler # Idle /\ handler' = Idle /\ UNCHANGED <<delivery, cancel>>
       \/ cancel # NotCancelling /\ cancel' = NotCancelling /\ UNCHANGED <<delivery, handler>>
    /\ UNCHANGED <<world, plan, evidence, planner, agent>>

-----------------------------------------------------------------------------
BatchIds(n) == (1..n) \X Sources

Init ==
    /\ sick = {} /\ up = Sources /\ online = TRUE /\ session = 1 /\ expired = FALSE
    /\ job = None /\ leases = {} /\ receipts = {}
    /\ task = [o \in Objects |-> [state |-> "Missing", batch |-> None]]
    /\ \E c \in Scenarios :
        /\ holds = c.layout /\ present = c.target
        /\ left = [c.bounds EXCEPT !.revisions = @ - 1, !.sessions = @ - 1]
        /\ batch = [b \in BatchIds(c.bounds.revisions) |-> None]
    /\ planner = None /\ delivery = Idle /\ handler = Idle /\ cancel = NotCancelling
    /\ assigned = {} /\ completed = {} /\ reports = <<>>

Delivery ==
    \/ \E b \in DOMAIN batch : Deliver(b)
    \/ DeliverWrite \/ DeliverContinue \/ StallWrite \/ StallJob

Reporting ==
    \/ ReceiveReceipt \/ Advance \/ AdvanceWrite
    \/ ReceiveFailure \/ FailWrite \/ FailJob

Cancellation ==
    CancelRequest \/ CancelList \/ CancelBatch \/ CancelWrite \/ CancelJob

Environment ==
    \/ Disconnect \/ Reconnect \/ Expire \/ Abandon
    \/ \E s \in Sources : SourceRoute(s)
    \/ \E v \in Sources \cup {Target}, o \in Objects : Observe(v, o)

Next ==
    \/ PlanRead \/ PlanRoutes \/ PlanDropped \/ MaterializeCommit \/ RetryMaterialization
    \/ Delivery \/ Reporting \/ Cancellation
    \/ \E a \in assigned : AgentTransfers(a) \/ AgentFails(a)
    \/ Environment

(* The delivery loop runs while the Agent is connected, the Agent          *)
(* reconnects and works off its assignments and reports, and time passes.  *)
Fairness ==
    /\ WF_vars(Delivery) /\ WF_vars(Reporting) /\ WF_vars(Reconnect) /\ WF_vars(Expire)
    /\ WF_vars(\E a \in assigned : AgentTransfers(a) \/ AgentFails(a))

Spec == Init /\ [][Next]_vars /\ Fairness

-----------------------------------------------------------------------------
JobStates == {"Planning", "WaitingForSources", "Materializing", "Verifying", "Stalled"} \cup Terminal
BatchStates == {"Queued", "Assigned", "Transferring", "Verifying"} \cup Ended
Jobs == [state : JobStates, revision : Nat]
Rows == [objects : SUBSET Objects, state : BatchStates, session : Nat]

Views == [pc : {"routes", "install"}, revision : Nat, from : JobStates \cup {None},
          present : SUBSET Objects, verified : [Objects -> SUBSET Sources],
          up : SUBSET Sources, session : Nat \cup {None}]

ASSUME NoneAssumption == None \notin Jobs \cup Rows \cup Views \cup Nat \cup (Nat \X Sources)

(* The shape of the records: an object's batch, the leases, the receipts   *)
(* and what the Agent holds all name batches a plan can have.              *)
TypeOK ==
    /\ holds \in [Sources -> SUBSET Objects] /\ present \subseteq Objects
    /\ sick \subseteq (Sources \cup {Target}) \X Objects /\ up \subseteq Sources
    /\ online \in BOOLEAN /\ session \in Nat /\ expired \in BOOLEAN
    /\ job \in Jobs \cup {None} /\ planner \in Views \cup {None}
    /\ \A o \in Objects :
        /\ task[o].state \in {"Missing", "Reserved", "Verified", "AlreadyPresent"}
        /\ task[o].batch \in DOMAIN batch \cup {None}
    /\ \A b \in DOMAIN batch : batch[b] \in Rows \cup {None}
    /\ leases \cup receipts \subseteq [batch : DOMAIN batch, object : Objects]
    /\ assigned \subseteq [batch : DOMAIN batch, session : Nat]
    /\ completed \subseteq DOMAIN batch
    /\ left \in [{"revisions", "sessions", "cancels", "events"} -> Nat]

(* A task that is reported done has its object placed on the target        *)
(* volume, and a job is Complete exactly when every task of the Commit is  *)
(* done, whatever plan, session or receipt produced the last of them: none *)
(* is reported complete too early, and none is left waiting, stalled or    *)
(* cancelled with nothing to do (record_materialization_receipt,           *)
(* replace_materialization_plan).                                          *)
CompleteIsPlaced ==
    /\ \A o \in Objects : Done(task[o]) => o \in present
    /\ job # None => (job.state = "Complete" <=> \A o \in Objects : Done(task[o]))

(* Cancellation fences everything still under way: once the job is         *)
(* Cancelled, no late receipt, failure report, stall or retry changes the  *)
(* job, its tasks, its receipts or the target's Placements.                *)
CancelledIsFinal ==
    [][job # None /\ job.state = "Cancelled" =>
        UNCHANGED <<job, task, receipts, present>>]_vars

(* stall_materialization_batch gives up a batch of the plan it read.  When *)
(* a retry has replaced that plan meanwhile, the stall changes neither the *)
(* job nor the leases of the newer plan.                                   *)
StallKeepsNewerPlan ==
    [][delivery.pc = "stall_job" /\ delivery.batch[1] < job.revision /\ delivery' = Idle =>
        /\ UNCHANGED job
        /\ {l \in leases : l.batch[1] = job.revision} \subseteq leases']_vars

ActiveBatch(o) ==
    LET b == task[o].batch IN
    job # None /\ b # None /\ job.revision = b[1] /\ batch[b].state \notin Ended

(* A batch never stays active under its plan: it succeeds, or a delivery   *)
(* loop fails it at the deadline, whatever becomes of its transfers,       *)
(* sessions and reports, unless the plan is replaced or cancelled first.   *)
(* Only the sessions of the target's Agent run that loop, so this needs    *)
(* the Agent to come back.                                                 *)
BatchEnds == \A o \in Objects : ActiveBatch(o) ~> ~ActiveBatch(o)
=============================================================================
