----------------------------- MODULE ManagedAdd -----------------------------
(***************************************************************************)
(* One managed Add job between Central and the Agent that owns the volume: *)
(* Central's job record, assignment outbox, staged metadata and Index      *)
(* publication (neoengram-central, control_plane.rs,                       *)
(* service/coordinator.rs, mapper/sqlite/{outbox,index}.rs), the Agent's   *)
(* durable ledger and report queue and the worker that executes the job    *)
(* (neoengram-agent, agent_core/{agent,outbound}.rs, session_channel.rs),  *)
(* and the channel between them (approved_runtime.rs).                     *)
(*                                                                         *)
(* Every durable write is a step of its own; either side can crash before  *)
(* the next one, the channel can break at any time, reports are repeated   *)
(* until acknowledged, decisions until finalized, and the two clocks pass  *)
(* the deadline independently.                                             *)
(*                                                                         *)
(* Abstractions: a job's resource_version is the record itself, which      *)
(* never returns to an earlier value; operations with a single compare-    *)
(* and-swap are atomic, because the swap fails when anything changed since *)
(* the load; the candidate is a flag.  The other jobs of the workspace     *)
(* only appear as publications that move its Index version.                *)
(***************************************************************************)
EXTENDS Naturals, Sequences

CONSTANTS
    None,
    Tasks,         \* concurrent Central callers: coordinator, public action
    Pages,         \* metadata pages of the candidate
    MaxVersion,    \* bound on publications of the Index
    MaxFaults      \* bound on crashes and broken channels together

ASSUME ConstantsAssumption ==
    Pages \in Nat \ {0} /\ MaxVersion \in Nat \ {0} /\ MaxFaults \in Nat

VARIABLES
    job,           \* Central's JobRecord
    outbox,        \* the assignment outbox row
    staged,        \* pages of metadata staged at Central
    version,       \* revision of the workspace's Index
    publication,   \* the recorded outcome of the job's Index publication
    task,          \* task[t]: what Central's caller t is doing
    ledger,        \* the Agent's LedgerRecord, or None
    reports,       \* the Agent's durable report queue
    daemon,        \* is the Agent process running
    work,          \* dispatched work of the job that waits for the worker
    pc,            \* the next step of the worker
    connected,     \* is the channel open
    applied,       \* reports processed on this channel, not yet acknowledged
    seen,          \* commands already received on this channel
    centralLate, agentLate,    \* has each side's clock passed the deadline
    refused,       \* history: the Agent refused a decision for a job it knows
    faults         \* crashes and broken channels so far

central == <<job, outbox, staged, version, publication, task>>
agent == <<ledger, reports, daemon, work, pc>>
channel == <<connected, applied, seen>>
clocks == <<centralLate, agentLate>>
bounds == <<refused, faults>>
vars == <<central, agent, channel, clocks, bounds>>

-----------------------------------------------------------------------------
Decisions == {"publish", "conflict", "reject"}
Terminal == {"Succeeded", "Conflicted", "Failed", "TimedOut"}
JobStates == {"Queued", "Assigned", "Accepted", "Running", "Prepared", "Publishing"} \cup Terminal

JobRecord == [state : JobStates,
              received : SUBSET {"accepted", "running", "prepared", "failed"},
              decision : Decisions \cup {None},
              ack : BOOLEAN]

LedgerStates == {"Claimed", "Accepted", "Running", "Recovering", "Prepared",
                 "AwaitingDecision", "Finalizing", "Completed", "FailedReported"}
LedgerRecord == [state : LedgerStates, prepared : BOOLEAN, decision : Decisions \cup {None}]

(* The absence of a record or a decision is told apart from every value.   *)
ASSUME NoneAssumption == None \notin LedgerRecord /\ None \notin Decisions

AgentReport == [kind : {"accepted", "running", "prepared", "failed", "finalized"},
                decision : Decisions \cup {None}]

PCs == {"idle", "accept", "send_accepted", "execute", "send_running", "prepare",
        "report_prepared", "stage", "await", "send_failed", "report_failure", "finalize",
        "complete"}

Task == [pc : {"idle", "assign", "publish_outbox", "freeze", "cas", "decide"},
         job : JobRecord \cup {None}]

TypeOK ==
    /\ job \in JobRecord
    /\ outbox \in {"none", "reserved", "published", "retired"}
    /\ staged \in 0..Pages
    /\ version \in 0..MaxVersion
    /\ publication \in Decisions \cup {None}
    /\ task \in [Tasks -> Task]
    /\ ledger \in LedgerRecord \cup {None}
    /\ reports \in Seq(AgentReport)
    /\ daemon \in BOOLEAN /\ connected \in BOOLEAN
    /\ work \in Seq({"assignment", "decision", "recovery"})
    /\ pc \in PCs
    /\ applied \in 0..Len(reports)
    /\ seen \subseteq {"assignment", "decision"}
    /\ centralLate \in BOOLEAN /\ agentLate \in BOOLEAN
    /\ refused \in BOOLEAN
    /\ faults \in 0..MaxFaults

IdleTask == [pc |-> "idle", job |-> None]

(* persist_add_job has stored the job; its expected Index version is 0.    *)
Init ==
    /\ job = [state |-> "Queued", received |-> {}, decision |-> None, ack |-> FALSE]
    /\ outbox = "none" /\ staged = 0 /\ version = 0 /\ publication = None
    /\ task = [t \in Tasks |-> IdleTask]
    /\ ledger = None /\ reports = <<>> /\ daemon = TRUE /\ work = <<>> /\ pc = "idle"
    /\ connected = FALSE /\ applied = 0 /\ seen = {}
    /\ centralLate = FALSE /\ agentLate = FALSE
    /\ refused = FALSE /\ faults = 0

-----------------------------------------------------------------------------
(* Central: scheduling.                                                    *)
Hold(t, p, j) == task' = [task EXCEPT ![t] = [pc |-> p, job |-> j]]
Done(t) == task' = [task EXCEPT ![t] = IdleTask]
At(t, p) == task[t].pc = p

(* JobRepository::replace: a compare-and-swap on the record loaded before. *)
Current(t) == job = task[t].job

(* schedule finds an owner and assign_job loads the job.                   *)
Schedule(t) ==
    /\ At(t, "idle")
    /\ job.state = "Queued" /\ version = 0 /\ ~centralLate
    /\ Hold(t, "assign", job)
    /\ UNCHANGED <<job, outbox, staged, version, publication, agent, channel, clocks, bounds>>

(* The outbox row is reserved, then the assignment becomes durable.  The   *)
(* loser of two identical assignments publishes the winner's.              *)
AssignJob(t) ==
    /\ At(t, "assign")
    /\ outbox' = IF outbox = "none" THEN "reserved" ELSE outbox
    /\ IF Current(t)
       THEN job' = [job EXCEPT !.state = "Assigned"] /\ Hold(t, "publish_outbox", None)
       ELSE /\ UNCHANGED job
            /\ IF job.state = "TimedOut" /\ job.decision = None
               THEN Done(t) ELSE Hold(t, "publish_outbox", None)
    /\ UNCHANGED <<staged, version, publication, agent, channel, clocks, bounds>>

PublishOutbox(t) ==
    /\ At(t, "publish_outbox")
    /\ outbox' = IF outbox = "reserved" THEN "published" ELSE outbox
    /\ Done(t)
    /\ UNCHANGED <<job, staged, version, publication, agent, channel, clocks, bounds>>

(* AssignmentOutbox::retire refuses an unpublished row.  It follows the    *)
(* update of the job; nobody sees a crash between the two, because only a  *)
(* job in state Assigned is delivered.                                     *)
Retire == outbox' = IF outbox = "published" THEN "retired" ELSE outbox

(* Mutant: an assigned job is left to its Agent.                           *)
Expire_NotAssigned ==
    /\ centralLate
    /\ job.state \in {"Queued", "Accepted", "Running", "Prepared"}
    /\ job' = [job EXCEPT !.state = "TimedOut",
                          !.decision = IF job.state = "Queued" THEN None ELSE "reject"]
    /\ Retire
    /\ UNCHANGED <<staged, version, publication, task, agent, channel, clocks, bounds>>

(* expire_add_job: past the deadline, before publication.                  *)
Expire ==
    /\ centralLate
    /\ job.state \in {"Queued", "Assigned", "Accepted", "Running", "Prepared"}
    /\ job' = [job EXCEPT !.state = "TimedOut",
                          !.decision = IF job.state = "Queued" THEN None ELSE "reject"]
    /\ Retire
    /\ UNCHANGED <<staged, version, publication, task, agent, channel, clocks, bounds>>

-----------------------------------------------------------------------------
(* Central: publication (finalize_loaded).                                 *)

(* The staged metadata is complete, its placements are recorded and the    *)
(* deadline has not passed: the last gate before Publishing.               *)
Publishable == staged = Pages /\ ~centralLate

FinalizeCheck(t) ==
    /\ At(t, "idle")
    /\ job.state = "Prepared" /\ Publishable
    /\ Hold(t, "freeze", job)
    /\ UNCHANGED <<job, outbox, staged, version, publication, agent, channel, clocks, bounds>>

(* The candidate is frozen, unless the job changed since it was loaded.    *)
Freeze(t) ==
    /\ At(t, "freeze")
    /\ IF Current(t)
       THEN job' = [job EXCEPT !.state = "Publishing"] /\ Hold(t, "cas", job')
       ELSE UNCHANGED job /\ Done(t)
    /\ UNCHANGED <<outbox, staged, version, publication, agent, channel, clocks, bounds>>

ResumePublication(t) ==
    /\ At(t, "idle")
    /\ job.state = "Publishing"
    /\ Hold(t, "cas", job)
    /\ UNCHANGED <<job, outbox, staged, version, publication, agent, channel, clocks, bounds>>

(* Mutant: the outcome is not recorded, a replay compares versions again.  *)
CompareAndSwap_NotReplayed(t) ==
    /\ At(t, "cas")
    /\ \/ version # 0 /\ publication' = "conflict" /\ UNCHANGED version
       \/ version = 0 /\ publication' = "publish" /\ version' = version + 1
    /\ task' = [task EXCEPT ![t].pc = "decide"]
    /\ UNCHANGED <<job, outbox, staged, agent, channel, clocks, bounds>>

(* IndexPublisher::compare_and_swap: the outcome is recorded per job and   *)
(* replayed.  Metadata the Index does not accept is rejected.              *)
CompareAndSwap(t) ==
    /\ At(t, "cas")
    /\ \/ publication # None /\ UNCHANGED <<version, publication>>
       \/ publication = None /\ version # 0 /\ publication' = "conflict" /\ UNCHANGED version
       \/ publication = None /\ version = 0 /\ publication' = "reject" /\ UNCHANGED version
       \/ /\ publication = None /\ version = 0
          /\ publication' = "publish" /\ version' = version + 1
    /\ task' = [task EXCEPT ![t].pc = "decide"]
    /\ UNCHANGED <<job, outbox, staged, agent, channel, clocks, bounds>>

Outcome(d) == CASE d = "publish" -> "Succeeded" [] d = "conflict" -> "Conflicted"
                [] d = "reject" -> "Failed"

Decide(t) ==
    /\ At(t, "decide")
    /\ job' = IF Current(t)
              THEN [job EXCEPT !.state = Outcome(publication), !.decision = publication]
              ELSE job
    /\ Done(t)
    /\ UNCHANGED <<outbox, staged, version, publication, agent, channel, clocks, bounds>>

(* Another job of the workspace publishes; what it does after this job's   *)
(* own publication does not matter to it.                                  *)
OtherPublication ==
    /\ publication = None
    /\ version < MaxVersion
    /\ version' = version + 1
    /\ UNCHANGED <<job, outbox, staged, publication, task, agent, channel, clocks, bounds>>

-----------------------------------------------------------------------------
(* Central: reports (receive_report_with_session).                         *)

(* A report that was applied before is a replay; a new one must fit the    *)
(* state of the job.                                                       *)
Replayed(r) ==
    IF r.kind = "finalized" THEN job.ack ELSE r.kind \in job.received

Fits(r) ==
    \/ r.kind = "accepted"  /\ job.state = "Assigned"
    \/ r.kind = "running"   /\ job.state \in {"Accepted", "Running"}
    \/ r.kind = "prepared"  /\ job.state = "Running"
    \/ r.kind = "failed"    /\ job.state \notin Terminal \cup {"Publishing"}
    \/ r.kind = "finalized" /\ job.decision # None /\ r.decision = job.decision

Apply(r) ==
    CASE r.kind = "accepted" -> [job EXCEPT !.state = "Accepted", !.received = @ \cup {r.kind}]
      [] r.kind = "running"  -> [job EXCEPT !.state = "Running", !.received = @ \cup {r.kind}]
      [] r.kind = "prepared" -> [job EXCEPT !.state = "Prepared", !.received = @ \cup {r.kind}]
      [] r.kind = "failed"   -> [job EXCEPT !.state = "Failed", !.received = @ \cup {r.kind},
                                            !.decision = "reject"]
      [] r.kind = "finalized" -> [job EXCEPT !.ack = TRUE]

(* The next report of the queue reaches Central and is applied.            *)
ReceiveReport ==
    LET r == reports[applied + 1] IN
    /\ connected /\ applied < Len(reports)
    /\ Replayed(r) \/ Fits(r)
    /\ job' = IF Replayed(r) THEN job ELSE Apply(r)
    /\ Retire
    /\ applied' = applied + 1
    /\ UNCHANGED <<staged, version, publication, task, agent, connected, seen, clocks, bounds>>

Closed == connected' = FALSE /\ applied' = 0 /\ seen' = {}

(* Mutant: the rejected report stays in the queue.                         *)
RejectReport_Kept ==
    LET r == reports[applied + 1] IN
    /\ connected /\ applied < Len(reports)
    /\ ~Replayed(r) /\ ~Fits(r)
    /\ Closed
    /\ UNCHANGED <<central, agent, clocks, bounds>>

(* A report that no longer fits is rejected, the channel ends, and the     *)
(* Agent drops the report (handle_downstream, AGENT_ACTION_REJECTED).      *)
RejectReport ==
    LET r == reports[applied + 1] IN
    /\ connected /\ applied < Len(reports)
    /\ ~Replayed(r) /\ ~Fits(r)
    /\ reports' = SubSeq(reports, applied + 2, Len(reports))
    /\ Closed
    /\ UNCHANGED <<central, ledger, daemon, work, pc, clocks, bounds>>

Acknowledge ==
    /\ connected /\ applied > 0
    /\ reports' = Tail(reports) /\ applied' = applied - 1
    /\ UNCHANGED <<central, ledger, daemon, work, pc, connected, seen, clocks, bounds>>

-----------------------------------------------------------------------------
(* The channel.                                                            *)
Connect ==
    /\ daemon /\ ~connected
    /\ connected' = TRUE
    /\ UNCHANGED <<central, agent, applied, seen, clocks, bounds>>

Fault == faults < MaxFaults /\ faults' = faults + 1

Disconnect ==
    /\ connected /\ Fault
    /\ Closed
    /\ UNCHANGED <<central, agent, clocks, refused>>

(* deliverable_agent_messages: what Central repeats on every channel.      *)
Deliverable(c) ==
    \/ c = "assignment" /\ outbox = "published" /\ job.state = "Assigned"
    \/ c = "decision" /\ job.decision # None /\ ~job.ack

Deliver(c) ==
    /\ connected /\ c \notin seen /\ Deliverable(c)
    /\ seen' = seen \cup {c}
    /\ work' = Append(work, c)
    /\ UNCHANGED <<central, ledger, reports, daemon, pc, connected, applied, clocks, bounds>>

-----------------------------------------------------------------------------
(* The Agent: one worker serves the job.                                   *)
Send(r) == reports' = IF \E i \in 1..Len(reports) : reports[i] = r THEN reports
                      ELSE Append(reports, r)
Report(k) == [kind |-> k, decision |-> None]

Persist(s) == ledger' = [ledger EXCEPT !.state = s]

(* A step of the worker that changes ledger, queue or control only.        *)
Worker(p) ==
    /\ daemon /\ pc = p
    /\ UNCHANGED <<central, clocks, faults>>

Goto(p) == pc' = p /\ UNCHANGED <<daemon, work, channel, refused>>

(* An error of the worker stops the dispatcher and with it the daemon.     *)
Exit ==
    /\ daemon' = FALSE /\ work' = <<>> /\ pc' = "idle"
    /\ Closed

(* Where recover continues the record it finds.                            *)
Resume(s) ==
    CASE s = "Claimed" -> "accept"
      [] s = "Accepted" -> "send_accepted"
      [] s \in {"Running", "Recovering"} -> "execute"
      [] s = "Prepared" -> "report_prepared"
      [] s = "Finalizing" -> "finalize"
      [] s = "FailedReported" -> "report_failure"
      [] OTHER -> "idle"

Take(w) == Worker("idle") /\ work # <<>> /\ Head(work) = w
Begin(p) == pc' = p /\ work' = Tail(work) /\ UNCHANGED <<daemon, channel, refused>>

(* handle_assignment: a new assignment is claimed, unless it is too late;  *)
(* a known one is only continued where nothing was executed yet, or where  *)
(* the candidate is durable.                                               *)
HandleAssignment ==
    /\ Take("assignment")
    /\ UNCHANGED reports
    /\ \/ ledger = None /\ agentLate /\ Exit /\ UNCHANGED <<ledger, refused>>
       \/ /\ ledger = None /\ ~agentLate
          /\ ledger' = [state |-> "Claimed", prepared |-> FALSE, decision |-> None]
          /\ Begin("accept")
       \/ /\ ledger # None
          /\ Begin(IF ledger.state \in {"Claimed", "Accepted", "Prepared"}
                   THEN Resume(ledger.state) ELSE "idle")
          /\ UNCHANGED ledger

(* Recovery is scheduled once, when the daemon starts.                     *)
HandleRecovery ==
    /\ Take("recovery")
    /\ IF ledger.state = "Running" THEN Persist("Recovering") ELSE UNCHANGED ledger
    /\ Begin(Resume(ledger.state))
    /\ UNCHANGED reports

(* Mutant: a publication is only taken while the Agent waits for it.       *)
MayApply_OnlyWaiting(d) ==
    \/ ledger.state = "AwaitingDecision"
    \/ d = "reject" /\ ledger.state \in {"Claimed", "Accepted", "Running", "Prepared",
                                          "FailedReported", "Recovering"}

(* handle_decision: which decisions a record can take.                     *)
MayApply(d) ==
    \/ ledger.state = "AwaitingDecision"
    \/ d = "reject" /\ ledger.state \in {"Claimed", "Accepted", "Running", "Prepared",
                                          "FailedReported", "Recovering"}
    \/ d # "reject" /\ ledger.prepared
                     /\ ledger.state \in {"Prepared", "FailedReported", "Recovering"}

HandleDecision ==
    /\ Take("decision")
    /\ UNCHANGED reports
    /\ \/ ledger = None /\ Exit /\ UNCHANGED <<ledger, refused>>
       \/ /\ ledger # None /\ ledger.decision = job.decision
          /\ Begin(Resume(ledger.state))
          /\ UNCHANGED ledger
       \/ /\ ledger # None /\ ledger.decision = None /\ MayApply(job.decision)
          /\ ledger' = [ledger EXCEPT !.state = "Finalizing", !.decision = job.decision]
          /\ Begin("finalize")
       \/ /\ ledger # None /\ ledger.decision # job.decision
          /\ ledger.decision # None \/ ~MayApply(job.decision)
          /\ Exit /\ refused' = TRUE
          /\ UNCHANGED ledger

(* accept_assignment: the claim is accepted, then reported.                *)
Accept ==
    /\ Worker("accept")
    /\ Persist("Accepted") /\ Goto("send_accepted")
    /\ UNCHANGED reports

SendAccepted ==
    /\ Worker("send_accepted")
    /\ Send(Report("accepted")) /\ Goto("execute")
    /\ UNCHANGED ledger

(* execute: a failure is durable before it is reported.                    *)
Execute ==
    /\ Worker("execute")
    /\ \/ agentLate /\ Persist("FailedReported") /\ Goto("send_failed")
       \/ ~agentLate /\ Persist("Running") /\ Goto("send_running")
    /\ UNCHANGED reports

SendRunning ==
    /\ Worker("send_running")
    /\ Send(Report("running")) /\ Goto("prepare")
    /\ UNCHANGED ledger

(* prepare_add and the object transfer succeed or fail.                    *)
Prepare ==
    /\ Worker("prepare")
    /\ \/ Persist("FailedReported") /\ Goto("send_failed")
       \/ /\ ledger' = [ledger EXCEPT !.state = "Prepared", !.prepared = TRUE]
          /\ Goto("report_prepared")
    /\ UNCHANGED reports

(* persist_failure reports and returns the error.                          *)
SendFailed ==
    /\ Worker("send_failed")
    /\ Send(Report("failed")) /\ Exit
    /\ UNCHANGED <<ledger, refused>>

(* report_failure, on recovery, is not an error.                           *)
ReportFailure ==
    /\ Worker("report_failure")
    /\ Send(Report("failed")) /\ Goto("idle")
    /\ UNCHANGED ledger

ReportPrepared ==
    /\ Worker("report_prepared")
    /\ \/ agentLate /\ Persist("FailedReported") /\ Goto("send_failed") /\ UNCHANGED reports
       \/ ~agentLate /\ Send(Report("prepared")) /\ Goto("stage") /\ UNCHANGED ledger

(* stage_metadata waits until every report is acknowledged, then uploads;  *)
(* stage_metadata_batch accepts pages in four states of the job only.      *)
Stageable == job.state \in {"Prepared", "Publishing", "Succeeded", "Conflicted"}

StageMetadata ==
    /\ daemon /\ pc = "stage"
    /\ reports = <<>>
    /\ IF Stageable
       THEN /\ staged' = IF staged < Pages THEN staged + 1 ELSE staged
            /\ Goto(IF staged' = Pages THEN "await" ELSE "stage")
       ELSE Exit /\ UNCHANGED <<staged, refused>>
    /\ UNCHANGED <<job, outbox, version, publication, task, ledger, reports, clocks, faults>>

AwaitDecision ==
    /\ Worker("await")
    /\ Persist("AwaitingDecision") /\ Goto("idle")
    /\ UNCHANGED reports

Finalize ==
    /\ Worker("finalize")
    /\ Send([kind |-> "finalized", decision |-> ledger.decision]) /\ Goto("complete")
    /\ UNCHANGED ledger

Complete ==
    /\ Worker("complete")
    /\ Persist("Completed") /\ Goto("idle")
    /\ UNCHANGED reports

-----------------------------------------------------------------------------
(* Crashes, restarts and time.                                             *)
AgentCrash ==
    /\ daemon /\ Fault
    /\ Exit
    /\ UNCHANGED <<central, ledger, reports, clocks, refused>>

(* The supervisor starts the daemon again; active assignments recover.     *)
Restart ==
    /\ ~daemon
    /\ daemon' = TRUE
    /\ work' = IF ledger # None /\ ledger.state # "Completed" THEN <<"recovery">> ELSE <<>>
    /\ UNCHANGED <<central, ledger, reports, pc, channel, clocks, bounds>>

CentralCrash ==
    /\ Fault
    /\ task' = [t \in Tasks |-> IdleTask]
    /\ Closed
    /\ UNCHANGED <<job, outbox, staged, version, publication, agent, clocks, refused>>

CentralTick ==
    /\ ~centralLate /\ centralLate' = TRUE
    /\ UNCHANGED <<central, agent, channel, agentLate, bounds>>

AgentTick ==
    /\ ~agentLate /\ agentLate' = TRUE
    /\ UNCHANGED <<central, agent, channel, centralLate, bounds>>

-----------------------------------------------------------------------------
Central(t) ==
    \/ Schedule(t) \/ AssignJob(t) \/ PublishOutbox(t)
    \/ FinalizeCheck(t) \/ Freeze(t) \/ ResumePublication(t) \/ CompareAndSwap(t) \/ Decide(t)

Reporting == ReceiveReport \/ RejectReport

Agent ==
    \/ HandleAssignment \/ HandleRecovery \/ HandleDecision
    \/ Accept \/ SendAccepted \/ Execute \/ SendRunning \/ Prepare
    \/ SendFailed \/ ReportFailure \/ ReportPrepared \/ StageMetadata \/ AwaitDecision
    \/ Finalize \/ Complete

Next ==
    \/ \E t \in Tasks : Central(t)
    \/ Expire \/ OtherPublication
    \/ Reporting \/ Acknowledge
    \/ Connect \/ Disconnect \/ \E c \in {"assignment", "decision"} : Deliver(c)
    \/ Agent
    \/ AgentCrash \/ Restart \/ CentralCrash \/ CentralTick \/ AgentTick

(* The coordinator polls, the channel reconnects and redelivers, the       *)
(* worker runs, the supervisor restarts the daemon and time passes.        *)
Fairness ==
    /\ \A t \in Tasks : WF_vars(Central(t))
    /\ WF_vars(Expire)
    /\ WF_vars(Reporting) /\ WF_vars(Acknowledge)
    /\ WF_vars(Connect) /\ \A c \in {"assignment", "decision"} : WF_vars(Deliver(c))
    /\ WF_vars(Agent) /\ WF_vars(Restart)
    /\ WF_vars(CentralTick) /\ WF_vars(AgentTick)

Spec == Init /\ [][Next]_vars /\ Fairness

-----------------------------------------------------------------------------
(* Properties.                                                             *)

(* What Central reports of a job is what happened to the Index, a job that *)
(* timed out or failed on the Agent has not touched it, whatever raced     *)
(* with the publication, and only a complete candidate that is durable in  *)
(* the ledger is published (finalize_loaded, expire_add_job).              *)
OutcomeMatchesIndex ==
    /\ job.state \in {"Succeeded", "Conflicted"} => Outcome(publication) = job.state
    /\ job.state = "Failed" => publication \in {None, "reject"}
    /\ job.state = "TimedOut" => publication = None
    /\ publication # None => job.state \in Terminal \cup {"Publishing"}
    /\ job.state \in {"Publishing", "Succeeded", "Conflicted"} =>
        staged = Pages /\ ledger # None /\ ledger.prepared

(* The Agent can follow every decision about a job it knows, in whatever   *)
(* state a crash or its own deadline left the record (handle_decision); an *)
(* acknowledged decision is the one in the ledger, and the Agent does not  *)
(* go back to work on it (finalize, recover).                              *)
DecisionsFollowed ==
    /\ ~refused
    /\ job.ack => /\ ledger # None /\ ledger.decision = job.decision
                  /\ ledger.state \in {"Finalizing", "Completed"}

(* Every job ends, even if its Agent never answers (reconcile).            *)
JobEnds == <>(job.state \in Terminal)

(* A decision about a job the Agent knows is followed and acknowledged in  *)
(* the end, whatever was rejected, repeated or crashed before (Decision is *)
(* redelivered until Finalized).                                           *)
AgentFinalizes ==
    (job.decision # None /\ ledger # None) ~> (job.ack /\ ledger.state = "Completed")
=============================================================================
