------------------------- MODULE ManagedAdd_proofs -------------------------
(***************************************************************************)
(* The outcome of a managed Add and the Agent's obedience, for any number  *)
(* of Central callers, metadata pages, publications of other jobs, crashes *)
(* and broken channels.  Neither property is inductive.  That Central's    *)
(* record matches the Index needs what each caller knows when it compares  *)
(* and swaps (TaskInv); that the Agent can follow a decision needs the     *)
(* ledger state at each point of the worker (ControlInv, LedgerInv), what  *)
(* the reports still in the queue promise (QueueInv), and that work waits  *)
(* only for records that exist (WorkInv).                                  *)
(***************************************************************************)
EXTENDS ManagedAdd, TLAPS

(* The types of the variables.                                             *)
TypeJob == job \in JobRecord
TypePublication == publication \in Decisions \cup {None} /\ version \in 0..MaxVersion
TypeStaged == staged \in 0..Pages
TypeTask == task \in [Tasks -> Task]
TypeLedger == ledger \in LedgerRecord \cup {None}
TypeQueue == reports \in Seq(AgentReport) /\ applied \in 0..Len(reports)
TypeWork == work \in Seq({"assignment", "decision", "recovery"})
TypeControl == pc \in PCs
TypeRest ==
    /\ outbox \in {"none", "reserved", "published", "retired"}
    /\ daemon \in BOOLEAN /\ connected \in BOOLEAN
    /\ seen \subseteq {"assignment", "decision"}
    /\ centralLate \in BOOLEAN /\ agentLate \in BOOLEAN
TypeRefused == refused \in BOOLEAN
TypeFaults == faults \in 0..MaxFaults

(* What a caller of Central holds between two of its steps: from Prepared  *)
(* with complete metadata to Publishing, and to a recorded outcome.        *)
TaskInv ==
    \A t \in Tasks :
        /\ task[t].pc = "assign" => task[t].job.state = "Queued"
        /\ task[t].pc = "freeze" => task[t].job.state = "Prepared" /\ staged = Pages
        /\ task[t].pc \in {"cas", "decide"} =>
            /\ task[t].job.state = "Publishing"
            /\ job.state = "Publishing" \/ publication # None
        /\ task[t].pc = "decide" => publication # None

(* The job and the recorded outcome of its publication.                    *)
JobInv ==
    /\ job.state \in {"Succeeded", "Conflicted"} =>
        publication # None /\ Outcome(publication) = job.state
    /\ job.state = "Failed" => publication \in {None, "reject"}
    /\ publication # None => job.state \in {"Publishing", "Succeeded", "Conflicted", "Failed"}
    /\ job.state \notin Terminal => job.decision = None
    /\ job.decision \in {"publish", "conflict"} => job.state \in {"Succeeded", "Conflicted"}
    /\ job.state \in {"Publishing", "Succeeded", "Conflicted"} => staged = Pages

(* A job is Prepared or beyond only for a candidate in the ledger.         *)
Durable == ledger # None /\ ledger.prepared
CandidateInv == job.state \in {"Prepared", "Publishing", "Succeeded", "Conflicted"} => Durable

(* The state of the ledger at each point of the worker.                    *)
ControlInv ==
    /\ pc # "idle" => ledger # None
    /\ pc = "accept" => ledger.state = "Claimed"
    /\ pc = "send_accepted" => ledger.state = "Accepted"
    /\ pc = "execute" => ledger.state \in {"Accepted", "Running", "Recovering"}
    /\ pc \in {"send_running", "prepare"} => ledger.state = "Running"
    /\ pc \in {"report_prepared", "stage", "await"} => ledger.state = "Prepared"
    /\ pc \in {"send_failed", "report_failure"} => ledger.state = "FailedReported"
    /\ pc \in {"finalize", "complete"} => ledger.state = "Finalizing"

(* A record with a candidate never goes back to execution, and one with a  *)
(* decision has Central's.                                                 *)
LedgerInv ==
    ledger # None =>
        /\ ledger.prepared => ledger.state \in {"Prepared", "FailedReported", "AwaitingDecision",
                                                "Finalizing", "Completed"}
        /\ ledger.state = "Prepared" => ledger.prepared
        /\ (ledger.decision # None) = (ledger.state \in {"Finalizing", "Completed"})
        /\ ledger.decision # None => ledger.decision = job.decision

(* What the queued reports say of the ledger stays true until they arrive. *)
Finalized(d) ==
    ledger # None /\ ledger.decision = d /\ ledger.state \in {"Finalizing", "Completed"}
QueueInv ==
    \A i \in 1..Len(reports) :
        /\ reports[i].kind = "prepared" => Durable
        /\ reports[i].kind = "finalized" => Finalized(reports[i].decision)

WorkInv ==
    \A i \in 1..Len(work) :
        /\ work[i] = "decision" => job.decision # None
        /\ work[i] = "recovery" => ledger # None

IInv == /\ TypeJob /\ TypePublication /\ TypeStaged /\ TypeTask /\ TypeLedger /\ TypeQueue
        /\ TypeWork /\ TypeControl /\ TypeRest /\ TypeRefused /\ TypeFaults
        /\ TaskInv /\ JobInv /\ CandidateInv /\ ControlInv /\ LedgerInv /\ QueueInv /\ WorkInv
        /\ DecisionsFollowed

-----------------------------------------------------------------------------
(* A report is appended at most once; what was queued stays in its place.  *)
LEMMA SendFacts ==
  ASSUME NEW r \in AgentReport, TypeQueue, Send(r)
  PROVE  /\ reports' \in Seq(AgentReport)
         /\ Len(reports) <= Len(reports')
         /\ \A i \in 1..Len(reports') :
              reports'[i] = r \/ (i \in 1..Len(reports) /\ reports'[i] = reports[i])
  BY DEF TypeQueue, Send

(* What the worker takes from the queue of work, and what it leaves.       *)
LEMMA WorkFacts ==
  ASSUME TypeWork, work # <<>>
  PROVE  /\ Len(work) > 0 /\ Head(work) = work[1]
         /\ Tail(work) \in Seq({"assignment", "decision", "recovery"})
         /\ \A i \in 1..Len(Tail(work)) : i + 1 \in 1..Len(work) /\ Tail(work)[i] = work[i + 1]
  BY DEF TypeWork

(* The queues the worker starts with.                                      *)
LEMMA FreshWork ==
  /\ <<>> \in Seq({"assignment", "decision", "recovery"})
  /\ <<"recovery">> \in Seq({"assignment", "decision", "recovery"})
  OBVIOUS

(* An update of the ledger's record changes what it names.                 *)
LEMMA PersistFacts ==
  ASSUME ledger \in LedgerRecord, NEW s \in LedgerStates, Persist(s)
  PROVE  /\ ledger' \in LedgerRecord /\ ledger'.state = s
         /\ ledger'.prepared = ledger.prepared /\ ledger'.decision = ledger.decision
  BY DEF LedgerRecord, Persist

LEMMA LedgerPrepares ==
  ASSUME NEW l \in LedgerRecord
  PROVE  LET n == [l EXCEPT !.state = "Prepared", !.prepared = TRUE] IN
         n \in LedgerRecord /\ n.state = "Prepared" /\ n.prepared /\ n.decision = l.decision
  BY DEF LedgerRecord, LedgerStates

LEMMA LedgerFinalizes ==
  ASSUME NEW l \in LedgerRecord, NEW d \in Decisions
  PROVE  LET n == [l EXCEPT !.state = "Finalizing", !.decision = d] IN
         /\ n \in LedgerRecord /\ n.state = "Finalizing"
         /\ n.prepared = l.prepared /\ n.decision = d
  BY DEF LedgerRecord, LedgerStates

(* An update of the job's record changes what it names.                    *)
LEMMA JobMoves ==
  ASSUME NEW j \in JobRecord, NEW s \in JobStates
  PROVE  LET n == [j EXCEPT !.state = s] IN
         n \in JobRecord /\ n.state = s /\ n.decision = j.decision /\ n.ack = j.ack
  BY DEF JobRecord

LEMMA JobDecides ==
  ASSUME job \in JobRecord, NEW s \in JobStates, NEW d \in Decisions \cup {None},
         job' = [job EXCEPT !.state = s, !.decision = d]
  PROVE  job' \in JobRecord /\ job'.state = s /\ job'.decision = d /\ job'.ack = job.ack
  BY DEF JobRecord

(* What a report that fits does to the job's record.                       *)
LEMMA ApplyFacts ==
  ASSUME job \in JobRecord, NEW r \in AgentReport
  PROVE  /\ Apply(r) \in JobRecord
         /\ r.kind = "accepted" => Apply(r).state = "Accepted"
         /\ r.kind = "running" => Apply(r).state = "Running"
         /\ r.kind = "prepared" => Apply(r).state = "Prepared"
         /\ r.kind = "failed" => Apply(r).state = "Failed" /\ Apply(r).decision = "reject"
         /\ r.kind = "finalized" => Apply(r).state = job.state /\ Apply(r).ack
         /\ r.kind # "failed" => Apply(r).decision = job.decision
         /\ r.kind # "finalized" => Apply(r).ack = job.ack
  <1>1. r.kind \in {"accepted", "running", "prepared", "failed", "finalized"}
    BY DEF AgentReport
  <1>2. CASE r.kind \in {"accepted", "running", "prepared"}
    BY <1>2 DEF Apply, JobRecord, JobStates, Terminal, Decisions
  <1>3. CASE r.kind = "failed"
    BY <1>3 DEF Apply, JobRecord, JobStates, Terminal, Decisions
  <1>4. CASE r.kind = "finalized"
    BY <1>4 DEF Apply, JobRecord, JobStates, Terminal, Decisions
  <1>. QED BY <1>1, <1>2, <1>3, <1>4

(* The initial state satisfies the inductive invariant.                    *)
LEMMA InitIInv == Init => IInv
  <1>. SUFFICES ASSUME Init PROVE IInv
    OBVIOUS
  <1>. USE ConstantsAssumption, NoneAssumption DEF ConstantsAssumption, Init
  <1>1. TypeJob /\ TypePublication /\ TypeStaged /\ TypeLedger
    BY DEF TypeJob, JobRecord, JobStates, TypePublication, TypeStaged, TypeLedger
  <1>2. TypeTask
    BY DEF TypeTask, Task, IdleTask
  <1>3. TypeQueue /\ TypeWork /\ TypeFaults
    BY DEF TypeQueue, TypeWork, TypeFaults
  <1>4. TypeControl /\ TypeRest
    BY DEF TypeControl, PCs, TypeRest
  <1>5. TaskInv
    BY DEF TaskInv, IdleTask
  <1>6. JobInv /\ CandidateInv
    BY DEF JobInv, Terminal, Decisions, CandidateInv
  <1>7. TypeRefused
    BY DEF TypeRefused
  <1>8. ControlInv /\ LedgerInv /\ QueueInv /\ WorkInv /\ DecisionsFollowed
    BY DEF ControlInv, LedgerInv, QueueInv, WorkInv, DecisionsFollowed
  <1>. QED BY <1>1, <1>2, <1>3, <1>4, <1>5, <1>6, <1>7, <1>8 DEF IInv

(* Every step keeps the invariant, action by action.                       *)
LEMMA NextIInv == IInv /\ [Next]_vars => IInv'
  <1>. SUFFICES ASSUME IInv, [Next]_vars PROVE IInv'
    OBVIOUS
  <1>. USE ConstantsAssumption, NoneAssumption DEF ConstantsAssumption, IInv
  <1>1. ASSUME NEW t \in Tasks, Schedule(t)
        PROVE  IInv'
    <2>1. TypeTask'
      BY <1>1 DEF Schedule, At, Hold, agent, channel, clocks, bounds, TypeTask, Task,
          TypeJob, IdleTask
    <2>2. TaskInv'
      BY <1>1 DEF Schedule, At, Hold, agent, channel, clocks, bounds, TaskInv, TypeTask,
          Task, IdleTask, TypePublication, Decisions, TypeJob, JobRecord, JobStates,
          Terminal, Decisions
    <2>3. TypeJob' /\ TypePublication' /\ TypeStaged' /\ TypeLedger' /\ TypeQueue' /\
        TypeWork' /\ TypeControl' /\ TypeRest' /\ TypeRefused' /\ TypeFaults' /\ JobInv' /\
        CandidateInv' /\ ControlInv' /\ LedgerInv' /\ QueueInv' /\ WorkInv' /\
        DecisionsFollowed'
      BY <1>1 DEF Schedule, At, Hold, agent, channel, clocks, bounds, TypeJob,
          TypePublication, TypeStaged, TypeLedger, TypeQueue, TypeWork, TypeControl,
          TypeRest, TypeRefused, TypeFaults, JobInv, CandidateInv, Durable, ControlInv,
          LedgerInv, QueueInv, Finalized, WorkInv, DecisionsFollowed
    <2>. QED BY <2>1, <2>2, <2>3 DEF IInv
  <1>2. ASSUME NEW t \in Tasks, AssignJob(t)
        PROVE  IInv'
    <2>1. TypeJob'
      BY <1>2 DEF AssignJob, At, Current, Hold, Done, agent, channel, clocks, bounds,
          TypeJob, JobRecord, JobStates, Terminal, Decisions
    <2>2. TypeTask'
      BY <1>2 DEF AssignJob, At, Current, Hold, Done, agent, channel, clocks, bounds,
          TypeTask, Task, TypeJob, IdleTask
    <2>3. TypeRest'
      BY <1>2 DEF AssignJob, At, Current, Hold, Done, agent, channel, clocks, bounds,
          TypeRest
    <2>4. TaskInv'
      BY <1>2 DEF AssignJob, At, Current, Hold, Done, agent, channel, clocks, bounds,
          TaskInv, TypeTask, Task, IdleTask, TypePublication, Decisions, TypeJob,
          JobRecord, JobStates, Terminal, Decisions
    <2>5. JobInv'
      BY <1>2 DEF AssignJob, At, Current, Hold, Done, agent, channel, clocks, bounds,
          JobInv, TypePublication, TaskInv, TypeTask, Task, Outcome, TypeStaged, TypeJob,
          JobRecord, JobStates, Terminal, Decisions
    <2>6. CandidateInv'
      BY <1>2 DEF AssignJob, At, Current, Hold, Done, agent, channel, clocks, bounds,
          CandidateInv, Durable, TypeJob, JobRecord, JobStates, Terminal, Decisions,
          TypeLedger, LedgerRecord, LedgerStates, Decisions
    <2>7. LedgerInv'
      BY <1>2 DEF AssignJob, At, Current, Hold, Done, agent, channel, clocks, bounds,
          LedgerInv, ControlInv, TypeJob, JobRecord, JobStates, Terminal, Decisions,
          TypeLedger, LedgerRecord, LedgerStates, Decisions
    <2>8. WorkInv'
      BY <1>2 DEF AssignJob, At, Current, Hold, Done, agent, channel, clocks, bounds,
          WorkInv, TypeWork, JobInv, TypeJob, JobRecord, JobStates, Terminal, Decisions,
          TypeLedger, LedgerRecord, LedgerStates, Decisions
    <2>9. DecisionsFollowed'
      BY <1>2 DEF AssignJob, At, Current, Hold, Done, agent, channel, clocks, bounds,
          DecisionsFollowed, LedgerInv, ControlInv, JobInv, TypeJob, JobRecord, JobStates,
          Terminal, Decisions, TypeLedger, LedgerRecord, LedgerStates, Decisions
    <2>10. TypePublication' /\ TypeStaged' /\ TypeLedger' /\ TypeQueue' /\ TypeWork' /\
        TypeControl' /\ TypeRefused' /\ TypeFaults' /\ ControlInv' /\ QueueInv'
      BY <1>2 DEF AssignJob, At, Current, Hold, Done, agent, channel, clocks, bounds,
          TypePublication, TypeStaged, TypeLedger, TypeQueue, TypeWork, TypeControl,
          TypeRefused, TypeFaults, ControlInv, QueueInv, Durable, Finalized
    <2>. QED BY <2>1, <2>2, <2>3, <2>4, <2>5, <2>6, <2>7, <2>8, <2>9, <2>10 DEF IInv
  <1>3. ASSUME NEW t \in Tasks, PublishOutbox(t)
        PROVE  IInv'
    <2>1. TypeTask'
      BY <1>3 DEF PublishOutbox, At, Done, agent, channel, clocks, bounds, TypeTask, Task,
          TypeJob, IdleTask
    <2>2. TypeRest'
      BY <1>3 DEF PublishOutbox, At, Done, agent, channel, clocks, bounds, TypeRest
    <2>3. TaskInv'
      BY <1>3 DEF PublishOutbox, At, Done, agent, channel, clocks, bounds, TaskInv,
          TypeTask, Task, IdleTask, TypePublication, Decisions, TypeJob, JobRecord,
          JobStates, Terminal, Decisions
    <2>4. TypeJob' /\ TypePublication' /\ TypeStaged' /\ TypeLedger' /\ TypeQueue' /\
        TypeWork' /\ TypeControl' /\ TypeRefused' /\ TypeFaults' /\ JobInv' /\
        CandidateInv' /\ ControlInv' /\ LedgerInv' /\ QueueInv' /\ WorkInv' /\
        DecisionsFollowed'
      BY <1>3 DEF PublishOutbox, At, Done, agent, channel, clocks, bounds, TypeJob,
          TypePublication, TypeStaged, TypeLedger, TypeQueue, TypeWork, TypeControl,
          TypeRefused, TypeFaults, JobInv, CandidateInv, Durable, ControlInv, LedgerInv,
          QueueInv, Finalized, WorkInv, DecisionsFollowed
    <2>. QED BY <2>1, <2>2, <2>3, <2>4 DEF IInv
  <1>4. ASSUME NEW t \in Tasks, FinalizeCheck(t)
        PROVE  IInv'
    <2>1. TypeTask'
      BY <1>4 DEF FinalizeCheck, At, Publishable, Hold, agent, channel, clocks, bounds,
          TypeTask, Task, TypeJob, IdleTask
    <2>2. TaskInv'
      BY <1>4 DEF FinalizeCheck, At, Publishable, Hold, agent, channel, clocks, bounds,
          TaskInv, TypeTask, Task, IdleTask, TypePublication, Decisions, TypeJob,
          JobRecord, JobStates, Terminal, Decisions
    <2>3. TypeJob' /\ TypePublication' /\ TypeStaged' /\ TypeLedger' /\ TypeQueue' /\
        TypeWork' /\ TypeControl' /\ TypeRest' /\ TypeRefused' /\ TypeFaults' /\ JobInv' /\
        CandidateInv' /\ ControlInv' /\ LedgerInv' /\ QueueInv' /\ WorkInv' /\
        DecisionsFollowed'
      BY <1>4 DEF FinalizeCheck, At, Publishable, Hold, agent, channel, clocks, bounds,
          TypeJob, TypePublication, TypeStaged, TypeLedger, TypeQueue, TypeWork,
          TypeControl, TypeRest, TypeRefused, TypeFaults, JobInv, CandidateInv, Durable,
          ControlInv, LedgerInv, QueueInv, Finalized, WorkInv, DecisionsFollowed
    <2>. QED BY <2>1, <2>2, <2>3 DEF IInv
  <1>5. ASSUME NEW t \in Tasks, Freeze(t)
        PROVE  IInv'
    <2>0. /\ job \in JobRecord /\ job' \in JobRecord
          /\ \/ /\ job.state = "Prepared" /\ staged = Pages
                /\ job'.state = "Publishing" /\ job'.decision = job.decision /\ job'.ack = job.ack
                /\ task' = [task EXCEPT ![t] = [pc |-> "cas", job |-> job']]
             \/ /\ job' = job
                /\ task' = [task EXCEPT ![t] = IdleTask]
          /\ UNCHANGED <<staged, publication, version, ledger, work, refused>>
      <3>1. job \in JobRecord /\ UNCHANGED <<staged, publication, version, ledger, work, refused>>
        BY <1>5 DEF Freeze, TypeJob, agent, bounds
      <3>2. CASE Current(t)
        <4>1. job.state = "Prepared" /\ staged = Pages
          BY <1>5, <3>2 DEF Freeze, At, Current, TaskInv
        <4>2. job' = [job EXCEPT !.state = "Publishing"] /\ Hold(t, "cas", job')
          BY <1>5, <3>2 DEF Freeze
        <4>3. job' \in JobRecord /\ job'.state = "Publishing"
              /\ job'.decision = job.decision /\ job'.ack = job.ack
          BY <3>1, <4>2, JobMoves DEF JobStates
        <4>. QED BY <3>1, <4>1, <4>2, <4>3 DEF Hold
      <3>3. CASE ~Current(t)
        BY <1>5, <3>1, <3>3 DEF Freeze, Done
      <3>. QED BY <3>2, <3>3
    <2>1. TypeJob'
      BY <2>0 DEF TypeJob
    <2>2. TypeTask'
      BY <2>0 DEF TypeTask, Task, IdleTask
    <2>3. TaskInv'
      BY <2>0 DEF TaskInv, TypeTask, Task, IdleTask, Terminal
    <2>4. JobInv'
      BY <2>0 DEF JobInv, Terminal
    <2>5. CandidateInv'
      BY <2>0 DEF CandidateInv, Durable
    <2>6. LedgerInv'
      BY <2>0 DEF LedgerInv
    <2>7. WorkInv'
      BY <2>0 DEF WorkInv
    <2>8. DecisionsFollowed'
      BY <2>0 DEF DecisionsFollowed, LedgerInv
    <2>9. TypePublication' /\ TypeStaged' /\ TypeLedger' /\ TypeQueue' /\ TypeWork' /\
        TypeControl' /\ TypeRest' /\ TypeRefused' /\ TypeFaults' /\ ControlInv' /\ QueueInv'
      <3>1. UNCHANGED <<agentLate, applied, centralLate, connected, daemon, faults, ledger,
          outbox, pc, publication, refused, reports, seen, staged, version, work>>
        BY <1>5 DEF Freeze, At, Current, Hold, Done, agent, channel, clocks, bounds
      <3>. QED BY <3>1 DEF TypePublication, TypeStaged, TypeLedger, TypeQueue, TypeWork,
          TypeControl, TypeRest, TypeRefused, TypeFaults, ControlInv, QueueInv, Durable,
          Finalized
    <2>. QED BY <2>1, <2>2, <2>3, <2>4, <2>5, <2>6, <2>7, <2>8, <2>9 DEF IInv
  <1>6. ASSUME NEW t \in Tasks, ResumePublication(t)
        PROVE  IInv'
    <2>1. TypeTask'
      BY <1>6 DEF ResumePublication, At, Hold, agent, channel, clocks, bounds, TypeTask,
          Task, TypeJob, IdleTask
    <2>2. TaskInv'
      BY <1>6 DEF ResumePublication, At, Hold, agent, channel, clocks, bounds, TaskInv,
          TypeTask, Task, IdleTask, TypePublication, Decisions, TypeJob, JobRecord,
          JobStates, Terminal, Decisions
    <2>3. TypeJob' /\ TypePublication' /\ TypeStaged' /\ TypeLedger' /\ TypeQueue' /\
        TypeWork' /\ TypeControl' /\ TypeRest' /\ TypeRefused' /\ TypeFaults' /\ JobInv' /\
        CandidateInv' /\ ControlInv' /\ LedgerInv' /\ QueueInv' /\ WorkInv' /\
        DecisionsFollowed'
      BY <1>6 DEF ResumePublication, At, Hold, agent, channel, clocks, bounds, TypeJob,
          TypePublication, TypeStaged, TypeLedger, TypeQueue, TypeWork, TypeControl,
          TypeRest, TypeRefused, TypeFaults, JobInv, CandidateInv, Durable, ControlInv,
          LedgerInv, QueueInv, Finalized, WorkInv, DecisionsFollowed
    <2>. QED BY <2>1, <2>2, <2>3 DEF IInv
  <1>7. ASSUME NEW t \in Tasks, CompareAndSwap(t)
        PROVE  IInv'
    <2>1. TypePublication'
      BY <1>7 DEF CompareAndSwap, At, agent, channel, clocks, bounds, TypePublication,
          Decisions
    <2>2. TypeTask'
      BY <1>7 DEF CompareAndSwap, At, agent, channel, clocks, bounds, TypeTask, Task,
          TypeJob, IdleTask
    <2>3. TaskInv'
      BY <1>7 DEF CompareAndSwap, At, agent, channel, clocks, bounds, TaskInv, TypeTask,
          Task, IdleTask, TypePublication, Decisions, TypeJob, JobRecord, JobStates,
          Terminal, Decisions
    <2>4. JobInv'
      BY <1>7 DEF CompareAndSwap, At, agent, channel, clocks, bounds, JobInv,
          TypePublication, TaskInv, TypeTask, Task, Outcome, TypeStaged, TypeJob,
          JobRecord, JobStates, Terminal, Decisions
    <2>5. TypeJob' /\ TypeStaged' /\ TypeLedger' /\ TypeQueue' /\ TypeWork' /\ TypeControl'
        /\ TypeRest' /\ TypeRefused' /\ TypeFaults' /\ CandidateInv' /\ ControlInv' /\
        LedgerInv' /\ QueueInv' /\ WorkInv' /\ DecisionsFollowed'
      BY <1>7 DEF CompareAndSwap, At, agent, channel, clocks, bounds, TypeJob, TypeStaged,
          TypeLedger, TypeQueue, TypeWork, TypeControl, TypeRest, TypeRefused, TypeFaults,
          CandidateInv, Durable, ControlInv, LedgerInv, QueueInv, Finalized, WorkInv,
          DecisionsFollowed
    <2>. QED BY <2>1, <2>2, <2>3, <2>4, <2>5 DEF IInv
  <1>8. ASSUME NEW t \in Tasks, Decide(t)
        PROVE  IInv'
    <2>0. /\ job \in JobRecord /\ job' \in JobRecord /\ publication \in Decisions
          /\ \/ /\ job.state = "Publishing" /\ job'.state = Outcome(publication)
                /\ job'.decision = publication /\ job'.ack = job.ack
             \/ job' = job
          /\ task' = [task EXCEPT ![t] = IdleTask]
          /\ UNCHANGED <<staged, publication, version, ledger, work, refused>>
      <3>1. /\ job \in JobRecord /\ publication \in Decisions
            /\ UNCHANGED <<staged, publication, version, ledger, work, refused>>
        BY <1>8 DEF Decide, At, TaskInv, TypeJob, TypePublication, agent, bounds
      <3>2. CASE Current(t)
        <4>1. Outcome(publication) \in JobStates
          BY <3>1 DEF Outcome, Decisions, JobStates, Terminal
        <4>2. job.state = "Publishing"
          BY <1>8, <3>2 DEF Decide, At, Current, TaskInv
        <4>3. job' = [job EXCEPT !.state = Outcome(publication), !.decision = publication]
          BY <1>8, <3>2 DEF Decide
        <4>4. job' \in JobRecord /\ job'.state = Outcome(publication)
              /\ job'.decision = publication /\ job'.ack = job.ack
          BY <3>1, <4>1, <4>3, JobDecides
        <4>. QED BY <1>8, <3>1, <4>2, <4>4 DEF Decide, Done
      <3>3. CASE ~Current(t)
        BY <1>8, <3>1, <3>3 DEF Decide, Done
      <3>. QED BY <3>2, <3>3
    <2>1. TypeJob'
      BY <2>0 DEF TypeJob
    <2>2. TypeTask'
      BY <2>0 DEF TypeTask, Task, IdleTask
    <2>3. TaskInv'
      BY <2>0 DEF TaskInv, TypeTask, Task, IdleTask, Terminal
    <2>4. JobInv'
      BY <2>0 DEF JobInv, Outcome, Decisions, Terminal
    <2>5. CandidateInv'
      BY <2>0 DEF CandidateInv, Durable, JobInv, LedgerInv, DecisionsFollowed, Outcome,
          Decisions, Terminal
    <2>6. LedgerInv'
      BY <2>0 DEF LedgerInv, JobInv, LedgerInv, DecisionsFollowed, Outcome, Decisions,
          Terminal
    <2>7. WorkInv'
      BY <2>0 DEF WorkInv, JobInv, LedgerInv, DecisionsFollowed, Outcome, Decisions,
          Terminal
    <2>8. DecisionsFollowed'
      BY <2>0 DEF DecisionsFollowed, LedgerInv, JobInv, LedgerInv, DecisionsFollowed,
          Outcome, Decisions, Terminal
    <2>9. TypePublication' /\ TypeStaged' /\ TypeLedger' /\ TypeQueue' /\ TypeWork' /\
        TypeControl' /\ TypeRest' /\ TypeRefused' /\ TypeFaults' /\ ControlInv' /\ QueueInv'
      <3>1. UNCHANGED <<agentLate, applied, centralLate, connected, daemon, faults, ledger,
          outbox, pc, publication, refused, reports, seen, staged, version, work>>
        BY <1>8 DEF Decide, At, Current, Done, agent, channel, clocks, bounds
      <3>. QED BY <3>1 DEF TypePublication, TypeStaged, TypeLedger, TypeQueue, TypeWork,
          TypeControl, TypeRest, TypeRefused, TypeFaults, ControlInv, QueueInv, Durable,
          Finalized
    <2>. QED BY <2>1, <2>2, <2>3, <2>4, <2>5, <2>6, <2>7, <2>8, <2>9 DEF IInv
  <1>9. ASSUME Expire
        PROVE  IInv'
    <2>0. /\ job \in JobRecord /\ job' \in JobRecord
          /\ job.state \in {"Queued", "Assigned", "Accepted", "Running", "Prepared"}
          /\ job'.state = "TimedOut" /\ job'.ack = job.ack
          /\ job'.decision \in {None, "reject"}
          /\ UNCHANGED <<staged, publication, task, ledger, work, refused>>
      <3>. DEFINE d == IF job.state = "Queued" THEN None ELSE "reject"
      <3>1. job \in JobRecord /\ d \in {None, "reject"}
        BY DEF TypeJob
      <3>2. job' = [job EXCEPT !.state = "TimedOut", !.decision = d]
        BY <1>9 DEF Expire
      <3>3. "TimedOut" \in JobStates /\ d \in Decisions \cup {None}
        BY <3>1 DEF JobStates, Terminal, Decisions
      <3>. HIDE DEF d
      <3>4. job' \in JobRecord /\ job'.state = "TimedOut" /\ job'.decision = d /\ job'.ack = job.ack
        BY <3>1, <3>2, <3>3, JobDecides
      <3>. QED BY <1>9, <3>1, <3>4 DEF Expire, agent, bounds
    <2>1. TypeJob'
      BY <2>0 DEF TypeJob
    <2>2. TypeRest'
      BY <1>9 DEF Expire, Retire, agent, channel, clocks, TypeRest
    <2>3. TaskInv'
      BY <2>0 DEF TaskInv
    <2>4. JobInv'
      BY <2>0 DEF JobInv, Terminal
    <2>5. CandidateInv'
      BY <2>0 DEF CandidateInv, Durable
    <2>6. LedgerInv'
      BY <2>0 DEF LedgerInv, JobInv, LedgerInv, DecisionsFollowed, Terminal
    <2>7. WorkInv'
      BY <2>0 DEF WorkInv, JobInv, LedgerInv, DecisionsFollowed, Terminal
    <2>8. DecisionsFollowed'
      BY <2>0 DEF DecisionsFollowed, LedgerInv, JobInv, LedgerInv, DecisionsFollowed,
          Terminal
    <2>9. TypePublication' /\ TypeStaged' /\ TypeTask' /\ TypeLedger' /\ TypeQueue' /\
        TypeWork' /\ TypeControl' /\ TypeRefused' /\ TypeFaults' /\ ControlInv' /\ QueueInv'
      <3>1. UNCHANGED <<applied, faults, ledger, pc, publication, refused, reports, staged,
          task, version, work>>
        BY <1>9 DEF Expire, Retire, agent, channel, clocks, bounds
      <3>. QED BY <3>1 DEF TypePublication, TypeStaged, TypeTask, TypeLedger, TypeQueue,
          TypeWork, TypeControl, TypeRefused, TypeFaults, ControlInv, QueueInv, Durable,
          Finalized
    <2>. QED BY <2>1, <2>2, <2>3, <2>4, <2>5, <2>6, <2>7, <2>8, <2>9 DEF IInv
  <1>10. ASSUME OtherPublication
        PROVE  IInv'
    <2>1. TypePublication'
      BY <1>10 DEF OtherPublication, agent, channel, clocks, bounds, TypePublication,
          Decisions
    <2>2. TypeJob' /\ TypeStaged' /\ TypeTask' /\ TypeLedger' /\ TypeQueue' /\ TypeWork' /\
        TypeControl' /\ TypeRest' /\ TypeRefused' /\ TypeFaults' /\ TaskInv' /\ JobInv' /\
        CandidateInv' /\ ControlInv' /\ LedgerInv' /\ QueueInv' /\ WorkInv' /\
        DecisionsFollowed'
      BY <1>10 DEF OtherPublication, agent, channel, clocks, bounds, TypeJob, TypeStaged,
          TypeTask, TypeLedger, TypeQueue, TypeWork, TypeControl, TypeRest, TypeRefused,
          TypeFaults, TaskInv, JobInv, CandidateInv, Durable, ControlInv, LedgerInv,
          QueueInv, Finalized, WorkInv, DecisionsFollowed
    <2>. QED BY <2>1, <2>2 DEF IInv
  <1>11. ASSUME ReceiveReport
        PROVE  IInv'
    <2>0. /\ job \in JobRecord /\ job' \in JobRecord
          /\ \/ job' = job
             \/ /\ job.state \in {"Assigned", "Accepted", "Running"}
                /\ job'.state \in {"Accepted", "Running"}
                /\ job'.decision = job.decision /\ job'.ack = job.ack
             \/ /\ job.state = "Running" /\ job'.state = "Prepared" /\ Durable
                /\ job'.decision = job.decision /\ job'.ack = job.ack
             \/ /\ job.state \notin Terminal \cup {"Publishing"}
                /\ job'.state = "Failed" /\ job'.decision = "reject" /\ job'.ack = job.ack
             \/ /\ job'.state = job.state /\ job'.decision = job.decision /\ job'.ack
                /\ job.decision # None /\ Finalized(job.decision)
          /\ applied' \in 0..Len(reports)
          /\ UNCHANGED <<staged, publication, task, ledger, reports, work, refused>>
      <3>. DEFINE r == reports[applied + 1]
      <3>1. /\ job \in JobRecord /\ applied + 1 \in 1..Len(reports) /\ r \in AgentReport
            /\ applied' \in 0..Len(reports)
            /\ UNCHANGED <<staged, publication, task, ledger, reports, work, refused>>
        BY <1>11 DEF ReceiveReport, TypeJob, TypeQueue, agent, bounds
      <3>2. (r.kind = "prepared" => Durable) /\ (r.kind = "finalized" => Finalized(r.decision))
        BY <3>1 DEF QueueInv
      <3>3. CASE Replayed(r)
        BY <1>11, <3>1, <3>3 DEF ReceiveReport
      <3>4. CASE ~Replayed(r)
        <4>1. Fits(r) /\ job' = Apply(r)
          BY <1>11, <3>4 DEF ReceiveReport
        <4>. HIDE DEF r
        <4>2. r.kind \in {"accepted", "running", "prepared", "failed", "finalized"}
          BY <3>1 DEF AgentReport
        <4>. QED BY <3>1, <3>2, <4>1, <4>2, ApplyFacts DEF Fits
      <3>. QED BY <3>3, <3>4
    <2>1. TypeJob'
      BY <2>0 DEF TypeJob
    <2>2. TypeQueue'
      BY <2>0 DEF TypeQueue
    <2>3. TypeRest'
      BY <1>11 DEF ReceiveReport, Retire, agent, clocks, TypeRest
    <2>4. TaskInv'
      BY <2>0 DEF TaskInv, JobInv, LedgerInv, DecisionsFollowed, Finalized, Terminal
    <2>5. JobInv'
      BY <2>0 DEF JobInv, Terminal
    <2>6. CandidateInv'
      BY <2>0 DEF CandidateInv, Durable
    <2>7. LedgerInv'
      BY <2>0 DEF LedgerInv, JobInv, LedgerInv, DecisionsFollowed, Finalized, Terminal
    <2>8. WorkInv'
      BY <2>0 DEF WorkInv, JobInv, LedgerInv, DecisionsFollowed, Finalized, Terminal
    <2>9. DecisionsFollowed'
      BY <2>0 DEF DecisionsFollowed, LedgerInv, JobInv, LedgerInv, DecisionsFollowed,
          Finalized, Terminal
    <2>10. TypePublication' /\ TypeStaged' /\ TypeTask' /\ TypeLedger' /\ TypeWork' /\
        TypeControl' /\ TypeRefused' /\ TypeFaults' /\ ControlInv' /\ QueueInv'
      <3>1. UNCHANGED <<faults, ledger, pc, publication, refused, reports, staged, task,
          version, work>>
        BY <1>11 DEF ReceiveReport, Retire, agent, clocks, bounds, Apply, Fits, Replayed
      <3>. QED BY <3>1 DEF TypePublication, TypeStaged, TypeTask, TypeLedger, TypeWork,
          TypeControl, TypeRefused, TypeFaults, ControlInv, QueueInv, Durable, Finalized
    <2>. QED BY <2>1, <2>2, <2>3, <2>4, <2>5, <2>6, <2>7, <2>8, <2>9, <2>10 DEF IInv
  <1>12. ASSUME RejectReport
        PROVE  IInv'
    <2>1. TypeQueue'
      BY <1>12 DEF RejectReport, Closed, central, clocks, bounds, TypeQueue
    <2>2. TypeRest'
      BY <1>12 DEF RejectReport, Closed, central, clocks, bounds, TypeRest
    <2>3. QueueInv'
      BY <1>12 DEF RejectReport, Closed, central, clocks, bounds, QueueInv, Durable,
          Finalized, TypeQueue, LedgerInv, ControlInv, TypeLedger, LedgerRecord,
          LedgerStates, Decisions
    <2>4. TypeJob' /\ TypePublication' /\ TypeStaged' /\ TypeTask' /\ TypeLedger' /\
        TypeWork' /\ TypeControl' /\ TypeRefused' /\ TypeFaults' /\ TaskInv' /\ JobInv' /\
        CandidateInv' /\ ControlInv' /\ LedgerInv' /\ WorkInv' /\ DecisionsFollowed'
      BY <1>12 DEF RejectReport, Closed, central, clocks, bounds, TypeJob, TypePublication,
          TypeStaged, TypeTask, TypeLedger, TypeWork, TypeControl, TypeRefused, TypeFaults,
          TaskInv, JobInv, CandidateInv, Durable, ControlInv, LedgerInv, WorkInv,
          DecisionsFollowed
    <2>. QED BY <2>1, <2>2, <2>3, <2>4 DEF IInv
  <1>13. ASSUME Acknowledge
        PROVE  IInv'
    <2>1. TypeQueue'
      BY <1>13 DEF Acknowledge, central, clocks, bounds, TypeQueue
    <2>2. QueueInv'
      BY <1>13 DEF Acknowledge, central, clocks, bounds, QueueInv, Durable, Finalized,
          TypeQueue, LedgerInv, ControlInv, TypeLedger, LedgerRecord, LedgerStates,
          Decisions
    <2>3. TypeJob' /\ TypePublication' /\ TypeStaged' /\ TypeTask' /\ TypeLedger' /\
        TypeWork' /\ TypeControl' /\ TypeRest' /\ TypeRefused' /\ TypeFaults' /\ TaskInv'
        /\ JobInv' /\ CandidateInv' /\ ControlInv' /\ LedgerInv' /\ WorkInv' /\
        DecisionsFollowed'
      BY <1>13 DEF Acknowledge, central, clocks, bounds, TypeJob, TypePublication,
          TypeStaged, TypeTask, TypeLedger, TypeWork, TypeControl, TypeRest, TypeRefused,
          TypeFaults, TaskInv, JobInv, CandidateInv, Durable, ControlInv, LedgerInv,
          WorkInv, DecisionsFollowed
    <2>. QED BY <2>1, <2>2, <2>3 DEF IInv
  <1>14. ASSUME Connect
        PROVE  IInv'
    <2>1. TypeRest'
      BY <1>14 DEF Connect, central, agent, clocks, bounds, TypeRest
    <2>2. TypeJob' /\ TypePublication' /\ TypeStaged' /\ TypeTask' /\ TypeLedger' /\
        TypeQueue' /\ TypeWork' /\ TypeControl' /\ TypeRefused' /\ TypeFaults' /\ TaskInv'
        /\ JobInv' /\ CandidateInv' /\ ControlInv' /\ LedgerInv' /\ QueueInv' /\ WorkInv'
        /\ DecisionsFollowed'
      BY <1>14 DEF Connect, central, agent, clocks, bounds, TypeJob, TypePublication,
          TypeStaged, TypeTask, TypeLedger, TypeQueue, TypeWork, TypeControl, TypeRefused,
          TypeFaults, TaskInv, JobInv, CandidateInv, Durable, ControlInv, LedgerInv,
          QueueInv, Finalized, WorkInv, DecisionsFollowed
    <2>. QED BY <2>1, <2>2 DEF IInv
  <1>15. ASSUME Disconnect
        PROVE  IInv'
    <2>1. TypeQueue'
      BY <1>15 DEF Disconnect, Fault, Closed, central, agent, clocks, TypeQueue
    <2>2. TypeRest'
      BY <1>15 DEF Disconnect, Fault, Closed, central, agent, clocks, TypeRest
    <2>3. TypeFaults'
      BY <1>15 DEF Disconnect, Fault, Closed, central, agent, clocks, TypeFaults
    <2>4. TypeJob' /\ TypePublication' /\ TypeStaged' /\ TypeTask' /\ TypeLedger' /\
        TypeWork' /\ TypeControl' /\ TypeRefused' /\ TaskInv' /\ JobInv' /\ CandidateInv'
        /\ ControlInv' /\ LedgerInv' /\ QueueInv' /\ WorkInv' /\ DecisionsFollowed'
      BY <1>15 DEF Disconnect, Fault, Closed, central, agent, clocks, TypeJob,
          TypePublication, TypeStaged, TypeTask, TypeLedger, TypeWork, TypeControl,
          TypeRefused, TaskInv, JobInv, CandidateInv, Durable, ControlInv, LedgerInv,
          QueueInv, Finalized, WorkInv, DecisionsFollowed
    <2>. QED BY <2>1, <2>2, <2>3, <2>4 DEF IInv
  <1>16. ASSUME NEW c \in {"assignment", "decision"}, Deliver(c)
        PROVE  IInv'
    <2>1. TypeWork'
      BY <1>16 DEF Deliver, Deliverable, central, clocks, bounds, TypeWork
    <2>2. TypeRest'
      BY <1>16 DEF Deliver, Deliverable, central, clocks, bounds, TypeRest
    <2>3. WorkInv'
      BY <1>16 DEF Deliver, Deliverable, central, clocks, bounds, WorkInv, TypeWork,
          JobInv, TypeJob, JobRecord, JobStates, Terminal, Decisions, TypeLedger,
          LedgerRecord, LedgerStates, Decisions
    <2>4. TypeJob' /\ TypePublication' /\ TypeStaged' /\ TypeTask' /\ TypeLedger' /\
        TypeQueue' /\ TypeControl' /\ TypeRefused' /\ TypeFaults' /\ TaskInv' /\ JobInv' /\
        CandidateInv' /\ ControlInv' /\ LedgerInv' /\ QueueInv' /\ DecisionsFollowed'
      BY <1>16 DEF Deliver, Deliverable, central, clocks, bounds, TypeJob, TypePublication,
          TypeStaged, TypeTask, TypeLedger, TypeQueue, TypeControl, TypeRefused,
          TypeFaults, TaskInv, JobInv, CandidateInv, Durable, ControlInv, LedgerInv,
          QueueInv, Finalized, DecisionsFollowed
    <2>. QED BY <2>1, <2>2, <2>3, <2>4 DEF IInv
  <1>17. ASSUME HandleAssignment
        PROVE  IInv'
    <2>0. /\ \/ /\ ledger' = ledger /\ pc' = "idle" /\ work' = <<>> /\ applied' = 0
                /\ daemon' = FALSE /\ connected' = FALSE /\ seen' = {}
             \/ /\ ledger = None /\ ledger' \in LedgerRecord /\ ledger' # None
                /\ ledger'.state = "Claimed" /\ ~ledger'.prepared /\ ledger'.decision = None
                /\ pc' = "accept" /\ work' = Tail(work) /\ UNCHANGED <<applied, daemon, connected, seen>>
             \/ /\ ledger \in LedgerRecord /\ ledger # None /\ ledger' = ledger
                /\ pc' = (IF ledger.state \in {"Claimed", "Accepted", "Prepared"}
                          THEN Resume(ledger.state) ELSE "idle")
                /\ work' = Tail(work) /\ UNCHANGED <<applied, daemon, connected, seen>>
          /\ work # <<>>
          /\ UNCHANGED <<job, task, reports, refused>>
      <3>1. CASE ledger = None /\ agentLate
        BY <1>17, <3>1 DEF HandleAssignment, Take, Worker, Exit, Closed, central
      <3>2. CASE ledger = None /\ ~agentLate
        <4>1. ledger' = [state |-> "Claimed", prepared |-> FALSE, decision |-> None]
          BY <1>17, <3>2 DEF HandleAssignment
        <4>2. ledger' \in LedgerRecord
          BY <4>1 DEF LedgerRecord, LedgerStates
        <4>. QED BY <1>17, <3>2, <4>1, <4>2 DEF HandleAssignment, Take, Worker, Begin,
            channel, central
      <3>3. CASE ledger # None
        BY <1>17, <3>3 DEF HandleAssignment, Take, Worker, Begin, channel, central,
            TypeLedger
      <3>. QED BY <3>1, <3>2, <3>3
    <2>1. TypeLedger'
      BY <2>0 DEF TypeLedger
    <2>2. TypeQueue'
      BY <2>0 DEF TypeQueue
    <2>3. TypeWork'
      BY <2>0, WorkFacts, FreshWork DEF TypeWork
    <2>4. TypeControl'
      BY <2>0 DEF TypeControl, PCs, Resume, LedgerRecord, LedgerStates
    <2>5. TypeRest'
      BY <1>17 DEF HandleAssignment, Take, Exit, Begin, Worker, Closed, channel, central,
          clocks, Resume, TypeRest
    <2>6. TypeRefused'
      BY <2>0 DEF TypeRefused
    <2>7. CandidateInv'
      BY <2>0 DEF CandidateInv, Durable
    <2>8. ControlInv'
      BY <2>0 DEF ControlInv, Resume, LedgerRecord, LedgerStates
    <2>9. LedgerInv'
      BY <2>0 DEF LedgerInv
    <2>10. QueueInv'
      BY <2>0 DEF QueueInv, Durable, Finalized, LedgerInv
    <2>11. WorkInv'
      <3>1. CASE work' = <<>>
        BY <3>1 DEF WorkInv
      <3>2. CASE work' = Tail(work)
        BY <2>0, <3>2, WorkFacts DEF WorkInv
      <3>. QED BY <2>0, <3>1, <3>2
    <2>12. DecisionsFollowed'
      BY <2>0 DEF DecisionsFollowed, LedgerInv
    <2>13. TypeJob' /\ TypePublication' /\ TypeStaged' /\ TypeTask' /\ TypeFaults' /\
        TaskInv' /\ JobInv'
      <3>1. UNCHANGED <<faults, job, publication, staged, task, version>>
        BY <1>17 DEF HandleAssignment, Take, Exit, Begin, Worker, Closed, channel, central,
            clocks, Resume
      <3>. QED BY <3>1 DEF TypeJob, TypePublication, TypeStaged, TypeTask, TypeFaults,
          TaskInv, JobInv
    <2>. QED BY <2>1, <2>2, <2>3, <2>4, <2>5, <2>6, <2>7, <2>8, <2>9, <2>10, <2>11, <2>12,
        <2>13 DEF IInv
  <1>18. ASSUME HandleRecovery
        PROVE  IInv'
    <2>0. /\ ledger \in LedgerRecord /\ ledger # None
          /\ ledger' \in LedgerRecord /\ ledger' # None
          /\ ledger'.decision = ledger.decision /\ ledger'.prepared = ledger.prepared
          /\ \/ ledger.state = "Running" /\ ledger'.state = "Recovering" /\ pc' = "execute"
             \/ ledger.state # "Running" /\ ledger'.state = ledger.state /\ pc' = Resume(ledger.state)
          /\ work' = Tail(work) /\ work # <<>>
          /\ UNCHANGED <<job, task, reports, applied, refused>>
      <3>1. ledger \in LedgerRecord
        BY <1>18, WorkFacts DEF HandleRecovery, Take, WorkInv, TypeLedger
      <3>2. CASE ledger.state = "Running"
        <4>1. Persist("Recovering") /\ "Recovering" \in LedgerStates
          BY <1>18, <3>2 DEF HandleRecovery, LedgerStates
        <4>2. /\ ledger' \in LedgerRecord /\ ledger'.state = "Recovering"
              /\ ledger'.prepared = ledger.prepared /\ ledger'.decision = ledger.decision
          BY <3>1, <4>1, PersistFacts
        <4>. QED BY <1>18, <3>1, <3>2, <4>2
                  DEF HandleRecovery, Take, Worker, Begin, Resume, central, channel
      <3>3. CASE ledger.state # "Running"
        BY <1>18, <3>1, <3>3 DEF HandleRecovery, Take, Worker, Begin, central, channel
      <3>. QED BY <3>2, <3>3
    <2>1. TypeLedger'
      BY <2>0 DEF TypeLedger
    <2>2. TypeWork'
      BY <2>0, WorkFacts, FreshWork DEF TypeWork
    <2>3. TypeControl'
      BY <2>0 DEF TypeControl, PCs, Resume, LedgerRecord, LedgerStates
    <2>4. CandidateInv'
      BY <2>0 DEF CandidateInv, Durable
    <2>5. ControlInv'
      BY <2>0 DEF ControlInv, Resume, LedgerRecord, LedgerStates
    <2>6. LedgerInv'
      BY <2>0 DEF LedgerInv
    <2>7. QueueInv'
      BY <2>0 DEF QueueInv, Durable, Finalized, LedgerInv
    <2>8. WorkInv'
      BY <2>0, WorkFacts DEF WorkInv
    <2>9. DecisionsFollowed'
      BY <2>0 DEF DecisionsFollowed, LedgerInv
    <2>10. TypeJob' /\ TypePublication' /\ TypeStaged' /\ TypeTask' /\ TypeQueue' /\
        TypeRest' /\ TypeRefused' /\ TypeFaults' /\ TaskInv' /\ JobInv'
      <3>1. UNCHANGED <<agentLate, applied, centralLate, connected, daemon, faults, job,
          outbox, publication, refused, reports, seen, staged, task, version>>
        BY <1>18 DEF HandleRecovery, Take, Persist, Begin, Worker, channel, central,
            clocks, Resume
      <3>. QED BY <3>1 DEF TypeJob, TypePublication, TypeStaged, TypeTask, TypeQueue,
          TypeRest, TypeRefused, TypeFaults, TaskInv, JobInv
    <2>. QED BY <2>1, <2>2, <2>3, <2>4, <2>5, <2>6, <2>7, <2>8, <2>9, <2>10 DEF IInv
  <1>19. ASSUME HandleDecision
        PROVE  IInv'
    <2>0. /\ ledger # None => ledger \in LedgerRecord
          /\ \/ /\ ledger' = ledger /\ pc' = "idle" /\ work' = <<>> /\ applied' = 0 /\ ledger = None
                /\ daemon' = FALSE /\ connected' = FALSE /\ seen' = {}
             \/ /\ ledger # None /\ ledger' = ledger
                /\ pc' = Resume(ledger.state)
                /\ work' = Tail(work) /\ UNCHANGED <<applied, daemon, connected, seen>>
             \/ /\ ledger # None /\ ledger' \in LedgerRecord /\ ledger' # None
                /\ ledger.decision = None
                /\ ledger'.state = "Finalizing" /\ ledger'.prepared = ledger.prepared
                /\ ledger'.decision = job.decision
                /\ pc' = "finalize" /\ work' = Tail(work) /\ UNCHANGED <<applied, daemon, connected, seen>>
          /\ work # <<>> /\ job.decision # None
          /\ UNCHANGED <<job, task, reports, refused>>
      <3>1. /\ work # <<>> /\ job.decision \in Decisions
            /\ UNCHANGED <<job, task, reports>>
        BY <1>19, WorkFacts
            DEF HandleDecision, Take, Worker, central, WorkInv, TypeJob, JobRecord
      <3>2. ledger # None => ledger \in LedgerRecord
        BY DEF TypeLedger
      <3>3. CASE ledger = None
        BY <1>19, <3>1, <3>3 DEF HandleDecision, Exit, Closed
      <3>4. CASE ledger # None /\ ledger.decision = job.decision
        BY <1>19, <3>1, <3>2, <3>4 DEF HandleDecision, Begin, channel
      <3>5. CASE ledger # None /\ ledger.decision # job.decision
        <4>1. ledger.decision = None /\ ledger.state \notin {"Finalizing", "Completed"}
          BY <3>5 DEF LedgerInv
        <4>2. job.decision # "reject" => Durable
          BY <3>1 DEF JobInv, CandidateInv, Decisions
        <4>3. MayApply(job.decision)
          <5>1. CASE job.decision = "reject"
            BY <3>2, <3>5, <4>1, <5>1 DEF MayApply, LedgerRecord, LedgerStates
          <5>2. CASE job.decision # "reject"
            BY <3>5, <4>1, <4>2, <5>2 DEF MayApply, LedgerInv, Durable
          <5>. QED BY <5>1, <5>2
        <4>4. /\ ledger' = [ledger EXCEPT !.state = "Finalizing", !.decision = job.decision]
              /\ Begin("finalize")
          BY <1>19, <3>5, <4>1, <4>3 DEF HandleDecision
        <4>5. ledger' \in LedgerRecord /\ ledger'.state = "Finalizing"
              /\ ledger'.prepared = ledger.prepared /\ ledger'.decision = job.decision
          BY <3>1, <3>2, <3>5, <4>4, LedgerFinalizes
        <4>. QED BY <3>1, <3>2, <3>5, <4>1, <4>4, <4>5 DEF Begin, channel
      <3>. QED BY <3>3, <3>4, <3>5
    <2>1. TypeLedger'
      BY <2>0 DEF TypeLedger
    <2>2. TypeQueue'
      BY <2>0 DEF TypeQueue
    <2>3. TypeWork'
      BY <2>0, WorkFacts, FreshWork DEF TypeWork
    <2>4. TypeControl'
      BY <2>0 DEF TypeControl, PCs, Resume, LedgerRecord, LedgerStates
    <2>5. TypeRest'
      BY <1>19 DEF HandleDecision, Take, Exit, Begin, Worker, Closed, channel, central,
          clocks, Resume, MayApply, TypeRest
    <2>6. TypeRefused'
      BY <2>0 DEF TypeRefused
    <2>7. CandidateInv'
      BY <2>0 DEF CandidateInv, Durable
    <2>8. ControlInv'
      BY <2>0 DEF ControlInv, Resume, LedgerRecord, LedgerStates
    <2>9. LedgerInv'
      BY <2>0 DEF LedgerInv
    <2>10. QueueInv'
      BY <2>0 DEF QueueInv, Durable, Finalized, LedgerInv
    <2>11. WorkInv'
      BY <2>0, WorkFacts DEF WorkInv
    <2>12. DecisionsFollowed'
      BY <2>0 DEF DecisionsFollowed, LedgerInv
    <2>13. TypeJob' /\ TypePublication' /\ TypeStaged' /\ TypeTask' /\ TypeFaults' /\
        TaskInv' /\ JobInv'
      <3>1. UNCHANGED <<faults, job, publication, staged, task, version>>
        BY <1>19 DEF HandleDecision, Take, Exit, Begin, Worker, Closed, channel, central,
            clocks, Resume, MayApply
      <3>. QED BY <3>1 DEF TypeJob, TypePublication, TypeStaged, TypeTask, TypeFaults,
          TaskInv, JobInv
    <2>. QED BY <2>1, <2>2, <2>3, <2>4, <2>5, <2>6, <2>7, <2>8, <2>9, <2>10, <2>11, <2>12,
        <2>13 DEF IInv
  <1>20. ASSUME Accept
        PROVE  IInv'
    <2>0. /\ ledger \in LedgerRecord /\ ledger # None /\ ledger.state = "Claimed"
          /\ ledger' \in LedgerRecord /\ ledger' # None
          /\ ledger'.decision = ledger.decision
          /\ ledger'.state = "Accepted" /\ ledger'.prepared = ledger.prepared
          /\ pc' = "send_accepted"
          /\ UNCHANGED <<job, task, reports, applied, work, refused>>
      <3>1. ledger \in LedgerRecord /\ ledger.state = "Claimed"
        BY <1>20 DEF Accept, Worker, ControlInv, TypeLedger
      <3>2. Persist("Accepted") /\ "Accepted" \in LedgerStates
        BY <1>20 DEF Accept, LedgerStates
      <3>3. /\ ledger' \in LedgerRecord /\ ledger'.state = "Accepted"
            /\ ledger'.prepared = ledger.prepared /\ ledger'.decision = ledger.decision
        BY <3>1, <3>2, PersistFacts
      <3>. QED BY <1>20, <3>1, <3>3 DEF Accept, Worker, Goto, central, channel
    <2>1. TypeLedger'
      BY <2>0 DEF TypeLedger
    <2>2. TypeControl'
      BY <2>0 DEF TypeControl, PCs
    <2>3. CandidateInv'
      BY <2>0 DEF CandidateInv, Durable
    <2>4. ControlInv'
      BY <2>0 DEF ControlInv
    <2>5. LedgerInv'
      BY <2>0 DEF LedgerInv
    <2>6. QueueInv'
      BY <2>0 DEF QueueInv, Durable, Finalized, LedgerInv
    <2>7. WorkInv'
      BY <2>0 DEF WorkInv
    <2>8. DecisionsFollowed'
      BY <2>0 DEF DecisionsFollowed, LedgerInv
    <2>9. TypeJob' /\ TypePublication' /\ TypeStaged' /\ TypeTask' /\ TypeQueue' /\
        TypeWork' /\ TypeRest' /\ TypeRefused' /\ TypeFaults' /\ TaskInv' /\ JobInv'
      <3>1. UNCHANGED <<agentLate, applied, centralLate, connected, daemon, faults, job,
          outbox, publication, refused, reports, seen, staged, task, version, work>>
        BY <1>20 DEF Accept, Worker, Persist, Goto, central, clocks, channel
      <3>. QED BY <3>1 DEF TypeJob, TypePublication, TypeStaged, TypeTask, TypeQueue,
          TypeWork, TypeRest, TypeRefused, TypeFaults, TaskInv, JobInv
    <2>. QED BY <2>1, <2>2, <2>3, <2>4, <2>5, <2>6, <2>7, <2>8, <2>9 DEF IInv
  <1>21. ASSUME SendAccepted
        PROVE  IInv'
    <2>0. /\ reports' \in Seq(AgentReport) /\ Len(reports) <= Len(reports')
          /\ \A i \in 1..Len(reports') :
                \/ reports'[i].kind = "accepted" /\ reports'[i].decision = None
                \/ i \in 1..Len(reports) /\ reports'[i] = reports[i]
          /\ ledger # None /\ ledger' = ledger /\ ledger \in LedgerRecord
          /\ pc' = "execute"
          /\ UNCHANGED applied
      <3>1. ledger \in LedgerRecord /\ ledger # None /\ ledger' = ledger
        BY <1>21 DEF SendAccepted, Worker, ControlInv, TypeLedger
      <3>2. [kind |-> "accepted", decision |-> None] \in AgentReport
        BY <3>1 DEF AgentReport, LedgerRecord
      <3>3. Send([kind |-> "accepted", decision |-> None])
        BY <1>21 DEF Report, SendAccepted
      <3>. QED BY <1>21, <3>1, <3>2, <3>3, SendFacts
                DEF SendAccepted, Worker, Goto, channel
    <2>1. TypeQueue'
      BY <2>0 DEF TypeQueue
    <2>2. TypeControl'
      BY <2>0 DEF TypeControl, PCs
    <2>3. ControlInv'
      BY <2>0, <1>21 DEF ControlInv, SendAccepted, Worker
    <2>4. QueueInv'
      BY <2>0 DEF QueueInv, Durable, Finalized, LedgerInv
    <2>5. TypeJob' /\ TypePublication' /\ TypeStaged' /\ TypeTask' /\ TypeLedger' /\
        TypeWork' /\ TypeRest' /\ TypeRefused' /\ TypeFaults' /\ TaskInv' /\ JobInv' /\
        CandidateInv' /\ LedgerInv' /\ WorkInv' /\ DecisionsFollowed'
      <3>1. UNCHANGED <<agentLate, centralLate, connected, daemon, faults, job, ledger,
          outbox, publication, refused, seen, staged, task, version, work>>
        BY <1>21 DEF SendAccepted, Worker, Goto, central, clocks, channel, Report
      <3>. QED BY <3>1 DEF TypeJob, TypePublication, TypeStaged, TypeTask, TypeLedger,
          TypeWork, TypeRest, TypeRefused, TypeFaults, TaskInv, JobInv, CandidateInv,
          Durable, LedgerInv, WorkInv, DecisionsFollowed
    <2>. QED BY <2>1, <2>2, <2>3, <2>4, <2>5 DEF IInv
  <1>22. ASSUME Execute
        PROVE  IInv'
    <2>0. /\ ledger \in LedgerRecord /\ ledger # None /\ ledger.state \in {"Accepted", "Running", "Recovering"}
          /\ ledger' \in LedgerRecord /\ ledger' # None
          /\ ledger'.decision = ledger.decision
          /\ ledger'.prepared = ledger.prepared
          /\ \/ pc' = "send_failed" /\ ledger'.state = "FailedReported"
             \/ pc' = "send_running" /\ ledger'.state = "Running"
          /\ UNCHANGED <<job, task, reports, applied, work, refused>>
      <3>1. ledger \in LedgerRecord /\ ledger.state \in {"Accepted", "Running", "Recovering"}
        BY <1>22 DEF Execute, Worker, ControlInv, TypeLedger
      <3>2. CASE agentLate
        <4>1. Persist("FailedReported") /\ Goto("send_failed") /\ "FailedReported" \in LedgerStates
          BY <1>22, <3>2 DEF Execute, LedgerStates
        <4>2. /\ ledger' \in LedgerRecord /\ ledger'.state = "FailedReported"
              /\ ledger'.prepared = ledger.prepared /\ ledger'.decision = ledger.decision
          BY <3>1, <4>1, PersistFacts
        <4>. QED BY <1>22, <3>1, <4>1, <4>2 DEF Execute, Worker, Goto, central, channel
      <3>3. CASE ~agentLate
        <4>1. Persist("Running") /\ Goto("send_running") /\ "Running" \in LedgerStates
          BY <1>22, <3>3 DEF Execute, LedgerStates
        <4>2. /\ ledger' \in LedgerRecord /\ ledger'.state = "Running"
              /\ ledger'.prepared = ledger.prepared /\ ledger'.decision = ledger.decision
          BY <3>1, <4>1, PersistFacts
        <4>. QED BY <1>22, <3>1, <4>1, <4>2 DEF Execute, Worker, Goto, central, channel
      <3>. QED BY <1>22, <3>2, <3>3 DEF Execute
    <2>1. TypeLedger'
      BY <2>0 DEF TypeLedger
    <2>2. TypeControl'
      BY <2>0 DEF TypeControl, PCs
    <2>3. CandidateInv'
      BY <2>0 DEF CandidateInv, Durable
    <2>4. ControlInv'
      BY <2>0 DEF ControlInv
    <2>5. LedgerInv'
      BY <2>0 DEF LedgerInv
    <2>6. QueueInv'
      BY <2>0 DEF QueueInv, Durable, Finalized, LedgerInv
    <2>7. WorkInv'
      BY <2>0 DEF WorkInv
    <2>8. DecisionsFollowed'
      BY <2>0 DEF DecisionsFollowed, LedgerInv
    <2>9. TypeJob' /\ TypePublication' /\ TypeStaged' /\ TypeTask' /\ TypeQueue' /\
        TypeWork' /\ TypeRest' /\ TypeRefused' /\ TypeFaults' /\ TaskInv' /\ JobInv'
      <3>1. UNCHANGED <<agentLate, applied, centralLate, connected, daemon, faults, job,
          outbox, publication, refused, reports, seen, staged, task, version, work>>
        BY <1>22 DEF Execute, Worker, Persist, Goto, central, clocks, channel
      <3>. QED BY <3>1 DEF TypeJob, TypePublication, TypeStaged, TypeTask, TypeQueue,
          TypeWork, TypeRest, TypeRefused, TypeFaults, TaskInv, JobInv
    <2>. QED BY <2>1, <2>2, <2>3, <2>4, <2>5, <2>6, <2>7, <2>8, <2>9 DEF IInv
  <1>23. ASSUME SendRunning
        PROVE  IInv'
    <2>0. /\ reports' \in Seq(AgentReport) /\ Len(reports) <= Len(reports')
          /\ \A i \in 1..Len(reports') :
                \/ reports'[i].kind = "running" /\ reports'[i].decision = None
                \/ i \in 1..Len(reports) /\ reports'[i] = reports[i]
          /\ ledger # None /\ ledger' = ledger /\ ledger \in LedgerRecord
          /\ pc' = "prepare"
          /\ UNCHANGED applied
      <3>1. ledger \in LedgerRecord /\ ledger # None /\ ledger' = ledger
        BY <1>23 DEF SendRunning, Worker, ControlInv, TypeLedger
      <3>2. [kind |-> "running", decision |-> None] \in AgentReport
        BY <3>1 DEF AgentReport, LedgerRecord
      <3>3. Send([kind |-> "running", decision |-> None])
        BY <1>23 DEF Report, SendRunning
      <3>. QED BY <1>23, <3>1, <3>2, <3>3, SendFacts
                DEF SendRunning, Worker, Goto, channel
    <2>1. TypeQueue'
      BY <2>0 DEF TypeQueue
    <2>2. TypeControl'
      BY <2>0 DEF TypeControl, PCs
    <2>3. ControlInv'
      BY <2>0, <1>23 DEF ControlInv, SendRunning, Worker
    <2>4. QueueInv'
      BY <2>0 DEF QueueInv, Durable, Finalized, LedgerInv
    <2>5. TypeJob' /\ TypePublication' /\ TypeStaged' /\ TypeTask' /\ TypeLedger' /\
        TypeWork' /\ TypeRest' /\ TypeRefused' /\ TypeFaults' /\ TaskInv' /\ JobInv' /\
        CandidateInv' /\ LedgerInv' /\ WorkInv' /\ DecisionsFollowed'
      <3>1. UNCHANGED <<agentLate, centralLate, connected, daemon, faults, job, ledger,
          outbox, publication, refused, seen, staged, task, version, work>>
        BY <1>23 DEF SendRunning, Worker, Goto, central, clocks, channel, Report
      <3>. QED BY <3>1 DEF TypeJob, TypePublication, TypeStaged, TypeTask, TypeLedger,
          TypeWork, TypeRest, TypeRefused, TypeFaults, TaskInv, JobInv, CandidateInv,
          Durable, LedgerInv, WorkInv, DecisionsFollowed
    <2>. QED BY <2>1, <2>2, <2>3, <2>4, <2>5 DEF IInv
  <1>24. ASSUME Prepare
        PROVE  IInv'
    <2>0. /\ ledger \in LedgerRecord /\ ledger # None /\ ledger.state = "Running"
          /\ ledger' \in LedgerRecord /\ ledger' # None
          /\ ledger'.decision = ledger.decision
          /\ \/ pc' = "send_failed" /\ ledger'.state = "FailedReported" /\ ledger'.prepared = ledger.prepared
             \/ pc' = "report_prepared" /\ ledger'.state = "Prepared" /\ ledger'.prepared
          /\ UNCHANGED <<job, task, reports, applied, work, refused>>
      <3>1. ledger \in LedgerRecord /\ ledger.state = "Running"
        BY <1>24 DEF Prepare, Worker, ControlInv, TypeLedger
      <3>2. CASE Persist("FailedReported") /\ Goto("send_failed")
        <4>1. Persist("FailedReported") /\ Goto("send_failed") /\ "FailedReported" \in LedgerStates
          BY <1>24, <3>2 DEF Prepare, LedgerStates
        <4>2. /\ ledger' \in LedgerRecord /\ ledger'.state = "FailedReported"
              /\ ledger'.prepared = ledger.prepared /\ ledger'.decision = ledger.decision
          BY <3>1, <4>1, PersistFacts
        <4>. QED BY <1>24, <3>1, <4>1, <4>2 DEF Prepare, Worker, Goto, central, channel
      <3>3. CASE /\ ledger' = [ledger EXCEPT !.state = "Prepared", !.prepared = TRUE]
                 /\ Goto("report_prepared")
        <4>1. /\ ledger' \in LedgerRecord /\ ledger'.state = "Prepared"
              /\ ledger'.prepared /\ ledger'.decision = ledger.decision
          BY <3>1, <3>3, LedgerPrepares
        <4>. QED BY <1>24, <3>1, <3>3, <4>1 DEF Prepare, Worker, Goto, central, channel
      <3>. QED BY <1>24, <3>2, <3>3 DEF Prepare
    <2>1. TypeLedger'
      BY <2>0 DEF TypeLedger
    <2>2. TypeControl'
      BY <2>0 DEF TypeControl, PCs
    <2>3. CandidateInv'
      BY <2>0 DEF CandidateInv, Durable
    <2>4. ControlInv'
      BY <2>0 DEF ControlInv
    <2>5. LedgerInv'
      BY <2>0 DEF LedgerInv
    <2>6. QueueInv'
      BY <2>0 DEF QueueInv, Durable, Finalized, LedgerInv
    <2>7. WorkInv'
      BY <2>0 DEF WorkInv
    <2>8. DecisionsFollowed'
      BY <2>0 DEF DecisionsFollowed, LedgerInv
    <2>9. TypeJob' /\ TypePublication' /\ TypeStaged' /\ TypeTask' /\ TypeQueue' /\
        TypeWork' /\ TypeRest' /\ TypeRefused' /\ TypeFaults' /\ TaskInv' /\ JobInv'
      <3>1. UNCHANGED <<agentLate, applied, centralLate, connected, daemon, faults, job,
          outbox, publication, refused, reports, seen, staged, task, version, work>>
        BY <1>24 DEF Prepare, Worker, Persist, Goto, central, clocks, channel
      <3>. QED BY <3>1 DEF TypeJob, TypePublication, TypeStaged, TypeTask, TypeQueue,
          TypeWork, TypeRest, TypeRefused, TypeFaults, TaskInv, JobInv
    <2>. QED BY <2>1, <2>2, <2>3, <2>4, <2>5, <2>6, <2>7, <2>8, <2>9 DEF IInv
  <1>25. ASSUME SendFailed
        PROVE  IInv'
    <2>0. /\ reports' \in Seq(AgentReport) /\ Len(reports) <= Len(reports')
          /\ \A i \in 1..Len(reports') :
                \/ reports'[i].kind = "failed" /\ reports'[i].decision = None
                \/ i \in 1..Len(reports) /\ reports'[i] = reports[i]
          /\ ledger # None /\ ledger' = ledger /\ ledger \in LedgerRecord
          /\ pc' = "idle"
          /\ applied' = 0 /\ work' = <<>> /\ daemon' = FALSE /\ connected' = FALSE /\ seen' = {}
      <3>1. ledger \in LedgerRecord /\ ledger # None /\ ledger' = ledger
        BY <1>25 DEF SendFailed, Worker, ControlInv, TypeLedger
      <3>2. [kind |-> "failed", decision |-> None] \in AgentReport
        BY <3>1 DEF AgentReport, LedgerRecord
      <3>3. Send([kind |-> "failed", decision |-> None])
        BY <1>25 DEF Report, SendFailed
      <3>. QED BY <1>25, <3>1, <3>2, <3>3, SendFacts
                DEF SendFailed, Worker, Exit, Closed
    <2>1. TypeQueue'
      BY <2>0 DEF TypeQueue
    <2>2. TypeWork'
      BY <2>0 DEF TypeWork
    <2>3. TypeControl'
      BY <2>0 DEF TypeControl, PCs
    <2>4. TypeRest'
      BY <1>25 DEF SendFailed, Worker, Exit, central, clocks, Closed, Report, TypeRest
    <2>5. ControlInv'
      BY <2>0 DEF ControlInv
    <2>6. QueueInv'
      BY <2>0 DEF QueueInv, Durable, Finalized, LedgerInv
    <2>7. WorkInv'
      BY <2>0 DEF WorkInv
    <2>8. TypeJob' /\ TypePublication' /\ TypeStaged' /\ TypeTask' /\ TypeLedger' /\
        TypeRefused' /\ TypeFaults' /\ TaskInv' /\ JobInv' /\ CandidateInv' /\ LedgerInv'
        /\ DecisionsFollowed'
      <3>1. UNCHANGED <<faults, job, ledger, publication, refused, staged, task, version>>
        BY <1>25 DEF SendFailed, Worker, Exit, central, clocks, Closed, Report
      <3>. QED BY <3>1 DEF TypeJob, TypePublication, TypeStaged, TypeTask, TypeLedger,
          TypeRefused, TypeFaults, TaskInv, JobInv, CandidateInv, Durable, LedgerInv,
          DecisionsFollowed
    <2>. QED BY <2>1, <2>2, <2>3, <2>4, <2>5, <2>6, <2>7, <2>8 DEF IInv
  <1>26. ASSUME ReportFailure
        PROVE  IInv'
    <2>0. /\ reports' \in Seq(AgentReport) /\ Len(reports) <= Len(reports')
          /\ \A i \in 1..Len(reports') :
                \/ reports'[i].kind = "failed" /\ reports'[i].decision = None
                \/ i \in 1..Len(reports) /\ reports'[i] = reports[i]
          /\ ledger # None /\ ledger' = ledger /\ ledger \in LedgerRecord
          /\ pc' = "idle"
          /\ UNCHANGED applied
      <3>1. ledger \in LedgerRecord /\ ledger # None /\ ledger' = ledger
        BY <1>26 DEF ReportFailure, Worker, ControlInv, TypeLedger
      <3>2. [kind |-> "failed", decision |-> None] \in AgentReport
        BY <3>1 DEF AgentReport, LedgerRecord
      <3>3. Send([kind |-> "failed", decision |-> None])
        BY <1>26 DEF Report, ReportFailure
      <3>. QED BY <1>26, <3>1, <3>2, <3>3, SendFacts
                DEF ReportFailure, Worker, Goto, channel
    <2>1. TypeQueue'
      BY <2>0 DEF TypeQueue
    <2>2. TypeControl'
      BY <2>0 DEF TypeControl, PCs
    <2>3. ControlInv'
      BY <2>0 DEF ControlInv
    <2>4. QueueInv'
      BY <2>0 DEF QueueInv, Durable, Finalized, LedgerInv
    <2>5. TypeJob' /\ TypePublication' /\ TypeStaged' /\ TypeTask' /\ TypeLedger' /\
        TypeWork' /\ TypeRest' /\ TypeRefused' /\ TypeFaults' /\ TaskInv' /\ JobInv' /\
        CandidateInv' /\ LedgerInv' /\ WorkInv' /\ DecisionsFollowed'
      <3>1. UNCHANGED <<agentLate, centralLate, connected, daemon, faults, job, ledger,
          outbox, publication, refused, seen, staged, task, version, work>>
        BY <1>26 DEF ReportFailure, Worker, Goto, central, clocks, channel, Report
      <3>. QED BY <3>1 DEF TypeJob, TypePublication, TypeStaged, TypeTask, TypeLedger,
          TypeWork, TypeRest, TypeRefused, TypeFaults, TaskInv, JobInv, CandidateInv,
          Durable, LedgerInv, WorkInv, DecisionsFollowed
    <2>. QED BY <2>1, <2>2, <2>3, <2>4, <2>5 DEF IInv
  <1>27. ASSUME ReportPrepared
        PROVE  IInv'
    <2>0. /\ ledger \in LedgerRecord /\ ledger # None /\ ledger.state = "Prepared"
          /\ ledger' \in LedgerRecord /\ ledger' # None
          /\ ledger'.decision = ledger.decision /\ ledger'.prepared = ledger.prepared
          /\ \/ /\ pc' = "send_failed" /\ ledger'.state = "FailedReported"
                /\ reports' = reports
             \/ /\ pc' = "stage" /\ ledger' = ledger
                /\ reports' \in Seq(AgentReport) /\ Len(reports) <= Len(reports')
                /\ \A i \in 1..Len(reports') :
                     \/ reports'[i].kind = "prepared"
                     \/ i \in 1..Len(reports) /\ reports'[i] = reports[i]
          /\ UNCHANGED <<job, task, applied, work, refused>>
      <3>1. /\ ledger \in LedgerRecord /\ ledger # None /\ ledger.state = "Prepared"
            /\ UNCHANGED <<job, task>>
        BY <1>27 DEF ReportPrepared, Worker, ControlInv, TypeLedger, central
      <3>2. CASE agentLate
        <4>1. Persist("FailedReported") /\ Goto("send_failed") /\ reports' = reports
              /\ "FailedReported" \in LedgerStates
          BY <1>27, <3>2 DEF ReportPrepared, LedgerStates
        <4>2. /\ ledger' \in LedgerRecord /\ ledger'.state = "FailedReported"
              /\ ledger'.prepared = ledger.prepared /\ ledger'.decision = ledger.decision
          BY <3>1, <4>1, PersistFacts
        <4>. QED BY <3>1, <4>1, <4>2 DEF Goto, channel
      <3>3. CASE ~agentLate
        <4>1. Report("prepared") \in AgentReport /\ Report("prepared").kind = "prepared"
          BY DEF Report, AgentReport
        <4>2. Send(Report("prepared")) /\ Goto("stage") /\ ledger' = ledger
          BY <1>27, <3>3 DEF ReportPrepared
        <4>. QED BY <3>1, <4>1, <4>2, SendFacts DEF Goto, channel
      <3>. QED BY <3>2, <3>3
    <2>1. TypeLedger'
      BY <2>0 DEF TypeLedger
    <2>2. TypeQueue'
      BY <2>0 DEF TypeQueue
    <2>3. TypeControl'
      BY <2>0 DEF TypeControl, PCs
    <2>4. CandidateInv'
      BY <2>0 DEF CandidateInv, Durable
    <2>5. ControlInv'
      BY <2>0 DEF ControlInv
    <2>6. LedgerInv'
      BY <2>0 DEF LedgerInv
    <2>7. QueueInv'
      BY <2>0 DEF QueueInv, Durable, Finalized, LedgerInv
    <2>8. WorkInv'
      BY <2>0 DEF WorkInv
    <2>9. DecisionsFollowed'
      BY <2>0 DEF DecisionsFollowed, LedgerInv
    <2>10. TypeJob' /\ TypePublication' /\ TypeStaged' /\ TypeTask' /\ TypeWork' /\
        TypeRest' /\ TypeRefused' /\ TypeFaults' /\ TaskInv' /\ JobInv'
      <3>1. UNCHANGED <<agentLate, centralLate, connected, daemon, faults, job, outbox,
          publication, refused, seen, staged, task, version, work>>
        BY <1>27 DEF ReportPrepared, Worker, Persist, Goto, central, clocks, channel, Report
      <3>. QED BY <3>1 DEF TypeJob, TypePublication, TypeStaged, TypeTask, TypeWork,
          TypeRest, TypeRefused, TypeFaults, TaskInv, JobInv
    <2>. QED BY <2>1, <2>2, <2>3, <2>4, <2>5, <2>6, <2>7, <2>8, <2>9, <2>10 DEF IInv
  <1>28. ASSUME StageMetadata
        PROVE  IInv'
    <2>0. /\ staged' \in 0..Pages /\ (staged = Pages => staged' = Pages)
          /\ \/ /\ pc' \in {"await", "stage"}
                /\ UNCHANGED <<work, applied, daemon, connected, seen>>
             \/ /\ pc' = "idle" /\ work' = <<>> /\ applied' = 0
                /\ daemon' = FALSE /\ connected' = FALSE /\ seen' = {}
          /\ ledger # None /\ ledger.state = "Prepared"
          /\ UNCHANGED <<job, publication, task, ledger, reports>>
      <3>1. /\ ledger # None /\ ledger.state = "Prepared"
            /\ UNCHANGED <<job, publication, task, ledger, reports>>
        BY <1>28 DEF StageMetadata, ControlInv
      <3>2. CASE Stageable
        BY <1>28, <3>1, <3>2 DEF StageMetadata, Goto, channel, TypeStaged
      <3>3. CASE ~Stageable
        BY <1>28, <3>1, <3>3 DEF StageMetadata, Exit, Closed, TypeStaged
      <3>. QED BY <3>2, <3>3
    <2>1. TypeStaged'
      BY <2>0 DEF TypeStaged
    <2>2. TypeQueue'
      BY <2>0 DEF TypeQueue
    <2>3. TypeWork'
      BY <2>0, FreshWork DEF TypeWork
    <2>4. TypeControl'
      BY <2>0 DEF TypeControl, PCs
    <2>5. TypeRest'
      BY <1>28 DEF StageMetadata, Stageable, Goto, Exit, clocks, channel, Closed, TypeRest
    <2>6. TaskInv'
      BY <2>0 DEF TaskInv
    <2>7. JobInv'
      BY <2>0 DEF JobInv, Terminal
    <2>8. ControlInv'
      BY <2>0 DEF ControlInv
    <2>9. WorkInv'
      BY <2>0 DEF WorkInv
    <2>10. TypeJob' /\ TypePublication' /\ TypeTask' /\ TypeLedger' /\ TypeRefused' /\
        TypeFaults' /\ CandidateInv' /\ LedgerInv' /\ QueueInv' /\ DecisionsFollowed'
      <3>1. UNCHANGED <<faults, job, ledger, publication, refused, reports, task, version>>
        BY <1>28 DEF StageMetadata, Stageable, Goto, Exit, clocks, channel, Closed
      <3>. QED BY <3>1 DEF TypeJob, TypePublication, TypeTask, TypeLedger, TypeRefused,
          TypeFaults, CandidateInv, Durable, LedgerInv, QueueInv, Finalized,
          DecisionsFollowed
    <2>. QED BY <2>1, <2>2, <2>3, <2>4, <2>5, <2>6, <2>7, <2>8, <2>9, <2>10 DEF IInv
  <1>29. ASSUME AwaitDecision
        PROVE  IInv'
    <2>0. /\ ledger \in LedgerRecord /\ ledger # None /\ ledger.state = "Prepared"
          /\ ledger' \in LedgerRecord /\ ledger' # None
          /\ ledger'.decision = ledger.decision
          /\ ledger'.state = "AwaitingDecision" /\ ledger'.prepared = ledger.prepared
          /\ pc' = "idle"
          /\ UNCHANGED <<job, task, reports, applied, work, refused>>
      <3>1. ledger \in LedgerRecord /\ ledger.state = "Prepared"
        BY <1>29 DEF AwaitDecision, Worker, ControlInv, TypeLedger
      <3>2. Persist("AwaitingDecision") /\ "AwaitingDecision" \in LedgerStates
        BY <1>29 DEF AwaitDecision, LedgerStates
      <3>3. /\ ledger' \in LedgerRecord /\ ledger'.state = "AwaitingDecision"
            /\ ledger'.prepared = ledger.prepared /\ ledger'.decision = ledger.decision
        BY <3>1, <3>2, PersistFacts
      <3>. QED BY <1>29, <3>1, <3>3 DEF AwaitDecision, Worker, Goto, central, channel
    <2>1. TypeLedger'
      BY <2>0 DEF TypeLedger
    <2>2. TypeControl'
      BY <2>0 DEF TypeControl, PCs
    <2>3. CandidateInv'
      BY <2>0 DEF CandidateInv, Durable
    <2>4. ControlInv'
      BY <2>0 DEF ControlInv
    <2>5. LedgerInv'
      BY <2>0 DEF LedgerInv
    <2>6. QueueInv'
      BY <2>0 DEF QueueInv, Durable, Finalized, LedgerInv
    <2>7. WorkInv'
      BY <2>0 DEF WorkInv
    <2>8. DecisionsFollowed'
      BY <2>0 DEF DecisionsFollowed, LedgerInv
    <2>9. TypeJob' /\ TypePublication' /\ TypeStaged' /\ TypeTask' /\ TypeQueue' /\
        TypeWork' /\ TypeRest' /\ TypeRefused' /\ TypeFaults' /\ TaskInv' /\ JobInv'
      <3>1. UNCHANGED <<agentLate, applied, centralLate, connected, daemon, faults, job,
          outbox, publication, refused, reports, seen, staged, task, version, work>>
        BY <1>29 DEF AwaitDecision, Worker, Persist, Goto, central, clocks, channel
      <3>. QED BY <3>1 DEF TypeJob, TypePublication, TypeStaged, TypeTask, TypeQueue,
          TypeWork, TypeRest, TypeRefused, TypeFaults, TaskInv, JobInv
    <2>. QED BY <2>1, <2>2, <2>3, <2>4, <2>5, <2>6, <2>7, <2>8, <2>9 DEF IInv
  <1>30. ASSUME Finalize
        PROVE  IInv'
    <2>0. /\ reports' \in Seq(AgentReport) /\ Len(reports) <= Len(reports')
          /\ \A i \in 1..Len(reports') :
                \/ reports'[i].kind = "finalized" /\ reports'[i].decision = ledger.decision
                \/ i \in 1..Len(reports) /\ reports'[i] = reports[i]
          /\ ledger # None /\ ledger' = ledger /\ ledger \in LedgerRecord
          /\ pc' = "complete"
          /\ UNCHANGED applied
      <3>1. ledger \in LedgerRecord /\ ledger # None /\ ledger' = ledger
        BY <1>30 DEF Finalize, Worker, ControlInv, TypeLedger
      <3>2. [kind |-> "finalized", decision |-> ledger.decision] \in AgentReport
        BY <3>1 DEF AgentReport, LedgerRecord
      <3>3. Send([kind |-> "finalized", decision |-> ledger.decision])
        BY <1>30 DEF Finalize
      <3>. QED BY <1>30, <3>1, <3>2, <3>3, SendFacts
                DEF Finalize, Worker, Goto, channel
    <2>1. TypeQueue'
      BY <2>0 DEF TypeQueue
    <2>2. TypeControl'
      BY <2>0 DEF TypeControl, PCs
    <2>3. ControlInv'
      BY <2>0, <1>30 DEF ControlInv, Finalize, Worker
    <2>4. QueueInv'
      BY <2>0, <1>30 DEF QueueInv, Durable, Finalized, ControlInv, Finalize, Worker
    <2>5. TypeJob' /\ TypePublication' /\ TypeStaged' /\ TypeTask' /\ TypeLedger' /\
        TypeWork' /\ TypeRest' /\ TypeRefused' /\ TypeFaults' /\ TaskInv' /\ JobInv' /\
        CandidateInv' /\ LedgerInv' /\ WorkInv' /\ DecisionsFollowed'
      <3>1. UNCHANGED <<agentLate, centralLate, connected, daemon, faults, job, ledger,
          outbox, publication, refused, seen, staged, task, version, work>>
        BY <1>30 DEF Finalize, Worker, Goto, central, clocks, channel, Report
      <3>. QED BY <3>1 DEF TypeJob, TypePublication, TypeStaged, TypeTask, TypeLedger,
          TypeWork, TypeRest, TypeRefused, TypeFaults, TaskInv, JobInv, CandidateInv,
          Durable, LedgerInv, WorkInv, DecisionsFollowed
    <2>. QED BY <2>1, <2>2, <2>3, <2>4, <2>5 DEF IInv
  <1>31. ASSUME Complete
        PROVE  IInv'
    <2>0. /\ ledger \in LedgerRecord /\ ledger # None /\ ledger.state = "Finalizing"
          /\ ledger' \in LedgerRecord /\ ledger' # None
          /\ ledger'.decision = ledger.decision
          /\ ledger'.state = "Completed" /\ ledger'.prepared = ledger.prepared
          /\ pc' = "idle"
          /\ UNCHANGED <<job, task, reports, applied, work, refused>>
      <3>1. ledger \in LedgerRecord /\ ledger.state = "Finalizing"
        BY <1>31 DEF Complete, Worker, ControlInv, TypeLedger
      <3>2. Persist("Completed") /\ "Completed" \in LedgerStates
        BY <1>31 DEF Complete, LedgerStates
      <3>3. /\ ledger' \in LedgerRecord /\ ledger'.state = "Completed"
            /\ ledger'.prepared = ledger.prepared /\ ledger'.decision = ledger.decision
        BY <3>1, <3>2, PersistFacts
      <3>. QED BY <1>31, <3>1, <3>3 DEF Complete, Worker, Goto, central, channel
    <2>1. TypeLedger'
      BY <2>0 DEF TypeLedger
    <2>2. TypeControl'
      BY <2>0 DEF TypeControl, PCs
    <2>3. CandidateInv'
      BY <2>0 DEF CandidateInv, Durable
    <2>4. ControlInv'
      BY <2>0 DEF ControlInv
    <2>5. LedgerInv'
      BY <2>0 DEF LedgerInv
    <2>6. QueueInv'
      BY <2>0 DEF QueueInv, Durable, Finalized, LedgerInv
    <2>7. WorkInv'
      BY <2>0 DEF WorkInv
    <2>8. DecisionsFollowed'
      BY <2>0 DEF DecisionsFollowed, LedgerInv
    <2>9. TypeJob' /\ TypePublication' /\ TypeStaged' /\ TypeTask' /\ TypeQueue' /\
        TypeWork' /\ TypeRest' /\ TypeRefused' /\ TypeFaults' /\ TaskInv' /\ JobInv'
      <3>1. UNCHANGED <<agentLate, applied, centralLate, connected, daemon, faults, job,
          outbox, publication, refused, reports, seen, staged, task, version, work>>
        BY <1>31 DEF Complete, Worker, Persist, Goto, central, clocks, channel
      <3>. QED BY <3>1 DEF TypeJob, TypePublication, TypeStaged, TypeTask, TypeQueue,
          TypeWork, TypeRest, TypeRefused, TypeFaults, TaskInv, JobInv
    <2>. QED BY <2>1, <2>2, <2>3, <2>4, <2>5, <2>6, <2>7, <2>8, <2>9 DEF IInv
  <1>32. ASSUME AgentCrash
        PROVE  IInv'
    <2>1. TypeQueue'
      BY <1>32 DEF AgentCrash, Fault, Exit, central, clocks, Closed, TypeQueue
    <2>2. TypeWork'
      BY <1>32 DEF AgentCrash, Fault, Exit, central, clocks, Closed, TypeWork
    <2>3. TypeControl'
      BY <1>32 DEF AgentCrash, Fault, Exit, central, clocks, Closed, TypeControl, PCs
    <2>4. TypeRest'
      BY <1>32 DEF AgentCrash, Fault, Exit, central, clocks, Closed, TypeRest
    <2>5. TypeFaults'
      BY <1>32 DEF AgentCrash, Fault, Exit, central, clocks, Closed, TypeFaults
    <2>6. ControlInv'
      BY <1>32 DEF AgentCrash, Fault, Exit, central, clocks, Closed, ControlInv,
          TypeControl, PCs, TypeLedger, LedgerRecord, LedgerStates, Decisions
    <2>7. WorkInv'
      BY <1>32 DEF AgentCrash, Fault, Exit, central, clocks, Closed, WorkInv, TypeWork,
          JobInv, TypeJob, JobRecord, JobStates, Terminal, Decisions, TypeLedger,
          LedgerRecord, LedgerStates, Decisions
    <2>8. TypeJob' /\ TypePublication' /\ TypeStaged' /\ TypeTask' /\ TypeLedger' /\
        TypeRefused' /\ TaskInv' /\ JobInv' /\ CandidateInv' /\ LedgerInv' /\ QueueInv' /\
        DecisionsFollowed'
      BY <1>32 DEF AgentCrash, Fault, Exit, central, clocks, Closed, TypeJob,
          TypePublication, TypeStaged, TypeTask, TypeLedger, TypeRefused, TaskInv, JobInv,
          CandidateInv, Durable, LedgerInv, QueueInv, Finalized, DecisionsFollowed
    <2>. QED BY <2>1, <2>2, <2>3, <2>4, <2>5, <2>6, <2>7, <2>8 DEF IInv
  <1>33. ASSUME Restart
        PROVE  IInv'
    <2>1. TypeWork'
      BY <1>33, FreshWork DEF Restart, TypeWork
    <2>2. TypeRest'
      BY <1>33 DEF Restart, central, channel, clocks, bounds, TypeRest
    <2>3. WorkInv'
      BY <1>33 DEF Restart, central, channel, clocks, bounds, WorkInv, TypeWork, JobInv,
          TypeJob, JobRecord, JobStates, Terminal, Decisions, TypeLedger, LedgerRecord,
          LedgerStates, Decisions
    <2>4. TypeJob' /\ TypePublication' /\ TypeStaged' /\ TypeTask' /\ TypeLedger' /\
        TypeQueue' /\ TypeControl' /\ TypeRefused' /\ TypeFaults' /\ TaskInv' /\ JobInv' /\
        CandidateInv' /\ ControlInv' /\ LedgerInv' /\ QueueInv' /\ DecisionsFollowed'
      BY <1>33 DEF Restart, central, channel, clocks, bounds, TypeJob, TypePublication,
          TypeStaged, TypeTask, TypeLedger, TypeQueue, TypeControl, TypeRefused,
          TypeFaults, TaskInv, JobInv, CandidateInv, Durable, ControlInv, LedgerInv,
          QueueInv, Finalized, DecisionsFollowed
    <2>. QED BY <2>1, <2>2, <2>3, <2>4 DEF IInv
  <1>34. ASSUME CentralCrash
        PROVE  IInv'
    <2>1. TypeTask'
      BY <1>34 DEF CentralCrash, Fault, Closed, agent, clocks, TypeTask, Task, TypeJob,
          IdleTask
    <2>2. TypeQueue'
      BY <1>34 DEF CentralCrash, Fault, Closed, agent, clocks, TypeQueue
    <2>3. TypeRest'
      BY <1>34 DEF CentralCrash, Fault, Closed, agent, clocks, TypeRest
    <2>4. TypeFaults'
      BY <1>34 DEF CentralCrash, Fault, Closed, agent, clocks, TypeFaults
    <2>5. TaskInv'
      BY <1>34 DEF CentralCrash, Fault, Closed, agent, clocks, TaskInv, TypeTask, Task,
          IdleTask, TypePublication, Decisions, TypeJob, JobRecord, JobStates, Terminal,
          Decisions
    <2>6. TypeJob' /\ TypePublication' /\ TypeStaged' /\ TypeLedger' /\ TypeWork' /\
        TypeControl' /\ TypeRefused' /\ JobInv' /\ CandidateInv' /\ ControlInv' /\
        LedgerInv' /\ QueueInv' /\ WorkInv' /\ DecisionsFollowed'
      BY <1>34 DEF CentralCrash, Fault, Closed, agent, clocks, TypeJob, TypePublication,
          TypeStaged, TypeLedger, TypeWork, TypeControl, TypeRefused, JobInv, CandidateInv,
          Durable, ControlInv, LedgerInv, QueueInv, Finalized, WorkInv, DecisionsFollowed
    <2>. QED BY <2>1, <2>2, <2>3, <2>4, <2>5, <2>6 DEF IInv
  <1>35. ASSUME CentralTick
        PROVE  IInv'
    <2>1. TypeRest'
      BY <1>35 DEF CentralTick, central, agent, channel, bounds, TypeRest
    <2>2. TypeJob' /\ TypePublication' /\ TypeStaged' /\ TypeTask' /\ TypeLedger' /\
        TypeQueue' /\ TypeWork' /\ TypeControl' /\ TypeRefused' /\ TypeFaults' /\ TaskInv'
        /\ JobInv' /\ CandidateInv' /\ ControlInv' /\ LedgerInv' /\ QueueInv' /\ WorkInv'
        /\ DecisionsFollowed'
      BY <1>35 DEF CentralTick, central, agent, channel, bounds, TypeJob, TypePublication,
          TypeStaged, TypeTask, TypeLedger, TypeQueue, TypeWork, TypeControl, TypeRefused,
          TypeFaults, TaskInv, JobInv, CandidateInv, Durable, ControlInv, LedgerInv,
          QueueInv, Finalized, WorkInv, DecisionsFollowed
    <2>. QED BY <2>1, <2>2 DEF IInv
  <1>36. ASSUME AgentTick
        PROVE  IInv'
    <2>1. TypeRest'
      BY <1>36 DEF AgentTick, central, agent, channel, bounds, TypeRest
    <2>2. TypeJob' /\ TypePublication' /\ TypeStaged' /\ TypeTask' /\ TypeLedger' /\
        TypeQueue' /\ TypeWork' /\ TypeControl' /\ TypeRefused' /\ TypeFaults' /\ TaskInv'
        /\ JobInv' /\ CandidateInv' /\ ControlInv' /\ LedgerInv' /\ QueueInv' /\ WorkInv'
        /\ DecisionsFollowed'
      BY <1>36 DEF AgentTick, central, agent, channel, bounds, TypeJob, TypePublication,
          TypeStaged, TypeTask, TypeLedger, TypeQueue, TypeWork, TypeControl, TypeRefused,
          TypeFaults, TaskInv, JobInv, CandidateInv, Durable, ControlInv, LedgerInv,
          QueueInv, Finalized, WorkInv, DecisionsFollowed
    <2>. QED BY <2>1, <2>2 DEF IInv
  <1>37. CASE UNCHANGED vars
    BY <1>37 DEF IInv, vars, central, agent, channel, clocks, bounds, TypeJob,
        TypePublication, TypeStaged, TypeTask, TypeLedger, TypeQueue, TypeWork,
        TypeControl, TypeRest, TypeRefused, TypeFaults, TaskInv, JobInv, CandidateInv,
        Durable, ControlInv, LedgerInv, QueueInv, Finalized, WorkInv, DecisionsFollowed
  <1>. QED BY <1>1, <1>2, <1>3, <1>4, <1>5, <1>6, <1>7, <1>8, <1>9, <1>10, <1>11, <1>12,
      <1>13, <1>14, <1>15, <1>16, <1>17, <1>18, <1>19, <1>20, <1>21, <1>22, <1>23, <1>24,
      <1>25, <1>26, <1>27, <1>28, <1>29, <1>30, <1>31, <1>32, <1>33, <1>34, <1>35, <1>36,
      <1>37 DEF Next, Central, Reporting, Agent

-----------------------------------------------------------------------------
(* The inductive invariant holds in every reachable state.                 *)
THEOREM Invariance == Spec => []IInv
  BY InitIInv, NextIInv, PTL DEF Spec

(* The variables keep their types.                                         *)
THEOREM TypeCorrect == Spec => []TypeOK
  <1>1. TypeRest /\ TypeFaults => /\ outbox \in {"none", "reserved", "published", "retired"}
                                  /\ daemon \in BOOLEAN /\ connected \in BOOLEAN
                                  /\ seen \subseteq {"assignment", "decision"}
                                  /\ centralLate \in BOOLEAN /\ agentLate \in BOOLEAN
                                  /\ faults \in 0..MaxFaults
    BY Zenon DEF TypeRest, TypeFaults
  <1>2. IInv => TypeOK
    BY <1>1, Zenon DEF IInv, TypeOK, TypeJob, TypePublication, TypeStaged, TypeTask,
        TypeLedger,
        TypeQueue, TypeWork, TypeControl, TypeRefused
  <1>. QED BY <1>2, Invariance, PTL

(* What Central reports of a job is what happened to the Index, whatever   *)
(* crashed, expired or raced with the publication (finalize_loaded,        *)
(* expire_add_job, compare_and_swap).                                      *)
THEOREM OutcomesMatchIndex == Spec => []OutcomeMatchesIndex
  <1>1. IInv => OutcomeMatchesIndex
    BY DEF IInv, OutcomeMatchesIndex, JobInv, CandidateInv, Durable, Terminal, TypeJob,
        JobRecord,
        JobStates, TypePublication, Decisions
  <1>. QED BY <1>1, Invariance, PTL

(* The Agent never refuses a decision about a job it knows, and what it    *)
(* acknowledged is what its ledger holds (handle_decision, recover).       *)
THEOREM AgentFollowsDecisions == Spec => []DecisionsFollowed
  <1>1. IInv => DecisionsFollowed
    BY DEF IInv
  <1>. QED BY <1>1, Invariance, PTL
=============================================================================
