----------------------- MODULE Materialization_proofs -----------------------
(***************************************************************************)
(* What a materialization job promises, for any Commit, any sources and    *)
(* any number of plans, sessions, cancellations and mishaps.               *)
(*                                                                         *)
(* CompleteIsPlaced and TypeOK are not inductive.  A receipt, a failure or *)
(* a batch update may come from any earlier plan, session or request, so   *)
(* the invariant says of each of them that it names a batch some plan has  *)
(* made (Known) and carries a row of a batch.  CancelledIsFinal needs more:*)
(* the state machine lets a Cancelled job stay Cancelled, so a late        *)
(* receipt is kept out by the revision alone, which the cancellation has   *)
(* moved past every task (RevisionInv), and a second cancellation by there *)
(* being none under way (CancelInv).  A plan is computed from what was     *)
(* read some steps ago, so a task it takes for done is placed only because *)
(* no Placement is ever lost (PlannerInv).                                 *)
(* What a plan chooses is a recursive function; the lemmas up to           *)
(* ChooseSourcesFacts prove by induction what the rest needs of it.        *)
(***************************************************************************)
EXTENDS Materialization, FiniteSetTheorems, WellFoundedInduction, TLAPS

(* The batches that some plan has made.                                    *)
Known == {b \in DOMAIN batch : batch[b] # None}

(* How often each kind of bounded event may still happen.                  *)
Counts == [{"revisions", "sessions", "cancels", "events"} -> Nat]

TaskStates == {"Missing", "Reserved", "Verified", "AlreadyPresent"}
Requests ==
    [pc : {"idle", "listed", "refresh", "refreshed", "claim", "claimed", "stall_write", "stall_job",
           "advance", "advance_write", "fail_write", "fail_job"},
     batch : (Nat \X Sources) \cup {None}, row : Rows \cup {None}, session : Nat]
Reports ==
    [kind : {"receipt"}, batch : Known, session : Nat, object : Objects]
    \cup [kind : {"failed"}, batch : Known, session : Nat, object : {None}]
Listed == [batch : Known, row : Rows]

WorldInv ==
    /\ holds \in [Sources -> SUBSET Objects] /\ present \subseteq Objects
    /\ sick \subseteq (Sources \cup {Target}) \X Objects /\ up \subseteq Sources
    /\ online \in BOOLEAN /\ session \in Nat /\ expired \in BOOLEAN
    /\ left \in Counts

PlanInv ==
    /\ job \in Jobs \cup {None}
    /\ task \in [Objects -> [state : TaskStates, batch : Known \cup {None}]]
    /\ batch \in [DOMAIN batch -> Rows \cup {None}]
    /\ DOMAIN batch \subseteq Nat \X Sources

(* There are as many batch ids left as there are revisions to come.        *)
RoomInv ==
    \A s \in Sources, i \in 0..left["revisions"] :
        /\ job = None => <<1 + i, s>> \in DOMAIN batch
        /\ job # None /\ job.state # "Cancelled" => <<job.revision + i, s>> \in DOMAIN batch

LinkInv ==
    /\ leases \subseteq [batch : Known, object : Objects]
    /\ receipts \subseteq [batch : Known, object : Objects]
    /\ assigned \subseteq [batch : Known, session : Nat]
    /\ completed \subseteq Known
    /\ reports \in Seq(Reports)

RequestOk(d) == d \in Requests /\ (d.pc # "idle" => d.batch \in Known /\ d.row \in Rows)
DeliveryInv == RequestOk(delivery)
HandlerInv ==
    /\ handler \in Requests
    /\ handler.pc # "idle" => handler.batch \in Known /\ reports # <<>>
    /\ handler.pc \in {"advance_write", "fail_write"} => handler.row \in Rows
CancelInv ==
    /\ cancel \in [pc : {"idle", "list", "release", "write"}, revision : Nat, todo : SUBSET Listed,
                   batch : Known \cup {None}, row : Rows \cup {None}]
    /\ \A t, u \in cancel.todo : t.batch = u.batch => t = u
    /\ cancel.pc = "write" => cancel.batch \in Known /\ cancel.row \in Rows
    /\ job # None /\ job.state = "Cancelled" => cancel.pc = "idle"

(* Nothing happens before there is a job.                                  *)
FirstInv == job = None => Known = {} /\ cancel.pc = "idle"

(* Tasks name batches of the plan, and a cancellation has moved past them. *)
RevisionInv ==
    job # None =>
        \A o \in Objects : task[o].batch # None =>
            /\ task[o].batch[1] <= job.revision
            /\ job.state = "Cancelled" => task[o].batch[1] < job.revision

CoreInv ==
    /\ WorldInv /\ PlanInv /\ RoomInv /\ LinkInv /\ DeliveryInv /\ HandlerInv /\ CancelInv
    /\ FirstInv /\ RevisionInv /\ CompleteIsPlaced

(* What a create or retry has read so far.                                 *)
PlannerInv ==
    planner # None =>
        /\ planner \in Views /\ planner.present \subseteq present
        /\ job = None => planner.revision = 1

IInv == CoreInv /\ PlannerInv

(* A step after the cancellation leaves job, tasks and evidence alone.     *)
CancelledStays ==
    job # None /\ job.state = "Cancelled" => UNCHANGED <<job, task, receipts, present>>

-----------------------------------------------------------------------------
(* The least element of a set of numbers.                                  *)
LEMMA Least ==
  ASSUME NEW T, T \subseteq Nat, T # {}
  PROVE  \E m \in T : \A k \in T : ~(k < m)
  <1>1. IsWellFoundedOn(OpToRel(<, Nat), Nat)
    BY NatLessThanWellFounded
  <1>2. PICK m \in T : \A k \in T : ~(<<k, m>> \in OpToRel(<, Nat))
    BY <1>1, WFMin
  <1>. QED BY <1>2 DEF OpToRel

(* f is start followed by K applications of step.                          *)
IsRun(f, S, start, step, K) ==
    f \in [0..K -> S] /\ \A n \in 0..K : f[n] = IF n = 0 THEN start ELSE step[f[n - 1]]

(* A step function can be iterated.                                        *)
LEMMA Iterate ==
  ASSUME NEW S, NEW start \in S, NEW step \in [S -> S], NEW K \in Nat
  PROVE  \E f : IsRun(f, S, start, step, K)
  <1>. USE DEF IsRun
  <1>. DEFINE Runs(k) == {f \in [0..k -> S] : IsRun(f, S, start, step, k)}
              T == {k \in Nat : Runs(k) = {}}
  <1>1. SUFFICES ASSUME T # {} PROVE FALSE
    <2>. SUFFICES ASSUME T = {} PROVE \E f : IsRun(f, S, start, step, K)
      OBVIOUS
    <2>1. PICK f : f \in Runs(K)
      OBVIOUS
    <2>. HIDE DEF IsRun
    <2>. QED BY <2>1
  <1>2. PICK m \in T : \A k \in T : ~(k < m)
    BY <1>1, Least
  <1>3. CASE m = 0
    <2>. DEFINE g == [n \in 0..m |-> start]
    <2>1. g \in Runs(m)
      BY <1>3
    <2>. QED BY <2>1
  <1>4. CASE m # 0
    <2>1. m \in Nat /\ m - 1 \in Nat /\ m - 1 < m
      BY <1>3
    <2>2. PICK f \in Runs(m - 1) : TRUE
      BY <1>2, <2>1
    <2>. DEFINE g == [n \in 0..m |-> IF n = m THEN step[f[m - 1]] ELSE f[n]]
    <2>3. g \in [0..m -> S]
      BY <2>1, <2>2
    <2>4. \A n \in 0..m : g[n] = IF n = 0 THEN start ELSE step[g[n - 1]]
      <3>1. ASSUME NEW n \in 0..(m - 1)
            PROVE  g[n] = f[n] /\ f[n] = IF n = 0 THEN start ELSE step[f[n - 1]]
        BY <2>1, <2>2
      <3>2. ASSUME NEW n \in 0..(m - 1), n # 0
            PROVE  g[n - 1] = f[n - 1]
        BY <2>1, <3>2
      <3>3. g[m] = step[f[m - 1]] /\ g[m - 1] = f[m - 1]
        BY <2>1
      <3>. HIDE DEF g
      <3>4. \A n \in 0..m : n = m \/ n \in 0..(m - 1)
        BY <2>1
      <3>. QED BY <1>4, <3>1, <3>2, <3>3, <3>4
    <2>. HIDE DEF g
    <2>5. g \in Runs(m)
      BY <2>3, <2>4
    <2>. QED BY <2>5
  <1>. QED BY <1>3, <1>4

(* The greedy cover maps some of the required objects to sources.          *)
LEMMA ChooseSourcesFacts ==
  ASSUME NEW v \in Views
  PROVE  ChooseSources(v) \in UNION {[D -> Sources] : D \in SUBSET Objects}
  <1>. DEFINE required == Missing(v)
              Plans == UNION {[D -> Sources] : D \in SUBSET required}
              K == Cardinality(Sources)
              Covers(s, rest) == {o \in rest : s \in Routed(v, o)}
              Best(rest) == CHOOSE s \in Sources :
                  \A t \in Sources \ {s} :
                      \/ Cardinality(Covers(s, rest)) > Cardinality(Covers(t, rest))
                      \/ Cardinality(Covers(s, rest)) = Cardinality(Covers(t, rest)) /\ s < t
              Gain(p) == Covers(Best(required \ DOMAIN p), required \ DOMAIN p)
              Step(p) == [o \in DOMAIN p \cup Gain(p) |->
                            IF o \in required \ DOMAIN p THEN Best(required \ DOMAIN p) ELSE p[o]]
              Chain(f) == [n \in 0..K |-> IF n = 0 THEN <<>> ELSE Step(f[n - 1])]
  <1>1. ChooseSources(v) = (CHOOSE f : f = Chain(f))[K]
    BY DEF ChooseSources
  <1>2. K \in Nat
    BY ConstantsAssumption, FS_CardinalityType DEF ConstantsAssumption
  <1>3. ASSUME NEW p \in Plans
        PROVE  Step(p) \in Plans
    <2>1. PICK D \in SUBSET required : p \in [D -> Sources]
      OBVIOUS
    <2>. HIDE DEF Best
    <2>2. \A o \in Gain(p) : Best(required \ D) \in Sources /\ o \in required
      BY <2>1 DEF Routed, Views, Missing
    <2>3. Step(p) \in [D \cup Gain(p) -> Sources] /\ D \cup Gain(p) \in SUBSET required
      BY <2>1, <2>2
    <2>. QED BY <2>3
  <1>. HIDE DEF Step
  <1>4. <<>> \in Plans
    <2>1. <<>> \in [{} -> Sources]
      OBVIOUS
    <2>. QED BY <2>1
  <1>5. \E f : f = Chain(f)
    <2>. DEFINE step == [p \in Plans |-> Step(p)]
    <2>1. step \in [Plans -> Plans]
      BY <1>3
    <2>2. PICK f : IsRun(f, Plans, <<>>, step, K)
      <3>. HIDE DEF step, Plans, K
      <3>. QED BY <1>2, <1>4, <2>1, Iterate
    <2>3. ASSUME NEW n \in 0..K
          PROVE  f[n] = IF n = 0 THEN <<>> ELSE Step(f[n - 1])
      <3>1. CASE n = 0
        BY <2>2, <3>1 DEF IsRun
      <3>2. CASE n # 0
        <4>1. n - 1 \in 0..K
          BY <1>2, <3>2
        <4>2. f[n - 1] \in Plans /\ f[n] = step[f[n - 1]]
          BY <2>2, <3>2, <4>1 DEF IsRun
        <4>. QED BY <3>2, <4>2
      <3>. QED BY <3>1, <3>2
    <2>. QED BY <2>2, <2>3 DEF IsRun
  <1>. DEFINE c == CHOOSE f : f = Chain(f)
  <1>6. c = Chain(c)
    BY <1>5
  <1>. HIDE DEF c, Plans
  <1>7. c[0] = <<>> /\ \A n \in 1..K : c[n] = Step(c[n - 1])
    BY <1>2, <1>6
  <1>8. \A n \in 0..K : c[n] \in Plans
    <2>. DEFINE T == {n \in 0..K : c[n] \notin Plans}
    <2>1. SUFFICES ASSUME T # {} PROVE FALSE
      OBVIOUS
    <2>2. T \subseteq Nat
      BY <1>2
    <2>3. PICK m \in T : \A k \in T : ~(k < m)
      BY <2>1, <2>2, Least
    <2>4. m # 0
      BY <1>4, <1>7
    <2>5. m \in 1..K /\ m - 1 \in 0..K /\ m - 1 < m
      BY <1>2, <2>4
    <2>6. c[m - 1] \in Plans
      BY <2>3, <2>5
    <2>. QED BY <1>3, <1>7, <2>5, <2>6
  <1>9. c[K] \in Plans
    BY <1>2, <1>8
  <1>10. required \subseteq Objects
    BY DEF Missing
  <1>. HIDE DEF required
  <1>. QED BY <1>1, <1>9, <1>10 DEF c, Plans

-----------------------------------------------------------------------------
(* What a plan makes of tasks, batches and leases, and its job state.      *)
LEMMA PlanTasksFacts ==
  ASSUME NEW v \in Views, NEW chosen,
         task' = PlanTasks(v, chosen),
         chosen \in UNION {[D -> Sources] : D \in SUBSET Objects}
  PROVE  /\ task' \in [Objects -> [state : TaskStates, batch : Planned(v, chosen) \cup {None}]]
         /\ \A o \in Objects : Done(task'[o]) <=> o \in v.present
  <1>. DEFINE B == Planned(v, chosen) \cup {None}
  <1>1. ASSUME NEW o \in Objects
        PROVE  /\ task'[o] \in [state : TaskStates, batch : B]
               /\ Done(task'[o]) <=> o \in v.present
    <2>1. CASE o \in v.present
      <3>1. task'[o] = [state |-> "AlreadyPresent", batch |-> None]
        BY <2>1 DEF PlanTasks
      <3>. QED BY <2>1, <3>1 DEF Done, TaskStates
    <2>2. CASE o \notin v.present /\ o \in DOMAIN chosen
      <3>. DEFINE b == IF v.session # None THEN <<v.revision, chosen[o]>> ELSE None
      <3>1. task'[o] = [state |-> "Reserved", batch |-> b]
        BY <2>2 DEF PlanTasks
      <3>2. b \in B
        BY <2>2 DEF Planned
      <3>. HIDE DEF b, B
      <3>. QED BY <2>2, <3>1, <3>2 DEF Done, TaskStates
    <2>3. CASE o \notin v.present /\ o \notin DOMAIN chosen
      <3>1. task'[o] = [state |-> "Missing", batch |-> None]
        BY <2>3 DEF PlanTasks
      <3>. QED BY <2>3, <3>1 DEF Done, TaskStates
    <2>. QED BY <2>1, <2>2, <2>3
  <1>2. task' = [o \in Objects |-> task'[o]]
    BY DEF PlanTasks
  <1>. HIDE DEF B
  <1>3. task' \in [Objects -> [state : TaskStates, batch : B]]
    BY <1>1, <1>2
  <1>. QED BY <1>1, <1>3 DEF B

LEMMA PlanBatchesFacts ==
  ASSUME PlanInv, NEW v \in Views, NEW chosen, InstallPlan(v, chosen),
         chosen \in UNION {[D -> Sources] : D \in SUBSET Objects},
         Planned(v, chosen) \subseteq DOMAIN batch
  PROVE  /\ batch' \in [DOMAIN batch -> Rows \cup {None}] /\ DOMAIN batch' = DOMAIN batch
         /\ Known \cup Planned(v, chosen) \subseteq Known'
         /\ leases' \subseteq [batch : Known', object : Objects]
  <1>1. PICK D \in SUBSET Objects : chosen \in [D -> Sources]
    OBVIOUS
  <1>2. ASSUME NEW b \in DOMAIN batch
        PROVE  /\ batch'[b] \in Rows \cup {None}
               /\ b \in Planned(v, chosen) \/ batch[b] # None => batch'[b] # None
    <2>1. CASE b \in Planned(v, chosen)
      <3>1. batch'[b] = PlanBatch(b[2], v, chosen)
        BY <2>1 DEF InstallPlan
      <3>2. v.session \in Nat
        BY <2>1 DEF Planned, Views
      <3>3. PlanBatch(b[2], v, chosen) \in Rows
        BY <1>1, <3>2 DEF PlanBatch, Rows, BatchStates
      <3>. QED BY <3>1, <3>3, NoneAssumption
    <2>2. CASE b \notin Planned(v, chosen)
      <3>1. batch[b] \in Rows \cup {None}
        BY DEF PlanInv
      <3>2. /\ batch'[b] \in {batch[b], [batch[b] EXCEPT !.state = "Failed"]}
            /\ (batch[b] = None => batch'[b] = None)
        BY <2>2 DEF InstallPlan
      <3>3. batch[b] \in Rows => [batch[b] EXCEPT !.state = "Failed"] \in Rows
        BY DEF Rows, BatchStates, Ended
      <3>. QED BY <2>2, <3>1, <3>2, <3>3, NoneAssumption
    <2>. QED BY <2>1, <2>2
  <1>3. batch' = [b \in DOMAIN batch |-> batch'[b]] /\ DOMAIN batch' = DOMAIN batch
    BY DEF InstallPlan
  <1>4. Known \cup Planned(v, chosen) \subseteq Known'
    BY <1>2, <1>3 DEF Known
  <1>5. PlanLeases(v, chosen) \subseteq [batch : Planned(v, chosen), object : Objects]
    BY <1>1 DEF PlanLeases
  <1>6. leases' \subseteq [batch : Known', object : Objects]
    BY <1>4, <1>5 DEF InstallPlan
  <1>. QED BY <1>2, <1>3, <1>4, <1>6

LEMMA PlanStateFacts ==
  ASSUME NEW v, NEW chosen
  PROVE  /\ PlanState(v, chosen) \in JobStates \ {"Cancelled"}
         /\ PlanState(v, chosen) = "Complete" <=> Missing(v) = {}
  <1>1. CASE Missing(v) = {}
    <2>1. PlanState(v, chosen) = "Complete"
      BY <1>1 DEF PlanState
    <2>. QED BY <1>1, <2>1 DEF JobStates, Terminal
  <1>2. CASE Missing(v) # {}
    <2>1. PlanState(v, chosen) \in {"Planning", "Failed", "WaitingForSources", "Materializing"}
      BY <1>2 DEF PlanState
    <2>. QED BY <1>2, <2>1 DEF JobStates, Terminal
  <1>. QED BY <1>1, <1>2

(* Installing a plan for the next revision keeps the invariant.            *)
LEMMA PlanStep ==
  ASSUME CoreInv, NEW chosen, NEW v \in Views, v.present \subseteq present,
         chosen \in UNION {[D -> Sources] : D \in SUBSET Objects},
         \A s \in Sources, i \in 0..left'["revisions"] : <<v.revision + i, s>> \in DOMAIN batch,
         left' \in Counts,
         InstallPlan(v, chosen), expired' \in BOOLEAN,
         UNCHANGED <<holds, sick, up, online, session, evidence, delivery, handler, cancel, agent>>,
         job # None \/ cancel.pc = "idle"
  PROVE  CoreInv' /\ job' \in Jobs /\ job'.state # "Cancelled"
  <1>. USE DEF evidence, agent
  <1>. DEFINE P == Planned(v, chosen)
  <1>1. P \subseteq DOMAIN batch /\ \A b \in P : b[1] = v.revision
    <2>1. 0 \in 0..left'["revisions"] /\ v.revision + 0 = v.revision
      BY DEF Counts, Views
    <2>2. \A s \in Sources : <<v.revision, s>> \in DOMAIN batch
      BY <2>1
    <2>. QED BY <2>2 DEF Planned
  <1>2. /\ task' \in [Objects -> [state : TaskStates, batch : P \cup {None}]]
        /\ \A o \in Objects : Done(task'[o]) <=> o \in v.present
    BY PlanTasksFacts DEF InstallPlan
  <1>3. /\ batch' \in [DOMAIN batch -> Rows \cup {None}] /\ DOMAIN batch' = DOMAIN batch
        /\ Known \subseteq Known' /\ P \subseteq Known'
        /\ leases' \subseteq [batch : Known', object : Objects]
    BY <1>1, PlanBatchesFacts DEF CoreInv
  <1>. HIDE DEF P
  <1>4. /\ job' \in Jobs /\ job'.state \in JobStates \ {"Cancelled"} /\ job'.revision = v.revision
        /\ job'.state = "Complete" <=> Objects \subseteq v.present
    BY PlanStateFacts DEF InstallPlan, Jobs, Views, Missing
  <1>5. job' # None
    BY <1>4, NoneAssumption
  <1>6. WorldInv'
    BY DEF CoreInv, WorldInv, Target
  <1>7. PlanInv'
    BY <1>2, <1>3, <1>4 DEF CoreInv, PlanInv
  <1>8. RoomInv'
    BY <1>3, <1>4, <1>5 DEF RoomInv
  <1>9. LinkInv'
    <2>1. Reports \subseteq Reports'
      BY <1>3 DEF Reports
    <2>2. reports' \in Seq(Reports')
      BY <2>1 DEF CoreInv, LinkInv
    <2>. QED BY <1>3, <2>2 DEF CoreInv, LinkInv
  <1>10. DeliveryInv' /\ HandlerInv'
    BY <1>3 DEF CoreInv, DeliveryInv, RequestOk, Requests, HandlerInv
  <1>11. CancelInv'
    <2>1. Listed \subseteq Listed'
      BY <1>3 DEF Listed
    <2>. QED BY <1>3, <1>4, <2>1 DEF CoreInv, CancelInv
  <1>12. FirstInv' /\ RevisionInv'
    <2>1. \A o \in Objects : task'[o].batch # None => task'[o].batch[1] = v.revision
      BY <1>1, <1>2
    <2>2. v.revision <= v.revision
      BY DEF Views
    <2>3. RevisionInv'
      BY <1>4, <2>1, <2>2 DEF RevisionInv
    <2>. QED BY <1>5, <2>3 DEF FirstInv
  <1>13. CompleteIsPlaced'
    BY <1>2, <1>4 DEF CompleteIsPlaced
  <1>. QED BY <1>4, <1>6, <1>7, <1>8, <1>9, <1>10, <1>11, <1>12, <1>13 DEF CoreInv

-----------------------------------------------------------------------------
(* What a known batch is, and its row.                                     *)
LEMMA KnownFacts ==
  ASSUME PlanInv, NEW b \in Known
  PROVE  batch[b] \in Rows /\ b \in Nat \X Sources /\ b \in DOMAIN batch
  BY DEF PlanInv, Known

(* A batch update writes a row where there was one.                        *)
LEMMA WriteFacts ==
  ASSUME PlanInv, NEW request, request.batch \in Known, request.row \in Rows, WriteBatch(request)
  PROVE  /\ batch' \in [DOMAIN batch -> Rows \cup {None}]
         /\ DOMAIN batch' = DOMAIN batch /\ Known' = Known
  <1>1. batch' = [batch EXCEPT ![request.batch] = request.row] /\ request.batch \in DOMAIN batch
    BY KnownFacts DEF WriteBatch
  <1>2. batch' \in [DOMAIN batch -> Rows \cup {None}] /\ DOMAIN batch' = DOMAIN batch
    BY <1>1 DEF PlanInv
  <1>3. \A b \in DOMAIN batch : batch'[b] = IF b = request.batch THEN request.row ELSE batch[b]
    BY <1>1 DEF PlanInv
  <1>4. request.row # None
    BY NoneAssumption
  <1>. QED BY <1>2, <1>3, <1>4 DEF Known

(* The requests of the delivery loop.                                      *)
LEMMA IdleOk == RequestOk(Idle) /\ Idle \in Requests /\ Idle.pc = "idle"
  BY DEF RequestOk, Idle, Requests

LEMMA UpdateFacts ==
  ASSUME NEW request \in Requests, request.batch \in Known, NEW row \in Rows,
         NEW point \in {"refresh", "claim", "stall_write"}
  PROVE  RequestOk(Update(request, point, row))
  <1>. DEFINE d == [request EXCEPT !.pc = point, !.row = row]
  <1>1. d \in Requests /\ d.batch = request.batch /\ d.row = row
    BY DEF Requests
  <1>2. Update(request, point, row) = d \/ Update(request, point, row) = Idle
    BY DEF Update
  <1>. HIDE DEF d
  <1>. QED BY <1>1, <1>2, IdleOk DEF RequestOk

LEMMA StallFacts ==
  ASSUME PlanInv, NEW request \in Requests, request.batch \in Known
  PROVE  RequestOk(Stall(request))
  <1>. DEFINE row == [batch[request.batch] EXCEPT !.state = "Failed"]
  <1>1. row \in Rows
    <2>1. batch[request.batch] \in Rows /\ "Failed" \in BatchStates
      BY KnownFacts DEF BatchStates, Ended
    <2>. QED BY <2>1 DEF Rows
  <1>2. Stall(request) = Idle \/ Stall(request) = Update(request, "stall_write", row)
    BY DEF Stall
  <1>. HIDE DEF row
  <1>. QED BY <1>1, <1>2, IdleOk, UpdateFacts

LEMMA SendFacts ==
  ASSUME PlanInv, LinkInv, session \in Nat, NEW request \in Requests, request.batch \in Known,
         Send(request)
  PROVE  RequestOk(delivery') /\ assigned' \subseteq [batch : Known, session : Nat]
  <1>1. delivery' \in {Idle, Stall(request)} /\ assigned' \in {assigned, Admit(request.batch)}
    BY DEF Send
  <1>2. Admit(request.batch) \subseteq assigned \cup {[batch |-> request.batch, session |-> session]}
    BY DEF Admit
  <1>3. assigned' \subseteq [batch : Known, session : Nat]
    BY <1>1, <1>2 DEF LinkInv
  <1>. QED BY <1>1, <1>3, IdleOk, StallFacts

LEMMA ClaimOrSendFacts ==
  ASSUME PlanInv, LinkInv, session \in Nat, NEW request \in Requests, request.batch \in Known,
         request.row \in Rows, ClaimOrSend(request)
  PROVE  RequestOk(delivery') /\ assigned' \subseteq [batch : Known, session : Nat]
  <1>. DEFINE row == [request.row EXCEPT !.state = "Assigned"]
  <1>1. row \in Rows
    BY DEF Rows, BatchStates
  <1>2. RequestOk(Stall(request)) /\ RequestOk(Update(request, "claim", row))
    <2>. HIDE DEF row
    <2>. QED BY <1>1, StallFacts, UpdateFacts
  <1>3. CASE Send(request)
    BY <1>3, SendFacts
  <1>4. CASE ~Send(request)
    <2>1. delivery' \in {Idle, Stall(request), Update(request, "claim", row)} /\ assigned' = assigned
      BY <1>4 DEF ClaimOrSend
    <2>. HIDE DEF row
    <2>. QED BY <1>2, <2>1, IdleOk DEF LinkInv
  <1>. QED BY <1>3, <1>4

(* The report at the head of the queue, and the answer that may drop it.   *)
LEMMA HeadFacts ==
  ASSUME LinkInv, reports # <<>>
  PROVE  /\ Head(reports) \in Reports
         /\ Head(reports).batch \in Known /\ Head(reports).session \in Nat
         /\ Head(reports).kind = "receipt" => Head(reports).object \in Objects
  <1>1. Head(reports) \in Reports
    BY DEF LinkInv
  <1>. QED BY <1>1 DEF Reports

LEMMA AnswerFacts ==
  ASSUME LinkInv, reports # <<>>, NEW s, Answer(s)
  PROVE  handler' = Idle /\ reports' \in Seq(Reports)
  BY DEF LinkInv, Answer

(* A cancellation works off the batches it listed in the order of their    *)
(* keys.                                                                   *)
LEMMA CancelNextFacts ==
  ASSUME PlanInv, CancelInv, cancel.todo # {}
  PROVE  (CHOOSE t \in cancel.todo : \A u \in cancel.todo \ {t} : Before(t.batch, u.batch))
             \in cancel.todo
  <1>. DEFINE Q == cancel.todo
              R == {t.batch[1] : t \in Q}
  <1>1. \A t \in Q : t.batch[1] \in Nat /\ t.batch[2] \in Nat /\ t.batch = <<t.batch[1], t.batch[2]>>
    <2>1. \A t \in Q : t.batch \in Nat \X Sources
      BY KnownFacts DEF CancelInv, Listed
    <2>2. Sources \subseteq Nat
      BY ConstantsAssumption DEF ConstantsAssumption
    <2>3. \A b \in Nat \X Sources : b[1] \in Nat /\ b[2] \in Sources /\ b = <<b[1], b[2]>>
      OBVIOUS
    <2>. QED BY <2>1, <2>2, <2>3
  <1>2. PICK r \in R : \A k \in R : ~(k < r)
    <2>1. R \subseteq Nat /\ R # {}
      BY <1>1
    <2>. HIDE DEF R
    <2>. QED BY <2>1, Least
  <1>. DEFINE S == {t.batch[2] : t \in {u \in Q : u.batch[1] = r}}
  <1>3. PICK s \in S : \A k \in S : ~(k < s)
    <2>1. S \subseteq Nat /\ S # {}
      BY <1>1, <1>2
    <2>. HIDE DEF S
    <2>. QED BY <2>1, Least
  <1>4. PICK t \in Q : t.batch[1] = r /\ t.batch[2] = s
    BY <1>3
  <1>5. ASSUME NEW u \in Q \ {t}
        PROVE  Before(t.batch, u.batch)
    <2>1. u.batch # t.batch
      BY <1>4 DEF CancelInv
    <2>2. u.batch[1] # r \/ u.batch[2] # s
      BY <1>1, <1>4, <2>1
    <2>3. ~(u.batch[1] < r) /\ r \in Nat /\ u.batch[1] \in Nat
      BY <1>1, <1>2, <1>4
    <2>4. u.batch[1] = r => ~(u.batch[2] < s) /\ s \in Nat /\ u.batch[2] \in Nat
      BY <1>1, <1>3, <1>4
    <2>. QED BY <1>4, <2>2, <2>3, <2>4 DEF Before
  <1>. QED BY <1>4, <1>5

(* The events that are left.                                               *)
LEMMA LeftFacts ==
  ASSUME WorldInv, NEW what \in {"revisions", "sessions", "cancels", "events"},
         left' = left \/ Happens(what)
  PROVE  /\ left' \in Counts
         /\ left'["revisions"] = IF Happens(what) /\ what = "revisions"
                                 THEN left["revisions"] - 1 ELSE left["revisions"]
  <1>1. CASE Happens(what)
    BY <1>1 DEF Happens, WorldInv, Counts
  <1>2. CASE left' = left /\ ~Happens(what)
    BY <1>2 DEF WorldInv, Counts
  <1>. QED BY <1>1, <1>2

-----------------------------------------------------------------------------
(* Deliver keeps the invariant.                                            *)
LEMMA DeliverStep ==
  ASSUME CoreInv, NEW b \in DOMAIN batch, Deliver(b)
  PROVE  CoreInv'
  <1>1. UNCHANGED <<holds, sick, up, online, session, expired, job, task, batch, leases,
      present, receipts, handler, cancel, completed, reports, left>>
    BY DEF Deliver, world, plan, evidence, requests, agent
  <1>2. job # None /\ batch[b] \in Rows /\ b \in Known
    BY NoneAssumption DEF Deliver, CoreInv, FirstInv, PlanInv, Known
  <1>3. RequestOk(delivery') /\ assigned' \subseteq [batch : Known, session : Nat]
    <2>. DEFINE request == [pc |-> "listed", batch |-> b, row |-> batch[b], session |-> session]
                refreshed == [batch[b] EXCEPT !.session = session]
    <2>1. session \in Nat /\ b \in Nat \X Sources /\ PlanInv /\ LinkInv
      BY <1>2, KnownFacts DEF CoreInv, WorldInv
    <2>2. request \in Requests /\ request.batch = b /\ request.row = batch[b]
      BY <1>2, <2>1 DEF Requests
    <2>3. refreshed \in Rows
      BY <1>2, <2>1 DEF Rows
    <2>4. \/ delivery' = Stall(request) /\ assigned' = assigned
          \/ ClaimOrSend(request)
          \/ delivery' = Update(request, "refresh", refreshed) /\ assigned' = assigned
      BY DEF Deliver
    <2>. HIDE DEF request, refreshed
    <2>5. RequestOk(Stall(request)) /\ RequestOk(Update(request, "refresh", refreshed))
      BY <1>2, <2>1, <2>2, <2>3, StallFacts, UpdateFacts
    <2>6. assigned \subseteq [batch : Known, session : Nat]
      BY <2>1 DEF LinkInv
    <2>7. CASE ClaimOrSend(request)
      BY <1>2, <2>1, <2>2, <2>7, ClaimOrSendFacts
    <2>. QED BY <2>4, <2>5, <2>6, <2>7
  <1>4. WorldInv' /\ PlanInv' /\ RoomInv' /\ HandlerInv' /\ CancelInv' /\ FirstInv' /\
      RevisionInv' /\ CompleteIsPlaced'
    BY <1>1 DEF CoreInv, WorldInv, Target, PlanInv, RoomInv, HandlerInv, Requests,
        CancelInv, Listed, FirstInv, RevisionInv, CompleteIsPlaced, Done, Known
  <1>5. LinkInv'
    BY <1>1, <1>2, <1>3 DEF CoreInv, LinkInv, Reports, Known
  <1>6. DeliveryInv'
    BY <1>1, <1>2, <1>3 DEF CoreInv, DeliveryInv, RequestOk, Requests, Known
  <1>. QED BY <1>4, <1>5, <1>6 DEF CoreInv

(* DeliverWrite keeps the invariant.                                       *)
LEMMA DeliverWriteStep ==
  ASSUME CoreInv, DeliverWrite
  PROVE  CoreInv'
  <1>1. UNCHANGED <<holds, sick, up, online, session, expired, job, task, leases,
      present, receipts, handler, cancel, assigned, completed, reports, left>>
    BY DEF DeliverWrite, world, plan, evidence, requests, agent
  <1>2. job # None /\ delivery \in Requests /\ delivery.batch \in Known /\ delivery.row \in Rows
    BY DEF DeliverWrite, CoreInv, FirstInv, DeliveryInv, RequestOk
  <1>3. /\ batch' \in [DOMAIN batch -> Rows \cup {None}]
        /\ DOMAIN batch' = DOMAIN batch /\ Known' = Known
    BY <1>2, WriteFacts DEF DeliverWrite, CoreInv
  <1>4. delivery' \in Requests /\ delivery'.batch = delivery.batch /\ delivery'.row = delivery.row
    BY <1>2 DEF DeliverWrite, Requests
  <1>5. WorldInv' /\ RevisionInv' /\ CompleteIsPlaced'
    BY <1>1 DEF CoreInv, WorldInv, Target, RevisionInv, CompleteIsPlaced, Done
  <1>6. PlanInv'
    BY <1>1, <1>2, <1>3, <1>4 DEF CoreInv, PlanInv
  <1>7. RoomInv'
    BY <1>1, <1>2, <1>3, <1>4 DEF CoreInv, RoomInv
  <1>8. LinkInv'
    BY <1>1, <1>2, <1>3, <1>4 DEF CoreInv, LinkInv, Reports
  <1>9. DeliveryInv'
    BY <1>1, <1>2, <1>3, <1>4 DEF CoreInv, DeliveryInv, RequestOk, Requests
  <1>10. HandlerInv'
    BY <1>1, <1>2, <1>3, <1>4 DEF CoreInv, HandlerInv, Requests
  <1>11. CancelInv'
    BY <1>1, <1>2, <1>3, <1>4 DEF CoreInv, CancelInv, Listed
  <1>12. FirstInv'
    BY <1>1, <1>2, <1>3, <1>4 DEF CoreInv, FirstInv
  <1>. QED BY <1>5, <1>6, <1>7, <1>8, <1>9, <1>10, <1>11, <1>12 DEF CoreInv

(* DeliverContinue keeps the invariant.                                    *)
LEMMA DeliverContinueStep ==
  ASSUME CoreInv, DeliverContinue
  PROVE  CoreInv'
  <1>1. UNCHANGED <<holds, sick, up, online, session, expired, job, task, batch, leases,
      present, receipts, handler, cancel, completed, reports, left>>
    BY DEF DeliverContinue, world, plan, evidence, requests, agent
  <1>2. job # None /\ delivery \in Requests /\ delivery.batch \in Known /\ delivery.row \in Rows
    BY DEF DeliverContinue, CoreInv, FirstInv, DeliveryInv, RequestOk
  <1>3. RequestOk(delivery') /\ assigned' \subseteq [batch : Known, session : Nat]
    <2>1. ClaimOrSend(delivery) \/ Send(delivery)
      BY DEF DeliverContinue
    <2>. QED BY <1>2, <2>1, ClaimOrSendFacts, SendFacts DEF CoreInv, WorldInv
  <1>4. WorldInv' /\ PlanInv' /\ RoomInv' /\ HandlerInv' /\ CancelInv' /\ FirstInv' /\
      RevisionInv' /\ CompleteIsPlaced'
    BY <1>1 DEF CoreInv, WorldInv, Target, PlanInv, RoomInv, HandlerInv, Requests,
        CancelInv, Listed, FirstInv, RevisionInv, CompleteIsPlaced, Done, Known
  <1>5. LinkInv'
    BY <1>1, <1>2, <1>3 DEF CoreInv, LinkInv, Reports, Known
  <1>6. DeliveryInv'
    BY <1>1, <1>2, <1>3 DEF CoreInv, DeliveryInv, RequestOk, Requests, Known
  <1>. QED BY <1>4, <1>5, <1>6 DEF CoreInv

(* StallWrite keeps the invariant.                                         *)
LEMMA StallWriteStep ==
  ASSUME CoreInv, StallWrite
  PROVE  CoreInv'
  <1>1. UNCHANGED <<holds, sick, up, online, session, expired, job, task, leases,
      present, receipts, handler, cancel, assigned, completed, reports, left>>
    BY DEF StallWrite, world, plan, evidence, requests, agent
  <1>2. job # None /\ delivery \in Requests /\ delivery.batch \in Known /\ delivery.row \in Rows
    BY DEF StallWrite, CoreInv, FirstInv, DeliveryInv, RequestOk
  <1>3. /\ batch' \in [DOMAIN batch -> Rows \cup {None}]
        /\ DOMAIN batch' = DOMAIN batch /\ Known' = Known
    BY <1>2, WriteFacts DEF StallWrite, CoreInv
  <1>4. delivery' \in Requests /\ delivery'.batch = delivery.batch /\ delivery'.row = delivery.row
    BY <1>2 DEF StallWrite, Requests
  <1>5. WorldInv' /\ RevisionInv' /\ CompleteIsPlaced'
    BY <1>1 DEF CoreInv, WorldInv, Target, RevisionInv, CompleteIsPlaced, Done
  <1>6. PlanInv'
    BY <1>1, <1>2, <1>3, <1>4 DEF CoreInv, PlanInv
  <1>7. RoomInv'
    BY <1>1, <1>2, <1>3, <1>4 DEF CoreInv, RoomInv
  <1>8. LinkInv'
    BY <1>1, <1>2, <1>3, <1>4 DEF CoreInv, LinkInv, Reports
  <1>9. DeliveryInv'
    BY <1>1, <1>2, <1>3, <1>4 DEF CoreInv, DeliveryInv, RequestOk, Requests
  <1>10. HandlerInv'
    BY <1>1, <1>2, <1>3, <1>4 DEF CoreInv, HandlerInv, Requests
  <1>11. CancelInv'
    BY <1>1, <1>2, <1>3, <1>4 DEF CoreInv, CancelInv, Listed
  <1>12. FirstInv'
    BY <1>1, <1>2, <1>3, <1>4 DEF CoreInv, FirstInv
  <1>. QED BY <1>5, <1>6, <1>7, <1>8, <1>9, <1>10, <1>11, <1>12 DEF CoreInv

(* StallJob keeps the invariant.                                           *)
LEMMA StallJobStep ==
  ASSUME CoreInv, StallJob
  PROVE  CoreInv'
  <1>1. UNCHANGED <<holds, sick, up, online, session, expired, task, batch, present,
      receipts, handler, cancel, assigned, completed, reports, left>>
    BY DEF StallJob, world, plan, evidence, requests, agent
  <1>2. job # None /\ job \in Jobs /\ job.revision \in Nat
    BY DEF StallJob, CoreInv, FirstInv, PlanInv, Jobs, DeliveryInv, RequestOk
  <1>3. /\ job' \in Jobs /\ job'.revision = job.revision
        /\ job' = job \/ (job.state \notin Terminal /\ job'.state = "Stalled")
    <2>1. job' = job \/ (job' = [job EXCEPT !.state = "Stalled"] /\ job.state \notin Terminal)
      BY DEF StallJob
    <2>2. [job EXCEPT !.state = "Stalled"] \in Jobs
      BY <1>2 DEF Jobs, JobStates
    <2>. QED BY <1>2, <2>1, <2>2 DEF Jobs, Terminal
  <1>4. job' # None /\ delivery' = Idle /\ leases' \subseteq leases
    BY <1>3, NoneAssumption DEF StallJob, WithoutLeases
  <1>5. RequestOk(delivery')
    BY <1>4, IdleOk
  <1>6. WorldInv' /\ HandlerInv'
    BY <1>1 DEF CoreInv, WorldInv, Target, HandlerInv, Requests, Known
  <1>7. PlanInv'
    BY <1>1, <1>2, <1>3, <1>4, <1>5 DEF CoreInv, PlanInv, Known
  <1>8. RoomInv'
    BY <1>1, <1>2, <1>3, <1>4, <1>5 DEF CoreInv, RoomInv, Terminal
  <1>9. LinkInv'
    BY <1>1, <1>2, <1>3, <1>4, <1>5 DEF CoreInv, LinkInv, Reports, Known
  <1>10. DeliveryInv'
    BY <1>1, <1>2, <1>3, <1>4, <1>5 DEF CoreInv, DeliveryInv, RequestOk, Requests, Known
  <1>11. CancelInv'
    BY <1>1, <1>2, <1>3, <1>4, <1>5 DEF CoreInv, CancelInv, Listed, Known, Terminal
  <1>12. FirstInv'
    BY <1>1, <1>2, <1>3, <1>4, <1>5 DEF CoreInv, FirstInv, Known
  <1>13. RevisionInv'
    BY <1>1, <1>2, <1>3, <1>4, <1>5 DEF CoreInv, RevisionInv, Terminal
  <1>14. CompleteIsPlaced'
    <2>1. job'.state = "Complete" <=> job.state = "Complete"
      BY <1>3 DEF Terminal
    <2>. QED BY <1>1, <1>2, <1>4, <2>1 DEF CoreInv, CompleteIsPlaced, Done
  <1>. QED BY <1>6, <1>7, <1>8, <1>9, <1>10, <1>11, <1>12, <1>13, <1>14 DEF CoreInv

(* AgentTransfers keeps the invariant.                                     *)
LEMMA AgentTransfersStep ==
  ASSUME CoreInv, NEW a \in assigned, AgentTransfers(a)
  PROVE  CoreInv'
  <1>1. UNCHANGED <<holds, sick, up, online, session, expired, job, task, batch, leases,
      present, receipts, delivery, handler, cancel, left>>
    BY DEF AgentTransfers, world, plan, evidence, requests, agent
  <1>2. job # None /\ a.batch \in Known /\ a.session \in Nat /\ batch[a.batch].objects \subseteq Objects
    <2>1. a.batch \in Known /\ a.session \in Nat
      BY DEF CoreInv, LinkInv
    <2>2. batch[a.batch] \in Rows
      BY <2>1, KnownFacts DEF CoreInv
    <2>. QED BY <2>1, <2>2 DEF CoreInv, FirstInv, Rows
  <1>3. PICK manifest \in Manifests(batch[a.batch].objects) :
            reports' = reports \o [i \in DOMAIN manifest |-> Report("receipt", a, manifest[i])]
    BY DEF AgentTransfers
  <1>4. [i \in DOMAIN manifest |-> Report("receipt", a, manifest[i])] \in Seq(Reports)
    <2>1. Cardinality(Objects) \in Nat
      BY ConstantsAssumption, FS_CardinalityType DEF ConstantsAssumption
    <2>2. PICK n \in 0..Cardinality(Objects) : manifest \in [1..n -> batch[a.batch].objects]
      BY DEF Manifests, SeqOf
    <2>3. n \in Nat /\ DOMAIN manifest = 1..n
      BY <2>1, <2>2
    <2>4. \A i \in 1..n : Report("receipt", a, manifest[i]) \in Reports
      BY <1>2, <2>2 DEF Report, Reports
    <2>. QED BY <2>3, <2>4
  <1>5. reports \in Seq(Reports) /\ reports' \in Seq(Reports) /\ (reports # <<>> => reports' # <<>>)
    <2>1. reports \in Seq(Reports)
      BY DEF CoreInv, LinkInv
    <2>. DEFINE new == [i \in DOMAIN manifest |-> Report("receipt", a, manifest[i])]
    <2>2. reports' = reports \o new /\ new \in Seq(Reports)
      BY <1>3, <1>4
    <2>. HIDE DEF new
    <2>3. reports' \in Seq(Reports) /\ Len(reports') = Len(reports) + Len(new)
      BY <2>1, <2>2
    <2>. QED BY <2>1, <2>2, <2>3
  <1>6. assigned' \subseteq assigned /\ completed' \subseteq completed \cup {a.batch}
    BY DEF AgentTransfers
  <1>7. WorldInv' /\ PlanInv' /\ RoomInv' /\ DeliveryInv' /\ CancelInv' /\ FirstInv' /\
      RevisionInv' /\ CompleteIsPlaced'
    BY <1>1 DEF CoreInv, WorldInv, Target, PlanInv, RoomInv, DeliveryInv, RequestOk,
        Requests, CancelInv, Listed, FirstInv, RevisionInv, CompleteIsPlaced, Done,
        Known
  <1>8. LinkInv'
    BY <1>1, <1>2, <1>3, <1>4, <1>5, <1>6 DEF CoreInv, LinkInv, Reports, Known
  <1>9. HandlerInv'
    BY <1>1, <1>2, <1>3, <1>4, <1>5, <1>6 DEF CoreInv, HandlerInv, Requests, Known
  <1>. QED BY <1>7, <1>8, <1>9 DEF CoreInv

(* AgentFails keeps the invariant.                                         *)
LEMMA AgentFailsStep ==
  ASSUME CoreInv, NEW a \in assigned, AgentFails(a)
  PROVE  CoreInv'
  <1>1. UNCHANGED <<holds, sick, up, online, session, expired, job, task, batch, leases,
      present, receipts, delivery, handler, cancel, completed>>
    BY DEF AgentFails, world, plan, evidence, requests, agent
  <1>2. job # None /\ a.batch \in Known /\ a.session \in Nat
    BY DEF CoreInv, LinkInv, FirstInv
  <1>3. Report("failed", a, None) \in Reports
    BY <1>2 DEF Report, Reports
  <1>4. reports' \in Seq(Reports) /\ reports' # <<>>
    <2>1. reports \in Seq(Reports)
      BY DEF CoreInv, LinkInv
    <2>2. reports' = Append(reports, Report("failed", a, None))
      BY DEF AgentFails
    <2>. QED BY <1>3, <2>1, <2>2
  <1>5. assigned' \subseteq assigned
    BY DEF AgentFails
  <1>6. left' \in Counts /\ left'["revisions"] = left["revisions"]
    BY LeftFacts DEF AgentFails, CoreInv
  <1>7. PlanInv' /\ DeliveryInv' /\ CancelInv' /\ FirstInv' /\ RevisionInv' /\
      CompleteIsPlaced'
    BY <1>1 DEF CoreInv, PlanInv, DeliveryInv, RequestOk, Requests, CancelInv, Listed,
        FirstInv, RevisionInv, CompleteIsPlaced, Done, Known
  <1>8. WorldInv'
    BY <1>1, <1>2, <1>3, <1>4, <1>5, <1>6 DEF CoreInv, WorldInv, Target
  <1>9. RoomInv'
    BY <1>1, <1>2, <1>3, <1>4, <1>5, <1>6 DEF CoreInv, RoomInv
  <1>10. LinkInv'
    BY <1>1, <1>2, <1>3, <1>4, <1>5, <1>6 DEF CoreInv, LinkInv, Reports, Known
  <1>11. HandlerInv'
    BY <1>1, <1>2, <1>3, <1>4, <1>5, <1>6 DEF CoreInv, HandlerInv, Requests, Known
  <1>. QED BY <1>7, <1>8, <1>9, <1>10, <1>11 DEF CoreInv

(* Advance keeps the invariant.                                            *)
LEMMA AdvanceStep ==
  ASSUME CoreInv, Advance
  PROVE  CoreInv'
  <1>1. UNCHANGED <<holds, sick, up, online, session, expired, job, task, batch, leases,
      present, receipts, delivery, cancel, assigned, completed, left>>
    BY DEF Advance, world, plan, evidence, requests, agent
  <1>2. job # None /\ handler \in Requests /\ handler.batch \in Known /\ reports # <<>>
    BY DEF Advance, CoreInv, FirstInv, HandlerInv
  <1>. DEFINE last == IF handler.row = None THEN batch[handler.batch] ELSE handler.row
              next == [batch[handler.batch] EXCEPT !.state = BatchPath[last.state]]
  <1>3. last.state \notin Ended => next \in Rows
    <2>1. batch[handler.batch] \in Rows /\ last \in Rows
      BY <1>2, KnownFacts DEF CoreInv, Requests
    <2>2. last.state \in BatchStates
      BY <2>1 DEF Rows
    <2>. HIDE DEF last
    <2>3. last.state \notin Ended => BatchPath[last.state] \in BatchStates
      BY <2>2 DEF BatchPath, BatchStates, Ended
    <2>. QED BY <2>1, <2>3 DEF Rows
  <1>4. \/ /\ handler' \in Requests /\ handler'.batch = handler.batch /\ handler'.row \in Rows
           /\ reports' = reports
        \/ handler' = Idle /\ reports' \in Seq(Reports)
    <2>1. \/ /\ handler' = [handler EXCEPT !.pc = "advance_write", !.row = next]
             /\ last.state \notin Ended /\ reports' = reports
          \/ Answer(handler.session)
      BY DEF Advance
    <2>. HIDE DEF last, next
    <2>2. CASE Answer(handler.session)
      BY <1>2, <2>2, AnswerFacts DEF CoreInv
    <2>. QED BY <1>2, <1>3, <2>1, <2>2 DEF Requests
  <1>5. WorldInv' /\ PlanInv' /\ RoomInv' /\ DeliveryInv' /\ CancelInv' /\ FirstInv' /\
      RevisionInv' /\ CompleteIsPlaced'
    BY <1>1 DEF CoreInv, WorldInv, Target, PlanInv, RoomInv, DeliveryInv, RequestOk,
        Requests, CancelInv, Listed, FirstInv, RevisionInv, CompleteIsPlaced, Done,
        Known
  <1>6. LinkInv'
    BY <1>1, <1>2, <1>3, <1>4 DEF CoreInv, LinkInv, Reports, Known
  <1>7. HandlerInv'
    BY <1>1, <1>2, <1>3, <1>4, IdleOk DEF CoreInv, HandlerInv, Known
  <1>. QED BY <1>5, <1>6, <1>7 DEF CoreInv

(* AdvanceWrite keeps the invariant.                                       *)
LEMMA AdvanceWriteStep ==
  ASSUME CoreInv, AdvanceWrite
  PROVE  CoreInv'
  <1>1. UNCHANGED <<holds, sick, up, online, session, expired, job, task, leases,
      present, receipts, delivery, cancel, assigned, completed, reports, left>>
    BY DEF AdvanceWrite, world, plan, evidence, requests, agent
  <1>2. job # None /\ handler.batch \in Known /\ handler.row \in Rows /\ reports # <<>>
    BY DEF AdvanceWrite, CoreInv, FirstInv, HandlerInv
  <1>3. /\ batch' \in [DOMAIN batch -> Rows \cup {None}]
        /\ DOMAIN batch' = DOMAIN batch /\ Known' = Known
    BY <1>2, WriteFacts DEF AdvanceWrite, CoreInv
  <1>4. handler' \in Requests /\ handler'.batch = handler.batch /\ handler'.pc = "advance"
    BY DEF AdvanceWrite, CoreInv, HandlerInv, Requests
  <1>5. WorldInv' /\ RevisionInv' /\ CompleteIsPlaced'
    BY <1>1 DEF CoreInv, WorldInv, Target, RevisionInv, CompleteIsPlaced, Done
  <1>6. PlanInv'
    BY <1>1, <1>2, <1>3, <1>4 DEF CoreInv, PlanInv
  <1>7. RoomInv'
    BY <1>1, <1>2, <1>3, <1>4 DEF CoreInv, RoomInv
  <1>8. LinkInv'
    BY <1>1, <1>2, <1>3, <1>4 DEF CoreInv, LinkInv, Reports
  <1>9. DeliveryInv'
    BY <1>1, <1>2, <1>3, <1>4 DEF CoreInv, DeliveryInv, RequestOk, Requests
  <1>10. HandlerInv'
    BY <1>1, <1>2, <1>3, <1>4, IdleOk DEF CoreInv, HandlerInv
  <1>11. CancelInv'
    BY <1>1, <1>2, <1>3, <1>4 DEF CoreInv, CancelInv, Listed
  <1>12. FirstInv'
    BY <1>1, <1>2, <1>3, <1>4 DEF CoreInv, FirstInv
  <1>. QED BY <1>5, <1>6, <1>7, <1>8, <1>9, <1>10, <1>11, <1>12 DEF CoreInv

(* ReceiveFailure keeps the invariant.                                     *)
LEMMA ReceiveFailureStep ==
  ASSUME CoreInv, ReceiveFailure
  PROVE  CoreInv'
  <1>1. UNCHANGED <<holds, sick, up, online, session, expired, job, task, batch,
      present, receipts, delivery, cancel, assigned, completed, left>>
    BY DEF ReceiveFailure, world, plan, evidence, requests, agent
  <1>2. job # None /\ Head(reports).batch \in Known /\ Head(reports).session \in Nat /\ reports # <<>>
    BY HeadFacts DEF ReceiveFailure, CoreInv, FirstInv
  <1>3. leases' \subseteq leases
    BY DEF ReceiveFailure, WithoutLeases
  <1>4. \/ /\ handler' \in Requests /\ handler'.batch \in Known /\ handler'.row \in Rows
           /\ reports' = reports
        \/ handler' = Idle /\ reports' \in Seq(Reports)
    <2>. DEFINE r == Head(reports)
                row == [batch[r.batch] EXCEPT !.state = "Failed"]
    <2>1. \/ handler' = [Working("fail_write", r) EXCEPT !.row = row] /\ reports' = reports
          \/ Answer(session)
      BY DEF ReceiveFailure
    <2>2. batch[r.batch] \in Rows /\ r.batch \in Nat \X Sources /\ session \in Nat
      BY <1>2, KnownFacts DEF CoreInv, WorldInv
    <2>3. row \in Rows
      BY <2>2 DEF Rows, BatchStates, Ended
    <2>4. CASE Answer(session)
      BY <1>2, <2>4, AnswerFacts DEF CoreInv
    <2>. HIDE DEF row, r
    <2>5. CASE handler' = [Working("fail_write", r) EXCEPT !.row = row] /\ reports' = reports
      <3>1. handler' = [pc |-> "fail_write", batch |-> r.batch, row |-> row, session |-> session]
        BY <2>5 DEF Working
      <3>. QED BY <1>2, <2>2, <2>3, <2>5, <3>1 DEF Requests, r
    <2>. QED BY <2>1, <2>4, <2>5
  <1>5. WorldInv' /\ PlanInv' /\ RoomInv' /\ DeliveryInv' /\ CancelInv' /\ FirstInv' /\
      RevisionInv' /\ CompleteIsPlaced'
    BY <1>1 DEF CoreInv, WorldInv, Target, PlanInv, RoomInv, DeliveryInv, RequestOk,
        Requests, CancelInv, Listed, FirstInv, RevisionInv, CompleteIsPlaced, Done,
        Known
  <1>6. LinkInv'
    BY <1>1, <1>2, <1>3, <1>4 DEF CoreInv, LinkInv, Reports, Known
  <1>7. HandlerInv'
    BY <1>1, <1>2, <1>3, <1>4, IdleOk DEF CoreInv, HandlerInv, Known
  <1>. QED BY <1>5, <1>6, <1>7 DEF CoreInv

(* FailWrite keeps the invariant.                                          *)
LEMMA FailWriteStep ==
  ASSUME CoreInv, FailWrite
  PROVE  CoreInv'
  <1>1. UNCHANGED <<holds, sick, up, online, session, expired, job, task, leases,
      present, receipts, delivery, cancel, assigned, completed, reports, left>>
    BY DEF FailWrite, world, plan, evidence, requests, agent
  <1>2. /\ job # None /\ handler \in Requests /\ handler.batch \in Known /\ handler.row \in Rows
        /\ reports # <<>>
    BY DEF FailWrite, CoreInv, FirstInv, HandlerInv
  <1>3. /\ batch' \in [DOMAIN batch -> Rows \cup {None}]
        /\ DOMAIN batch' = DOMAIN batch /\ Known' = Known
    BY <1>2, WriteFacts DEF FailWrite, CoreInv
  <1>4. handler' \in Requests /\ handler'.batch = handler.batch /\ handler'.row = handler.row
    BY <1>2 DEF FailWrite, Requests
  <1>5. WorldInv' /\ RevisionInv' /\ CompleteIsPlaced'
    BY <1>1 DEF CoreInv, WorldInv, Target, RevisionInv, CompleteIsPlaced, Done
  <1>6. PlanInv'
    BY <1>1, <1>2, <1>3, <1>4 DEF CoreInv, PlanInv
  <1>7. RoomInv'
    BY <1>1, <1>2, <1>3, <1>4 DEF CoreInv, RoomInv
  <1>8. LinkInv'
    BY <1>1, <1>2, <1>3, <1>4 DEF CoreInv, LinkInv, Reports
  <1>9. DeliveryInv'
    BY <1>1, <1>2, <1>3, <1>4 DEF CoreInv, DeliveryInv, RequestOk, Requests
  <1>10. HandlerInv'
    BY <1>1, <1>2, <1>3, <1>4 DEF CoreInv, HandlerInv, Requests
  <1>11. CancelInv'
    BY <1>1, <1>2, <1>3, <1>4 DEF CoreInv, CancelInv, Listed
  <1>12. FirstInv'
    BY <1>1, <1>2, <1>3, <1>4 DEF CoreInv, FirstInv
  <1>. QED BY <1>5, <1>6, <1>7, <1>8, <1>9, <1>10, <1>11, <1>12 DEF CoreInv

(* FailJob keeps the invariant.                                            *)
LEMMA FailJobStep ==
  ASSUME CoreInv, FailJob
  PROVE  CoreInv'
  <1>1. UNCHANGED <<holds, sick, up, online, session, expired, task, batch, leases,
      present, receipts, delivery, cancel, assigned, completed, left>>
    BY DEF FailJob, world, plan, evidence, requests, agent
  <1>2. job # None /\ job \in Jobs /\ job.revision \in Nat
    BY DEF FailJob, CoreInv, FirstInv, PlanInv, Jobs, HandlerInv
  <1>3. /\ job' \in Jobs /\ job'.revision = job.revision
        /\ job' = job \/ (job.state \notin Terminal /\ job'.state = "Stalled")
    <2>1. job' = job \/ (job' = [job EXCEPT !.state = "Stalled"] /\ job.state \notin Terminal)
      BY DEF FailJob
    <2>2. [job EXCEPT !.state = "Stalled"] \in Jobs
      BY <1>2 DEF Jobs, JobStates
    <2>. QED BY <1>2, <2>1, <2>2 DEF Jobs, Terminal
  <1>4. job' # None
    BY <1>3, NoneAssumption
  <1>5. handler' = Idle /\ reports' \in Seq(Reports)
    BY <1>2, AnswerFacts DEF FailJob, CoreInv, HandlerInv
  <1>6. WorldInv' /\ DeliveryInv'
    BY <1>1 DEF CoreInv, WorldInv, Target, DeliveryInv, RequestOk, Requests, Known
  <1>7. PlanInv'
    BY <1>1, <1>2, <1>3, <1>4, <1>5 DEF CoreInv, PlanInv, Known
  <1>8. RoomInv'
    BY <1>1, <1>2, <1>3, <1>4, <1>5 DEF CoreInv, RoomInv, Terminal
  <1>9. LinkInv'
    BY <1>1, <1>2, <1>3, <1>4, <1>5 DEF CoreInv, LinkInv, Reports, Known
  <1>10. HandlerInv'
    BY <1>1, <1>2, <1>3, <1>4, <1>5, IdleOk DEF CoreInv, HandlerInv, Known
  <1>11. CancelInv'
    BY <1>1, <1>2, <1>3, <1>4, <1>5 DEF CoreInv, CancelInv, Listed, Known, Terminal
  <1>12. FirstInv'
    BY <1>1, <1>2, <1>3, <1>4, <1>5 DEF CoreInv, FirstInv, Known
  <1>13. RevisionInv'
    BY <1>1, <1>2, <1>3, <1>4, <1>5 DEF CoreInv, RevisionInv, Terminal
  <1>14. CompleteIsPlaced'
    <2>1. job'.state = "Complete" <=> job.state = "Complete"
      BY <1>3 DEF Terminal
    <2>. QED BY <1>1, <1>2, <1>4, <2>1 DEF CoreInv, CompleteIsPlaced, Done
  <1>. QED BY <1>6, <1>7, <1>8, <1>9, <1>10, <1>11, <1>12, <1>13, <1>14 DEF CoreInv

(* CancelRequest keeps the invariant.                                      *)
LEMMA CancelRequestStep ==
  ASSUME CoreInv, CancelRequest
  PROVE  CoreInv'
  <1>1. UNCHANGED <<holds, sick, up, online, session, expired, job, task, batch, leases,
      present, receipts, delivery, handler, assigned, completed, reports>>
    BY DEF CancelRequest, world, plan, evidence, requests, agent
  <1>2. job # None /\ job \in Jobs /\ job.state \notin Terminal
    BY DEF CancelRequest, CoreInv, PlanInv
  <1>3. cancel' = [pc |-> "list", revision |-> job.revision, todo |-> {}, batch |-> None, row |-> None]
    BY DEF CancelRequest, NotCancelling
  <1>4. left' \in Counts /\ left'["revisions"] = left["revisions"]
    BY LeftFacts DEF CancelRequest, CoreInv
  <1>5. PlanInv' /\ LinkInv' /\ DeliveryInv' /\ HandlerInv' /\ RevisionInv' /\
      CompleteIsPlaced'
    BY <1>1 DEF CoreInv, PlanInv, LinkInv, Reports, DeliveryInv, RequestOk, Requests,
        HandlerInv, RevisionInv, CompleteIsPlaced, Done, Known
  <1>6. WorldInv'
    BY <1>1, <1>2, <1>3, <1>4 DEF CoreInv, WorldInv, Target
  <1>7. RoomInv'
    BY <1>1, <1>2, <1>3, <1>4 DEF CoreInv, RoomInv
  <1>8. CancelInv'
    BY <1>1, <1>2, <1>3, <1>4 DEF CoreInv, CancelInv, Listed, Known, Terminal, Jobs
  <1>9. FirstInv'
    BY <1>1, <1>2, <1>3, <1>4 DEF CoreInv, FirstInv, Known
  <1>. QED BY <1>5, <1>6, <1>7, <1>8, <1>9 DEF CoreInv

(* CancelList keeps the invariant.                                         *)
LEMMA CancelListStep ==
  ASSUME CoreInv, CancelList
  PROVE  CoreInv'
  <1>1. UNCHANGED <<holds, sick, up, online, session, expired, job, task, batch, leases,
      present, receipts, delivery, handler, assigned, completed, reports, left>>
    BY DEF CancelList, world, plan, evidence, requests, agent
  <1>2. job # None /\ job.state # "Cancelled"
    BY DEF CancelList, CoreInv, FirstInv, CancelInv
  <1>3. \A b \in Known : batch[b] \in Rows
    BY KnownFacts DEF CoreInv
  <1>4. cancel' = [cancel EXCEPT !.pc = "release", !.todo = {[batch |-> b, row |-> batch[b]] : b \in Known}]
    BY DEF CancelList, Known
  <1>5. {[batch |-> b, row |-> batch[b]] : b \in Known} \subseteq Listed
    BY <1>3 DEF Listed
  <1>6. WorldInv' /\ PlanInv' /\ RoomInv' /\ LinkInv' /\ DeliveryInv' /\ HandlerInv' /\
      RevisionInv' /\ CompleteIsPlaced'
    BY <1>1 DEF CoreInv, WorldInv, Target, PlanInv, RoomInv, LinkInv, Reports, DeliveryInv,
        RequestOk, Requests, HandlerInv, RevisionInv, CompleteIsPlaced, Done, Known
  <1>7. CancelInv'
    <2>. DEFINE todo == {[batch |-> b, row |-> batch[b]] : b \in Known}
    <2>1. \A t, u \in todo : t.batch = u.batch => t = u
      OBVIOUS
    <2>2. cancel' = [cancel EXCEPT !.pc = "release", !.todo = todo] /\ todo \subseteq Listed
      BY <1>4, <1>5
    <2>. HIDE DEF todo
    <2>3. Known' = Known /\ Listed' = Listed
      BY <1>1 DEF Known, Listed
    <2>4. cancel'.todo = todo /\ cancel'.pc = "release"
      BY <2>2 DEF CoreInv, CancelInv
    <2>. QED BY <1>1, <1>2, <2>1, <2>2, <2>3, <2>4 DEF CoreInv, CancelInv
  <1>8. FirstInv'
    BY <1>1, <1>2, <1>3, <1>4, <1>5 DEF CoreInv, FirstInv, Known
  <1>. QED BY <1>6, <1>7, <1>8 DEF CoreInv

(* CancelBatch keeps the invariant.                                        *)
LEMMA CancelBatchStep ==
  ASSUME CoreInv, CancelBatch
  PROVE  CoreInv'
  <1>1. UNCHANGED <<holds, sick, up, online, session, expired, job, task, batch,
      present, receipts, delivery, handler, assigned, completed, reports, left>>
    BY DEF CancelBatch, world, plan, evidence, requests, agent
  <1>2. job # None /\ job.state # "Cancelled" /\ leases' \subseteq leases
    BY DEF CancelBatch, CoreInv, FirstInv, CancelInv, WithoutLeases
  <1>3. WorldInv' /\ PlanInv' /\ RoomInv' /\ DeliveryInv' /\ HandlerInv' /\ RevisionInv'
      /\ CompleteIsPlaced'
    BY <1>1 DEF CoreInv, WorldInv, Target, PlanInv, RoomInv, DeliveryInv, RequestOk,
        Requests, HandlerInv, RevisionInv, CompleteIsPlaced, Done, Known
  <1>4. LinkInv'
    BY <1>1, <1>2 DEF CoreInv, LinkInv, Reports, Known
  <1>5. CancelInv'
    <2>. DEFINE next == CHOOSE t \in cancel.todo : \A u \in cancel.todo \ {t} : Before(t.batch, u.batch)
                failed == [next.row EXCEPT !.state = "Failed"]
    <2>1. next \in cancel.todo
      BY CancelNextFacts DEF CoreInv, CancelBatch
    <2>2. cancel' \in {NotCancelling, [cancel EXCEPT !.todo = @ \ {next}],
                      [cancel EXCEPT !.pc = "write", !.todo = @ \ {next},
                                     !.batch = next.batch, !.row = failed]}
      BY DEF CancelBatch
    <2>. HIDE DEF next
    <2>3. next.batch \in Known /\ next.row \in Rows
      BY <2>1 DEF CoreInv, CancelInv, Listed
    <2>4. failed \in Rows
      BY <2>3 DEF Rows, BatchStates, Ended
    <2>5. Known' = Known /\ Listed' = Listed
      BY <1>1 DEF Known, Listed
    <2>. HIDE DEF failed
    <2>6. CASE cancel' = NotCancelling
      BY <1>1, <1>2, <2>5, <2>6 DEF CancelInv, NotCancelling
    <2>7. CASE cancel' = [cancel EXCEPT !.todo = @ \ {next}]
      BY <1>1, <1>2, <2>5, <2>7 DEF CoreInv, CancelInv
    <2>8. CASE cancel' = [cancel EXCEPT !.pc = "write", !.todo = @ \ {next},
                                            !.batch = next.batch, !.row = failed]
      BY <1>1, <1>2, <2>3, <2>4, <2>5, <2>8 DEF CoreInv, CancelInv
    <2>. QED BY <2>2, <2>6, <2>7, <2>8
  <1>6. FirstInv'
    BY <1>1, <1>2 DEF CoreInv, FirstInv, Known
  <1>. QED BY <1>3, <1>4, <1>5, <1>6 DEF CoreInv

(* CancelWrite keeps the invariant.                                        *)
LEMMA CancelWriteStep ==
  ASSUME CoreInv, CancelWrite
  PROVE  CoreInv'
  <1>1. UNCHANGED <<holds, sick, up, online, session, expired, job, task, leases,
      present, receipts, delivery, handler, assigned, completed, reports, left>>
    BY DEF CancelWrite, world, plan, evidence, requests, agent
  <1>2. job # None /\ job.state # "Cancelled" /\ cancel.batch \in Known /\ cancel.row \in Rows
    BY DEF CancelWrite, CoreInv, FirstInv, CancelInv
  <1>3. /\ batch' \in [DOMAIN batch -> Rows \cup {None}]
        /\ DOMAIN batch' = DOMAIN batch /\ Known' = Known
    BY <1>2, WriteFacts DEF CancelWrite, CoreInv
  <1>4. cancel' = [cancel EXCEPT !.pc = "release", !.batch = None, !.row = None]
    BY DEF CancelWrite
  <1>5. WorldInv' /\ RevisionInv' /\ CompleteIsPlaced'
    BY <1>1 DEF CoreInv, WorldInv, Target, RevisionInv, CompleteIsPlaced, Done
  <1>6. PlanInv'
    BY <1>1, <1>2, <1>3, <1>4 DEF CoreInv, PlanInv
  <1>7. RoomInv'
    BY <1>1, <1>2, <1>3, <1>4 DEF CoreInv, RoomInv
  <1>8. LinkInv'
    BY <1>1, <1>2, <1>3, <1>4 DEF CoreInv, LinkInv, Reports
  <1>9. DeliveryInv'
    BY <1>1, <1>2, <1>3, <1>4 DEF CoreInv, DeliveryInv, RequestOk, Requests
  <1>10. HandlerInv'
    BY <1>1, <1>2, <1>3, <1>4 DEF CoreInv, HandlerInv, Requests
  <1>11. CancelInv'
    BY <1>1, <1>2, <1>3, <1>4 DEF CoreInv, CancelInv, Listed
  <1>12. FirstInv'
    BY <1>1, <1>2, <1>3, <1>4 DEF CoreInv, FirstInv
  <1>. QED BY <1>5, <1>6, <1>7, <1>8, <1>9, <1>10, <1>11, <1>12 DEF CoreInv

(* CancelJob keeps the invariant.                                          *)
LEMMA CancelJobStep ==
  ASSUME CoreInv, CancelJob
  PROVE  CoreInv'
  <1>1. UNCHANGED <<holds, sick, up, online, session, expired, task, batch, leases,
      present, receipts, delivery, handler, assigned, completed, reports, left>>
    BY DEF CancelJob, world, plan, evidence, requests, agent
  <1>2. job # None /\ job.state # "Cancelled" /\ job \in Jobs /\ job.revision \in Nat
    BY DEF CancelJob, CoreInv, FirstInv, CancelInv, PlanInv, Jobs
  <1>3. cancel' = NotCancelling
    BY DEF CancelJob
  <1>4. job' = job \/ job' = [state |-> "Cancelled", revision |-> job.revision + 1]
    BY DEF CancelJob
  <1>5. job' \in Jobs /\ job' # None
    BY <1>2, <1>4, NoneAssumption DEF Jobs, JobStates, Terminal
  <1>6. WorldInv' /\ LinkInv' /\ DeliveryInv' /\ HandlerInv'
    BY <1>1 DEF CoreInv, WorldInv, Target, LinkInv, Reports, DeliveryInv, RequestOk,
        Requests, HandlerInv, Known
  <1>7. PlanInv'
    BY <1>1, <1>2, <1>3, <1>4, <1>5 DEF CoreInv, PlanInv, Known
  <1>8. RoomInv'
    <2>1. CASE job' = job
      BY <1>1, <2>1 DEF CoreInv, RoomInv
    <2>2. CASE job' = [state |-> "Cancelled", revision |-> job.revision + 1]
      <3>1. job'.state = "Cancelled"
        BY <2>2
      <3>. QED BY <1>5, <3>1 DEF RoomInv
    <2>. QED BY <1>4, <2>1, <2>2
  <1>9. CancelInv'
    BY <1>1, <1>2, <1>3, <1>4, <1>5 DEF CoreInv, CancelInv, Listed, Known, NotCancelling
  <1>10. FirstInv'
    BY <1>1, <1>2, <1>3, <1>4, <1>5 DEF CoreInv, FirstInv, Known
  <1>11. RevisionInv'
    <2>1. \A o \in Objects : task[o].batch # None => task[o].batch[1] \in Nat
      BY DEF CoreInv, PlanInv, Known
    <2>2. \A o \in Objects : task[o].batch # None => task[o].batch[1] <= job.revision
      BY <1>2 DEF CoreInv, RevisionInv
    <2>3. \A o \in Objects : task[o].batch # None =>
              task[o].batch[1] <= job.revision + 1 /\ task[o].batch[1] < job.revision + 1
      BY <1>2, <2>1, <2>2
    <2>. QED BY <1>1, <1>2, <1>4, <2>2, <2>3 DEF RevisionInv
  <1>12. CompleteIsPlaced'
    <2>1. job' = job \/ (job.state # "Complete" /\ job'.state = "Cancelled")
      BY DEF CancelJob, CanBecome, JobSteps
    <2>. QED BY <1>1, <1>2, <1>5, <2>1 DEF CoreInv, CompleteIsPlaced, Done
  <1>. QED BY <1>6, <1>7, <1>8, <1>9, <1>10, <1>11, <1>12 DEF CoreInv

(* Disconnect keeps the invariant.                                         *)
LEMMA DisconnectStep ==
  ASSUME CoreInv, Disconnect
  PROVE  CoreInv'
  <1>1. UNCHANGED <<holds, sick, up, session, expired, job, task, batch, leases,
      present, receipts, delivery, handler, cancel, assigned, completed, reports>>
    BY DEF Disconnect, world, plan, evidence, requests, agent
  <1>2. online' = FALSE
    BY DEF Disconnect
  <1>3. left' \in Counts /\ left'["revisions"] = left["revisions"]
    BY LeftFacts DEF Disconnect, CoreInv
  <1>4. PlanInv' /\ LinkInv' /\ DeliveryInv' /\ HandlerInv' /\ CancelInv' /\ FirstInv'
      /\ RevisionInv' /\ CompleteIsPlaced'
    BY <1>1 DEF CoreInv, PlanInv, LinkInv, Reports, DeliveryInv, RequestOk, Requests,
        HandlerInv, CancelInv, Listed, FirstInv, RevisionInv, CompleteIsPlaced, Done,
        Known
  <1>5. WorldInv'
    BY <1>1, <1>2, <1>3 DEF CoreInv, WorldInv, Target
  <1>6. RoomInv'
    BY <1>1, <1>2, <1>3 DEF CoreInv, RoomInv
  <1>. QED BY <1>4, <1>5, <1>6 DEF CoreInv

(* Reconnect keeps the invariant.                                          *)
LEMMA ReconnectStep ==
  ASSUME CoreInv, Reconnect
  PROVE  CoreInv'
  <1>1. UNCHANGED <<holds, sick, up, expired, job, task, batch, leases, present,
      receipts, delivery, handler, cancel, reports, left>>
    BY DEF Reconnect, world, plan, evidence, requests, agent
  <1>2. online' = TRUE /\ session' = session + 1 /\ assigned' = {} /\ completed' \subseteq completed
    BY DEF Reconnect
  <1>3. PlanInv' /\ RoomInv' /\ DeliveryInv' /\ HandlerInv' /\ CancelInv' /\ FirstInv'
      /\ RevisionInv' /\ CompleteIsPlaced'
    BY <1>1 DEF CoreInv, PlanInv, RoomInv, DeliveryInv, RequestOk, Requests, HandlerInv,
        CancelInv, Listed, FirstInv, RevisionInv, CompleteIsPlaced, Done, Known
  <1>4. WorldInv'
    BY <1>1, <1>2 DEF CoreInv, WorldInv, Target
  <1>5. LinkInv'
    BY <1>1, <1>2 DEF CoreInv, LinkInv, Reports, Known
  <1>. QED BY <1>3, <1>4, <1>5 DEF CoreInv

(* SourceRoute keeps the invariant.                                        *)
LEMMA SourceRouteStep ==
  ASSUME CoreInv, NEW s \in Sources, SourceRoute(s)
  PROVE  CoreInv'
  <1>1. UNCHANGED <<holds, sick, online, session, expired, job, task, batch, leases,
      present, receipts, delivery, handler, cancel, assigned, completed, reports>>
    BY DEF SourceRoute, world, plan, evidence, requests, agent
  <1>2. up' \subseteq up \cup {s}
    BY DEF SourceRoute
  <1>3. left' \in Counts /\ left'["revisions"] = left["revisions"]
    BY LeftFacts DEF SourceRoute, CoreInv, WorldInv
  <1>4. PlanInv' /\ LinkInv' /\ DeliveryInv' /\ HandlerInv' /\ CancelInv' /\ FirstInv'
      /\ RevisionInv' /\ CompleteIsPlaced'
    BY <1>1 DEF CoreInv, PlanInv, LinkInv, Reports, DeliveryInv, RequestOk, Requests,
        HandlerInv, CancelInv, Listed, FirstInv, RevisionInv, CompleteIsPlaced, Done,
        Known
  <1>5. WorldInv'
    BY <1>1, <1>2, <1>3 DEF CoreInv, WorldInv, Target
  <1>6. RoomInv'
    BY <1>1, <1>2, <1>3 DEF CoreInv, RoomInv
  <1>. QED BY <1>4, <1>5, <1>6 DEF CoreInv

(* Observe keeps the invariant.                                            *)
LEMMA ObserveStep ==
  ASSUME CoreInv, NEW v \in Sources \cup {Target}, NEW o \in Objects, Observe(v, o)
  PROVE  CoreInv'
  <1>1. UNCHANGED <<holds, up, online, session, expired, job, task, batch, leases,
      present, receipts, delivery, handler, cancel, assigned, completed, reports>>
    BY DEF Observe, world, plan, evidence, requests, agent
  <1>2. sick' \subseteq sick \cup {<<v, o>>}
    BY DEF Observe
  <1>3. left' \in Counts /\ left'["revisions"] = left["revisions"]
    BY LeftFacts DEF Observe, CoreInv, WorldInv
  <1>4. PlanInv' /\ LinkInv' /\ DeliveryInv' /\ HandlerInv' /\ CancelInv' /\ FirstInv'
      /\ RevisionInv' /\ CompleteIsPlaced'
    BY <1>1 DEF CoreInv, PlanInv, LinkInv, Reports, DeliveryInv, RequestOk, Requests,
        HandlerInv, CancelInv, Listed, FirstInv, RevisionInv, CompleteIsPlaced, Done,
        Known
  <1>5. WorldInv'
    BY <1>1, <1>2, <1>3 DEF CoreInv, WorldInv, Target
  <1>6. RoomInv'
    BY <1>1, <1>2, <1>3 DEF CoreInv, RoomInv
  <1>. QED BY <1>4, <1>5, <1>6 DEF CoreInv

(* Expire keeps the invariant.                                             *)
LEMMA ExpireStep ==
  ASSUME CoreInv, Expire
  PROVE  CoreInv'
  <1>1. UNCHANGED <<holds, sick, up, online, session, job, task, batch, leases, present,
      receipts, delivery, handler, cancel, assigned, completed, reports, left>>
    BY DEF Expire, world, plan, evidence, requests, agent
  <1>2. expired' = TRUE
    BY DEF Expire
  <1>3. PlanInv' /\ RoomInv' /\ LinkInv' /\ DeliveryInv' /\ HandlerInv' /\ CancelInv' /\
      FirstInv' /\ RevisionInv' /\ CompleteIsPlaced'
    BY <1>1 DEF CoreInv, PlanInv, RoomInv, LinkInv, Reports, DeliveryInv, RequestOk,
        Requests, HandlerInv, CancelInv, Listed, FirstInv, RevisionInv,
        CompleteIsPlaced, Done, Known
  <1>4. WorldInv'
    BY <1>1, <1>2 DEF CoreInv, WorldInv, Target
  <1>. QED BY <1>3, <1>4 DEF CoreInv

(* Abandon keeps the invariant.                                            *)
LEMMA AbandonStep ==
  ASSUME CoreInv, Abandon
  PROVE  CoreInv'
  <1>1. UNCHANGED <<holds, sick, up, online, session, expired, job, task, batch, leases,
      present, receipts, assigned, completed, reports>>
    BY DEF Abandon, world, plan, evidence, requests, agent
  <1>2. left' \in Counts /\ left'["revisions"] = left["revisions"]
    BY LeftFacts DEF Abandon, CoreInv
  <1>3. /\ delivery' \in {delivery, Idle}
        /\ handler' \in {handler, Idle} /\ cancel' \in {cancel, NotCancelling}
    BY DEF Abandon
  <1>4. PlanInv' /\ LinkInv' /\ RevisionInv' /\ CompleteIsPlaced'
    BY <1>1 DEF CoreInv, PlanInv, LinkInv, Reports, RevisionInv, CompleteIsPlaced, Done,
        Known
  <1>5. WorldInv'
    BY <1>1, <1>2, <1>3 DEF CoreInv, WorldInv, Target
  <1>6. RoomInv'
    BY <1>1, <1>2, <1>3 DEF CoreInv, RoomInv
  <1>7. DeliveryInv'
    BY <1>1, <1>2, <1>3, IdleOk DEF CoreInv, DeliveryInv, RequestOk, Requests, Known
  <1>8. HandlerInv'
    BY <1>1, <1>2, <1>3, IdleOk DEF CoreInv, HandlerInv, Known
  <1>9. CancelInv'
    <2>1. CASE cancel' = cancel
      BY <1>1, <2>1 DEF CoreInv, CancelInv, Listed, Known
    <2>2. CASE cancel' = NotCancelling
      BY <1>1, <2>2 DEF CancelInv, NotCancelling, Known, Listed
    <2>. QED BY <1>3, <2>1, <2>2
  <1>10. FirstInv'
    BY <1>1, <1>2, <1>3 DEF CoreInv, FirstInv, Known, NotCancelling
  <1>. QED BY <1>4, <1>5, <1>6, <1>7, <1>8, <1>9, <1>10 DEF CoreInv

(* Planning: creation and retry install a plan for the next revision.      *)
LEMMA MaterializeCommitStep ==
  ASSUME IInv, MaterializeCommit
  PROVE  CoreInv' /\ job = None
  <1>. DEFINE chosen == ChooseSources(planner)
  <1>1. /\ planner \in Views /\ planner.present \subseteq present /\ planner.revision = 1
        /\ job = None /\ InstallPlan(planner, chosen)
        /\ UNCHANGED <<holds, sick, up, online, session, evidence, delivery, handler, cancel, agent>>
        /\ UNCHANGED <<expired, left>>
    BY DEF MaterializeCommit, IInv, PlannerInv, world
  <1>2. chosen \in UNION {[D -> Sources] : D \in SUBSET Objects}
    BY <1>1, ChooseSourcesFacts
  <1>3. /\ left' \in Counts
        /\ expired' \in BOOLEAN /\ cancel.pc = "idle"
    BY <1>1 DEF IInv, CoreInv, WorldInv, FirstInv
  <1>4. \A s \in Sources, i \in 0..left'["revisions"] : <<planner.revision + i, s>> \in DOMAIN batch
    BY <1>1 DEF IInv, CoreInv, RoomInv
  <1>. HIDE DEF chosen
  <1>. QED BY <1>1, <1>2, <1>3, <1>4, PlanStep DEF IInv

LEMMA RetryMaterializationStep ==
  ASSUME IInv, RetryMaterialization
  PROVE  CoreInv' /\ job.state # "Cancelled"
  <1>. DEFINE chosen == ChooseSources(planner)
              next == PlanState(planner, chosen)
  <1>1. /\ planner \in Views /\ planner.present \subseteq present
        /\ job # None /\ planner.revision = job.revision + 1 /\ InstallPlan(planner, chosen)
        /\ Happens("revisions") /\ ReplanAllowed(job.state, next)
        /\ UNCHANGED <<holds, sick, up, online, session, evidence, delivery, handler, cancel, agent>>
        /\ expired' = FALSE
    BY DEF RetryMaterialization, IInv, PlannerInv
  <1>2. chosen \in UNION {[D -> Sources] : D \in SUBSET Objects}
    BY <1>1, ChooseSourcesFacts
  <1>. HIDE DEF chosen
  <1>3. job.state # "Cancelled" /\ job.revision \in Nat
    <2>1. next \in JobStates \ {"Cancelled"}
      BY PlanStateFacts
    <2>. HIDE DEF next
    <2>2. job.state # "Cancelled"
      BY <1>1, <2>1 DEF ReplanAllowed, CanBecome, JobSteps
    <2>3. job.revision \in Nat
      BY <1>1 DEF IInv, CoreInv, PlanInv, Jobs
    <2>. QED BY <2>2, <2>3
  <1>4. /\ left' \in Counts
        /\ left["revisions"] \in Nat /\ left'["revisions"] = left["revisions"] - 1
    BY <1>1, LeftFacts DEF IInv, CoreInv, WorldInv, Counts
  <1>5. ASSUME NEW s \in Sources, NEW i \in 0..left'["revisions"]
        PROVE  <<planner.revision + i, s>> \in DOMAIN batch
    <2>1. i + 1 \in 0..left["revisions"] /\ job.revision + (i + 1) = planner.revision + i
      BY <1>1, <1>3, <1>4
    <2>2. <<job.revision + (i + 1), s>> \in DOMAIN batch
      BY <1>1, <1>3, <2>1 DEF IInv, CoreInv, RoomInv
    <2>. QED BY <2>1, <2>2
  <1>6. expired' \in BOOLEAN
    BY <1>1
  <1>. QED BY <1>1, <1>2, <1>3, <1>4, <1>5, <1>6, PlanStep DEF IInv

(* A planner that reads, or is dropped, changes nothing else.              *)
LEMMA PlannerReadsStep ==
  ASSUME IInv, PlanRead \/ PlanRoutes \/ PlanDropped
  PROVE  CoreInv' /\ PlannerInv' /\ UNCHANGED <<job, task, receipts, present>>
  <1>1. UNCHANGED <<holds, sick, up, online, session, expired, job, task, batch, leases, present,
                    receipts, delivery, handler, cancel, assigned, completed, reports, left>>
    BY DEF PlanRead, PlanRoutes, PlanDropped, world, plan, evidence, agent
  <1>2. CoreInv'
    BY <1>1 DEF IInv, CoreInv, WorldInv, Target, PlanInv, RoomInv, LinkInv, Reports, DeliveryInv,
        RequestOk, Requests, HandlerInv, CancelInv, Listed, FirstInv, RevisionInv, CompleteIsPlaced,
        Done, Known
  <1>3. PlannerInv'
    <2>1. CASE PlanRead
      <3>1. /\ TargetPresent \subseteq present /\ present \subseteq Objects
            /\ [o \in Objects |-> VerifiedSources(o)] \in [Objects -> SUBSET Sources]
        BY DEF TargetPresent, VerifiedSources, IInv, CoreInv, WorldInv
      <3>2. /\ (IF job = None THEN 1 ELSE job.revision + 1) \in Nat
            /\ (IF job = None THEN None ELSE job.state) \in JobStates \cup {None}
        BY DEF IInv, CoreInv, PlanInv, Jobs
      <3>3. planner' \in Views /\ planner'.present = TargetPresent
            /\ planner'.revision = IF job = None THEN 1 ELSE job.revision + 1
        BY <2>1, <3>1, <3>2 DEF PlanRead, Views
      <3>. QED BY <1>1, <3>1, <3>3 DEF PlannerInv
    <2>2. CASE PlanRoutes
      <3>1. up \subseteq Sources /\ (IF online THEN session ELSE None) \in Nat \cup {None}
        BY DEF IInv, CoreInv, WorldInv
      <3>. QED BY <1>1, <2>2, <3>1 DEF PlanRoutes, IInv, PlannerInv, Views
    <2>3. CASE PlanDropped
      BY <2>3 DEF PlanDropped, PlannerInv
    <2>. QED BY <2>1, <2>2, <2>3
  <1>. QED BY <1>1, <1>2, <1>3

(* A receipt that is not taken is answered.                                *)
LEMMA AnswerStep ==
  ASSUME CoreInv, reports # <<>>, NEW s, Answer(s),
         UNCHANGED <<world, plan, evidence, delivery, cancel, assigned, completed, left>>
  PROVE  CoreInv'
  <1>1. UNCHANGED <<holds, sick, up, online, session, expired, job, task, batch, leases, present,
                    receipts, delivery, cancel, assigned, completed, left>>
    BY DEF world, plan, evidence
  <1>2. handler' = Idle /\ reports' \in Seq(Reports)
    BY AnswerFacts DEF CoreInv
  <1>3. /\ WorldInv' /\ PlanInv' /\ RoomInv' /\ DeliveryInv' /\ CancelInv' /\ FirstInv'
        /\ RevisionInv' /\ CompleteIsPlaced'
    BY <1>1 DEF CoreInv, WorldInv, Target, PlanInv, RoomInv, DeliveryInv, RequestOk, Requests,
        CancelInv, Listed, FirstInv, RevisionInv, CompleteIsPlaced, Done, Known
  <1>4. LinkInv'
    BY <1>1, <1>2 DEF CoreInv, LinkInv, Reports, Known
  <1>5. HandlerInv'
    BY <1>1, <1>2, IdleOk DEF HandlerInv, Requests, Known
  <1>. QED BY <1>3, <1>4, <1>5 DEF CoreInv

(* A receipt that is taken completes its task, and with the last task the  *)
(* job.  The job is not Cancelled: its revision is the one of a batch that *)
(* a task still names.                                                     *)
LEMMA RecordReceiptStep ==
  ASSUME CoreInv, NEW r, r = Head(reports), reports # <<>>, r.kind = "receipt",
         task[r.object].batch = r.batch, RecordReceipt(r),
         UNCHANGED <<world, delivery, cancel, assigned, completed, left>>
  PROVE  CoreInv' /\ CancelledStays
  <1>. DEFINE tasks == [task EXCEPT ![r.object].state =
                          IF Done(task[r.object]) THEN task[r.object].state ELSE "Verified"]
              next == NextJobState(tasks)
  <1>1. r.batch \in Known /\ r.object \in Objects /\ r.session \in Nat
    BY HeadFacts DEF CoreInv
  <1>2. job \in Jobs /\ job # None /\ job.revision \in Nat /\ r.batch # None
    BY <1>1, NoneAssumption, KnownFacts DEF CoreInv, FirstInv, PlanInv, Jobs
  <1>3. CASE ~(job.revision = r.batch[1] /\ CanBecome(job.state, next))
    <2>1. Answer(session) /\ UNCHANGED <<plan, evidence>>
      BY <1>3 DEF RecordReceipt
    <2>2. CoreInv'
      BY <2>1, AnswerStep
    <2>. QED BY <2>1, <2>2 DEF plan, evidence, CancelledStays
  <1>4. CASE job.revision = r.batch[1] /\ CanBecome(job.state, next)
    <2>1. /\ present' = present \cup {r.object}
          /\ receipts' = receipts \cup {[batch |-> r.batch, object |-> r.object]}
          /\ task' = tasks /\ job' = [job EXCEPT !.state = next]
          /\ leases' \subseteq leases /\ handler' = Working("advance", r)
          /\ UNCHANGED <<batch, reports>>
          /\ UNCHANGED <<holds, sick, up, online, session, expired, delivery, cancel, assigned,
                         completed, left>>
      BY <1>4 DEF RecordReceipt, world
    <2>2. job.state # "Cancelled"
      BY <1>1, <1>2, <1>4 DEF CoreInv, RevisionInv
    <2>3. /\ task' \in [Objects -> [state : TaskStates, batch : Known \cup {None}]]
          /\ \A o \in Objects : task'[o].batch = task[o].batch
          /\ \A o \in Objects : Done(task'[o]) <=> Done(task[o]) \/ o = r.object
      <3>1. task \in [Objects -> [state : TaskStates, batch : Known \cup {None}]]
        BY DEF CoreInv, PlanInv
      <3>2. task' = [task EXCEPT ![r.object].state =
                       IF Done(task[r.object]) THEN task[r.object].state ELSE "Verified"]
        BY <2>1
      <3>. QED BY <1>1, <3>1, <3>2 DEF Done, TaskStates
    <2>4. /\ next \in JobStates \ {"Cancelled"}
          /\ next = "Complete" <=> \A o \in Objects : Done(task'[o])
      <3>1. task' = tasks /\ job.state \in JobStates
        BY <1>2, <2>1 DEF Jobs
      <3>. HIDE DEF tasks
      <3>2. job.state = "Complete" => \A o \in Objects : Done(task'[o])
        BY <1>2, <2>3 DEF CoreInv, CompleteIsPlaced
      <3>. QED BY <2>2, <3>1, <3>2 DEF NextJobState, JobStates, Terminal
    <2>. HIDE DEF tasks, next
    <2>5. job' \in Jobs /\ job' # None /\ job'.state = next /\ job'.revision = job.revision
      BY <1>2, <2>1, <2>4, NoneAssumption DEF Jobs
    <2>6. handler' \in Requests /\ handler'.batch = r.batch /\ handler'.pc = "advance"
      <3>1. handler' = [pc |-> "advance", batch |-> r.batch, row |-> None, session |-> session]
        BY <2>1 DEF Working
      <3>2. r.batch \in Nat \X Sources /\ session \in Nat
        BY <1>1, KnownFacts DEF CoreInv, WorldInv
      <3>. QED BY <3>1, <3>2 DEF Requests
    <2>7. WorldInv' /\ DeliveryInv'
      BY <1>1, <2>1 DEF CoreInv, WorldInv, Target, DeliveryInv, RequestOk, Requests, Known
    <2>8. PlanInv' /\ RoomInv'
      BY <1>2, <2>1, <2>2, <2>3, <2>5 DEF CoreInv, PlanInv, RoomInv, Known
    <2>9. LinkInv' /\ HandlerInv'
      BY <1>1, <2>1, <2>6 DEF CoreInv, LinkInv, Reports, HandlerInv, Known
    <2>10. CancelInv' /\ FirstInv'
      BY <2>1, <2>4, <2>5 DEF CoreInv, CancelInv, Listed, FirstInv, Known
    <2>11. RevisionInv'
      BY <1>2, <2>2, <2>3, <2>4, <2>5 DEF CoreInv, RevisionInv
    <2>12. CompleteIsPlaced'
      BY <2>1, <2>3, <2>4, <2>5 DEF CoreInv, CompleteIsPlaced
    <2>. QED BY <2>2, <2>7, <2>8, <2>9, <2>10, <2>11, <2>12 DEF CoreInv, CancelledStays
  <1>. QED BY <1>3, <1>4

LEMMA ReceiveReceiptStep ==
  ASSUME CoreInv, ReceiveReceipt
  PROVE  CoreInv' /\ CancelledStays
  <1>. DEFINE r == Head(reports)
  <1>1. /\ reports # <<>> /\ r.kind = "receipt"
        /\ UNCHANGED <<world, delivery, cancel, assigned, completed, left>>
        /\ \/ task[r.object].batch = r.batch /\ RecordReceipt(r)
           \/ Answer(session) /\ UNCHANGED <<plan, evidence>>
    BY DEF ReceiveReceipt
  <1>2. CASE task[r.object].batch = r.batch /\ RecordReceipt(r)
    BY <1>1, <1>2, RecordReceiptStep
  <1>3. CASE Answer(session) /\ UNCHANGED <<plan, evidence>>
    <2>1. CoreInv'
      BY <1>1, <1>3, AnswerStep
    <2>. QED BY <1>3, <2>1 DEF plan, evidence, CancelledStays
  <1>. QED BY <1>1, <1>2, <1>3

-----------------------------------------------------------------------------
LEMMA InitIInv == Init => IInv
  <1>. SUFFICES ASSUME Init PROVE CoreInv /\ PlannerInv
    BY DEF IInv
  <1>1. PICK c \in Scenarios :
            /\ holds = c.layout /\ present = c.target
            /\ left = [c.bounds EXCEPT !.revisions = @ - 1, !.sessions = @ - 1]
            /\ batch = [b \in BatchIds(c.bounds.revisions) |-> None]
    BY DEF Init
  <1>2. /\ c.layout \in [Sources -> SUBSET Objects] /\ c.target \subseteq Objects
        /\ c.bounds \in [revisions : Nat \ {0}, sessions : Nat \ {0}, cancels : Nat, events : Nat]
    BY ConstantsAssumption DEF ConstantsAssumption
  <1>3. /\ left \in Counts
        /\ left["revisions"] = c.bounds.revisions - 1 /\ c.bounds.revisions \in Nat \ {0}
    <2>. DEFINE d == c.bounds
    <2>1. /\ d.revisions - 1 \in Nat /\ d.sessions - 1 \in Nat /\ d.cancels \in Nat /\ d.events \in Nat
          /\ d = [revisions |-> d.revisions, sessions |-> d.sessions, cancels |-> d.cancels,
                  events |-> d.events]
      BY <1>2
    <2>2. left = [d EXCEPT !.revisions = @ - 1, !.sessions = @ - 1]
      BY <1>1
    <2>. HIDE DEF d
    <2>3. left = [revisions |-> d.revisions - 1, sessions |-> d.sessions - 1, cancels |-> d.cancels,
                  events |-> d.events]
      BY <2>1, <2>2
    <2>4. left = [x \in {"revisions", "sessions", "cancels", "events"} |-> left[x]]
      BY <2>3
    <2>5. /\ left["revisions"] \in Nat /\ left["sessions"] \in Nat
          /\ left["cancels"] \in Nat /\ left["events"] \in Nat
      BY <2>1, <2>3
    <2>. QED BY <1>2, <2>3, <2>4, <2>5 DEF d, Counts
  <1>4. WorldInv
    BY <1>1, <1>2, <1>3 DEF Init, WorldInv
  <1>5. Known = {} /\ job = None
    BY <1>1 DEF Init, Known
  <1>6. PlanInv
    BY <1>1, <1>3 DEF Init, PlanInv, TaskStates, BatchIds
  <1>7. RoomInv
    BY <1>1, <1>3, <1>5 DEF RoomInv, BatchIds
  <1>8. LinkInv /\ DeliveryInv /\ HandlerInv
    BY IdleOk DEF Init, LinkInv, DeliveryInv, HandlerInv
  <1>9. CancelInv /\ FirstInv /\ RevisionInv
    BY <1>5 DEF Init, CancelInv, NotCancelling, FirstInv, RevisionInv
  <1>10. CompleteIsPlaced
    BY <1>5 DEF Init, CompleteIsPlaced, Done
  <1>11. PlannerInv
    BY DEF Init, PlannerInv
  <1>. QED BY <1>4, <1>6, <1>7, <1>8, <1>9, <1>10, <1>11 DEF CoreInv

(* Every step keeps the core, and none moves a Cancelled job.              *)
LEMMA NextCore ==
  ASSUME IInv, [Next]_vars
  PROVE  CoreInv' /\ CancelledStays
  <1>. USE DEF plan, evidence, CancelledStays
  <1>0. CoreInv
    BY DEF IInv
  <1>1. CASE UNCHANGED vars
    <2>1. UNCHANGED <<holds, sick, up, online, session, expired, job, task, batch, leases, present,
                      receipts, delivery, handler, cancel, assigned, completed, reports, left>>
      BY <1>1 DEF vars, world, requests, agent
    <2>2. CoreInv'
      BY <1>0, <2>1 DEF CoreInv, WorldInv, Target, PlanInv, RoomInv, LinkInv, Reports, DeliveryInv, RequestOk,
          Requests, HandlerInv, CancelInv, Listed, FirstInv, RevisionInv, CompleteIsPlaced, Done, Known
    <2>. QED BY <2>1, <2>2
  <1>2. CASE MaterializeCommit
    BY <1>2, MaterializeCommitStep
  <1>3. CASE RetryMaterialization
    BY <1>3, RetryMaterializationStep
  <1>4. CASE Delivery
    <2>1. ASSUME NEW b \in DOMAIN batch, Deliver(b) PROVE CoreInv' /\ CancelledStays
      BY <1>0, <2>1, DeliverStep DEF Deliver
    <2>2. CASE DeliverWrite
      BY <1>0, <2>2, DeliverWriteStep DEF DeliverWrite
    <2>3. CASE DeliverContinue
      BY <1>0, <2>3, DeliverContinueStep DEF DeliverContinue
    <2>4. CASE StallWrite
      BY <1>0, <2>4, StallWriteStep DEF StallWrite
    <2>5. CASE StallJob
      BY <1>0, <2>5, StallJobStep DEF StallJob, Terminal
    <2>. QED BY <1>4, <2>1, <2>2, <2>3, <2>4, <2>5 DEF Delivery
  <1>5. CASE Reporting
    <2>1. CASE ReceiveReceipt
      BY <1>0, <2>1, ReceiveReceiptStep
    <2>2. CASE Advance
      BY <1>0, <2>2, AdvanceStep DEF Advance
    <2>3. CASE AdvanceWrite
      BY <1>0, <2>3, AdvanceWriteStep DEF AdvanceWrite
    <2>4. CASE ReceiveFailure
      BY <1>0, <2>4, ReceiveFailureStep DEF ReceiveFailure
    <2>5. CASE FailWrite
      BY <1>0, <2>5, FailWriteStep DEF FailWrite
    <2>6. CASE FailJob
      BY <1>0, <2>6, FailJobStep DEF FailJob, Terminal
    <2>. QED BY <1>5, <2>1, <2>2, <2>3, <2>4, <2>5, <2>6 DEF Reporting
  <1>6. CASE Cancellation
    <2>0. cancel.pc # "idle" => CancelledStays
      BY <1>0 DEF CoreInv, CancelInv
    <2>1. CASE CancelRequest
      BY <1>0, <2>1, CancelRequestStep DEF CancelRequest
    <2>2. CASE CancelList
      BY <1>0, <2>0, <2>2, CancelListStep DEF CancelList
    <2>3. CASE CancelBatch
      BY <1>0, <2>0, <2>3, CancelBatchStep DEF CancelBatch
    <2>4. CASE CancelWrite
      BY <1>0, <2>0, <2>4, CancelWriteStep DEF CancelWrite
    <2>5. CASE CancelJob
      BY <1>0, <2>0, <2>5, CancelJobStep DEF CancelJob
    <2>. QED BY <1>6, <2>1, <2>2, <2>3, <2>4, <2>5 DEF Cancellation
  <1>7. ASSUME NEW a \in assigned, AgentTransfers(a) \/ AgentFails(a) PROVE CoreInv' /\ CancelledStays
    <2>1. CASE AgentTransfers(a)
      BY <1>0, <2>1, AgentTransfersStep DEF AgentTransfers
    <2>2. CASE AgentFails(a)
      BY <1>0, <2>2, AgentFailsStep DEF AgentFails
    <2>. QED BY <1>7, <2>1, <2>2
  <1>8. CASE Environment
    <2>1. CASE Disconnect
      BY <1>0, <2>1, DisconnectStep DEF Disconnect
    <2>2. CASE Reconnect
      BY <1>0, <2>2, ReconnectStep DEF Reconnect
    <2>3. CASE Expire
      BY <1>0, <2>3, ExpireStep DEF Expire
    <2>4. CASE Abandon
      BY <1>0, <2>4, AbandonStep DEF Abandon
    <2>5. ASSUME NEW s \in Sources, SourceRoute(s) PROVE CoreInv' /\ CancelledStays
      BY <1>0, <2>5, SourceRouteStep DEF SourceRoute
    <2>6. ASSUME NEW v \in Sources \cup {Target}, NEW o \in Objects, Observe(v, o)
          PROVE CoreInv' /\ CancelledStays
      BY <1>0, <2>6, ObserveStep DEF Observe
    <2>. QED BY <1>8, <2>1, <2>2, <2>3, <2>4, <2>5, <2>6 DEF Environment
  <1>9. CASE PlanRead \/ PlanRoutes \/ PlanDropped
    BY <1>9, PlannerReadsStep
  <1>. QED BY <1>1, <1>2, <1>3, <1>4, <1>5, <1>6, <1>7, <1>8, <1>9 DEF Next

(* No step but the planner's own changes what it has read; a Placement is  *)
(* never lost, and the job is created by installing its plan.              *)
LEMMA NextPlanner ==
  ASSUME IInv, [Next]_vars
  PROVE  PlannerInv'
  <1>1. CASE PlanRead \/ PlanRoutes \/ PlanDropped
    BY <1>1, PlannerReadsStep
  <1>2. CASE MaterializeCommit \/ RetryMaterialization
    BY <1>2 DEF MaterializeCommit, RetryMaterialization, InstallPlan, PlannerInv
  <1>3. planner' = planner /\ present \subseteq present' /\ (job' = None => job = None) => PlannerInv'
    BY DEF IInv, PlannerInv
  <1>0. job # None => /\ \A x \in JobStates : [job EXCEPT !.state = x] # None
                      /\ [state |-> "Cancelled", revision |-> job.revision + 1] # None
                      /\ job.state \in JobStates
    <2>1. job # None => job \in Jobs
      BY DEF IInv, CoreInv, PlanInv
    <2>2. \A x \in JobStates : job \in Jobs => [job EXCEPT !.state = x] \in Jobs
      BY DEF Jobs
    <2>3. job \in Jobs => [state |-> "Cancelled", revision |-> job.revision + 1] \in Jobs
      BY DEF Jobs, JobStates, Terminal
    <2>. QED BY <2>1, <2>2, <2>3, NoneAssumption DEF Jobs
  <1>4. CASE UNCHANGED vars
    BY <1>3, <1>4 DEF vars, requests, evidence, plan
  <1>5. CASE Delivery
    <2>1. planner' = planner /\ present' = present
      BY <1>5 DEF Delivery, Deliver, DeliverWrite, DeliverContinue, StallWrite, StallJob, evidence
    <2>2. job' = None => job = None
      <3>1. "Stalled" \in JobStates
        BY DEF JobStates
      <3>2. job' \in {job, [job EXCEPT !.state = "Stalled"]}
        BY <1>5 DEF Delivery, Deliver, DeliverWrite, DeliverContinue, StallWrite, StallJob, plan
      <3>. QED BY <1>0, <3>1, <3>2
    <2>. QED BY <1>3, <2>1, <2>2
  <1>6. CASE Reporting
    <2>1. planner' = planner /\ present \subseteq present'
      BY <1>6 DEF Reporting, ReceiveReceipt, RecordReceipt, Advance, AdvanceWrite, ReceiveFailure,
          FailWrite, FailJob, evidence
    <2>2. job' = None => job = None
      <3>1. \/ job' = job \/ job' = [job EXCEPT !.state = "Stalled"]
            \/ \E tasks : job' = [job EXCEPT !.state = NextJobState(tasks)]
        BY <1>6 DEF Reporting, ReceiveReceipt, RecordReceipt, Advance, AdvanceWrite, ReceiveFailure,
            FailWrite, FailJob, plan
      <3>2. \A tasks : NextJobState(tasks) \in {"Complete", "Verifying", job.state}
        BY DEF NextJobState
      <3>3. {"Complete", "Verifying", "Stalled"} \subseteq JobStates
        BY DEF JobStates, Terminal
      <3>. QED BY <1>0, <3>1, <3>2, <3>3
    <2>. QED BY <1>3, <2>1, <2>2
  <1>7. CASE Cancellation
    <2>1. planner' = planner /\ present' = present
      BY <1>7 DEF Cancellation, CancelRequest, CancelList, CancelBatch, CancelWrite, CancelJob, evidence
    <2>2. job' = None => job = None
      <3>1. job' \in {job, [state |-> "Cancelled", revision |-> job.revision + 1]}
        BY <1>7 DEF Cancellation, CancelRequest, CancelList, CancelBatch, CancelWrite, CancelJob, plan
      <3>. QED BY <1>0, <3>1
    <2>. QED BY <1>3, <2>1, <2>2
  <1>8. CASE Environment \/ \E a \in assigned : AgentTransfers(a) \/ AgentFails(a)
    <2>1. UNCHANGED <<planner, present, job>>
      BY <1>8 DEF Environment, Disconnect, Reconnect, Expire, Abandon, SourceRoute, Observe,
          AgentTransfers, AgentFails, evidence, requests, plan
    <2>. QED BY <1>3, <2>1
  <1>. QED BY <1>1, <1>2, <1>4, <1>5, <1>6, <1>7, <1>8 DEF Next

LEMMA NextIInv ==
  ASSUME IInv, [Next]_vars
  PROVE  IInv' /\ CancelledStays
  BY NextCore, NextPlanner DEF IInv

-----------------------------------------------------------------------------
(* The inductive invariant holds in every behaviour: whatever plans,       *)
(* deliveries, reports, cancellations and mishaps interleave, every        *)
(* pending update names a batch that some plan made.                       *)
THEOREM Invariance == Spec => []IInv
  <1>1. Init => IInv
    BY InitIInv
  <1>2. IInv /\ [Next]_vars => IInv'
    BY NextIInv
  <1>. QED BY <1>1, <1>2, PTL DEF Spec

(* Tasks, leases, receipts and assignments always name batches that a plan *)
(* can have, and a batch row stays well formed through every racing update.*)
THEOREM TypeCorrect == Spec => []TypeOK
  <1>1. IInv => TypeOK
    <2>. SUFFICES ASSUME IInv PROVE TypeOK
      OBVIOUS
    <2>1. Known \subseteq DOMAIN batch
      BY DEF Known
    <2>2. \A o \in Objects : task[o].state \in TaskStates /\ task[o].batch \in DOMAIN batch \cup {None}
      BY <2>1 DEF IInv, CoreInv, PlanInv
    <2>3. \A b \in DOMAIN batch : batch[b] \in Rows \cup {None}
      BY DEF IInv, CoreInv, PlanInv
    <2>4. /\ leases \cup receipts \subseteq [batch : DOMAIN batch, object : Objects]
          /\ assigned \subseteq [batch : DOMAIN batch, session : Nat]
          /\ completed \subseteq DOMAIN batch
      BY <2>1 DEF IInv, CoreInv, LinkInv
    <2>. QED BY <2>2, <2>3, <2>4 DEF IInv, CoreInv, PlannerInv, WorldInv, PlanInv, TypeOK, TaskStates, Counts
  <1>. QED BY <1>1, Invariance, PTL

(* record_materialization_receipt: a task that is done has its object      *)
(* placed on the target, and a job is Complete exactly when all are done,  *)
(* whatever plan, session or receipt produced the last of them.            *)
THEOREM CompletionIsPlaced == Spec => []CompleteIsPlaced
  <1>1. IInv => CompleteIsPlaced
    BY DEF IInv, CoreInv
  <1>. QED BY <1>1, Invariance, PTL

(* cancel_commit_materialization: after a job is Cancelled nothing that    *)
(* was still under way changes it, its tasks, its receipts or the target's *)
(* Placements.                                                             *)
THEOREM CancellationIsFinal == Spec => CancelledIsFinal
  <1>1. IInv /\ [Next]_vars => [CancelledStays]_vars
    BY NextIInv
  <1>. QED BY <1>1, Invariance, PTL DEF Spec, CancelledIsFinal, CancelledStays

(* stall_materialization_batch: a stall that was overtaken by a newer plan *)
(* touches neither the job nor the leases of that plan.                    *)
THEOREM StallsKeepNewerPlan == Spec => StallKeepsNewerPlan
  <1>. DEFINE Kept ==
                delivery.pc = "stall_job" /\ delivery.batch[1] < job.revision /\ delivery' = Idle =>
                  /\ UNCHANGED job
                  /\ {l \in leases : l.batch[1] = job.revision} \subseteq leases'
  <1>1. ASSUME IInv, Next, delivery.pc = "stall_job", delivery.batch[1] < job.revision,
               delivery' = Idle
        PROVE  UNCHANGED job /\ {l \in leases : l.batch[1] = job.revision} \subseteq leases'
    <2>1. delivery' # delivery
      BY <1>1, IdleOk
    <2>2. delivery.batch[1] \in Nat /\ job.revision \in Nat
      <3>1. delivery.batch \in Known
        BY <1>1 DEF IInv, CoreInv, DeliveryInv, RequestOk
      <3>2. delivery.batch \in Nat \X Sources
        BY <1>1, <3>1, KnownFacts DEF IInv, CoreInv
      <3>3. job \in Jobs
        BY <1>1, <3>1 DEF IInv, CoreInv, FirstInv, PlanInv
      <3>. QED BY <3>2, <3>3 DEF Jobs
    <2>3. CASE StallJob
      <3>1. job' = job /\ leases' = WithoutLeases(delivery.batch)
        BY <1>1, <2>2, <2>3 DEF StallJob
      <3>. QED BY <1>1, <2>2, <3>1 DEF WithoutLeases
    <2>4. CASE Abandon
      BY <2>4 DEF Abandon, plan
    <2>5. ~StallJob /\ ~Abandon => FALSE
      <3>. SUFFICES ASSUME ~StallJob, ~Abandon PROVE FALSE
        OBVIOUS
      <3>. USE <1>1, <2>1 DEF requests
      <3>1. ~MaterializeCommit
        BY DEF MaterializeCommit
      <3>2. ~RetryMaterialization /\ ~PlanRead /\ ~PlanRoutes /\ ~PlanDropped
        BY DEF RetryMaterialization, PlanRead, PlanRoutes, PlanDropped
      <3>3. ~Delivery
        BY DEF Delivery, Deliver, DeliverWrite, DeliverContinue, StallWrite
      <3>4. ~Reporting
        BY DEF Reporting, ReceiveReceipt, Advance, AdvanceWrite, ReceiveFailure, FailWrite, FailJob
      <3>5. ~Cancellation
        BY DEF Cancellation, CancelRequest, CancelList, CancelBatch, CancelWrite, CancelJob
      <3>6. \A a \in assigned : ~AgentTransfers(a) /\ ~AgentFails(a)
        BY DEF AgentTransfers, AgentFails
      <3>7. ~Environment
        BY DEF Environment, Disconnect, Reconnect, Expire, SourceRoute, Observe
      <3>. QED BY <3>1, <3>2, <3>3, <3>4, <3>5, <3>6, <3>7 DEF Next
    <2>. QED BY <2>3, <2>4, <2>5
  <1>2. IInv /\ [Next]_vars => [Kept]_vars
    BY <1>1
  <1>. QED BY <1>2, Invariance, PTL DEF Spec, StallKeepsNewerPlan
=============================================================================
