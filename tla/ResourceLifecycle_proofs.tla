---------------------- MODULE ResourceLifecycle_proofs ----------------------
(***************************************************************************)
(* The deletion of a resource, for any number of volumes, roots, retries,  *)
(* restores, holds, Jobs, crashes and sessions.  None of the properties is *)
(* inductive.                                                              *)
(*                                                                         *)
(* That erased metadata means purged trees needs the whole chain of        *)
(* evidence: what the journal says of each tree (TreeInv), that a purge    *)
(* has emptied the roots it has passed (MoveInv), that a result, a claim   *)
(* and a retired assignment stand for a purged journal (DoneInv,           *)
(* RetiredInv), and that the reconciler decides on the copy it still holds *)
(* (CopyInv, WriteInv, FinalInv).  A retired assignment alone is no        *)
(* evidence: a failure retires it too, and then the operation is stopped   *)
(* or has moved on to another attempt.  TrackInv keeps purging and         *)
(* restoring apart: only one of the two ever has commands.                 *)
(*                                                                         *)
(* That no Job meets a quarantined tree needs the two fences together:     *)
(* GateInv while a command runs, FenceInv after a crash.                   *)
(***************************************************************************)
EXTENDS ResourceLifecycle, TLAPS

OpSet == [state : States, resume : DOMAIN Steps \cup {None},
          completion : {None, "Restored", "Purged"}, gen : Nat, retry : Nat]
RowSet == [session : 1 .. MaxSession, published : BOOLEAN, retired : BOOLEAN, late : BOOLEAN]
RecSet == [at : {"idle", "ensure", "write"}, seen : OpSet \cup {None}, next : States \cup {None}]
ReceivingSet == [report : ClaimSet, seen : States, stopped : BOOLEAN]
Points == {"fence", "start", "move", "record", "finish", "report"}
RunSet == [cmd : CommandSet, at : Points, root : Nat \ {0}, result : Results]

(* The types of the variables.                                             *)
TypeOp ==
    /\ op \in OpSet
    /\ (op.resume # None) <=> (op.state \in Stopped)
    /\ (op.completion # None) <=> (op.state = "Completed")
TypeOutbox == \A a \in DOMAIN outbox : a \in CommandSet /\ outbox[a] \in RowSet
TypeRec ==
    /\ rec \in RecSet
    /\ rec.at # "idle" => rec.seen \in OpSet /\ rec.seen.state \in DOMAIN Steps
    /\ current \subseteq Volumes \cup {Reconciler}
TypeReceiving == receiving \in [Volumes -> ReceivingSet \cup {None}]
TypeSession == session \in [Volumes -> 1 .. MaxSession] /\ up \in [Volumes -> BOOLEAN]
TypeClaims == claims \in [Volumes -> SUBSET ClaimSet] /\ reports \in [Volumes -> SUBSET ClaimSet]
TypeRun == run \in [Volumes -> RunSet \cup {None}]
TypeJournal == journal \in [Volumes -> JournalSet \cup {None}]
TypeFence == fence \in [Volumes -> Nat \cup {None}]
TypeGate == gate \in [Volumes -> BOOLEAN]
TypeJob == job \in [Volumes -> {"idle", "begun", "running"}]
TypePlace == place \in [Volumes -> [Roots -> SUBSET {"active", "quarantine"}]]
TypeRest == volumes \subseteq Volumes

(* The Agent: what is claimed, running, reported and received.             *)
ClaimInv ==
    \A v \in Volumes : \A c \in claims[v] : c.cmd \in DOMAIN outbox /\ c.cmd.volume = v
RunInv ==
    \A v \in Volumes : run[v] # None =>
        /\ run[v].cmd \in DOMAIN outbox /\ run[v].cmd.volume = v /\ up[v]
        /\ \E c \in claims[v] : c.cmd = run[v].cmd
        /\ run[v].at \in {"finish", "report"} => run[v].result # None
        /\ run[v].at \notin {"finish", "report"} => run[v].result = None
        /\ \A c \in claims[v] : c.cmd = run[v].cmd =>
                c.result = IF run[v].at = "report" THEN run[v].result ELSE None
ReportInv ==
    \A v \in Volumes :
        /\ reports[v] \subseteq claims[v]
        /\ \A r \in reports[v] : r.result # None
        /\ receiving[v] # None =>
            /\ receiving[v].report.cmd \in DOMAIN outbox
            /\ receiving[v].report.result \in {"blocked", "failed"}

(* The two fences: a command works on the trees only while the gate keeps  *)
(* Jobs out, and a tree is in quarantine only behind the durable fence.    *)
GateInv ==
    \A v \in Volumes :
        run[v] # None /\ run[v].at \in {"start", "move", "record"} => gate[v] /\ job[v] = "idle"
FenceInv ==
    \A v \in Volumes : \A r \in Roots :
        "quarantine" \in place[v][r] => fence[v] # None /\ job[v] # "running"

(* What a command that works on the trees has done so far.                 *)
MoveOk(v) ==
    run[v] # None =>
        /\ /\ run[v].at \in {"start", "move", "record"}
           /\ run[v].cmd.action \in {"quarantine", "purge"}
           => fence[v] # None /\ journal[v] \in JournalSet
        /\ run[v].at = "record" => run[v].cmd.action = "quarantine"
        /\ run[v].at \in {"move", "record"} /\ run[v].cmd.action = "quarantine" =>
            journal[v].state = "Quarantining"
        /\ run[v].at = "record" =>
            run[v].root \in Roots /\ place[v][run[v].root] \in {{}, {"quarantine"}}
        /\ run[v].at = "move" /\ run[v].cmd.action = "restore" =>
            /\ journal[v] \in JournalSet /\ journal[v].state = "Restoring"
            /\ \A r \in Roots : r < run[v].root => "quarantine" \notin place[v][r]
        /\ run[v].at = "move" /\ run[v].cmd.action = "purge" =>
            /\ journal[v].state = "Purging" /\ Inventoried(v)
            /\ \A r \in Roots : r < run[v].root => place[v][r] = {}
MoveInv == \A v \in Volumes : MoveOk(v)

(* What the journal of a volume that is not being restored says of each    *)
(* tree is true, and stays true because no Job is admitted.                *)
Kept(v) == journal[v] \in JournalSet /\ journal[v].state \notin {"Restoring", "Restored"}
TreeOk(v) ==
    Kept(v) => \A r \in Roots :
        /\ journal[v].present[r] # "unknown" => fence[v] # None /\ job[v] # "running"
        /\ journal[v].present[r] = "absent" => place[v][r] = {}
        /\ journal[v].present[r] = "present" =>
            place[v][r] = {"quarantine"} \/ (r \in journal[v].purged /\ place[v][r] = {})
TreeInv == \A v \in Volumes : TreeOk(v)

(* The volumes whose purge is complete: no tree is left on them.           *)
PurgedVolumes == {v \in Volumes : journal[v] \in JournalSet /\ journal[v].state = "Purged"}
AllPurged == volumes \subseteq PurgedVolumes
PurgedInv == \A v \in PurgedVolumes : Inventoried(v) /\ \A r \in Roots : place[v][r] = {}

(* What stands for a purged volume.                                        *)
DoneInv ==
    \A v \in Volumes :
        /\ run[v] # None /\ run[v].cmd.action = "purge" /\ run[v].result = "done" =>
            v \in PurgedVolumes
        /\ \A c \in claims[v] : c.cmd.action = "purge" /\ c.result = "done" =>
            v \in PurgedVolumes
Spent(a) == a.volume \in PurgedVolumes \/ a.retry < op.retry \/ op.state \in Stopped
RetiredInv ==
    /\ \A a \in DOMAIN outbox : a.action = "purge" /\ outbox[a].retired => Spent(a)
    /\ \A v \in Volumes :
        receiving[v] # None /\ receiving[v].stopped /\ receiving[v].report.cmd.action = "purge" =>
            Spent(receiving[v].report.cmd)

(* Central: attempts only grow, the reconciler's copy is the operation     *)
(* while it is current, and Finalizing is entered with the evidence.       *)
AttemptInv ==
    /\ \A a \in DOMAIN outbox : a.retry <= op.retry
    /\ rec.at # "idle" => rec.seen.retry <= op.retry
CopyInv == rec.at # "idle" /\ Reconciler \in current => rec.seen = op
WriteInv ==
    rec.at = "write" /\ rec.next = "Finalizing" /\ Reconciler \in current => AllPurged
FinalInv ==
    \/ op.state = "Finalizing" \/ op.resume = "Finalizing" \/ erased
    \/ rec.at # "idle" /\ rec.seen.state = "Finalizing"
    => AllPurged

(* Purging and restoring exclude each other, for the operation and for     *)
(* whatever acts on an earlier copy of it.                                 *)
PurgeSide ==
    \/ op.state \in {"Purging", "Finalizing"} \/ op.resume \in {"Purging", "Finalizing"}
    \/ op.completion = "Purged"
RestoreSide == op.state = "Restoring" \/ op.resume = "Restoring" \/ op.completion = "Restored"
Purges ==
    \/ rec.at # "idle" /\ rec.seen.state \in {"Purging", "Finalizing"}
    \/ \E a \in DOMAIN outbox : a.action = "purge"
    \/ \E v \in Volumes : journal[v] \in JournalSet /\ journal[v].purged # {}
Restores ==
    \/ rec.at # "idle" /\ rec.seen.state = "Restoring"
    \/ \E a \in DOMAIN outbox : a.action = "restore"
    \/ \E v \in Volumes : journal[v] \in JournalSet /\ journal[v].state \in {"Restoring", "Restored"}
TrackInv ==
    (PurgeSide => ~window) /\ (Purges => PurgeSide) /\ (Restores => RestoreSide)

IInv ==
    /\ TypeOp /\ TypeOutbox /\ TypeRec /\ TypeReceiving /\ TypeSession /\ TypeClaims /\ TypeRun
    /\ TypeJournal /\ TypeFence /\ TypeGate /\ TypeJob /\ TypePlace /\ TypeRest
    /\ ClaimInv /\ RunInv /\ ReportInv /\ GateInv /\ FenceInv /\ MoveInv /\ TreeInv /\ PurgedInv
    /\ DoneInv /\ RetiredInv /\ AttemptInv /\ CopyInv /\ WriteInv /\ FinalInv /\ TrackInv

-----------------------------------------------------------------------------
(* The steps of an operation, and the numbering of the roots.              *)
StepNames == {"Requested", "Quiescing", "Quarantining", "Recoverable", "Purging", "Finalizing",
              "Restoring"}
LEMMA StepFacts ==
  /\ DOMAIN Steps = StepNames
  /\ States = StepNames \cup {"Blocked", "Failed", "Completed"}
  /\ Steps["Requested"] = "Quiescing" /\ Steps["Quiescing"] = "Quarantining"
  /\ Steps["Quarantining"] = "Recoverable" /\ Steps["Recoverable"] = "Purging"
  /\ Steps["Purging"] = "Finalizing" /\ Steps["Finalizing"] = "Completed"
  /\ Steps["Restoring"] = "Completed"
  <1>1. DOMAIN Steps = StepNames
    BY DEF Steps, StepNames
  <1>. QED BY <1>1 DEF Steps, States, Stopped, StepNames

LEMMA ActionFacts ==
  /\ DOMAIN ActionOf = {"Quarantining", "Purging", "Restoring"}
  /\ ActionOf["Quarantining"] = "quarantine" /\ ActionOf["Purging"] = "purge"
  /\ ActionOf["Restoring"] = "restore"
  BY DEF ActionOf

LEMMA RootFacts ==
  /\ \A r \in Roots : r \in Nat \ {0} /\ r + 1 \in Nat \ {0}
  /\ \A k \in Nat \ {0} : k \notin Roots => \A r \in Roots : r < k
  BY ConstantsAssumption DEF ConstantsAssumption

(* The updates of the running command, the journal and the trees.          *)
LEMMA ContinueFacts ==
  ASSUME TypeRun, NEW v \in Volumes, run[v] # None, NEW at \in Points, NEW root \in Nat \ {0},
         Continue(v, at, root)
  PROVE  /\ TypeRun'
         /\ run'[v].cmd = run[v].cmd /\ run'[v].at = at /\ run'[v].root = root
         /\ run'[v].result = run[v].result
         /\ \A w \in Volumes : w # v => run'[w] = run[w]
  <1>1. run[v] \in RunSet
    BY DEF TypeRun
  <1>2. [run[v] EXCEPT !.at = at, !.root = root] \in RunSet
    BY <1>1 DEF RunSet
  <1>3. run' = [run EXCEPT ![v] = [run[v] EXCEPT !.at = at, !.root = root]]
    BY <1>1 DEF Continue, TypeRun, RunSet
  <1>. QED BY <1>1, <1>2, <1>3 DEF TypeRun, RunSet

LEMMA FinishFacts ==
  ASSUME TypeRun, NEW v \in Volumes, run[v] # None, NEW result \in Results, Finish(v, result)
  PROVE  /\ TypeRun'
         /\ run'[v].cmd = run[v].cmd /\ run'[v].at = "finish" /\ run'[v].root = run[v].root
         /\ run'[v].result = result
         /\ \A w \in Volumes : w # v => run'[w] = run[w]
  <1>1. run[v] \in RunSet
    BY DEF TypeRun
  <1>2. [run[v] EXCEPT !.at = "finish", !.result = result] \in RunSet
    BY <1>1 DEF RunSet, Points
  <1>3. run' = [run EXCEPT ![v] = [run[v] EXCEPT !.at = "finish", !.result = result]]
    BY <1>1 DEF Finish, TypeRun, RunSet
  <1>. QED BY <1>1, <1>2, <1>3 DEF TypeRun, RunSet

JournalStates == {"Fenced", "Quarantining", "Quarantined", "Restoring", "Restored", "Purging",
                  "Purged"}
LEMMA JournalMoves ==
  ASSUME TypeJournal, NEW v \in Volumes, journal[v] \in JournalSet, NEW s \in JournalStates,
         journal' = [journal EXCEPT ![v].state = s]
  PROVE  /\ TypeJournal' /\ journal'[v] \in JournalSet
         /\ journal'[v].state = s /\ journal'[v].present = journal[v].present
         /\ journal'[v].purged = journal[v].purged
         /\ \A w \in Volumes : w # v => journal'[w] = journal[w]
  <1>1. [journal[v] EXCEPT !.state = s] \in JournalSet
    BY DEF JournalSet, JournalStates
  <1>. QED BY <1>1 DEF TypeJournal, JournalSet

LEMMA JournalProves ==
  ASSUME TypeJournal, NEW v \in Volumes, journal[v] \in JournalSet, NEW r \in Roots,
         journal' = [journal EXCEPT ![v].purged = @ \cup {r}]
  PROVE  /\ TypeJournal' /\ journal'[v] \in JournalSet
         /\ journal'[v].state = journal[v].state /\ journal'[v].present = journal[v].present
         /\ journal'[v].purged = journal[v].purged \cup {r}
         /\ \A w \in Volumes : w # v => journal'[w] = journal[w]
  <1>1. [journal[v] EXCEPT !.purged = @ \cup {r}] \in JournalSet
    BY DEF JournalSet
  <1>. QED BY <1>1 DEF TypeJournal, JournalSet

LEMMA NewJournalFacts ==
  /\ NewJournal \in JournalSet /\ NewJournal.state = "Fenced" /\ NewJournal.purged = {}
  /\ \A r \in Roots : NewJournal.present[r] = "unknown"
  BY DEF NewJournal, JournalSet

LEMMA PutFacts ==
  ASSUME TypePlace, NEW v \in Volumes, NEW r \in Roots,
         NEW where \in SUBSET {"active", "quarantine"}, Put(v, r, where)
  PROVE  /\ TypePlace' /\ place'[v][r] = where
         /\ \A w \in Volumes : \A s \in Roots : (w # v \/ s # r) => place'[w][s] = place[w][s]
  BY DEF TypePlace, Put

(* A row of the outbox is published, expires or is retired.                *)
LEMMA OutboxFacts ==
  ASSUME TypeOutbox, NEW a,
         \/ outbox' = [outbox EXCEPT ![a].late = TRUE]
         \/ outbox' = [outbox EXCEPT ![a].published = TRUE]
         \/ outbox' = [outbox EXCEPT ![a].retired = TRUE]
  PROVE  /\ TypeOutbox' /\ DOMAIN outbox' = DOMAIN outbox
         /\ \A b \in DOMAIN outbox : b # a => outbox'[b] = outbox[b]
         /\ \/ outbox' = [outbox EXCEPT ![a].retired = TRUE]
            \/ \A b \in DOMAIN outbox : outbox'[b].retired = outbox[b].retired
  <1>1. ASSUME NEW row \in RowSet
        PROVE  /\ [row EXCEPT !.late = TRUE] \in RowSet
               /\ [row EXCEPT !.late = TRUE].retired = row.retired
               /\ [row EXCEPT !.published = TRUE] \in RowSet
               /\ [row EXCEPT !.published = TRUE].retired = row.retired
               /\ [row EXCEPT !.retired = TRUE] \in RowSet
    BY DEF RowSet
  <1>2. DOMAIN outbox' = DOMAIN outbox
    OBVIOUS
  <1>3. \A b \in DOMAIN outbox : b # a => outbox'[b] = outbox[b]
    OBVIOUS
  <1>4. CASE a \notin DOMAIN outbox
    BY <1>2, <1>3, <1>4 DEF TypeOutbox
  <1>5. CASE a \in DOMAIN outbox
    <2>1. outbox[a] \in RowSet
      BY <1>5 DEF TypeOutbox
    <2>2. CASE outbox' = [outbox EXCEPT ![a].late = TRUE]
      <3>1. outbox'[a] = [outbox[a] EXCEPT !.late = TRUE]
        BY <1>5, <2>2
      <3>. QED BY <1>1, <1>2, <1>3, <1>5, <2>1, <3>1 DEF TypeOutbox
    <2>3. CASE outbox' = [outbox EXCEPT ![a].published = TRUE]
      <3>1. outbox'[a] = [outbox[a] EXCEPT !.published = TRUE]
        BY <1>5, <2>3
      <3>. QED BY <1>1, <1>2, <1>3, <1>5, <2>1, <3>1 DEF TypeOutbox
    <2>4. CASE outbox' = [outbox EXCEPT ![a].retired = TRUE]
      <3>1. outbox'[a] = [outbox[a] EXCEPT !.retired = TRUE]
        BY <1>5, <2>4
      <3>. QED BY <1>1, <1>2, <1>3, <1>5, <2>1, <2>4, <3>1 DEF TypeOutbox
    <2>. QED BY <2>2, <2>3, <2>4
  <1>. QED BY <1>4, <1>5

(* Users restore and retry.                                                *)
LEMMA OpRestores ==
  ASSUME op \in OpSet, op' = [op EXCEPT !.state = "Restoring", !.gen = @ + 1, !.resume = None]
  PROVE  /\ op' \in OpSet /\ op'.state = "Restoring" /\ op'.resume = None
         /\ op'.completion = op.completion /\ op'.retry = op.retry
  <1>1. /\ op'.state = "Restoring" /\ op'.resume = None /\ op'.gen = op.gen + 1
        /\ op'.completion = op.completion /\ op'.retry = op.retry
    BY DEF OpSet
  <1>2. op' = [state |-> op'.state, resume |-> op'.resume, completion |-> op'.completion,
               gen |-> op'.gen, retry |-> op'.retry]
    BY DEF OpSet
  <1>3. op.gen + 1 \in Nat /\ op.completion \in {None, "Restored", "Purged"} /\ op.retry \in Nat
    BY DEF OpSet
  <1>4. op' \in OpSet
    BY <1>1, <1>2, <1>3, StepFacts DEF OpSet, StepNames
  <1>. QED BY <1>1, <1>4

LEMMA OpRetries ==
  ASSUME op \in OpSet, op.resume \in StepNames,
         op' = [op EXCEPT !.state = op.resume, !.resume = None, !.retry = @ + 1]
  PROVE  /\ op' \in OpSet /\ op'.state = op.resume /\ op'.resume = None
         /\ op'.completion = op.completion /\ op'.retry = op.retry + 1
  <1>1. /\ op'.state = op.resume /\ op'.resume = None /\ op'.gen = op.gen
        /\ op'.completion = op.completion /\ op'.retry = op.retry + 1
    BY DEF OpSet
  <1>2. op' = [state |-> op'.state, resume |-> op'.resume, completion |-> op'.completion,
               gen |-> op'.gen, retry |-> op'.retry]
    BY DEF OpSet
  <1>3. op.gen \in Nat /\ op.completion \in {None, "Restored", "Purged"} /\ op.retry + 1 \in Nat
    BY DEF OpSet
  <1>4. op' \in OpSet
    BY <1>1, <1>2, <1>3, StepFacts DEF OpSet, StepNames
  <1>. QED BY <1>1, <1>4

(* What a step that leaves the trees alone keeps.                          *)
LEMMA PurgedKept ==
  ASSUME PurgedInv, UNCHANGED <<journal, place>>
  PROVE  PurgedInv'
  BY DEF PurgedInv, PurgedVolumes, Inventoried

LEMMA MoveKept ==
  ASSUME MoveInv, UNCHANGED <<run, fence, journal, place>>
  PROVE  MoveInv'
  BY DEF MoveInv, MoveOk, Inventoried

(* The transitions of the operation.                                       *)
LEMMA TransitionFacts ==
  ASSUME TypeOp, NEW next \in States, CanBecome(op.state, next), op' = Transitioned(next)
  PROVE  /\ TypeOp' /\ op'.state = next /\ op'.retry = op.retry
         /\ PurgeSide => PurgeSide'
         /\ RestoreSide => RestoreSide'
         /\ PurgeSide' => PurgeSide \/ next = "Purging"
         /\ op'.state = "Finalizing" \/ op'.resume = "Finalizing" =>
              op.state = "Finalizing" \/ op.resume = "Finalizing" \/ next = "Finalizing"
         /\ op.state \in Stopped => op'.state \in Stopped
  <1>1. /\ op'.state = next /\ op'.retry = op.retry
        /\ op'.resume = IF next \notin Stopped THEN None
                        ELSE IF op.state \in Stopped THEN op.resume ELSE op.state
        /\ op'.completion = IF next # "Completed" THEN op.completion
                            ELSE IF op.state = "Restoring" THEN "Restored" ELSE "Purged"
        /\ op'.gen \in Nat
    BY DEF Transitioned, TypeOp, OpSet
  <1>2. op.state # "Completed" /\ op.completion = None /\ op.state \in States
    BY StepFacts DEF CanBecome, TypeOp, OpSet, StepNames
  <1>3. op' \in OpSet
    <2>1. op'.resume \in DOMAIN Steps \cup {None}
      BY <1>1, <1>2, StepFacts DEF TypeOp, OpSet, StepNames, Stopped
    <2>2. op'.completion \in {None, "Restored", "Purged"}
      BY <1>1, <1>2
    <2>3. op' = [state |-> op'.state, resume |-> op'.resume, completion |-> op'.completion,
                 gen |-> op'.gen, retry |-> op'.retry]
      BY DEF Transitioned, TypeOp, OpSet
    <2>. QED BY <1>1, <2>1, <2>2, <2>3 DEF TypeOp, OpSet
  <1>4. TypeOp'
    BY <1>1, <1>2, <1>3, StepFacts, NoneAssumption
        DEF TypeOp, OpSet, NoneAssumption, Stopped, StepNames
  <1>5. CASE next \in Stopped
    BY <1>1, <1>2, <1>4, <1>5, StepFacts, NoneAssumption
        DEF TypeOp, PurgeSide, RestoreSide, Stopped, StepNames, NoneAssumption
  <1>6. CASE next \notin Stopped
    <2>1. op.state \in StepNames /\ next = Steps[op.state] /\ op.resume = None
      BY <1>2, <1>6, StepFacts DEF CanBecome, TypeOp, Stopped, StepNames
    <2>. QED BY <1>1, <1>2, <1>4, <1>6, <2>1, StepFacts, NoneAssumption
                DEF PurgeSide, RestoreSide, Stopped, StepNames, NoneAssumption
  <1>. QED BY <1>1, <1>4, <1>5, <1>6

(* What a step keeps that leaves the commands and their claims alone, and  *)
(* what the completion of a claim does to the claims.                      *)
LEMMA RunKept ==
  ASSUME RunInv, UNCHANGED <<run, claims, up>>, DOMAIN outbox \subseteq DOMAIN outbox'
  PROVE  RunInv'
  BY DEF RunInv

LEMMA CompletedClaims ==
  ASSUME TypeClaims, NEW v \in Volumes, run[v] \in RunSet, CompleteClaim(v)
  PROVE  /\ claims'[v] \subseteq ClaimSet
         /\ \A d \in claims'[v] : \/ d \in claims[v] /\ d.cmd # run[v].cmd
                                  \/ d.cmd = run[v].cmd /\ d.result = run[v].result
         /\ \A c \in claims[v] : c.cmd # run[v].cmd => c \in claims'[v]
         /\ (\E c \in claims[v] : c.cmd = run[v].cmd) => \E d \in claims'[v] : d.cmd = run[v].cmd
  <1>. DEFINE a == run[v].cmd
              Complete(c) == [c EXCEPT !.result = run[v].result]
  <1>1. ASSUME NEW c \in ClaimSet
        PROVE  /\ Complete(c) \in ClaimSet /\ Complete(c).cmd = c.cmd
               /\ Complete(c).result = run[v].result
    BY DEF ClaimSet, RunSet
  <1>2. /\ claims'[v] = {IF c.cmd = a THEN Complete(c) ELSE c : c \in claims[v]}
        /\ claims[v] \subseteq ClaimSet
    BY DEF CompleteClaim, TypeClaims
  <1>. HIDE DEF Complete
  <1>3. ASSUME NEW d \in claims'[v]
        PROVE  /\ d \in ClaimSet
               /\ (d \in claims[v] /\ d.cmd # a) \/ (d.cmd = a /\ d.result = run[v].result)
    <2>1. PICK c \in claims[v] : d = IF c.cmd = a THEN Complete(c) ELSE c
      BY <1>2
    <2>2. CASE c.cmd = a
      BY <1>1, <1>2, <2>1, <2>2
    <2>3. CASE c.cmd # a
      BY <1>2, <2>1, <2>3
    <2>. QED BY <2>2, <2>3
  <1>4. ASSUME NEW c \in claims[v], c.cmd # a PROVE c \in claims'[v]
    BY <1>2, <1>4
  <1>5. ASSUME NEW c \in claims[v], c.cmd = a PROVE \E d \in claims'[v] : d.cmd = a
    <2>1. Complete(c) \in claims'[v]
      BY <1>2, <1>5
    <2>. QED BY <1>1, <1>2, <1>5, <2>1
  <1>. QED BY <1>3, <1>4, <1>5

(* An operation that purges does not restore.                              *)
LEMMA Exclusive ==
  ASSUME TypeOp, PurgeSide, RestoreSide
  PROVE  FALSE
  BY NoneAssumption, StepFacts
      DEF TypeOp, PurgeSide, RestoreSide, NoneAssumption, Stopped, StepNames

(* A step of one volume that leaves the others alone.                      *)
LEMMA MoveElsewhere ==
  ASSUME MoveInv, NEW v \in Volumes, MoveOk(v)',
         \A w \in Volumes : w # v =>
            /\ run'[w] = run[w] /\ fence'[w] = fence[w]
            /\ journal'[w] = journal[w] /\ place'[w] = place[w]
  PROVE  MoveInv'
  <1>1. ASSUME NEW w \in Volumes, w # v PROVE MoveOk(w)'
    <2>1. MoveOk(w)
      BY DEF MoveInv
    <2>2. /\ run'[w] = run[w] /\ fence'[w] = fence[w]
          /\ journal'[w] = journal[w] /\ place'[w] = place[w]
      BY <1>1
    <2>. QED BY <2>1, <2>2 DEF MoveOk, Inventoried
  <1>. QED BY <1>1 DEF MoveInv

LEMMA MoveSettled ==
  ASSUME NEW v \in Volumes,
         run'[v] = None \/ run'[v].at \in {"fence", "finish", "report"}
  PROVE  MoveOk(v)'
  BY DEF MoveOk

LEMMA TreeElsewhere ==
  ASSUME TreeInv, NEW v \in Volumes, TreeOk(v)',
         \A w \in Volumes : w # v =>
            /\ job'[w] = job[w] /\ fence'[w] = fence[w]
            /\ journal'[w] = journal[w] /\ place'[w] = place[w]
  PROVE  TreeInv'
  <1>1. ASSUME NEW w \in Volumes, w # v PROVE TreeOk(w)'
    <2>1. TreeOk(w)
      BY DEF TreeInv
    <2>2. /\ job'[w] = job[w] /\ fence'[w] = fence[w]
          /\ journal'[w] = journal[w] /\ place'[w] = place[w]
      BY <1>1
    <2>. QED BY <2>1, <2>2 DEF TreeOk, Kept
  <1>. QED BY <1>1 DEF TreeInv

(* A step of the command that runs on a volume: what it does to the run,   *)
(* and what it does to the journal, the fence and the trees.               *)
RunPart(v) ==
  /\ run[v] # None /\ run[v].at \notin {"finish", "report"}
  /\ TypeRun' /\ TypeGate'
  /\ \A w \in Volumes : w # v => run'[w] = run[w] /\ gate'[w] = gate[w]
  /\ run'[v].cmd = run[v].cmd /\ run'[v].at # "report"
  /\ run'[v].at = "finish" => run'[v].result # None
  /\ run'[v].at # "finish" => run'[v].result = None
  /\ run'[v].at \in {"start", "move", "record"} => gate'[v] /\ job[v] = "idle"
  /\ MoveOk(v)'
  /\ run[v].cmd.action = "purge" /\ run'[v].result = "done" => v \in PurgedVolumes'
DiskPart(v) ==
  /\ TypeJournal' /\ TypeFence' /\ TypePlace'
  /\ \A w \in Volumes : w # v =>
        journal'[w] = journal[w] /\ fence'[w] = fence[w] /\ place'[w] = place[w]
  /\ \A r \in Roots : "quarantine" \in place'[v][r] => fence'[v] # None /\ job[v] # "running"
  /\ TreeOk(v)'
  /\ v \in PurgedVolumes => v \in PurgedVolumes'
  /\ v \in PurgedVolumes' => Inventoried(v)' /\ \A r \in Roots : place'[v][r] = {}
  /\ journal'[v] \in JournalSet /\ journal'[v].purged # {} => PurgeSide
  /\ journal'[v] \in JournalSet /\ journal'[v].state \in {"Restoring", "Restored"} => RestoreSide
others == <<volumes, window, op, erased, outbox, current, rec, receiving, up, session, claims,
            reports, job>>

LEMMA ExecutionKeeps ==
  ASSUME IInv, NEW v \in Volumes, RunPart(v), DiskPart(v), UNCHANGED others
  PROVE  IInv'
  <1>. USE DEF IInv
  <1>1. TypeOp' /\ TypeOutbox' /\ TypeRec' /\ TypeReceiving' /\ TypeSession' /\ TypeClaims'
    BY DEF others, TypeOp, TypeOutbox, TypeRec, TypeReceiving, TypeSession, TypeClaims
  <1>2. TypeRun' /\ TypeJournal' /\ TypeFence' /\ TypeGate' /\ TypeJob' /\ TypePlace' /\ TypeRest'
    BY DEF others, RunPart, DiskPart, TypeJob, TypeRest
  <1>3. ClaimInv' /\ ReportInv' /\ AttemptInv' /\ CopyInv'
    BY DEF others, ClaimInv, ReportInv, AttemptInv, CopyInv
  <1>4. RunInv'
    <2>1. ASSUME NEW w \in Volumes, run'[w] # None
          PROVE  /\ run'[w].cmd \in DOMAIN outbox /\ run'[w].cmd.volume = w /\ up[w]
                 /\ \E c \in claims[w] : c.cmd = run'[w].cmd
                 /\ run'[w].at \in {"finish", "report"} => run'[w].result # None
                 /\ run'[w].at \notin {"finish", "report"} => run'[w].result = None
                 /\ \A c \in claims[w] : c.cmd = run'[w].cmd =>
                      c.result = IF run'[w].at = "report" THEN run'[w].result ELSE None
      BY <2>1 DEF RunPart, RunInv
    <2>. QED BY <2>1 DEF RunInv, others
  <1>5. GateInv'
    BY DEF others, RunPart, GateInv
  <1>6. FenceInv'
    BY DEF others, DiskPart, FenceInv
  <1>7. MoveInv'
    BY MoveElsewhere DEF RunPart, DiskPart
  <1>8. TreeInv'
    BY TreeElsewhere DEF DiskPart, others
  <1>9. PurgedVolumes \subseteq PurgedVolumes' /\ PurgedVolumes' \subseteq PurgedVolumes \cup {v}
    BY DEF DiskPart, PurgedVolumes
  <1>10. PurgedInv'
    <2>1. ASSUME NEW w \in PurgedVolumes' PROVE Inventoried(w)' /\ \A r \in Roots : place'[w][r] = {}
      <3>1. CASE w = v
        BY <3>1 DEF DiskPart
      <3>2. CASE w # v
        BY <1>9, <3>2 DEF DiskPart, PurgedInv, PurgedVolumes, Inventoried
      <3>. QED BY <3>1, <3>2
    <2>. QED BY <2>1 DEF PurgedInv
  <1>11. DoneInv'
    BY <1>9 DEF others, RunPart, DoneInv
  <1>12. RetiredInv'
    BY <1>9 DEF others, RetiredInv, Spent
  <1>13. WriteInv' /\ FinalInv'
    BY <1>9 DEF others, WriteInv, FinalInv, AllPurged
  <1>14. TrackInv'
    <2>1. PurgeSide' = PurgeSide /\ RestoreSide' = RestoreSide
      BY DEF others, PurgeSide, RestoreSide
    <2>2. Purges' => Purges \/ PurgeSide
      BY DEF others, DiskPart, Purges
    <2>3. Restores' => Restores \/ RestoreSide
      BY DEF others, DiskPart, Restores
    <2>. QED BY <2>1, <2>2, <2>3 DEF TrackInv, others
  <1>. QED BY <1>1, <1>2, <1>3, <1>4, <1>5, <1>6, <1>7, <1>8, <1>10, <1>11, <1>12, <1>13,
      <1>14

(* What is known of a running command and of its volume.                   *)
LEMMA RunFacts ==
  ASSUME IInv, NEW v \in Volumes, run[v] # None
  PROVE  /\ TypeRun /\ TypeJournal /\ TypePlace /\ run[v] \in RunSet
         /\ run[v].at \notin {"finish", "report"} => run[v].result = None
         /\ run[v].at \in {"start", "move", "record"} => gate[v] /\ job[v] = "idle"
         /\ run[v].cmd.action = "purge" => PurgeSide /\ ~RestoreSide
         /\ run[v].cmd.action = "restore" => RestoreSide /\ ~PurgeSide
         /\ MoveOk(v) /\ TreeOk(v)
         /\ fence[v] \in Nat \cup {None} /\ journal[v] \in JournalSet \cup {None}
         /\ run[v].cmd.gen \in Nat /\ run[v].cmd.action \in {"quarantine", "purge", "restore"}
         /\ \A r \in Roots : place[v][r] \in SUBSET {"active", "quarantine"}
  <1>1. TypeRun /\ TypeJournal /\ TypePlace /\ TypeFence /\ run[v] \in RunSet
    BY DEF IInv, TypeRun
  <1>2. run[v].at \notin {"finish", "report"} => run[v].result = None
    BY DEF IInv, RunInv
  <1>3. run[v].at \in {"start", "move", "record"} => gate[v] /\ job[v] = "idle"
    BY DEF IInv, GateInv
  <1>4. run[v].cmd \in DOMAIN outbox
    BY DEF IInv, RunInv
  <1>5. run[v].cmd.action = "purge" => PurgeSide
    BY <1>4 DEF IInv, TrackInv, Purges
  <1>6. run[v].cmd.action = "restore" => RestoreSide
    BY <1>4 DEF IInv, TrackInv, Restores
  <1>7. TypeOp
    BY DEF IInv
  <1>8. ~(PurgeSide /\ RestoreSide)
    BY <1>7, Exclusive
  <1>9. MoveOk(v) /\ TreeOk(v)
    BY DEF IInv, MoveInv, TreeInv
  <1>10. fence[v] \in Nat \cup {None} /\ journal[v] \in JournalSet \cup {None}
         /\ \A r \in Roots : place[v][r] \in SUBSET {"active", "quarantine"}
    BY <1>1 DEF TypeFence, TypeJournal, TypePlace
  <1>11. run[v].cmd.gen \in Nat /\ run[v].cmd.action \in {"quarantine", "purge", "restore"}
    BY <1>1 DEF RunSet, CommandSet
  <1>. QED BY <1>1, <1>2, <1>3, <1>5, <1>6, <1>8, <1>9, <1>10, <1>11

LEMMA JournalFacts ==
  ASSUME IInv, NEW v \in Volumes, journal[v] \in JournalSet
  PROVE  /\ journal[v].purged # {} => PurgeSide
         /\ journal[v].state \in {"Restoring", "Restored"} => RestoreSide
         /\ journal[v].state \in JournalStates /\ journal[v].purged \subseteq Roots
         /\ \A r \in Roots : journal[v].present[r] \in {"unknown", "present", "absent"}
  BY DEF IInv, TrackInv, Purges, Restores, JournalSet, JournalStates

(* A step that leaves the disk alone.                                      *)
LEMMA DiskSame ==
  ASSUME IInv, NEW v \in Volumes, UNCHANGED <<job, journal, fence, place>>
  PROVE  DiskPart(v)
  <1>1. TypeJournal' /\ TypeFence' /\ TypePlace'
    BY DEF IInv, TypeJournal, TypeFence, TypePlace
  <1>2. \A r \in Roots : "quarantine" \in place'[v][r] => fence'[v] # None /\ job[v] # "running"
    BY DEF IInv, FenceInv
  <1>3. TreeOk(v)'
    BY DEF IInv, TreeInv, TreeOk, Kept
  <1>4. PurgedVolumes' = PurgedVolumes
    BY DEF PurgedVolumes
  <1>5. v \in PurgedVolumes => Inventoried(v)' /\ \A r \in Roots : place'[v][r] = {}
    BY DEF IInv, PurgedInv, Inventoried
  <1>6. /\ journal'[v] \in JournalSet /\ journal'[v].purged # {} => PurgeSide
        /\ journal'[v] \in JournalSet /\ journal'[v].state \in {"Restoring", "Restored"} =>
             RestoreSide
    BY JournalFacts
  <1>. QED BY <1>1, <1>2, <1>3, <1>4, <1>5, <1>6 DEF DiskPart

(* The command ends with a result, whatever it is.                         *)
LEMMA FinishPart ==
  ASSUME IInv, NEW v \in Volumes, run[v] # None, run[v].at \notin {"finish", "report"},
         NEW result \in {"done", "blocked", "failed"}, Finish(v, result),
         TypeGate', \A w \in Volumes : w # v => gate'[w] = gate[w],
         run[v].cmd.action = "purge" /\ result = "done" => v \in PurgedVolumes'
  PROVE  RunPart(v)
  <1>1. result \in Results /\ result # None
    BY NoneAssumption DEF Results, NoneAssumption
  <1>2. /\ TypeRun'
        /\ run'[v].cmd = run[v].cmd /\ run'[v].at = "finish" /\ run'[v].result = result
        /\ \A w \in Volumes : w # v => run'[w] = run[w]
    BY <1>1, RunFacts, FinishFacts
  <1>3. MoveOk(v)'
    BY <1>2, MoveSettled
  <1>. QED BY <1>1, <1>2, <1>3 DEF RunPart

(* It goes on to the trees or to the next one.                             *)
LEMMA ContinuePart ==
  ASSUME IInv, NEW v \in Volumes, run[v] # None, run[v].at \notin {"finish", "report"},
         NEW at \in {"start", "move", "record"}, NEW root \in Nat \ {0}, Continue(v, at, root),
         TypeGate', gate'[v], job[v] = "idle",
         \A w \in Volumes : w # v => gate'[w] = gate[w]
  PROVE  /\ run'[v].cmd = run[v].cmd /\ run'[v].at = at /\ run'[v].root = root
         /\ MoveOk(v)' => RunPart(v)
  <1>1. /\ TypeRun'
        /\ run'[v].cmd = run[v].cmd /\ run'[v].at = at /\ run'[v].root = root
        /\ run'[v].result = run[v].result
        /\ \A w \in Volumes : w # v => run'[w] = run[w]
    BY RunFacts, ContinueFacts DEF Points
  <1>2. run'[v].result = None
    BY <1>1, RunFacts
  <1>3. None # "done"
    BY NoneAssumption DEF NoneAssumption
  <1>. QED BY <1>1, <1>2, <1>3 DEF RunPart

(* The journal enters another state.                                       *)
LEMMA DiskMoves ==
  ASSUME IInv, NEW v \in Volumes, journal[v] \in JournalSet, NEW s \in JournalStates,
         journal' = [journal EXCEPT ![v].state = s], UNCHANGED <<job, fence, place>>,
         journal[v].state \in {"Restoring", "Restored"} => s \in {"Restoring", "Restored"},
         journal[v].state = "Purged" => s = "Purged",
         s = "Purged" => Inventoried(v) /\ \A r \in Roots : place[v][r] = {},
         s \in {"Restoring", "Restored"} => RestoreSide
  PROVE  DiskPart(v)
  <1>1. /\ TypeJournal' /\ journal'[v] \in JournalSet
        /\ journal'[v].state = s /\ journal'[v].present = journal[v].present
        /\ journal'[v].purged = journal[v].purged
        /\ \A w \in Volumes : w # v => journal'[w] = journal[w]
    BY JournalMoves DEF IInv
  <1>2. TypeFence' /\ TypePlace'
    BY DEF IInv, TypeFence, TypePlace
  <1>3. \A r \in Roots : "quarantine" \in place'[v][r] => fence'[v] # None /\ job[v] # "running"
    BY DEF IInv, FenceInv
  <1>4. TreeOk(v)'
    BY <1>1 DEF IInv, TreeInv, TreeOk, Kept
  <1>5. /\ v \in PurgedVolumes => v \in PurgedVolumes'
        /\ v \in PurgedVolumes' => s = "Purged"
    BY <1>1 DEF PurgedVolumes
  <1>6. s = "Purged" => Inventoried(v)' /\ \A r \in Roots : place'[v][r] = {}
    BY <1>1 DEF Inventoried
  <1>7. /\ journal'[v].purged # {} => PurgeSide
        /\ journal'[v].state \in {"Restoring", "Restored"} => RestoreSide
    BY <1>1, JournalFacts
  <1>. QED BY <1>1, <1>2, <1>3, <1>4, <1>5, <1>6, <1>7 DEF DiskPart

(* The command fences the Jobs.                                            *)
LEMMA FenceStep ==
  ASSUME IInv, NEW v \in Volumes, FenceJobs(v)
  PROVE  IInv'
  <1>1. /\ run[v] # None /\ run[v].at \notin {"finish", "report"}
        /\ UNCHANGED others /\ UNCHANGED place
    BY DEF FenceJobs, others, central
  <1>2. TypeGate' /\ gate'[v] /\ \A w \in Volumes : w # v => gate'[w] = gate[w]
    BY DEF FenceJobs, IInv, TypeGate
  <1>3. job' = job
    BY <1>1 DEF others
  <1>4. CASE run[v].cmd.action = "restore"
    <2>1. DiskPart(v)
      BY <1>1, <1>3, <1>4, DiskSame DEF FenceJobs
    <2>2. CASE Finish(v, "blocked")
      <3>1. RunPart(v)
        BY <1>1, <1>2, <1>4, <2>2, FinishPart
      <3>. QED BY <1>1, <2>1, <3>1, ExecutionKeeps
    <2>3. CASE job[v] = "idle" /\ Continue(v, "start", 1)
      <3>1. /\ run'[v].cmd = run[v].cmd /\ run'[v].at = "start"
            /\ MoveOk(v)' => RunPart(v)
        BY <1>1, <1>2, <2>3, ContinuePart
      <3>2. MoveOk(v)'
        BY <1>4, <3>1 DEF MoveOk
      <3>. QED BY <1>1, <2>1, <3>1, <3>2, ExecutionKeeps
    <2>. QED BY <1>4, <2>2, <2>3 DEF FenceJobs
  <1>5. CASE run[v].cmd.action # "restore"
    <2>1. /\ journal' = [journal EXCEPT ![v] = IF @ = None THEN NewJournal ELSE @]
          /\ fence' = [fence EXCEPT ![v] = IF @ = None THEN run[v].cmd.gen ELSE @]
      BY <1>5 DEF FenceJobs
    <2>2. /\ TypeJournal' /\ journal'[v] \in JournalSet
          /\ journal'[v] = journal[v] \/ (journal[v] = None /\ journal'[v] = NewJournal)
          /\ \A w \in Volumes : w # v => journal'[w] = journal[w]
      BY <2>1, NewJournalFacts DEF IInv, TypeJournal
    <2>3. run[v].cmd.gen \in Nat /\ run[v].cmd.gen # None
      BY <1>1, RunFacts, NoneAssumption DEF NoneAssumption
    <2>4. /\ TypeFence' /\ fence'[v] # None
          /\ \A w \in Volumes : w # v => fence'[w] = fence[w]
      BY <2>1, <2>3 DEF IInv, TypeFence
    <2>5. DiskPart(v)
      <3>1. TypePlace' /\ \A w \in Volumes : place'[w] = place[w]
        BY <1>1 DEF IInv, TypePlace
      <3>2. \A r \in Roots : "quarantine" \in place'[v][r] => fence'[v] # None /\ job[v] # "running"
        BY <1>1, <2>4 DEF IInv, FenceInv
      <3>3. CASE journal'[v] = journal[v]
        <4>1. TreeOk(v)'
          BY <1>1, <1>3, <2>4, <3>3 DEF IInv, TreeInv, TreeOk, Kept
        <4>2. /\ v \in PurgedVolumes => v \in PurgedVolumes'
              /\ v \in PurgedVolumes' => v \in PurgedVolumes
          BY <3>3 DEF PurgedVolumes
        <4>3. v \in PurgedVolumes => Inventoried(v)' /\ \A r \in Roots : place'[v][r] = {}
          BY <1>1, <3>3 DEF IInv, PurgedInv, Inventoried
        <4>4. /\ journal'[v] \in JournalSet /\ journal'[v].purged # {} => PurgeSide
              /\ journal'[v] \in JournalSet /\ journal'[v].state \in {"Restoring", "Restored"} =>
                   RestoreSide
          BY <3>3, JournalFacts
        <4>. QED BY <2>2, <2>4, <3>1, <3>2, <4>1, <4>2, <4>3, <4>4 DEF DiskPart
      <3>4. CASE journal[v] = None /\ journal'[v] = NewJournal
        <4>1. /\ journal'[v].state = "Fenced" /\ journal'[v].purged = {}
              /\ \A r \in Roots : journal'[v].present[r] = "unknown"
          BY <3>4, NewJournalFacts
        <4>2. TreeOk(v)'
          BY <4>1 DEF TreeOk
        <4>3. v \notin PurgedVolumes'
          BY <4>1 DEF PurgedVolumes
        <4>4. v \notin PurgedVolumes
          BY <3>4, NoneAssumption DEF PurgedVolumes, NoneAssumption
        <4>. QED BY <2>2, <2>4, <3>1, <3>2, <4>1, <4>2, <4>3, <4>4 DEF DiskPart
      <3>. QED BY <2>2, <3>3, <3>4
    <2>6. CASE Finish(v, "failed")
      <3>1. RunPart(v)
        BY <1>1, <1>2, <2>6, FinishPart
      <3>. QED BY <1>1, <2>5, <3>1, ExecutionKeeps
    <2>7. CASE Finish(v, "blocked")
      <3>1. RunPart(v)
        BY <1>1, <1>2, <2>7, FinishPart
      <3>. QED BY <1>1, <2>5, <3>1, ExecutionKeeps
    <2>8. CASE job[v] = "idle" /\ Continue(v, "start", 1)
      <3>1. /\ run'[v].cmd = run[v].cmd /\ run'[v].at = "start"
            /\ MoveOk(v)' => RunPart(v)
        BY <1>1, <1>2, <2>8, ContinuePart
      <3>2. MoveOk(v)'
        BY <2>2, <2>4, <3>1 DEF MoveOk
      <3>. QED BY <1>1, <2>5, <3>1, <3>2, ExecutionKeeps
    <2>. QED BY <1>5, <2>6, <2>7, <2>8 DEF FenceJobs
  <1>. QED BY <1>4, <1>5

LEMMA WorkFacts ==
  ASSUME IInv, NEW v \in Volumes, run[v] # None, run[v].at \in {"start", "move", "record"},
         UNCHANGED gate
  PROVE  /\ run[v].at \notin {"finish", "report"}
         /\ TypeGate' /\ gate'[v] /\ job[v] = "idle" /\ \A w \in Volumes : gate'[w] = gate[w]
         /\ run[v].root \in Nat \ {0}
  BY RunFacts DEF IInv, TypeGate, RunSet

(* Each action begins.                                                     *)
LEMMA QuarantineBeginsStep ==
  ASSUME IInv, NEW v \in Volumes, QuarantineBegins(v)
  PROVE  IInv'
  <1>1. /\ run[v] # None /\ run[v].at = "start" /\ run[v].cmd.action = "quarantine"
        /\ UNCHANGED others /\ UNCHANGED <<job, gate, fence, place>>
    BY DEF QuarantineBegins, Begun, others, central, jobs
  <1>2. journal[v] \in JournalSet /\ fence[v] # None
    BY <1>1, RunFacts DEF MoveOk
  <1>3. CASE UNCHANGED journal /\ (Finish(v, "done") \/ Finish(v, "blocked"))
    <2>1. DiskPart(v)
      BY <1>1, <1>3, DiskSame
    <2>2. RunPart(v)
      BY <1>1, <1>3, WorkFacts, FinishPart
    <2>. QED BY <1>1, <2>1, <2>2, ExecutionKeeps
  <1>4. CASE /\ journal[v].state \in {"Fenced", "Quarantining"}
             /\ journal' = [journal EXCEPT ![v].state = "Quarantining"]
             /\ Continue(v, "move", 1)
    <2>1. DiskPart(v)
      BY <1>1, <1>2, <1>4, DiskMoves DEF JournalStates
    <2>2. journal'[v] \in JournalSet /\ journal'[v].state = "Quarantining"
      BY <1>2, <1>4, JournalMoves DEF IInv, JournalStates
    <2>3. /\ run'[v].cmd = run[v].cmd /\ run'[v].at = "move"
          /\ MoveOk(v)' => RunPart(v)
      BY <1>1, <1>4, WorkFacts, ContinuePart
    <2>4. MoveOk(v)'
      BY <1>1, <1>2, <2>2, <2>3 DEF MoveOk
    <2>. QED BY <1>1, <2>1, <2>3, <2>4, ExecutionKeeps
  <1>. QED BY <1>3, <1>4 DEF QuarantineBegins

LEMMA RestoreBeginsStep ==
  ASSUME IInv, NEW v \in Volumes, RestoreBegins(v)
  PROVE  IInv'
  <1>1. /\ run[v] # None /\ run[v].at = "start" /\ run[v].cmd.action = "restore"
        /\ UNCHANGED others /\ UNCHANGED <<job, gate, fence, place>>
    BY DEF RestoreBegins, Begun, others, central, jobs
  <1>2. CASE UNCHANGED journal /\ (Finish(v, "done") \/ Finish(v, "blocked"))
    <2>1. DiskPart(v)
      BY <1>1, <1>2, DiskSame
    <2>2. RunPart(v)
      BY <1>1, <1>2, WorkFacts, FinishPart
    <2>. QED BY <1>1, <2>1, <2>2, ExecutionKeeps
  <1>3. CASE /\ journal[v] # None
             /\ journal[v].state \notin {"Restored", "Purging", "Purged"}
             /\ journal' = [journal EXCEPT ![v].state = "Restoring"]
             /\ Continue(v, "move", 1)
    <2>1. journal[v] \in JournalSet /\ RestoreSide
      BY <1>1, <1>3, RunFacts
    <2>2. DiskPart(v)
      BY <1>1, <1>3, <2>1, DiskMoves DEF JournalStates
    <2>3. journal'[v] \in JournalSet /\ journal'[v].state = "Restoring"
      BY <1>3, <2>1, JournalMoves DEF IInv, JournalStates
    <2>4. /\ run'[v].cmd = run[v].cmd /\ run'[v].at = "move" /\ run'[v].root = 1
          /\ MoveOk(v)' => RunPart(v)
      BY <1>1, <1>3, WorkFacts, ContinuePart
    <2>5. MoveOk(v)'
      BY <1>1, <2>3, <2>4, RootFacts DEF MoveOk
    <2>. QED BY <1>1, <2>2, <2>4, <2>5, ExecutionKeeps
  <1>. QED BY <1>2, <1>3 DEF RestoreBegins

LEMMA PurgeBeginsStep ==
  ASSUME IInv, NEW v \in Volumes, PurgeBegins(v)
  PROVE  IInv'
  <1>1. /\ run[v] # None /\ run[v].at = "start" /\ run[v].cmd.action = "purge"
        /\ UNCHANGED others /\ UNCHANGED <<job, gate, fence, place>>
    BY DEF PurgeBegins, Begun, others, central, jobs
  <1>2. journal[v] \in JournalSet /\ fence[v] # None /\ ~RestoreSide
    BY <1>1, RunFacts DEF MoveOk
  <1>3. CASE UNCHANGED journal /\ journal[v].state = "Purged" /\ Finish(v, "done")
    <2>1. DiskPart(v)
      BY <1>1, <1>3, DiskSame
    <2>2. v \in PurgedVolumes'
      BY <1>2, <1>3 DEF PurgedVolumes
    <2>3. RunPart(v)
      BY <1>1, <1>3, <2>2, WorkFacts, FinishPart
    <2>. QED BY <1>1, <2>1, <2>3, ExecutionKeeps
  <1>4. CASE UNCHANGED journal /\ Finish(v, "blocked")
    <2>1. DiskPart(v)
      BY <1>1, <1>4, DiskSame
    <2>2. RunPart(v)
      BY <1>1, <1>4, WorkFacts, FinishPart
    <2>. QED BY <1>1, <2>1, <2>2, ExecutionKeeps
  <1>5. CASE /\ journal[v].state \notin {"Restored", "Purged"} /\ Inventoried(v)
             /\ journal' = [journal EXCEPT ![v].state = "Purging"]
             /\ Continue(v, "move", 1)
    <2>1. journal[v].state \notin {"Restoring", "Restored"}
      BY <1>2, JournalFacts
    <2>2. DiskPart(v)
      BY <1>1, <1>2, <1>5, <2>1, DiskMoves DEF JournalStates
    <2>3. /\ journal'[v] \in JournalSet /\ journal'[v].state = "Purging"
          /\ journal'[v].present = journal[v].present
      BY <1>2, <1>5, JournalMoves DEF IInv, JournalStates
    <2>4. Inventoried(v)'
      BY <1>5, <2>3 DEF Inventoried
    <2>5. /\ run'[v].cmd = run[v].cmd /\ run'[v].at = "move" /\ run'[v].root = 1
          /\ MoveOk(v)' => RunPart(v)
      BY <1>1, <1>5, WorkFacts, ContinuePart
    <2>6. MoveOk(v)'
      BY <1>1, <1>2, <2>3, <2>4, <2>5, RootFacts DEF MoveOk
    <2>. QED BY <1>1, <2>2, <2>5, <2>6, ExecutionKeeps
  <1>. QED BY <1>3, <1>4, <1>5 DEF PurgeBegins

(* A tree is moved or destroyed.                                           *)
LEMMA DiskPuts ==
  ASSUME IInv, NEW v \in Volumes, NEW r \in Roots, NEW where \in SUBSET {"active", "quarantine"},
         Put(v, r, where), UNCHANGED <<job, fence, journal>>,
         journal[v] \in JournalSet, journal[v].state # "Purged", job[v] = "idle",
         "quarantine" \in where => fence[v] # None,
         Kept(v) =>
            /\ journal[v].present[r] = "absent" => where = {}
            /\ journal[v].present[r] = "present" =>
                 where = {"quarantine"} \/ (r \in journal[v].purged /\ where = {})
  PROVE  /\ DiskPart(v) /\ place'[v][r] = where
         /\ \A s \in Roots : s # r => place'[v][s] = place[v][s]
  <1>1. /\ TypePlace' /\ place'[v][r] = where
        /\ \A s \in Roots : s # r => place'[v][s] = place[v][s]
        /\ \A w \in Volumes : w # v => place'[w] = place[w]
    BY DEF IInv, TypePlace, Put
  <1>2. TypeFence' /\ TypeJournal'
    BY DEF IInv, TypeFence, TypeJournal
  <1>3. \A s \in Roots : "quarantine" \in place'[v][s] => fence'[v] # None /\ job[v] # "running"
    BY <1>1 DEF IInv, FenceInv
  <1>4. TreeOk(v)'
    BY <1>1 DEF IInv, TreeInv, TreeOk, Kept
  <1>5. v \notin PurgedVolumes /\ v \notin PurgedVolumes'
    BY DEF PurgedVolumes
  <1>6. /\ journal'[v].purged # {} => PurgeSide
        /\ journal'[v].state \in {"Restoring", "Restored"} => RestoreSide
    BY JournalFacts
  <1>. QED BY <1>1, <1>2, <1>3, <1>4, <1>5, <1>6 DEF DiskPart

LEMMA QuarantineRootStep ==
  ASSUME IInv, NEW v \in Volumes, QuarantineRoot(v)
  PROVE  IInv'
  <1>. DEFINE r == run[v].root
              was == journal[v].present[r]
              there == place[v][r]
  <1>1. /\ run[v] # None /\ run[v].at = "move" /\ run[v].cmd.action = "quarantine" /\ r \in Roots
        /\ UNCHANGED others /\ UNCHANGED <<job, gate, fence, journal>>
    BY DEF QuarantineRoot, Moving, others, central, jobs
  <1>2. /\ journal[v] \in JournalSet /\ fence[v] # None /\ journal[v].state = "Quarantining"
        /\ TreeOk(v) /\ r \in Nat \ {0}
    BY <1>1, RunFacts, RootFacts DEF MoveOk
  <1>3. CASE Finish(v, "blocked") /\ UNCHANGED place
    <2>1. DiskPart(v)
      BY <1>1, <1>3, DiskSame
    <2>2. RunPart(v)
      BY <1>1, <1>3, WorkFacts, FinishPart
    <2>. QED BY <1>1, <2>1, <2>2, ExecutionKeeps
  <1>4. CASE /\ there = {"active"} /\ was # "absent"
             /\ Put(v, r, {"quarantine"}) /\ Continue(v, "record", r)
    <2>1. was # "present"
      BY <1>1, <1>2, <1>4 DEF TreeOk, Kept
    <2>2. job[v] = "idle"
      BY <1>1, WorkFacts
    <2>3. DiskPart(v) /\ place'[v][r] = {"quarantine"}
      BY <1>1, <1>2, <1>4, <2>1, <2>2, DiskPuts
    <2>4. /\ run'[v].cmd = run[v].cmd /\ run'[v].at = "record" /\ run'[v].root = r
          /\ MoveOk(v)' => RunPart(v)
      BY <1>1, <1>2, <1>4, WorkFacts, ContinuePart
    <2>5. MoveOk(v)'
      BY <1>1, <1>2, <2>3, <2>4 DEF MoveOk
    <2>. QED BY <1>1, <2>3, <2>4, <2>5, ExecutionKeeps
  <1>5. CASE there \in {{}, {"quarantine"}} /\ Continue(v, "record", r) /\ UNCHANGED place
    <2>1. DiskPart(v)
      BY <1>1, <1>5, DiskSame
    <2>2. /\ run'[v].cmd = run[v].cmd /\ run'[v].at = "record" /\ run'[v].root = r
          /\ MoveOk(v)' => RunPart(v)
      BY <1>1, <1>2, <1>5, WorkFacts, ContinuePart
    <2>3. MoveOk(v)'
      BY <1>1, <1>2, <1>5, <2>2 DEF MoveOk
    <2>. QED BY <1>1, <2>1, <2>2, <2>3, ExecutionKeeps
  <1>. QED BY <1>3, <1>4, <1>5 DEF QuarantineRoot

LEMMA QuarantineRecordsStep ==
  ASSUME IInv, NEW v \in Volumes, QuarantineRecords(v)
  PROVE  IInv'
  <1>. DEFINE r == run[v].root
              p == IF place[v][r] = {} THEN "absent" ELSE "present"
  <1>1. /\ run[v] # None /\ run[v].at = "record" /\ run[v].cmd.action = "quarantine"
        /\ Continue(v, "move", r + 1)
        /\ UNCHANGED others /\ UNCHANGED <<job, gate, fence, place>>
    BY DEF QuarantineRecords, others, central, jobs
  <1>2. /\ journal[v] \in JournalSet /\ fence[v] # None /\ journal[v].state = "Quarantining"
        /\ TreeOk(v) /\ r \in Roots /\ place[v][r] \in {{}, {"quarantine"}} /\ job[v] = "idle"
        /\ r + 1 \in Nat \ {0}
    BY <1>1, RunFacts, RootFacts DEF MoveOk
  <1>3. journal' = [journal EXCEPT ![v].present[r] = p]
    BY <1>2 DEF QuarantineRecords, IInv, TypeJournal, JournalSet
  <1>4. p \in {"present", "absent"}
    OBVIOUS
  <1>. HIDE DEF p
  <1>5. /\ TypeJournal' /\ journal'[v] \in JournalSet
        /\ journal'[v].state = "Quarantining" /\ journal'[v].present[r] = p
        /\ \A q \in Roots : q # r => journal'[v].present[q] = journal[v].present[q]
        /\ journal'[v].purged = journal[v].purged
        /\ \A w \in Volumes : w # v => journal'[w] = journal[w]
    <2>1. [journal[v] EXCEPT !.present[r] = p] \in JournalSet
      BY <1>2, <1>4 DEF JournalSet
    <2>. QED BY <1>2, <1>3, <2>1 DEF IInv, TypeJournal, JournalSet
  <1>6. DiskPart(v)
    <2>1. TypeFence' /\ TypePlace'
      BY <1>1 DEF IInv, TypeFence, TypePlace
    <2>2. TreeOk(v)'
      BY <1>1, <1>2, <1>5 DEF TreeOk, Kept, p
    <2>3. v \notin PurgedVolumes /\ v \notin PurgedVolumes'
      BY <1>2, <1>5 DEF PurgedVolumes
    <2>4. /\ journal'[v].purged # {} => PurgeSide
          /\ journal'[v].state \notin {"Restoring", "Restored"}
      BY <1>2, <1>5, JournalFacts
    <2>. QED BY <1>1, <1>2, <1>5, <2>1, <2>2, <2>3, <2>4 DEF DiskPart
  <1>7. /\ run'[v].cmd = run[v].cmd /\ run'[v].at = "move"
        /\ MoveOk(v)' => RunPart(v)
    BY <1>1, <1>2, WorkFacts, ContinuePart
  <1>8. MoveOk(v)'
    BY <1>1, <1>2, <1>5, <1>7 DEF MoveOk
  <1>. QED BY <1>1, <1>6, <1>7, <1>8, ExecutionKeeps

LEMMA QuarantineEndsStep ==
  ASSUME IInv, NEW v \in Volumes, QuarantineEnds(v)
  PROVE  IInv'
  <1>1. /\ run[v] # None /\ run[v].at = "move" /\ run[v].cmd.action = "quarantine"
        /\ Finish(v, "done")
        /\ journal' = [journal EXCEPT ![v].state = "Quarantined"]
        /\ UNCHANGED others /\ UNCHANGED <<job, gate, fence, place>>
    BY DEF QuarantineEnds, others, central, jobs
  <1>2. journal[v] \in JournalSet /\ journal[v].state = "Quarantining"
    BY <1>1, RunFacts DEF MoveOk
  <1>3. DiskPart(v)
    BY <1>1, <1>2, DiskMoves DEF JournalStates
  <1>4. RunPart(v)
    BY <1>1, WorkFacts, FinishPart
  <1>. QED BY <1>1, <1>3, <1>4, ExecutionKeeps

LEMMA RestoreRootStep ==
  ASSUME IInv, NEW v \in Volumes, RestoreRoot(v)
  PROVE  IInv'
  <1>. DEFINE r == run[v].root
              there == place[v][r]
  <1>1. /\ run[v] # None /\ run[v].at = "move" /\ run[v].cmd.action = "restore" /\ r \in Roots
        /\ UNCHANGED others /\ UNCHANGED <<job, gate, fence, journal>>
    BY DEF RestoreRoot, Moving, others, central, jobs
  <1>2. /\ journal[v] \in JournalSet /\ journal[v].state = "Restoring" /\ r + 1 \in Nat \ {0}
        /\ \A q \in Roots : q < r => "quarantine" \notin place[v][q]
    BY <1>1, RunFacts, RootFacts DEF MoveOk
  <1>3. \A q \in Roots : q < r + 1 => q < r \/ q = r
    BY <1>1, RootFacts
  <1>4. CASE Finish(v, "blocked") /\ UNCHANGED place
    <2>1. DiskPart(v)
      BY <1>1, <1>4, DiskSame
    <2>2. RunPart(v)
      BY <1>1, <1>4, WorkFacts, FinishPart
    <2>. QED BY <1>1, <2>1, <2>2, ExecutionKeeps
  <1>5. CASE Continue(v, "move", r + 1)
    <2>1. /\ run'[v].cmd = run[v].cmd /\ run'[v].at = "move" /\ run'[v].root = r + 1
          /\ MoveOk(v)' => RunPart(v)
      BY <1>1, <1>2, <1>5, WorkFacts, ContinuePart
    <2>2. CASE Put(v, r, {"active"})
      <3>1. job[v] = "idle" /\ ~Kept(v)
        BY <1>1, <1>2, WorkFacts DEF Kept
      <3>2. /\ DiskPart(v) /\ place'[v][r] = {"active"}
            /\ \A q \in Roots : q # r => place'[v][q] = place[v][q]
        BY <1>1, <1>2, <2>2, <3>1, DiskPuts
      <3>3. \A q \in Roots : q < r + 1 => "quarantine" \notin place'[v][q]
        BY <1>2, <1>3, <3>2
      <3>4. MoveOk(v)'
        BY <1>1, <1>2, <2>1, <3>3 DEF MoveOk
      <3>. QED BY <1>1, <2>1, <3>2, <3>4, ExecutionKeeps
    <2>3. CASE there \in {{}, {"active"}} /\ UNCHANGED place
      <3>1. DiskPart(v)
        BY <1>1, <2>3, DiskSame
      <3>2. \A q \in Roots : q < r + 1 => "quarantine" \notin place'[v][q]
        BY <1>2, <1>3, <2>3
      <3>3. MoveOk(v)'
        BY <1>1, <1>2, <2>1, <3>2 DEF MoveOk
      <3>. QED BY <1>1, <2>1, <3>1, <3>3, ExecutionKeeps
    <2>. QED BY <1>5, <2>2, <2>3, <1>4 DEF RestoreRoot
  <1>. QED BY <1>4, <1>5 DEF RestoreRoot

LEMMA RestoreEndsStep ==
  ASSUME IInv, NEW v \in Volumes, RestoreEnds(v)
  PROVE  IInv'
  <1>1. /\ run[v] # None /\ run[v].at = "move" /\ run[v].cmd.action = "restore"
        /\ run[v].root \notin Roots
        /\ UNCHANGED others /\ UNCHANGED <<job, gate, place>>
    BY DEF RestoreEnds, others, central, jobs
  <1>2. /\ journal[v] \in JournalSet /\ journal[v].state = "Restoring" /\ RestoreSide
        /\ run[v].root \in Nat \ {0}
        /\ \A q \in Roots : q < run[v].root => "quarantine" \notin place[v][q]
    BY <1>1, RunFacts DEF MoveOk, RunSet
  <1>3. \A q \in Roots : "quarantine" \notin place[v][q]
    BY <1>1, <1>2, RootFacts
  <1>4. CASE fence[v] = run[v].cmd.gen
    <2>1. /\ fence' = [fence EXCEPT ![v] = None]
          /\ journal' = [journal EXCEPT ![v].state = "Restored"] /\ Finish(v, "done")
      BY <1>4 DEF RestoreEnds
    <2>2. /\ TypeJournal' /\ journal'[v] \in JournalSet /\ journal'[v].state = "Restored"
          /\ journal'[v].purged = journal[v].purged
          /\ \A w \in Volumes : w # v => journal'[w] = journal[w]
      BY <1>2, <2>1, JournalMoves DEF IInv, JournalStates
    <2>3. TypeFence' /\ TypePlace' /\ \A w \in Volumes : w # v => fence'[w] = fence[w]
      BY <1>1, <2>1 DEF IInv, TypeFence, TypePlace
    <2>4. TreeOk(v)'
      BY <2>2 DEF TreeOk, Kept
    <2>5. v \notin PurgedVolumes /\ v \notin PurgedVolumes'
      BY <1>2, <2>2 DEF PurgedVolumes
    <2>6. journal'[v].purged # {} => PurgeSide
      BY <1>2, <2>2, JournalFacts
    <2>7. DiskPart(v)
      BY <1>1, <1>2, <1>3, <2>2, <2>3, <2>4, <2>5, <2>6 DEF DiskPart
    <2>8. RunPart(v)
      BY <1>1, <2>1, WorkFacts, FinishPart
    <2>. QED BY <1>1, <2>7, <2>8, ExecutionKeeps
  <1>5. CASE fence[v] # run[v].cmd.gen
    <2>1. (Finish(v, "blocked") \/ Finish(v, "failed")) /\ UNCHANGED <<fence, journal>>
      BY <1>5 DEF RestoreEnds
    <2>2. DiskPart(v)
      BY <1>1, <2>1, DiskSame
    <2>3. RunPart(v)
      BY <1>1, <2>1, WorkFacts, FinishPart
    <2>. QED BY <1>1, <2>2, <2>3, ExecutionKeeps
  <1>. QED BY <1>4, <1>5

LEMMA PurgeRootStep ==
  ASSUME IInv, NEW v \in Volumes, PurgeRoot(v)
  PROVE  IInv'
  <1>. DEFINE r == run[v].root
  <1>1. /\ run[v] # None /\ run[v].at = "move" /\ run[v].cmd.action = "purge" /\ r \in Roots
        /\ UNCHANGED others /\ UNCHANGED <<job, gate, fence>>
    BY DEF PurgeRoot, Moving, others, central, jobs
  <1>2. /\ journal[v] \in JournalSet /\ journal[v].state = "Purging" /\ r + 1 \in Nat \ {0}
        /\ fence[v] # None /\ Inventoried(v) /\ PurgeSide /\ job[v] = "idle"
        /\ \A q \in Roots : q < r => place[v][q] = {}
    BY <1>1, RunFacts, RootFacts DEF MoveOk
  <1>3. \A q \in Roots : q < r + 1 => q < r \/ q = r
    BY <1>1, RootFacts
  <1>4. /\ journal[v].present[r] = "absent" => place[v][r] = {}
        /\ journal[v].present[r] # "absent" =>
             place[v][r] = {"quarantine"} \/ (r \in journal[v].purged /\ place[v][r] = {})
    <2>1. journal[v].present[r] \in {"present", "absent"} /\ Kept(v) /\ TreeOk(v)
      BY <1>1, <1>2, RunFacts, JournalFacts DEF Inventoried, Kept
    <2>. QED BY <1>1, <2>1 DEF TreeOk
  <1>5. CASE Finish(v, "blocked") /\ UNCHANGED <<journal, place>>
    <2>1. DiskPart(v)
      BY <1>1, <1>5, DiskSame
    <2>2. RunPart(v)
      BY <1>1, <1>5, WorkFacts, FinishPart
    <2>. QED BY <1>1, <2>1, <2>2, ExecutionKeeps
  <1>6. CASE /\ journal[v].present[r] # "absent" /\ UNCHANGED <<place, run>>
             /\ journal' = [journal EXCEPT ![v].purged = @ \cup {r}]
    <2>1. /\ TypeJournal' /\ journal'[v] \in JournalSet
          /\ journal'[v].state = journal[v].state /\ journal'[v].present = journal[v].present
          /\ journal'[v].purged = journal[v].purged \cup {r}
          /\ \A w \in Volumes : w # v => journal'[w] = journal[w]
      BY <1>1, <1>2, <1>6, JournalProves DEF IInv
    <2>2. TypeFence' /\ TypePlace'
      BY <1>1, <1>6 DEF IInv, TypeFence, TypePlace
    <2>3. TreeOk(v)'
      BY <1>1, <1>2, <1>6, <2>1 DEF IInv, TreeInv, TreeOk, Kept
    <2>4. v \notin PurgedVolumes /\ v \notin PurgedVolumes'
      BY <1>2, <2>1 DEF PurgedVolumes
    <2>5. DiskPart(v)
      BY <1>1, <1>2, <1>6, <2>1, <2>2, <2>3, <2>4 DEF DiskPart
    <2>6. Inventoried(v)'
      BY <1>2, <2>1 DEF Inventoried
    <2>7. MoveOk(v)'
      BY <1>1, <1>2, <1>6, <2>1, <2>6 DEF MoveOk
    <2>8. TypeRun' /\ run[v].result = None /\ None # "done"
      BY <1>1, <1>6, RunFacts, NoneAssumption DEF TypeRun, NoneAssumption
    <2>9. RunPart(v)
      BY <1>1, <1>6, <2>7, <2>8, WorkFacts DEF RunPart
    <2>. QED BY <1>1, <2>5, <2>9, ExecutionKeeps
  <1>7. CASE Continue(v, "move", r + 1) /\ UNCHANGED journal
    <2>1. /\ run'[v].cmd = run[v].cmd /\ run'[v].at = "move" /\ run'[v].root = r + 1
          /\ MoveOk(v)' => RunPart(v)
      BY <1>1, <1>2, <1>7, WorkFacts, ContinuePart
    <2>2. Inventoried(v)'
      BY <1>2, <1>7 DEF Inventoried
    <2>3. CASE place[v][r] = {} /\ UNCHANGED place
      <3>1. DiskPart(v)
        BY <1>1, <1>7, <2>3, DiskSame
      <3>2. \A q \in Roots : q < r + 1 => place'[v][q] = {}
        BY <1>2, <1>3, <2>3
      <3>3. MoveOk(v)'
        BY <1>1, <1>2, <1>7, <2>1, <2>2, <3>2 DEF MoveOk
      <3>. QED BY <1>1, <2>1, <3>1, <3>3, ExecutionKeeps
    <2>4. CASE /\ journal[v].present[r] # "absent" /\ r \in journal[v].purged
               /\ Put(v, r, place[v][r] \ {"quarantine"})
      <3>1. place[v][r] \ {"quarantine"} = {}
        BY <1>4, <2>4
      <3>2. Put(v, r, {})
        BY <2>4, <3>1
      <3>3. /\ DiskPart(v) /\ place'[v][r] = {}
            /\ \A q \in Roots : q # r => place'[v][q] = place[v][q]
        BY <1>1, <1>2, <1>7, <2>4, <3>2, DiskPuts
      <3>4. \A q \in Roots : q < r + 1 => place'[v][q] = {}
        BY <1>2, <1>3, <3>3
      <3>5. MoveOk(v)'
        BY <1>1, <1>2, <1>7, <2>1, <2>2, <3>4 DEF MoveOk
      <3>. QED BY <1>1, <2>1, <3>3, <3>5, ExecutionKeeps
    <2>5. \/ place[v][r] = {} /\ UNCHANGED place
          \/ /\ journal[v].present[r] # "absent" /\ r \in journal[v].purged
             /\ Put(v, r, place[v][r] \ {"quarantine"})
          \/ Finish(v, "blocked") /\ UNCHANGED <<journal, place>>
          \/ /\ journal[v].present[r] # "absent" /\ UNCHANGED <<place, run>>
             /\ journal' = [journal EXCEPT ![v].purged = @ \cup {r}]
      BY <1>4 DEF PurgeRoot
    <2>. QED BY <1>5, <1>6, <2>3, <2>4, <2>5
  <1>. QED BY <1>5, <1>6, <1>7 DEF PurgeRoot

LEMMA PurgeEndsStep ==
  ASSUME IInv, NEW v \in Volumes, PurgeEnds(v)
  PROVE  IInv'
  <1>1. /\ run[v] # None /\ run[v].at = "move" /\ run[v].cmd.action = "purge"
        /\ run[v].root \notin Roots /\ Finish(v, "done")
        /\ journal' = [journal EXCEPT ![v].state = "Purged"]
        /\ UNCHANGED others /\ UNCHANGED <<job, gate, fence, place>>
    BY DEF PurgeEnds, others, central, jobs
  <1>2. /\ journal[v] \in JournalSet /\ journal[v].state = "Purging" /\ run[v].root \in Nat \ {0}
        /\ Inventoried(v) /\ \A q \in Roots : q < run[v].root => place[v][q] = {}
    BY <1>1, RunFacts DEF MoveOk, RunSet
  <1>3. \A q \in Roots : place[v][q] = {}
    BY <1>1, <1>2, RootFacts
  <1>4. DiskPart(v)
    BY <1>1, <1>2, <1>3, DiskMoves DEF JournalStates
  <1>5. v \in PurgedVolumes'
    BY <1>1, <1>2, JournalMoves DEF IInv, JournalStates, PurgedVolumes
  <1>6. RunPart(v)
    BY <1>1, <1>5, WorkFacts, FinishPart
  <1>. QED BY <1>1, <1>4, <1>6, ExecutionKeeps

(* Every step keeps the invariant, action by action.                       *)
LEMMA NextIInv == IInv /\ [Next]_vars => IInv'
  <1>. SUFFICES ASSUME IInv, [Next]_vars PROVE IInv'
    OBVIOUS
  <1>. USE ConstantsAssumption, NoneAssumption DEF ConstantsAssumption, NoneAssumption, IInv
  <1>1. ASSUME RestoreDeletion
        PROVE  IInv'
    <2>0. /\ op' \in OpSet /\ op'.state = "Restoring" /\ op'.resume = None
          /\ op'.completion = op.completion /\ op.completion = None /\ op'.retry = op.retry
          /\ op.state \in {"Recoverable", "Blocked", "Failed"} /\ window
          /\ current' = {}
          /\ UNCHANGED <<window, erased, outbox, rec, receiving, journal, volumes>>
      <3>1. op' \in OpSet /\ op'.state = "Restoring" /\ op'.resume = None
            /\ op'.completion = op.completion /\ op'.retry = op.retry
        BY <1>1, OpRestores DEF RestoreDeletion, Store, TypeOp
      <3>. QED BY <1>1, <3>1 DEF RestoreDeletion, Store, Stopped, TypeOp, agent, disk
    <2>1. TypeOp'
      BY <2>0, StepFacts DEF TypeOp, Stopped, StepNames
    <2>2. TypeRec'
      BY <2>0 DEF TypeRec
    <2>3. RetiredInv'
      BY <2>0 DEF RetiredInv, Spent, ReportInv, TrackInv, Purges
    <2>4. AttemptInv'
      BY <2>0 DEF AttemptInv, TypeOp, OpSet, TypeOutbox, CommandSet, TypeRec
    <2>5. CopyInv'
      BY <2>0 DEF CopyInv
    <2>6. WriteInv'
      BY <2>0 DEF WriteInv, AllPurged, PurgedVolumes
    <2>7. FinalInv'
      BY <2>0, StepFacts DEF FinalInv, AllPurged, PurgedVolumes, StepNames
    <2>8. TrackInv'
      BY <2>0, StepFacts DEF TrackInv, Purges, Restores, PurgeSide, RestoreSide, StepNames,
          Stopped
    <2>9. TypeOutbox' /\ TypeReceiving' /\ TypeSession' /\ TypeClaims' /\ TypeRun' /\
        TypeJournal' /\ TypeFence' /\ TypeGate' /\ TypeJob' /\ TypePlace' /\ TypeRest' /\
        ClaimInv' /\ RunInv' /\ ReportInv' /\ GateInv' /\ FenceInv' /\ MoveInv' /\ TreeInv'
        /\ PurgedInv' /\ DoneInv'
      <3>1. UNCHANGED <<claims, fence, gate, job, journal, outbox, place, receiving,
          reports, run, session, up, volumes>>
        BY <1>1 DEF RestoreDeletion, Happens, Store, agent, disk, jobs
      <3>2. TypeOutbox' /\ TypeReceiving' /\ TypeSession' /\ TypeClaims'
        BY <3>1 DEF TypeOutbox, TypeReceiving, TypeSession, TypeClaims
      <3>3. TypeRun' /\ TypeJournal' /\ TypeFence' /\ TypeGate'
        BY <3>1 DEF TypeRun, TypeJournal, TypeFence, TypeGate
      <3>4. TypeJob' /\ TypePlace' /\ TypeRest' /\ ClaimInv'
        BY <3>1 DEF TypeJob, TypePlace, TypeRest, ClaimInv
      <3>5. RunInv' /\ ReportInv' /\ GateInv' /\ FenceInv'
        BY <3>1, RunKept DEF ReportInv, GateInv, FenceInv
      <3>6. MoveInv' /\ TreeInv' /\ PurgedInv' /\ DoneInv'
        BY <3>1, MoveKept, PurgedKept DEF TreeInv, TreeOk, Kept, DoneInv, PurgedVolumes
      <3>. QED BY <3>2, <3>3, <3>4, <3>5, <3>6
    <2>. QED BY <2>1, <2>2, <2>3, <2>4, <2>5, <2>6, <2>7, <2>8, <2>9 DEF IInv
  <1>2. ASSUME RetryDeletion
        PROVE  IInv'
    <2>0. /\ op' \in OpSet /\ op'.state = op.resume /\ op'.resume = None
          /\ op'.completion = op.completion /\ op.completion = None /\ op'.retry = op.retry + 1
          /\ op.state \in Stopped /\ op.resume \in StepNames
          /\ current' = {}
          /\ UNCHANGED <<window, erased, outbox, rec, receiving, journal, volumes>>
      <3>1. op.state \in Stopped /\ op.resume \in StepNames /\ op.completion = None
        BY <1>2, StepFacts DEF RetryDeletion, Stopped, TypeOp, OpSet
      <3>2. op' \in OpSet /\ op'.state = op.resume /\ op'.resume = None
            /\ op'.completion = op.completion /\ op'.retry = op.retry + 1
        BY <1>2, <3>1, OpRetries DEF RetryDeletion, Store, TypeOp
      <3>. QED BY <1>2, <3>1, <3>2 DEF RetryDeletion, Store, agent, disk
    <2>1. TypeOp'
      BY <2>0, StepFacts DEF TypeOp, Stopped, StepNames
    <2>2. TypeRec'
      BY <2>0 DEF TypeRec
    <2>3. RetiredInv'
      <3>1. ASSUME NEW b \in DOMAIN outbox PROVE b.retry < op'.retry
        BY <2>0 DEF AttemptInv, TypeOp, OpSet, TypeOutbox, CommandSet
      <3>. QED BY <2>0, <3>1 DEF RetiredInv, Spent, ReportInv
    <2>4. AttemptInv'
      BY <2>0 DEF AttemptInv, TypeOp, OpSet, TypeOutbox, CommandSet, TypeRec
    <2>5. CopyInv'
      BY <2>0 DEF CopyInv
    <2>6. WriteInv'
      BY <2>0 DEF WriteInv, AllPurged, PurgedVolumes
    <2>7. FinalInv'
      BY <2>0, StepFacts DEF FinalInv, AllPurged, PurgedVolumes, StepNames
    <2>8. TrackInv'
      BY <2>0, StepFacts DEF TrackInv, Purges, Restores, PurgeSide, RestoreSide, StepNames,
          Stopped
    <2>9. TypeOutbox' /\ TypeReceiving' /\ TypeSession' /\ TypeClaims' /\ TypeRun' /\
        TypeJournal' /\ TypeFence' /\ TypeGate' /\ TypeJob' /\ TypePlace' /\ TypeRest' /\
        ClaimInv' /\ RunInv' /\ ReportInv' /\ GateInv' /\ FenceInv' /\ MoveInv' /\ TreeInv'
        /\ PurgedInv' /\ DoneInv'
      <3>1. UNCHANGED <<claims, fence, gate, job, journal, outbox, place, receiving,
          reports, run, session, up, volumes>>
        BY <1>2 DEF RetryDeletion, Happens, Store, agent, disk, jobs
      <3>2. TypeOutbox' /\ TypeReceiving' /\ TypeSession' /\ TypeClaims'
        BY <3>1 DEF TypeOutbox, TypeReceiving, TypeSession, TypeClaims
      <3>3. TypeRun' /\ TypeJournal' /\ TypeFence' /\ TypeGate'
        BY <3>1 DEF TypeRun, TypeJournal, TypeFence, TypeGate
      <3>4. TypeJob' /\ TypePlace' /\ TypeRest' /\ ClaimInv'
        BY <3>1 DEF TypeJob, TypePlace, TypeRest, ClaimInv
      <3>5. RunInv' /\ ReportInv' /\ GateInv' /\ FenceInv'
        BY <3>1, RunKept DEF ReportInv, GateInv, FenceInv
      <3>6. MoveInv' /\ TreeInv' /\ PurgedInv' /\ DoneInv'
        BY <3>1, MoveKept, PurgedKept DEF TreeInv, TreeOk, Kept, DoneInv, PurgedVolumes
      <3>. QED BY <3>2, <3>3, <3>4, <3>5, <3>6
    <2>. QED BY <2>1, <2>2, <2>3, <2>4, <2>5, <2>6, <2>7, <2>8, <2>9 DEF IInv
  <1>3. ASSUME CreateHold
        PROVE  IInv'
    <2>1. TypeRec'
      BY <1>3 DEF CreateHold, Happens, Store, agent, disk, jobs, TypeRec
    <2>2. CopyInv'
      BY <1>3 DEF CreateHold, Happens, Store, agent, disk, jobs, CopyInv
    <2>3. WriteInv'
      BY <1>3 DEF CreateHold, Happens, Store, agent, disk, jobs, WriteInv, AllPurged,
          PurgedVolumes
    <2>4. TypeOp' /\ TypeOutbox' /\ TypeReceiving' /\ TypeSession' /\ TypeClaims' /\
        TypeRun' /\ TypeJournal' /\ TypeFence' /\ TypeGate' /\ TypeJob' /\ TypePlace' /\
        TypeRest' /\ ClaimInv' /\ RunInv' /\ ReportInv' /\ GateInv' /\ FenceInv' /\
        MoveInv' /\ TreeInv' /\ PurgedInv' /\ DoneInv' /\ RetiredInv' /\ AttemptInv' /\
        FinalInv' /\ TrackInv'
      <3>1. UNCHANGED <<claims, erased, fence, gate, job, journal, op, outbox, place, rec,
          receiving, reports, run, session, up, volumes, window>>
        BY <1>3 DEF CreateHold, Happens, Store, agent, disk, jobs
      <3>2. TypeOp' /\ TypeOutbox' /\ TypeReceiving' /\ TypeSession'
        BY <3>1 DEF TypeOp, TypeOutbox, TypeReceiving, TypeSession
      <3>3. TypeClaims' /\ TypeRun' /\ TypeJournal' /\ TypeFence'
        BY <3>1 DEF TypeClaims, TypeRun, TypeJournal, TypeFence
      <3>4. TypeGate' /\ TypeJob' /\ TypePlace' /\ TypeRest'
        BY <3>1 DEF TypeGate, TypeJob, TypePlace, TypeRest
      <3>5. ClaimInv' /\ RunInv' /\ ReportInv' /\ GateInv'
        BY <3>1, RunKept DEF ClaimInv, ReportInv, GateInv
      <3>6. FenceInv' /\ MoveInv' /\ TreeInv' /\ PurgedInv'
        BY <3>1, MoveKept, PurgedKept DEF FenceInv, TreeInv, TreeOk, Kept
      <3>7. DoneInv' /\ RetiredInv' /\ AttemptInv' /\ FinalInv'
        BY <3>1 DEF DoneInv, PurgedVolumes, RetiredInv, Spent, AttemptInv, FinalInv, AllPurged
      <3>8. TrackInv'
        BY <3>1 DEF TrackInv, Purges, Restores, PurgeSide, RestoreSide
      <3>. QED BY <3>2, <3>3, <3>4, <3>5, <3>6, <3>7, <3>8
    <2>. QED BY <2>1, <2>2, <2>3, <2>4 DEF IInv
  <1>4. ASSUME ReleaseHold
        PROVE  IInv'
    <2>1. TypeRec'
      BY <1>4 DEF ReleaseHold, Store, agent, disk, jobs, TypeRec
    <2>2. CopyInv'
      BY <1>4 DEF ReleaseHold, Store, agent, disk, jobs, CopyInv
    <2>3. WriteInv'
      BY <1>4 DEF ReleaseHold, Store, agent, disk, jobs, WriteInv, AllPurged, PurgedVolumes
    <2>4. TypeOp' /\ TypeOutbox' /\ TypeReceiving' /\ TypeSession' /\ TypeClaims' /\
        TypeRun' /\ TypeJournal' /\ TypeFence' /\ TypeGate' /\ TypeJob' /\ TypePlace' /\
        TypeRest' /\ ClaimInv' /\ RunInv' /\ ReportInv' /\ GateInv' /\ FenceInv' /\
        MoveInv' /\ TreeInv' /\ PurgedInv' /\ DoneInv' /\ RetiredInv' /\ AttemptInv' /\
        FinalInv' /\ TrackInv'
      <3>1. UNCHANGED <<claims, erased, fence, gate, job, journal, op, outbox, place, rec,
          receiving, reports, run, session, up, volumes, window>>
        BY <1>4 DEF ReleaseHold, Store, agent, disk, jobs
      <3>2. TypeOp' /\ TypeOutbox' /\ TypeReceiving' /\ TypeSession'
        BY <3>1 DEF TypeOp, TypeOutbox, TypeReceiving, TypeSession
      <3>3. TypeClaims' /\ TypeRun' /\ TypeJournal' /\ TypeFence'
        BY <3>1 DEF TypeClaims, TypeRun, TypeJournal, TypeFence
      <3>4. TypeGate' /\ TypeJob' /\ TypePlace' /\ TypeRest'
        BY <3>1 DEF TypeGate, TypeJob, TypePlace, TypeRest
      <3>5. ClaimInv' /\ RunInv' /\ ReportInv' /\ GateInv'
        BY <3>1, RunKept DEF ClaimInv, ReportInv, GateInv
      <3>6. FenceInv' /\ MoveInv' /\ TreeInv' /\ PurgedInv'
        BY <3>1, MoveKept, PurgedKept DEF FenceInv, TreeInv, TreeOk, Kept
      <3>7. DoneInv' /\ RetiredInv' /\ AttemptInv' /\ FinalInv'
        BY <3>1 DEF DoneInv, PurgedVolumes, RetiredInv, Spent, AttemptInv, FinalInv, AllPurged
      <3>8. TrackInv'
        BY <3>1 DEF TrackInv, Purges, Restores, PurgeSide, RestoreSide
      <3>. QED BY <3>2, <3>3, <3>4, <3>5, <3>6, <3>7, <3>8
    <2>. QED BY <2>1, <2>2, <2>3, <2>4 DEF IInv
  <1>5. ASSUME HoldExpires
        PROVE  IInv'
    <2>1. TypeOp' /\ TypeOutbox' /\ TypeRec' /\ TypeReceiving' /\ TypeSession' /\
        TypeClaims' /\ TypeRun' /\ TypeJournal' /\ TypeFence' /\ TypeGate' /\ TypeJob' /\
        TypePlace' /\ TypeRest' /\ ClaimInv' /\ RunInv' /\ ReportInv' /\ GateInv' /\
        FenceInv' /\ MoveInv' /\ TreeInv' /\ PurgedInv' /\ DoneInv' /\ RetiredInv' /\
        AttemptInv' /\ CopyInv' /\ WriteInv' /\ FinalInv' /\ TrackInv'
      <3>1. UNCHANGED <<claims, current, erased, fence, gate, job, journal, op, outbox,
          place, rec, receiving, reports, run, session, up, volumes, window>>
        BY <1>5 DEF HoldExpires, agent, disk, jobs
      <3>2. TypeOp' /\ TypeOutbox' /\ TypeRec' /\ TypeReceiving'
        BY <3>1 DEF TypeOp, TypeOutbox, TypeRec, TypeReceiving
      <3>3. TypeSession' /\ TypeClaims' /\ TypeRun' /\ TypeJournal'
        BY <3>1 DEF TypeSession, TypeClaims, TypeRun, TypeJournal
      <3>4. TypeFence' /\ TypeGate' /\ TypeJob' /\ TypePlace'
        BY <3>1 DEF TypeFence, TypeGate, TypeJob, TypePlace
      <3>5. TypeRest' /\ ClaimInv' /\ RunInv' /\ ReportInv'
        BY <3>1, RunKept DEF TypeRest, ClaimInv, ReportInv
      <3>6. GateInv' /\ FenceInv' /\ MoveInv' /\ TreeInv'
        BY <3>1, MoveKept DEF GateInv, FenceInv, TreeInv, TreeOk, Kept
      <3>7. PurgedInv' /\ DoneInv' /\ RetiredInv' /\ AttemptInv'
        BY <3>1, PurgedKept DEF DoneInv, PurgedVolumes, RetiredInv, Spent, AttemptInv
      <3>8. CopyInv' /\ WriteInv' /\ FinalInv' /\ TrackInv'
        BY <3>1 DEF CopyInv, WriteInv, AllPurged, PurgedVolumes, FinalInv, TrackInv,
            Purges, Restores, PurgeSide, RestoreSide
      <3>. QED BY <3>2, <3>3, <3>4, <3>5, <3>6, <3>7, <3>8
    <2>. QED BY <2>1 DEF IInv
  <1>6. ASSUME WindowElapses
        PROVE  IInv'
    <2>1. TrackInv'
      BY <1>6 DEF WindowElapses, central, agent, disk, jobs, TrackInv, Purges, Restores,
          PurgeSide, RestoreSide
    <2>2. TypeOp' /\ TypeOutbox' /\ TypeRec' /\ TypeReceiving' /\ TypeSession' /\
        TypeClaims' /\ TypeRun' /\ TypeJournal' /\ TypeFence' /\ TypeGate' /\ TypeJob' /\
        TypePlace' /\ TypeRest' /\ ClaimInv' /\ RunInv' /\ ReportInv' /\ GateInv' /\
        FenceInv' /\ MoveInv' /\ TreeInv' /\ PurgedInv' /\ DoneInv' /\ RetiredInv' /\
        AttemptInv' /\ CopyInv' /\ WriteInv' /\ FinalInv'
      <3>1. UNCHANGED <<claims, current, erased, fence, gate, job, journal, op, outbox,
          place, rec, receiving, reports, run, session, up, volumes>>
        BY <1>6 DEF WindowElapses, central, agent, disk, jobs
      <3>2. TypeOp' /\ TypeOutbox' /\ TypeRec' /\ TypeReceiving'
        BY <3>1 DEF TypeOp, TypeOutbox, TypeRec, TypeReceiving
      <3>3. TypeSession' /\ TypeClaims' /\ TypeRun' /\ TypeJournal'
        BY <3>1 DEF TypeSession, TypeClaims, TypeRun, TypeJournal
      <3>4. TypeFence' /\ TypeGate' /\ TypeJob' /\ TypePlace'
        BY <3>1 DEF TypeFence, TypeGate, TypeJob, TypePlace
      <3>5. TypeRest' /\ ClaimInv' /\ RunInv' /\ ReportInv'
        BY <3>1, RunKept DEF TypeRest, ClaimInv, ReportInv
      <3>6. GateInv' /\ FenceInv' /\ MoveInv' /\ TreeInv'
        BY <3>1, MoveKept DEF GateInv, FenceInv, TreeInv, TreeOk, Kept
      <3>7. PurgedInv' /\ DoneInv' /\ RetiredInv' /\ AttemptInv'
        BY <3>1, PurgedKept DEF DoneInv, PurgedVolumes, RetiredInv, Spent, AttemptInv
      <3>8. CopyInv' /\ WriteInv' /\ FinalInv'
        BY <3>1 DEF CopyInv, WriteInv, AllPurged, PurgedVolumes, FinalInv
      <3>. QED BY <3>2, <3>3, <3>4, <3>5, <3>6, <3>7, <3>8
    <2>. QED BY <2>1, <2>2 DEF IInv
  <1>7. ASSUME NEW a \in DOMAIN outbox, AssignmentExpires(a)
        PROVE  IInv'
    <2>0. /\ TypeOutbox' /\ DOMAIN outbox' = DOMAIN outbox
          /\ \A b \in DOMAIN outbox : outbox'[b].retired = outbox[b].retired
          /\ UNCHANGED <<op, window, rec, receiving, claims, run, reports, up, journal, volumes>>
      <3>1. TypeOutbox' /\ DOMAIN outbox' = DOMAIN outbox
        BY <1>7, OutboxFacts DEF AssignmentExpires
      <3>2. \A b \in DOMAIN outbox : outbox'[b].retired = outbox[b].retired
        BY <1>7 DEF AssignmentExpires, TypeOutbox, RowSet
      <3>. QED BY <1>7, <3>1, <3>2 DEF AssignmentExpires, agent, disk
    <2>1. TypeOutbox'
      BY <2>0
    <2>2. ClaimInv'
      BY <2>0 DEF ClaimInv
    <2>3. RunInv'
      BY <2>0, RunKept
    <2>4. ReportInv'
      BY <2>0 DEF ReportInv
    <2>5. RetiredInv'
      BY <2>0 DEF RetiredInv, Spent, PurgedVolumes
    <2>6. AttemptInv'
      BY <2>0 DEF AttemptInv
    <2>7. TrackInv'
      BY <2>0 DEF TrackInv, Purges, Restores, PurgeSide, RestoreSide
    <2>8. TypeOp' /\ TypeRec' /\ TypeReceiving' /\ TypeSession' /\ TypeClaims' /\ TypeRun'
        /\ TypeJournal' /\ TypeFence' /\ TypeGate' /\ TypeJob' /\ TypePlace' /\ TypeRest'
        /\ GateInv' /\ FenceInv' /\ MoveInv' /\ TreeInv' /\ PurgedInv' /\ DoneInv' /\
        CopyInv' /\ WriteInv' /\ FinalInv'
      <3>1. UNCHANGED <<claims, current, erased, fence, gate, job, journal, op, place, rec,
          receiving, reports, run, session, up, volumes>>
        BY <1>7 DEF AssignmentExpires, agent, disk, jobs
      <3>2. TypeOp' /\ TypeRec' /\ TypeReceiving' /\ TypeSession'
        BY <3>1 DEF TypeOp, TypeRec, TypeReceiving, TypeSession
      <3>3. TypeClaims' /\ TypeRun' /\ TypeJournal' /\ TypeFence'
        BY <3>1 DEF TypeClaims, TypeRun, TypeJournal, TypeFence
      <3>4. TypeGate' /\ TypeJob' /\ TypePlace' /\ TypeRest'
        BY <3>1 DEF TypeGate, TypeJob, TypePlace, TypeRest
      <3>5. GateInv' /\ FenceInv' /\ MoveInv' /\ TreeInv'
        BY <3>1, MoveKept DEF GateInv, FenceInv, TreeInv, TreeOk, Kept
      <3>6. PurgedInv' /\ DoneInv' /\ CopyInv' /\ WriteInv'
        BY <3>1, PurgedKept DEF DoneInv, PurgedVolumes, CopyInv, WriteInv, AllPurged
      <3>7. FinalInv'
        BY <3>1 DEF FinalInv, AllPurged, PurgedVolumes
      <3>. QED BY <3>2, <3>3, <3>4, <3>5, <3>6, <3>7
    <2>. QED BY <2>1, <2>2, <2>3, <2>4, <2>5, <2>6, <2>7, <2>8 DEF IInv
  <1>8. ASSUME ReconcileBegins
        PROVE  IInv'
    <2>0. /\ rec' \in RecSet /\ rec'.at = "ensure" /\ rec'.seen = op
          /\ op.state \in DOMAIN Steps
          /\ current' = current \cup {Reconciler}
          /\ UNCHANGED <<op, window, erased, outbox, receiving, journal, volumes>>
      BY <1>8 DEF ReconcileBegins, RecSet, TypeOp, central_but_rec, disk
    <2>1. TypeRec'
      BY <2>0 DEF TypeRec, TypeOp
    <2>2. AttemptInv'
      BY <2>0 DEF AttemptInv, TypeOp, OpSet
    <2>3. CopyInv'
      BY <2>0 DEF CopyInv
    <2>4. WriteInv'
      BY <2>0 DEF WriteInv, AllPurged, PurgedVolumes
    <2>5. FinalInv'
      BY <2>0 DEF FinalInv, AllPurged, PurgedVolumes
    <2>6. TrackInv'
      BY <2>0 DEF TrackInv, Purges, Restores, PurgeSide, RestoreSide
    <2>7. TypeOp' /\ TypeOutbox' /\ TypeReceiving' /\ TypeSession' /\ TypeClaims' /\
        TypeRun' /\ TypeJournal' /\ TypeFence' /\ TypeGate' /\ TypeJob' /\ TypePlace' /\
        TypeRest' /\ ClaimInv' /\ RunInv' /\ ReportInv' /\ GateInv' /\ FenceInv' /\
        MoveInv' /\ TreeInv' /\ PurgedInv' /\ DoneInv' /\ RetiredInv'
      <3>1. UNCHANGED <<claims, fence, gate, job, journal, op, outbox, place, receiving,
          reports, run, session, up, volumes>>
        BY <1>8 DEF ReconcileBegins, central_but_rec, agent, disk, jobs
      <3>2. TypeOp' /\ TypeOutbox' /\ TypeReceiving' /\ TypeSession'
        BY <3>1 DEF TypeOp, TypeOutbox, TypeReceiving, TypeSession
      <3>3. TypeClaims' /\ TypeRun' /\ TypeJournal' /\ TypeFence'
        BY <3>1 DEF TypeClaims, TypeRun, TypeJournal, TypeFence
      <3>4. TypeGate' /\ TypeJob' /\ TypePlace' /\ TypeRest'
        BY <3>1 DEF TypeGate, TypeJob, TypePlace, TypeRest
      <3>5. ClaimInv' /\ RunInv' /\ ReportInv' /\ GateInv'
        BY <3>1, RunKept DEF ClaimInv, ReportInv, GateInv
      <3>6. FenceInv' /\ MoveInv' /\ TreeInv' /\ PurgedInv'
        BY <3>1, MoveKept, PurgedKept DEF FenceInv, TreeInv, TreeOk, Kept
      <3>7. DoneInv' /\ RetiredInv'
        BY <3>1 DEF DoneInv, PurgedVolumes, RetiredInv, Spent
      <3>. QED BY <3>2, <3>3, <3>4, <3>5, <3>6, <3>7
    <2>. QED BY <2>1, <2>2, <2>3, <2>4, <2>5, <2>6, <2>7 DEF IInv
  <1>38. ASSUME CommandsRefused
        PROVE  IInv'
    <2>0. /\ rec' \in RecSet /\ rec'.at = "write" /\ rec'.next = "Blocked"
          /\ \/ /\ rec'.seen = op /\ op.state \in DOMAIN Steps
                /\ current' = current \cup {Reconciler}
             \/ /\ rec.at # "idle" /\ rec'.seen = rec.seen /\ current' = current
          /\ UNCHANGED <<op, window, erased, outbox, receiving, journal, volumes>>
      <3>1. "Blocked" \in States /\ \A x \in DOMAIN ActionOf : x \in DOMAIN Steps
        BY StepFacts, ActionFacts DEF StepNames
      <3>2. UNCHANGED <<op, window, erased, outbox, receiving, journal, volumes>>
        BY <1>38 DEF CommandsRefused, central_but_rec, disk
      <3>3. CASE /\ op.state \in DOMAIN ActionOf
                 /\ rec' = [at |-> "write", seen |-> op, next |-> "Blocked"]
                 /\ current' = current \cup {Reconciler}
        BY <3>1, <3>2, <3>3 DEF RecSet, TypeOp
      <3>4. CASE /\ rec.at = "ensure" /\ current' = current
                 /\ rec' = [rec EXCEPT !.at = "write", !.next = "Blocked"]
        BY <3>1, <3>2, <3>4 DEF RecSet, TypeRec
      <3>. QED BY <1>38, <3>3, <3>4 DEF CommandsRefused
    <2>1. TypeRec'
      BY <2>0 DEF TypeRec, TypeOp
    <2>2. AttemptInv'
      BY <2>0 DEF AttemptInv, TypeOp, OpSet
    <2>3. CopyInv'
      BY <2>0 DEF CopyInv
    <2>4. WriteInv'
      BY <2>0 DEF WriteInv, AllPurged, PurgedVolumes
    <2>5. FinalInv'
      BY <2>0 DEF FinalInv, AllPurged, PurgedVolumes
    <2>6. TrackInv'
      BY <2>0 DEF TrackInv, Purges, Restores, PurgeSide, RestoreSide
    <2>7. TypeOp' /\ TypeOutbox' /\ TypeReceiving' /\ TypeSession' /\ TypeClaims' /\
        TypeRun' /\ TypeJournal' /\ TypeFence' /\ TypeGate' /\ TypeJob' /\ TypePlace' /\
        TypeRest' /\ ClaimInv' /\ RunInv' /\ ReportInv' /\ GateInv' /\ FenceInv' /\
        MoveInv' /\ TreeInv' /\ PurgedInv' /\ DoneInv' /\ RetiredInv'
      <3>1. UNCHANGED <<claims, fence, gate, job, journal, op, outbox, place, receiving,
          reports, run, session, up, volumes>>
        BY <1>38 DEF CommandsRefused, Happens, central_but_rec, agent, disk, jobs
      <3>2. TypeOp' /\ TypeOutbox' /\ TypeReceiving' /\ TypeSession'
        BY <3>1 DEF TypeOp, TypeOutbox, TypeReceiving, TypeSession
      <3>3. TypeClaims' /\ TypeRun' /\ TypeJournal' /\ TypeFence'
        BY <3>1 DEF TypeClaims, TypeRun, TypeJournal, TypeFence
      <3>4. TypeGate' /\ TypeJob' /\ TypePlace' /\ TypeRest'
        BY <3>1 DEF TypeGate, TypeJob, TypePlace, TypeRest
      <3>5. ClaimInv' /\ RunInv' /\ ReportInv' /\ GateInv'
        BY <3>1, RunKept DEF ClaimInv, ReportInv, GateInv
      <3>6. FenceInv' /\ MoveInv' /\ TreeInv' /\ PurgedInv'
        BY <3>1, MoveKept, PurgedKept DEF FenceInv, TreeInv, TreeOk, Kept
      <3>7. DoneInv' /\ RetiredInv'
        BY <3>1 DEF DoneInv, PurgedVolumes, RetiredInv, Spent
      <3>. QED BY <3>2, <3>3, <3>4, <3>5, <3>6, <3>7
    <2>. QED BY <2>1, <2>2, <2>3, <2>4, <2>5, <2>6, <2>7 DEF IInv
  <1>9. ASSUME NEW v \in Volumes, EnqueueAssignment(v)
        PROVE  IInv'
    <2>0. /\ rec.at = "ensure" /\ v \in volumes /\ rec.seen.state \in {"Quarantining", "Purging", "Restoring"}
          /\ Command(rec.seen, v) \in CommandSet /\ Command(rec.seen, v).retry = rec.seen.retry
          /\ Command(rec.seen, v).action = ActionOf[rec.seen.state]
          /\ TypeOutbox'
          /\ \/ /\ rec' = rec /\ current' = current
                /\ Command(rec.seen, v) \notin DOMAIN outbox
                /\ DOMAIN outbox' = DOMAIN outbox \cup {Command(rec.seen, v)}
                /\ \A b \in DOMAIN outbox : outbox'[b] = outbox[b]
                /\ ~outbox'[Command(rec.seen, v)].retired
             \/ /\ rec' \in RecSet /\ rec'.at = "idle" /\ current' \subseteq current /\ outbox' = outbox
          /\ UNCHANGED <<op, window, erased, receiving, claims, run, reports, up, journal, volumes>>
      <3>. DEFINE a == Command(rec.seen, v)
      <3>1. /\ rec.at = "ensure" /\ v \in volumes /\ rec.seen \in OpSet
            /\ rec.seen.state \in {"Quarantining", "Purging", "Restoring"}
            /\ UNCHANGED <<op, window, erased, receiving, claims, run, reports, up, journal, volumes>>
        BY <1>9, ActionFacts DEF EnqueueAssignment, TypeRec, agent, disk
      <3>2. a \in CommandSet /\ a.retry = rec.seen.retry /\ a.action = ActionOf[rec.seen.state]
        BY <3>1, ActionFacts DEF Command, CommandSet, OpSet
      <3>. HIDE DEF a
      <3>3. CASE op.state # "Completed" /\ op.gen = a.gen
        <4>. DEFINE row == [session |-> session[v], published |-> FALSE, retired |-> FALSE,
                            late |-> FALSE]
        <4>1. row \in RowSet /\ ~row.retired
          BY DEF RowSet, TypeSession
        <4>. HIDE DEF row
        <4>2. /\ outbox' = [b \in DOMAIN outbox \cup {a} |-> IF b = a THEN row ELSE outbox[b]]
              /\ rec' = rec /\ current' = current /\ a \notin DOMAIN outbox
          BY <1>9, <3>3 DEF EnqueueAssignment, a, row
        <4>3. TypeOutbox'
          BY <3>2, <4>1, <4>2 DEF TypeOutbox
        <4>. QED BY <3>1, <3>2, <4>1, <4>2, <4>3 DEF a
      <3>4. CASE ~(op.state # "Completed" /\ op.gen = a.gen)
        <4>1. rec' = Idle /\ current' \subseteq current /\ outbox' = outbox
          BY <1>9, <3>4 DEF EnqueueAssignment, a
        <4>2. rec' \in RecSet /\ rec'.at = "idle" /\ TypeOutbox'
          BY <4>1 DEF Idle, RecSet, TypeOutbox
        <4>. QED BY <3>1, <3>2, <4>1, <4>2 DEF a
      <3>. QED BY <3>3, <3>4
    <2>1. TypeOutbox'
      BY <2>0
    <2>2. TypeRec'
      BY <2>0 DEF TypeRec
    <2>3. ClaimInv'
      BY <2>0 DEF ClaimInv
    <2>4. RunInv'
      BY <2>0, RunKept
    <2>5. ReportInv'
      BY <2>0 DEF ReportInv
    <2>6. RetiredInv'
      BY <2>0 DEF RetiredInv, Spent, PurgedVolumes
    <2>7. AttemptInv'
      BY <2>0 DEF AttemptInv
    <2>8. CopyInv'
      BY <2>0 DEF CopyInv
    <2>9. WriteInv'
      BY <2>0 DEF WriteInv, AllPurged, PurgedVolumes
    <2>10. FinalInv'
      BY <2>0 DEF FinalInv, AllPurged, PurgedVolumes
    <2>11. TrackInv'
      <3>1. PurgeSide' = PurgeSide /\ RestoreSide' = RestoreSide
        BY <2>0 DEF PurgeSide, RestoreSide
      <3>2. (Purges' => Purges) /\ (Restores' => Restores)
        BY <2>0, ActionFacts DEF Purges, Restores
      <3>. QED BY <2>0, <3>1, <3>2 DEF TrackInv
    <2>12. TypeOp' /\ TypeReceiving' /\ TypeSession' /\ TypeClaims' /\ TypeRun' /\
        TypeJournal' /\ TypeFence' /\ TypeGate' /\ TypeJob' /\ TypePlace' /\ TypeRest' /\
        GateInv' /\ FenceInv' /\ MoveInv' /\ TreeInv' /\ PurgedInv' /\ DoneInv'
      <3>1. UNCHANGED <<claims, fence, gate, job, journal, op, place, receiving, reports,
          run, session, up, volumes>>
        BY <1>9 DEF EnqueueAssignment, agent, disk, jobs
      <3>2. TypeOp' /\ TypeReceiving' /\ TypeSession' /\ TypeClaims'
        BY <3>1 DEF TypeOp, TypeReceiving, TypeSession, TypeClaims
      <3>3. TypeRun' /\ TypeJournal' /\ TypeFence' /\ TypeGate'
        BY <3>1 DEF TypeRun, TypeJournal, TypeFence, TypeGate
      <3>4. TypeJob' /\ TypePlace' /\ TypeRest' /\ GateInv'
        BY <3>1 DEF TypeJob, TypePlace, TypeRest, GateInv
      <3>5. FenceInv' /\ MoveInv' /\ TreeInv' /\ PurgedInv'
        BY <3>1, MoveKept, PurgedKept DEF FenceInv, TreeInv, TreeOk, Kept
      <3>6. DoneInv'
        BY <3>1 DEF DoneInv, PurgedVolumes
      <3>. QED BY <3>2, <3>3, <3>4, <3>5, <3>6
    <2>. QED BY <2>1, <2>2, <2>3, <2>4, <2>5, <2>6, <2>7, <2>8, <2>9, <2>10, <2>11, <2>12
        DEF IInv
  <1>10. ASSUME NEW a \in DOMAIN outbox, PublishAssignment(a)
        PROVE  IInv'
    <2>0. /\ TypeOutbox' /\ DOMAIN outbox' = DOMAIN outbox
          /\ \A b \in DOMAIN outbox : outbox'[b].retired = outbox[b].retired
          /\ UNCHANGED <<op, window, rec, receiving, claims, run, reports, up, journal, volumes>>
      <3>1. TypeOutbox' /\ DOMAIN outbox' = DOMAIN outbox
        BY <1>10, OutboxFacts DEF PublishAssignment
      <3>2. \A b \in DOMAIN outbox : outbox'[b].retired = outbox[b].retired
        BY <1>10 DEF PublishAssignment, TypeOutbox, RowSet
      <3>. QED BY <1>10, <3>1, <3>2 DEF PublishAssignment, agent, disk
    <2>1. TypeOutbox'
      BY <2>0
    <2>2. ClaimInv'
      BY <2>0 DEF ClaimInv
    <2>3. RunInv'
      BY <2>0, RunKept
    <2>4. ReportInv'
      BY <2>0 DEF ReportInv
    <2>5. RetiredInv'
      BY <2>0 DEF RetiredInv, Spent, PurgedVolumes
    <2>6. AttemptInv'
      BY <2>0 DEF AttemptInv
    <2>7. TrackInv'
      BY <2>0 DEF TrackInv, Purges, Restores, PurgeSide, RestoreSide
    <2>8. TypeOp' /\ TypeRec' /\ TypeReceiving' /\ TypeSession' /\ TypeClaims' /\ TypeRun'
        /\ TypeJournal' /\ TypeFence' /\ TypeGate' /\ TypeJob' /\ TypePlace' /\ TypeRest'
        /\ GateInv' /\ FenceInv' /\ MoveInv' /\ TreeInv' /\ PurgedInv' /\ DoneInv' /\
        CopyInv' /\ WriteInv' /\ FinalInv'
      <3>1. UNCHANGED <<claims, current, erased, fence, gate, job, journal, op, place, rec,
          receiving, reports, run, session, up, volumes>>
        BY <1>10 DEF PublishAssignment, agent, disk, jobs
      <3>2. TypeOp' /\ TypeRec' /\ TypeReceiving' /\ TypeSession'
        BY <3>1 DEF TypeOp, TypeRec, TypeReceiving, TypeSession
      <3>3. TypeClaims' /\ TypeRun' /\ TypeJournal' /\ TypeFence'
        BY <3>1 DEF TypeClaims, TypeRun, TypeJournal, TypeFence
      <3>4. TypeGate' /\ TypeJob' /\ TypePlace' /\ TypeRest'
        BY <3>1 DEF TypeGate, TypeJob, TypePlace, TypeRest
      <3>5. GateInv' /\ FenceInv' /\ MoveInv' /\ TreeInv'
        BY <3>1, MoveKept DEF GateInv, FenceInv, TreeInv, TreeOk, Kept
      <3>6. PurgedInv' /\ DoneInv' /\ CopyInv' /\ WriteInv'
        BY <3>1, PurgedKept DEF DoneInv, PurgedVolumes, CopyInv, WriteInv, AllPurged
      <3>7. FinalInv'
        BY <3>1 DEF FinalInv, AllPurged, PurgedVolumes
      <3>. QED BY <3>2, <3>3, <3>4, <3>5, <3>6, <3>7
    <2>. QED BY <2>1, <2>2, <2>3, <2>4, <2>5, <2>6, <2>7, <2>8 DEF IInv
  <1>11. ASSUME ReconcileDecides
        PROVE  IInv'
    <2>0. /\ rec.seen \in OpSet /\ rec.seen.state \in DOMAIN Steps /\ rec.at = "ensure"
          /\ rec' \in RecSet /\ current' \subseteq current
          /\ \/ rec'.at = "idle"
             \/ /\ rec'.at = "write" /\ rec'.seen = rec.seen /\ rec'.next = Decision(rec.seen)
                /\ Decision(rec.seen) \in States /\ current' = current
          /\ erased' => erased \/ rec.seen.state = "Finalizing"
          /\ UNCHANGED <<op, window, outbox, receiving, journal, volumes>>
      <3>1. rec.seen \in OpSet /\ rec.seen.state \in DOMAIN Steps /\ rec.at = "ensure"
        BY <1>11 DEF ReconcileDecides, TypeRec
      <3>2. Decision(rec.seen) \in States \cup {None}
        BY <3>1, StepFacts, ActionFacts DEF Decision, StepNames
      <3>3. CASE Decision(rec.seen) = None
        <4>1. rec' = Idle /\ current' \subseteq current
          BY <1>11, <3>3 DEF ReconcileDecides
        <4>2. rec'.at = "idle" /\ rec' \in RecSet
          BY <4>1 DEF Idle, RecSet
        <4>3. erased' => erased \/ rec.seen.state = "Finalizing"
          BY <1>11 DEF ReconcileDecides
        <4>. QED BY <1>11, <3>1, <4>1, <4>2, <4>3 DEF ReconcileDecides, central_but_rec,
            disk
      <3>4. CASE Decision(rec.seen) # None
        <4>1. rec' = [rec EXCEPT !.at = "write", !.next = Decision(rec.seen)] /\ current' = current
          BY <1>11, <3>4 DEF ReconcileDecides
        <4>2. rec' \in RecSet /\ rec'.at = "write" /\ rec'.seen = rec.seen
              /\ rec'.next = Decision(rec.seen)
          BY <3>1, <3>2, <3>4, <4>1 DEF TypeRec, RecSet
        <4>. QED BY <1>11, <3>1, <3>2, <3>4, <4>1, <4>2 DEF ReconcileDecides,
            central_but_rec, disk
      <3>. QED BY <3>3, <3>4
    <2>1. TypeRec'
      BY <2>0 DEF TypeRec
    <2>2. AttemptInv'
      BY <2>0 DEF AttemptInv
    <2>3. CopyInv'
      BY <2>0 DEF CopyInv
    <2>4. WriteInv'
      <3>. SUFFICES ASSUME rec'.at = "write", Decision(rec.seen) = "Finalizing",
                           Reconciler \in current
                    PROVE  AllPurged'
        BY <2>0 DEF WriteInv
      <3>1. rec.seen = op
        BY <2>0 DEF CopyInv
      <3>2. op.state = "Purging" /\ AssignmentsOutcome(op) = "complete"
        BY <2>0, <3>1, StepFacts, ActionFacts DEF Decision, StepNames
      <3>3. ASSUME NEW v \in volumes PROVE v \in PurgedVolumes
        <4>1. Command(op, v) \in Commands(op) /\ Command(op, v).action = "purge"
              /\ Command(op, v).volume = v /\ Command(op, v).retry = op.retry
          BY <3>2, ActionFacts DEF Commands, Command
        <4>2. Command(op, v) \in DOMAIN outbox
          BY <1>11, <3>1, <4>1 DEF ReconcileDecides, AllPublished
        <4>3. Unretired(op) = {}
          BY <3>2 DEF AssignmentsOutcome
        <4>4. outbox[Command(op, v)].retired
          BY <4>1, <4>3 DEF Unretired
        <4>. QED BY <3>2, <4>1, <4>2, <4>4 DEF RetiredInv, Spent, Stopped, TypeOp, OpSet
      <3>. QED BY <2>0, <3>3 DEF AllPurged, PurgedVolumes
    <2>5. FinalInv'
      BY <2>0 DEF FinalInv, AllPurged, PurgedVolumes
    <2>6. TrackInv'
      BY <2>0 DEF TrackInv, Purges, Restores, PurgeSide, RestoreSide
    <2>7. TypeOp' /\ TypeOutbox' /\ TypeReceiving' /\ TypeSession' /\ TypeClaims' /\
        TypeRun' /\ TypeJournal' /\ TypeFence' /\ TypeGate' /\ TypeJob' /\ TypePlace' /\
        TypeRest' /\ ClaimInv' /\ RunInv' /\ ReportInv' /\ GateInv' /\ FenceInv' /\
        MoveInv' /\ TreeInv' /\ PurgedInv' /\ DoneInv' /\ RetiredInv'
      <3>1. UNCHANGED <<claims, fence, gate, job, journal, op, outbox, place, receiving,
          reports, run, session, up, volumes>>
        BY <1>11 DEF ReconcileDecides, central_but_rec, agent, disk, jobs
      <3>2. TypeOp' /\ TypeOutbox' /\ TypeReceiving' /\ TypeSession'
        BY <3>1 DEF TypeOp, TypeOutbox, TypeReceiving, TypeSession
      <3>3. TypeClaims' /\ TypeRun' /\ TypeJournal' /\ TypeFence'
        BY <3>1 DEF TypeClaims, TypeRun, TypeJournal, TypeFence
      <3>4. TypeGate' /\ TypeJob' /\ TypePlace' /\ TypeRest'
        BY <3>1 DEF TypeGate, TypeJob, TypePlace, TypeRest
      <3>5. ClaimInv' /\ RunInv' /\ ReportInv' /\ GateInv'
        BY <3>1, RunKept DEF ClaimInv, ReportInv, GateInv
      <3>6. FenceInv' /\ MoveInv' /\ TreeInv' /\ PurgedInv'
        BY <3>1, MoveKept, PurgedKept DEF FenceInv, TreeInv, TreeOk, Kept
      <3>7. DoneInv' /\ RetiredInv'
        BY <3>1 DEF DoneInv, PurgedVolumes, RetiredInv, Spent
      <3>. QED BY <3>2, <3>3, <3>4, <3>5, <3>6, <3>7
    <2>. QED BY <2>1, <2>2, <2>3, <2>4, <2>5, <2>6, <2>7 DEF IInv
  <1>12. ASSUME ReconcileWrites
        PROVE  IInv'
    <2>0. /\ rec.at = "write" /\ rec'.at = "idle" /\ rec' \in RecSet
          /\ current' \subseteq current
          /\ \/ op' = op
             \/ /\ MayTransition(Reconciler, rec.seen.state, rec.next) /\ op' = Transitioned(rec.next)
                /\ rec.next \in States /\ CanBecome(op.state, rec.next)
          /\ UNCHANGED <<window, erased, outbox, receiving, journal, volumes>>
      <3>1. CASE MayTransition(Reconciler, rec.seen.state, rec.next)
        <4>1. rec.next \in States
          BY <3>1, StepFacts DEF MayTransition, CanBecome, Stopped, StepNames
        <4>. QED BY <1>12, <3>1, <4>1 DEF ReconcileWrites, Store, MayTransition, Idle,
            RecSet, disk
      <3>2. CASE ~MayTransition(Reconciler, rec.seen.state, rec.next)
        BY <1>12, <3>2 DEF ReconcileWrites, Idle, RecSet, disk
      <3>. QED BY <3>1, <3>2
    <2>1. TypeOp'
      BY <2>0, TransitionFacts DEF TypeOp
    <2>2. TypeRec'
      BY <2>0 DEF TypeRec
    <2>3. RetiredInv'
      BY <2>0, TransitionFacts DEF RetiredInv, Spent, PurgedVolumes
    <2>4. AttemptInv'
      BY <2>0, TransitionFacts DEF AttemptInv
    <2>5. CopyInv'
      BY <2>0 DEF CopyInv
    <2>6. WriteInv'
      BY <2>0 DEF WriteInv, AllPurged, PurgedVolumes
    <2>7. FinalInv'
      BY <2>0, TransitionFacts DEF FinalInv, WriteInv, MayTransition, AllPurged,
          PurgedVolumes
    <2>8. TrackInv'
      <3>1. CASE op' = op
        BY <2>0, <3>1 DEF TrackInv, Purges, Restores, PurgeSide, RestoreSide
      <3>2. CASE op' # op
        <4>1. /\ PurgeSide => PurgeSide'
              /\ RestoreSide => RestoreSide'
              /\ PurgeSide' => PurgeSide \/ rec.next = "Purging"
              /\ rec.next = "Purging" => ~window
          BY <2>0, <3>2, TransitionFacts DEF MayTransition
        <4>2. (Purges' => Purges) /\ (Restores' => Restores)
          BY <2>0 DEF Purges, Restores
        <4>. QED BY <2>0, <4>1, <4>2 DEF TrackInv
      <3>. QED BY <3>1, <3>2
    <2>9. TypeOutbox' /\ TypeReceiving' /\ TypeSession' /\ TypeClaims' /\ TypeRun' /\
        TypeJournal' /\ TypeFence' /\ TypeGate' /\ TypeJob' /\ TypePlace' /\ TypeRest' /\
        ClaimInv' /\ RunInv' /\ ReportInv' /\ GateInv' /\ FenceInv' /\ MoveInv' /\ TreeInv'
        /\ PurgedInv' /\ DoneInv'
      <3>1. UNCHANGED <<claims, fence, gate, job, journal, outbox, place, receiving,
          reports, run, session, up, volumes>>
        BY <1>12 DEF ReconcileWrites, Store, agent, disk, jobs
      <3>2. TypeOutbox' /\ TypeReceiving' /\ TypeSession' /\ TypeClaims'
        BY <3>1 DEF TypeOutbox, TypeReceiving, TypeSession, TypeClaims
      <3>3. TypeRun' /\ TypeJournal' /\ TypeFence' /\ TypeGate'
        BY <3>1 DEF TypeRun, TypeJournal, TypeFence, TypeGate
      <3>4. TypeJob' /\ TypePlace' /\ TypeRest' /\ ClaimInv'
        BY <3>1 DEF TypeJob, TypePlace, TypeRest, ClaimInv
      <3>5. RunInv' /\ ReportInv' /\ GateInv' /\ FenceInv'
        BY <3>1, RunKept DEF ReportInv, GateInv, FenceInv
      <3>6. MoveInv' /\ TreeInv' /\ PurgedInv' /\ DoneInv'
        BY <3>1, MoveKept, PurgedKept DEF TreeInv, TreeOk, Kept, DoneInv, PurgedVolumes
      <3>. QED BY <3>2, <3>3, <3>4, <3>5, <3>6
    <2>. QED BY <2>1, <2>2, <2>3, <2>4, <2>5, <2>6, <2>7, <2>8, <2>9 DEF IInv
  <1>13. ASSUME ReconcileInterrupted
        PROVE  IInv'
    <2>0. /\ rec' \in RecSet /\ rec'.at = "idle" /\ current' \subseteq current
          /\ UNCHANGED <<op, window, erased, outbox, receiving, journal, volumes>>
      BY <1>13 DEF ReconcileInterrupted, Idle, RecSet, central_but_rec, disk
    <2>1. TypeRec'
      BY <2>0 DEF TypeRec
    <2>2. AttemptInv'
      BY <2>0 DEF AttemptInv
    <2>3. CopyInv'
      BY <2>0 DEF CopyInv
    <2>4. WriteInv'
      BY <2>0 DEF WriteInv, AllPurged, PurgedVolumes
    <2>5. FinalInv'
      BY <2>0 DEF FinalInv, AllPurged, PurgedVolumes
    <2>6. TrackInv'
      BY <2>0 DEF TrackInv, Purges, Restores, PurgeSide, RestoreSide
    <2>7. TypeOp' /\ TypeOutbox' /\ TypeReceiving' /\ TypeSession' /\ TypeClaims' /\
        TypeRun' /\ TypeJournal' /\ TypeFence' /\ TypeGate' /\ TypeJob' /\ TypePlace' /\
        TypeRest' /\ ClaimInv' /\ RunInv' /\ ReportInv' /\ GateInv' /\ FenceInv' /\
        MoveInv' /\ TreeInv' /\ PurgedInv' /\ DoneInv' /\ RetiredInv'
      <3>1. UNCHANGED <<claims, fence, gate, job, journal, op, outbox, place, receiving,
          reports, run, session, up, volumes>>
        BY <1>13 DEF ReconcileInterrupted, Happens, central_but_rec, agent, disk, jobs
      <3>2. TypeOp' /\ TypeOutbox' /\ TypeReceiving' /\ TypeSession'
        BY <3>1 DEF TypeOp, TypeOutbox, TypeReceiving, TypeSession
      <3>3. TypeClaims' /\ TypeRun' /\ TypeJournal' /\ TypeFence'
        BY <3>1 DEF TypeClaims, TypeRun, TypeJournal, TypeFence
      <3>4. TypeGate' /\ TypeJob' /\ TypePlace' /\ TypeRest'
        BY <3>1 DEF TypeGate, TypeJob, TypePlace, TypeRest
      <3>5. ClaimInv' /\ RunInv' /\ ReportInv' /\ GateInv'
        BY <3>1, RunKept DEF ClaimInv, ReportInv, GateInv
      <3>6. FenceInv' /\ MoveInv' /\ TreeInv' /\ PurgedInv'
        BY <3>1, MoveKept, PurgedKept DEF FenceInv, TreeInv, TreeOk, Kept
      <3>7. DoneInv' /\ RetiredInv'
        BY <3>1 DEF DoneInv, PurgedVolumes, RetiredInv, Spent
      <3>. QED BY <3>2, <3>3, <3>4, <3>5, <3>6, <3>7
    <2>. QED BY <2>1, <2>2, <2>3, <2>4, <2>5, <2>6, <2>7 DEF IInv
  <1>. HIDE ConstantsAssumption DEF ConstantsAssumption, NoneAssumption
  <1>14. ASSUME NEW v \in Volumes, ReceiveReport(v)
        PROVE  IInv'
    <2>0. /\ TypeOutbox' /\ DOMAIN outbox' = DOMAIN outbox
          /\ \A b \in DOMAIN outbox : b.action = "purge" /\ outbox'[b].retired =>
                outbox[b].retired \/ b.volume \in PurgedVolumes
          /\ reports' \in [Volumes -> SUBSET ClaimSet] /\ \A w \in Volumes : reports'[w] \subseteq reports[w]
          /\ TypeReceiving'
          /\ \A w \in Volumes : receiving'[w] # None =>
                \/ receiving'[w] = receiving[w]
                \/ /\ receiving'[w].report \in reports[w] /\ receiving'[w].report.result # "done"
                   /\ ~receiving'[w].stopped
          /\ current' \subseteq Volumes \cup {Reconciler} /\ (Reconciler \in current' => Reconciler \in current)
          /\ UNCHANGED <<op, window, erased, rec, up, claims, run, journal, volumes>>
      <3>1. /\ up[v] /\ receiving[v] = None
            /\ UNCHANGED <<op, window, erased, rec, up, claims, run, journal, volumes>>
        BY <1>14 DEF ReceiveReport, disk
      <3>2. PICK r \in reports[v] :
              \/ /\ Drop(v, r)
                 /\ UNCHANGED <<outbox, receiving, current>>
              \/ /\ r.result = "done" /\ Retire(r.cmd) /\ Drop(v, r)
                 /\ UNCHANGED <<receiving, current>>
              \/ /\ r.result # "done"
                 /\ receiving' = [receiving EXCEPT
                                    ![v] = [report |-> r, seen |-> op.state, stopped |-> FALSE]]
                 /\ current' = current \cup {v}
                 /\ UNCHANGED <<outbox, reports>>
        BY <1>14 DEF ReceiveReport
      <3>3. r \in claims[v] /\ r \in ClaimSet /\ r.cmd \in DOMAIN outbox /\ r.cmd.volume = v
        BY DEF ReportInv, ClaimInv, TypeClaims
      <3>4. reports' \in [Volumes -> SUBSET ClaimSet]
            /\ \A w \in Volumes : reports'[w] \subseteq reports[w]
        BY <3>2 DEF Drop, TypeClaims
      <3>5. CASE Drop(v, r) /\ UNCHANGED <<outbox, receiving, current>>
        BY <3>1, <3>4, <3>5 DEF TypeOutbox, TypeReceiving, TypeRec
      <3>6. CASE r.result = "done" /\ Retire(r.cmd) /\ UNCHANGED <<receiving, current>>
        <4>1. /\ TypeOutbox' /\ DOMAIN outbox' = DOMAIN outbox
              /\ \A b \in DOMAIN outbox : b # r.cmd => outbox'[b] = outbox[b]
          BY <3>6, OutboxFacts DEF Retire
        <4>2. r.cmd.action = "purge" => v \in PurgedVolumes
          BY <3>3, <3>6 DEF DoneInv
        <4>. QED BY <3>1, <3>3, <3>4, <3>6, <4>1, <4>2 DEF TypeReceiving, TypeRec
      <3>7. CASE /\ r.result # "done"
                 /\ receiving' = [receiving EXCEPT
                                    ![v] = [report |-> r, seen |-> op.state, stopped |-> FALSE]]
                 /\ current' = current \cup {v}
                 /\ UNCHANGED <<outbox, reports>>
        <4>1. [report |-> r, seen |-> op.state, stopped |-> FALSE] \in ReceivingSet
          BY <3>3 DEF ReceivingSet, TypeOp, OpSet
        <4>2. TypeReceiving'
          BY <3>7, <4>1 DEF TypeReceiving
        <4>3. /\ receiving'[v].report = r /\ ~receiving'[v].stopped
              /\ \A w \in Volumes : w # v => receiving'[w] = receiving[w]
          BY <3>7 DEF TypeReceiving
        <4>4. /\ current' \subseteq Volumes \cup {Reconciler}
              /\ Reconciler \in current' => Reconciler \in current
          BY <3>7, ConstantsAssumption DEF ConstantsAssumption, TypeRec, Reconciler
        <4>. QED BY <3>1, <3>4, <3>7, <4>2, <4>3, <4>4 DEF TypeOutbox
      <3>. QED BY <3>2, <3>5, <3>6, <3>7
    <2>1. TypeOutbox'
      BY <2>0
    <2>2. TypeRec'
      BY <2>0 DEF TypeRec
    <2>3. TypeReceiving'
      BY <2>0
    <2>4. TypeClaims'
      BY <2>0 DEF TypeClaims
    <2>5. ClaimInv'
      BY <2>0 DEF ClaimInv
    <2>6. RunInv'
      BY <2>0, RunKept
    <2>7. ReportInv'
      BY <2>0 DEF ReportInv, ClaimInv, TypeClaims, ClaimSet, Results
    <2>8. RetiredInv'
      BY <2>0 DEF RetiredInv, Spent, PurgedVolumes
    <2>9. AttemptInv'
      BY <2>0 DEF AttemptInv
    <2>10. CopyInv'
      BY <2>0 DEF CopyInv
    <2>11. WriteInv'
      BY <2>0 DEF WriteInv, AllPurged, PurgedVolumes
    <2>12. TrackInv'
      BY <2>0 DEF TrackInv, Purges, Restores, PurgeSide, RestoreSide
    <2>13. TypeOp' /\ TypeSession' /\ TypeRun' /\ TypeJournal' /\ TypeFence' /\ TypeGate'
        /\ TypeJob' /\ TypePlace' /\ TypeRest' /\ GateInv' /\ FenceInv' /\ MoveInv' /\
        TreeInv' /\ PurgedInv' /\ DoneInv' /\ FinalInv'
      <3>1. UNCHANGED <<claims, erased, fence, gate, job, journal, op, place, rec, run,
          session, up, volumes>>
        BY <1>14 DEF ReceiveReport, Drop, Retire, disk, jobs
      <3>2. TypeOp' /\ TypeSession' /\ TypeRun' /\ TypeJournal'
        BY <3>1 DEF TypeOp, TypeSession, TypeRun, TypeJournal
      <3>3. TypeFence' /\ TypeGate' /\ TypeJob' /\ TypePlace'
        BY <3>1 DEF TypeFence, TypeGate, TypeJob, TypePlace
      <3>4. TypeRest' /\ GateInv' /\ FenceInv' /\ MoveInv'
        BY <3>1, MoveKept DEF TypeRest, GateInv, FenceInv
      <3>5. TreeInv' /\ PurgedInv' /\ DoneInv' /\ FinalInv'
        BY <3>1, PurgedKept DEF TreeInv, TreeOk, Kept, DoneInv, PurgedVolumes, FinalInv,
            AllPurged
      <3>. QED BY <3>2, <3>3, <3>4, <3>5
    <2>. QED BY <2>1, <2>2, <2>3, <2>4, <2>5, <2>6, <2>7, <2>8, <2>9, <2>10, <2>11, <2>12,
        <2>13 DEF IInv
  <1>15. ASSUME NEW v \in Volumes, FailureReceived(v)
        PROVE  IInv'
    <2>0. /\ reports' \in [Volumes -> SUBSET ClaimSet] /\ \A w \in Volumes : reports'[w] \subseteq reports[w]
          /\ TypeReceiving'
          /\ \A w \in Volumes : receiving'[w] # None =>
                \/ receiving'[w] = receiving[w]
                \/ /\ receiving[w] # None /\ receiving'[w].report = receiving[w].report
                   /\ op'.state \in Stopped
          /\ TypeOp' /\ op'.retry = op.retry
          /\ op.state \in Stopped => op'.state \in Stopped
          /\ (PurgeSide => PurgeSide') /\ (RestoreSide => RestoreSide') /\ (PurgeSide' => PurgeSide)
          /\ op'.state = "Finalizing" \/ op'.resume = "Finalizing" =>
                op.state = "Finalizing" \/ op.resume = "Finalizing"
          /\ current' \subseteq current /\ (Reconciler \in current' => op' = op)
          /\ UNCHANGED <<window, erased, outbox, rec, up, claims, run, journal, volumes>>
      <3>. DEFINE r == receiving[v].report
                  next == StopOf[r.result]
      <3>1. /\ receiving[v] # None /\ receiving[v] \in ReceivingSet
            /\ UNCHANGED <<window, erased, outbox, rec, up, claims, run, journal, volumes>>
        BY <1>15 DEF FailureReceived, disk, TypeReceiving
      <3>2. next \in Stopped /\ next \in States /\ next # "Purging" /\ next # "Finalizing"
        BY <3>1, StepFacts DEF ReportInv, StopOf, Stopped
      <3>. HIDE DEF next
      <3>3. \/ /\ op.state = next /\ UNCHANGED <<op, reports>> /\ current' = current \ {v}
               /\ receiving' = [receiving EXCEPT ![v].stopped = TRUE]
            \/ /\ MayTransition(v, receiving[v].seen, next) /\ Store(Transitioned(next))
               /\ UNCHANGED reports /\ receiving' = [receiving EXCEPT ![v].stopped = TRUE]
            \/ /\ UNCHANGED op /\ current' \subseteq current
               /\ Drop(v, r) \/ UNCHANGED reports
               /\ receiving' = [receiving EXCEPT ![v] = None]
        BY <1>15 DEF FailureReceived, next
      <3>. HIDE DEF r
      <3>4. reports' \in [Volumes -> SUBSET ClaimSet]
            /\ \A w \in Volumes : reports'[w] \subseteq reports[w]
        BY <3>3 DEF Drop, TypeClaims
      <3>5. ASSUME receiving' = [receiving EXCEPT ![v].stopped = TRUE]
            PROVE  /\ TypeReceiving' /\ receiving'[v].report = receiving[v].report
                   /\ \A w \in Volumes : w # v => receiving'[w] = receiving[w]
        <4>1. [receiving[v] EXCEPT !.stopped = TRUE] \in ReceivingSet
          BY <3>1 DEF ReceivingSet
        <4>. QED BY <3>1, <3>5, <4>1 DEF TypeReceiving, ReceivingSet
      <3>6. CASE /\ op.state = next /\ UNCHANGED <<op, reports>> /\ current' = current \ {v}
                 /\ receiving' = [receiving EXCEPT ![v].stopped = TRUE]
        <4>1. PurgeSide' = PurgeSide /\ RestoreSide' = RestoreSide /\ TypeOp'
          BY <3>6 DEF PurgeSide, RestoreSide, TypeOp
        <4>. QED BY <3>1, <3>2, <3>4, <3>5, <3>6, <4>1
      <3>7. CASE /\ MayTransition(v, receiving[v].seen, next) /\ Store(Transitioned(next))
                 /\ receiving' = [receiving EXCEPT ![v].stopped = TRUE]
        <4>1. CanBecome(op.state, next) /\ op' = Transitioned(next) /\ current' = {}
          BY <3>7 DEF MayTransition, Store
        <4>2. op'.state \in Stopped
          BY <3>2, <4>1, TransitionFacts
        <4>. QED BY <3>1, <3>2, <3>4, <3>5, <3>7, <4>1, <4>2, TransitionFacts
      <3>8. CASE /\ UNCHANGED op /\ current' \subseteq current
                 /\ receiving' = [receiving EXCEPT ![v] = None]
        <4>1. PurgeSide' = PurgeSide /\ RestoreSide' = RestoreSide /\ TypeOp'
          BY <3>8 DEF PurgeSide, RestoreSide, TypeOp
        <4>2. TypeReceiving' /\ \A w \in Volumes : receiving'[w] # None => receiving'[w] = receiving[w]
          BY <3>8 DEF TypeReceiving
        <4>. QED BY <3>1, <3>4, <3>8, <4>1, <4>2
      <3>. QED BY <3>3, <3>6, <3>7, <3>8
    <2>1. TypeOp'
      BY <2>0
    <2>2. TypeOutbox'
      BY <2>0 DEF TypeOutbox
    <2>3. TypeRec'
      BY <2>0 DEF TypeRec
    <2>4. TypeReceiving'
      BY <2>0
    <2>5. TypeClaims'
      BY <2>0 DEF TypeClaims
    <2>6. ClaimInv'
      BY <2>0 DEF ClaimInv
    <2>7. RunInv'
      BY <2>0, RunKept
    <2>8. ReportInv'
      BY <2>0 DEF ReportInv
    <2>9. RetiredInv'
      BY <2>0 DEF RetiredInv, Spent, PurgedVolumes
    <2>10. AttemptInv'
      BY <2>0 DEF AttemptInv
    <2>11. CopyInv'
      BY <2>0 DEF CopyInv
    <2>12. WriteInv'
      BY <2>0 DEF WriteInv, AllPurged, PurgedVolumes
    <2>13. FinalInv'
      BY <2>0 DEF FinalInv, AllPurged, PurgedVolumes
    <2>14. TrackInv'
      <3>1. (Purges' => Purges) /\ (Restores' => Restores)
        BY <2>0 DEF Purges, Restores
      <3>. QED BY <2>0, <3>1 DEF TrackInv
    <2>15. TypeSession' /\ TypeRun' /\ TypeJournal' /\ TypeFence' /\ TypeGate' /\ TypeJob'
        /\ TypePlace' /\ TypeRest' /\ GateInv' /\ FenceInv' /\ MoveInv' /\ TreeInv' /\
        PurgedInv' /\ DoneInv'
      <3>1. UNCHANGED <<claims, fence, gate, job, journal, place, run, session, up,
          volumes>>
        BY <1>15 DEF FailureReceived, Drop, Store, disk, jobs
      <3>2. TypeSession' /\ TypeRun' /\ TypeJournal' /\ TypeFence'
        BY <3>1 DEF TypeSession, TypeRun, TypeJournal, TypeFence
      <3>3. TypeGate' /\ TypeJob' /\ TypePlace' /\ TypeRest'
        BY <3>1 DEF TypeGate, TypeJob, TypePlace, TypeRest
      <3>4. GateInv' /\ FenceInv' /\ MoveInv' /\ TreeInv'
        BY <3>1, MoveKept DEF GateInv, FenceInv, TreeInv, TreeOk, Kept
      <3>5. PurgedInv' /\ DoneInv'
        BY <3>1, PurgedKept DEF DoneInv, PurgedVolumes
      <3>. QED BY <3>2, <3>3, <3>4, <3>5
    <2>. QED BY <2>1, <2>2, <2>3, <2>4, <2>5, <2>6, <2>7, <2>8, <2>9, <2>10, <2>11, <2>12,
        <2>13, <2>14, <2>15 DEF IInv
  <1>36. ASSUME NEW v \in Volumes, FailureRetires(v)
        PROVE  IInv'
    <2>0. /\ TypeOutbox' /\ DOMAIN outbox' = DOMAIN outbox
          /\ \A b \in DOMAIN outbox : b.action = "purge" /\ outbox'[b].retired =>
                outbox[b].retired \/ Spent(b)
          /\ reports' \in [Volumes -> SUBSET ClaimSet] /\ \A w \in Volumes : reports'[w] \subseteq reports[w]
          /\ TypeReceiving'
          /\ \A w \in Volumes : receiving'[w] # None => receiving'[w] = receiving[w]
          /\ UNCHANGED <<op, window, erased, current, rec, up, claims, run, journal, volumes>>
      <3>. DEFINE r == receiving[v].report
      <3>1. /\ receiving[v] # None /\ receiving[v].stopped
            /\ Retire(r.cmd) /\ Drop(v, r) /\ receiving' = [receiving EXCEPT ![v] = None]
            /\ UNCHANGED <<op, window, erased, current, rec, up, claims, run, journal, volumes>>
        BY <1>36 DEF FailureRetires, disk
      <3>2. r.cmd \in DOMAIN outbox /\ (r.cmd.action = "purge" => Spent(r.cmd))
        BY <3>1 DEF ReportInv, RetiredInv
      <3>. HIDE DEF r
      <3>3. /\ TypeOutbox' /\ DOMAIN outbox' = DOMAIN outbox
            /\ \A b \in DOMAIN outbox : b # r.cmd => outbox'[b] = outbox[b]
        BY <3>1, OutboxFacts DEF Retire
      <3>4. reports' \in [Volumes -> SUBSET ClaimSet]
            /\ \A w \in Volumes : reports'[w] \subseteq reports[w]
        BY <3>1 DEF Drop, TypeClaims
      <3>5. TypeReceiving' /\ \A w \in Volumes : receiving'[w] # None => receiving'[w] = receiving[w]
        BY <3>1 DEF TypeReceiving
      <3>. QED BY <3>1, <3>2, <3>3, <3>4, <3>5
    <2>1. TypeOp'
      BY <2>0 DEF TypeOp
    <2>2. TypeOutbox'
      BY <2>0
    <2>3. TypeRec'
      BY <2>0 DEF TypeRec
    <2>4. TypeReceiving'
      BY <2>0
    <2>5. TypeClaims'
      BY <2>0 DEF TypeClaims
    <2>6. ClaimInv'
      BY <2>0 DEF ClaimInv
    <2>7. RunInv'
      BY <2>0, RunKept
    <2>8. ReportInv'
      BY <2>0 DEF ReportInv
    <2>9. RetiredInv'
      BY <2>0 DEF RetiredInv, Spent, PurgedVolumes
    <2>10. AttemptInv'
      BY <2>0 DEF AttemptInv
    <2>11. CopyInv'
      BY <2>0 DEF CopyInv
    <2>12. WriteInv'
      BY <2>0 DEF WriteInv, AllPurged, PurgedVolumes
    <2>13. FinalInv'
      BY <2>0 DEF FinalInv, AllPurged, PurgedVolumes
    <2>14. TrackInv'
      <3>1. (Purges' => Purges) /\ (Restores' => Restores)
        BY <2>0 DEF Purges, Restores
      <3>. QED BY <2>0, <3>1 DEF TrackInv, PurgeSide, RestoreSide
    <2>15. TypeSession' /\ TypeRun' /\ TypeJournal' /\ TypeFence' /\ TypeGate' /\ TypeJob'
        /\ TypePlace' /\ TypeRest' /\ GateInv' /\ FenceInv' /\ MoveInv' /\ TreeInv' /\
        PurgedInv' /\ DoneInv'
      <3>1. UNCHANGED <<claims, fence, gate, job, journal, place, run, session, up,
          volumes>>
        BY <1>36 DEF FailureRetires, Retire, Drop, disk, jobs
      <3>2. TypeSession' /\ TypeRun' /\ TypeJournal' /\ TypeFence'
        BY <3>1 DEF TypeSession, TypeRun, TypeJournal, TypeFence
      <3>3. TypeGate' /\ TypeJob' /\ TypePlace' /\ TypeRest'
        BY <3>1 DEF TypeGate, TypeJob, TypePlace, TypeRest
      <3>4. GateInv' /\ FenceInv' /\ MoveInv' /\ TreeInv'
        BY <3>1, MoveKept DEF GateInv, FenceInv, TreeInv, TreeOk, Kept
      <3>5. PurgedInv' /\ DoneInv'
        BY <3>1, PurgedKept DEF DoneInv, PurgedVolumes
      <3>. QED BY <3>2, <3>3, <3>4, <3>5
    <2>. QED BY <2>1, <2>2, <2>3, <2>4, <2>5, <2>6, <2>7, <2>8, <2>9, <2>10, <2>11, <2>12,
        <2>13, <2>14, <2>15 DEF IInv
  <1>16. ASSUME NEW v \in Volumes, NEW a \in DOMAIN outbox, ClaimAssignment(v, a)
        PROVE  IInv'
    <2>0. /\ TypeClaims' /\ TypeRun' /\ run[v] = None
          /\ \A w \in Volumes : w # v => claims'[w] = claims[w] /\ run'[w] = run[w]
          /\ claims[v] \subseteq claims'[v]
          /\ \A c \in claims'[v] : c \in claims[v] \/ (c.cmd = a /\ c.result = None)
          /\ \E c \in claims'[v] : c.cmd = a
          /\ \A c \in claims[v] : c.cmd # a
          /\ run'[v].cmd = a /\ run'[v].at = "fence" /\ run'[v].result = None
          /\ a.volume = v /\ up[v] /\ a \in DOMAIN outbox
          /\ UNCHANGED <<outbox, up, reports, receiving, gate, job, fence, journal, place>>
      <3>. DEFINE c0 == [cmd |-> a, session |-> session[v], result |-> None]
                  n == [cmd |-> a, at |-> "fence", root |-> 1, result |-> None]
      <3>1. /\ a.volume = v /\ up[v] /\ run[v] = None /\ \A c \in claims[v] : c.cmd # a
            /\ claims' = [claims EXCEPT ![v] = @ \cup {c0}] /\ run' = [run EXCEPT ![v] = n]
            /\ UNCHANGED <<outbox, up, reports, receiving, gate, job, fence, journal, place>>
        BY <1>16 DEF ClaimAssignment, Deliverable, Claimed, central, disk, jobs
      <3>2. c0 \in ClaimSet /\ c0.cmd = a /\ c0.result = None
        BY DEF ClaimSet, Results, TypeSession, TypeOutbox
      <3>3. n \in RunSet /\ n.cmd = a /\ n.at = "fence" /\ n.result = None
        BY DEF RunSet, Results, Points, TypeOutbox
      <3>. HIDE DEF c0, n
      <3>. QED BY <3>1, <3>2, <3>3 DEF TypeClaims, TypeRun
    <2>1. TypeClaims'
      BY <2>0
    <2>2. TypeRun'
      BY <2>0
    <2>3. ClaimInv'
      BY <2>0 DEF ClaimInv
    <2>4. RunInv'
      BY <2>0, RunKept DEF RunInv
    <2>5. ReportInv'
      BY <2>0 DEF ReportInv
    <2>6. GateInv'
      BY <2>0 DEF GateInv
    <2>7. MoveInv'
      <3>1. MoveOk(v)'
        BY <2>0, MoveSettled
      <3>. QED BY <2>0, <3>1, MoveElsewhere
    <2>8. DoneInv'
      BY <2>0, NoneAssumption DEF DoneInv, PurgedVolumes, NoneAssumption
    <2>9. TypeOp' /\ TypeOutbox' /\ TypeRec' /\ TypeReceiving' /\ TypeSession' /\
        TypeJournal' /\ TypeFence' /\ TypeGate' /\ TypeJob' /\ TypePlace' /\ TypeRest' /\
        FenceInv' /\ TreeInv' /\ PurgedInv' /\ RetiredInv' /\ AttemptInv' /\ CopyInv' /\
        WriteInv' /\ FinalInv' /\ TrackInv'
      <3>1. UNCHANGED <<current, erased, fence, gate, job, journal, op, outbox, place, rec,
          receiving, session, up, volumes, window>>
        BY <1>16 DEF ClaimAssignment, Deliverable, central, disk, jobs
      <3>2. TypeOp' /\ TypeOutbox' /\ TypeRec' /\ TypeReceiving'
        BY <3>1 DEF TypeOp, TypeOutbox, TypeRec, TypeReceiving
      <3>3. TypeSession' /\ TypeJournal' /\ TypeFence' /\ TypeGate'
        BY <3>1 DEF TypeSession, TypeJournal, TypeFence, TypeGate
      <3>4. TypeJob' /\ TypePlace' /\ TypeRest' /\ FenceInv'
        BY <3>1 DEF TypeJob, TypePlace, TypeRest, FenceInv
      <3>5. TreeInv' /\ PurgedInv' /\ RetiredInv' /\ AttemptInv'
        BY <3>1, PurgedKept DEF TreeInv, TreeOk, Kept, RetiredInv, Spent, PurgedVolumes, AttemptInv
      <3>6. CopyInv' /\ WriteInv' /\ FinalInv' /\ TrackInv'
        BY <3>1 DEF CopyInv, WriteInv, AllPurged, PurgedVolumes, FinalInv, TrackInv,
            Purges, Restores, PurgeSide, RestoreSide
      <3>. QED BY <3>2, <3>3, <3>4, <3>5, <3>6
    <2>. QED BY <2>1, <2>2, <2>3, <2>4, <2>5, <2>6, <2>7, <2>8, <2>9 DEF IInv
  <1>17. ASSUME NEW v \in Volumes, NEW a \in DOMAIN outbox, ReplayReport(v, a)
        PROVE  IInv'
    <2>0. /\ TypeClaims' /\ TypeGate'
          /\ \A w \in Volumes : \A r \in reports'[w] :
                r \in reports[w] \/ (r \in claims[w] /\ r.result # None)
          /\ \A w \in Volumes : w # v => gate'[w] = gate[w]
          /\ run[v] = None
          /\ UNCHANGED <<outbox, run, claims, receiving, job>>
      <3>1. run[v] = None /\ UNCHANGED <<outbox, run, claims, receiving, job>>
        BY <1>17 DEF ReplayReport, Deliverable, central
      <3>2. PICK c \in claims[v] :
              /\ c.result # None /\ reports' = [reports EXCEPT ![v] = @ \cup {c}]
              /\ gate' = [gate EXCEPT ![v] = @ /\ ~(a.action = "restore" /\ c.result = "done")]
        BY <1>17 DEF ReplayReport
      <3>3. /\ TypeClaims'
            /\ \A w \in Volumes : \A r \in reports'[w] :
                 r \in reports[w] \/ (r \in claims[w] /\ r.result # None)
        BY <3>1, <3>2 DEF TypeClaims
      <3>4. TypeGate' /\ \A w \in Volumes : w # v => gate'[w] = gate[w]
        BY <3>2 DEF TypeGate
      <3>. QED BY <3>1, <3>3, <3>4
    <2>1. TypeClaims'
      BY <2>0
    <2>2. TypeGate'
      BY <2>0
    <2>3. ReportInv'
      BY <2>0 DEF ReportInv
    <2>4. GateInv'
      BY <2>0 DEF GateInv
    <2>5. TypeOp' /\ TypeOutbox' /\ TypeRec' /\ TypeReceiving' /\ TypeSession' /\ TypeRun'
        /\ TypeJournal' /\ TypeFence' /\ TypeJob' /\ TypePlace' /\ TypeRest' /\ ClaimInv'
        /\ RunInv' /\ FenceInv' /\ MoveInv' /\ TreeInv' /\ PurgedInv' /\ DoneInv' /\
        RetiredInv' /\ AttemptInv' /\ CopyInv' /\ WriteInv' /\ FinalInv' /\ TrackInv'
      <3>1. UNCHANGED <<claims, current, erased, fence, job, journal, op, outbox, place,
          rec, receiving, run, session, up, volumes, window>>
        BY <1>17 DEF ReplayReport, Deliverable, central, disk
      <3>2. TypeOp' /\ TypeOutbox' /\ TypeRec' /\ TypeReceiving'
        BY <3>1 DEF TypeOp, TypeOutbox, TypeRec, TypeReceiving
      <3>3. TypeSession' /\ TypeRun' /\ TypeJournal' /\ TypeFence'
        BY <3>1 DEF TypeSession, TypeRun, TypeJournal, TypeFence
      <3>4. TypeJob' /\ TypePlace' /\ TypeRest' /\ ClaimInv'
        BY <3>1 DEF TypeJob, TypePlace, TypeRest, ClaimInv
      <3>5. RunInv' /\ FenceInv' /\ MoveInv' /\ TreeInv'
        BY <3>1, RunKept, MoveKept DEF FenceInv, TreeInv, TreeOk, Kept
      <3>6. PurgedInv' /\ DoneInv' /\ RetiredInv' /\ AttemptInv'
        BY <3>1, PurgedKept DEF DoneInv, PurgedVolumes, RetiredInv, Spent, AttemptInv
      <3>7. CopyInv' /\ WriteInv' /\ FinalInv' /\ TrackInv'
        BY <3>1 DEF CopyInv, WriteInv, AllPurged, PurgedVolumes, FinalInv, TrackInv,
            Purges, Restores, PurgeSide, RestoreSide
      <3>. QED BY <3>2, <3>3, <3>4, <3>5, <3>6, <3>7
    <2>. QED BY <2>1, <2>2, <2>3, <2>4, <2>5 DEF IInv
  <1>18. ASSUME NEW v \in Volumes, FenceJobs(v)
        PROVE  IInv'
    BY <1>18, FenceStep DEF IInv
  <1>19. ASSUME NEW v \in Volumes, QuarantineBegins(v)
        PROVE  IInv'
    BY <1>19, QuarantineBeginsStep DEF IInv
  <1>20. ASSUME NEW v \in Volumes, RestoreBegins(v)
        PROVE  IInv'
    BY <1>20, RestoreBeginsStep DEF IInv
  <1>21. ASSUME NEW v \in Volumes, PurgeBegins(v)
        PROVE  IInv'
    BY <1>21, PurgeBeginsStep DEF IInv
  <1>22. ASSUME NEW v \in Volumes, QuarantineRoot(v)
        PROVE  IInv'
    BY <1>22, QuarantineRootStep DEF IInv
  <1>23. ASSUME NEW v \in Volumes, QuarantineRecords(v)
        PROVE  IInv'
    BY <1>23, QuarantineRecordsStep DEF IInv
  <1>37. ASSUME NEW v \in Volumes, QuarantineEnds(v)
        PROVE  IInv'
    BY <1>37, QuarantineEndsStep
  <1>24. ASSUME NEW v \in Volumes, RestoreRoot(v)
        PROVE  IInv'
    BY <1>24, RestoreRootStep DEF IInv
  <1>25. ASSUME NEW v \in Volumes, RestoreEnds(v)
        PROVE  IInv'
    BY <1>25, RestoreEndsStep DEF IInv
  <1>26. ASSUME NEW v \in Volumes, PurgeRoot(v)
        PROVE  IInv'
    BY <1>26, PurgeRootStep DEF IInv
  <1>27. ASSUME NEW v \in Volumes, PurgeEnds(v)
        PROVE  IInv'
    BY <1>27, PurgeEndsStep DEF IInv
  <1>28. ASSUME NEW v \in Volumes, CompleteClaim(v)
        PROVE  IInv'
    <2>0. /\ TypeClaims' /\ TypeRun' /\ run[v] # None /\ run[v].at = "finish"
          /\ \A w \in Volumes : w # v => claims'[w] = claims[w] /\ run'[w] = run[w]
          /\ run'[v].cmd = run[v].cmd /\ run'[v].at = "report" /\ run'[v].result = run[v].result
          /\ \A c \in claims'[v] : \/ c \in claims[v] /\ c.cmd # run[v].cmd
                                   \/ c.cmd = run[v].cmd /\ c.result = run[v].result
          /\ \A c \in claims[v] : c.cmd # run[v].cmd => c \in claims'[v]
          /\ \E c \in claims'[v] : c.cmd = run[v].cmd
          /\ UNCHANGED <<outbox, up, reports, receiving, gate, job, fence, journal, place>>
      <3>1. /\ run[v] # None /\ run[v].at = "finish" /\ run[v] \in RunSet
            /\ Continue(v, "report", run[v].root)
            /\ UNCHANGED <<outbox, up, reports, receiving, gate, job, fence, journal, place>>
        BY <1>28 DEF CompleteClaim, central, disk, jobs, TypeRun
      <3>2. /\ TypeRun' /\ \A w \in Volumes : w # v => run'[w] = run[w]
            /\ run'[v].cmd = run[v].cmd /\ run'[v].at = "report" /\ run'[v].result = run[v].result
        BY <3>1, ContinueFacts DEF Points, RunSet
      <3>3. /\ \A w \in Volumes : w # v => claims'[w] = claims[w] /\ claims[w] \in SUBSET ClaimSet
            /\ \E c \in claims[v] : c.cmd = run[v].cmd
        BY <1>28, <3>1 DEF CompleteClaim, TypeClaims, RunInv
      <3>4. /\ claims'[v] \subseteq ClaimSet
            /\ \A c \in claims'[v] : \/ c \in claims[v] /\ c.cmd # run[v].cmd
                                     \/ c.cmd = run[v].cmd /\ c.result = run[v].result
            /\ \A c \in claims[v] : c.cmd # run[v].cmd => c \in claims'[v]
            /\ \E c \in claims'[v] : c.cmd = run[v].cmd
        BY <1>28, <3>1, <3>3, CompletedClaims
      <3>5. claims' \in [Volumes -> SUBSET ClaimSet]
        <4>1. claims' = [w \in Volumes |-> claims'[w]]
          BY <1>28 DEF CompleteClaim, TypeClaims
        <4>2. \A w \in Volumes : claims'[w] \in SUBSET ClaimSet
          BY <3>3, <3>4
        <4>. QED BY <4>1, <4>2
      <3>6. TypeClaims'
        BY <3>1, <3>5 DEF TypeClaims
      <3>. QED BY <3>1, <3>2, <3>3, <3>4, <3>6
    <2>1. TypeClaims'
      BY <2>0
    <2>2. TypeRun'
      BY <2>0
    <2>3. ClaimInv'
      BY <2>0 DEF ClaimInv, RunInv
    <2>4. RunInv'
      BY <2>0, RunKept DEF RunInv
    <2>5. ReportInv'
      BY <2>0 DEF ReportInv, RunInv
    <2>6. GateInv'
      BY <2>0 DEF GateInv
    <2>7. MoveInv'
      <3>1. MoveOk(v)'
        BY <2>0, MoveSettled
      <3>. QED BY <2>0, <3>1, MoveElsewhere
    <2>8. DoneInv'
      BY <2>0 DEF DoneInv, PurgedVolumes
    <2>9. TypeOp' /\ TypeOutbox' /\ TypeRec' /\ TypeReceiving' /\ TypeSession' /\
        TypeJournal' /\ TypeFence' /\ TypeGate' /\ TypeJob' /\ TypePlace' /\ TypeRest' /\
        FenceInv' /\ TreeInv' /\ PurgedInv' /\ RetiredInv' /\ AttemptInv' /\ CopyInv' /\
        WriteInv' /\ FinalInv' /\ TrackInv'
      <3>1. UNCHANGED <<current, erased, fence, gate, job, journal, op, outbox, place, rec,
          receiving, session, up, volumes, window>>
        BY <1>28 DEF CompleteClaim, central, disk, jobs
      <3>2. TypeOp' /\ TypeOutbox' /\ TypeRec' /\ TypeReceiving'
        BY <3>1 DEF TypeOp, TypeOutbox, TypeRec, TypeReceiving
      <3>3. TypeSession' /\ TypeJournal' /\ TypeFence' /\ TypeGate'
        BY <3>1 DEF TypeSession, TypeJournal, TypeFence, TypeGate
      <3>4. TypeJob' /\ TypePlace' /\ TypeRest' /\ FenceInv'
        BY <3>1 DEF TypeJob, TypePlace, TypeRest, FenceInv
      <3>5. TreeInv' /\ PurgedInv' /\ RetiredInv' /\ AttemptInv'
        BY <3>1, PurgedKept DEF TreeInv, TreeOk, Kept, RetiredInv, Spent, PurgedVolumes, AttemptInv
      <3>6. CopyInv' /\ WriteInv' /\ FinalInv' /\ TrackInv'
        BY <3>1 DEF CopyInv, WriteInv, AllPurged, PurgedVolumes, FinalInv, TrackInv,
            Purges, Restores, PurgeSide, RestoreSide
      <3>. QED BY <3>2, <3>3, <3>4, <3>5, <3>6
    <2>. QED BY <2>1, <2>2, <2>3, <2>4, <2>5, <2>6, <2>7, <2>8, <2>9 DEF IInv
  <1>29. ASSUME NEW v \in Volumes, QueueReport(v)
        PROVE  IInv'
    <2>0. /\ TypeClaims' /\ TypeGate'
          /\ \A w \in Volumes : \A r \in reports'[w] :
                r \in reports[w] \/ (r \in claims[w] /\ r.result # None)
          /\ \A w \in Volumes : w # v => gate'[w] = gate[w]
          /\ TypeRun' /\ run'[v] = None /\ \A w \in Volumes : w # v => run'[w] = run[w]
          /\ UNCHANGED <<outbox, claims, receiving, job, up, fence, journal, place>>
      <3>. DEFINE c == CHOOSE c \in claims[v] : c.cmd = run[v].cmd
      <3>1. /\ run[v] # None /\ run[v].at = "report" /\ run' = [run EXCEPT ![v] = None]
            /\ UNCHANGED <<outbox, claims, receiving, job, up, fence, journal, place>>
        BY <1>29 DEF QueueReport, central, disk
      <3>2. c \in claims[v] /\ c.result # None
        BY <3>1 DEF RunInv
      <3>3. /\ reports' = [reports EXCEPT ![v] = @ \cup {c}]
            /\ gate' = [gate EXCEPT ![v] = @ /\ ~(c.cmd.action = "restore" /\ c.result = "done")]
        BY <1>29 DEF QueueReport
      <3>. HIDE DEF c
      <3>4. /\ TypeClaims'
            /\ \A w \in Volumes : \A r \in reports'[w] :
                 r \in reports[w] \/ (r \in claims[w] /\ r.result # None)
        BY <3>1, <3>2, <3>3 DEF TypeClaims
      <3>5. TypeGate' /\ \A w \in Volumes : w # v => gate'[w] = gate[w]
        BY <3>3 DEF TypeGate
      <3>6. TypeRun' /\ run'[v] = None /\ \A w \in Volumes : w # v => run'[w] = run[w]
        BY <3>1 DEF TypeRun
      <3>. QED BY <3>1, <3>4, <3>5, <3>6
    <2>1. TypeClaims'
      BY <2>0
    <2>2. TypeRun'
      BY <2>0
    <2>3. TypeGate'
      BY <2>0
    <2>4. RunInv'
      BY <2>0, RunKept DEF RunInv
    <2>5. ReportInv'
      BY <2>0 DEF ReportInv
    <2>6. GateInv'
      BY <2>0 DEF GateInv
    <2>7. MoveInv'
      <3>1. MoveOk(v)'
        BY <2>0, MoveSettled
      <3>. QED BY <2>0, <3>1, MoveElsewhere
    <2>8. DoneInv'
      BY <2>0 DEF DoneInv, PurgedVolumes
    <2>9. TypeOp' /\ TypeOutbox' /\ TypeRec' /\ TypeReceiving' /\ TypeSession' /\
        TypeJournal' /\ TypeFence' /\ TypeJob' /\ TypePlace' /\ TypeRest' /\ ClaimInv' /\
        FenceInv' /\ TreeInv' /\ PurgedInv' /\ RetiredInv' /\ AttemptInv' /\ CopyInv' /\
        WriteInv' /\ FinalInv' /\ TrackInv'
      <3>1. UNCHANGED <<claims, current, erased, fence, job, journal, op, outbox, place,
          rec, receiving, session, up, volumes, window>>
        BY <1>29 DEF QueueReport, central, disk
      <3>2. TypeOp' /\ TypeOutbox' /\ TypeRec' /\ TypeReceiving'
        BY <3>1 DEF TypeOp, TypeOutbox, TypeRec, TypeReceiving
      <3>3. TypeSession' /\ TypeJournal' /\ TypeFence' /\ TypeJob'
        BY <3>1 DEF TypeSession, TypeJournal, TypeFence, TypeJob
      <3>4. TypePlace' /\ TypeRest' /\ ClaimInv' /\ FenceInv'
        BY <3>1 DEF TypePlace, TypeRest, ClaimInv, FenceInv
      <3>5. TreeInv' /\ PurgedInv' /\ RetiredInv' /\ AttemptInv'
        BY <3>1, PurgedKept DEF TreeInv, TreeOk, Kept, RetiredInv, Spent, PurgedVolumes, AttemptInv
      <3>6. CopyInv' /\ WriteInv' /\ FinalInv' /\ TrackInv'
        BY <3>1 DEF CopyInv, WriteInv, AllPurged, PurgedVolumes, FinalInv, TrackInv,
            Purges, Restores, PurgeSide, RestoreSide
      <3>. QED BY <3>2, <3>3, <3>4, <3>5, <3>6
    <2>. QED BY <2>1, <2>2, <2>3, <2>4, <2>5, <2>6, <2>7, <2>8, <2>9 DEF IInv
  <1>30. ASSUME NEW v \in Volumes, AgentCrashes(v)
        PROVE  IInv'
    <2>0. /\ TypeSession' /\ TypeRun' /\ TypeGate' /\ TypeJob'
          /\ run'[v] = None /\ job'[v] = "idle"
          /\ \A w \in Volumes : w # v => up'[w] = up[w] /\ run'[w] = run[w] /\ gate'[w] = gate[w]
                                        /\ job'[w] = job[w]
          /\ UNCHANGED <<outbox, claims, fence, journal, place>>
      <3>1. /\ up' = [up EXCEPT ![v] = FALSE] /\ run' = [run EXCEPT ![v] = None]
            /\ gate' = [gate EXCEPT ![v] = FALSE] /\ job' = [job EXCEPT ![v] = "idle"]
            /\ UNCHANGED <<outbox, session, claims, fence, journal, place>>
        BY <1>30 DEF AgentCrashes, central, disk
      <3>2. TypeSession' /\ TypeRun' /\ TypeGate' /\ TypeJob'
        BY <3>1 DEF TypeSession, TypeRun, TypeGate, TypeJob
      <3>. QED BY <3>1, <3>2 DEF TypeSession, TypeRun, TypeGate, TypeJob
    <2>1. TypeSession'
      BY <2>0
    <2>2. TypeRun'
      BY <2>0
    <2>3. TypeGate'
      BY <2>0
    <2>4. TypeJob'
      BY <2>0
    <2>5. RunInv'
      BY <2>0, RunKept DEF RunInv
    <2>6. GateInv'
      BY <2>0 DEF GateInv
    <2>7. FenceInv'
      BY <2>0 DEF FenceInv
    <2>8. MoveInv'
      <3>1. MoveOk(v)'
        BY <2>0, MoveSettled
      <3>. QED BY <2>0, <3>1, MoveElsewhere
    <2>9. TreeInv'
      BY <2>0 DEF TreeInv, TreeOk, Kept
    <2>10. DoneInv'
      BY <2>0 DEF DoneInv, PurgedVolumes
    <2>11. TypeOp' /\ TypeOutbox' /\ TypeRec' /\ TypeReceiving' /\ TypeClaims' /\
        TypeJournal' /\ TypeFence' /\ TypePlace' /\ TypeRest' /\ ClaimInv' /\ ReportInv' /\
        PurgedInv' /\ RetiredInv' /\ AttemptInv' /\ CopyInv' /\ WriteInv' /\ FinalInv' /\
        TrackInv'
      <3>1. UNCHANGED <<claims, current, erased, fence, journal, op, outbox, place, rec,
          receiving, reports, volumes, window>>
        BY <1>30 DEF AgentCrashes, Happens, central, disk
      <3>2. TypeOp' /\ TypeOutbox' /\ TypeRec' /\ TypeReceiving'
        BY <3>1 DEF TypeOp, TypeOutbox, TypeRec, TypeReceiving
      <3>3. TypeClaims' /\ TypeJournal' /\ TypeFence' /\ TypePlace'
        BY <3>1 DEF TypeClaims, TypeJournal, TypeFence, TypePlace
      <3>4. TypeRest' /\ ClaimInv' /\ ReportInv' /\ PurgedInv'
        BY <3>1, PurgedKept DEF TypeRest, ClaimInv, ReportInv
      <3>5. RetiredInv' /\ AttemptInv' /\ CopyInv' /\ WriteInv'
        BY <3>1 DEF RetiredInv, Spent, PurgedVolumes, AttemptInv, CopyInv, WriteInv, AllPurged
      <3>6. FinalInv' /\ TrackInv'
        BY <3>1 DEF FinalInv, AllPurged, PurgedVolumes, TrackInv, Purges, Restores,
            PurgeSide, RestoreSide
      <3>. QED BY <3>2, <3>3, <3>4, <3>5, <3>6
    <2>. QED BY <2>1, <2>2, <2>3, <2>4, <2>5, <2>6, <2>7, <2>8, <2>9, <2>10, <2>11 DEF IInv
  <1>31. ASSUME NEW v \in Volumes, AgentStarts(v)
        PROVE  IInv'
    <2>0. /\ TypeSession' /\ TypeJournal' /\ ~up[v]
          /\ run[v] = None /\ PurgedVolumes' = PurgedVolumes
          /\ journal'[v] = journal[v] \/ (journal'[v] = NewJournal /\ journal[v] = None)
          /\ \A w \in Volumes : w # v => up'[w] = up[w] /\ journal'[w] = journal[w]
          /\ UNCHANGED <<op, window, erased, rec, current, volumes, outbox, claims, run, fence, job, place>>
      <3>1. /\ ~up[v]
            /\ session' = [session EXCEPT ![v] = IF @ < MaxSession THEN @ + 1 ELSE @]
            /\ journal' = [journal EXCEPT ![v] =
                             IF @ = None /\ Unfinished(v) # {} THEN NewJournal ELSE @]
            /\ up' = [up EXCEPT ![v] = \A c \in Unfinished(v) : c.session = session'[v]]
            /\ UNCHANGED <<op, window, erased, rec, current, volumes, outbox, claims, run, fence,
                           job, place>>
        BY <1>31 DEF AgentStarts, central, jobs
      <3>2. session' \in [Volumes -> 1 .. MaxSession]
        <4>1. MaxSession \in Nat /\ session \in [Volumes -> 1 .. MaxSession]
          BY ConstantsAssumption DEF ConstantsAssumption, TypeSession
        <4>2. (IF session[v] < MaxSession THEN session[v] + 1 ELSE session[v]) \in 1 .. MaxSession
          BY <4>1
        <4>. QED BY <3>1, <4>1, <4>2
      <3>3. up' \in [Volumes -> BOOLEAN] /\ \A w \in Volumes : w # v => up'[w] = up[w]
        BY <3>1 DEF TypeSession
      <3>4. /\ TypeJournal' /\ \A w \in Volumes : w # v => journal'[w] = journal[w]
            /\ journal'[v] = journal[v] \/ (journal'[v] = NewJournal /\ journal[v] = None)
        BY <3>1, NewJournalFacts DEF TypeJournal
      <3>5. PurgedVolumes' = PurgedVolumes
        BY <3>4, NewJournalFacts, NoneAssumption DEF PurgedVolumes, NoneAssumption
      <3>6. run[v] = None
        BY <3>1 DEF RunInv
      <3>. QED BY <3>1, <3>2, <3>3, <3>4, <3>5, <3>6 DEF TypeSession
    <2>1. TypeSession'
      BY <2>0
    <2>2. TypeJournal'
      BY <2>0
    <2>3. RunInv'
      BY <2>0 DEF RunInv
    <2>4. MoveInv'
      <3>1. MoveOk(v)'
        BY <2>0, MoveSettled
      <3>. QED BY <2>0, <3>1, MoveElsewhere
    <2>5. TreeInv'
      <3>1. TreeOk(v)'
        BY <2>0, NewJournalFacts DEF TreeInv, TreeOk, Kept
      <3>. QED BY <2>0, <3>1, TreeElsewhere
    <2>6. PurgedInv'
      <3>1. ASSUME NEW w \in PurgedVolumes PROVE journal'[w] = journal[w]
        BY <2>0, NoneAssumption DEF PurgedVolumes, NoneAssumption
      <3>. QED BY <2>0, <3>1 DEF PurgedInv, Inventoried
    <2>7. DoneInv'
      BY <2>0 DEF DoneInv
    <2>8. RetiredInv'
      BY <1>31, <2>0 DEF RetiredInv, Spent, AgentStarts, central
    <2>9. WriteInv'
      BY <2>0 DEF WriteInv, AllPurged
    <2>10. FinalInv'
      BY <2>0 DEF FinalInv, AllPurged
    <2>11. TrackInv'
      <3>1. PurgeSide' = PurgeSide /\ RestoreSide' = RestoreSide
        BY <2>0 DEF PurgeSide, RestoreSide
      <3>2. (Purges' => Purges) /\ (Restores' => Restores)
        BY <2>0, NewJournalFacts DEF Purges, Restores
      <3>. QED BY <2>0, <3>1, <3>2 DEF TrackInv
    <2>12. TypeOp' /\ TypeOutbox' /\ TypeRec' /\ TypeReceiving' /\ TypeClaims' /\ TypeRun'
        /\ TypeFence' /\ TypeGate' /\ TypeJob' /\ TypePlace' /\ TypeRest' /\ ClaimInv' /\
        ReportInv' /\ GateInv' /\ FenceInv' /\ AttemptInv' /\ CopyInv'
      <3>1. UNCHANGED <<claims, current, fence, gate, job, op, outbox, place, rec,
          receiving, reports, run, volumes>>
        BY <1>31 DEF AgentStarts, central, jobs
      <3>2. TypeOp' /\ TypeOutbox' /\ TypeRec' /\ TypeReceiving'
        BY <3>1 DEF TypeOp, TypeOutbox, TypeRec, TypeReceiving
      <3>3. TypeClaims' /\ TypeRun' /\ TypeFence' /\ TypeGate'
        BY <3>1 DEF TypeClaims, TypeRun, TypeFence, TypeGate
      <3>4. TypeJob' /\ TypePlace' /\ TypeRest' /\ ClaimInv'
        BY <3>1 DEF TypeJob, TypePlace, TypeRest, ClaimInv
      <3>5. ReportInv' /\ GateInv' /\ FenceInv' /\ AttemptInv'
        BY <3>1 DEF ReportInv, GateInv, FenceInv, AttemptInv
      <3>6. CopyInv'
        BY <3>1 DEF CopyInv
      <3>. QED BY <3>2, <3>3, <3>4, <3>5, <3>6
    <2>. QED BY <2>1, <2>2, <2>3, <2>4, <2>5, <2>6, <2>7, <2>8, <2>9, <2>10, <2>11, <2>12
        DEF IInv
  <1>32. ASSUME NEW v \in Volumes, JobBegins(v)
        PROVE  IInv'
    <2>1. TypeJob'
      BY <1>32 DEF JobBegins, Happens, central, agent, disk, TypeJob
    <2>2. GateInv'
      BY <1>32 DEF JobBegins, Happens, central, agent, disk, GateInv
    <2>3. FenceInv'
      BY <1>32 DEF JobBegins, Happens, central, agent, disk, FenceInv
    <2>4. TreeInv'
      BY <1>32 DEF JobBegins, Happens, central, agent, disk, TreeInv, TreeOk, Kept
    <2>5. TypeOp' /\ TypeOutbox' /\ TypeRec' /\ TypeReceiving' /\ TypeSession' /\
        TypeClaims' /\ TypeRun' /\ TypeJournal' /\ TypeFence' /\ TypeGate' /\ TypePlace' /\
        TypeRest' /\ ClaimInv' /\ RunInv' /\ ReportInv' /\ MoveInv' /\ PurgedInv' /\
        DoneInv' /\ RetiredInv' /\ AttemptInv' /\ CopyInv' /\ WriteInv' /\ FinalInv' /\
        TrackInv'
      <3>1. UNCHANGED <<claims, current, erased, fence, gate, journal, op, outbox, place,
          rec, receiving, reports, run, session, up, volumes, window>>
        BY <1>32 DEF JobBegins, Happens, central, agent, disk
      <3>2. TypeOp' /\ TypeOutbox' /\ TypeRec' /\ TypeReceiving'
        BY <3>1 DEF TypeOp, TypeOutbox, TypeRec, TypeReceiving
      <3>3. TypeSession' /\ TypeClaims' /\ TypeRun' /\ TypeJournal'
        BY <3>1 DEF TypeSession, TypeClaims, TypeRun, TypeJournal
      <3>4. TypeFence' /\ TypeGate' /\ TypePlace' /\ TypeRest'
        BY <3>1 DEF TypeFence, TypeGate, TypePlace, TypeRest
      <3>5. ClaimInv' /\ RunInv' /\ ReportInv' /\ MoveInv'
        BY <3>1, RunKept, MoveKept DEF ClaimInv, ReportInv
      <3>6. PurgedInv' /\ DoneInv' /\ RetiredInv' /\ AttemptInv'
        BY <3>1, PurgedKept DEF DoneInv, PurgedVolumes, RetiredInv, Spent, AttemptInv
      <3>7. CopyInv' /\ WriteInv' /\ FinalInv' /\ TrackInv'
        BY <3>1 DEF CopyInv, WriteInv, AllPurged, PurgedVolumes, FinalInv, TrackInv,
            Purges, Restores, PurgeSide, RestoreSide
      <3>. QED BY <3>2, <3>3, <3>4, <3>5, <3>6, <3>7
    <2>. QED BY <2>1, <2>2, <2>3, <2>4, <2>5 DEF IInv
  <1>33. ASSUME NEW v \in Volumes, JobAdmitted(v)
        PROVE  IInv'
    <2>1. TypeJob'
      BY <1>33 DEF JobAdmitted, central, agent, disk, TypeJob
    <2>2. GateInv'
      BY <1>33 DEF JobAdmitted, central, agent, disk, GateInv
    <2>3. FenceInv'
      BY <1>33 DEF JobAdmitted, central, agent, disk, FenceInv
    <2>4. TreeInv'
      BY <1>33 DEF JobAdmitted, central, agent, disk, TreeInv, TreeOk, Kept
    <2>5. TypeOp' /\ TypeOutbox' /\ TypeRec' /\ TypeReceiving' /\ TypeSession' /\
        TypeClaims' /\ TypeRun' /\ TypeJournal' /\ TypeFence' /\ TypeGate' /\ TypePlace' /\
        TypeRest' /\ ClaimInv' /\ RunInv' /\ ReportInv' /\ MoveInv' /\ PurgedInv' /\
        DoneInv' /\ RetiredInv' /\ AttemptInv' /\ CopyInv' /\ WriteInv' /\ FinalInv' /\
        TrackInv'
      <3>1. UNCHANGED <<claims, current, erased, fence, gate, journal, op, outbox, place,
          rec, receiving, reports, run, session, up, volumes, window>>
        BY <1>33 DEF JobAdmitted, central, agent, disk
      <3>2. TypeOp' /\ TypeOutbox' /\ TypeRec' /\ TypeReceiving'
        BY <3>1 DEF TypeOp, TypeOutbox, TypeRec, TypeReceiving
      <3>3. TypeSession' /\ TypeClaims' /\ TypeRun' /\ TypeJournal'
        BY <3>1 DEF TypeSession, TypeClaims, TypeRun, TypeJournal
      <3>4. TypeFence' /\ TypeGate' /\ TypePlace' /\ TypeRest'
        BY <3>1 DEF TypeFence, TypeGate, TypePlace, TypeRest
      <3>5. ClaimInv' /\ RunInv' /\ ReportInv' /\ MoveInv'
        BY <3>1, RunKept, MoveKept DEF ClaimInv, ReportInv
      <3>6. PurgedInv' /\ DoneInv' /\ RetiredInv' /\ AttemptInv'
        BY <3>1, PurgedKept DEF DoneInv, PurgedVolumes, RetiredInv, Spent, AttemptInv
      <3>7. CopyInv' /\ WriteInv' /\ FinalInv' /\ TrackInv'
        BY <3>1 DEF CopyInv, WriteInv, AllPurged, PurgedVolumes, FinalInv, TrackInv,
            Purges, Restores, PurgeSide, RestoreSide
      <3>. QED BY <3>2, <3>3, <3>4, <3>5, <3>6, <3>7
    <2>. QED BY <2>1, <2>2, <2>3, <2>4, <2>5 DEF IInv
  <1>34. ASSUME NEW v \in Volumes, JobEnds(v)
        PROVE  IInv'
    <2>0. /\ TypePlace' /\ TypeJob' /\ job[v] = "running" /\ job'[v] = "idle"
          /\ \A w \in Volumes : w # v => job'[w] = job[w] /\ place'[w] = place[w]
          /\ \A r \in Roots : "quarantine" \in place'[v][r] => "quarantine" \in place[v][r]
          /\ run[v] = None \/ run[v].at \in {"fence", "finish", "report"}
          /\ \E r \in Roots : TRUE
          /\ UNCHANGED <<run, gate, fence, journal>>
      <3>1. /\ job[v] = "running" /\ job' = [job EXCEPT ![v] = "idle"]
            /\ UNCHANGED <<run, gate, fence, journal>>
        BY <1>34 DEF JobEnds, agent
      <3>2. PICK r \in Roots : Put(v, r, place[v][r] \cup {"active"})
        BY <1>34 DEF JobEnds
      <3>3. place[v][r] \cup {"active"} \in SUBSET {"active", "quarantine"}
        BY DEF TypePlace
      <3>4. TypePlace' /\ place'[v][r] = place[v][r] \cup {"active"}
            /\ \A s \in Roots : s # r => place'[v][s] = place[v][s]
        BY <3>2, <3>3, PutFacts DEF TypePlace
      <3>5. \A w \in Volumes : w # v => place'[w] = place[w]
        BY <3>2 DEF Put, TypePlace
      <3>6. run[v] = None \/ run[v].at \in {"fence", "finish", "report"}
        BY <3>1 DEF GateInv, TypeRun, RunSet, Points
      <3>. QED BY <3>1, <3>4, <3>5, <3>6 DEF TypeJob
    <2>1. TypeJob'
      BY <2>0
    <2>2. TypePlace'
      BY <2>0
    <2>3. GateInv'
      BY <2>0 DEF GateInv
    <2>4. FenceInv'
      BY <2>0 DEF FenceInv
    <2>5. MoveInv'
      <3>1. MoveOk(v)'
        BY <2>0, MoveSettled
      <3>. QED BY <2>0, <3>1, MoveElsewhere
    <2>6. TreeInv'
      <3>1. TreeOk(v)'
        BY <2>0, NewJournalFacts DEF TreeInv, TreeOk, Kept
      <3>. QED BY <2>0, <3>1, TreeElsewhere
    <2>7. PurgedInv'
      <3>1. v \notin PurgedVolumes
        <4>. SUFFICES ASSUME v \in PurgedVolumes PROVE FALSE
          OBVIOUS
        <4>1. Kept(v) /\ Inventoried(v) /\ TreeOk(v)
          BY DEF PurgedVolumes, PurgedInv, Kept, TreeInv
        <4>. QED BY <2>0, <4>1 DEF TreeOk, Inventoried
      <3>. QED BY <2>0, <3>1 DEF PurgedInv, PurgedVolumes, Inventoried
    <2>8. TypeOp' /\ TypeOutbox' /\ TypeRec' /\ TypeReceiving' /\ TypeSession' /\
        TypeClaims' /\ TypeRun' /\ TypeJournal' /\ TypeFence' /\ TypeGate' /\ TypeRest' /\
        ClaimInv' /\ RunInv' /\ ReportInv' /\ DoneInv' /\ RetiredInv' /\ AttemptInv' /\
        CopyInv' /\ WriteInv' /\ FinalInv' /\ TrackInv'
      <3>1. UNCHANGED <<claims, current, erased, fence, gate, journal, op, outbox, rec,
          receiving, reports, run, session, up, volumes, window>>
        BY <1>34 DEF JobEnds, central, agent
      <3>2. TypeOp' /\ TypeOutbox' /\ TypeRec' /\ TypeReceiving'
        BY <3>1 DEF TypeOp, TypeOutbox, TypeRec, TypeReceiving
      <3>3. TypeSession' /\ TypeClaims' /\ TypeRun' /\ TypeJournal'
        BY <3>1 DEF TypeSession, TypeClaims, TypeRun, TypeJournal
      <3>4. TypeFence' /\ TypeGate' /\ TypeRest' /\ ClaimInv'
        BY <3>1 DEF TypeFence, TypeGate, TypeRest, ClaimInv
      <3>5. RunInv' /\ ReportInv' /\ DoneInv' /\ RetiredInv'
        BY <3>1, RunKept DEF ReportInv, DoneInv, PurgedVolumes, RetiredInv, Spent
      <3>6. AttemptInv' /\ CopyInv' /\ WriteInv' /\ FinalInv'
        BY <3>1 DEF AttemptInv, CopyInv, WriteInv, AllPurged, PurgedVolumes, FinalInv
      <3>7. TrackInv'
        BY <3>1 DEF TrackInv, Purges, Restores, PurgeSide, RestoreSide
      <3>. QED BY <3>2, <3>3, <3>4, <3>5, <3>6, <3>7
    <2>. QED BY <2>1, <2>2, <2>3, <2>4, <2>5, <2>6, <2>7, <2>8 DEF IInv
  <1>35. CASE UNCHANGED vars
    <2>1. UNCHANGED <<claims, current, erased, fence, gate, job, journal, op, outbox,
        place, rec, receiving, reports, run, session, up, volumes, window>>
      BY <1>35 DEF vars, central, agent, disk, jobs
    <2>2. TypeOp' /\ TypeOutbox' /\ TypeRec' /\ TypeReceiving'
      BY <2>1 DEF TypeOp, TypeOutbox, TypeRec, TypeReceiving
    <2>3. TypeSession' /\ TypeClaims' /\ TypeRun' /\ TypeJournal'
      BY <2>1 DEF TypeSession, TypeClaims, TypeRun, TypeJournal
    <2>4. TypeFence' /\ TypeGate' /\ TypeJob' /\ TypePlace'
      BY <2>1 DEF TypeFence, TypeGate, TypeJob, TypePlace
    <2>5. TypeRest' /\ ClaimInv' /\ RunInv' /\ ReportInv'
      BY <2>1, RunKept DEF TypeRest, ClaimInv, ReportInv
    <2>6. GateInv' /\ FenceInv' /\ MoveInv' /\ TreeInv'
      BY <2>1, MoveKept DEF GateInv, FenceInv, TreeInv, TreeOk, Kept
    <2>7. PurgedInv' /\ DoneInv' /\ RetiredInv' /\ AttemptInv'
      BY <2>1, PurgedKept DEF DoneInv, PurgedVolumes, RetiredInv, Spent, AttemptInv
    <2>8. CopyInv' /\ WriteInv' /\ FinalInv' /\ TrackInv'
      BY <2>1 DEF CopyInv, WriteInv, AllPurged, PurgedVolumes, FinalInv, TrackInv, Purges,
          Restores, PurgeSide, RestoreSide
    <2>. QED BY <2>2, <2>3, <2>4, <2>5, <2>6, <2>7, <2>8 DEF IInv
  <1>. QED BY <1>1, <1>2, <1>3, <1>4, <1>5, <1>6, <1>7, <1>8, <1>9, <1>10, <1>11, <1>12,
      <1>13, <1>14, <1>15, <1>16, <1>17, <1>18, <1>19, <1>20, <1>21, <1>22, <1>23, <1>24,
      <1>25, <1>26, <1>27, <1>28, <1>29, <1>30, <1>31, <1>32, <1>33, <1>34, <1>35,
      <1>36, <1>37, <1>38 DEF Next,
      UserStep, TimeStep, ReconcileStep, ReportStep, ExecuteStep, ClaimStep, JobStep

(* The initial states satisfy the invariant.                               *)
LEMMA InitIInv == Init => IInv
  <1>. SUFFICES ASSUME Init PROVE IInv
    OBVIOUS
  <1>. DEFINE o == [state |-> "Requested", resume |-> None, completion |-> None, gen |-> 1,
                    retry |-> 0]
  <1>1. o \in OpSet /\ o.state = "Requested" /\ o.resume = None /\ o.completion = None
        /\ o.retry = 0
    BY StepFacts DEF OpSet, StepNames
  <1>2. op = o
    BY DEF Init
  <1>. HIDE DEF o
  <1>3. TypeOp
    BY <1>1, <1>2 DEF TypeOp, Stopped
  <1>4. /\ TypeOutbox /\ ClaimInv /\ RunInv /\ ReportInv /\ GateInv
    BY DEF Init, TypeOutbox, ClaimInv, RunInv, ReportInv, GateInv
  <1>5. TypeRec /\ rec.at = "idle"
    BY DEF Init, TypeRec, Idle, RecSet
  <1>6. /\ TypeReceiving /\ TypeSession /\ TypeClaims /\ TypeRun /\ TypeJournal /\ TypeFence
        /\ TypeGate /\ TypeJob
    BY ConstantsAssumption
        DEF Init, ConstantsAssumption, TypeReceiving, TypeSession, TypeClaims, TypeRun,
            TypeJournal, TypeFence, TypeGate, TypeJob
  <1>7. TypePlace /\ TypeRest /\ \A v \in Volumes, r \in Roots : "quarantine" \notin place[v][r]
    <2>1. PICK c \in Scenarios :
            /\ volumes = c.volumes
            /\ place = [v \in Volumes |->
                         [r \in Roots |-> IF r \in c.absent THEN {} ELSE {"active"}]]
      BY DEF Init
    <2>2. c.volumes \subseteq Volumes
      BY ConstantsAssumption DEF ConstantsAssumption
    <2>. QED BY <2>1, <2>2 DEF TypePlace, TypeRest
  <1>8. FenceInv
    BY <1>7 DEF FenceInv
  <1>9. MoveInv
    BY DEF Init, MoveInv, MoveOk
  <1>10. \A v \in Volumes : journal[v] \notin JournalSet
    BY NoneAssumption DEF Init, NoneAssumption
  <1>11. TreeInv /\ PurgedInv
    BY <1>10 DEF TreeInv, TreeOk, Kept, PurgedInv, PurgedVolumes
  <1>12. DoneInv /\ RetiredInv
    BY DEF Init, DoneInv, RetiredInv, Spent
  <1>13. AttemptInv /\ CopyInv /\ WriteInv
    BY <1>5 DEF Init, AttemptInv, CopyInv, WriteInv
  <1>14. FinalInv
    BY <1>1, <1>2, <1>5, NoneAssumption, StepFacts
        DEF Init, FinalInv, NoneAssumption, StepNames
  <1>15. TrackInv
    <2>1. ~PurgeSide /\ ~RestoreSide
      BY <1>1, <1>2, NoneAssumption, StepFacts
          DEF PurgeSide, RestoreSide, NoneAssumption, StepNames
    <2>2. DOMAIN outbox = {}
      BY DEF Init
    <2>3. ~Purges /\ ~Restores
      BY <1>5, <1>10, <2>2 DEF Purges, Restores
    <2>. QED BY <2>1, <2>3 DEF TrackInv
  <1>. QED BY <1>3, <1>4, <1>5, <1>6, <1>7, <1>8, <1>9, <1>11, <1>12, <1>13, <1>14, <1>15
           DEF IInv

-----------------------------------------------------------------------------
(* The invariant holds in every behaviour of the specification.            *)
THEOREM Invariance == Spec => []IInv
  <1>1. Init => IInv
    BY InitIInv
  <1>2. IInv /\ [Next]_vars => IInv'
    BY NextIInv
  <1>. QED BY <1>1, <1>2, PTL DEF Spec

(* Central and the Agents store well-formed records: an operation has a    *)
(* state to resume exactly when it is stopped, and a command runs only for *)
(* a claim of an Agent that is up.                                         *)
THEOREM TypeCorrect == Spec => []TypeOK
  <1>1. IInv => TypeOK
    <2>. SUFFICES ASSUME IInv PROVE TypeOK
      OBVIOUS
    <2>1. /\ op.state \in States /\ op.gen \in Nat /\ op.retry \in Nat
          /\ op.resume \in DOMAIN Steps \cup {None} /\ (op.resume # None) = (op.state \in Stopped)
          /\ op.completion \in {None, "Restored", "Purged"}
          /\ (op.completion # None) = (op.state = "Completed")
      BY DEF IInv, TypeOp, OpSet
    <2>2. \A a \in DOMAIN outbox :
            /\ a \in CommandSet
            /\ outbox[a] \in [session : 1 .. MaxSession, published : BOOLEAN, retired : BOOLEAN,
                              late : BOOLEAN]
      BY DEF IInv, TypeOutbox, RowSet
    <2>3. current \subseteq Volumes \cup {Reconciler} /\ rec.at \in {"idle", "ensure", "write"}
      BY DEF IInv, TypeRec, RecSet
    <2>4. ASSUME NEW v \in Volumes
          PROVE  /\ session[v] \in 1 .. MaxSession
                 /\ claims[v] \subseteq ClaimSet /\ reports[v] \subseteq claims[v]
                 /\ journal[v] \in JournalSet \cup {None}
                 /\ fence[v] \in Nat \cup {None}
                 /\ job[v] \in {"idle", "begun", "running"}
                 /\ run[v] # None => run[v].cmd \in Claimed(v) /\ up[v]
      <3>1. session[v] \in 1 .. MaxSession /\ claims[v] \subseteq ClaimSet
        BY DEF IInv, TypeSession, TypeClaims
      <3>2. reports[v] \subseteq claims[v]
        BY DEF IInv, ReportInv
      <3>3. /\ journal[v] \in JournalSet \cup {None} /\ fence[v] \in Nat \cup {None}
            /\ job[v] \in {"idle", "begun", "running"}
        BY DEF IInv, TypeJournal, TypeFence, TypeJob
      <3>4. run[v] # None => run[v].cmd \in Claimed(v) /\ up[v]
        BY DEF IInv, RunInv, Claimed
      <3>. QED BY <3>1, <3>2, <3>3, <3>4
    <2>5. place \in [Volumes -> [Roots -> SUBSET {"active", "quarantine"}]]
      BY DEF IInv, TypePlace
    <2>. QED BY <2>1, <2>2, <2>3, <2>4, <2>5 DEF TypeOK
  <1>. QED BY <1>1, Invariance, PTL

(* The metadata of a resource is erased only when no volume keeps a tree   *)
(* of it, whatever reports were lost, repeated, late or of another attempt.*)
THEOREM ErasedMeansPurged == Spec => []ErasedIsPurged
  <1>1. IInv => ErasedIsPurged
    <2>. SUFFICES ASSUME IInv, erased, NEW v \in volumes, NEW r \in Roots
                  PROVE  place[v][r] = {}
      BY DEF ErasedIsPurged
    <2>1. v \in PurgedVolumes
      BY DEF IInv, FinalInv, AllPurged
    <2>. QED BY <2>1 DEF IInv, PurgedInv
  <1>. QED BY <1>1, Invariance, PTL

(* A tree is destroyed only by an operation that purges, after its window, *)
(* and that cannot be restored any more.                                   *)
THEOREM DestroyedIsPastRecovery == Spec => []DestroyedPastRecovery
  <1>1. IInv => DestroyedPastRecovery
    <2>. SUFFICES ASSUME IInv, NEW v \in volumes, Destroyed(v)
                  PROVE  /\ \/ op.state \in {"Purging", "Finalizing"}
                            \/ op.state \in Stopped /\ op.resume \in {"Purging", "Finalizing"}
                            \/ op.completion = "Purged"
                         /\ ~window
      BY DEF DestroyedPastRecovery
    <2>1. v \in Volumes
      BY DEF IInv, TypeRest
    <2>2. journal[v] \in JournalSet /\ journal[v].purged # {}
      BY <2>1 DEF Destroyed, IInv, TypeJournal
    <2>3. PurgeSide /\ ~window
      BY <2>1, <2>2 DEF IInv, TrackInv, Purges
    <2>4. op.resume \in {"Purging", "Finalizing"} => op.state \in Stopped
      BY NoneAssumption, StepFacts DEF IInv, TypeOp, NoneAssumption, StepNames
    <2>. QED BY <2>3, <2>4 DEF PurgeSide
  <1>. QED BY <1>1, Invariance, PTL

(* No Job works on a resource that has a tree in quarantine, across any    *)
(* crash and restart of the Agent.                                         *)
THEOREM JobsAvoidQuarantine == Spec => []NoJobOnQuarantined
  <1>1. IInv => NoJobOnQuarantined
    BY DEF IInv, FenceInv, TypeRest, NoJobOnQuarantined
  <1>. QED BY <1>1, Invariance, PTL
=============================================================================
