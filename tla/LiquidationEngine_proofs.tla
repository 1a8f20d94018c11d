---------------------- MODULE LiquidationEngine_proofs ----------------------
(***************************************************************************)
(* Theorems about LiquidationEngine, for any payloads, profiles, quotes,   *)
(* channel capacity and concurrency limit.                                 *)
(***************************************************************************)
EXTENDS LiquidationEngine, FiniteSetTheorems, TLAPS

USE DEF vars, taskVars

-----------------------------------------------------------------------------
(* Nothing the tasks know of payload p changes. *)
Untouched(p) ==
  /\ pc'[p] = pc[p]
  /\ profile'[p] = profile[p]
  /\ job'[p] = job[p]
  /\ gas'[p] = gas[p]
  /\ refreshed'[p] = refreshed[p]
  /\ simulated'[p] = simulated[p]
  /\ sent'[p] = sent[p]

LEMMA UntouchedProgress ==
  ASSUME NEW p, Progress(p), Untouched(p)
  PROVE  Progress(p)'
BY DEF Progress, Untouched

(* A step of one task leaves every other payload alone. *)
LEMMA TaskStepIsLocal ==
  ASSUME TypeOK, NEW p \in Payloads, TaskStep(p),
         NEW q \in Payloads, q # p
  PROVE  Untouched(q)
BY DEF TypeOK, Untouched, TaskStep, ValidateProfile, FetchQuote, RejectQuote,
       SimulateJob, SimulationReverts, RefreshBorrower, RefreshFails, Requote,
       Resimulate, RevalidationFails, ExecuteLiquidation, CancelTask, Send, Drop, Goto

(* A task only runs while its payload is at a running place. *)
LEMMA TaskStepRuns ==
  ASSUME NEW p \in Payloads, TaskStep(p)
  PROVE  pc[p] \in Running
BY DEF Running, TaskStep, ValidateProfile, FetchQuote, RejectQuote,
       SimulateJob, SimulationReverts, RefreshBorrower, RefreshFails, Requote,
       Resimulate, RevalidationFails, ExecuteLiquidation, CancelTask

(* The loop ends in one of two ways, which leave the same behind. *)
LEMMA LoopEnds ==
  ASSUME StopLoop \/ CancelLoop
  PROVE  shutdown /\ loop # "stopped" /\ DropReceiver
BY DEF StopLoop, CancelLoop

(* What a quote answers, and the job built from it. *)
LEMMA QuotedJob ==
  ASSUME NEW r \in Profiles, NEW m \in QuoteOutcomes(r), Profitable(m, r)
  PROVE  /\ m \in Nat /\ m >= r.debt
         /\ r.debt > 0 /\ r.seize > 0
         /\ BuildJob(r, m) \in Job
<1>1. r \in Profile /\ r.debt > 0
  BY ProfilesAssumption, DebtAssumption
<1>2. m \in Nat /\ m >= r.debt
  BY <1>1, QuoteAssumption DEF QuoteOutcomes, Profitable, Profile
<1>3. r.seize > 0
  BY <1>1, <1>2 DEF QuoteOutcomes, Profile
<1>4. BuildJob(r, m) \in Job
  BY <1>1, <1>2 DEF BuildJob, RouteFor, Job, Route, Profile
<1>5. QED
  BY <1>1, <1>2, <1>3, <1>4

(* The fields try_revalidate_and_simulate replaces. *)
LEMMA UpdatedJob ==
  ASSUME NEW r \in Profiles, NEW m \in Nat, NEW j \in Job
  PROVE  /\ UpdateJob(j, r, m) \in Job
         /\ UpdateJob(j, r, m).debt = r.debt
         /\ UpdateJob(j, r, m).seize = r.seize
         /\ UpdateJob(j, r, m).minOut = m
         /\ UpdateJob(j, r, m).route.amount = r.seize
<1>1. r \in Profile
  BY ProfilesAssumption
<1>2. RouteFor(r) \in Route /\ RouteFor(r).amount = r.seize
  BY <1>1 DEF RouteFor, Route, Profile
<1>3. /\ r.debt \in Nat /\ r.seize \in Nat /\ r.shares \in Nat
  BY <1>1 DEF Profile
<1>4. UpdateJob(j, r, m) \in Job
  BY <1>2, <1>3 DEF UpdateJob, Job
<1>5. QED
  BY <1>2, <1>4 DEF UpdateJob, Job

-----------------------------------------------------------------------------
LEMMA InitIInv == Init => IInv
<1> SUFFICES ASSUME Init PROVE IInv
  OBVIOUS
<1>1. TypeOK
  <2>1. queue \in Seq(Payloads)
    BY DEF Init
  <2>2. QED
    BY <2>1, LimitAssumption DEF Init, TypeOK, Places
<1>2. ASSUME NEW p \in Payloads PROVE Progress(p)
  BY DEF Init, Progress, Running
<1>3. ChannelOK
  BY DEF Init, ChannelOK
<1>4. QED
  BY <1>1, <1>2, <1>3 DEF IInv

(* Moving on keeps the control variables in their types. *)
LEMMA GotoType ==
  ASSUME TypeOK, NEW p \in Payloads, NEW place \in Places, Goto(p, place)
  PROVE  /\ shutdown' \in BOOLEAN
         /\ loop' \in {"select", "acquire", "stopped"}
         /\ queue' \in Seq(Payloads)
         /\ permits' \in Nat
         /\ pc' \in [Payloads -> Places]
BY DEF TypeOK, Goto

LEMMA DropType ==
  ASSUME TypeOK, NEW p \in Payloads, NEW place \in Ended, Drop(p, place)
  PROVE  TypeOK'
<1>1. place \in Places
  BY DEF Places
<1>2. QED
  BY <1>1, GotoType DEF Drop, TypeOK

LEMMA DropProgress ==
  ASSUME TypeOK, NEW p \in Payloads, Progress(p), pc[p] \in Running,
         NEW place \in Ended, Drop(p, place)
  PROVE  Progress(p)'
<1>1. pc'[p] = place /\ sent'[p] = sent[p] /\ sent[p] = None
  BY DEF Drop, Goto, TypeOK, Progress, Running
<1>2. QED
  BY <1>1 DEF Progress, Running, Ended

(* The call of the contract is typed, and made from the broadcast. *)
LEMMA SendType ==
  ASSUME TypeOK, NEW p \in Payloads, Progress(p), pc[p] = "broadcast", Send(p),
         NEW place \in Ended, Goto(p, place)
  PROVE  TypeOK'
<1>1. place \in Places
  BY DEF Places
<1>2. [job |-> job[p], gas |-> gas[p]] \in Broadcast
  BY DEF Progress, Running, Broadcast
<1>3. QED
  BY <1>1, <1>2, GotoType DEF Send, TypeOK

LEMMA TaskStepType ==
  ASSUME IInv, NEW p \in Payloads, TaskStep(p)
  PROVE  TypeOK'
<1> USE DEF IInv
<1>1. CASE ValidateProfile(p)
  BY <1>1, GotoType, DropType DEF ValidateProfile, TypeOK, Places, Running, Ended
<1>2. CASE RejectQuote(p) \/ SimulationReverts(p)
  BY <1>2, DropType DEF RejectQuote, SimulationReverts, Ended
<1>3. CASE RefreshFails(p) \/ RevalidationFails(p)
  BY <1>3, DropType DEF RefreshFails, RevalidationFails, Ended
<1>4. CASE FetchQuote(p)
  BY <1>4, GotoType, QuotedJob
  DEF FetchQuote, Progress, TypeOK, Places, Running, Ended
<1>5. CASE SimulateJob(p)
  BY <1>5, GotoType
  DEF SimulateJob, Progress, Simulation, Heads, TypeOK, Places, Running, Ended
<1>6. CASE RefreshBorrower(p)
  BY <1>6, GotoType DEF RefreshBorrower, TypeOK, Places, Running, Ended
<1>7. CASE Requote(p)
  <2>1. refreshed[p] \in Profiles /\ job[p] \in Job
    BY <1>7 DEF Requote, Progress, Running
  <2>2. PICK m \in QuoteOutcomes(refreshed[p]) :
          /\ Profitable(m, refreshed[p])
          /\ job' = [job EXCEPT ![p] = UpdateJob(job[p], refreshed[p], m)]
    BY <1>7 DEF Requote
  <2>3. UpdateJob(job[p], refreshed[p], m) \in Job
    BY <2>1, <2>2, QuotedJob, UpdatedJob
  <2>4. job' \in [Payloads -> Job \cup {None}]
    BY <2>2, <2>3 DEF TypeOK
  <2>5. QED
    BY <1>7, <2>4, GotoType DEF Requote, TypeOK, Places, Running
<1>8. CASE Resimulate(p)
  BY <1>8, GotoType
  DEF Resimulate, Progress, Simulation, Heads, TypeOK, Places, Running, Ended
<1>9. CASE ExecuteLiquidation(p) \/ CancelTask(p)
  BY <1>9, SendType, DropType DEF ExecuteLiquidation, CancelTask, Ended
<1>10. QED
  BY <1>1, <1>2, <1>3, <1>4, <1>5, <1>6, <1>7, <1>8, <1>9 DEF TaskStep

LEMMA TaskStepProgress ==
  ASSUME IInv, NEW p \in Payloads, TaskStep(p)
  PROVE  Progress(p)'
<1> USE DEF IInv, TypeOK, Goto, Running, Ended
<1>1. CASE ValidateProfile(p)
  <2>1. profile[p] \in Profile /\ profile[p].debt > 0
    BY <1>1, ProfilesAssumption, DebtAssumption DEF ValidateProfile, Progress
  <2>2. CASE Drop(p, "rejected")
    BY <1>1, <2>2, DropProgress DEF ValidateProfile
  <2>3. CASE ~Drop(p, "rejected")
    BY <1>1, <2>1, <2>3 DEF ValidateProfile, Acceptable, Progress, Profile
  <2>4. QED
    BY <2>2, <2>3
<1>2. CASE RejectQuote(p) \/ SimulationReverts(p)
  BY <1>2, DropProgress DEF RejectQuote, SimulationReverts
<1>3. CASE RefreshFails(p) \/ RevalidationFails(p)
  BY <1>3, DropProgress DEF RefreshFails, RevalidationFails
<1>4. CASE FetchQuote(p)
  BY <1>4, QuotedJob
  DEF FetchQuote, BuildJob, RouteFor, StateChanged, Progress
<1>5. CASE SimulateJob(p)
  BY <1>5 DEF SimulateJob, Simulation, Heads, StateChanged, Progress
<1>6. CASE RefreshBorrower(p)
  BY <1>6 DEF RefreshBorrower, StateChanged, Progress
<1>7. CASE Requote(p)
  <2>1. PICK m \in QuoteOutcomes(refreshed[p]) :
          /\ Profitable(m, refreshed[p])
          /\ job'[p] = UpdateJob(job[p], refreshed[p], m)
    BY <1>7 DEF Requote
  <2>2. refreshed[p] \in Profiles /\ job[p] \in Job /\ profile[p].seize > 0
    BY <1>7 DEF Requote, Progress
  <2>3. /\ job'[p] \in Job
        /\ job'[p].debt = refreshed[p].debt
        /\ job'[p].seize = refreshed[p].seize
        /\ job'[p].minOut = m
        /\ job'[p].route.amount = refreshed[p].seize
    BY <2>1, <2>2, QuotedJob, UpdatedJob
  <2>4. m >= refreshed[p].debt /\ refreshed[p].debt > 0 /\ refreshed[p].seize > 0
    BY <2>1, <2>2, QuotedJob
  <2>5. QED
    BY <1>7, <2>2, <2>3, <2>4 DEF Requote, StateChanged, Progress
<1>8. CASE Resimulate(p)
  BY <1>8 DEF Resimulate, Simulation, Heads, StateChanged, Progress
<1>9. CASE ExecuteLiquidation(p) \/ CancelTask(p)
  <2>1. CASE Drop(p, "cancelled")
    BY <1>9, <2>1, TaskStepRuns, DropProgress
  <2>2. PICK place \in {"submitted", "failed", "cancelled"} : pc'[p] = place
    BY <1>9 DEF ExecuteLiquidation, CancelTask, Drop
  <2>3. QED
    BY <2>1, <2>2 DEF Progress
<1>10. QED
  BY <1>1, <1>2, <1>3, <1>4, <1>5, <1>6, <1>7, <1>8, <1>9 DEF TaskStep

LEMMA StepChannelOK ==
  ASSUME IInv, [Next]_vars
  PROVE  ChannelOK'
<1> USE DEF IInv, TypeOK, ChannelOK
<1>1. CASE RequestShutdown \/ UNCHANGED vars
  BY <1>1 DEF RequestShutdown
<1>2. CASE StopLoop \/ CancelLoop
  BY <1>2, LoopEnds DEF DropReceiver
<1>3. CASE TakePayload
  <2>1. /\ queue # <<>>
        /\ Len(queue') = Len(queue) - 1
        /\ \A i \in 1 .. Len(queue') : queue'[i] = queue[i + 1]
        /\ Head(queue) = queue[1]
    BY <1>3 DEF TakePayload
  <2>2. pc' = [pc EXCEPT ![queue[1]] = "taken"]
    BY <1>3, <2>1 DEF TakePayload
  <2>3. /\ Len(queue) \in Nat /\ Len(queue) > 0
        /\ \A i \in 1 .. Len(queue) : queue[i] \in Payloads
    BY <2>1
  <2>4. ASSUME NEW i \in 1 .. Len(queue')
        PROVE  /\ i + 1 \in 1 .. Len(queue)
               /\ queue'[i] = queue[i + 1]
               /\ queue[i + 1] # queue[1]
               /\ pc'[queue[i + 1]] = "queued"
    BY <2>1, <2>2, <2>3
  <2>5. ASSUME NEW i \in 1 .. Len(queue'), NEW k \in 1 .. Len(queue'),
               queue'[i] = queue'[k]
        PROVE  i = k
    <3>1. i + 1 = k + 1
      BY <2>4, <2>5
    <3>2. QED
      BY <2>1, <2>3, <3>1
  <2>6. QED
    BY <2>4, <2>5
<1>4. ASSUME NEW p \in Payloads, SpawnTask(p)
      PROVE  ChannelOK'
  BY <1>4 DEF SpawnTask
<1>5. ASSUME NEW p \in Payloads, SendPayload(p)
      PROVE  ChannelOK'
  <2>1. /\ Len(queue') = Len(queue) + 1
        /\ queue'[Len(queue) + 1] = p
        /\ \A i \in 1 .. Len(queue) : queue'[i] = queue[i]
    BY <1>5 DEF SendPayload
  <2>2. \A i \in 1 .. Len(queue) : queue[i] \in Payloads /\ queue[i] # p
    BY <1>5 DEF SendPayload
  <2>3. pc' = [pc EXCEPT ![p] = "queued"]
    BY <1>5 DEF SendPayload
  <2>4. QED
    BY <2>1, <2>2, <2>3
<1>6. ASSUME NEW p \in Payloads, TaskStep(p)
      PROVE  ChannelOK'
  <2>1. queue' = queue
    BY <1>6 DEF TaskStep, ValidateProfile, FetchQuote, RejectQuote,
         SimulateJob, SimulationReverts, RefreshBorrower, RefreshFails,
         Requote, Resimulate, RevalidationFails, ExecuteLiquidation, CancelTask,
         Drop, Goto
  <2>2. ASSUME NEW i \in 1 .. Len(queue)
        PROVE  pc'[queue[i]] = pc[queue[i]]
    <3>1. queue[i] \in Payloads /\ queue[i] # p
      BY <1>6, TaskStepRuns DEF Running
    <3>2. QED
      BY <1>6, <3>1, TaskStepIsLocal DEF Untouched
  <2>3. QED
    BY <2>1, <2>2
<1>7. QED
  BY <1>1, <1>2, <1>3, <1>4, <1>5, <1>6 DEF Next, LoopStep

LEMMA StepIInv == IInv /\ [Next]_vars => IInv'
<1> SUFFICES ASSUME IInv, [Next]_vars
             PROVE  IInv'
  OBVIOUS
<1> USE StepChannelOK DEF IInv
<1>1. CASE RequestShutdown \/ UNCHANGED vars
  BY <1>1 DEF RequestShutdown, TypeOK, Progress
<1>2. CASE StopLoop \/ CancelLoop
  <2>0. DropReceiver
    BY <1>2, LoopEnds
  <2>1. TypeOK'
    BY <2>0 DEF DropReceiver, TypeOK, Places, Ended
  <2>2. ASSUME NEW p \in Payloads PROVE Progress(p)'
    BY <2>0 DEF DropReceiver, Progress, TypeOK, Running
  <2>3. QED
    BY <2>1, <2>2
<1>3. CASE TakePayload
  <2>1. /\ Head(queue) \in Payloads /\ Tail(queue) \in Seq(Payloads)
        /\ pc[Head(queue)] = "queued"
    BY <1>3 DEF TakePayload, TypeOK, ChannelOK
  <2>2. TypeOK'
    BY <1>3, <2>1 DEF TakePayload, TypeOK, Places
  <2>3. ASSUME NEW p \in Payloads PROVE Progress(p)'
    BY <1>3, <2>1 DEF TakePayload, Progress, TypeOK, Running
  <2>4. QED
    BY <2>2, <2>3
<1>4. ASSUME NEW p \in Payloads, SpawnTask(p)
      PROVE  IInv'
  <2>1. TypeOK'
    BY <1>4 DEF SpawnTask, TypeOK, Places, Running
  <2>2. ASSUME NEW q \in Payloads PROVE Progress(q)'
    BY <1>4 DEF SpawnTask, Progress, TypeOK, Running
  <2>3. QED
    BY <2>1, <2>2
<1>5. ASSUME NEW p \in Payloads, SendPayload(p)
      PROVE  IInv'
  <2>1. TypeOK'
    BY <1>5 DEF SendPayload, TypeOK, Places
  <2>2. ASSUME NEW q \in Payloads PROVE Progress(q)'
    BY <1>5 DEF SendPayload, Progress, TypeOK, Running
  <2>3. QED
    BY <2>1, <2>2
<1>6. ASSUME NEW p \in Payloads, TaskStep(p)
      PROVE  IInv'
  <2>1. TypeOK'
    BY <1>6, TaskStepType
  <2>2. ASSUME NEW q \in Payloads PROVE Progress(q)'
    BY <1>6, TaskStepProgress, TaskStepIsLocal, UntouchedProgress
  <2>3. QED
    BY <2>1, <2>2
<1>7. QED
  BY <1>1, <1>2, <1>3, <1>4, <1>5, <1>6 DEF Next, LoopStep

LEMMA Invariance == Spec => []IInv
<1>1. QED
  BY InitIInv, StepIInv, PTL DEF Spec

(***************************************************************************)
(* Type correctness: every variable keeps its type on every path of        *)
(* start_pipeline and process_payload; a task that simulates, refreshes or *)
(* broadcasts always has a job to do it with, and the number of free       *)
(* permits never goes below zero.                                          *)
(***************************************************************************)
THEOREM TypeCorrect == Spec => []TypeOK
BY Invariance, PTL DEF IInv

-----------------------------------------------------------------------------
(* The three properties of one payload. *)
SafeCall(p) ==
  sent[p] # None =>
    /\ simulated[p] # None
    /\ sent[p] = [job |-> simulated[p].job, gas |-> simulated[p].gas]
    /\ StateChanged(refreshed[p], profile[p]) => simulated[p].head = "latest"
    /\ refreshed[p] # None
    /\ sent[p].job.debt = refreshed[p].debt
    /\ sent[p].job.seize = refreshed[p].seize
    /\ sent[p].job.route.amount = refreshed[p].seize
    /\ sent[p].job.minOut >= sent[p].job.debt
    /\ sent[p].job.debt > 0
    /\ sent[p].job.seize > 0

LEMMA StepSafeCall ==
  ASSUME IInv, [Next]_vars, NEW p \in Payloads, SafeCall(p)
  PROVE  SafeCall(p)'
<1> USE DEF IInv, TypeOK, SafeCall
<1>1. CASE sent'[p] = sent[p]
  <2>1. CASE sent[p] = None
    BY <1>1, <2>1
  <2>2. CASE sent[p] # None
    <3>1. pc[p] \in {"submitted", "failed", "cancelled"}
      BY <2>2 DEF Progress
    <3>2. ~TaskStep(p)
      BY <3>1, TaskStepRuns DEF Running
    <3>3. ~SendPayload(p)
      BY <3>1 DEF SendPayload
    <3>4. /\ profile'[p] = profile[p]
          /\ refreshed'[p] = refreshed[p]
          /\ simulated'[p] = simulated[p]
      <4>1. CASE RequestShutdown \/ LoopStep \/ UNCHANGED vars
        BY <3>1, <4>1, LoopEnds
        DEF RequestShutdown, LoopStep, DropReceiver, TakePayload, SpawnTask
      <4>2. ASSUME NEW q \in Payloads, SendPayload(q)
            PROVE  <3>4!:
        BY <3>3, <4>2 DEF SendPayload
      <4>3. ASSUME NEW q \in Payloads, TaskStep(q)
            PROVE  <3>4!:
        BY <3>2, <4>3, TaskStepIsLocal DEF Untouched
      <4>4. QED
        BY <4>1, <4>2, <4>3 DEF Next
    <3>5. QED
      BY <1>1, <3>4 DEF StateChanged
  <2>3. QED
    BY <2>1, <2>2
<1>2. CASE sent'[p] # sent[p]
  <2>1. Send(p) /\ pc[p] = "broadcast"
    <3>1. ~LoopStep /\ ~UNCHANGED vars
      BY <1>2, LoopEnds DEF LoopStep, DropReceiver, TakePayload, SpawnTask
    <3>2. PICK q \in Payloads : TaskStep(q)
      BY <1>2, <3>1 DEF Next, RequestShutdown, SendPayload
    <3>3. q = p
      BY <1>2, <3>2, TaskStepIsLocal DEF Untouched
    <3>4. QED
      BY <1>2, <3>2, <3>3 DEF TaskStep, ValidateProfile, FetchQuote, RejectQuote,
         SimulateJob, SimulationReverts, RefreshBorrower, RefreshFails, Requote,
         Resimulate, RevalidationFails, ExecuteLiquidation, CancelTask, Drop
  <2>2. /\ sent'[p] = [job |-> job[p], gas |-> gas[p]]
        /\ profile' = profile /\ refreshed' = refreshed
        /\ simulated' = simulated
        /\ pc[p] = "broadcast"
    BY <2>1 DEF Send
  <2>3. simulated[p] # None /\ refreshed[p] # None
    BY <2>2, NoneAssumption, ProfilesAssumption DEF Progress, Running
  <2>4. QED
    BY <2>2, <2>3 DEF Progress, Running, StateChanged
<1>3. QED
  BY <1>1, <1>2

LEMMA AlwaysSafeCall == Spec => [](\A p \in Payloads : SafeCall(p))
<1>1. Init => \A p \in Payloads : SafeCall(p)
  BY DEF Init, SafeCall
<1>2. IInv /\ (\A p \in Payloads : SafeCall(p)) /\ [Next]_vars
        => (\A p \in Payloads : SafeCall(p))'
  BY StepSafeCall
<1>3. QED
  BY <1>1, <1>2, Invariance, PTL DEF Spec

(***************************************************************************)
(* What is sent to the liquidator contract is the job of the last          *)
(* successful simulation with the gas that simulation measured, taken at   *)
(* the latest block when the position had moved since the scan.            *)
(***************************************************************************)
THEOREM SentJobsWereSimulated == Spec => []SentWasSimulated
<1>1. (\A p \in Payloads : SafeCall(p)) => SentWasSimulated
  BY DEF SafeCall, SentWasSimulated
<1>2. QED
  BY <1>1, AlwaysSafeCall, PTL

(***************************************************************************)
(* What is sent carries the amounts of the last refresh.                   *)
(***************************************************************************)
THEOREM SentJobsAreFresh == Spec => []SentIsFresh
<1>1. (\A p \in Payloads : SafeCall(p)) => SentIsFresh
  BY DEF SafeCall, SentIsFresh
<1>2. QED
  BY <1>1, AlwaysSafeCall, PTL

(***************************************************************************)
(* What is sent pays for the debt it repays, and seizes something.         *)
(***************************************************************************)
THEOREM SentJobsPay == Spec => []SentPays
<1>1. (\A p \in Payloads : SafeCall(p)) => SentPays
  BY DEF SafeCall, SentPays
<1>2. QED
  BY <1>1, AlwaysSafeCall, PTL

-----------------------------------------------------------------------------
(* A task moves from a running place to another one or to an end. *)
LEMMA TaskStepGoto ==
  ASSUME NEW p \in Payloads, TaskStep(p)
  PROVE  \E place \in Running \cup Ended : Goto(p, place)
BY DEF Running, Ended, TaskStep, ValidateProfile, FetchQuote, RejectQuote,
       SimulateJob, SimulationReverts, RefreshBorrower, RefreshFails, Requote,
       Resimulate, RevalidationFails, ExecuteLiquidation, CancelTask, Drop

LEMMA TasksFinite ==
  /\ IsFiniteSet(Tasks)
  /\ Cardinality(Tasks) \in Nat
<1>1. IsFiniteSet(Tasks)
  BY PayloadsAssumption, FS_Subset DEF Tasks
<1>2. QED
  BY <1>1, FS_CardinalityType

(* No step but SpawnTask and a task's own steps changes the running tasks. *)
LEMMA TasksStay ==
  ASSUME IInv, RequestShutdown \/ StopLoop \/ CancelLoop \/ TakePayload \/ UNCHANGED vars
               \/ \E p \in Payloads : SendPayload(p)
  PROVE  Tasks' = Tasks /\ permits' = permits
<1> USE DEF IInv, TypeOK, Tasks, Running
<1>1. CASE RequestShutdown \/ UNCHANGED vars
  BY <1>1 DEF RequestShutdown
<1>2. CASE StopLoop \/ CancelLoop
  BY <1>2, LoopEnds DEF DropReceiver
<1>3. CASE TakePayload
  <2>1. Head(queue) \in Payloads /\ pc[Head(queue)] = "queued"
    BY <1>3 DEF TakePayload, ChannelOK
  <2>2. QED
    BY <1>3, <2>1 DEF TakePayload
<1>4. ASSUME NEW p \in Payloads, SendPayload(p)
      PROVE  Tasks' = Tasks /\ permits' = permits
  BY <1>4 DEF SendPayload
<1>5. QED
  BY <1>1, <1>2, <1>3, <1>4

LEMMA StepPermits ==
  ASSUME IInv, PermitsConserved, [Next]_vars
  PROVE  PermitsConserved'
<1> USE TasksFinite DEF PermitsConserved
<1>1. CASE RequestShutdown \/ StopLoop \/ CancelLoop \/ TakePayload \/ UNCHANGED vars
           \/ \E p \in Payloads : SendPayload(p)
  BY <1>1, TasksStay
<1>2. ASSUME NEW p \in Payloads, SpawnTask(p)
      PROVE  PermitsConserved'
  <2>1. p \notin Tasks /\ Tasks' = Tasks \cup {p}
    BY <1>2 DEF SpawnTask, Tasks, Running, IInv, TypeOK
  <2>2. Cardinality(Tasks') = Cardinality(Tasks) + 1
    BY <2>1, FS_AddElement
  <2>3. permits \in Nat /\ permits' = permits - 1
    BY <1>2 DEF SpawnTask, IInv, TypeOK
  <2>4. QED
    BY <2>2, <2>3, LimitAssumption
<1>3. ASSUME NEW p \in Payloads, TaskStep(p)
      PROVE  PermitsConserved'
  <2>1. p \in Tasks
    BY <1>3, TaskStepRuns DEF Tasks
  <2>2. permits \in Nat /\ pc \in [Payloads -> Places]
    BY DEF IInv, TypeOK
  <2>3. PICK place \in Running \cup Ended : Goto(p, place)
    BY <1>3, TaskStepGoto
  <2>4. CASE place \in Running
    <3>1. Tasks' = Tasks
      BY <2>1, <2>2, <2>3, <2>4 DEF Goto, Tasks
    <3>2. permits' = permits
      BY <2>3, <2>4 DEF Goto, Running, Ended
    <3>3. QED
      BY <3>1, <3>2
  <2>5. CASE place \in Ended
    <3>1. Tasks' = Tasks \ {p}
      BY <2>1, <2>2, <2>3, <2>5 DEF Goto, Tasks, Running, Ended
    <3>2. Cardinality(Tasks') = Cardinality(Tasks) - 1
      BY <2>1, <3>1, FS_RemoveElement
    <3>3. permits' = permits + 1
      BY <2>3, <2>5 DEF Goto
    <3>4. QED
      BY <2>2, <3>2, <3>3, LimitAssumption
  <2>6. QED
    BY <2>3, <2>4, <2>5
<1>4. QED
  BY <1>1, <1>2, <1>3 DEF Next, LoopStep

(***************************************************************************)
(* Every path out of process_payload gives its permit back, and none gives *)
(* it back twice.                                                          *)
(***************************************************************************)
THEOREM PermitsAreConserved == Spec => []PermitsConserved
<1>1. Init => PermitsConserved
  <2> SUFFICES ASSUME Init PROVE PermitsConserved
    OBVIOUS
  <2>1. Tasks = {}
    BY DEF Init, Tasks, Running
  <2>2. QED
    BY <2>1, FS_EmptySet, LimitAssumption DEF Init, PermitsConserved
<1>2. IInv /\ PermitsConserved /\ [Next]_vars => PermitsConserved'
  BY StepPermits
<1>3. QED
  BY <1>1, <1>2, Invariance, PTL DEF Spec

-----------------------------------------------------------------------------
(* The places that refine each status of LiquidationDispatch. *)
LEMMA Statuses ==
  /\ StatusOf("unsent") = "new"
  /\ StatusOf("queued") = "accepted" /\ StatusOf("taken") = "accepted"
  /\ \A place \in Running : StatusOf(place) = "working"
  /\ \A place \in Ended : StatusOf(place) = "done"
BY DEF StatusOf, Running, Ended

LEMMA WorkingTasks == Promise!Working = Tasks
<1>1. ASSUME NEW p \in Payloads
      PROVE  StatusOf(pc[p]) = "working" <=> pc[p] \in Running
  BY DEF StatusOf, Running
<1>2. QED
  BY <1>1 DEF Promise!Working, Tasks

LEMMA InitRefines == Init => Promise!Init
BY Statuses DEF Init, Promise!Init

LEMMA StepRefines ==
  ASSUME IInv, PermitsConserved, (\A p \in Payloads : SafeCall(p))',
         [Next]_vars
  PROVE  [Promise!Next]_(Promise!vars)
<1> DEFINE status == [p \in Payloads |-> StatusOf(pc[p])]
<1> USE Statuses DEF IInv, TypeOK
<1>1. CASE RequestShutdown \/ UNCHANGED vars
  BY <1>1 DEF RequestShutdown, Promise!vars
<1>2. CASE StopLoop \/ CancelLoop
  <2> DEFINE ps == {p \in Payloads : pc[p] \in {"queued", "taken"}}
  <2>0. DropReceiver
    BY <1>2, LoopEnds
  <2>1. \A p \in ps : status[p] = "accepted"
    OBVIOUS
  <2>2. status' = [p \in Payloads |-> IF p \in ps THEN "done" ELSE status[p]]
    BY <2>0 DEF DropReceiver, Ended
  <2>3. Promise!GiveUp(ps)
    BY <2>0, <2>1, <2>2 DEF DropReceiver, Promise!GiveUp
  <2>4. QED
    BY <2>3 DEF Promise!Next
<1>3. CASE TakePayload
  <2>1. Head(queue) \in Payloads /\ pc[Head(queue)] = "queued"
    BY <1>3 DEF TakePayload, ChannelOK
  <2>2. status' = status /\ sent' = sent
    BY <1>3, <2>1 DEF TakePayload
  <2>3. QED
    BY <2>2 DEF Promise!vars
<1>4. ASSUME NEW p \in Payloads, SendPayload(p)
      PROVE  Promise!Accept(p)
  <2>1. status[p] = "new" /\ status' = [status EXCEPT ![p] = "accepted"]
    BY <1>4 DEF SendPayload
  <2>2. QED
    BY <1>4, <2>1 DEF SendPayload, Promise!Accept
<1>5. ASSUME NEW p \in Payloads, SpawnTask(p)
      PROVE  Promise!Begin(p)
  <2>1. status[p] = "accepted" /\ status' = [status EXCEPT ![p] = "working"]
    BY <1>5 DEF SpawnTask, Running
  <2>2. Cardinality(Promise!Working) < ConcurrencyLimit
    BY <1>5, TasksFinite, WorkingTasks, LimitAssumption
    DEF SpawnTask, PermitsConserved
  <2>3. QED
    BY <1>5, <2>1, <2>2
    DEF SpawnTask, Promise!Begin, Promise!Cardinality, Cardinality
<1>6. ASSUME NEW p \in Payloads, TaskStep(p)
      PROVE  [Promise!Next]_(Promise!vars)
  <2>1. pc[p] \in Running /\ status[p] = "working"
    BY <1>6, TaskStepRuns
  <2>2. PICK place \in Running \cup Ended : Goto(p, place)
    BY <1>6, TaskStepGoto
  <2>3. pc' = [pc EXCEPT ![p] = place]
    BY <2>2 DEF Goto
  <2>4. CASE ~(Send(p) /\ pc[p] = "broadcast" /\ \E end \in Ended : Goto(p, end))
    <3>1. sent' = sent
      BY <1>6, <2>4 DEF TaskStep, ValidateProfile, FetchQuote, RejectQuote,
           SimulateJob, SimulationReverts, RefreshBorrower, RefreshFails,
           Requote, Resimulate, RevalidationFails, ExecuteLiquidation,
           CancelTask, Drop, Ended
    <3>2. CASE place \in Running
      <4>1. status' = status
        BY <2>1, <2>3, <3>2
      <4>2. QED
        BY <3>1, <4>1 DEF Promise!vars
    <3>3. CASE place \in Ended
      <4>1. status' = [status EXCEPT ![p] = "done"]
        BY <2>3, <3>3
      <4>2. Promise!Drop(p)
        BY <2>1, <3>1, <4>1 DEF Promise!Drop
      <4>3. QED
        BY <4>2 DEF Promise!Next
    <3>4. QED
      BY <3>2, <3>3
  <2>5. CASE Send(p) /\ pc[p] = "broadcast" /\ \E end \in Ended : Goto(p, end)
    <3>1. PICK end \in Ended : pc' = [pc EXCEPT ![p] = end]
      BY <2>5 DEF Goto
    <3>2. status' = [status EXCEPT ![p] = "done"]
      BY <3>1
    <3>3. sent' = [sent EXCEPT ![p] = [job |-> job[p], gas |-> gas[p]]]
      BY <2>5 DEF Send
    <3>4. sent' = [sent EXCEPT ![p] = sent'[p]]
      BY <3>3
    <3>5. sent'[p] \in Broadcast
      BY <2>5, <3>3 DEF Progress, Running, Broadcast
    <3>6. sent'[p] # None
      BY <3>5, NoneAssumption
    <3>7. sent'[p] \in PayingCalls
      BY <3>5, <3>6 DEF SafeCall, PayingCalls
    <3>8. Promise!CallContract(p)
      BY <2>1, <3>2, <3>4, <3>7 DEF Promise!CallContract
    <3>9. QED
      BY <3>8 DEF Promise!Next
  <2>6. QED
    BY <2>4, <2>5
<1>7. QED
  BY <1>1, <1>2, <1>3, <1>4, <1>5, <1>6 DEF Next, LoopStep, Promise!Next

(***************************************************************************)
(* The pipeline implements LiquidationDispatch: of every accepted payload  *)
(* it disposes once, by at most one contract call that pays for itself,    *)
(* with at most ConcurrencyLimit payloads worked on at a time.             *)
(***************************************************************************)
THEOREM ImplementsDispatch == Spec => Dispatch
<1>1. IInv /\ PermitsConserved /\ (\A p \in Payloads : SafeCall(p))'
        /\ [Next]_vars => [Promise!Next]_(Promise!vars)
  BY StepRefines
<1>2. QED
  BY <1>1, InitRefines, Invariance, AlwaysSafeCall, PermitsAreConserved, PTL
  DEF Spec, Dispatch, Promise!Spec

-----------------------------------------------------------------------------
(***************************************************************************)
(* What the channel and the loop hold between them: every queued payload   *)
(* is in the channel, the loop waits for a permit exactly while it has one *)
(* payload in its hand, and a stopped loop leaves neither.                 *)
(***************************************************************************)
QueueComplete ==
  \A p \in Payloads :
    pc[p] = "queued" => \E i \in 1 .. Len(queue) : queue[i] = p

OneInHand ==
  /\ loop = "acquire" <=> \E p \in Payloads : pc[p] = "taken"
  /\ \A p, q \in Payloads : pc[p] = "taken" /\ pc[q] = "taken" => p = q

StoppedEmpty == loop = "stopped" => shutdown /\ queue = <<>>

WithinCapacity == Len(queue) <= PayloadCap

LoopHolds ==
  QueueComplete /\ OneInHand /\ StoppedEmpty /\ WithinCapacity

(***************************************************************************)
(* A payload that was accepted and has not ended can go on by itself: a    *)
(* task is running, which every answer takes further; or the loop has a    *)
(* payload in its hand and a permit for it; or the loop has one to take.   *)
(***************************************************************************)
NeverWedged ==
  (\E p \in Payloads : pc[p] \in {"queued", "taken"} \cup Running) =>
    \/ Tasks # {}
    \/ loop = "acquire" /\ permits > 0 /\ \E p \in Payloads : pc[p] = "taken"
    \/ loop = "select" /\ queue # <<>>

(* How far each place is from the scanner. *)
Distance(place) ==
  CASE place = "unsent" -> 0
    [] place = "queued" -> 1
    [] place = "taken" -> 2
    [] place = "validate" -> 3
    [] place = "quote" -> 4
    [] place = "simulate" -> 5
    [] place = "refresh" -> 6
    [] place = "requote" -> 7
    [] place = "resimulate" -> 8
    [] place = "broadcast" -> 9
    [] OTHER -> 10

(* A payload that moves moves on, and one that ended moves no more. *)
Onward ==
  \A p \in Payloads : pc'[p] # pc[p] => Distance(pc'[p]) > Distance(pc[p])

(* A task's own steps leave the channel and the loop alone. *)
LEMMA TaskStepKeepsLoop ==
  ASSUME NEW p \in Payloads, TaskStep(p)
  PROVE  UNCHANGED <<shutdown, loop, queue>>
BY TaskStepGoto DEF Goto

LEMMA TaskStepKeepsWaiting ==
  ASSUME IInv, NEW p \in Payloads, TaskStep(p), NEW q \in Payloads
  PROVE  /\ pc'[q] = "queued" <=> pc[q] = "queued"
         /\ pc'[q] = "taken" <=> pc[q] = "taken"
<1> USE DEF IInv, TypeOK
<1>1. CASE q = p
  <2>1. pc[p] \in Running
    BY TaskStepRuns
  <2>2. PICK place \in Running \cup Ended : Goto(p, place)
    BY TaskStepGoto
  <2>3. pc'[p] = place
    BY <2>2 DEF Goto
  <2>4. QED
    BY <1>1, <2>1, <2>3 DEF Running, Ended
<1>2. CASE q # p
  BY <1>2, TaskStepIsLocal DEF Untouched
<1>3. QED
  BY <1>1, <1>2

LEMMA StepLoopHolds ==
  ASSUME IInv, LoopHolds, [Next]_vars
  PROVE  LoopHolds'
<1> USE DEF IInv, TypeOK, LoopHolds
<1>1. CASE RequestShutdown \/ UNCHANGED vars
  BY <1>1 DEF RequestShutdown, QueueComplete, OneInHand, StoppedEmpty,
       WithinCapacity
<1>2. CASE StopLoop \/ CancelLoop
  <2>0. DropReceiver /\ shutdown
    BY <1>2, LoopEnds
  <2>1. /\ queue' = <<>> /\ Len(queue') = 0
        /\ loop' = "stopped" /\ shutdown' = TRUE
    BY <2>0 DEF DropReceiver
  <2>2. \A p \in Payloads : pc'[p] # "queued" /\ pc'[p] # "taken"
    BY <2>0 DEF DropReceiver
  <2>3. WithinCapacity'
    BY <2>1, LimitAssumption DEF WithinCapacity
  <2>4. QueueComplete' /\ OneInHand' /\ StoppedEmpty'
    BY <2>1, <2>2 DEF QueueComplete, OneInHand, StoppedEmpty
  <2>5. QED
    BY <2>3, <2>4
<1>3. CASE TakePayload
  <2>1. /\ Len(queue) \in Nat /\ Len(queue) > 0
        /\ Len(queue') = Len(queue) - 1
        /\ \A i \in 1 .. Len(queue') : queue'[i] = queue[i + 1]
        /\ queue[1] \in Payloads
        /\ Head(queue) = queue[1]
    BY <1>3 DEF TakePayload
  <2>2. /\ pc' = [pc EXCEPT ![queue[1]] = "taken"]
        /\ loop = "select" /\ loop' = "acquire"
    BY <1>3, <2>1 DEF TakePayload
  <2>3. QueueComplete'
    <3> SUFFICES ASSUME NEW p \in Payloads, pc'[p] = "queued"
                 PROVE  \E i \in 1 .. Len(queue') : queue'[i] = p
      BY DEF QueueComplete
    <3>1. pc[p] = "queued" /\ p # queue[1]
      BY <2>1, <2>2
    <3>2. PICK i \in 1 .. Len(queue) : queue[i] = p
      BY <3>1 DEF QueueComplete
    <3>3. i # 1
      BY <3>1, <3>2
    <3>4. i - 1 \in 1 .. Len(queue') /\ (i - 1) + 1 = i
      BY <2>1, <3>3
    <3>5. queue'[i - 1] = p
      BY <2>1, <3>2, <3>4
    <3>6. QED
      BY <3>4, <3>5
  <2>4. OneInHand'
    <3>1. \A p \in Payloads : pc'[p] = "taken" <=> p = queue[1]
      BY <2>1, <2>2 DEF OneInHand
    <3>2. QED
      BY <2>1, <2>2, <3>1 DEF OneInHand
  <2>5. WithinCapacity'
    BY <2>1, LimitAssumption DEF WithinCapacity
  <2>6. StoppedEmpty'
    BY <2>2 DEF StoppedEmpty
  <2>7. QED
    BY <2>3, <2>4, <2>5, <2>6
<1>4. ASSUME NEW p \in Payloads, SpawnTask(p)
      PROVE  LoopHolds'
  <2>1. /\ pc[p] = "taken" /\ pc' = [pc EXCEPT ![p] = "validate"]
        /\ loop' = "select" /\ queue' = queue
    BY <1>4 DEF SpawnTask
  <2>2. \A q \in Payloads : pc'[q] # "taken"
    BY <2>1 DEF OneInHand
  <2>3. QueueComplete'
    BY <2>1 DEF QueueComplete
  <2>4. OneInHand' /\ StoppedEmpty'
    BY <2>1, <2>2 DEF OneInHand, StoppedEmpty
  <2>5. WithinCapacity'
    BY <2>1 DEF WithinCapacity
  <2>6. QED
    BY <2>3, <2>4, <2>5
<1>5. ASSUME NEW p \in Payloads, SendPayload(p)
      PROVE  LoopHolds'
  <2>1. /\ Len(queue) \in Nat
        /\ Len(queue') = Len(queue) + 1
        /\ queue'[Len(queue) + 1] = p
        /\ \A i \in 1 .. Len(queue) : queue'[i] = queue[i]
    BY <1>5 DEF SendPayload
  <2>2. /\ pc[p] = "unsent" /\ pc' = [pc EXCEPT ![p] = "queued"]
        /\ loop # "stopped" /\ loop' = loop
        /\ Len(queue) < PayloadCap
    BY <1>5 DEF SendPayload
  <2>3. QueueComplete'
    <3> SUFFICES ASSUME NEW q \in Payloads, pc'[q] = "queued"
                 PROVE  \E i \in 1 .. Len(queue') : queue'[i] = q
      BY DEF QueueComplete
    <3>1. CASE q = p
      <4>1. Len(queue) + 1 \in 1 .. Len(queue')
        BY <2>1
      <4>2. QED
        BY <2>1, <3>1, <4>1
    <3>2. CASE q # p
      <4>1. pc[q] = "queued"
        BY <2>2, <3>2
      <4>2. PICK i \in 1 .. Len(queue) : queue[i] = q
        BY <4>1 DEF QueueComplete
      <4>3. i \in 1 .. Len(queue') /\ queue'[i] = q
        BY <2>1, <4>2
      <4>4. QED
        BY <4>3
    <3>3. QED
      BY <3>1, <3>2
  <2>4. OneInHand'
    <3>1. \A q \in Payloads : pc'[q] = "taken" <=> pc[q] = "taken"
      BY <2>2
    <3>2. QED
      BY <2>2, <3>1 DEF OneInHand
  <2>5. WithinCapacity'
    BY <2>1, <2>2, LimitAssumption DEF WithinCapacity
  <2>6. StoppedEmpty'
    BY <2>2 DEF StoppedEmpty
  <2>7. QED
    BY <2>3, <2>4, <2>5, <2>6
<1>6. ASSUME NEW p \in Payloads, TaskStep(p)
      PROVE  LoopHolds'
  <2>1. shutdown' = shutdown /\ loop' = loop /\ queue' = queue
    BY <1>6, TaskStepKeepsLoop
  <2>2. \A q \in Payloads : /\ pc'[q] = "queued" <=> pc[q] = "queued"
                            /\ pc'[q] = "taken" <=> pc[q] = "taken"
    BY <1>6, TaskStepKeepsWaiting
  <2>3. QueueComplete' /\ OneInHand'
    BY <2>1, <2>2 DEF QueueComplete, OneInHand
  <2>4. StoppedEmpty' /\ WithinCapacity'
    BY <2>1 DEF StoppedEmpty, WithinCapacity
  <2>5. QED
    BY <2>3, <2>4
<1>7. QED
  BY <1>1, <1>2, <1>3, <1>4, <1>5, <1>6 DEF Next, LoopStep

(***************************************************************************)
(* The loop of start_pipeline loses track of no payload: what the channel  *)
(* accepted is in it until the loop takes it, the loop holds one payload   *)
(* at most, and it ends only on a shutdown and with an empty channel.      *)
(***************************************************************************)
THEOREM LoopLosesNothing == Spec => []LoopHolds
<1>1. Init => LoopHolds
  <2> SUFFICES ASSUME Init PROVE LoopHolds
    OBVIOUS
  <2>1. QueueComplete /\ OneInHand /\ StoppedEmpty
    BY DEF Init, QueueComplete, OneInHand, StoppedEmpty
  <2>2. WithinCapacity
    BY LimitAssumption DEF Init, WithinCapacity
  <2>3. QED
    BY <2>1, <2>2 DEF LoopHolds
<1>2. IInv /\ LoopHolds /\ [Next]_vars => LoopHolds'
  BY StepLoopHolds
<1>3. QED
  BY <1>1, <1>2, Invariance, PTL DEF Spec

(***************************************************************************)
(* Neither a full semaphore nor a full channel wedges the pipeline, before *)
(* the shutdown or after: as long as an accepted payload has not ended, a  *)
(* task or the loop can take it or another one further.  This is what      *)
(* EveryPayloadEnds rests on besides fairness.                             *)
(***************************************************************************)
THEOREM PipelineNeverWedges == Spec => []NeverWedged
<1>1. TypeOK /\ LoopHolds /\ PermitsConserved => NeverWedged
  <2> SUFFICES ASSUME TypeOK, LoopHolds, PermitsConserved, Tasks = {},
                      NEW p \in Payloads,
                      pc[p] \in {"queued", "taken"} \cup Running
               PROVE  \/ /\ loop = "acquire" /\ permits > 0
                         /\ \E q \in Payloads : pc[q] = "taken"
                      \/ loop = "select" /\ queue # <<>>
    BY DEF NeverWedged
  <2>1. permits > 0
    <3>1. Cardinality(Tasks) = 0
      BY FS_EmptySet
    <3>2. QED
      BY <3>1, LimitAssumption DEF TypeOK, PermitsConserved
  <2>2. pc[p] \in {"queued", "taken"}
    BY DEF Tasks
  <2>3. CASE loop = "acquire"
    BY <2>1, <2>3 DEF LoopHolds, OneInHand
  <2>4. CASE loop # "acquire"
    <3>1. pc[p] = "queued"
      BY <2>2, <2>4 DEF LoopHolds, OneInHand
    <3>2. queue # <<>>
      BY <3>1 DEF LoopHolds, QueueComplete
    <3>3. loop = "select"
      BY <2>4, <3>2 DEF TypeOK, LoopHolds, StoppedEmpty
    <3>4. QED
      BY <3>2, <3>3
  <2>5. QED
    BY <2>3, <2>4
<1>2. QED
  BY <1>1, TypeCorrect, LoopLosesNothing, PermitsAreConserved, PTL

LEMMA TaskStepOnward ==
  ASSUME TypeOK, NEW p \in Payloads, TaskStep(p)
  PROVE  Distance(pc'[p]) > Distance(pc[p])
<1> USE DEF TypeOK, Goto, Drop, Running, Ended, Distance
<1>1. CASE ValidateProfile(p) \/ FetchQuote(p) \/ RejectQuote(p)
  BY <1>1 DEF ValidateProfile, FetchQuote, RejectQuote
<1>2. CASE SimulateJob(p) \/ SimulationReverts(p)
  BY <1>2 DEF SimulateJob, SimulationReverts
<1>3. CASE RefreshBorrower(p) \/ RefreshFails(p)
  BY <1>3 DEF RefreshBorrower, RefreshFails
<1>4. CASE Requote(p) \/ Resimulate(p) \/ RevalidationFails(p)
  BY <1>4 DEF Requote, Resimulate, RevalidationFails
<1>5. CASE ExecuteLiquidation(p) \/ CancelTask(p)
  BY <1>5, TaskStepRuns DEF ExecuteLiquidation, CancelTask
<1>6. QED
  BY <1>1, <1>2, <1>3, <1>4, <1>5 DEF TaskStep

(***************************************************************************)
(* No payload is taken back: it is quoted, simulated and refreshed at most *)
(* once on the way to each of its places, the refresh that finds a moved   *)
(* position leads to one more quote and simulation and never to another    *)
(* refresh, and a payload that ended stays where it ended.                 *)
(***************************************************************************)
THEOREM PayloadsGoOnward == Spec => [][Onward]_vars
<1>1. IInv /\ [Next]_vars => Onward
  <2> SUFFICES ASSUME IInv, [Next]_vars
               PROVE  Onward
    OBVIOUS
  <2> USE DEF IInv, TypeOK
  <2>1. CASE RequestShutdown \/ UNCHANGED vars
    BY <2>1 DEF RequestShutdown, Onward
  <2>2. CASE StopLoop \/ CancelLoop
    BY <2>2, LoopEnds DEF DropReceiver, Onward, Distance
  <2>3. CASE TakePayload
    <3>1. Head(queue) \in Payloads /\ pc[Head(queue)] = "queued"
      BY <2>3 DEF TakePayload, ChannelOK
    <3>2. QED
      BY <2>3, <3>1 DEF TakePayload, Onward, Distance
  <2>4. ASSUME NEW p \in Payloads, SpawnTask(p) \/ SendPayload(p)
        PROVE  Onward
    BY <2>4 DEF SpawnTask, SendPayload, Onward, Distance
  <2>5. ASSUME NEW p \in Payloads, TaskStep(p)
        PROVE  Onward
    <3> SUFFICES ASSUME NEW q \in Payloads, pc'[q] # pc[q]
                 PROVE  Distance(pc'[q]) > Distance(pc[q])
      BY DEF Onward
    <3>1. q = p
      BY <2>5, TaskStepIsLocal DEF Untouched
    <3>2. QED
      BY <2>5, <3>1, TaskStepOnward
  <2>6. QED
    BY <2>1, <2>2, <2>3, <2>4, <2>5 DEF Next, LoopStep
<1>2. QED
  BY <1>1, Invariance, PTL DEF Spec

-----------------------------------------------------------------------------
(***************************************************************************)
(* The scanner's model knows of the pipeline how many payloads are in the  *)
(* channel and whether the receiver still exists.  Seen is that model with *)
(* these two taken from the pipeline's own; what it says of the chain and  *)
(* of the scans does not matter here and is held fixed.                    *)
(***************************************************************************)
Seen == INSTANCE ProtocolScanner WITH
  BusCap <- 1, MaxBlock <- 0, MaxReorgs <- 0, MaxDepth <- 0,
  Readers <- {}, Interval <- 1, MaxCandidates <- 0,
  tip <- 0, reorgs <- 0, watcher <- "check", stream <- <<>>, published <- <<>>,
  scanner <- "select", cursor <- 0, last <- 0, tracker <- {}, work <- <<>>,
  inChannel <- Len(queue), open <- loop # "stopped"

channel == <<Len(queue), loop # "stopped">>

(* What PushPayload of the scanner does to the channel. *)
Pushed ==
  /\ loop # "stopped" /\ loop' # "stopped"
  /\ Len(queue) < PayloadCap
  /\ Len(queue') = Len(queue) + 1

LEMMA StepIsSeen ==
  ASSUME TypeOK, [Next]_vars
  PROVE  [Seen!Pipeline \/ Pushed]_channel
<1> USE DEF TypeOK
<1>1. CASE RequestShutdown \/ UNCHANGED vars
  BY <1>1 DEF RequestShutdown, channel
<1>2. CASE StopLoop \/ CancelLoop
  <2>1. /\ loop # "stopped" /\ shutdown
        /\ loop' = "stopped" /\ Len(queue') = 0
        /\ shutdown' = shutdown
    BY <1>2, LoopEnds DEF DropReceiver
  <2>2. (loop' # "stopped") = FALSE
    BY <2>1
  <2>3. Seen!PipelineStops
    BY <2>1, <2>2 DEF Seen!PipelineStops, Seen!feedVars
  <2>4. QED
    BY <2>3 DEF Seen!Pipeline
<1>3. CASE TakePayload
  <2>1. /\ loop = "select" /\ loop' = "acquire"
        /\ Len(queue) \in Nat /\ Len(queue) > 0
        /\ Len(queue') = Len(queue) - 1
        /\ shutdown' = shutdown
    BY <1>3 DEF TakePayload
  <2>2. (loop' # "stopped") = (loop # "stopped")
    BY <2>1
  <2>3. Seen!PipelineTakes
    BY <2>1, <2>2 DEF Seen!PipelineTakes, Seen!feedVars
  <2>4. QED
    BY <2>3 DEF Seen!Pipeline
<1>4. ASSUME NEW p \in Payloads, SpawnTask(p)
      PROVE  UNCHANGED channel
  BY <1>4 DEF SpawnTask, channel
<1>5. ASSUME NEW p \in Payloads, SendPayload(p)
      PROVE  Pushed
  BY <1>5 DEF SendPayload, Pushed
<1>6. ASSUME NEW p \in Payloads, TaskStep(p)
      PROVE  UNCHANGED channel
  BY <1>6, TaskStepKeepsLoop DEF channel
<1>7. QED
  BY <1>1, <1>2, <1>3, <1>4, <1>5, <1>6 DEF Next, LoopStep

(***************************************************************************)
(* The scanner's picture of the pipeline is right: whatever the loop and   *)
(* its tasks do, the channel between them is emptied one payload at a      *)
(* time, closes for good and only after a shutdown, and grows by what the  *)
(* scanner pushes while there is room.                                     *)
(***************************************************************************)
THEOREM ScannerSeesThePipeline ==
  Spec => [][Seen!Pipeline \/ Pushed]_channel
<1>1. TypeOK /\ [Next]_vars => [Seen!Pipeline \/ Pushed]_channel
  BY StepIsSeen
<1>2. QED
  BY <1>1, TypeCorrect, PTL DEF Spec

=============================================================================
