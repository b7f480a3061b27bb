------------------------ MODULE WorkflowSystemProofs ------------------------
(***************************************************************************)
(* The processes of WorkflowSystem use MongoDB and Redis only through the  *)
(* operations of Engine and TaskQueue, so every safety theorem of those    *)
(* modules holds of the system, for any number of workers and faults.      *)
(*                                                                         *)
(* What needs an invariant is that a worker passes on values of the right  *)
(* kind: the id it popped is a task, and the token it reports with is one  *)
(* that a claim returned.                                                  *)
(*                                                                         *)
(* Two promises are of the composition alone, and hold until the first     *)
(* fault: no work is lost between MongoDB and Redis, and no task has two   *)
(* workers. Each has its own inductive invariant below.                    *)
(***************************************************************************)
EXTENDS WorkflowSystem, EngineProofs, SequenceTheorems

HasToken == {"starting", "started", "running"}

\* What a worker holds at each point of its loop.
LoopInv ==
  /\ SysTypeOK
  /\ ready \in Seq(Task)
  /\ \A w \in Worker : pc[w] \in HasToken => token[w] \in Attempt

\* A worker that is not idle has an id.
LEMMA BusyHasJob ==
  ASSUME LoopInv, NEW w \in Worker, pc[w] # "idle"
  PROVE  job[w] \in Task
  BY DEF LoopInv, SysTypeOK

-----------------------------------------------------------------------------
(* Every step of the system is a step of the engine, or none.              *)

\* The steps of one worker loop.
LEMMA LoopIsEngineStep ==
  ASSUME LoopInv, BookType, NEW w \in Worker,
         LoopStep(w) \/ Renew(w) \/ WorkerFails(w)
  PROVE  [Next]_vars
<1>0. w \in Process
  BY SystemAssumption
<1>1. CASE Pop(w) \/ RunHandler(w) \/ ReportRejected(w) \/ ScheduleRetry(w)
           \/ AckTask(w)
  BY <1>1 DEF Pop, RunHandler, ReportRejected, ScheduleRetry, AckTask
<1>2. CASE StartTask(w)
  <2>1. job[w] \in Task
    BY <1>2, BusyHasJob DEF StartTask
  <2>2. Start \/ UNCHANGED vars
    BY <1>2, <2>1 DEF StartTask, Start
  <2> QED BY <2>2 DEF Next
<1>3. CASE Starting(w)
  <2>1. job[w] \in Task /\ token[w] \in Attempt
    BY <1>3, BusyHasJob DEF Starting, LoopInv, HasToken
  <2>2. Start
    BY <1>3, <2>1 DEF Starting, Start
  <2> QED BY <2>2 DEF Next
<1>4. CASE PoisonPill(w)
  <2>1. job[w] \in Task /\ token[w] \in Attempt
    BY <1>4, BusyHasJob DEF PoisonPill, LoopInv, HasToken
  <2>2. Report \/ UNCHANGED vars
    BY <1>4, <2>1 DEF PoisonPill, Report, HandlerError
  <2> QED BY <2>2 DEF Next
<1>5. CASE \/ ReportComplete(w) \/ ReportSuspend(w) \/ ReportDecideRetry(w)
           \/ \E error \in HandlerError :
                ReportRetry(w, error) \/ ReportFail(w, error)
  <2>1. pc[w] = "running"
    BY <1>5 DEF ReportComplete, ReportSuspend, ReportDecideRetry, ReportRetry,
                ReportFail
  <2>2. job[w] \in Task /\ token[w] \in Attempt
    BY <2>1, BusyHasJob DEF LoopInv, HasToken
  <2>3. Report
    BY <1>5, <2>2 DEF ReportComplete, ReportSuspend, ReportDecideRetry,
                      ReportRetry, ReportFail, Report
  <2> QED BY <2>3 DEF Next
<1>6. CASE Renew(w)
  <2>1. job[w] \in Task /\ token[w] \in Attempt
    BY <1>6, BusyHasJob DEF Renew, LoopInv, HasToken
  <2>2. KeepLease
    BY <1>6, <2>1 DEF Renew, KeepLease
  <2> QED BY <2>2 DEF Next
<1>7. CASE WorkerFails(w)
  <2>1. Dispatch \/ UNCHANGED vars
    BY <1>0, <1>7 DEF WorkerFails, Dispatch
  <2> QED BY <2>1 DEF Next
<1> QED BY <1>1, <1>2, <1>3, <1>4, <1>5, <1>6, <1>7 DEF LoopStep, HandlerEnds

\* dispatchReady and the failures of the processes that call it.
LEMMA CallIsEngineStep ==
  ASSUME NEW p \in Process,
         \/ CallStep(p) \/ CallerFails(p) \/ \E t \in Task : EnqueueFails(p, t)
  PROVE  [Next]_vars
<1>1. Dispatch \/ UNCHANGED vars
  BY DEF CallStep, CallerFails, EnqueueFails, SysDispatchRead, SysDispatchTask,
         EnqueueSafely, Dispatch
<1> QED BY <1>1 DEF Next

\* Timers, clocks and API requests.
LEMMA OtherIsEngineStep ==
  ASSUME \/ Maintenance \/ RedisRestartsEmpty \/ ReconcileReady
         \/ \E t \in Task :
              \/ DelayElapses(t) \/ QueueLeaseExpires(t) \/ TaskLeaseExpires(t)
              \/ ReconcileFind(t) \/ ExpireApproval(t)
              \/ \E decision \in {"APPROVED", "REJECTED"} : Answer(t, decision)
         \/ Pause \/ Resume \/ Cancel
  PROVE  [Next]_vars
<1>1. CASE Maintenance \/ RedisRestartsEmpty \/ ReconcileReady
  BY <1>1 DEF Maintenance, RedisRestartsEmpty, ReconcileReady
<1>2. CASE Pause \/ Resume \/ Cancel
  BY <1>2 DEF Pause, Resume, Cancel, Next
<1>3. ASSUME NEW t \in Task,
             DelayElapses(t) \/ QueueLeaseExpires(t) \/ ReconcileFind(t)
      PROVE  [Next]_vars
  BY <1>3 DEF DelayElapses, QueueLeaseExpires, ReconcileFind
<1>4. ASSUME NEW t \in Task, TaskLeaseExpires(t) PROVE [Next]_vars
  BY <1>4 DEF TaskLeaseExpires, KeepLease, Next
<1>5. ASSUME NEW t \in Task,
             \/ ExpireApproval(t)
             \/ \E decision \in {"APPROVED", "REJECTED"} : Answer(t, decision)
      PROVE  [Next]_vars
  BY <1>5 DEF ExpireApproval, Answer, Decide, Next
<1> QED BY <1>1, <1>2, <1>3, <1>4, <1>5

\* Every step of the system is a step of Engine or leaves MongoDB alone.
LEMMA EngineStep == LoopInv /\ BookType /\ [SysNext]_sysVars => [Next]_vars
<1>1. UNCHANGED sysVars => UNCHANGED vars
  BY DEF sysVars
<1> QED BY <1>1, LoopIsEngineStep, CallIsEngineStep, OtherIsEngineStep
        DEF SysNext

-----------------------------------------------------------------------------
(* Every step of the system is one script of the queue, or none.           *)

\* Every step of the system is a step of TaskQueue or leaves Redis alone.
LEMMA QueueStep == LoopInv /\ [SysNext]_sysVars => [Queue!QueueNext]_queueVars
<1> SUFFICES ASSUME LoopInv, [SysNext]_sysVars
             PROVE  Queue!QueueNext \/ UNCHANGED queueVars
  OBVIOUS
<1>1. ASSUME NEW w \in Worker, LoopStep(w) \/ Renew(w) \/ WorkerFails(w)
      PROVE  Queue!QueueNext \/ UNCHANGED queueVars
  <2>1. CASE Pop(w)
    BY <2>1 DEF Pop, Queue!QueueNext
  <2>2. CASE RunHandler(w) \/ ScheduleRetry(w) \/ AckTask(w) \/ Renew(w)
    <3>1. job[w] \in Task
      BY <2>2, BusyHasJob DEF RunHandler, ScheduleRetry, AckTask, Renew
    <3> QED BY <2>2, <3>1
            DEF RunHandler, ScheduleRetry, AckTask, Renew, Queue!QueueNext
  <2>3. CASE StartTask(w) \/ Starting(w) \/ PoisonPill(w) \/ HandlerEnds(w)
             \/ WorkerFails(w)
    BY <2>3 DEF StartTask, Starting, PoisonPill, HandlerEnds, ReportRejected,
                ReportComplete, ReportSuspend, ReportDecideRetry, ReportRetry,
                ReportFail, WorkerFails
  <2> QED BY <1>1, <2>1, <2>2, <2>3 DEF LoopStep
<1>2. ASSUME NEW p \in Process,
             \/ CallStep(p) \/ CallerFails(p)
             \/ \E t \in Task : EnqueueFails(p, t)
      PROVE  Queue!QueueNext \/ UNCHANGED queueVars
  BY <1>2 DEF CallStep, CallerFails, EnqueueFails, SysDispatchRead,
              SysDispatchTask, EnqueueSafely, Queue!QueueNext
<1>3. CASE Maintenance \/ RedisRestartsEmpty \/ ReconcileReady \/ Pause
           \/ Resume \/ Cancel
  BY <1>3 DEF Maintenance, RedisRestartsEmpty, ReconcileReady, Pause, Resume,
              Cancel, Queue!QueueNext
<1>4. ASSUME NEW t \in Task,
             \/ DelayElapses(t) \/ QueueLeaseExpires(t) \/ TaskLeaseExpires(t)
             \/ ReconcileFind(t) \/ ExpireApproval(t)
             \/ \E decision \in {"APPROVED", "REJECTED"} : Answer(t, decision)
      PROVE  Queue!QueueNext \/ UNCHANGED queueVars
  BY <1>4 DEF DelayElapses, QueueLeaseExpires, TaskLeaseExpires, ReconcileFind,
              ExpireApproval, Answer, Queue!QueueNext
<1>5. CASE UNCHANGED sysVars
  BY <1>5 DEF sysVars
<1> QED BY <1>1, <1>2, <1>3, <1>4, <1>5 DEF SysNext

-----------------------------------------------------------------------------
(* The invariant of the loops.                                             *)

\* A batch of a set of tasks is a sequence of tasks.
LEMMA BatchType ==
  ASSUME NEW S \in SUBSET Task, NEW s \in Queue!Batch(S)
  PROVE  s \in Seq(Task)
<1>1. PICK n \in 0 .. Limit : s \in [1 .. n -> S]
  BY DEF Queue!Batch
<1>2. n \in Nat
  BY SystemAssumption
<1> QED BY <1>1, <1>2

\* The list of ready ids only ever holds tasks.
LEMMA ReadyType ==
  ASSUME ready \in Seq(Task), Queue!QueueNext \/ UNCHANGED queueVars
  PROVE  ready' \in Seq(Task)
<1>1. ASSUME NEW t \in Task, Queue!Enqueue(t) PROVE ready' \in Seq(Task)
  BY <1>1, AppendProperties DEF Queue!Enqueue
<1>2. ASSUME NEW t \in Task,
             \/ Queue!EnqueueDelayed(t) \/ Queue!ExtendLease(t) \/ Queue!Ack(t)
             \/ Queue!LeaseDeadlinePasses(t) \/ Queue!DelayPasses(t)
      PROVE  ready' \in Seq(Task)
  BY <1>2 DEF Queue!EnqueueDelayed, Queue!ExtendLease, Queue!Ack,
              Queue!LeaseDeadlinePasses, Queue!DelayPasses
<1>3. CASE Queue!Claim
  BY <1>3, HeadTailProperties DEF Queue!Claim
<1>4. CASE Queue!RequeueExpired
  BY <1>4, BatchType, ConcatProperties
     DEF Queue!RequeueExpired, Queue!ExpiredIds
<1>5. CASE Queue!PromoteDue
  BY <1>5, BatchType, ConcatProperties DEF Queue!PromoteDue, Queue!DueIds
<1>6. CASE Queue!LoseData
  BY <1>6 DEF Queue!LoseData
<1> QED BY <1>1, <1>2, <1>3, <1>4, <1>5, <1>6 DEF Queue!QueueNext, queueVars

\* What a process of the system may do to the variables that describe it.
LoopTyped == SysTypeOK /\ \A w \in Worker : pc[w] \in HasToken => token[w] \in Attempt

\* A worker goes on with what it holds.
LEMMA LoopGoesOn ==
  ASSUME LoopTyped, NEW w \in Worker, NEW l \in LoopState,
         pc[w] # "idle", l # "idle", l \in HasToken => pc[w] \in HasToken,
         Goto(w, l), UNCHANGED <<job, token, owner, outgoing>>,
         duty' \in [Process -> BOOLEAN], faults' \in 0 .. MaxFaults
  PROVE  LoopTyped'
  BY DEF LoopTyped, SysTypeOK, Goto

\* A worker goes back to polling.
LEMMA LoopRestarts ==
  ASSUME LoopTyped, NEW w \in Worker, Goto(w, "idle"),
         job' = [job EXCEPT ![w] = None], token' = [token EXCEPT ![w] = 0],
         UNCHANGED owner, duty' \in [Process -> BOOLEAN],
         outgoing' \in [Process -> SUBSET Task], faults' \in 0 .. MaxFaults
  PROVE  LoopTyped'
<1>1. 0 \in 0 .. MaxClaims /\ "idle" \in LoopState /\ "idle" \notin HasToken
  BY SettingsAssumption DEF LoopState, HasToken
<1>2. SysTypeOK'
  BY <1>1, SystemAssumption DEF LoopTyped, SysTypeOK, Goto
<1>3. \A v \in Worker : pc'[v] \in HasToken =>
        v # w /\ pc[v] \in HasToken /\ token'[v] = token[v]
  BY <1>1 DEF LoopTyped, SysTypeOK, Goto
<1> QED BY <1>2, <1>3 DEF LoopTyped, Attempt

\* A step of a process that is no step of a loop.
LEMMA LoopsStay ==
  ASSUME LoopTyped, UNCHANGED loopVars, duty' \in [Process -> BOOLEAN],
         outgoing' \in [Process -> SUBSET Task], faults' \in 0 .. MaxFaults
  PROVE  LoopTyped'
  BY DEF LoopTyped, SysTypeOK, loopVars

\* A fault is counted within its bound.
LEMMA FaultType ==
  ASSUME faults \in 0 .. MaxFaults, Fault \/ UNCHANGED faults
  PROVE  faults' \in 0 .. MaxFaults
  BY SystemAssumption DEF Fault, FaultsLeft

\* A worker's own steps keep what it holds in line with where it is.
LEMMA LoopStepTyped ==
  ASSUME LoopInv, BookType, NEW w \in Worker,
         LoopStep(w) \/ Renew(w) \/ WorkerFails(w)
  PROVE  LoopTyped'
<1>0. /\ LoopTyped /\ w \in Process /\ duty \in [Process -> BOOLEAN]
      /\ outgoing \in [Process -> SUBSET Task] /\ faults \in 0 .. MaxFaults
  BY SystemAssumption DEF LoopInv, LoopTyped, SysTypeOK
<1>1. CASE Pop(w)
  <2>1. Head(ready) \in Task
    BY <1>1, HeadTailProperties DEF Pop, Queue!Claim, LoopInv
  <2> QED BY <1>0, <1>1, <2>1, SystemAssumption
          DEF Pop, LoopTyped, SysTypeOK, Goto, LoopState, HasToken, callVars
<1>2. CASE StartTask(w)
  <2>1. job[w] \in Task /\ pc[w] = "popped"
    BY <1>2, BusyHasJob DEF StartTask
  <2>2. CASE Claimable(job[w])
    <3>1. attempt[job[w]] + 1 \in Attempt /\ attempt[job[w]] + 1 \in 0 .. MaxClaims
      BY <1>2, <2>1, <2>2, SettingsAssumption
         DEF StartTask, ClaimTask, BookType, Attempt
    <3> QED BY <1>0, <1>2, <2>1, <2>2, <3>1
            DEF StartTask, LoopTyped, SysTypeOK, Goto, LoopState, HasToken,
                callVars
  <2>3. CASE ~Claimable(job[w])
    BY <1>0, <1>2, <2>3, LoopGoesOn
       DEF StartTask, callVars, LoopState, HasToken
  <2> QED BY <2>2, <2>3
<1>3. CASE Starting(w)
  <2>1. CASE UNCHANGED pc
    BY <1>0, <1>3, <2>1, LoopsStay DEF Starting, loopVars, callVars
  <2>2. CASE Goto(w, "started")
    BY <1>0, <1>3, <2>2, LoopGoesOn
       DEF Starting, callVars, LoopState, HasToken
  <2> QED BY <1>3, <2>1, <2>2 DEF Starting
<1>4. CASE PoisonPill(w)
  BY <1>0, <1>4, LoopGoesOn DEF PoisonPill, callVars, LoopState, HasToken
<1>5. CASE RunHandler(w)
  BY <1>0, <1>5, LoopGoesOn DEF RunHandler, callVars, LoopState, HasToken
<1>6. CASE Renew(w) \/ ReportDecideRetry(w)
  BY <1>0, <1>6, LoopsStay DEF Renew, ReportDecideRetry, callVars
<1>7. CASE ReportRejected(w) \/ ReportSuspend(w)
  BY <1>0, <1>7, LoopGoesOn
     DEF ReportRejected, ReportSuspend, callVars, LoopState, HasToken
<1>8. CASE ReportComplete(w)
  BY <1>0, <1>8, LoopGoesOn DEF ReportComplete, LoopState, HasToken
<1>9. ASSUME NEW error \in HandlerError, ReportRetry(w, error) \/ ReportFail(w, error)
      PROVE  LoopTyped'
  BY <1>0, <1>9, LoopGoesOn
     DEF ReportRetry, ReportFail, callVars, LoopState, HasToken
<1>10. CASE ScheduleRetry(w)
  <2>1. faults' \in 0 .. MaxFaults
    BY <1>0, <1>10, FaultType DEF ScheduleRetry
  <2> QED BY <1>0, <1>10, <2>1, LoopGoesOn
          DEF ScheduleRetry, callVars, LoopState, HasToken
<1>11. CASE AckTask(w)
  BY <1>0, <1>11, LoopRestarts DEF AckTask, callVars
<1>12. CASE WorkerFails(w)
  <2>1. faults' \in 0 .. MaxFaults
    BY <1>0, <1>12, FaultType DEF WorkerFails
  <2> QED BY <1>0, <1>12, <2>1, LoopRestarts DEF WorkerFails
<1> QED BY <1>1, <1>2, <1>3, <1>4, <1>5, <1>6, <1>7, <1>8, <1>9, <1>10, <1>11,
           <1>12 DEF LoopStep, HandlerEnds

\* Steps of clocks, reconciler, API and Redis leave the workers where they are.
LEMMA OtherStepTyped ==
  ASSUME LoopInv,
         \/ \E p \in Process :
              \/ CallStep(p) \/ CallerFails(p)
              \/ \E t \in Task : EnqueueFails(p, t)
         \/ Maintenance \/ RedisRestartsEmpty \/ ReconcileReady
         \/ \E t \in Task :
              \/ DelayElapses(t) \/ QueueLeaseExpires(t) \/ TaskLeaseExpires(t)
              \/ ReconcileFind(t) \/ ExpireApproval(t)
              \/ \E decision \in {"APPROVED", "REJECTED"} : Answer(t, decision)
         \/ Pause \/ Resume \/ Cancel
  PROVE  LoopTyped'
<1>0. /\ LoopTyped /\ duty \in [Process -> BOOLEAN]
      /\ outgoing \in [Process -> SUBSET Task] /\ faults \in 0 .. MaxFaults
  BY DEF LoopInv, LoopTyped, SysTypeOK
<1>1. UNCHANGED loopVars
  BY DEF CallStep, CallerFails, EnqueueFails, SysDispatchRead, SysDispatchTask,
         EnqueueSafely, Maintenance, RedisRestartsEmpty, ReconcileReady,
         DelayElapses, QueueLeaseExpires, TaskLeaseExpires, ReconcileFind,
         ExpireApproval, Answer, Pause, Resume, Cancel
<1>2. faults' \in 0 .. MaxFaults
  <2>1. Fault \/ UNCHANGED faults
    BY DEF CallStep, CallerFails, EnqueueFails, SysDispatchRead, SysDispatchTask,
           EnqueueSafely, Maintenance, RedisRestartsEmpty, ReconcileReady,
           DelayElapses, QueueLeaseExpires, TaskLeaseExpires, ReconcileFind,
           ExpireApproval, Answer, Pause, Resume, Cancel
  <2> QED BY <1>0, <2>1, FaultType
<1>3. outgoing' \in [Process -> SUBSET Task]
  BY <1>0 DEF CallStep, CallerFails, EnqueueFails, SysDispatchRead,
         SysDispatchTask, EnqueueSafely, Maintenance, RedisRestartsEmpty,
         ReconcileReady, DelayElapses, QueueLeaseExpires, TaskLeaseExpires,
         ReconcileFind, ExpireApproval, Answer, Pause, Resume, Cancel, callVars
<1>4. duty' \in [Process -> BOOLEAN]
  BY <1>0 DEF CallStep, CallerFails, EnqueueFails, SysDispatchRead,
         SysDispatchTask, EnqueueSafely, Maintenance, RedisRestartsEmpty,
         ReconcileReady, DelayElapses, QueueLeaseExpires, TaskLeaseExpires,
         ReconcileFind, ExpireApproval, Answer, Pause, Resume, Cancel, callVars
<1> QED BY <1>0, <1>1, <1>2, <1>3, <1>4, LoopsStay

\* Every step of the system keeps LoopInv.
LEMMA NextLoop == LoopInv /\ BookType /\ [SysNext]_sysVars => LoopInv'
<1> SUFFICES ASSUME LoopInv, BookType, [SysNext]_sysVars PROVE LoopInv'
  OBVIOUS
<1>1. ready' \in Seq(Task)
  BY QueueStep, ReadyType DEF LoopInv, queueVars
<1>2. LoopTyped'
  <2>1. CASE UNCHANGED sysVars
    BY <2>1 DEF sysVars, loopVars, callVars, LoopInv, LoopTyped, SysTypeOK
  <2> QED BY <2>1, LoopStepTyped, OtherStepTyped DEF SysNext
<1> QED BY <1>1, <1>2 DEF LoopInv, LoopTyped

\* Workers start idle.
LEMMA InitLoop == SysInit => LoopInv
  BY SystemAssumption, SettingsAssumption
     DEF SysInit, Queue!QueueInit, LoopInv, SysTypeOK, LoopState, HasToken

-----------------------------------------------------------------------------

\* The invariant of the loops, with the types of the engine's records.
THEOREM LoopInvariant == SysSpec => [](LoopInv /\ BookType)
<1>1. SysInit => LoopInv /\ BookType
  BY InitLoop, InitBook DEF SysInit
<1>2. LoopInv /\ BookType /\ [SysNext]_sysVars => (LoopInv /\ BookType)'
  BY NextLoop, EngineStep, NextBook
<1> QED BY <1>1, <1>2, PTL DEF SysSpec

\* Where each worker loop is and what it holds fit together (processTask).
THEOREM SystemTypeCorrect == SysSpec => []SysTypeOK
<1>1. LoopInv => SysTypeOK
  BY DEF LoopInv
<1> QED BY <1>1, LoopInvariant, PTL

\* Workers, API process and reconciler touch MongoDB only through the
\* operations of engine.js: the system implements the engine's specification.
THEOREM SystemImplementsEngine == SysSpec => ImplementsEngine
<1>1. SysInit => Init
  BY DEF SysInit
<1> QED BY <1>1, EngineStep, LoopInvariant, PTL DEF SysSpec, Spec, ImplementsEngine

\* ... and Redis only through the scripts of taskQueue.js.
THEOREM SystemImplementsQueue == SysSpec => ImplementsQueue
<1>1. SysInit => Queue!QueueInit
  BY DEF SysInit
<1>2. UNCHANGED queueVars <=> UNCHANGED Queue!queueVars
  BY DEF queueVars, Queue!queueVars
<1> QED BY <1>1, <1>2, QueueStep, LoopInvariant, PTL
        DEF SysSpec, Queue!QueueSpec, ImplementsQueue

\* What is proved about the queue alone.
Proved == INSTANCE TaskQueueProofs

\* So whatever workers, reconciler and API do and whatever fails, a task id is
\* in one of ready, leases and delayed when it is a member, and only once.
THEOREM SystemQueuePartition == SysSpec => []Queue!QueuePartition
<1>1. Queue!QueueInit => Proved!QueueInit
  BY DEF Queue!QueueInit, Proved!QueueInit
<1>2. Queue!QueueNext => Proved!QueueNext
  BY DEF Queue!Enqueue, Proved!Enqueue, Queue!EnqueueDelayed, Proved!EnqueueDelayed,
         Queue!ExtendLease, Proved!ExtendLease, Queue!Ack, Proved!Ack,
         Queue!LeaseDeadlinePasses, Proved!LeaseDeadlinePasses, Queue!DelayPasses,
         Proved!DelayPasses, Queue!Claim, Proved!Claim, Queue!RequeueExpired,
         Proved!RequeueExpired, Queue!PromoteDue, Proved!PromoteDue, Queue!LoseData,
         Proved!LoseData, Queue!Batch, Proved!Batch, Queue!IdsOf, Proved!IdsOf,
         Queue!ExpiredIds, Proved!ExpiredIds, Queue!DueIds, Proved!DueIds,
         Queue!QueueNext, Proved!QueueNext
<1>3. UNCHANGED Queue!queueVars => UNCHANGED Proved!queueVars
  BY DEF Queue!queueVars, Proved!queueVars
<1>4. Proved!QueueSpec => []Proved!QueuePartition
  BY Proved!QueueIsPartition, SystemAssumption DEF Proved!QueueAssumption
<1>5. Proved!QueuePartition => Queue!QueuePartition
  BY DEF Queue!QueuePartition, Proved!QueuePartition, Queue!ReadyIds, Proved!ReadyIds,
         Queue!LeasedIds, Proved!LeasedIds, Queue!DelayedIds, Proved!DelayedIds
<1> QED BY <1>1, <1>2, <1>3, <1>4, <1>5, SystemImplementsQueue, PTL
        DEF ImplementsQueue, Queue!QueueSpec, Proved!QueueSpec

\* Hence, with any number of workers, crashes and lost calls: dependencies
\* are respected, the counters of a run are exact, its outcome is sound, the
\* attempt history and the outbox are truthful, and no unfinished task is out
\* of the reconciler's reach.
THEOREM SystemSafe ==
  SysSpec => [](/\ PendingCountExact /\ RemainingDepsExact /\ DepsRespected
                /\ RunOutcomeSound /\ NoStuckRun /\ HistoryMatchesTask
                /\ ApprovalMatchesTask /\ OutboxMatchesState /\ SweepFindsWork)
  BY SystemImplementsEngine, PendingCountCorrect, RemainingDepsCorrect,
     DependenciesRespected, RunOutcomeCorrect, RunNeverStuck, HistoryCorrect,
     ApprovalsCorrect, OutboxCorrect, ReconcileReaches, PTL DEF ImplementsEngine

\* ... the run is what DagRun promises of it: every task is done at most once
\* and after its dependencies, the run ends once, and no status moves along an
\* edge that states.js does not have.
THEOREM SystemKeepsPromise == SysSpec => ImplementsDagRun /\ LegalTransitions
  BY SystemImplementsEngine, EngineImplementsDagRun, TransitionsLegal, PTL
     DEF ImplementsEngine

\* The types of the status documents hold of the system.
LEMMA SystemCoreType == SysSpec => []CoreType
<1>1. CoreInv => CoreType
  BY DEF CoreInv
<1> QED BY <1>1, SystemImplementsEngine, CoreInvariant, PTL DEF ImplementsEngine

-----------------------------------------------------------------------------
(* Without a fault no work is lost.                                        *)
(*                                                                         *)
(* A late ack can take the id of a task from Redis although another worker *)
(* has popped it, so "it is in Redis" is not what lasts. What does: an id  *)
(* that Redis holds a lease of, and whose task waits, is in the hands of a *)
(* worker that is about to claim the task or to schedule its retry; and no *)
(* id is known to Redis or to a process before its task is dispatched.     *)

Waits(t) == status[t] \in {"QUEUED", "RETRYING"}
InHand(t) == \E w \in Worker : job[w] = t /\ pc[w] \in {"popped", "retry"}
AboutToTell(t) == \E p \in Process : t \in outgoing[p]

\* The task was dispatched, or will not be.
Seen(t) == status[t] \notin {"PENDING", "READY"}

QueueTyped == leases \in [Task -> Queue!Score] /\ delayed \in [Task -> Queue!Score]

KnownIds ==
  /\ ready \in Seq({t \in Task : Seen(t)})
  /\ \A t \in Task : leases[t] # "none" \/ delayed[t] # "none" => Seen(t)
  /\ \A p \in Process : \A t \in outgoing[p] : Seen(t)
  /\ \A w \in Worker : job[w] # None => Seen(job[w])

TaskWork(t) ==
  /\ Waits(t) => t \in members \/ AboutToTell(t) \/ InHand(t)
  /\ Waits(t) /\ leases[t] # "none" => InHand(t)

WorkInv ==
  /\ QueueTyped
  /\ KnownIds
  /\ faults = 0 => \A t \in Task : TaskWork(t)

\* A task that was dispatched does not become one that waits to be.
LEMMA SeenStays ==
  ASSUME CoreType, [Next]_vars, NEW t \in Task, Seen(t)
  PROVE  Seen(t)'
<1>1. CoreNext
  BY CoreStep
<1> QED BY <1>1
  DEF CoreNext, MovesOne, Moves, AfterTaskSucceeded, AfterTaskFailedForGood, PauseExecution,
      ResumeExecution, CancelExecution, Promotable, TasksIn, CutOff, Seen, CoreType,
      BadOutcome, Unstarted, Unfinished

\* The scores stay scores.
LEMMA QueueTypedStep ==
  ASSUME QueueTyped, LoopInv, [SysNext]_sysVars
  PROVE  QueueTyped'
<1>1. Queue!QueueNext \/ UNCHANGED queueVars
  BY QueueStep
<1> QED BY <1>1
  DEF QueueTyped, queueVars, Queue!QueueNext, Queue!Enqueue, Queue!EnqueueDelayed, Queue!Claim,
      Queue!ExtendLease, Queue!Ack, Queue!RequeueExpired, Queue!PromoteDue,
      Queue!LeaseDeadlinePasses, Queue!DelayPasses, Queue!LoseData, Queue!Score, LoopInv

\* Faults are counted, never taken back.
LEMMA FaultsGrow ==
  ASSUME LoopInv, [SysNext]_sysVars
  PROVE  /\ Fault \/ UNCHANGED faults
         /\ faults' = 0 => faults = 0 /\ UNCHANGED faults
<1>0. faults \in Nat
  BY SystemAssumption DEF LoopInv, SysTypeOK
<1>1. Fault \/ UNCHANGED faults
  BY DEF SysNext, sysVars, CallStep, CallerFails, EnqueueFails, SysDispatchRead, SysDispatchTask,
         EnqueueSafely, Maintenance, RedisRestartsEmpty, ReconcileReady, DelayElapses,
         QueueLeaseExpires, TaskLeaseExpires, ReconcileFind, ExpireApproval, Answer, Pause,
         Resume, Cancel, LoopStep, Pop, StartTask, Starting, PoisonPill, RunHandler,
         HandlerEnds, ReportRejected, ReportComplete, ReportSuspend, ReportDecideRetry,
         ReportRetry, ReportFail, ScheduleRetry, AckTask, Renew, WorkerFails
<1> QED BY <1>0, <1>1 DEF Fault

\* A batch of ids of T is a sequence of ids of T.
LEMMA BatchOf ==
  ASSUME NEW T, NEW S \in SUBSET T, NEW s \in Queue!Batch(S)
  PROVE  s \in Seq(T)
<1>1. PICK n \in 0 .. Limit : s \in [1 .. n -> S]
  BY DEF Queue!Batch
<1>2. n \in Nat
  BY SystemAssumption
<1> QED BY <1>1, <1>2

\* The scripts keep no other ids than those they were given.
LEMMA QueueKnown ==
  ASSUME NEW T \in SUBSET Task, QueueTyped, ready \in Seq(T),
         \A t \in Task : leases[t] # "none" \/ delayed[t] # "none" => t \in T,
         \/ \E t \in T : Queue!Enqueue(t) \/ Queue!EnqueueDelayed(t)
         \/ \E t \in Task : \/ Queue!ExtendLease(t) \/ Queue!Ack(t)
                            \/ Queue!LeaseDeadlinePasses(t) \/ Queue!DelayPasses(t)
         \/ Queue!Claim \/ Queue!RequeueExpired \/ Queue!PromoteDue \/ Queue!LoseData
         \/ UNCHANGED queueVars
  PROVE  /\ ready' \in Seq(T)
         /\ \A t \in Task : leases'[t] # "none" \/ delayed'[t] # "none" => t \in T
<1> DEFINE Kept == /\ ready' \in Seq(T)
                   /\ \A t \in Task : leases'[t] # "none" \/ delayed'[t] # "none" => t \in T
<1>1. ASSUME NEW t \in T, Queue!Enqueue(t) PROVE Kept
  BY <1>1, AppendProperties DEF Queue!Enqueue
<1>2. ASSUME NEW t \in T, Queue!EnqueueDelayed(t) PROVE Kept
  BY <1>2 DEF Queue!EnqueueDelayed, QueueTyped
<1>3. ASSUME NEW t \in Task, \/ Queue!ExtendLease(t) \/ Queue!Ack(t)
                             \/ Queue!LeaseDeadlinePasses(t) \/ Queue!DelayPasses(t)
      PROVE  Kept
  BY <1>3 DEF Queue!ExtendLease, Queue!Ack, Queue!LeaseDeadlinePasses, Queue!DelayPasses,
              QueueTyped
<1>4. CASE Queue!Claim
  <2>1. Head(ready) \in T /\ Tail(ready) \in Seq(T)
    BY <1>4, HeadTailProperties DEF Queue!Claim
  <2> QED BY <1>4, <2>1 DEF Queue!Claim, QueueTyped
<1>5. CASE Queue!RequeueExpired
  <2>1. PICK s \in Queue!Batch(Queue!ExpiredIds) :
          /\ leases' = [t \in Task |-> IF t \in Queue!IdsOf(s) THEN "none" ELSE leases[t]]
          /\ ready' = ready \o s /\ delayed' = delayed
    BY <1>5 DEF Queue!RequeueExpired
  <2>2. Queue!ExpiredIds \in SUBSET T
    BY DEF Queue!ExpiredIds
  <2>3. s \in Seq(T)
    BY <2>2, BatchOf
  <2>4. ready' \in Seq(T)
    BY <2>1, <2>3, ConcatProperties
  <2> QED BY <2>1, <2>4
<1>6. CASE Queue!PromoteDue
  <2>1. PICK s \in Queue!Batch(Queue!DueIds) :
          /\ delayed' = [t \in Task |-> IF t \in Queue!IdsOf(s) THEN "none" ELSE delayed[t]]
          /\ ready' = ready \o s /\ leases' = leases
    BY <1>6 DEF Queue!PromoteDue
  <2>2. Queue!DueIds \in SUBSET T
    BY DEF Queue!DueIds
  <2>3. s \in Seq(T)
    BY <2>2, BatchOf
  <2>4. ready' \in Seq(T)
    BY <2>1, <2>3, ConcatProperties
  <2> QED BY <2>1, <2>4
<1>7. CASE Queue!LoseData
  BY <1>7 DEF Queue!LoseData
<1>8. CASE UNCHANGED queueVars
  BY <1>8 DEF queueVars
<1> QED BY <1>1, <1>2, <1>3, <1>4, <1>5, <1>6, <1>7, <1>8

\* No id is known to Redis or to a process before its task is dispatched.
LEMMA NextKnown ==
  ASSUME LoopInv, BookType, CoreType, QueueTyped, KnownIds, [SysNext]_sysVars
  PROVE  KnownIds'
<1>0. [Next]_vars
  BY EngineStep
<1>1. PICK T : T = {t \in Task : Seen(t)'}
  OBVIOUS
<1>2. /\ T \in SUBSET Task /\ \A t \in Task : Seen(t) => t \in T
      /\ \A t \in T : Seen(t)'
  BY <1>0, <1>1, SeenStays
<1>3. ready \in Seq(T)
  <2>1. {t \in Task : Seen(t)} \in SUBSET T
    BY <1>2
  <2> QED BY <2>1 DEF KnownIds
<1>4. /\ \A t \in Task : leases[t] # "none" \/ delayed[t] # "none" => t \in T
      /\ \A p \in Process : outgoing[p] \subseteq T
      /\ \A w \in Worker : job[w] # None => job[w] \in T
  BY <1>2 DEF KnownIds, LoopInv, SysTypeOK
<1>5. \A p \in Process : outgoing'[p] \subseteq T
  <2>1. ASSUME NEW q \in Process, NEW t \in Task,
               SysDispatchTask(q, t) \/ EnqueueSafely(q, t) \/ EnqueueFails(q, t)
        PROVE  \A p \in Process : outgoing'[p] \subseteq T
    <3>1. WinsDispatch(t) /\ SysDispatchTask(q, t) => t \in T
      BY <1>1 DEF SysDispatchTask, DispatchTask, Seen, CoreType
    <3>2. outgoing \in [Process -> SUBSET Task]
      BY DEF LoopInv, SysTypeOK
    <3> QED BY <1>4, <2>1, <3>1, <3>2 DEF SysDispatchTask, EnqueueSafely, EnqueueFails
  <2>2. ASSUME NEW q \in Process, SysDispatchRead(q) \/ CallerFails(q)
        PROVE  \A p \in Process : outgoing'[p] \subseteq T
    BY <1>4, <2>2 DEF SysDispatchRead, CallerFails, LoopInv, SysTypeOK
  <2>3. ASSUME NEW t \in Task, ReconcileFind(t)
        PROVE  \A p \in Process : outgoing'[p] \subseteq T
    <3>1. t \in T
      BY <1>2, <2>3 DEF ReconcileFind, NeedsWakeUp, Seen
    <3> QED BY <1>4, <2>3, <3>1 DEF ReconcileFind, LoopInv, SysTypeOK
  <2>4. ASSUME NEW w \in Worker, WorkerFails(w)
        PROVE  \A p \in Process : outgoing'[p] \subseteq T
    BY <1>4, <2>4 DEF WorkerFails, LoopInv, SysTypeOK
  <2>5. CASE UNCHANGED outgoing
    BY <1>4, <2>5
  <2>6. ASSUME NEW w \in Worker, LoopStep(w) \/ Renew(w) PROVE UNCHANGED outgoing
    BY <2>6 DEF LoopStep, Pop, StartTask, Starting, PoisonPill, RunHandler, HandlerEnds,
         ReportRejected, ReportComplete, ReportSuspend, ReportDecideRetry, ReportRetry,
         ReportFail, ScheduleRetry, AckTask, Renew, callVars
  <2>7. ASSUME \/ UNCHANGED sysVars \/ Maintenance \/ RedisRestartsEmpty \/ ReconcileReady
               \/ Pause \/ Resume \/ Cancel
               \/ \E t \in Task :
                    \/ DelayElapses(t) \/ QueueLeaseExpires(t) \/ TaskLeaseExpires(t)
                    \/ ExpireApproval(t)
                    \/ \E decision \in {"APPROVED", "REJECTED"} : Answer(t, decision)
        PROVE  UNCHANGED outgoing
    BY <2>7 DEF sysVars, Maintenance, RedisRestartsEmpty, ReconcileReady, Pause, Resume, Cancel,
         DelayElapses, QueueLeaseExpires, TaskLeaseExpires, ExpireApproval, Answer, callVars
  <2> QED BY <2>1, <2>2, <2>3, <2>4, <2>5, <2>6, <2>7 DEF SysNext, CallStep
<1>6. \A w \in Worker : job'[w] # None => job'[w] \in T
  <2>1. ASSUME NEW v \in Worker, Pop(v) PROVE \A w \in Worker : job'[w] # None => job'[w] \in T
    <3>1. Head(ready) \in T
      BY <1>3, <2>1, HeadTailProperties DEF Pop, Queue!Claim
    <3> QED BY <1>4, <2>1, <3>1 DEF Pop, LoopInv, SysTypeOK
  <2>2. ASSUME NEW v \in Worker, AckTask(v) \/ WorkerFails(v)
        PROVE  \A w \in Worker : job'[w] # None => job'[w] \in T
    BY <1>4, <2>2 DEF AckTask, WorkerFails, LoopInv, SysTypeOK
  <2>3. CASE UNCHANGED job
    BY <1>4, <2>3
  <2>4. UNCHANGED job \/ \E v \in Worker : Pop(v) \/ AckTask(v) \/ WorkerFails(v)
    BY DEF SysNext, sysVars, loopVars, CallStep, CallerFails, EnqueueFails, SysDispatchRead,
         SysDispatchTask, EnqueueSafely, Maintenance, RedisRestartsEmpty, ReconcileReady,
         DelayElapses, QueueLeaseExpires, TaskLeaseExpires, ReconcileFind, ExpireApproval,
         Answer, Pause, Resume, Cancel, LoopStep, StartTask, Starting, PoisonPill, RunHandler,
         HandlerEnds, ReportRejected, ReportComplete, ReportSuspend, ReportDecideRetry,
         ReportRetry, ReportFail, ScheduleRetry, Renew
  <2> QED BY <2>1, <2>2, <2>3, <2>4
<1>7. \/ \E t \in T : Queue!Enqueue(t) \/ Queue!EnqueueDelayed(t)
      \/ \E t \in Task : \/ Queue!ExtendLease(t) \/ Queue!Ack(t)
                         \/ Queue!LeaseDeadlinePasses(t) \/ Queue!DelayPasses(t)
      \/ Queue!Claim \/ Queue!RequeueExpired \/ Queue!PromoteDue \/ Queue!LoseData
      \/ UNCHANGED queueVars
  <2> DEFINE Script ==
        \/ \E t \in T : Queue!Enqueue(t) \/ Queue!EnqueueDelayed(t)
        \/ \E t \in Task : \/ Queue!ExtendLease(t) \/ Queue!Ack(t)
                           \/ Queue!LeaseDeadlinePasses(t) \/ Queue!DelayPasses(t)
        \/ Queue!Claim \/ Queue!RequeueExpired \/ Queue!PromoteDue \/ Queue!LoseData
        \/ UNCHANGED queueVars
  <2>1. ASSUME NEW w \in Worker, LoopStep(w) \/ Renew(w) \/ WorkerFails(w) PROVE Script
    <3>1. CASE RunHandler(w) \/ ScheduleRetry(w) \/ AckTask(w) \/ Renew(w)
      <4>1. job[w] \in Task /\ job[w] # None
        BY <3>1, BusyHasJob, SystemAssumption DEF RunHandler, ScheduleRetry, AckTask, Renew
      <4>2. job[w] \in T
        BY <1>4, <4>1
      <4> QED BY <3>1, <4>1, <4>2 DEF RunHandler, ScheduleRetry, AckTask, Renew
    <3>2. CASE Pop(w)
      BY <3>2 DEF Pop
    <3>3. CASE StartTask(w) \/ Starting(w) \/ PoisonPill(w) \/ HandlerEnds(w) \/ WorkerFails(w)
      BY <3>3 DEF StartTask, Starting, PoisonPill, HandlerEnds, ReportRejected, ReportComplete,
           ReportSuspend, ReportDecideRetry, ReportRetry, ReportFail, WorkerFails
    <3> HIDE DEF Script
    <3> QED BY <2>1, <3>1, <3>2, <3>3 DEF LoopStep
  <2>2. ASSUME NEW p \in Process,
               CallStep(p) \/ CallerFails(p) \/ \E t \in Task : EnqueueFails(p, t)
        PROVE  Script
    BY <1>4, <2>2 DEF CallStep, CallerFails, EnqueueFails, SysDispatchRead, SysDispatchTask,
                      EnqueueSafely
  <2>3. ASSUME Maintenance \/ RedisRestartsEmpty \/ ReconcileReady \/ Pause \/ Resume \/ Cancel
        PROVE  Script
    BY <2>3 DEF Maintenance, RedisRestartsEmpty, ReconcileReady, Pause, Resume, Cancel
  <2>4. ASSUME NEW t \in Task,
               \/ DelayElapses(t) \/ QueueLeaseExpires(t) \/ TaskLeaseExpires(t)
               \/ ReconcileFind(t) \/ ExpireApproval(t)
               \/ \E decision \in {"APPROVED", "REJECTED"} : Answer(t, decision)
        PROVE  Script
    BY <2>4 DEF DelayElapses, QueueLeaseExpires, TaskLeaseExpires, ReconcileFind,
                ExpireApproval, Answer
  <2>5. ASSUME UNCHANGED sysVars PROVE Script
    BY <2>5 DEF sysVars
  <2> HIDE DEF Script
  <2>6. Script
    BY <2>1, <2>2, <2>3, <2>4, <2>5 DEF SysNext
  <2> QED BY <2>6 DEF Script
<1>8. /\ ready' \in Seq(T)
      /\ \A t \in Task : leases'[t] # "none" \/ delayed'[t] # "none" => t \in T
  BY <1>2, <1>3, <1>4, <1>7, QueueKnown
<1>9. {t \in Task : Seen(t)}' = T
  BY <1>1
<1>10. ready' \in Seq({t \in Task : Seen(t)}')
  BY <1>8, <1>9
<1> QED BY <1>2, <1>5, <1>6, <1>8, <1>10 DEF KnownIds

-----------------------------------------------------------------------------

\* A step that makes no task wait, and takes nothing out of anybody's hands or
\* out of Redis.
Harmless(t) ==
  /\ Waits(t)' => Waits(t)
  /\ Waits(t)' /\ InHand(t) => InHand(t)'
  /\ AboutToTell(t) => AboutToTell(t)' \/ t \in members'
  /\ t \in members => t \in members'
  /\ leases'[t] # "none" => leases[t] # "none"

\* Such a step loses no work.
LEMMA HarmlessWork ==
  ASSUME NEW t \in Task, TaskWork(t), Harmless(t)
  PROVE  TaskWork(t)'
BY DEF TaskWork, Harmless

\* The operations of the engine, except for dispatch and retry, do not make a
\* task wait for the queue.
LEMMA EngineWaits ==
  ASSUME CoreType, NEW t \in Task,
         \/ Start \/ KeepLease \/ Decide \/ PauseExecution \/ ResumeExecution \/ CancelExecution
         \/ \E p \in Process : DispatchRead(p) \/ DispatchCrash(p)
         \/ \E c \in Task, k \in Attempt : \/ CompleteTask(c, k) \/ SuspendForApproval(c, k)
                                           \/ FailTaskDecideRetry(c, k)
         \/ \E c \in Task, k \in Attempt, error \in HandlerError : FailTaskForGood(c, k, error)
         \/ UNCHANGED vars
  PROVE  Waits(t)' => Waits(t)
<1>1. CASE Start
  BY <1>1 DEF Start, ClaimTask, CloseAbandoned, CreateAttempt, EmitStarted, Waits, CoreType
<1>2. CASE KeepLease \/ UNCHANGED vars
  BY <1>2 DEF KeepLease, ExpireLease, RenewLease, vars, Waits
<1>3. CASE PauseExecution \/ ResumeExecution \/ CancelExecution
  BY <1>3 DEF PauseExecution, ResumeExecution, CancelExecution, Waits
<1>4. ASSUME NEW p \in Process, DispatchRead(p) \/ DispatchCrash(p) PROVE Waits(t)' => Waits(t)
  BY <1>4 DEF DispatchRead, DispatchCrash, Waits
<1>5. ASSUME NEW c \in Task, AfterTaskSucceeded(c) PROVE Waits(t)' => Waits(t)
  BY <1>5 DEF AfterTaskSucceeded, Waits
<1>6. ASSUME NEW c \in Task, NEW outcome \in BadOutcome, AfterTaskFailedForGood(c, outcome)
      PROVE  Waits(t)' => Waits(t)
  BY <1>6 DEF AfterTaskFailedForGood, Waits, CoreType, BadOutcome
<1>7. CASE Decide
  BY <1>5, <1>6, <1>7 DEF Decide, ResolveApproval, BadOutcome
<1>8. ASSUME NEW c \in Task, NEW k \in Attempt,
             SuspendForApproval(c, k) \/ FailTaskDecideRetry(c, k)
      PROVE  Waits(t)' => Waits(t)
  BY <1>8 DEF SuspendForApproval, FailTaskDecideRetry, Waits, CoreType
<1>9. ASSUME NEW c \in Task, NEW k \in Attempt, CompleteTask(c, k) PROVE Waits(t)' => Waits(t)
  BY <1>5, <1>9 DEF CompleteTask
<1>10. ASSUME NEW c \in Task, NEW k \in Attempt, NEW error \in HandlerError,
              FailTaskForGood(c, k, error)
       PROVE  Waits(t)' => Waits(t)
  BY <1>6, <1>10 DEF FailTaskForGood, BadOutcome
<1> QED BY <1>1, <1>2, <1>3, <1>4, <1>7, <1>8, <1>9, <1>10

\* The steps of the worker loops, without a fault.
LEMMA LoopWork ==
  ASSUME LoopInv, BookType, CoreType, QueueTyped, NEW w \in Worker,
         LoopStep(w) \/ Renew(w), UNCHANGED faults, NEW t \in Task, TaskWork(t)
  PROVE  TaskWork(t)'
<1>0. /\ pc \in [Worker -> LoopState] /\ job \in [Worker -> Task \cup {None}]
      /\ leases \in [Task -> Queue!Score] /\ delayed \in [Task -> Queue!Score]
      /\ t # None
  BY SystemAssumption DEF LoopInv, SysTypeOK, QueueTyped
<1>1. CASE Pop(w)
  <2>1. /\ job' = [job EXCEPT ![w] = Head(ready)] /\ pc' = [pc EXCEPT ![w] = "popped"]
        /\ pc[w] = "idle" /\ status' = status /\ members' = members /\ outgoing' = outgoing
        /\ leases' = [leases EXCEPT ![Head(ready)] = "ahead"]
    BY <1>1 DEF Pop, Queue!Claim, Goto, vars, callVars
  <2>2. InHand(t) => InHand(t)'
    BY <1>0, <2>1 DEF InHand
  <2>3. CASE t = Head(ready)
    <3>1. InHand(t)'
      BY <1>0, <2>1, <2>3 DEF InHand
    <3> QED BY <3>1 DEF TaskWork
  <2>4. CASE t # Head(ready)
    <3>1. leases'[t] = leases[t]
      BY <1>0, <2>1, <2>4
    <3> QED BY <2>1, <2>2, <3>1, HarmlessWork DEF Harmless, Waits, AboutToTell
  <2> QED BY <2>3, <2>4
<1>2. CASE StartTask(w)
  <2>1. job[w] \in Task /\ pc[w] = "popped"
    BY <1>2, BusyHasJob DEF StartTask
  <2>2. Start \/ UNCHANGED vars
    BY <1>2, <2>1 DEF StartTask, Start
  <2>3. Waits(t)' => Waits(t)
    BY <2>2, EngineWaits
  <2>4. UNCHANGED <<leases, members, job, outgoing>> /\ \A v \in Worker : v # w => pc'[v] = pc[v]
    BY <1>0, <1>2 DEF StartTask, Goto, queueVars, callVars
  <2>5. Waits(t)' => t # job[w]
    BY <1>2, <2>1 DEF StartTask, Claimable, ClaimTask, Waits, CoreType, vars
  <2>6. Waits(t)' /\ InHand(t) => InHand(t)'
    BY <2>4, <2>5 DEF InHand
  <2> QED BY <2>3, <2>4, <2>6, HarmlessWork DEF Harmless, AboutToTell
<1>3. CASE Starting(w) \/ PoisonPill(w) \/ RunHandler(w) \/ Renew(w) \/ ReportRejected(w)
           \/ ReportComplete(w) \/ ReportSuspend(w) \/ ReportDecideRetry(w)
           \/ \E error \in HandlerError : ReportFail(w, error)
  <2>1. pc[w] \in HasToken
    BY <1>3 DEF Starting, PoisonPill, RunHandler, Renew, ReportRejected, ReportComplete,
         ReportSuspend, ReportDecideRetry, ReportFail, HasToken
  <2>2. job[w] \in Task /\ token[w] \in Attempt
    BY <2>1, BusyHasJob DEF LoopInv, HasToken
  <2>3. \/ Start \/ KeepLease \/ UNCHANGED vars
        \/ \E c \in Task, k \in Attempt : \/ CompleteTask(c, k) \/ SuspendForApproval(c, k)
                                          \/ FailTaskDecideRetry(c, k)
        \/ \E c \in Task, k \in Attempt, error \in HandlerError : FailTaskForGood(c, k, error)
    BY <1>3, <2>2 DEF Starting, PoisonPill, RunHandler, Renew, ReportRejected, ReportComplete,
         ReportSuspend, ReportDecideRetry, ReportFail, Start, KeepLease, HandlerError
  <2>4. Waits(t)' => Waits(t)
    BY <2>3, EngineWaits
  <2>5. UNCHANGED <<members, job, outgoing>> /\ \A v \in Worker : v # w => pc'[v] = pc[v]
    BY <1>0, <1>3 DEF Starting, PoisonPill, RunHandler, Renew, ReportRejected, ReportComplete,
         ReportSuspend, ReportDecideRetry, ReportFail, Goto, queueVars, callVars, loopVars,
         Queue!ExtendLease
  <2>6. leases'[t] # "none" => leases[t] # "none"
    BY <1>0, <1>3 DEF Starting, PoisonPill, RunHandler, Renew, ReportRejected, ReportComplete,
         ReportSuspend, ReportDecideRetry, ReportFail, queueVars, Queue!ExtendLease
  <2>7. InHand(t) => InHand(t)'
    BY <2>1, <2>5 DEF InHand, HasToken
  <2> QED BY <2>4, <2>5, <2>6, <2>7, HarmlessWork DEF Harmless, AboutToTell
<1>4. ASSUME NEW error \in HandlerError, ReportRetry(w, error) PROVE TaskWork(t)'
  <2>1. /\ pc[w] = "running" /\ pc' = [pc EXCEPT ![w] = "retry"] /\ job[w] \in Task
        /\ status' = [status EXCEPT ![job[w]] = "RETRYING"]
        /\ UNCHANGED <<leases, members, job, outgoing>>
    BY <1>4, BusyHasJob DEF ReportRetry, FailTaskCommitRetry, Goto, queueVars, callVars
  <2>2. CASE t = job[w]
    <3>1. InHand(t)'
      BY <1>0, <2>1, <2>2 DEF InHand
    <3> QED BY <3>1 DEF TaskWork
  <2>3. CASE t # job[w]
    <3>1. InHand(t) => InHand(t)'
      BY <1>0, <2>1 DEF InHand
    <3> QED BY <2>1, <2>3, <3>1, HarmlessWork DEF Harmless, AboutToTell, Waits, CoreType
  <2> QED BY <2>2, <2>3
<1>5. CASE ScheduleRetry(w)
  <2>1. /\ Queue!EnqueueDelayed(job[w]) /\ pc[w] = "retry" /\ pc' = [pc EXCEPT ![w] = "ack"]
        /\ job[w] \in Task /\ UNCHANGED <<status, job, outgoing>>
    <3>1. ~Fault
      BY SystemAssumption DEF Fault, LoopInv, SysTypeOK
    <3> QED BY <1>5, <3>1, BusyHasJob DEF ScheduleRetry, Goto, vars, callVars
  <2>2. CASE t = job[w]
    BY <1>0, <2>1, <2>2 DEF TaskWork, Queue!EnqueueDelayed
  <2>3. CASE t # job[w]
    <3>1. InHand(t) => InHand(t)'
      BY <1>0, <2>1, <2>3 DEF InHand
    <3>2. leases'[t] = leases[t] /\ (t \in members => t \in members')
      BY <1>0, <2>1, <2>3 DEF Queue!EnqueueDelayed
    <3> QED BY <2>1, <3>1, <3>2, HarmlessWork DEF Harmless, AboutToTell, Waits
  <2> QED BY <2>2, <2>3
<1>6. CASE AckTask(w)
  <2>1. /\ Queue!Ack(job[w]) /\ pc[w] = "ack" /\ job[w] \in Task
        /\ pc' = [pc EXCEPT ![w] = "idle"] /\ job' = [job EXCEPT ![w] = None]
        /\ UNCHANGED <<status, outgoing>>
    BY <1>6, BusyHasJob DEF AckTask, Goto, vars, callVars
  <2>2. InHand(t) => InHand(t)'
    BY <1>0, <2>1 DEF InHand
  <2>3. leases'[t] # "none" => leases[t] # "none"
    BY <1>0, <2>1 DEF Queue!Ack
  <2>4. CASE t \in members'
    BY <2>1, <2>2, <2>3, <2>4 DEF TaskWork, Waits
  <2>5. CASE t \notin members'
    <3>1. t \in members => leases[t] # "none"
      BY <2>1, <2>5 DEF Queue!Ack
    <3> QED BY <2>1, <2>2, <2>3, <3>1 DEF TaskWork, Waits, AboutToTell
  <2> QED BY <2>4, <2>5
<1> QED BY <1>1, <1>2, <1>3, <1>4, <1>5, <1>6 DEF LoopStep, HandlerEnds

\* dispatchReady, step by step, without a fault.
LEMMA CallWork ==
  ASSUME LoopInv, CoreType, QueueTyped, KnownIds, NEW p \in Process, CallStep(p),
         NEW t \in Task, TaskWork(t)
  PROVE  TaskWork(t)'
<1>0. /\ outgoing \in [Process -> SUBSET Task] /\ leases \in [Task -> Queue!Score]
      /\ status \in [Task -> TaskStatus]
  BY DEF LoopInv, SysTypeOK, QueueTyped, CoreType
<1>1. CASE SysDispatchRead(p)
  BY <1>1, HarmlessWork DEF SysDispatchRead, DispatchRead, Harmless, Waits, InHand, AboutToTell,
     vars, queueVars, loopVars
<1>2. ASSUME NEW c \in Task, SysDispatchTask(p, c) PROVE TaskWork(t)'
  <2>1. /\ outgoing[p] = {} /\ UNCHANGED <<leases, members, pc, job>>
        /\ outgoing' = [outgoing EXCEPT ![p] = IF WinsDispatch(c) THEN {c} ELSE {}]
        /\ status' = IF WinsDispatch(c) THEN [status EXCEPT ![c] = "QUEUED"] ELSE status
    BY <1>2 DEF SysDispatchTask, DispatchTask, queueVars, loopVars
  <2>2. CASE t = c /\ WinsDispatch(c)
    <3>1. AboutToTell(t)'
      BY <1>0, <2>1, <2>2 DEF AboutToTell
    <3>2. leases'[t] = "none"
      BY <2>1, <2>2 DEF WinsDispatch, KnownIds, Seen
    <3> QED BY <3>1, <3>2 DEF TaskWork
  <2>3. CASE ~(t = c /\ WinsDispatch(c))
    <3>1. Waits(t)' => Waits(t)
      BY <1>0, <2>1, <2>3 DEF Waits
    <3>2. AboutToTell(t) => AboutToTell(t)'
      BY <1>0, <2>1 DEF AboutToTell
    <3> QED BY <2>1, <3>1, <3>2, HarmlessWork DEF Harmless, InHand
  <2> QED BY <2>2, <2>3
<1>3. ASSUME NEW c \in Task, EnqueueSafely(p, c) PROVE TaskWork(t)'
  <2>1. /\ UNCHANGED <<leases, pc, job, status>> /\ members' = members \cup {c}
        /\ outgoing' = [outgoing EXCEPT ![p] = @ \ {c}]
    BY <1>3 DEF EnqueueSafely, Queue!Enqueue, loopVars, vars
  <2>2. AboutToTell(t) => AboutToTell(t)' \/ t \in members'
    BY <1>0, <2>1 DEF AboutToTell
  <2> QED BY <2>1, <2>2, HarmlessWork DEF Harmless, Waits, InHand
<1> QED BY <1>1, <1>2, <1>3 DEF CallStep

\* Timers, clocks, the reconciler and the requests of the API.
LEMMA OtherWork ==
  ASSUME LoopInv, CoreType, QueueTyped,
         \/ Maintenance \/ ReconcileReady \/ Pause \/ Resume \/ Cancel \/ UNCHANGED sysVars
         \/ \E c \in Task :
              \/ DelayElapses(c) \/ QueueLeaseExpires(c) \/ TaskLeaseExpires(c)
              \/ ReconcileFind(c) \/ ExpireApproval(c)
              \/ \E decision \in {"APPROVED", "REJECTED"} : Answer(c, decision),
         NEW t \in Task, TaskWork(t)
  PROVE  TaskWork(t)'
<1>0. /\ outgoing \in [Process -> SUBSET Task] /\ leases \in [Task -> Queue!Score]
  BY DEF LoopInv, SysTypeOK, QueueTyped
<1>1. CASE Maintenance
  <2>1. leases'[t] # "none" => leases[t] # "none"
    BY <1>1 DEF Maintenance, Queue!RequeueExpired, Queue!PromoteDue
  <2>2. UNCHANGED <<members, status, pc, job, outgoing>>
    BY <1>1 DEF Maintenance, Queue!RequeueExpired, Queue!PromoteDue, vars, loopVars, callVars
  <2> QED BY <2>1, <2>2, HarmlessWork DEF Harmless, Waits, InHand, AboutToTell
<1>2. ASSUME NEW c \in Task, DelayElapses(c) \/ QueueLeaseExpires(c) PROVE TaskWork(t)'
  <2>1. leases'[t] # "none" => leases[t] # "none"
    BY <1>0, <1>2 DEF DelayElapses, QueueLeaseExpires, Queue!DelayPasses, Queue!LeaseDeadlinePasses
  <2>2. UNCHANGED <<members, status, pc, job, outgoing>>
    BY <1>2 DEF DelayElapses, QueueLeaseExpires, Queue!DelayPasses, Queue!LeaseDeadlinePasses,
       vars, loopVars, callVars
  <2> QED BY <2>1, <2>2, HarmlessWork DEF Harmless, Waits, InHand, AboutToTell
<1>3. ASSUME NEW c \in Task, ReconcileFind(c) PROVE TaskWork(t)'
  <2>1. outgoing[Reconciler] = {} /\ outgoing' = [outgoing EXCEPT ![Reconciler] = {c}]
    BY <1>3 DEF ReconcileFind, Busy
  <2>2. AboutToTell(t) => AboutToTell(t)'
    BY <1>0, <2>1 DEF AboutToTell
  <2>3. UNCHANGED <<leases, members, status, pc, job>>
    BY <1>3 DEF ReconcileFind, vars, loopVars, queueVars
  <2> QED BY <2>2, <2>3, HarmlessWork DEF Harmless, Waits, InHand
<1>4. ASSUME \/ ReconcileReady \/ Pause \/ Resume \/ Cancel \/ UNCHANGED sysVars
             \/ \E c \in Task :
                  \/ TaskLeaseExpires(c) \/ ExpireApproval(c)
                  \/ \E decision \in {"APPROVED", "REJECTED"} : Answer(c, decision)
      PROVE  TaskWork(t)'
  <2>1. \/ KeepLease \/ Decide \/ PauseExecution \/ ResumeExecution \/ CancelExecution
        \/ UNCHANGED vars
    BY <1>4 DEF ReconcileReady, Pause, Resume, Cancel, sysVars, TaskLeaseExpires, ExpireApproval,
       Answer, KeepLease, Decide
  <2>2. Waits(t)' => Waits(t)
    BY <2>1, EngineWaits
  <2>3. UNCHANGED <<leases, members, pc, job, outgoing>>
    BY <1>4 DEF ReconcileReady, Pause, Resume, Cancel, sysVars, TaskLeaseExpires, ExpireApproval,
       Answer, queueVars, loopVars, callVars
  <2> QED BY <2>2, <2>3, HarmlessWork DEF Harmless, InHand, AboutToTell
<1> QED BY <1>1, <1>2, <1>3, <1>4

\* Every step of the system keeps WorkInv.
LEMMA NextWork == LoopInv /\ BookType /\ CoreType /\ WorkInv /\ [SysNext]_sysVars => WorkInv'
<1> SUFFICES ASSUME LoopInv, BookType, CoreType, WorkInv, [SysNext]_sysVars PROVE WorkInv'
  OBVIOUS
<1>1. QueueTyped' /\ KnownIds'
  BY QueueTypedStep, NextKnown DEF WorkInv
<1>2. ASSUME faults' = 0, NEW t \in Task PROVE TaskWork(t)'
  <2>1. UNCHANGED faults /\ ~Fault /\ faults = 0
    BY <1>2, FaultsGrow DEF Fault
  <2>2. TaskWork(t) /\ QueueTyped /\ KnownIds
    BY <2>1 DEF WorkInv
  <2>3. /\ \A w \in Worker : ~WorkerFails(w)
        /\ \A p \in Process : ~CallerFails(p) /\ \A c \in Task : ~EnqueueFails(p, c)
        /\ ~RedisRestartsEmpty
    BY <2>1 DEF WorkerFails, CallerFails, EnqueueFails, RedisRestartsEmpty
  <2> QED BY <2>1, <2>2, <2>3, LoopWork, CallWork, OtherWork DEF SysNext
<1> QED BY <1>1, <1>2 DEF WorkInv

\* At first Redis is empty and nobody waits.
LEMMA InitWork == SysInit => WorkInv
<1> SUFFICES ASSUME SysInit PROVE WorkInv
  OBVIOUS
<1>1. QueueTyped /\ KnownIds
  BY DEF SysInit, Queue!QueueInit, Queue!Score, QueueTyped, KnownIds
<1>2. \A t \in Task : ~Waits(t)
  BY DEF SysInit, Init, Waits
<1> QED BY <1>1, <1>2 DEF WorkInv, TaskWork

\* Until the first fault, a task that waits to be run is in Redis, or in the
\* hands of a process that is about to put it there or to run it.
THEOREM WorkKept == SysSpec => []WorkNeverLost
<1>1. SysSpec => []WorkInv
  BY SystemCoreType, LoopInvariant, InitWork, NextWork, PTL DEF SysSpec
<1>2. WorkInv => WorkNeverLost
  BY DEF WorkInv, TaskWork, WorkNeverLost, Waits, AboutToTell, InHand
<1> QED BY <1>1, <1>2, PTL

-----------------------------------------------------------------------------
(* Without a fault a task has one worker.                                  *)
(*                                                                         *)
(* Several workers may have popped the id; what keeps them apart is the    *)
(* claim. The worker between its claim and its report holds the current    *)
(* lease of a task that is not waiting: nobody else's claim can match.     *)

Holds(w, t) == job[w] = t /\ pc[w] \in HasToken

SoleHolder(t) ==
  /\ \A v, w \in Worker : Holds(v, t) /\ Holds(w, t) => v = w
  /\ \A w \in Worker : Holds(w, t) =>
       token[w] = attempt[t] /\ status[t] \notin Unstarted /\ lease[t] # "expired"

HolderInv == faults = 0 => \A t \in Task : SoleHolder(t)

\* A step that does not make the task claimable.
Quiet(t) ==
  /\ attempt'[t] = attempt[t]
  /\ status[t] \notin Unstarted => status'[t] \notin Unstarted
  /\ lease[t] # "expired" => lease'[t] # "expired"

\* Only a claim, a retry and the clock make a task claimable.
LEMMA EngineQuiet ==
  ASSUME CoreType, BookType, NEW t \in Task,
         \/ UNCHANGED vars \/ PauseExecution \/ ResumeExecution \/ CancelExecution \/ Decide
         \/ \E p \in Process : \/ DispatchRead(p) \/ DispatchCrash(p)
                               \/ \E c \in Task : DispatchTask(p, c)
         \/ \E c \in Task \ {t} : ClaimTask(c) \/ ExpireLease(c)
         \/ \E c \in Task \ {t}, k \in Attempt, error \in HandlerError :
              FailTaskCommitRetry(c, k, error)
         \/ \E c \in Task, k \in Attempt :
              \/ CloseAbandoned(c, k) \/ CreateAttempt(c, k) \/ EmitStarted(c, k)
              \/ RenewLease(c, k) \/ CompleteTask(c, k) \/ SuspendForApproval(c, k)
              \/ FailTaskDecideRetry(c, k)
         \/ \E c \in Task, k \in Attempt, error \in HandlerError : FailTaskForGood(c, k, error)
  PROVE  Quiet(t)
<1>0. status \in [Task -> TaskStatus] /\ attempt \in [Task -> 0 .. MaxClaims]
      /\ lease \in [Task -> LeaseState]
  BY DEF CoreType, BookType
<1>1. CASE UNCHANGED vars
  BY <1>1 DEF vars, Quiet
<1>2. CASE PauseExecution \/ ResumeExecution \/ CancelExecution
  BY <1>0, <1>2
     DEF PauseExecution, ResumeExecution, CancelExecution, Promotable, TasksIn,
         Quiet, Unstarted, Unfinished
<1>3. ASSUME NEW p \in Process, \/ DispatchRead(p) \/ DispatchCrash(p)
                                \/ \E c \in Task : DispatchTask(p, c)
      PROVE  Quiet(t)
  BY <1>0, <1>3 DEF DispatchRead, DispatchCrash, DispatchTask, WinsDispatch, Quiet, Unstarted
<1>4. ASSUME NEW c \in Task \ {t}, ClaimTask(c) \/ ExpireLease(c) PROVE Quiet(t)
  BY <1>0, <1>4 DEF ClaimTask, ExpireLease, Quiet
<1>5. ASSUME NEW c \in Task \ {t}, NEW k \in Attempt, NEW error \in HandlerError,
             FailTaskCommitRetry(c, k, error)
      PROVE  Quiet(t)
  BY <1>0, <1>5 DEF FailTaskCommitRetry, DropLease, Quiet
<1>6. ASSUME NEW c \in Task, NEW k \in Attempt,
             \/ CloseAbandoned(c, k) \/ CreateAttempt(c, k) \/ EmitStarted(c, k)
             \/ RenewLease(c, k) \/ SuspendForApproval(c, k) \/ FailTaskDecideRetry(c, k)
      PROVE  Quiet(t)
  BY <1>0, <1>6 DEF CloseAbandoned, CreateAttempt, EmitStarted, RenewLease, SuspendForApproval,
     FailTaskDecideRetry, DropLease, Quiet, Unstarted
<1>7. ASSUME NEW c \in Task, AfterTaskSucceeded(c)
      PROVE  status[t] \notin Unstarted => status'[t] \notin Unstarted
  BY <1>0, <1>7 DEF AfterTaskSucceeded, Unstarted
<1>8. ASSUME NEW c \in Task, NEW outcome \in BadOutcome, AfterTaskFailedForGood(c, outcome)
      PROVE  status[t] \notin Unstarted => status'[t] \notin Unstarted
  BY <1>0, <1>8 DEF AfterTaskFailedForGood, Unstarted, BadOutcome
<1>9. CASE Decide
  BY <1>7, <1>8, <1>9 DEF Decide, ResolveApproval, BadOutcome, Quiet
<1>10. ASSUME NEW c \in Task, NEW k \in Attempt, CompleteTask(c, k) PROVE Quiet(t)
  BY <1>0, <1>7, <1>10 DEF CompleteTask, DropLease, Quiet
<1>11. ASSUME NEW c \in Task, NEW k \in Attempt, NEW error \in HandlerError,
              FailTaskForGood(c, k, error)
       PROVE  Quiet(t)
  <2>1. status[t] \notin Unstarted => status'[t] \notin Unstarted
    BY <1>8, <1>11 DEF FailTaskForGood, BadOutcome
  <2> QED BY <1>0, <1>11, <2>1 DEF FailTaskForGood, DropLease, Quiet
<1> QED BY <1>1, <1>2, <1>3, <1>4, <1>5, <1>6, <1>9, <1>10, <1>11

\* A quiet step that gives the task no new holder.
LEMMA QuietHolder ==
  ASSUME NEW t \in Task, SoleHolder(t), Quiet(t),
         \A w \in Worker : Holds(w, t)' => Holds(w, t) /\ token'[w] = token[w]
  PROVE  SoleHolder(t)'
BY DEF SoleHolder, Quiet

\* The steps of the worker loops.
LEMMA LoopHolder ==
  ASSUME LoopInv, BookType, CoreType, NEW w \in Worker, LoopStep(w) \/ Renew(w),
         NEW t \in Task, SoleHolder(t)
  PROVE  SoleHolder(t)'
<1>0. /\ pc \in [Worker -> LoopState] /\ job \in [Worker -> Task \cup {None}]
      /\ token \in [Worker -> 0 .. MaxClaims] /\ t # None
      /\ attempt \in [Task -> 0 .. MaxClaims] /\ lease \in [Task -> LeaseState]
      /\ status \in [Task -> TaskStatus]
  BY SystemAssumption DEF LoopInv, SysTypeOK, BookType, CoreType
<1>1. CASE Pop(w) \/ ScheduleRetry(w) \/ AckTask(w) \/ ReportRejected(w)
  <2>1. Quiet(t)
    BY <1>1, EngineQuiet DEF Pop, ScheduleRetry, AckTask, ReportRejected
  <2>2. \A v \in Worker : Holds(v, t)' => Holds(v, t) /\ token'[v] = token[v]
    BY <1>0, <1>1 DEF Pop, ScheduleRetry, AckTask, ReportRejected, Goto, Holds, HasToken
  <2> QED BY <2>1, <2>2, QuietHolder
<1>2. CASE StartTask(w)
  <2>1. job[w] \in Task /\ pc[w] = "popped" /\ job' = job
    BY <1>2, BusyHasJob DEF StartTask
  <2>2. CASE Claimable(job[w]) /\ t = job[w]
    <3>1. \A v \in Worker : ~Holds(v, t)
      BY <2>2 DEF SoleHolder, Claimable, Unstarted
    <3>2. /\ \A v \in Worker : Holds(v, t)' => v = w
          /\ token'[w] = attempt[t] + 1
      BY <1>0, <1>2, <2>1, <2>2, <3>1 DEF StartTask, Goto, Holds, HasToken
    <3>3. attempt'[t] = attempt[t] + 1 /\ status'[t] = "RUNNING" /\ lease'[t] = "live"
      BY <1>0, <1>2, <2>2 DEF StartTask, ClaimTask
    <3> QED BY <3>2, <3>3 DEF SoleHolder, Unstarted
  <2>3. CASE ~Claimable(job[w]) \/ t # job[w]
    <3>1. Quiet(t)
      BY <1>2, <2>1, <2>3, EngineQuiet DEF StartTask
    <3>2. \A v \in Worker : Holds(v, t)' => Holds(v, t) /\ token'[v] = token[v]
      BY <1>0, <1>2, <2>1, <2>3 DEF StartTask, Goto, Holds, HasToken
    <3> QED BY <3>1, <3>2, QuietHolder
  <2> QED BY <2>2, <2>3
<1>3. CASE Starting(w) \/ PoisonPill(w) \/ RunHandler(w) \/ Renew(w) \/ ReportComplete(w)
           \/ ReportSuspend(w) \/ ReportDecideRetry(w)
           \/ \E error \in HandlerError : ReportFail(w, error)
  <2>1. pc[w] \in HasToken
    BY <1>3 DEF Starting, PoisonPill, RunHandler, Renew, ReportComplete, ReportSuspend,
         ReportDecideRetry, ReportFail, HasToken
  <2>2. job[w] \in Task /\ token[w] \in Attempt
    BY <2>1, BusyHasJob DEF LoopInv, HasToken
  <2>3. CASE Starting(w) \/ RunHandler(w) \/ Renew(w)
    BY <1>0, <2>1, <2>2, <2>3, EngineQuiet, QuietHolder
       DEF Starting, RunHandler, Renew, Goto, Holds, loopVars
  <2>4. CASE PoisonPill(w) \/ ReportComplete(w) \/ ReportSuspend(w) \/ ReportDecideRetry(w)
             \/ \E error \in HandlerError : ReportFail(w, error)
    <3>1. Quiet(t)
      BY <2>2, <2>4, EngineQuiet DEF PoisonPill, ReportComplete, ReportSuspend,
         ReportDecideRetry, ReportFail, HandlerError
    <3>2. \A v \in Worker : Holds(v, t)' => Holds(v, t) /\ token'[v] = token[v]
      BY <1>0, <2>4 DEF PoisonPill, ReportComplete, ReportSuspend, ReportDecideRetry, ReportFail,
         Goto, Holds, HasToken, loopVars
    <3> QED BY <3>1, <3>2, QuietHolder
  <2> QED BY <1>3, <2>3, <2>4
<1>4. ASSUME NEW error \in HandlerError, ReportRetry(w, error) PROVE SoleHolder(t)'
  <2>1. /\ pc[w] = "running" /\ pc' = [pc EXCEPT ![w] = "retry"] /\ UNCHANGED <<job, token>>
        /\ job[w] \in Task /\ token[w] \in Attempt
    BY <1>4, BusyHasJob DEF ReportRetry, Goto, LoopInv, HasToken
  <2>2. \A v \in Worker : Holds(v, t)' => v # w /\ Holds(v, t) /\ token'[v] = token[v]
    BY <1>0, <2>1 DEF Holds, HasToken
  <2>3. CASE t = job[w]
    <3>1. Holds(w, t)
      BY <2>1, <2>3 DEF Holds, HasToken
    <3>2. \A v \in Worker : ~Holds(v, t)'
      BY <2>2, <3>1 DEF SoleHolder
    <3> QED BY <3>2 DEF SoleHolder
  <2>4. CASE t # job[w]
    <3>1. Quiet(t)
      BY <1>4, <2>1, <2>4, EngineQuiet DEF ReportRetry
    <3> QED BY <2>2, <3>1, QuietHolder
  <2> QED BY <2>3, <2>4
<1> QED BY <1>1, <1>2, <1>3, <1>4 DEF LoopStep, HandlerEnds

\* The steps of the other processes and of the clocks.
LEMMA OtherHolder ==
  ASSUME LoopInv, BookType, CoreType, ~Fault,
         \/ \E p \in Process : CallStep(p)
         \/ Maintenance \/ ReconcileReady \/ Pause \/ Resume \/ Cancel \/ UNCHANGED sysVars
         \/ \E c \in Task :
              \/ DelayElapses(c) \/ QueueLeaseExpires(c) \/ TaskLeaseExpires(c)
              \/ ReconcileFind(c) \/ ExpireApproval(c)
              \/ \E decision \in {"APPROVED", "REJECTED"} : Answer(c, decision),
         NEW t \in Task, SoleHolder(t)
  PROVE  SoleHolder(t)'
<1>1. UNCHANGED loopVars
  BY DEF CallStep, SysDispatchRead, SysDispatchTask, EnqueueSafely, Maintenance, ReconcileReady,
         DelayElapses, QueueLeaseExpires, TaskLeaseExpires, ReconcileFind, ExpireApproval, Answer,
         Pause, Resume, Cancel, sysVars
<1>2. \A w \in Worker : Holds(w, t)' => Holds(w, t) /\ token'[w] = token[w]
  BY <1>1 DEF loopVars, Holds
<1>3. CASE TaskLeaseExpires(t)
  <2>1. ~HeldAlive(t)
    BY <1>3 DEF TaskLeaseExpires
  <2>2. \A w \in Worker : ~Holds(w, t)
    BY <2>1 DEF SoleHolder, Holds, HeldAlive, HasToken
  <2> QED BY <1>2, <2>2 DEF SoleHolder
<1>4. ASSUME NEW p \in Process, CallStep(p) PROVE Quiet(t)
  BY <1>4, EngineQuiet DEF CallStep, SysDispatchRead, SysDispatchTask, EnqueueSafely
<1>5. ASSUME \/ Maintenance \/ ReconcileReady \/ Pause \/ Resume \/ Cancel \/ UNCHANGED sysVars
             \/ \E c \in Task :
                  \/ DelayElapses(c) \/ QueueLeaseExpires(c) \/ ReconcileFind(c)
                  \/ ExpireApproval(c)
                  \/ \E decision \in {"APPROVED", "REJECTED"} : Answer(c, decision)
             \/ \E c \in Task \ {t} : TaskLeaseExpires(c)
      PROVE  Quiet(t)
  <2>1. \/ UNCHANGED vars \/ PauseExecution \/ ResumeExecution \/ CancelExecution \/ Decide
        \/ \E c \in Task \ {t} : ExpireLease(c)
    BY <1>5 DEF Maintenance, ReconcileReady, Pause, Resume, Cancel, sysVars, DelayElapses,
       QueueLeaseExpires, ReconcileFind, ExpireApproval, Answer, Decide, TaskLeaseExpires
  <2> QED BY <2>1, EngineQuiet
<1> QED BY <1>2, <1>3, <1>4, <1>5, QuietHolder

\* Every step of the system keeps HolderInv.
LEMMA NextHolder ==
  LoopInv /\ BookType /\ CoreType /\ HolderInv /\ [SysNext]_sysVars => HolderInv'
<1> SUFFICES ASSUME LoopInv, BookType, CoreType, HolderInv, [SysNext]_sysVars,
                    faults' = 0, NEW t \in Task
             PROVE  SoleHolder(t)'
  BY DEF HolderInv
<1>1. ~Fault /\ SoleHolder(t)
  BY FaultsGrow DEF Fault, HolderInv
<1>2. /\ \A w \in Worker : ~WorkerFails(w)
      /\ \A p \in Process : ~CallerFails(p) /\ \A c \in Task : ~EnqueueFails(p, c)
      /\ ~RedisRestartsEmpty
  BY <1>1 DEF WorkerFails, CallerFails, EnqueueFails, RedisRestartsEmpty
<1> QED BY <1>1, <1>2, LoopHolder, OtherHolder DEF SysNext

\* Until the first fault, two workers never run the same task at once, however
\* many of them popped its id.
THEOREM OneWorker == SysSpec => []OneWorkerPerTask
<1>1. SysInit => HolderInv
  BY DEF SysInit, HolderInv, SoleHolder, Holds, HasToken
<1>2. LoopInv /\ HolderInv => OneWorkerPerTask
  BY DEF LoopInv, SysTypeOK, HolderInv, SoleHolder, Holds, HasToken, OneWorkerPerTask
<1> QED BY <1>1, <1>2, SystemCoreType, LoopInvariant, NextHolder, PTL DEF SysSpec
=============================================================================
