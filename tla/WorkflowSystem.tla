--------------------------- MODULE WorkflowSystem ---------------------------
(***************************************************************************)
(* The engine and the queue put together by the processes that use both:   *)
(* worker loops (workers/queueWorker.js, workers/runTask.js), the API      *)
(* process, and the reconciler. MongoDB is the truth, Redis only says      *)
(* which id to pick up next; every call in between can be the last one of  *)
(* its process.                                                            *)
(*                                                                         *)
(* A fault is a crash or an exception of a process in the middle of its    *)
(* work, a call to Redis that fails, a Redis that restarts empty, or a     *)
(* process that stalls until a lease it holds runs out. MaxFaults bounds   *)
(* how many of them happen in one behaviour, in any mixture.               *)
(***************************************************************************)
EXTENDS Engine, Sequences

CONSTANTS
  Worker,      \* worker loops
  Api,         \* the API process
  Reconciler,  \* the process whose timer calls engine.reconcile
  Limit,       \* of the queue's batch scripts
  MaxFaults    \* bound: faults in one behaviour

None == "none"

\* MaxClaims is large enough never to be what stops a claim: a task is
\* claimed once, at most MaxAttempts - 1 times more after a retry, and after
\* that only when a fault lost a holder.
ASSUME SystemAssumption ==
  /\ Process = Worker \cup {Api, Reconciler}
  /\ Api \notin Worker /\ Reconciler \notin Worker /\ Api # Reconciler
  /\ None \notin Task
  /\ MaxFaults \in Nat
  /\ Limit \in Nat \ {0}
  /\ \A t \in Task : MaxClaims >= MaxAttempts[t] + MaxFaults

VARIABLES
  ready, leases, delayed, members,  \* Redis: see TaskQueue
  pc,        \* where each worker loop is
  job,       \* the id a worker popped
  token,     \* the leaseToken its claim returned
  owner,     \* the worker that popped the id last (Redis does not know)
  duty,      \* a committed step of the process is followed by dispatchReady
  outgoing,  \* the ids a process is about to enqueue
  faults     \* faults so far

queueVars == <<ready, leases, delayed, members>>
loopVars  == <<pc, job, token, owner>>
callVars  == <<duty, outgoing>>
sysVars   == <<vars, queueVars, loopVars, callVars, faults>>

Queue == INSTANCE TaskQueue

\* idle: polling Redis; popped: has an id; starting: inside startTask after
\* the claim; started: about to extend the Redis lease; running: the handler
\* runs; retry: about to schedule the retry; ack: about to ack the id.
LoopState == {"idle", "popped", "starting", "started", "running", "retry", "ack"}

SysInit ==
  /\ Init
  /\ Queue!QueueInit
  /\ pc = [w \in Worker |-> "idle"]
  /\ job = [w \in Worker |-> None]
  /\ token = [w \in Worker |-> 0]
  /\ owner = [t \in Task |-> None]
  /\ duty = [p \in Process |-> p = Api]
  /\ outgoing = [p \in Process |-> {}]
  /\ faults = 0

Goto(w, l) == pc' = [pc EXCEPT ![w] = l]

Busy(p) == duty[p] \/ dispatching[p] # {} \/ outgoing[p] # {}

FaultsLeft == faults < MaxFaults
Fault == FaultsLeft /\ faults' = faults + 1

\* Someone is still working on the id / under the task's current claim.
Attended(t) == \E w \in Worker : job[w] = t
HeldAlive(t) == \E w \in Worker : job[w] = t /\ token[w] = attempt[t]
                                   /\ pc[w] \in {"starting", "started", "running"}

-----------------------------------------------------------------------------
(* dispatchReady and enqueueSafely, as any process runs them.              *)

SysDispatchRead(p) ==
  /\ duty[p]
  /\ dispatching[p] = {} /\ outgoing[p] = {}
  /\ duty' = [duty EXCEPT ![p] = FALSE]
  /\ IF execStatus = "RUNNING" /\ TasksIn({"READY"}) # {}
     THEN DispatchRead(p)
     ELSE UNCHANGED vars
  /\ UNCHANGED <<queueVars, loopVars, outgoing, faults>>

\* Only the caller whose compare-and-set won enqueues.
SysDispatchTask(p, t) ==
  /\ outgoing[p] = {}
  /\ DispatchTask(p, t)
  /\ outgoing' = [outgoing EXCEPT ![p] = IF WinsDispatch(t) THEN {t} ELSE {}]
  /\ UNCHANGED <<queueVars, loopVars, duty, faults>>

EnqueueSafely(p, t) ==
  /\ t \in outgoing[p]
  /\ outgoing' = [outgoing EXCEPT ![p] = @ \ {t}]
  /\ Queue!Enqueue(t)
  /\ UNCHANGED <<vars, loopVars, duty, faults>>

\* Redis is down: the failure is logged and swallowed.
EnqueueFails(p, t) ==
  /\ t \in outgoing[p]
  /\ outgoing' = [outgoing EXCEPT ![p] = @ \ {t}]
  /\ Fault
  /\ UNCHANGED <<vars, queueVars, loopVars, duty>>

-----------------------------------------------------------------------------
(* A worker loop.                                                          *)

\* Mutant: a plain LPOP, without a lease.
PopWithoutLease(w) ==
  /\ pc[w] = "idle"
  /\ ready # <<>>
  /\ ready' = Tail(ready)
  /\ job' = [job EXCEPT ![w] = Head(ready)]
  /\ owner' = [owner EXCEPT ![Head(ready)] = w]
  /\ Goto(w, "popped")
  /\ UNCHANGED <<vars, leases, delayed, members, token, callVars, faults>>

Pop(w) ==
  /\ pc[w] = "idle"
  /\ Queue!Claim
  /\ job' = [job EXCEPT ![w] = Head(ready)]
  /\ owner' = [owner EXCEPT ![Head(ready)] = w]
  /\ Goto(w, "popped")
  /\ UNCHANGED <<vars, token, callVars, faults>>

\* Mutant: the worker starts what it popped, whatever the claim says.
StartUnclaimed(w) ==
  /\ pc[w] = "popped"
  /\ attempt[job[w]] < MaxClaims
  /\ status' = [status EXCEPT ![job[w]] = "RUNNING"]
  /\ attempt' = [attempt EXCEPT ![job[w]] = @ + 1]
  /\ lease' = [lease EXCEPT ![job[w]] = "live"]
  /\ retryTxn' = retryTxn \ {job[w]}
  /\ Reach(job[w], attempt[job[w]] + 1, "claimed")
  /\ token' = [token EXCEPT ![w] = attempt[job[w]] + 1]
  /\ Goto(w, "starting")
  /\ UNCHANGED <<execStatus, pendingTasks, remainingDeps, attemptRow, approval,
                 runEvents, taskEvents, dispatching, queueVars, job, owner,
                 callVars, faults>>

\* startTask's claim: null means the id is a leftover, to be acked.
StartTask(w) ==
  /\ pc[w] = "popped"
  /\ IF Claimable(job[w])
     THEN /\ ClaimTask(job[w])
          /\ token' = [token EXCEPT ![w] = attempt[job[w]] + 1]
          /\ Goto(w, "starting")
     ELSE /\ UNCHANGED <<vars, token>>
          /\ Goto(w, "ack")
  /\ UNCHANGED <<queueVars, job, owner, callVars, faults>>

\* The rest of startTask, write by write.
Starting(w) ==
  /\ pc[w] = "starting"
  /\ \/ CloseAbandoned(job[w], token[w]) /\ UNCHANGED pc
     \/ CreateAttempt(job[w], token[w]) /\ UNCHANGED pc
     \/ EmitStarted(job[w], token[w]) /\ Goto(w, "started")
  /\ UNCHANGED <<queueVars, job, token, owner, callVars, faults>>

\* Past maxAttempts: startTask fails the task itself and returns null.
PoisonPill(w) ==
  /\ pc[w] = "started"
  /\ token[w] > MaxAttempts[job[w]]
  /\ IF Fenced(job[w], token[w])
     THEN FailTaskForGood(job[w], token[w], "transient")
     ELSE UNCHANGED vars
  /\ Goto(w, "ack")
  /\ UNCHANGED <<queueVars, job, token, owner, callVars, faults>>

RunHandler(w) ==
  /\ pc[w] = "started"
  /\ token[w] <= MaxAttempts[job[w]]
  /\ Queue!ExtendLease(job[w])
  /\ Goto(w, "running")
  /\ UNCHANGED <<vars, job, token, owner, callVars, faults>>

\* The renewal timer: MongoDB first, then Redis, while the handler runs. A
\* renewal that MongoDB refuses aborts the handler and touches nothing.
Renew(w) ==
  /\ pc[w] = "running"
  /\ RenewLease(job[w], token[w])
  /\ Queue!ExtendLease(job[w])
  /\ UNCHANGED <<loopVars, callVars, faults>>

\* A report that the fence rejects: the worker lost the task, and acks.
ReportRejected(w) ==
  /\ pc[w] = "running"
  /\ ~Fenced(job[w], token[w])
  /\ Goto(w, "ack")
  /\ UNCHANGED <<vars, queueVars, job, token, owner, callVars, faults>>

\* completeTask, then its dispatchReady.
ReportComplete(w) ==
  /\ pc[w] = "running"
  /\ job[w] \notin retryTxn
  /\ CompleteTask(job[w], token[w])
  /\ duty' = [duty EXCEPT ![w] = TRUE]
  /\ Goto(w, "ack")
  /\ UNCHANGED <<queueVars, job, token, owner, outgoing, faults>>

ReportSuspend(w) ==
  /\ pc[w] = "running"
  /\ job[w] \notin retryTxn
  /\ SuspendForApproval(job[w], token[w])
  /\ Goto(w, "ack")
  /\ UNCHANGED <<queueVars, job, token, owner, callVars, faults>>

ReportDecideRetry(w) ==
  /\ pc[w] = "running"
  /\ job[w] \notin retryTxn
  /\ FailTaskDecideRetry(job[w], token[w])
  /\ UNCHANGED <<queueVars, loopVars, callVars, faults>>

ReportRetry(w, error) ==
  /\ pc[w] = "running"
  /\ FailTaskCommitRetry(job[w], token[w], error)
  /\ Goto(w, "retry")
  /\ UNCHANGED <<queueVars, job, token, owner, callVars, faults>>

ReportFail(w, error) ==
  /\ pc[w] = "running"
  /\ job[w] \notin retryTxn
  /\ FailTaskForGood(job[w], token[w], error)
  /\ Goto(w, "ack")
  /\ UNCHANGED <<queueVars, job, token, owner, callVars, faults>>

\* enqueueRetrySafely; a failing Redis is swallowed here too.
ScheduleRetry(w) ==
  /\ pc[w] = "retry"
  /\ \/ Queue!EnqueueDelayed(job[w]) /\ UNCHANGED faults
     \/ Fault /\ UNCHANGED queueVars
  /\ Goto(w, "ack")
  /\ UNCHANGED <<vars, job, token, owner, callVars>>

\* The last call of processTask, after the report and all that follows it.
AckTask(w) ==
  /\ pc[w] = "ack"
  /\ ~Busy(w)
  /\ Queue!Ack(job[w])
  /\ Goto(w, "idle")
  /\ job' = [job EXCEPT ![w] = None]
  /\ token' = [token EXCEPT ![w] = 0]
  /\ UNCHANGED <<vars, owner, callVars, faults>>

\* The process dies and is restarted, or a call throws and loop() logs it:
\* either way the worker is back at polling and the id stays leased.
WorkerFails(w) ==
  /\ pc[w] # "idle"
  /\ Fault
  /\ Goto(w, "idle")
  /\ job' = [job EXCEPT ![w] = None]
  /\ token' = [token EXCEPT ![w] = 0]
  /\ duty' = [duty EXCEPT ![w] = FALSE]
  /\ outgoing' = [outgoing EXCEPT ![w] = {}]
  /\ IF dispatching[w] # {} THEN DispatchCrash(w) ELSE UNCHANGED vars
  /\ UNCHANGED <<queueVars, owner>>

-----------------------------------------------------------------------------
(* Timers and clocks.                                                      *)

\* maintenance(), on every worker.
Maintenance ==
  /\ \/ Queue!ExpiredIds # {} /\ Queue!RequeueExpired
     \/ Queue!DueIds # {} /\ Queue!PromoteDue
  /\ UNCHANGED <<vars, loopVars, callVars, faults>>

DelayElapses(t) ==
  /\ Queue!DelayPasses(t)
  /\ UNCHANGED <<vars, loopVars, callVars, faults>>

\* A lease nobody extends runs out. One that a worker still has in its hands
\* runs out only if that worker stalls, which is a fault.
QueueLeaseExpires(t) ==
  /\ Queue!LeaseDeadlinePasses(t)
  /\ IF Attended(t) THEN Fault ELSE UNCHANGED faults
  /\ UNCHANGED <<vars, loopVars, callVars>>

TaskLeaseExpires(t) ==
  /\ ExpireLease(t)
  /\ IF HeldAlive(t) THEN Fault ELSE UNCHANGED faults
  /\ UNCHANGED <<queueVars, loopVars, callVars>>

RedisRestartsEmpty ==
  /\ members # {}
  /\ Fault
  /\ Queue!LoseData
  /\ UNCHANGED <<vars, loopVars, callVars>>

-----------------------------------------------------------------------------
(* reconcile, task by task: what it found may be stale when it acts.       *)

ReconcileReady ==
  /\ ~Busy(Reconciler)
  /\ TasksIn({"READY"}) # {} /\ execStatus = "RUNNING"
  /\ duty' = [duty EXCEPT ![Reconciler] = TRUE]
  /\ UNCHANGED <<vars, queueVars, loopVars, outgoing, faults>>

\* Mutant: reconcile does not look for tasks that lost their worker.
NeedsWakeUpButRunning(t) ==
  \/ status[t] = "QUEUED"
  \/ status[t] = "RETRYING" /\ delayed[t] # "ahead"

\* QUEUED for long; RUNNING with a lease that ran out; RETRYING long past
\* retryAt, hence not waiting out its delay in Redis.
NeedsWakeUp(t) ==
  \/ status[t] = "QUEUED"
  \/ status[t] = "RUNNING" /\ lease[t] = "expired"
  \/ status[t] = "RETRYING" /\ delayed[t] # "ahead"

ReconcileFind(t) ==
  /\ ~Busy(Reconciler)
  /\ NeedsWakeUp(t)
  /\ outgoing' = [outgoing EXCEPT ![Reconciler] = {t}]
  /\ UNCHANGED <<vars, queueVars, loopVars, duty, faults>>

\* An approval nobody answered in time.
ExpireApproval(t) ==
  /\ ResolveApproval(t, "EXPIRED")
  /\ UNCHANGED <<queueVars, loopVars, callVars, faults>>

-----------------------------------------------------------------------------
(* Requests to the API; dispatchReady follows an approval and a resume.    *)

Answer(t, decision) ==
  /\ ~Busy(Api)
  /\ ResolveApproval(t, decision)
  /\ duty' = [duty EXCEPT ![Api] = decision = "APPROVED"]
  /\ UNCHANGED <<queueVars, loopVars, outgoing, faults>>

Pause == PauseExecution /\ UNCHANGED <<queueVars, loopVars, callVars, faults>>

Resume ==
  /\ ~Busy(Api)
  /\ ResumeExecution
  /\ duty' = [duty EXCEPT ![Api] = TRUE]
  /\ UNCHANGED <<queueVars, loopVars, outgoing, faults>>

Cancel == CancelExecution /\ UNCHANGED <<queueVars, loopVars, callVars, faults>>

\* The API process or the reconciler's process dies between two calls.
CallerFails(p) ==
  /\ p \in {Api, Reconciler}
  /\ Busy(p)
  /\ Fault
  /\ duty' = [duty EXCEPT ![p] = FALSE]
  /\ outgoing' = [outgoing EXCEPT ![p] = {}]
  /\ IF dispatching[p] # {} THEN DispatchCrash(p) ELSE UNCHANGED vars
  /\ UNCHANGED <<queueVars, loopVars>>

-----------------------------------------------------------------------------

\* The steps a process that has not failed goes on to take.
CallStep(p) ==
  \/ SysDispatchRead(p)
  \/ \E t \in Task : SysDispatchTask(p, t) \/ EnqueueSafely(p, t)

\* The handler returns, throws, asks for approval, or is stopped by
\* withTimeout, and the worker reports.
HandlerEnds(w) ==
  \/ ReportRejected(w)
  \/ ReportComplete(w)
  \/ ReportSuspend(w)
  \/ ReportDecideRetry(w)
  \/ \E error \in HandlerError : ReportRetry(w, error) \/ ReportFail(w, error)

LoopStep(w) ==
  \/ Pop(w)
  \/ StartTask(w)
  \/ Starting(w)
  \/ PoisonPill(w)
  \/ RunHandler(w)
  \/ HandlerEnds(w)
  \/ ScheduleRetry(w)
  \/ AckTask(w)

SysNext ==
  \/ \E p \in Process :
       \/ CallStep(p)
       \/ CallerFails(p)
       \/ \E t \in Task : EnqueueFails(p, t)
  \/ \E w \in Worker : LoopStep(w) \/ Renew(w) \/ WorkerFails(w)
  \/ Maintenance
  \/ RedisRestartsEmpty
  \/ ReconcileReady
  \/ \E t \in Task :
       \/ DelayElapses(t)
       \/ QueueLeaseExpires(t)
       \/ TaskLeaseExpires(t)
       \/ ReconcileFind(t)
       \/ ExpireApproval(t)
       \/ \E decision \in {"APPROVED", "REJECTED"} : Answer(t, decision)
  \/ Pause
  \/ Resume
  \/ Cancel

SysSpec == SysInit /\ [][SysNext]_sysVars

-----------------------------------------------------------------------------
(* Fairness: what the event loop, the timers and the clocks guarantee.     *)

OrphanTaskLeaseExpires(t)  == ~HeldAlive(t) /\ TaskLeaseExpires(t)
OrphanQueueLeaseExpires(t) == ~Attended(t) /\ QueueLeaseExpires(t)

\* A loop that did not fail goes on; a handler ends (withTimeout); the
\* timers of maintenance and of reconcile fire again and again, and a round
\* of reconcile looks at every task; deadlines pass. The retry transaction
\* that a lease renewal aborted is not aborted by every renewal to come: one
\* fires every leaseMs / 3.
Fairness ==
  /\ \A p \in Process : WF_sysVars(CallStep(p))
  /\ \A w \in Worker :
       /\ WF_sysVars(LoopStep(w))
       /\ SF_sysVars(\E error \in HandlerError : ReportRetry(w, error))
  /\ WF_sysVars(Maintenance)
  /\ SF_sysVars(ReconcileReady)
  /\ \A t \in Task :
       /\ SF_sysVars(ReconcileFind(t))
       /\ WF_sysVars(DelayElapses(t))
       /\ WF_sysVars(OrphanQueueLeaseExpires(t))
       /\ WF_sysVars(OrphanTaskLeaseExpires(t))
       /\ WF_sysVars(ExpireApproval(t))

FairSpec == SysSpec /\ Fairness

-----------------------------------------------------------------------------
(* Properties.                                                             *)

\* Where each loop is and what it holds fit together.
SysTypeOK ==
  /\ pc \in [Worker -> LoopState]
  /\ job \in [Worker -> Task \cup {None}]
  /\ token \in [Worker -> 0 .. MaxClaims]
  /\ owner \in [Task -> Worker \cup {None}]
  /\ duty \in [Process -> BOOLEAN]
  /\ outgoing \in [Process -> SUBSET Task]
  /\ faults \in 0 .. MaxFaults
  /\ \A w \in Worker : job[w] = None <=> pc[w] = "idle"

\* The processes use the engine only as Engine.tla says, and Redis only
\* through the scripts of TaskQueue.tla: what those modules prove of every
\* caller holds here.
ImplementsEngine == Spec
ImplementsQueue  == Queue!QueueSpec

\* As long as nothing failed, a task that waits to be run is known to Redis,
\* or some process is about to tell it (a dispatch, a retry to schedule), or a
\* worker has just popped it: the reconciler is never needed. (MongoDB and
\* Redis are written by separate calls; the order of the calls in
\* dispatchTask, failTask and processTask is what keeps this, even though a
\* late ack can take the id of a task that another worker runs from Redis.)
WorkNeverLost ==
  faults = 0 =>
    \A t \in Task : status[t] \in {"QUEUED", "RETRYING"} =>
      \/ t \in members
      \/ \E p \in Process : t \in outgoing[p]
      \/ \E w \in Worker : job[w] = t /\ pc[w] \in {"popped", "retry"}

\* As long as nothing failed, two workers never run the same task at once.
OneWorkerPerTask ==
  faults = 0 =>
    \A v, w \in Worker :
      (v # w /\ job[v] = job[w] /\ job[v] # None) =>
        ~(pc[v] \in {"starting", "started", "running"} /\
          pc[w] \in {"starting", "started", "running"})

\* A run that is RUNNING is finished some day, or paused, whatever MaxFaults
\* faults happen on the way: crashed workers, lost ids, a lost dispatch, an
\* approval nobody answers.
RunSettles == execStatus = "RUNNING" ~> execStatus # "RUNNING"

\* After the end of a run, also of a failed one that left tasks RUNNING or
\* waiting for a person, every task ends and no id of it stays in Redis.
EverythingDrains ==
  execStatus \in {"COMPLETED", "FAILED", "CANCELLED"} ~>
    TasksIn(Unfinished) = {} /\ members = {}

\* taskQueue.js:82: ack forgets the id "only if WE still hold the lease".
AckOnlyOwnLease ==
  [][\A w \in Worker :
       (pc[w] = "ack" /\ pc'[w] = "idle" /\ faults' = faults
          /\ leases[job[w]] # "none") => owner[job[w]] = w]_sysVars
=============================================================================
