------------------------------- MODULE Engine -------------------------------
(***************************************************************************)
(* The workflow engine (workflow/engine.js with task.repository.js) seen   *)
(* from MongoDB: one run of one workflow, from the commit of               *)
(* startExecution on. A caller of the engine is known by what MongoDB      *)
(* knows of it: a worker is the claim <<t, k>> it won (task t, attempt k), *)
(* a process that hands READY tasks over is a member of Process. A crash   *)
(* is a caller that takes no more steps.                                   *)
(*                                                                         *)
(* connection.transaction() is MongoDB snapshot isolation with retry on a  *)
(* write conflict. Every transaction but two writes the run's document or  *)
(* reads only what it writes, so it is serialisable and is one action. The *)
(* exception that matters is failTask's RETRY path: it READS the run's     *)
(* status and writes only the task. It takes two actions, the read         *)
(* (FailTaskDecideRetry) and the commit (FailTaskCommitRetry), and any     *)
(* other write to the task in between aborts it.                           *)
(*                                                                         *)
(* `attempt` and `leaseToken` are incremented by the same update           *)
(* (claimTask) and by nothing else: they are one counter here.             *)
(***************************************************************************)
EXTENDS WorkflowStates, Integers, FiniteSets

CONSTANTS
  Task,          \* the tasks of the run's workflow definition
  DependsOn,     \* the definition's graph: task -> the tasks it waits for
  ApprovalTask,  \* the tasks whose handler asks for a human decision
  MaxAttempts,   \* task -> retryPolicy.maxAttempts
  Process,       \* the processes that call dispatchReady or reconcile
  MaxClaims,     \* bound: claims of one task (the code has none)
  MaxPauses      \* bound: pauses of the run (the code has none)

ASSUME TaskAssumption == IsFiniteSet(Task) /\ Task # {}

\* What validateDag accepts: known dependencies, and no cycle. (In a finite
\* graph, "every non-empty set of tasks has one that depends on none of the
\* others" is exactly "no cycle, no self-dependency".)
ASSUME DagAssumption ==
  /\ DependsOn \in [Task -> SUBSET Task]
  /\ \A S \in SUBSET Task : S # {} => \E t \in S : DependsOn[t] \cap S = {}

ASSUME SettingsAssumption ==
  /\ ApprovalTask \subseteq Task
  /\ MaxAttempts \in [Task -> Nat \ {0}]
  /\ MaxClaims \in Nat
  /\ MaxPauses \in Nat

VARIABLES
  execStatus,     \* WorkflowExecution.status
  pendingTasks,   \* WorkflowExecution.pendingTasks
  status,         \* Task.status
  remainingDeps,  \* Task.remainingDeps
  attempt,        \* Task.attempt = Task.leaseToken
  lease,          \* Task.leaseExpiresAt: unset, in the future, or passed
  retryTxn,       \* tasks with an open failTask transaction that chose RETRY
  stage,          \* how far the holder of claim <<t, k>> is in its work
  attemptRow,     \* TaskExecution.status of attempt k of task t
  approval,       \* ApprovalRequest.status of the task
  runEvents,      \* outbox: number of execution.<e> events
  taskEvents,     \* outbox: number of task.<e> and approval.<e> events
  dispatching     \* tasks a process found READY and still has to hand over

vars == <<execStatus, pendingTasks, status, remainingDeps, attempt, lease,
          retryTxn, stage, attemptRow, approval, runEvents, taskEvents,
          dispatching>>

-----------------------------------------------------------------------------
(* Vocabulary.                                                             *)

Attempt == 1 .. MaxClaims

LiveRun      == {"RUNNING", "PAUSED"}
Unstarted    == {"PENDING", "READY", "QUEUED", "RETRYING"}
Unfinished   == Unstarted \cup {"RUNNING", "WAITING_FOR_APPROVAL"}
LeaseState   == {"none", "live", "expired"}
\* claimed: the claim is committed; closed: older attempts are closed;
\* recorded: its own attempt record exists; started: task.started is emitted
\* and the handler may run; reported: the engine told it "applied".
Stage        == {"none", "claimed", "closed", "recorded", "started", "reported"}
AttemptStatus == {"none", "RUNNING", "SUCCEEDED", "FAILED", "TIMED_OUT",
                  "ABANDONED", "SUSPENDED"}
ApprovalStatus == {"none", "PENDING", "APPROVED", "REJECTED", "EXPIRED",
                   "CANCELLED"}
RunEvent     == {"started", "paused", "resumed", "completed", "failed",
                 "cancelled"}
TaskEvent    == {"started", "retrying", "completed", "failed",
                 "dead_lettered", "requested", "APPROVED", "REJECTED",
                 "EXPIRED"}
\* What a handler can throw: a TimeoutError, any other retryable error, or a
\* NonRetryableError.
HandlerError == {"timeout", "transient", "permanent"}

IsRetryable(error) == error # "permanent"

FailedRow(error) == IF error = "timeout" THEN "TIMED_OUT" ELSE "FAILED"

TasksIn(S) == {t \in Task : status[t] \in S}

Dependents(t) == {c \in Task : t \in DependsOn[c]}

EmitTask(t, e) == taskEvents' = [taskEvents EXCEPT ![t][e] = @ + 1]

EmitTwice(t, e, f) ==
  taskEvents' = [taskEvents EXCEPT ![t][e] = @ + 1, ![t][f] = @ + 1]

EmitRun(e) == runEvents' = [runEvents EXCEPT ![e] = @ + 1]

SetAttemptRow(t, k, s) == attemptRow' = [attemptRow EXCEPT ![t][k] = s]

Reach(t, k, s) == stage' = [stage EXCEPT ![t][k] = s]

DropLease(t) == lease' = [lease EXCEPT ![t] = "none"]

\* Mutants of the fence: the filter without the status, without the token.
FencedByTokenOnly(t, k) == attempt[t] = k
FencedByStatusOnly(t, k) == status[t] = "RUNNING"

\* The fence of every report and renewal: the filter
\* { _id, status: RUNNING, leaseToken }.
Fenced(t, k) == status[t] = "RUNNING" /\ attempt[t] = k

\* The holder of claim k has returned from startTask; it may call the engine,
\* more than once.
MayReport(t, k) == stage[t][k] \in {"started", "reported"}

-----------------------------------------------------------------------------
(* startExecution: the state its one transaction commits.                  *)

Init ==
  /\ execStatus = "RUNNING"
  /\ pendingTasks = Cardinality(Task)
  /\ status = [t \in Task |-> IF DependsOn[t] = {} THEN "READY" ELSE "PENDING"]
  /\ remainingDeps = [t \in Task |-> Cardinality(DependsOn[t])]
  /\ attempt = [t \in Task |-> 0]
  /\ lease = [t \in Task |-> "none"]
  /\ retryTxn = {}
  /\ stage = [t \in Task |-> [k \in Attempt |-> "none"]]
  /\ attemptRow = [t \in Task |-> [k \in Attempt |-> "none"]]
  /\ approval = [t \in Task |-> "none"]
  /\ runEvents = [e \in RunEvent |-> IF e = "started" THEN 1 ELSE 0]
  /\ taskEvents = [t \in Task |-> [e \in TaskEvent |-> 0]]
  /\ dispatching = [p \in Process |-> {}]

-----------------------------------------------------------------------------
(* Handing READY tasks to the queue.                                       *)

\* dispatchReady (and step 1 of reconcile): see the run RUNNING, then find
\* its READY tasks. What it saw may be stale when it acts on it.
DispatchRead(p) ==
  /\ dispatching[p] = {}
  /\ execStatus = "RUNNING"
  /\ TasksIn({"READY"}) # {}
  /\ dispatching' = [dispatching EXCEPT ![p] = TasksIn({"READY"})]
  /\ UNCHANGED <<execStatus, pendingTasks, status, remainingDeps, attempt,
                 lease, retryTxn, stage, attemptRow, approval, runEvents,
                 taskEvents>>

\* The filter { _id, status: READY } of dispatchTask; mutant: the _id alone.
WinsDispatchAlways(t) == TRUE
WinsDispatch(t) == status[t] = "READY"

\* dispatchTask: the compare-and-set READY -> QUEUED. It looks at the task
\* alone. Losing the race is not an error.
DispatchTask(p, t) ==
  /\ t \in dispatching[p]
  /\ dispatching' = [dispatching EXCEPT ![p] = @ \ {t}]
  /\ status' = IF WinsDispatch(t)
               THEN [status EXCEPT ![t] = "QUEUED"]
               ELSE status
  /\ UNCHANGED <<execStatus, pendingTasks, remainingDeps, attempt, lease,
                 retryTxn, stage, attemptRow, approval, runEvents, taskEvents>>

\* The process stops before it has handed over all it found.
DispatchCrash(p) ==
  /\ dispatching[p] # {}
  /\ dispatching' = [dispatching EXCEPT ![p] = {}]
  /\ UNCHANGED <<execStatus, pendingTasks, status, remainingDeps, attempt,
                 lease, retryTxn, stage, attemptRow, approval, runEvents,
                 taskEvents>>

-----------------------------------------------------------------------------
(* startTask: one atomic claim and three separate writes after it.         *)

\* Mutant: a RUNNING task is claimable before its lease has run out.
ClaimableAnyLease(t) == status[t] \in {"QUEUED", "RETRYING", "RUNNING"}

\* claimTask's filter: waiting in the queue, or RUNNING under a lease that ran
\* out.
Claimable(t) ==
  \/ status[t] \in {"QUEUED", "RETRYING"}
  \/ status[t] = "RUNNING" /\ lease[t] = "expired"

ClaimTask(t) ==
  /\ Claimable(t)
  /\ attempt[t] < MaxClaims
  /\ status' = [status EXCEPT ![t] = "RUNNING"]
  /\ attempt' = [attempt EXCEPT ![t] = @ + 1]
  /\ lease' = [lease EXCEPT ![t] = "live"]
  /\ retryTxn' = retryTxn \ {t}
  /\ Reach(t, attempt[t] + 1, "claimed")
  /\ UNCHANGED <<execStatus, pendingTasks, remainingDeps, attemptRow,
                 approval, runEvents, taskEvents, dispatching>>

\* Close what a vanished attempt left RUNNING.
CloseAbandoned(t, k) ==
  /\ stage[t][k] = "claimed"
  /\ Reach(t, k, "closed")
  /\ attemptRow' = [attemptRow EXCEPT ![t] =
       [j \in Attempt |-> IF j < k /\ attemptRow[t][j] = "RUNNING"
                          THEN "ABANDONED" ELSE attemptRow[t][j]]]
  /\ UNCHANGED <<execStatus, pendingTasks, status, remainingDeps, attempt,
                 lease, retryTxn, approval, runEvents, taskEvents,
                 dispatching>>

CreateAttempt(t, k) ==
  /\ stage[t][k] = "closed"
  /\ Reach(t, k, "recorded")
  /\ SetAttemptRow(t, k, "RUNNING")
  /\ UNCHANGED <<execStatus, pendingTasks, status, remainingDeps, attempt,
                 lease, retryTxn, approval, runEvents, taskEvents,
                 dispatching>>

EmitStarted(t, k) ==
  /\ stage[t][k] = "recorded"
  /\ Reach(t, k, "started")
  /\ EmitTask(t, "started")
  /\ UNCHANGED <<execStatus, pendingTasks, status, remainingDeps, attempt,
                 lease, retryTxn, attemptRow, approval, runEvents,
                 dispatching>>

-----------------------------------------------------------------------------
(* The lease of a running task.                                            *)

\* renewTaskLease matches an expired lease too, as long as nobody took over.
RenewLease(t, k) ==
  /\ MayReport(t, k)
  /\ Fenced(t, k)
  /\ lease' = [lease EXCEPT ![t] = "live"]
  /\ retryTxn' = retryTxn \ {t}
  /\ UNCHANGED <<execStatus, pendingTasks, status, remainingDeps, attempt,
                 stage, attemptRow, approval, runEvents, taskEvents,
                 dispatching>>

\* MongoDB's clock passes leaseExpiresAt.
ExpireLease(t) ==
  /\ lease[t] = "live"
  /\ lease' = [lease EXCEPT ![t] = "expired"]
  /\ UNCHANGED <<execStatus, pendingTasks, status, remainingDeps, attempt,
                 retryTxn, stage, attemptRow, approval, runEvents, taskEvents,
                 dispatching>>

-----------------------------------------------------------------------------
(* What follows the end of a task, inside the caller's transaction.        *)

\* The children of a task that succeeds are told while the run is live;
\* mutant: only while it is RUNNING.
TellsChildrenUnlessPaused == execStatus = "RUNNING"
TellsChildren == execStatus \in LiveRun

\* Children lose a dependency while the run is live; they are promoted, and
\* the run completed, only while it is RUNNING.
AfterTaskSucceeded(t) ==
  /\ pendingTasks' = pendingTasks - 1
  /\ remainingDeps' = IF TellsChildren
       THEN [c \in Task |-> IF c \in Dependents(t) THEN remainingDeps[c] - 1
                                                   ELSE remainingDeps[c]]
       ELSE remainingDeps
  /\ status' = [c \in Task |->
       IF c = t THEN "COMPLETED"
       ELSE IF /\ execStatus = "RUNNING"
               /\ c \in Dependents(t)
               /\ status[c] = "PENDING"
               /\ remainingDeps'[c] = 0
            THEN "READY"
            ELSE status[c]]
  /\ IF execStatus = "RUNNING" /\ pendingTasks' = 0
     THEN execStatus' = "COMPLETED" /\ EmitRun("completed")
     ELSE UNCHANGED <<execStatus, runEvents>>

\* The first terminal failure fails the run; mutant: every one does.
FailsRunAlways == TRUE
FailsRun == execStatus \in LiveRun

\* What fail-fast cancels; mutant: not what is already in the queue.
CutOffUnqueued(t) == TasksIn({"PENDING", "READY"}) \ {t}
CutOff(t) == TasksIn(Unstarted) \ {t}

\* FAIL-FAST: unstarted tasks are cancelled and the run fails, once. RUNNING
\* and waiting tasks are left alone.
AfterTaskFailedForGood(t, outcome) ==
  /\ IF FailsRun
     THEN /\ pendingTasks' = pendingTasks - 1 - Cardinality(CutOff(t))
          /\ status' = [c \in Task |->
               IF c = t THEN outcome
               ELSE IF c \in CutOff(t) THEN "CANCELLED"
               ELSE status[c]]
          /\ execStatus' = "FAILED"
          /\ EmitRun("failed")
     ELSE /\ pendingTasks' = pendingTasks - 1
          /\ status' = [status EXCEPT ![t] = outcome]
          /\ UNCHANGED <<execStatus, runEvents>>
  /\ UNCHANGED remainingDeps

-----------------------------------------------------------------------------
(* Reports of a worker. One that the fence rejects changes nothing.        *)

CompleteTask(t, k) ==
  /\ MayReport(t, k)
  /\ t \notin ApprovalTask
  /\ k <= MaxAttempts[t]
  /\ Fenced(t, k)
  /\ DropLease(t)
  /\ retryTxn' = retryTxn \ {t}
  /\ SetAttemptRow(t, attempt[t], "SUCCEEDED")
  /\ AfterTaskSucceeded(t)
  /\ EmitTask(t, "completed")
  /\ Reach(t, k, "reported")
  /\ UNCHANGED <<attempt, approval, dispatching>>

AttemptsLeft(t) == attempt[t] < MaxAttempts[t]

\* failTask's transaction has read the task and a live run, and goes for
\* RETRY. (A poison pill, k > MaxAttempts[t], never gets here.)
FailTaskDecideRetry(t, k) ==
  /\ MayReport(t, k)
  /\ Fenced(t, k)
  /\ execStatus \in LiveRun
  /\ AttemptsLeft(t)
  /\ retryTxn' = retryTxn \cup {t}
  /\ UNCHANGED <<execStatus, pendingTasks, status, remainingDeps, attempt,
                 lease, stage, attemptRow, approval, runEvents, taskEvents,
                 dispatching>>

\* Its commit: only the task and its attempt record are written, so nothing
\* that happened to the run since the read makes it fail.
FailTaskCommitRetry(t, k, error) ==
  /\ MayReport(t, k)
  /\ Fenced(t, k)
  /\ t \in retryTxn
  /\ IsRetryable(error)
  /\ retryTxn' = retryTxn \ {t}
  /\ status' = [status EXCEPT ![t] = "RETRYING"]
  /\ DropLease(t)
  /\ SetAttemptRow(t, attempt[t], FailedRow(error))
  /\ EmitTask(t, "retrying")
  /\ Reach(t, k, "reported")
  /\ UNCHANGED <<execStatus, pendingTasks, remainingDeps, attempt, approval,
                 runEvents, dispatching>>

\* failTask's TERMINAL path; it writes the run's document.
FailTaskForGood(t, k, error) ==
  LET outcome == IF IsRetryable(error) /\ ~AttemptsLeft(t)
                 THEN "DEAD_LETTER" ELSE "FAILED"
  IN  /\ MayReport(t, k)
      /\ Fenced(t, k)
      /\ k > MaxAttempts[t] => error = "transient"
      /\ ~(IsRetryable(error) /\ AttemptsLeft(t) /\ execStatus \in LiveRun)
      /\ retryTxn' = retryTxn \ {t}
      /\ DropLease(t)
      /\ SetAttemptRow(t, attempt[t], FailedRow(error))
      /\ AfterTaskFailedForGood(t, outcome)
      /\ EmitTask(t, IF outcome = "DEAD_LETTER" THEN "dead_lettered"
                                                ELSE "failed")
      /\ Reach(t, k, "reported")
      /\ UNCHANGED <<attempt, approval, dispatching>>

-----------------------------------------------------------------------------
(* Human approval.                                                         *)

\* ApprovalRequest.taskId is a unique index: a second request for the task
\* would abort the transaction.
SuspendForApproval(t, k) ==
  /\ MayReport(t, k)
  /\ t \in ApprovalTask
  /\ k <= MaxAttempts[t]
  /\ Fenced(t, k)
  /\ approval[t] = "none"
  /\ status' = [status EXCEPT ![t] = "WAITING_FOR_APPROVAL"]
  /\ DropLease(t)
  /\ retryTxn' = retryTxn \ {t}
  /\ SetAttemptRow(t, attempt[t], "SUSPENDED")
  /\ approval' = [approval EXCEPT ![t] = "PENDING"]
  /\ EmitTask(t, "requested")
  /\ Reach(t, k, "reported")
  /\ UNCHANGED <<execStatus, pendingTasks, remainingDeps, attempt, runEvents,
                 dispatching>>

\* resolveApproval's two filters; mutant: also that the run is live.
AwaitsDecisionInLiveRun(t) ==
  approval[t] = "PENDING" /\ status[t] = "WAITING_FOR_APPROVAL"
    /\ execStatus \in LiveRun
AwaitsDecision(t) ==
  approval[t] = "PENDING" /\ status[t] = "WAITING_FOR_APPROVAL"

\* A person's decision, or EXPIRED from reconcile. If the task no longer
\* waits, the transaction throws and nothing is recorded.
ResolveApproval(t, decision) ==
  /\ AwaitsDecision(t)
  /\ approval' = [approval EXCEPT ![t] = decision]
  /\ IF decision = "APPROVED"
     THEN /\ AfterTaskSucceeded(t)
          /\ EmitTwice(t, "completed", decision)
     ELSE /\ AfterTaskFailedForGood(t, "FAILED")
          /\ EmitTwice(t, "failed", decision)
  /\ UNCHANGED <<attempt, lease, retryTxn, stage, attemptRow, dispatching>>

-----------------------------------------------------------------------------
(* Pause, resume, cancel.                                                  *)

PauseExecution ==
  /\ execStatus = "RUNNING"
  /\ runEvents["paused"] < MaxPauses
  /\ execStatus' = "PAUSED"
  /\ EmitRun("paused")
  /\ UNCHANGED <<pendingTasks, status, remainingDeps, attempt, lease,
                 retryTxn, stage, attemptRow, approval, taskEvents,
                 dispatching>>

\* What resume makes READY; mutants: every PENDING task, none.
PromotableAll  == TasksIn({"PENDING"})
PromotableNone == {}
Promotable == {t \in TasksIn({"PENDING"}) : remainingDeps[t] = 0}

\* Promote what became ready while paused; complete the run if everything
\* finished meanwhile.
ResumeExecution ==
  /\ execStatus = "PAUSED"
  /\ status' = [t \in Task |->
       IF t \in Promotable THEN "READY" ELSE status[t]]
  /\ IF pendingTasks = 0
     THEN /\ execStatus' = "COMPLETED"
          /\ runEvents' = [runEvents EXCEPT !["resumed"] = @ + 1,
                                            !["completed"] = @ + 1]
     ELSE execStatus' = "RUNNING" /\ EmitRun("resumed")
  /\ UNCHANGED <<pendingTasks, remainingDeps, attempt, lease, retryTxn,
                 stage, attemptRow, approval, taskEvents, dispatching>>

\* The approval requests cancel closes; mutant: none.
WithdrawnNone == {}
Withdrawn == {t \in Task : approval[t] = "PENDING"}

\* Every unfinished task, RUNNING ones too. Attempt records are not touched.
CancelExecution ==
  /\ execStatus \in LiveRun
  /\ execStatus' = "CANCELLED"
  /\ pendingTasks' = pendingTasks - Cardinality(TasksIn(Unfinished))
  /\ status' = [t \in Task |->
       IF status[t] \in Unfinished THEN "CANCELLED" ELSE status[t]]
  /\ lease' = [t \in Task |->
       IF status[t] \in Unfinished THEN "none" ELSE lease[t]]
  /\ retryTxn' = {}
  /\ approval' = [t \in Task |->
       IF t \in Withdrawn THEN "CANCELLED" ELSE approval[t]]
  /\ EmitRun("cancelled")
  /\ UNCHANGED <<remainingDeps, attempt, stage, attemptRow, taskEvents,
                 dispatching>>

-----------------------------------------------------------------------------

Dispatch == \E p \in Process :
  \/ DispatchRead(p)
  \/ \E t \in Task : DispatchTask(p, t)
  \/ DispatchCrash(p)

Start == \E t \in Task :
  \/ ClaimTask(t)
  \/ \E k \in Attempt :
       CloseAbandoned(t, k) \/ CreateAttempt(t, k) \/ EmitStarted(t, k)

KeepLease == \E t \in Task :
  \/ ExpireLease(t)
  \/ \E k \in Attempt : RenewLease(t, k)

Report == \E t \in Task, k \in Attempt :
  \/ CompleteTask(t, k)
  \/ SuspendForApproval(t, k)
  \/ FailTaskDecideRetry(t, k)
  \/ \E error \in HandlerError :
       FailTaskCommitRetry(t, k, error) \/ FailTaskForGood(t, k, error)

Decide == \E t \in Task, decision \in {"APPROVED", "REJECTED", "EXPIRED"} :
  ResolveApproval(t, decision)

Next ==
  \/ Dispatch
  \/ Start
  \/ KeepLease
  \/ Report
  \/ Decide
  \/ PauseExecution
  \/ ResumeExecution
  \/ CancelExecution

Spec == Init /\ [][Next]_vars

-----------------------------------------------------------------------------
(* Properties.                                                             *)

\* Every variable has the type the schemas of models/*.js give it; counters
\* never go negative.
TypeOK ==
  /\ execStatus \in ExecutionStatus
  /\ pendingTasks \in Nat
  /\ status \in [Task -> TaskStatus]
  /\ remainingDeps \in [Task -> Nat]
  /\ attempt \in [Task -> 0 .. MaxClaims]
  /\ lease \in [Task -> LeaseState]
  /\ retryTxn \subseteq Task
  /\ stage \in [Task -> [Attempt -> Stage]]
  /\ attemptRow \in [Task -> [Attempt -> AttemptStatus]]
  /\ approval \in [Task -> ApprovalStatus]
  /\ runEvents \in [RunEvent -> Nat]
  /\ taskEvents \in [Task -> [TaskEvent -> Nat]]
  /\ dispatching \in [Process -> SUBSET Task]

\* WorkflowExecution.pendingTasks, kept by increments of completeTask,
\* failTask, resolveApproval and cancelExecution, is always the number of
\* tasks that are not finished: no report is counted twice or missed.
PendingCountExact == pendingTasks = Cardinality(TasksIn(Unfinished))

\* While a run is RUNNING or PAUSED, Task.remainingDeps is the number of
\* dependencies still to complete: afterTaskSucceeded decrements every child
\* once for every parent, whichever parents finish together.
RemainingDepsExact ==
  execStatus \in LiveRun =>
    \A t \in Task :
      remainingDeps[t] = Cardinality({d \in DependsOn[t] :
                                        status[d] # "COMPLETED"})

\* The counters that stand for a look at all tasks are exact: on
\* pendingTasks = 0 a run is completed, on remainingDeps = 0 a task promoted.
CountersExact == PendingCountExact /\ RemainingDepsExact

\* No task leaves PENDING, but by being cancelled, before every task it
\* depends on is COMPLETED, in any interleaving of completions, pauses,
\* resumes and failures.
DepsRespected ==
  \A t \in Task :
    status[t] \notin {"PENDING", "CANCELLED"} =>
      \A d \in DependsOn[t] : status[d] = "COMPLETED"

\* The status of a run is a true summary of its tasks: a live run has no
\* failed or cancelled task, a COMPLETED one only completed tasks, a
\* CANCELLED one nothing unfinished, and a FAILED one has the task that
\* failed it and nothing left that waits for a dependency, a dispatch or the
\* queue (afterTaskFailedForGood, cancelExecution).
RunOutcomeSound ==
  /\ execStatus \in LiveRun =>
       TasksIn({"FAILED", "DEAD_LETTER", "CANCELLED"}) = {}
  /\ execStatus = "COMPLETED" => TasksIn({"COMPLETED"}) = Task
  /\ execStatus = "CANCELLED" => TasksIn(Unfinished) = {}
  /\ execStatus = "FAILED" =>
       /\ TasksIn({"FAILED", "DEAD_LETTER"}) # {}
       /\ TasksIn({"PENDING", "READY", "QUEUED"}) = {}

\* A RUNNING run always has a task that someone can act on: it is never left
\* with PENDING tasks only (a child that missed its promotion while the run
\* was paused) nor with nothing at all (a completion that nobody noticed).
NoStuckRun ==
  execStatus = "RUNNING" => TasksIn(Unfinished \ {"PENDING"}) # {}

\* One of the filters of reconcile finds the task, once its time has passed.
Swept(t) ==
  \/ status[t] = "READY" /\ execStatus = "RUNNING"
  \/ status[t] \in {"QUEUED", "RETRYING"}
  \/ status[t] = "RUNNING" /\ lease[t] # "none"
  \/ AwaitsDecision(t)

\* Nothing is beyond the reach of reconcile, whichever process dies: an
\* unfinished task is found by one of its sweeps (a RUNNING one has a lease
\* that can run out, a waiting one a request that can expire), waits for a
\* dependency that is unfinished itself, or for the resume of its run; and in
\* a RUNNING run some task is found.
SweepFindsWork ==
  /\ \A t \in TasksIn(Unfinished) :
       \/ Swept(t)
       \/ status[t] = "PENDING" /\ DependsOn[t] \cap TasksIn(Unfinished) # {}
       \/ status[t] \in {"PENDING", "READY"} /\ execStatus = "PAUSED"
  /\ execStatus = "RUNNING" => \E t \in Task : Swept(t)

\* The attempt history agrees with the task, and with what workers were told:
\* exactly the attempts whose report was "applied" carry an outcome; the
\* successful one is the last one of a COMPLETED task; an attempt is
\* ABANDONED only when a later one exists.
HistoryMatchesTask ==
  \A t \in Task, k \in Attempt :
    /\ stage[t][k] = "reported" <=>
         attemptRow[t][k] \in {"SUCCEEDED", "FAILED", "TIMED_OUT", "SUSPENDED"}
    /\ attemptRow[t][k] = "SUCCEEDED" <=>
         status[t] = "COMPLETED" /\ approval[t] = "none" /\ k = attempt[t]
    /\ attemptRow[t][k] = "SUSPENDED" <=>
         approval[t] # "none" /\ k = attempt[t]
    /\ attemptRow[t][k] = "ABANDONED" => k < attempt[t]

\* An ApprovalRequest is PENDING exactly while its task waits, and its
\* decision is the one the task's status shows, also when a click races the
\* timeout, a cancellation or the failure of another task.
ApprovalMatchesTask ==
  \A t \in Task :
    /\ approval[t] = "PENDING" <=> status[t] = "WAITING_FOR_APPROVAL"
    /\ approval[t] = "APPROVED" => status[t] = "COMPLETED"
    /\ approval[t] \in {"REJECTED", "EXPIRED"} => status[t] = "FAILED"
    /\ approval[t] = "CANCELLED" =>
         status[t] = "CANCELLED" /\ execStatus = "CANCELLED"

\* 1 if P else 0.
Indicator(P) == IF P THEN 1 ELSE 0

\* The transactional outbox: the events recorded are exactly the changes that
\* committed. A run has one closing event, of its kind; a task one outcome
\* event, of its kind, and one task.retrying for every failed attempt that
\* was not its last.
OutboxMatchesState ==
  /\ \A e \in {"completed", "failed", "cancelled"} :
       runEvents[e] = Indicator(execStatus =
         [completed |-> "COMPLETED", failed |-> "FAILED",
          cancelled |-> "CANCELLED"][e])
  /\ runEvents["paused"] - runEvents["resumed"] \in
       (CASE execStatus \in {"RUNNING", "COMPLETED"} -> {0}
          [] execStatus = "PAUSED" -> {1}
          [] OTHER -> {0, 1})
  /\ \A t \in Task :
       /\ taskEvents[t]["completed"] = Indicator(status[t] = "COMPLETED")
       /\ taskEvents[t]["failed"] = Indicator(status[t] = "FAILED")
       /\ taskEvents[t]["dead_lettered"] = Indicator(status[t] = "DEAD_LETTER")
       /\ taskEvents[t]["requested"] = Indicator(approval[t] # "none")
       /\ \A d \in {"APPROVED", "REJECTED", "EXPIRED"} :
            taskEvents[t][d] = Indicator(approval[t] = d)
       /\ taskEvents[t]["retrying"] =
            Cardinality({k \in Attempt :
                           attemptRow[t][k] \in {"FAILED", "TIMED_OUT"}})
              - Indicator(/\ status[t] \in {"FAILED", "DEAD_LETTER"}
                          /\ approval[t] = "none")

\* from -> to is a move of the table, or two of them made in one atomic
\* update that the code declares to be so.
LegalMove(table, composite, from, to) ==
  \/ CanTransition(table, from, to)
  \/ \E mid \in DOMAIN table :
       /\ <<from, mid, to>> \in composite
       /\ CanTransition(table, from, mid)
       /\ CanTransition(table, mid, to)

\* "Every status change in the system goes through canTransition()": the
\* statuses the bulk updates and the pipeline update write, which no
\* assertTransition guards per document, obey the tables of states.js too. A
\* step makes one move of a table, or one of three documented pairs: a retry
\* is claimed (RETRYING -> QUEUED -> RUNNING), a task is dead-lettered
\* (RUNNING -> FAILED -> DEAD_LETTER), a run that finished while paused is
\* resumed (PAUSED -> RUNNING -> COMPLETED).
LegalTransitions ==
  [][/\ execStatus' # execStatus =>
          LegalMove(ExecutionTransitions, {<<"PAUSED", "RUNNING", "COMPLETED">>},
                    execStatus, execStatus')
     /\ \A t \in Task : status'[t] # status[t] =>
          LegalMove(TaskTransitions,
                    {<<"RETRYING", "QUEUED", "RUNNING">>,
                     <<"RUNNING", "FAILED", "DEAD_LETTER">>},
                    status[t], status'[t])]_vars

\* What a user can tell of the run: its outcome, the tasks that succeeded and
\* the ones that will not.
Run == INSTANCE DagRun WITH
         outcome <- IF execStatus \in LiveRun THEN "open" ELSE execStatus,
         done    <- TasksIn({"COMPLETED"}),
         lost    <- TasksIn({"FAILED", "DEAD_LETTER", "CANCELLED"})

\* The engine implements DagRun: with dispatches, claims, leases, takeovers,
\* retries, pauses and approvals out of sight, what is left is a run that does
\* every task at most once, in the order of its dependencies, and ends once.
ImplementsDagRun == Run!Spec

(* What a comment of the code promises and its interleavings do not keep.  *)

\* engine.js:562: on a terminal outcome "unstarted tasks (PENDING / READY /
\* QUEUED / RETRYING) are CANCELLED and the execution becomes FAILED ...
\* nothing new starts".
FailFastCancelsUnstarted ==
  execStatus = "FAILED" => TasksIn(Unstarted) = {}
=============================================================================
