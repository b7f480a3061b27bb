---------------------------- MODULE EngineProofs ----------------------------
(***************************************************************************)
(* Proofs about Engine for every workflow graph, every retry setting and   *)
(* any number of claims and pauses.                                        *)
(*                                                                         *)
(* The invariants about a run and its tasks depend on four variables only  *)
(* (the "core"): execStatus, pendingTasks, status, remainingDeps. Most     *)
(* actions leave the core alone or move one task; what is left are the     *)
(* five operations that change a run as a whole. CoreStep sorts the        *)
(* actions into these cases and one lemma per case shows that it preserves *)
(* CoreInv, the inductive invariant.                                       *)
(***************************************************************************)
EXTENDS Engine, FiniteSetTheorems, TLAPS

\* The execution statuses the engine ever writes.
RunStatusUsed == {"RUNNING", "PAUSED", "COMPLETED", "FAILED", "CANCELLED"}

CoreType ==
  /\ execStatus \in RunStatusUsed
  /\ pendingTasks \in Nat
  /\ status \in [Task -> TaskStatus]
  /\ remainingDeps \in [Task -> Nat]

\* While a run is RUNNING no completion and no promotion is outstanding: the
\* step that makes the last task finish ends the run, the step that takes the
\* last dependency away promotes the child.
NothingOutstanding ==
  execStatus = "RUNNING" =>
    /\ TasksIn(Unfinished) # {}
    /\ \A t \in Task : status[t] = "PENDING" => remainingDeps[t] # 0

CoreInv ==
  /\ CoreType
  /\ PendingCountExact
  /\ RemainingDepsExact
  /\ DepsRespected
  /\ RunOutcomeSound
  /\ NothingOutstanding

-----------------------------------------------------------------------------
(* The core's view of a step.                                              *)

Moves(t, from, to) ==
  /\ status[t] \in from
  /\ status' = [status EXCEPT ![t] = to]
  /\ UNCHANGED <<execStatus, pendingTasks, remainingDeps>>

MovesOne(t) ==
  \/ Moves(t, {"READY"}, "QUEUED")
  \/ Moves(t, {"QUEUED", "RETRYING", "RUNNING"}, "RUNNING")
  \/ Moves(t, {"RUNNING"}, "RETRYING")
  \/ Moves(t, {"RUNNING"}, "WAITING_FOR_APPROVAL")

Ending == {"RUNNING", "WAITING_FOR_APPROVAL"}
BadOutcome == {"FAILED", "DEAD_LETTER"}

CoreNext ==
  \/ UNCHANGED <<execStatus, pendingTasks, status, remainingDeps>>
  \/ \E t \in Task : MovesOne(t)
  \/ \E t \in Task : status[t] \in Ending /\ AfterTaskSucceeded(t)
  \/ \E t \in Task, outcome \in BadOutcome :
       /\ status[t] \in Ending
       /\ outcome = "DEAD_LETTER" => status[t] = "RUNNING"
       /\ AfterTaskFailedForGood(t, outcome)
  \/ PauseExecution
  \/ ResumeExecution
  \/ CancelExecution

\* Seen through the status documents alone, every engine step is one of the core steps.
LEMMA CoreStep == [Next]_vars => CoreNext
<1> SUFFICES ASSUME [Next]_vars PROVE CoreNext
  OBVIOUS
<1>1. CASE Dispatch
  <2>1. PICK p \in Process : \/ DispatchRead(p)
                             \/ \E t \in Task : DispatchTask(p, t)
                             \/ DispatchCrash(p)
    BY <1>1 DEF Dispatch
  <2>2. CASE DispatchRead(p) \/ DispatchCrash(p)
    BY <2>2 DEF CoreNext, DispatchRead, DispatchCrash
  <2>3. ASSUME NEW t \in Task, DispatchTask(p, t) PROVE CoreNext
    BY <2>3 DEF CoreNext, DispatchTask, WinsDispatch, MovesOne, Moves
  <2> QED BY <2>1, <2>2, <2>3
<1>2. CASE Start
  <2>1. PICK t \in Task :
          \/ ClaimTask(t)
          \/ \E k \in Attempt :
               CloseAbandoned(t, k) \/ CreateAttempt(t, k) \/ EmitStarted(t, k)
    BY <1>2 DEF Start
  <2>2. CASE ClaimTask(t)
    BY <2>2 DEF CoreNext, ClaimTask, Claimable, MovesOne, Moves
  <2>3. ASSUME NEW k \in Attempt,
               CloseAbandoned(t, k) \/ CreateAttempt(t, k) \/ EmitStarted(t, k)
        PROVE  CoreNext
    BY <2>3 DEF CoreNext, CloseAbandoned, CreateAttempt, EmitStarted
  <2> QED BY <2>1, <2>2, <2>3
<1>3. CASE KeepLease
  BY <1>3 DEF KeepLease, CoreNext, ExpireLease, RenewLease
<1>4. CASE Report
  <2>1. PICK t \in Task, k \in Attempt :
          \/ CompleteTask(t, k)
          \/ SuspendForApproval(t, k)
          \/ FailTaskDecideRetry(t, k)
          \/ \E error \in HandlerError :
               FailTaskCommitRetry(t, k, error) \/ FailTaskForGood(t, k, error)
    BY <1>4 DEF Report
  <2>2. CASE CompleteTask(t, k)
    BY <2>2 DEF CompleteTask, Fenced, CoreNext, Ending
  <2>3. CASE SuspendForApproval(t, k)
    BY <2>3 DEF SuspendForApproval, Fenced, CoreNext, MovesOne, Moves
  <2>4. CASE FailTaskDecideRetry(t, k)
    BY <2>4 DEF FailTaskDecideRetry, CoreNext
  <2>5. ASSUME NEW error \in HandlerError, FailTaskCommitRetry(t, k, error)
        PROVE  CoreNext
    BY <2>5 DEF FailTaskCommitRetry, Fenced, CoreNext, MovesOne, Moves
  <2>6. ASSUME NEW error \in HandlerError, FailTaskForGood(t, k, error)
        PROVE  CoreNext
    BY <2>6 DEF FailTaskForGood, Fenced, CoreNext, Ending, BadOutcome
  <2> QED BY <2>1, <2>2, <2>3, <2>4, <2>5, <2>6
<1>5. CASE Decide
  <2>1. PICK t \in Task, decision \in {"APPROVED", "REJECTED", "EXPIRED"} :
          ResolveApproval(t, decision)
    BY <1>5 DEF Decide
  <2>2. CASE decision = "APPROVED"
    BY <2>1, <2>2 DEF ResolveApproval, AwaitsDecision, CoreNext, Ending
  <2>3. CASE decision # "APPROVED"
    BY <2>1, <2>3 DEF ResolveApproval, AwaitsDecision, CoreNext, Ending,
                      BadOutcome
  <2> QED BY <2>2, <2>3
<1>6. CASE PauseExecution \/ ResumeExecution \/ CancelExecution
  BY <1>6 DEF CoreNext
<1>7. CASE UNCHANGED vars
  BY <1>7 DEF vars, CoreNext
<1> QED BY <1>1, <1>2, <1>3, <1>4, <1>5, <1>6, <1>7 DEF Next

-----------------------------------------------------------------------------
(* Counting.                                                               *)

\* Sets of tasks, and sets of dependencies of a task, are finite, so that
\* they have a cardinality, which is 0 exactly when they are empty.
LEMMA TaskSets ==
  /\ \A S \in SUBSET Task : /\ IsFiniteSet(S)
                            /\ Cardinality(S) \in Nat
                            /\ Cardinality(S) = 0 <=> S = {}
  /\ \A S \in SUBSET Task : \A t \in S :
       Cardinality(S \ {t}) = Cardinality(S) - 1
<1>1. ASSUME NEW S \in SUBSET Task
      PROVE  /\ IsFiniteSet(S)
             /\ Cardinality(S) \in Nat
             /\ Cardinality(S) = 0 <=> S = {}
  BY TaskAssumption, FS_Subset, FS_CardinalityType, FS_EmptySet
<1>2. ASSUME NEW S \in SUBSET Task, NEW t \in S
      PROVE  Cardinality(S \ {t}) = Cardinality(S) - 1
  BY <1>1, FS_RemoveElement
<1> QED BY <1>1, <1>2

\* Removing two disjoint sets from a third one that includes both.
LEMMA CountDisjoint ==
  ASSUME NEW S \in SUBSET Task, NEW U \in SUBSET S
  PROVE  Cardinality(S \ U) = Cardinality(S) - Cardinality(U)
<1>1. IsFiniteSet(U) /\ IsFiniteSet(S \ U)
  BY TaskSets
<1>2. (S \ U) \cup U = S /\ (S \ U) \cap U = {}
  OBVIOUS
<1>3. Cardinality((S \ U) \cup U) =
        Cardinality(S \ U) + Cardinality(U) - Cardinality((S \ U) \cap U)
  BY <1>1, FS_Union
<1>4. Cardinality(S) = Cardinality(S \ U) + Cardinality(U) - 0
  BY <1>2, <1>3, FS_EmptySet
<1>5. Cardinality(S) \in Nat /\ Cardinality(S \ U) \in Nat /\ Cardinality(U) \in Nat
  BY TaskSets
<1> QED BY <1>4, <1>5

\* The dependencies of c that are still to complete.
Waiting(c) == {d \in DependsOn[c] : status[d] # "COMPLETED"}

\* The dependencies a task still waits for are tasks.
LEMMA WaitingType == \A c \in Task : Waiting(c) \in SUBSET Task
  BY DagAssumption DEF Waiting

-----------------------------------------------------------------------------
(* One lemma per case of CoreNext.                                         *)

\* startExecution creates a run in which CoreInv holds.
LEMMA InitCore == Init => CoreInv
<1> SUFFICES ASSUME Init PROVE CoreInv
  OBVIOUS
<1> USE DEF Init
<1>1. CoreType
  BY TaskSets, DagAssumption DEF CoreType, RunStatusUsed, TaskStatus
<1>2. PendingCountExact
  <2>1. TasksIn(Unfinished) = Task
    BY DEF TasksIn, Unfinished, Unstarted
  <2> QED BY <2>1 DEF PendingCountExact
<1>3. RemainingDepsExact
  <2>1. \A t \in Task : {d \in DependsOn[t] : status[d] # "COMPLETED"} = DependsOn[t]
    BY DagAssumption
  <2> QED BY <2>1 DEF RemainingDepsExact
<1>4. DepsRespected
  BY DagAssumption DEF DepsRespected
<1>5. RunOutcomeSound
  BY DEF RunOutcomeSound, TasksIn, LiveRun
<1>6. NothingOutstanding
  <2>1. TasksIn(Unfinished) # {}
    BY TaskAssumption DEF TasksIn, Unfinished, Unstarted
  <2>2. \A t \in Task : status[t] = "PENDING" => remainingDeps[t] # 0
    BY TaskSets, DagAssumption
  <2> QED BY <2>1, <2>2 DEF NothingOutstanding
<1> QED BY <1>1, <1>2, <1>3, <1>4, <1>5, <1>6 DEF CoreInv

\* A step that changes none of the documents CoreInv reads keeps it.
LEMMA StutterCore ==
  CoreInv /\ UNCHANGED <<execStatus, pendingTasks, status, remainingDeps>>
    => CoreInv'
  BY DEF CoreInv, CoreType, PendingCountExact, RemainingDepsExact,
         DepsRespected, RunOutcomeSound, NothingOutstanding, TasksIn

\* A task that moves between unfinished statuses other than PENDING.
LEMMA MoveCore ==
  ASSUME CoreInv, NEW t \in Task, MovesOne(t)
  PROVE  CoreInv'
<1> USE DEF CoreInv
<1>1. /\ status[t] \in Unfinished \ {"PENDING"}
      /\ status'[t] \in Unfinished \ {"PENDING", "READY"}
      /\ status'[t] = "QUEUED" => status[t] = "READY"
      /\ status' = [status EXCEPT ![t] = status'[t]]
      /\ UNCHANGED <<execStatus, pendingTasks, remainingDeps>>
  BY DEF MovesOne, Moves, CoreType, Unfinished, Unstarted
<1>2. \A c \in Task : c # t => status'[c] = status[c]
  BY <1>1 DEF CoreType
<1>3. CoreType'
  BY <1>1 DEF CoreType, TaskStatus, Unfinished, Unstarted
<1>4. TasksIn(Unfinished)' = TasksIn(Unfinished)
  BY <1>1, <1>2 DEF TasksIn
<1>5. \A d \in Task : status'[d] = "COMPLETED" <=> status[d] = "COMPLETED"
  BY <1>1, <1>2 DEF Unfinished, Unstarted
<1>6. \A c \in Task : Waiting(c)' = Waiting(c)
  BY <1>5, DagAssumption DEF Waiting
<1>7. PendingCountExact'
  BY <1>1, <1>4 DEF PendingCountExact
<1>8. RemainingDepsExact'
  BY <1>1, <1>6 DEF RemainingDepsExact, Waiting
<1>9. DepsRespected'
  BY <1>1, <1>2, <1>5, DagAssumption DEF DepsRespected, Unfinished, Unstarted
<1>10. RunOutcomeSound'
  BY <1>1, <1>2 DEF RunOutcomeSound, TasksIn, Unfinished, Unstarted
<1>11. NothingOutstanding'
  BY <1>1, <1>2, <1>4 DEF NothingOutstanding
<1> QED BY <1>3, <1>7, <1>8, <1>9, <1>10, <1>11

\* afterTaskSucceeded keeps the counters, the order and the outcome right.
LEMMA SucceedCore ==
  ASSUME CoreInv, NEW t \in Task, status[t] \in Ending, AfterTaskSucceeded(t)
  PROVE  CoreInv'
<1> USE DEF CoreInv
<1>0. status[t] \in Unfinished /\ status[t] # "COMPLETED" /\ status[t] # "PENDING"
  BY DEF Ending, Unfinished, Unstarted
<1>1. execStatus \in {"RUNNING", "PAUSED", "FAILED"}
  BY <1>0 DEF CoreType, RunStatusUsed, RunOutcomeSound, TasksIn
<1>2. /\ status' \in [Task -> TaskStatus]
      /\ status'[t] = "COMPLETED"
      /\ \A c \in Task \ {t} :
           \/ status'[c] = status[c]
           \/ /\ execStatus = "RUNNING" /\ c \in Dependents(t)
              /\ status[c] = "PENDING" /\ status'[c] = "READY"
              /\ remainingDeps'[c] = 0
  BY DEF AfterTaskSucceeded, TellsChildren, CoreType, TaskStatus
<1>3. TasksIn(Unfinished)' = TasksIn(Unfinished) \ {t}
  BY <1>0, <1>2 DEF TasksIn, Unfinished, Unstarted
<1>4. PendingCountExact'
  BY <1>0, <1>3, TaskSets DEF PendingCountExact, AfterTaskSucceeded,
                              TellsChildren, TasksIn
<1>5. \A c \in Task : Waiting(c)' = Waiting(c) \ {t}
  BY <1>2, DagAssumption DEF Waiting
<1>6. execStatus \in LiveRun =>
        \A c \in Task : remainingDeps'[c] = Cardinality(Waiting(c)')
  <2> SUFFICES ASSUME execStatus \in LiveRun, NEW c \in Task
               PROVE  remainingDeps'[c] = Cardinality(Waiting(c)')
    OBVIOUS
  <2>1. remainingDeps[c] = Cardinality(Waiting(c))
    BY DEF RemainingDepsExact, Waiting
  <2>2. CASE t \in DependsOn[c]
    <3>1. t \in Waiting(c)
      BY <1>0, <2>2 DEF Waiting
    <3>2. Cardinality(Waiting(c) \ {t}) = Cardinality(Waiting(c)) - 1
      BY <3>1, TaskSets, WaitingType
    <3>3. remainingDeps'[c] = remainingDeps[c] - 1
      BY <2>2 DEF AfterTaskSucceeded, TellsChildren, Dependents
    <3> QED BY <2>1, <3>2, <3>3, <1>5
  <2>3. CASE t \notin DependsOn[c]
    <3>1. Waiting(c) \ {t} = Waiting(c)
      BY <2>3 DEF Waiting
    <3>2. remainingDeps'[c] = remainingDeps[c]
      BY <2>3 DEF AfterTaskSucceeded, TellsChildren, Dependents
    <3> QED BY <2>1, <3>1, <3>2, <1>5
  <2> QED BY <2>2, <2>3
<1>7. \A c \in Task : Waiting(c)' \in SUBSET Task
  BY DagAssumption DEF Waiting
<1>8. remainingDeps' \in [Task -> Nat]
  <2>1. CASE execStatus \in LiveRun
    <3>1. \A c \in Task : remainingDeps'[c] \in Nat
      BY <2>1, <1>6, <1>7, TaskSets
    <3>2. remainingDeps' = [c \in Task |-> remainingDeps'[c]]
      BY <2>1 DEF AfterTaskSucceeded, TellsChildren
    <3> QED BY <3>1, <3>2
  <2>2. CASE execStatus \notin LiveRun
    BY <2>2 DEF AfterTaskSucceeded, TellsChildren, CoreType
  <2> QED BY <2>1, <2>2
<1>9. execStatus' \in {execStatus, "COMPLETED"}
      /\ (execStatus' # execStatus <=> execStatus = "RUNNING" /\ pendingTasks' = 0)
  BY DEF AfterTaskSucceeded, TellsChildren
<1>10. pendingTasks' \in Nat
  BY <1>4, TaskSets DEF PendingCountExact, TasksIn
<1>11. CoreType'
  BY <1>2, <1>8, <1>9, <1>10 DEF CoreType, RunStatusUsed
<1>12. RemainingDepsExact'
  BY <1>6, <1>9 DEF RemainingDepsExact, LiveRun, Waiting
<1>13. DepsRespected'
  <2> SUFFICES ASSUME NEW c \in Task, status'[c] \notin {"PENDING", "CANCELLED"},
                      NEW d \in DependsOn[c]
               PROVE  status'[d] = "COMPLETED"
    BY DEF DepsRespected
  <2>0. d \in Task
    BY DagAssumption
  <2>1. CASE status[c] \notin {"PENDING", "CANCELLED"}
    BY <2>0, <2>1, <1>2 DEF DepsRespected
  <2>2. CASE status[c] \in {"PENDING", "CANCELLED"}
    <3>1. execStatus = "RUNNING" /\ remainingDeps'[c] = 0
      BY <2>2, <1>2 DEF Ending
    <3>2. Waiting(c)' = {}
      BY <3>1, <1>6, <1>7, TaskSets DEF LiveRun
    <3> QED BY <3>2 DEF Waiting
  <2> QED BY <2>1, <2>2
<1>14. RunOutcomeSound'
  <2>1. CASE execStatus' = "COMPLETED"
    <3>1. TasksIn(Unfinished)' = {}
      BY <2>1, <1>1, <1>4, <1>9, TaskSets DEF PendingCountExact, TasksIn
    <3>2. \A c \in Task : status[c] \notin {"FAILED", "DEAD_LETTER", "CANCELLED"}
      BY <2>1, <1>1, <1>9 DEF RunOutcomeSound, LiveRun, TasksIn
    <3>3. \A c \in Task : status'[c] = "COMPLETED"
      BY <3>1, <3>2, <1>2 DEF TasksIn, Unfinished, Unstarted, TaskStatus, CoreType
    <3> QED BY <2>1, <3>3 DEF RunOutcomeSound, TasksIn, LiveRun
  <2>2. CASE execStatus' # "COMPLETED"
    BY <2>2, <1>1, <1>2, <1>9 DEF RunOutcomeSound, LiveRun, TasksIn, Ending
  <2> QED BY <2>1, <2>2
<1>15. NothingOutstanding'
  <2> SUFFICES ASSUME execStatus' = "RUNNING" PROVE NothingOutstanding'
    BY DEF NothingOutstanding
  <2>1. execStatus = "RUNNING" /\ pendingTasks' # 0
    BY <1>1, <1>9
  <2>2. TasksIn(Unfinished)' # {}
    BY <2>1, <1>4, FS_EmptySet DEF PendingCountExact
  <2>3. ASSUME NEW c \in Task, status'[c] = "PENDING"
        PROVE  remainingDeps'[c] # 0
    <3>1. c # t /\ status[c] = "PENDING"
      BY <2>3, <1>2
    <3>2. remainingDeps[c] # 0
      BY <3>1, <2>1 DEF NothingOutstanding
    <3>3. c \in Dependents(t) => remainingDeps'[c] # 0
      BY <2>1, <2>3, <3>1 DEF AfterTaskSucceeded, TellsChildren
    <3>4. c \notin Dependents(t) => remainingDeps'[c] = remainingDeps[c]
      BY <2>1 DEF AfterTaskSucceeded, TellsChildren, LiveRun
    <3> QED BY <3>2, <3>3, <3>4
  <2> QED BY <2>2, <2>3 DEF NothingOutstanding
<1> QED BY <1>4, <1>11, <1>12, <1>13, <1>14, <1>15
\* afterTaskFailedForGood, with the tasks it cuts off, keeps CoreInv.
LEMMA FailCore ==
  ASSUME CoreInv, NEW t \in Task, NEW outcome \in BadOutcome,
         status[t] \in Ending, AfterTaskFailedForGood(t, outcome)
  PROVE  CoreInv'
<1> USE DEF CoreInv
<1>0. status[t] \in Unfinished \ Unstarted
  BY DEF Ending, Unfinished, Unstarted
<1>1. execStatus \in {"RUNNING", "PAUSED", "FAILED"}
  BY DEF Ending, Unfinished, CoreType, RunStatusUsed, RunOutcomeSound, TasksIn
<1>2. execStatus' = "FAILED" /\ UNCHANGED remainingDeps
  BY <1>1 DEF AfterTaskFailedForGood, FailsRun, CutOff, TasksIn, LiveRun
<1>3. /\ status' \in [Task -> TaskStatus]
      /\ status'[t] \in BadOutcome
      /\ \A c \in Task \ {t} :
           IF execStatus \in LiveRun /\ status[c] \in Unstarted
           THEN status'[c] = "CANCELLED" ELSE status'[c] = status[c]
  BY DEF AfterTaskFailedForGood, FailsRun, CutOff, TasksIn, CoreType,
         TaskStatus, BadOutcome
<1>4. PendingCountExact'
  <2>1. CASE execStatus \in LiveRun
    <3> DEFINE Rest == TasksIn(Unfinished) \ {t}
               Gone == TasksIn(Unstarted) \ {t}
    <3>1. TasksIn(Unfinished)' = Rest \ Gone
      BY <2>1, <1>3 DEF TasksIn, Unfinished, Unstarted, BadOutcome
    <3>2. /\ TasksIn(Unfinished) \in SUBSET Task /\ Rest \in SUBSET Task
          /\ Gone \in SUBSET Rest /\ t \in TasksIn(Unfinished)
      BY <1>0 DEF TasksIn, Unfinished
    <3>3. Cardinality(Rest) = Cardinality(TasksIn(Unfinished)) - 1
      BY <3>2, TaskSets
    <3>4. Cardinality(Rest \ Gone) = Cardinality(Rest) - Cardinality(Gone)
      BY <3>2, CountDisjoint
    <3>5. pendingTasks' = pendingTasks - 1 - Cardinality(Gone)
      BY <2>1 DEF AfterTaskFailedForGood, FailsRun, CutOff, TasksIn
    <3> QED BY <3>1, <3>3, <3>4, <3>5 DEF PendingCountExact
  <2>2. CASE execStatus \notin LiveRun
    <3>1. TasksIn(Unfinished)' = TasksIn(Unfinished) \ {t}
      BY <2>2, <1>3 DEF TasksIn, Unfinished, Unstarted, BadOutcome
    <3>2. pendingTasks' = pendingTasks - 1
      BY <2>2 DEF AfterTaskFailedForGood, FailsRun, CutOff, TasksIn
    <3> QED BY <1>0, <3>1, <3>2, TaskSets DEF PendingCountExact, TasksIn
  <2> QED BY <2>1, <2>2
<1>5. CoreType'
  BY <1>2, <1>3, <1>4, TaskSets
     DEF CoreType, RunStatusUsed, PendingCountExact, TasksIn
<1>6. RemainingDepsExact' /\ NothingOutstanding'
  BY <1>2 DEF RemainingDepsExact, NothingOutstanding, LiveRun
<1>7. \A d \in Task : status[d] = "COMPLETED" => status'[d] = "COMPLETED"
  BY <1>0, <1>3 DEF Unstarted, Unfinished
<1>8. DepsRespected'
  <2> SUFFICES ASSUME NEW c \in Task, status'[c] \notin {"PENDING", "CANCELLED"},
                      NEW d \in DependsOn[c]
               PROVE  status'[d] = "COMPLETED"
    BY DEF DepsRespected
  <2>0. d \in Task
    BY DagAssumption
  <2>1. status[c] \notin {"PENDING", "CANCELLED"}
    BY <1>3 DEF Ending, Unstarted
  <2> QED BY <2>0, <2>1, <1>7 DEF DepsRespected
<1>9. RunOutcomeSound'
  <2>1. t \in TasksIn({"FAILED", "DEAD_LETTER"})'
    BY <1>3 DEF TasksIn, BadOutcome
  <2>2. TasksIn({"PENDING", "READY", "QUEUED"})' = {}
    <3>1. CASE execStatus \in LiveRun
      BY <3>1, <1>3 DEF TasksIn, Unstarted, BadOutcome
    <3>2. CASE execStatus \notin LiveRun
      BY <3>2, <1>1, <1>3 DEF TasksIn, RunOutcomeSound, LiveRun, BadOutcome
    <3> QED BY <3>1, <3>2
  <2> QED BY <1>2, <2>1, <2>2 DEF RunOutcomeSound, LiveRun
<1> QED BY <1>4, <1>5, <1>6, <1>8, <1>9

\* pauseExecution changes the status of the run alone.
LEMMA PauseCore == CoreInv /\ PauseExecution => CoreInv'
  BY DEF CoreInv, PauseExecution, CoreType, RunStatusUsed, PendingCountExact,
         RemainingDepsExact, DepsRespected, RunOutcomeSound,
         NothingOutstanding, TasksIn, LiveRun

\* resumeExecution promotes exactly the PENDING tasks with no dependency left.
LEMMA ResumeCore ==
  ASSUME CoreInv, ResumeExecution
  PROVE  CoreInv'
<1> USE DEF CoreInv
<1>1. /\ execStatus = "PAUSED"
      /\ execStatus' = IF pendingTasks = 0 THEN "COMPLETED" ELSE "RUNNING"
      /\ UNCHANGED <<pendingTasks, remainingDeps>>
  BY DEF ResumeExecution, Promotable, TasksIn
<1>2. /\ status' \in [Task -> TaskStatus]
      /\ \A c \in Task :
           \/ status'[c] = status[c]
              /\ ~(status[c] = "PENDING" /\ remainingDeps[c] = 0)
           \/ status[c] = "PENDING" /\ remainingDeps[c] = 0 /\ status'[c] = "READY"
  BY DEF ResumeExecution, Promotable, TasksIn, CoreType, TaskStatus
<1>3. CoreType'
  BY <1>1, <1>2 DEF CoreType, RunStatusUsed
<1>4. TasksIn(Unfinished)' = TasksIn(Unfinished)
  BY <1>2 DEF TasksIn, Unfinished, Unstarted
<1>5. PendingCountExact'
  BY <1>1, <1>4 DEF PendingCountExact
<1>6. \A d \in Task : status'[d] = "COMPLETED" <=> status[d] = "COMPLETED"
  BY <1>2
<1>7. \A c \in Task : /\ Waiting(c)' = Waiting(c)
                      /\ remainingDeps[c] = Cardinality(Waiting(c))
  BY <1>1, <1>6, DagAssumption DEF Waiting, RemainingDepsExact, LiveRun
<1>8. RemainingDepsExact'
  BY <1>1, <1>7 DEF RemainingDepsExact, Waiting
<1>9. DepsRespected'
  <2> SUFFICES ASSUME NEW c \in Task, status'[c] \notin {"PENDING", "CANCELLED"},
                      NEW d \in DependsOn[c]
               PROVE  status'[d] = "COMPLETED"
    BY DEF DepsRespected
  <2>0. d \in Task
    BY DagAssumption
  <2>1. CASE status[c] \notin {"PENDING", "CANCELLED"}
    BY <2>0, <2>1, <1>6 DEF DepsRespected
  <2>2. CASE status[c] \in {"PENDING", "CANCELLED"}
    <3>1. remainingDeps[c] = 0
      BY <2>2, <1>2
    <3>2. Waiting(c) = {}
      BY <3>1, <1>7, TaskSets, WaitingType
    <3> QED BY <2>0, <3>2, <1>6 DEF Waiting
  <2> QED BY <2>1, <2>2
<1>10. TasksIn(Unfinished) = {} <=> pendingTasks = 0
  BY TaskSets DEF PendingCountExact, TasksIn
<1>11. \A c \in Task : status'[c] \notin {"FAILED", "DEAD_LETTER", "CANCELLED"}
  BY <1>1, <1>2 DEF RunOutcomeSound, TasksIn, LiveRun
<1>12. RunOutcomeSound'
  <2>1. CASE pendingTasks = 0
    <3>1. \A c \in Task : status'[c] \notin Unfinished
      BY <2>1, <1>4, <1>10 DEF TasksIn
    <3>2. \A c \in Task : status'[c] = "COMPLETED"
      BY <3>1, <1>2, <1>11 DEF Unfinished, Unstarted, TaskStatus
    <3> QED BY <2>1, <3>2, <1>1 DEF RunOutcomeSound, TasksIn, LiveRun
  <2>2. CASE pendingTasks # 0
    BY <2>2, <1>1, <1>11 DEF RunOutcomeSound, TasksIn, LiveRun
  <2> QED BY <2>1, <2>2
<1>13. NothingOutstanding'
  BY <1>1, <1>2, <1>4, <1>10 DEF NothingOutstanding
<1> QED BY <1>3, <1>5, <1>8, <1>9, <1>12, <1>13

\* cancelExecution finishes every unfinished task and empties pendingTasks.
LEMMA CancelCore ==
  ASSUME CoreInv, CancelExecution
  PROVE  CoreInv'
<1> USE DEF CoreInv
<1>1. /\ execStatus \in LiveRun /\ execStatus' = "CANCELLED"
      /\ UNCHANGED remainingDeps
      /\ pendingTasks' = pendingTasks - Cardinality(TasksIn(Unfinished))
  BY DEF CancelExecution, Withdrawn
<1>2. /\ status' \in [Task -> TaskStatus]
      /\ \A c \in Task : status'[c] = IF status[c] \in Unfinished
                                      THEN "CANCELLED" ELSE status[c]
  BY DEF CancelExecution, Withdrawn, CoreType, TaskStatus
<1>3. TasksIn(Unfinished)' = {}
  BY <1>2 DEF TasksIn, Unfinished, Unstarted
<1>4. pendingTasks' = 0
  BY <1>1, TaskSets DEF PendingCountExact, TasksIn
<1>5. PendingCountExact'
  BY <1>3, <1>4, FS_EmptySet DEF PendingCountExact
<1>6. CoreType'
  BY <1>1, <1>2, <1>4 DEF CoreType, RunStatusUsed
<1>7. RemainingDepsExact' /\ NothingOutstanding'
  BY <1>1 DEF RemainingDepsExact, NothingOutstanding, LiveRun
<1>8. DepsRespected'
  <2> SUFFICES ASSUME NEW c \in Task, status'[c] \notin {"PENDING", "CANCELLED"},
                      NEW d \in DependsOn[c]
               PROVE  status'[d] = "COMPLETED"
    BY DEF DepsRespected
  <2>0. d \in Task
    BY DagAssumption
  <2>1. status[d] = "COMPLETED"
    BY <2>0, <1>2 DEF DepsRespected, Unfinished, Unstarted
  <2> QED BY <2>0, <2>1, <1>2 DEF Unfinished, Unstarted
<1>9. RunOutcomeSound'
  BY <1>1, <1>3 DEF RunOutcomeSound, LiveRun
<1> QED BY <1>5, <1>6, <1>7, <1>8, <1>9

-----------------------------------------------------------------------------
(* The theorems.                                                           *)

\* Every step of the engine keeps CoreInv.
LEMMA NextCore == CoreInv /\ [Next]_vars => CoreInv'
  BY CoreStep, StutterCore, MoveCore, SucceedCore, FailCore, PauseCore,
     ResumeCore, CancelCore DEF CoreNext

\* The inductive invariant holds in every reachable state.
THEOREM CoreInvariant == Spec => []CoreInv
  BY InitCore, NextCore, PTL DEF Spec

\* pendingTasks is exact for every workflow, whatever the interleaving of
\* reports, approvals, failures, pauses and cancellations.
THEOREM PendingCountCorrect == Spec => []PendingCountExact
<1>1. CoreInv => PendingCountExact
  BY DEF CoreInv
<1> QED BY <1>1, CoreInvariant, PTL

\* remainingDeps is exact while a run is live.
THEOREM RemainingDepsCorrect == Spec => []RemainingDepsExact
<1>1. CoreInv => RemainingDepsExact
  BY DEF CoreInv
<1> QED BY <1>1, CoreInvariant, PTL

\* Hence every decision the engine takes on a counter (complete the run,
\* promote a child) is the one a look at all tasks would give.
THEOREM CountersCorrect == Spec => []CountersExact
<1>1. PendingCountExact /\ RemainingDepsExact => CountersExact
  BY DEF CountersExact
<1> QED BY <1>1, PendingCountCorrect, RemainingDepsCorrect, PTL

\* A task starts only after everything it depends on has completed.
THEOREM DependenciesRespected == Spec => []DepsRespected
<1>1. CoreInv => DepsRespected
  BY DEF CoreInv
<1> QED BY <1>1, CoreInvariant, PTL

\* The status of a run is a true summary of the statuses of its tasks.
THEOREM RunOutcomeCorrect == Spec => []RunOutcomeSound
<1>1. CoreInv => RunOutcomeSound
  BY DEF CoreInv
<1> QED BY <1>1, CoreInvariant, PTL

\* A RUNNING run has a task to act on. This is where the graph's having no
\* cycle is used: among the PENDING tasks one depends on no other PENDING
\* one, so all it depends on is COMPLETED and it would have been promoted.
THEOREM RunNeverStuck == Spec => []NoStuckRun
<1>1. CoreInv => NoStuckRun
  <2> SUFFICES ASSUME CoreInv, execStatus = "RUNNING",
                      TasksIn(Unfinished \ {"PENDING"}) = {}
               PROVE  FALSE
    BY DEF NoStuckRun
  <2> USE DEF CoreInv
  <2> DEFINE P == TasksIn({"PENDING"})
  <2>1. P # {} /\ P \in SUBSET Task
    BY DEF NothingOutstanding, TasksIn
  <2>2. PICK t \in P : DependsOn[t] \cap P = {}
    BY <2>1, DagAssumption
  <2>3. t \in Task /\ status[t] = "PENDING"
    BY DEF TasksIn
  <2>4. \A d \in DependsOn[t] : status[d] = "COMPLETED"
    <3> SUFFICES ASSUME NEW d \in DependsOn[t] PROVE status[d] = "COMPLETED"
      OBVIOUS
    <3>1. d \in Task
      BY <2>3, DagAssumption
    <3>2. status[d] \notin Unfinished
      BY <2>2, <3>1 DEF TasksIn
    <3>3. status[d] \notin {"FAILED", "DEAD_LETTER", "CANCELLED"}
      BY <3>1 DEF RunOutcomeSound, TasksIn, LiveRun
    <3> QED BY <3>1, <3>2, <3>3 DEF CoreType, TaskStatus, Unfinished, Unstarted
  <2>5. Waiting(t) = {}
    BY <2>4 DEF Waiting
  <2>6. remainingDeps[t] = 0
    BY <2>3, <2>5, FS_EmptySet DEF RemainingDepsExact, Waiting, LiveRun
  <2> QED BY <2>3, <2>6 DEF NothingOutstanding
<1> QED BY <1>1, CoreInvariant, PTL
-----------------------------------------------------------------------------
(* Types of the variables outside the core.                                *)

BookType ==
  /\ attempt \in [Task -> 0 .. MaxClaims]
  /\ lease \in [Task -> LeaseState]
  /\ retryTxn \subseteq Task
  /\ stage \in [Task -> [Attempt -> Stage]]
  /\ attemptRow \in [Task -> [Attempt -> AttemptStatus]]
  /\ approval \in [Task -> ApprovalStatus]
  /\ runEvents \in [RunEvent -> Nat]
  /\ taskEvents \in [Task -> [TaskEvent -> Nat]]
  /\ dispatching \in [Process -> SUBSET Task]

\* The helpers that write one entry keep the type.
LEMMA EmitType ==
  ASSUME NEW t \in Task, NEW e \in TaskEvent, NEW f \in TaskEvent,
         taskEvents \in [Task -> [TaskEvent -> Nat]],
         EmitTask(t, e) \/ (e # f /\ EmitTwice(t, e, f))
  PROVE  taskEvents' \in [Task -> [TaskEvent -> Nat]]
  BY DEF EmitTask, EmitTwice

\* Emitting an event of the run keeps its counters typed.
LEMMA EmitRunType ==
  ASSUME NEW e \in RunEvent, runEvents \in [RunEvent -> Nat], EmitRun(e)
  PROVE  runEvents' \in [RunEvent -> Nat]
  BY DEF EmitRun

\* Writing one attempt record keeps the table of records typed.
LEMMA RowType ==
  ASSUME NEW t \in Task, NEW k \in Attempt, NEW s \in AttemptStatus,
         attemptRow \in [Task -> [Attempt -> AttemptStatus]],
         SetAttemptRow(t, k, s)
  PROVE  attemptRow' \in [Task -> [Attempt -> AttemptStatus]]
  BY DEF SetAttemptRow

\* Moving one attempt on in startTask keeps the stages typed.
LEMMA StageType ==
  ASSUME NEW t \in Task, NEW k \in Attempt, NEW s \in Stage,
         stage \in [Task -> [Attempt -> Stage]], Reach(t, k, s)
  PROVE  stage' \in [Task -> [Attempt -> Stage]]
  BY DEF Reach

\* The bookkeeping of a new run is typed.
LEMMA InitBook == Init => BookType
  BY SettingsAssumption
     DEF Init, BookType, LeaseState, Stage, AttemptStatus, ApprovalStatus,
         RunEvent, TaskEvent, Attempt

\* Dispatching keeps the bookkeeping typed.
LEMMA DispatchBook == BookType /\ Dispatch => BookType'
  BY DEF Dispatch, BookType, DispatchRead, DispatchTask, WinsDispatch,
         DispatchCrash, TasksIn

\* The steps of startTask keep the bookkeeping typed.
LEMMA StartBook ==
  ASSUME BookType, Start
  PROVE  BookType'
<1>1. PICK t \in Task :
        \/ ClaimTask(t)
        \/ \E k \in Attempt :
             CloseAbandoned(t, k) \/ CreateAttempt(t, k) \/ EmitStarted(t, k)
  BY DEF Start
<1>2. CASE ClaimTask(t)
  <2>1. attempt[t] + 1 \in Attempt
    BY <1>2, SettingsAssumption DEF ClaimTask, BookType, Attempt
  <2>2. stage' \in [Task -> [Attempt -> Stage]]
    BY <1>2, <2>1, StageType DEF ClaimTask, BookType, Stage
  <2>3. attempt' \in [Task -> 0 .. MaxClaims]
    <3>1. attempt[t] + 1 \in 0 .. MaxClaims
      BY <2>1, SettingsAssumption DEF Attempt
    <3> QED BY <1>2, <3>1 DEF ClaimTask, BookType
  <2> QED BY <1>2, <2>2, <2>3 DEF ClaimTask, BookType, LeaseState
<1>3. ASSUME NEW k \in Attempt, CloseAbandoned(t, k) PROVE BookType'
  <2>1. stage' \in [Task -> [Attempt -> Stage]]
    BY <1>3, StageType DEF CloseAbandoned, BookType, Stage
  <2>2. attemptRow' \in [Task -> [Attempt -> AttemptStatus]]
    BY <1>3 DEF CloseAbandoned, BookType, AttemptStatus
  <2> QED BY <1>3, <2>1, <2>2 DEF CloseAbandoned, BookType
<1>4. ASSUME NEW k \in Attempt, CreateAttempt(t, k) PROVE BookType'
  <2>1. stage' \in [Task -> [Attempt -> Stage]]
    BY <1>4, StageType DEF CreateAttempt, BookType, Stage
  <2>2. attemptRow' \in [Task -> [Attempt -> AttemptStatus]]
    BY <1>4, RowType DEF CreateAttempt, BookType, AttemptStatus
  <2> QED BY <1>4, <2>1, <2>2 DEF CreateAttempt, BookType
<1>5. ASSUME NEW k \in Attempt, EmitStarted(t, k) PROVE BookType'
  <2>1. stage' \in [Task -> [Attempt -> Stage]]
    BY <1>5, StageType DEF EmitStarted, BookType, Stage
  <2>2. taskEvents' \in [Task -> [TaskEvent -> Nat]]
    BY <1>5, EmitType DEF EmitStarted, BookType, TaskEvent
  <2> QED BY <1>5, <2>1, <2>2 DEF EmitStarted, BookType
<1> QED BY <1>1, <1>2, <1>3, <1>4, <1>5

\* Lease renewal and expiry keep the bookkeeping typed.
LEMMA KeepLeaseBook == BookType /\ KeepLease => BookType'
  BY DEF KeepLease, BookType, ExpireLease, RenewLease, LeaseState

\* What all accepted reports do to the books.
ReportsBook(t, k, row, e) ==
  /\ attempt[t] = k
  /\ DropLease(t)
  /\ retryTxn' = retryTxn \ {t}
  /\ SetAttemptRow(t, attempt[t], row)
  /\ EmitTask(t, e)
  /\ Reach(t, k, "reported")
  /\ UNCHANGED <<attempt, dispatching>>

\* A report of a worker keeps the bookkeeping typed.
LEMMA ReportBook ==
  ASSUME BookType, Report
  PROVE  BookType'
<1>1. PICK t \in Task, k \in Attempt :
        \/ CompleteTask(t, k)
        \/ SuspendForApproval(t, k)
        \/ FailTaskDecideRetry(t, k)
        \/ \E error \in HandlerError :
             FailTaskCommitRetry(t, k, error) \/ FailTaskForGood(t, k, error)
  BY DEF Report
<1>2. ASSUME NEW row \in AttemptStatus, NEW e \in TaskEvent,
             ReportsBook(t, k, row, e)
      PROVE  /\ attempt' \in [Task -> 0 .. MaxClaims]
             /\ lease' \in [Task -> LeaseState]
             /\ retryTxn' \subseteq Task
             /\ stage' \in [Task -> [Attempt -> Stage]]
             /\ attemptRow' \in [Task -> [Attempt -> AttemptStatus]]
             /\ taskEvents' \in [Task -> [TaskEvent -> Nat]]
             /\ dispatching' \in [Process -> SUBSET Task]
  <2>1. stage' \in [Task -> [Attempt -> Stage]]
    BY <1>2, StageType DEF ReportsBook, BookType, Stage
  <2>2. attemptRow' \in [Task -> [Attempt -> AttemptStatus]]
    BY <1>2, RowType DEF ReportsBook, BookType
  <2>3. taskEvents' \in [Task -> [TaskEvent -> Nat]]
    BY <1>2, EmitType DEF ReportsBook, BookType
  <2> QED BY <1>2, <2>1, <2>2, <2>3
          DEF ReportsBook, DropLease, BookType, LeaseState
<1>3. CASE CompleteTask(t, k)
  <2>1. ReportsBook(t, k, "SUCCEEDED", "completed")
    BY <1>3 DEF CompleteTask, ReportsBook, Fenced
  <2>2. runEvents' \in [RunEvent -> Nat]
    BY <1>3, EmitRunType DEF CompleteTask, AfterTaskSucceeded, TellsChildren,
                             BookType, RunEvent
  <2>3. approval' = approval
    BY <1>3 DEF CompleteTask
  <2>4. "SUCCEEDED" \in AttemptStatus /\ "completed" \in TaskEvent
    BY DEF AttemptStatus, TaskEvent
  <2> QED BY <1>2, <2>1, <2>2, <2>3, <2>4 DEF BookType
<1>4. CASE SuspendForApproval(t, k)
  <2>1. ReportsBook(t, k, "SUSPENDED", "requested")
    BY <1>4 DEF SuspendForApproval, ReportsBook, Fenced
  <2>2. runEvents' = runEvents /\ approval' = [approval EXCEPT ![t] = "PENDING"]
    BY <1>4 DEF SuspendForApproval
  <2>3. "SUSPENDED" \in AttemptStatus /\ "requested" \in TaskEvent
    BY DEF AttemptStatus, TaskEvent
  <2> QED BY <1>2, <2>1, <2>2, <2>3 DEF BookType, ApprovalStatus
<1>5. CASE FailTaskDecideRetry(t, k)
  BY <1>5 DEF FailTaskDecideRetry, BookType
<1>6. ASSUME NEW error \in HandlerError, FailTaskCommitRetry(t, k, error)
      PROVE  BookType'
  <2>1. ReportsBook(t, k, FailedRow(error), "retrying")
    BY <1>6 DEF FailTaskCommitRetry, ReportsBook, Fenced
  <2>2. runEvents' = runEvents /\ approval' = approval
    BY <1>6 DEF FailTaskCommitRetry
  <2>3. FailedRow(error) \in AttemptStatus /\ "retrying" \in TaskEvent
    BY DEF AttemptStatus, TaskEvent, FailedRow
  <2> QED BY <1>2, <2>1, <2>2, <2>3 DEF BookType
<1>7. ASSUME NEW error \in HandlerError, FailTaskForGood(t, k, error)
      PROVE  BookType'
  <2>1. \E e \in {"dead_lettered", "failed"} :
          ReportsBook(t, k, FailedRow(error), e)
    BY <1>7 DEF FailTaskForGood, ReportsBook, Fenced
  <2>2. runEvents' \in [RunEvent -> Nat]
    BY <1>7, EmitRunType
       DEF FailTaskForGood, AfterTaskFailedForGood, FailsRun, CutOff, TasksIn,
           BookType, RunEvent
  <2>3. approval' = approval
    BY <1>7 DEF FailTaskForGood
  <2>4. FailedRow(error) \in AttemptStatus /\ {"dead_lettered", "failed"} \subseteq TaskEvent
    BY DEF AttemptStatus, TaskEvent, FailedRow
  <2> QED BY <1>2, <2>1, <2>2, <2>3, <2>4 DEF BookType
<1> QED BY <1>1, <1>3, <1>4, <1>5, <1>6, <1>7

\* A decision on an approval keeps the bookkeeping typed.
LEMMA DecideBook ==
  ASSUME BookType, Decide
  PROVE  BookType'
<1>1. PICK t \in Task, decision \in {"APPROVED", "REJECTED", "EXPIRED"} :
        ResolveApproval(t, decision)
  BY DEF Decide
<1>2. approval' \in [Task -> ApprovalStatus]
  BY <1>1 DEF ResolveApproval, AwaitsDecision, BookType, ApprovalStatus
<1>3. runEvents' \in [RunEvent -> Nat]
  BY <1>1, EmitRunType
     DEF ResolveApproval, AwaitsDecision, AfterTaskSucceeded, TellsChildren,
         AfterTaskFailedForGood, FailsRun, CutOff, TasksIn, BookType, RunEvent
<1>4. taskEvents' \in [Task -> [TaskEvent -> Nat]]
  <2>1. EmitTwice(t, "completed", decision) \/ EmitTwice(t, "failed", decision)
    BY <1>1 DEF ResolveApproval, AwaitsDecision
  <2>2. {"completed", "failed", decision} \subseteq TaskEvent
        /\ decision # "completed" /\ decision # "failed"
    BY DEF TaskEvent
  <2> QED BY <2>1, <2>2, EmitType DEF BookType
<1> QED BY <1>1, <1>2, <1>3, <1>4 DEF ResolveApproval, AwaitsDecision,
                                      BookType

\* Pause, resume and cancel keep the bookkeeping typed.
LEMMA ControlBook ==
  BookType /\ (PauseExecution \/ ResumeExecution \/ CancelExecution) => BookType'
<1>1. BookType /\ PauseExecution => BookType'
  BY EmitRunType DEF PauseExecution, BookType, RunEvent
<1>2. BookType /\ ResumeExecution => BookType'
  BY EmitRunType DEF ResumeExecution, Promotable, TasksIn, BookType, RunEvent
<1>3. BookType /\ CancelExecution => BookType'
  BY EmitRunType
     DEF CancelExecution, Withdrawn, BookType, RunEvent, LeaseState,
         ApprovalStatus
<1> QED BY <1>1, <1>2, <1>3

\* Every step of the engine keeps the bookkeeping typed.
LEMMA NextBook == BookType /\ [Next]_vars => BookType'
<1>1. BookType /\ UNCHANGED vars => BookType'
  BY DEF BookType, vars
<1> QED BY <1>1, DispatchBook, StartBook, KeepLeaseBook, ReportBook, DecideBook,
           ControlBook DEF Next

\* Every reachable state is well typed; in particular pendingTasks and every
\* remainingDeps never go below 0, whatever order the reports come in.
THEOREM TypeCorrect == Spec => []TypeOK
<1>1. CoreInv /\ BookType => TypeOK
  BY DEF CoreInv, CoreType, BookType, TypeOK, RunStatusUsed, ExecutionStatus
<1> QED BY <1>1, InitBook, NextBook, CoreInvariant, PTL DEF Spec

-----------------------------------------------------------------------------
(* Steps.                                                                  *)

\* No step takes a run or a task along an edge that states.js does not have.
THEOREM TransitionsLegal == Spec => LegalTransitions
<1> DEFINE
     RunMove == execStatus' # execStatus =>
       LegalMove(ExecutionTransitions, {<<"PAUSED", "RUNNING", "COMPLETED">>},
                 execStatus, execStatus')
     TaskMove == \A t \in Task : status'[t] # status[t] =>
       LegalMove(TaskTransitions,
                 {<<"RETRYING", "QUEUED", "RUNNING">>,
                  <<"RUNNING", "FAILED", "DEAD_LETTER">>},
                 status[t], status'[t])
<1>1. CoreInv /\ CoreNext => RunMove
  <2> SUFFICES ASSUME CoreInv, CoreNext PROVE RunMove
    OBVIOUS
  <2>1. \/ execStatus' = execStatus
        \/ <<execStatus, execStatus'>> \in
             {<<"RUNNING", "COMPLETED">>, <<"RUNNING", "FAILED">>,
              <<"PAUSED", "FAILED">>, <<"RUNNING", "PAUSED">>,
              <<"PAUSED", "RUNNING">>, <<"PAUSED", "COMPLETED">>,
              <<"RUNNING", "CANCELLED">>, <<"PAUSED", "CANCELLED">>}
    BY DEF CoreNext, MovesOne, Moves, AfterTaskSucceeded, TellsChildren,
           AfterTaskFailedForGood, FailsRun, CutOff, TasksIn, PauseExecution,
           ResumeExecution, Promotable, CancelExecution, Withdrawn, LiveRun
  <2> QED BY <2>1 DEF LegalMove, CanTransition, ExecutionTransitions
<1>2. CoreInv /\ CoreNext => TaskMove
  <2> SUFFICES ASSUME CoreInv, CoreNext, NEW t \in Task, status'[t] # status[t]
               PROVE  LegalMove(TaskTransitions,
                        {<<"RETRYING", "QUEUED", "RUNNING">>,
                         <<"RUNNING", "FAILED", "DEAD_LETTER">>},
                        status[t], status'[t])
    OBVIOUS
  <2>1. \/ <<status[t], status'[t]>> \in
             {<<"READY", "QUEUED">>, <<"QUEUED", "RUNNING">>,
              <<"RETRYING", "RUNNING">>, <<"RUNNING", "RETRYING">>,
              <<"RUNNING", "WAITING_FOR_APPROVAL">>, <<"PENDING", "READY">>}
        \/ status[t] \in Ending /\ status'[t] \in {"COMPLETED", "FAILED"}
        \/ status[t] = "RUNNING" /\ status'[t] = "DEAD_LETTER"
        \/ status[t] \in Unfinished /\ status'[t] = "CANCELLED"
    <3>1. CASE UNCHANGED <<execStatus, pendingTasks, status, remainingDeps>>
      BY <3>1
    <3>2. CASE \E c \in Task : MovesOne(c)
      BY <3>2 DEF MovesOne, Moves, CoreInv, CoreType
    <3>3. CASE \E c \in Task : status[c] \in Ending /\ AfterTaskSucceeded(c)
      BY <3>3 DEF AfterTaskSucceeded, TellsChildren
    <3>4. CASE \E c \in Task, outcome \in BadOutcome :
                 /\ status[c] \in Ending
                 /\ outcome = "DEAD_LETTER" => status[c] = "RUNNING"
                 /\ AfterTaskFailedForGood(c, outcome)
      BY <3>4 DEF AfterTaskFailedForGood, FailsRun, CutOff, TasksIn,
                  BadOutcome, Unfinished, CoreInv, CoreType
    <3>5. CASE PauseExecution \/ ResumeExecution \/ CancelExecution
      BY <3>5 DEF PauseExecution, ResumeExecution, Promotable, TasksIn,
                  CancelExecution, Withdrawn
    <3> QED BY <3>1, <3>2, <3>3, <3>4, <3>5 DEF CoreNext
  <2> QED BY <2>1 DEF LegalMove, CanTransition, TaskTransitions, Ending,
                      Unfinished, Unstarted
<1>3. CoreInv /\ [Next]_vars => RunMove /\ TaskMove
  BY <1>1, <1>2, CoreStep
<1> QED BY <1>3, CoreInvariant, PTL DEF Spec, LegalTransitions

-----------------------------------------------------------------------------
(* What the run promises.                                                  *)

Out  == IF execStatus \in LiveRun THEN "open" ELSE execStatus
Done == TasksIn({"COMPLETED"})
Lost == TasksIn({"FAILED", "DEAD_LETTER", "CANCELLED"})

\* What is neither done nor lost is unfinished.
LEMMA LeftIsUnfinished ==
  ASSUME CoreType
  PROVE  Task \ (Done \cup Lost) = TasksIn(Unfinished)
BY DEF CoreType, Done, Lost, TasksIn, Unfinished, Unstarted, TaskStatus

\* A step of the core is a step of DagRun or cannot be told.
LEMMA CoreRefines ==
  ASSUME CoreInv, CoreInv', CoreNext
  PROVE  [Run!Next]_<<Out, Done, Lost>>
<1> DEFINE Left == Task \ (Done \cup Lost)
<1>0. CoreType /\ Left = TasksIn(Unfinished)
  BY LeftIsUnfinished DEF CoreInv
<1>1. CASE UNCHANGED <<execStatus, pendingTasks, status, remainingDeps>>
  BY <1>1 DEF Out, Done, Lost, TasksIn
<1>2. ASSUME NEW t \in Task, MovesOne(t) PROVE UNCHANGED <<Out, Done, Lost>>
  <2>1. \A c \in Task : c # t => status'[c] = status[c]
    BY <1>0, <1>2 DEF MovesOne, Moves, CoreType
  <2>2. {status[t], status'[t]} \cap {"COMPLETED", "FAILED", "DEAD_LETTER", "CANCELLED"} = {}
    BY <1>0, <1>2 DEF MovesOne, Moves, CoreType
  <2> QED BY <1>2, <2>1, <2>2 DEF MovesOne, Moves, Out, Done, Lost, TasksIn
<1>3. ASSUME NEW t \in Task, status[t] \in Ending, AfterTaskSucceeded(t)
      PROVE  Run!Next
  <2>1. \A c \in Task : \/ c = t /\ status'[c] = "COMPLETED"
                        \/ c # t /\ status'[c] = status[c]
                        \/ c # t /\ status[c] = "PENDING" /\ status'[c] = "READY"
    BY <1>3 DEF AfterTaskSucceeded
  <2>2. Done' = Done \cup {t} /\ Lost' = Lost
    BY <1>3, <2>1 DEF Done, Lost, TasksIn, Ending
  <2>3. t \in Left /\ DependsOn[t] \subseteq Done
    BY <1>0, <1>3, DagAssumption
       DEF CoreInv, DepsRespected, Done, TasksIn, Ending, Unfinished
  <2>4. Out \in {"open", "FAILED"}
    BY <1>0, <1>3 DEF CoreInv, CoreType, RunOutcomeSound, RunStatusUsed, LiveRun, Out,
                      TasksIn, Ending, Unfinished
  <2>5. \/ Out' = Out
        \/ Out = "open" /\ Done' = Task /\ Out' = "COMPLETED"
    BY <1>3 DEF AfterTaskSucceeded, CoreInv, RunOutcomeSound, Out, Done, LiveRun
  <2> QED BY <2>2, <2>3, <2>4, <2>5 DEF Run!Next, Run!Finish, Run!Left, Out, Done, Lost
<1>4. ASSUME NEW t \in Task, NEW end \in BadOutcome, status[t] \in Ending,
             AfterTaskFailedForGood(t, end)
      PROVE  Run!Next
  <2>1. t \in Left /\ DependsOn[t] \subseteq Done
    BY <1>0, <1>4, DagAssumption
       DEF CoreInv, DepsRespected, Done, TasksIn, Ending, Unfinished
  <2>2. CASE FailsRun
    <3>1. \A c \in Task : status'[c] = IF c = t THEN end
                                       ELSE IF c \in CutOff(t) THEN "CANCELLED"
                                       ELSE status[c]
      BY <1>4, <2>2 DEF AfterTaskFailedForGood
    <3>2. CutOff(t) \in SUBSET Left /\ \A c \in CutOff(t) : status[c] # "COMPLETED"
      BY <1>0 DEF CutOff, TasksIn, Unfinished, Unstarted
    <3>3. Done' = Done
      BY <1>4, <3>1, <3>2 DEF Done, TasksIn, Ending, BadOutcome
    <3>4. Lost' = Lost \cup {t} \cup CutOff(t)
      BY <3>1, <3>2 DEF Lost, TasksIn, BadOutcome, CutOff
    <3>5. Out = "open" /\ Out' = "FAILED"
      BY <1>4, <2>2 DEF AfterTaskFailedForGood, FailsRun, Out, LiveRun
    <3> QED BY <2>1, <3>2, <3>3, <3>4, <3>5
            DEF Run!Next, Run!Fail, Run!Left, Out, Done, Lost
  <2>3. CASE ~FailsRun
    <3>1. \A c \in Task : status'[c] = IF c = t THEN end ELSE status[c]
      BY <1>0, <1>4, <2>3 DEF AfterTaskFailedForGood, CoreType
    <3>2. Done' = Done /\ Lost' = Lost \cup {t}
      BY <1>4, <3>1 DEF Done, Lost, TasksIn, Ending, BadOutcome
    <3>3. Out = "FAILED" /\ Out' = "FAILED"
      BY <1>0, <1>4, <2>3
         DEF CoreInv, CoreType, RunOutcomeSound, RunStatusUsed, LiveRun, Out, TasksIn,
             Ending, Unfinished, FailsRun, AfterTaskFailedForGood
    <3> QED BY <2>1, <3>2, <3>3 DEF Run!Next, Run!Lose, Run!Left, Out, Done, Lost
  <2> QED BY <2>2, <2>3
<1>5. CASE PauseExecution
  BY <1>5 DEF PauseExecution, Out, Done, Lost, TasksIn, LiveRun
<1>6. CASE ResumeExecution
  <2>1. \A c \in Task : \/ status'[c] = status[c]
                        \/ status[c] = "PENDING" /\ status'[c] = "READY"
    BY <1>6 DEF ResumeExecution, Promotable, TasksIn
  <2>2. Done' = Done /\ Lost' = Lost
    BY <2>1 DEF Done, Lost, TasksIn
  <2>3. CASE execStatus' = "RUNNING"
    BY <1>6, <2>2, <2>3 DEF ResumeExecution, Out, LiveRun
  <2>4. CASE execStatus' = "COMPLETED"
    <3>1. Out = "open" /\ Out' = "COMPLETED"
      BY <1>6, <2>4 DEF ResumeExecution, Out, LiveRun
    <3>2. Done = Task
      BY <2>2, <2>4 DEF CoreInv, RunOutcomeSound, Done
    <3> QED BY <2>2, <3>1, <3>2 DEF Run!Next, Run!Close, Out, Done, Lost
  <2> QED BY <1>6, <2>3, <2>4 DEF ResumeExecution
<1>7. CASE CancelExecution
  <2>1. \A c \in Task : status'[c] = IF status[c] \in Unfinished THEN "CANCELLED"
                                     ELSE status[c]
    BY <1>7 DEF CancelExecution
  <2>2. Done' = Done /\ Lost' = Lost \cup Left
    BY <1>0, <2>1 DEF Done, Lost, TasksIn, Unfinished, Unstarted
  <2>3. Out = "open" /\ Out' = "CANCELLED"
    BY <1>7 DEF CancelExecution, Out, LiveRun
  <2> QED BY <2>2, <2>3 DEF Run!Next, Run!Cancel, Run!Left, Out, Done, Lost
<1> QED BY <1>1, <1>2, <1>3, <1>4, <1>5, <1>6, <1>7 DEF CoreNext

\* The engine implements the promise of a run, for every graph: every task is
\* done at most once and after its dependencies, the run ends once, truly.
THEOREM EngineImplementsDagRun == Spec => ImplementsDagRun
<1>1. Init => Run!Init
  BY DEF Init, Run!Init, LiveRun, TasksIn
<1>2. CoreInv /\ CoreInv' /\ [Next]_vars => [Run!Next]_Run!runVars
  BY CoreStep, CoreRefines DEF Run!runVars, Out, Done, Lost
<1> QED BY <1>1, <1>2, CoreInvariant, PTL DEF Spec, ImplementsDagRun, Run!Spec

-----------------------------------------------------------------------------
(* The attempt records and the approval requests of a run agree with its   *)
(* tasks, for every workflow and any number of claims.                     *)
(*                                                                         *)
(* HistoryMatchesTask and ApprovalMatchesTask become inductive together    *)
(* with where each claim is: claims are numbered without gaps, a claim     *)
(* writes its record only from "recorded" on, and a record that exists and *)
(* was not reported is RUNNING or ABANDONED.                               *)

Outcome == {"SUCCEEDED", "FAILED", "TIMED_OUT", "SUSPENDED"}

ApprovalHist(t) ==
  /\ approval[t] = "PENDING" <=> status[t] = "WAITING_FOR_APPROVAL"
  /\ approval[t] = "APPROVED" => status[t] = "COMPLETED"
  /\ approval[t] \in {"REJECTED", "EXPIRED"} => status[t] = "FAILED"
  /\ approval[t] = "CANCELLED" =>
       status[t] = "CANCELLED" /\ execStatus = "CANCELLED"

AttemptHist(t, k) ==
  /\ stage[t][k] = "reported" <=> attemptRow[t][k] \in Outcome
  /\ attemptRow[t][k] = "SUCCEEDED" <=>
       status[t] = "COMPLETED" /\ approval[t] = "none" /\ k = attempt[t]
  /\ attemptRow[t][k] = "SUSPENDED" <=>
       approval[t] # "none" /\ k = attempt[t]
  /\ attemptRow[t][k] = "ABANDONED" => k < attempt[t]
  /\ stage[t][k] = "none" <=> k > attempt[t]
  /\ stage[t][k] \in {"none", "claimed", "closed"} => attemptRow[t][k] = "none"
  /\ stage[t][k] \in {"recorded", "started"} =>
       attemptRow[t][k] \in {"RUNNING", "ABANDONED"}

TaskHist(t) == ApprovalHist(t) /\ \A k \in Attempt : AttemptHist(t, k)

HistInv == \A t \in Task : TaskHist(t)

\* The books of task c are not written, and its status at most goes from an
\* unstarted one to READY, CANCELLED or another unfinished one.
BooksKept(c) ==
  /\ stage'[c] = stage[c] /\ attemptRow'[c] = attemptRow[c]
  /\ approval'[c] = approval[c] /\ attempt'[c] = attempt[c]
  /\ execStatus = "CANCELLED" => execStatus' = "CANCELLED"
  /\ \/ status'[c] = status[c]
     \/ /\ status[c] \in Unstarted
        /\ status'[c] \in Unstarted \cup {"RUNNING", "CANCELLED"}

\* A task whose documents a step leaves alone keeps its part of HistInv.
LEMMA KeptHist ==
  ASSUME NEW c \in Task, TaskHist(c), BooksKept(c), BookType
  PROVE  TaskHist(c)'
<1>1. status[c] \in Unstarted => approval[c] = "none"
  BY DEF TaskHist, ApprovalHist, Unstarted, BookType, ApprovalStatus
<1>2. ApprovalHist(c)'
  BY <1>1 DEF TaskHist, ApprovalHist, BooksKept, Unstarted
<1>3. ASSUME NEW k \in Attempt PROVE AttemptHist(c, k)'
  BY <1>1, <1>3 DEF TaskHist, AttemptHist, BooksKept, Unstarted
<1> QED BY <1>2, <1>3 DEF TaskHist

\* A step of one task that keeps the books of all the others.
LEMMA OneTaskHist ==
  ASSUME HistInv, BookType, NEW t \in Task, TaskHist(t)',
         \A c \in Task \ {t} : BooksKept(c)
  PROVE  HistInv'
  BY KeptHist DEF HistInv

\* A step that leaves every document HistInv reads alone keeps HistInv.
LEMMA AllKeptHist ==
  ASSUME HistInv, BookType, \A c \in Task : BooksKept(c)
  PROVE  HistInv'
  BY KeptHist DEF HistInv

\* startExecution creates tasks without attempts, records or requests.
LEMMA InitHist == Init => HistInv
<1> SUFFICES ASSUME Init, NEW t \in Task PROVE TaskHist(t)
  BY DEF HistInv
<1>1. ApprovalHist(t)
  BY DEF Init, ApprovalHist
<1>2. ASSUME NEW k \in Attempt PROVE AttemptHist(t, k)
  BY <1>2, SettingsAssumption DEF Init, AttemptHist, Attempt, Outcome
<1> QED BY <1>1, <1>2 DEF TaskHist

-----------------------------------------------------------------------------
(* Steps that write no books.                                              *)

\* dispatchReady and dispatchTask touch no attempt and no request.
LEMMA DispatchHist == HistInv /\ BookType /\ CoreType /\ Dispatch => HistInv'
<1> SUFFICES ASSUME HistInv, BookType, CoreType, Dispatch PROVE HistInv'
  OBVIOUS
<1>1. \A c \in Task : BooksKept(c)
  BY DEF Dispatch, DispatchRead, DispatchTask, WinsDispatch, DispatchCrash,
         BooksKept, CoreType, Unstarted
<1> QED BY <1>1, AllKeptHist

\* Renewing a lease, or its expiry, touches no attempt and no request.
LEMMA KeepLeaseHist == HistInv /\ BookType /\ KeepLease => HistInv'
<1> SUFFICES ASSUME HistInv, BookType, KeepLease PROVE HistInv'
  OBVIOUS
<1>1. \A c \in Task : BooksKept(c)
  BY DEF KeepLease, ExpireLease, RenewLease, BooksKept
<1> QED BY <1>1, AllKeptHist

\* pauseExecution and resumeExecution move no task that has an attempt running.
LEMMA PauseResumeHist ==
  HistInv /\ BookType /\ (PauseExecution \/ ResumeExecution) => HistInv'
<1> SUFFICES ASSUME HistInv, BookType, PauseExecution \/ ResumeExecution
             PROVE  HistInv'
  OBVIOUS
<1>1. \A c \in Task : BooksKept(c)
  BY DEF PauseExecution, ResumeExecution, Promotable, TasksIn, BooksKept,
         Unstarted
<1> QED BY <1>1, AllKeptHist

-----------------------------------------------------------------------------
(* Starting a task.                                                        *)

\* claimTask opens a new attempt and makes every older one stale.
LEMMA ClaimHist ==
  ASSUME HistInv, BookType, CoreType, NEW t \in Task, ClaimTask(t)
  PROVE  HistInv'
<1>0. TaskHist(t)
  BY DEF HistInv
<1>1. \A c \in Task \ {t} : BooksKept(c)
  BY DEF ClaimTask, Reach, BooksKept, BookType, CoreType
<1>2. /\ attempt[t] \in Nat /\ attempt'[t] = attempt[t] + 1
      /\ approval'[t] = approval[t] /\ attemptRow'[t] = attemptRow[t]
      /\ status'[t] = "RUNNING" /\ execStatus' = execStatus
      /\ status[t] \in {"QUEUED", "RETRYING", "RUNNING"}
  BY DEF ClaimTask, Claimable, BookType, CoreType
<1>3. \A k \in Attempt : stage'[t][k] = IF k = attempt[t] + 1 THEN "claimed"
                                        ELSE stage[t][k]
  BY DEF ClaimTask, Reach, BookType
<1>4. approval[t] = "none"
  BY <1>0, <1>2 DEF TaskHist, ApprovalHist, BookType, ApprovalStatus
<1>5. ApprovalHist(t)'
  BY <1>2, <1>4 DEF ApprovalHist
<1>6. ASSUME NEW k \in Attempt PROVE AttemptHist(t, k)'
  <2>1. AttemptHist(t, k) /\ k \in Nat
    BY <1>0, <1>6 DEF TaskHist, Attempt
  <2> QED BY <2>1, <1>2, <1>3, <1>4 DEF AttemptHist, Outcome
<1> QED BY <1>1, <1>5, <1>6, OneTaskHist DEF TaskHist

\* The steps of startTask: claim, sweep of older records, own record, TASK_STARTED.
LEMMA StartHist ==
  ASSUME HistInv, BookType, CoreType, Start
  PROVE  HistInv'
<1>1. PICK t \in Task :
        \/ ClaimTask(t)
        \/ \E k \in Attempt :
             CloseAbandoned(t, k) \/ CreateAttempt(t, k) \/ EmitStarted(t, k)
  BY DEF Start
<1>2. TaskHist(t)
  BY DEF HistInv
<1>3. ASSUME NEW k \in Attempt,
             CloseAbandoned(t, k) \/ CreateAttempt(t, k) \/ EmitStarted(t, k)
      PROVE  HistInv'
  <2>1. \A c \in Task \ {t} : BooksKept(c)
    BY <1>3 DEF CloseAbandoned, CreateAttempt, EmitStarted, Reach,
                SetAttemptRow, BooksKept, BookType
  <2>2. /\ approval' = approval /\ attempt' = attempt /\ status' = status
        /\ execStatus' = execStatus
    BY <1>3 DEF CloseAbandoned, CreateAttempt, EmitStarted
  <2>3. ApprovalHist(t)'
    BY <1>2, <2>2 DEF TaskHist, ApprovalHist
  <2>4. ASSUME NEW j \in Attempt PROVE AttemptHist(t, j)'
    <3>1. AttemptHist(t, j) /\ AttemptHist(t, k) /\ attempt[t] \in Nat
          /\ j \in Nat /\ k \in Nat
      BY <1>2, <2>4 DEF TaskHist, Attempt, BookType
    <3>2. CASE CloseAbandoned(t, k)
      <4>1. /\ stage'[t][j] = IF j = k THEN "closed" ELSE stage[t][j]
            /\ attemptRow'[t][j] =
                 IF j < k /\ attemptRow[t][j] = "RUNNING" THEN "ABANDONED"
                 ELSE attemptRow[t][j]
            /\ stage[t][k] = "claimed"
        BY <3>2, <2>4 DEF CloseAbandoned, Reach, BookType
      <4> QED BY <4>1, <2>2, <3>1 DEF AttemptHist, Outcome
    <3>3. CASE CreateAttempt(t, k)
      <4>1. /\ stage'[t][j] = IF j = k THEN "recorded" ELSE stage[t][j]
            /\ attemptRow'[t][j] = IF j = k THEN "RUNNING" ELSE attemptRow[t][j]
            /\ stage[t][k] = "closed"
        BY <3>3, <2>4 DEF CreateAttempt, Reach, SetAttemptRow, BookType
      <4> QED BY <4>1, <2>2, <3>1 DEF AttemptHist, Outcome
    <3>4. CASE EmitStarted(t, k)
      <4>1. /\ stage'[t][j] = IF j = k THEN "started" ELSE stage[t][j]
            /\ attemptRow'[t][j] = attemptRow[t][j]
            /\ stage[t][k] = "recorded"
        BY <3>4, <2>4 DEF EmitStarted, Reach, BookType
      <4> QED BY <4>1, <2>2, <3>1 DEF AttemptHist, Outcome
    <3> QED BY <1>3, <3>2, <3>3, <3>4
  <2> QED BY <2>1, <2>3, <2>4, OneTaskHist DEF TaskHist
<1> QED BY <1>1, <1>3, ClaimHist

-----------------------------------------------------------------------------
(* Reports.                                                                *)

\* The books after an accepted report: the attempt gets the outcome `row`,
\* the task the status that goes with it.
Reported(t, k, row) ==
  /\ Fenced(t, k)
  /\ Reach(t, k, "reported")
  /\ SetAttemptRow(t, attempt[t], row)
  /\ attempt' = attempt
  /\ row = "SUCCEEDED" <=> status'[t] = "COMPLETED"
  /\ row = "SUSPENDED" <=> status'[t] = "WAITING_FOR_APPROVAL"
  /\ approval' = IF row = "SUSPENDED" THEN [approval EXCEPT ![t] = "PENDING"]
                                      ELSE approval

\* An accepted report keeps the books of its task consistent.
LEMMA ReportedHist ==
  ASSUME HistInv, BookType, NEW t \in Task, NEW k \in Attempt,
         NEW row \in Outcome, Reported(t, k, row)
  PROVE  /\ TaskHist(t)'
         /\ \A c \in Task \ {t} :
              /\ stage'[c] = stage[c] /\ attemptRow'[c] = attemptRow[c]
              /\ approval'[c] = approval[c] /\ attempt'[c] = attempt[c]
<1>0. TaskHist(t)
  BY DEF HistInv
<1>1. approval[t] = "none" /\ attempt[t] = k /\ k \in Nat
  BY <1>0 DEF Reported, Fenced, TaskHist, ApprovalHist, BookType,
              ApprovalStatus, Attempt
<1>2. approval'[t] = IF row = "SUSPENDED" THEN "PENDING" ELSE "none"
  BY <1>1 DEF Reported, BookType
<1>3. ApprovalHist(t)'
  BY <1>2 DEF Reported, ApprovalHist
<1>4. ASSUME NEW j \in Attempt PROVE AttemptHist(t, j)'
  <2>1. AttemptHist(t, j) /\ j \in Nat
    BY <1>0, <1>4 DEF TaskHist, Attempt
  <2>2. /\ stage'[t][j] = IF j = k THEN "reported" ELSE stage[t][j]
        /\ attemptRow'[t][j] = IF j = k THEN row ELSE attemptRow[t][j]
        /\ attempt'[t] = k
    BY <1>1, <1>4 DEF Reported, Reach, SetAttemptRow, BookType
  <2> QED BY <1>1, <1>2, <2>1, <2>2 DEF AttemptHist, Outcome, Reported
<1>5. \A c \in Task \ {t} :
        /\ stage'[c] = stage[c] /\ attemptRow'[c] = attemptRow[c]
        /\ approval'[c] = approval[c] /\ attempt'[c] = attempt[c]
  BY DEF Reported, Reach, SetAttemptRow, BookType
<1> QED BY <1>3, <1>4, <1>5 DEF TaskHist

\* What follows the end of a task changes other tasks' statuses as BooksKept
\* allows, and never un-cancels a run.
LEMMA AftermathKept ==
  ASSUME NEW t \in Task, NEW outcome, CoreType,
         AfterTaskSucceeded(t) \/ AfterTaskFailedForGood(t, outcome)
  PROVE  /\ execStatus = "CANCELLED" => execStatus' = "CANCELLED"
         /\ \A c \in Task \ {t} :
              \/ status'[c] = status[c]
              \/ /\ status[c] \in Unstarted
                 /\ status'[c] \in Unstarted \cup {"RUNNING", "CANCELLED"}
  BY DEF AfterTaskSucceeded, TellsChildren, AfterTaskFailedForGood, FailsRun,
         CutOff, TasksIn, CoreType, Unstarted, LiveRun

\* completeTask, failTask and suspendForApproval close the record of the attempt that reports.
LEMMA ReportHist ==
  ASSUME HistInv, BookType, CoreType, Report
  PROVE  HistInv'
<1>1. PICK t \in Task, k \in Attempt :
        \/ CompleteTask(t, k)
        \/ SuspendForApproval(t, k)
        \/ FailTaskDecideRetry(t, k)
        \/ \E error \in HandlerError :
             FailTaskCommitRetry(t, k, error) \/ FailTaskForGood(t, k, error)
  BY DEF Report
<1>2. ASSUME NEW row \in Outcome, Reported(t, k, row),
             execStatus = "CANCELLED" => execStatus' = "CANCELLED",
             \A c \in Task \ {t} :
               \/ status'[c] = status[c]
               \/ /\ status[c] \in Unstarted
                  /\ status'[c] \in Unstarted \cup {"RUNNING", "CANCELLED"}
      PROVE  HistInv'
  <2>1. TaskHist(t)' /\ \A c \in Task \ {t} : BooksKept(c)
    BY <1>2, ReportedHist DEF BooksKept
  <2> QED BY <2>1, OneTaskHist
<1>3. CASE CompleteTask(t, k)
  <2>1. Reported(t, k, "SUCCEEDED")
    BY <1>3 DEF CompleteTask, Reported, AfterTaskSucceeded, TellsChildren
  <2> QED BY <1>2, <1>3, <2>1, AftermathKept DEF CompleteTask, Outcome
<1>4. CASE SuspendForApproval(t, k)
  <2>1. Reported(t, k, "SUSPENDED")
    BY <1>4 DEF SuspendForApproval, Reported, CoreType
  <2>2. execStatus' = execStatus /\ \A c \in Task \ {t} : status'[c] = status[c]
    BY <1>4 DEF SuspendForApproval, CoreType
  <2> QED BY <1>2, <2>1, <2>2 DEF Outcome
<1>5. CASE FailTaskDecideRetry(t, k)
  <2>1. \A c \in Task : BooksKept(c)
    BY <1>5 DEF FailTaskDecideRetry, BooksKept
  <2> QED BY <2>1, AllKeptHist
<1>6. ASSUME NEW error \in HandlerError, FailTaskCommitRetry(t, k, error)
      PROVE  HistInv'
  <2>1. Reported(t, k, FailedRow(error))
    BY <1>6 DEF FailTaskCommitRetry, Reported, CoreType, FailedRow
  <2>2. execStatus' = execStatus /\ \A c \in Task \ {t} : status'[c] = status[c]
    BY <1>6 DEF FailTaskCommitRetry, CoreType
  <2> QED BY <1>2, <2>1, <2>2 DEF Outcome, FailedRow
<1>7. ASSUME NEW error \in HandlerError, FailTaskForGood(t, k, error)
      PROVE  HistInv'
  <2>1. PICK outcome \in BadOutcome : AfterTaskFailedForGood(t, outcome)
    BY <1>7 DEF FailTaskForGood, BadOutcome
  <2>2. status'[t] = outcome
    BY <2>1 DEF AfterTaskFailedForGood, FailsRun, CutOff, TasksIn, CoreType
  <2>3. Reported(t, k, FailedRow(error))
    BY <1>7, <2>2 DEF FailTaskForGood, Reported, BadOutcome, FailedRow
  <2>4. FailedRow(error) \in Outcome
    BY DEF FailedRow, Outcome
  <2> QED BY <1>2, <2>1, <2>3, <2>4, AftermathKept
<1> QED BY <1>1, <1>3, <1>4, <1>5, <1>6, <1>7

-----------------------------------------------------------------------------
(* Decisions and cancellation.                                             *)

\* resolveApproval answers the request and releases its task together.
LEMMA DecideHist ==
  ASSUME HistInv, BookType, CoreType, Decide
  PROVE  HistInv'
<1>1. PICK t \in Task, decision \in {"APPROVED", "REJECTED", "EXPIRED"} :
        ResolveApproval(t, decision)
  BY DEF Decide
<1>2. AfterTaskSucceeded(t) \/ AfterTaskFailedForGood(t, "FAILED")
  BY <1>1 DEF ResolveApproval, AwaitsDecision
<1>3. \A c \in Task \ {t} : BooksKept(c)
  BY <1>1, <1>2, AftermathKept DEF ResolveApproval, AwaitsDecision, BooksKept,
                                   BookType
<1>4. TaskHist(t)
  BY DEF HistInv
<1>5. /\ approval[t] = "PENDING" /\ approval'[t] = decision
      /\ status'[t] = IF decision = "APPROVED" THEN "COMPLETED" ELSE "FAILED"
      /\ status[t] = "WAITING_FOR_APPROVAL"
      /\ attempt' = attempt /\ stage' = stage /\ attemptRow' = attemptRow
  BY <1>1 DEF ResolveApproval, AwaitsDecision, AfterTaskSucceeded,
              TellsChildren, AfterTaskFailedForGood, FailsRun, CutOff, TasksIn,
              BookType, CoreType
<1>6. ApprovalHist(t)'
  BY <1>5 DEF ApprovalHist
<1>7. ASSUME NEW k \in Attempt PROVE AttemptHist(t, k)'
  BY <1>4, <1>5, <1>7 DEF TaskHist, AttemptHist
<1> QED BY <1>3, <1>6, <1>7, OneTaskHist DEF TaskHist

\* cancelExecution withdraws the requests of the tasks it cancels.
LEMMA CancelHist ==
  ASSUME HistInv, BookType, CoreType, CancelExecution
  PROVE  HistInv'
<1> SUFFICES ASSUME NEW t \in Task PROVE TaskHist(t)'
  BY DEF HistInv
<1>1. TaskHist(t)
  BY DEF HistInv
<1>2. /\ attempt' = attempt /\ stage' = stage /\ attemptRow' = attemptRow
      /\ execStatus \in LiveRun /\ execStatus' = "CANCELLED"
      /\ approval'[t] = IF approval[t] = "PENDING" THEN "CANCELLED"
                                                   ELSE approval[t]
      /\ status'[t] = IF status[t] \in Unfinished THEN "CANCELLED"
                                                  ELSE status[t]
  BY DEF CancelExecution, Withdrawn
<1>3. ApprovalHist(t)'
  BY <1>1, <1>2 DEF TaskHist, ApprovalHist, Unfinished, Unstarted, LiveRun
<1>4. ASSUME NEW k \in Attempt PROVE AttemptHist(t, k)'
  BY <1>1, <1>2, <1>4 DEF TaskHist, AttemptHist, Unfinished, Unstarted
<1> QED BY <1>3, <1>4 DEF TaskHist

-----------------------------------------------------------------------------

\* Every step of the engine keeps HistInv.
LEMMA NextHist == HistInv /\ BookType /\ CoreType /\ [Next]_vars => HistInv'
<1>1. HistInv /\ BookType /\ UNCHANGED vars => HistInv'
  BY AllKeptHist DEF BooksKept, vars
<1> QED BY <1>1, DispatchHist, StartHist, KeepLeaseHist, ReportHist, DecideHist,
           PauseResumeHist, CancelHist DEF Next

\* The inductive invariant of attempt records and approval requests.
THEOREM HistInvariant == Spec => []HistInv
<1>1. CoreInv => CoreType
  BY DEF CoreInv
<1> QED BY <1>1, InitHist, NextHist, InitBook, NextBook, CoreInvariant, PTL
        DEF Spec

\* An attempt carries an outcome exactly when its worker was told "applied",
\* and the outcome fits the task, with any number of takeovers and late
\* reports (claimTask, completeTask, failTask, suspendForApproval).
THEOREM HistoryCorrect == Spec => []HistoryMatchesTask
<1>1. HistInv => HistoryMatchesTask
  BY DEF HistInv, TaskHist, AttemptHist, HistoryMatchesTask, Outcome
<1> QED BY <1>1, HistInvariant, PTL

\* A decision, a timeout, a cancellation and the failure of another task may
\* race for an approval request: whichever wins, the request and its task
\* agree (resolveApproval, cancelExecution).
THEOREM ApprovalsCorrect == Spec => []ApprovalMatchesTask
<1>1. HistInv => ApprovalMatchesTask
  BY DEF HistInv, TaskHist, ApprovalHist, ApprovalMatchesTask
<1> QED BY <1>1, HistInvariant, PTL

-----------------------------------------------------------------------------
(* The transactional outbox.                                               *)
(*                                                                         *)
(* The events of a task count its attempt records, so OutboxMatchesState   *)
(* becomes inductive with HistInv and one more fact: the current attempt   *)
(* of a RUNNING task has no outcome yet, which is why a report that is     *)
(* applied adds an outcome instead of writing over one.                    *)

\* The attempts of t that failed.
FailedRows(t) == {k \in Attempt : attemptRow[t][k] \in {"FAILED", "TIMED_OUT"}}

RunBox ==
  /\ runEvents["completed"] = Indicator(execStatus = "COMPLETED")
  /\ runEvents["failed"] = Indicator(execStatus = "FAILED")
  /\ runEvents["cancelled"] = Indicator(execStatus = "CANCELLED")
  /\ runEvents["paused"] - runEvents["resumed"] \in {0, 1}
  /\ execStatus \in {"RUNNING", "COMPLETED"} => runEvents["paused"] = runEvents["resumed"]
  /\ execStatus = "PAUSED" => runEvents["paused"] = runEvents["resumed"] + 1

TaskBox(t) ==
  /\ taskEvents[t]["completed"] = Indicator(status[t] = "COMPLETED")
  /\ taskEvents[t]["failed"] = Indicator(status[t] = "FAILED")
  /\ taskEvents[t]["dead_lettered"] = Indicator(status[t] = "DEAD_LETTER")
  /\ taskEvents[t]["requested"] = Indicator(approval[t] # "none")
  /\ \A d \in {"APPROVED", "REJECTED", "EXPIRED"} :
       taskEvents[t][d] = Indicator(approval[t] = d)
  /\ taskEvents[t]["retrying"] =
       Cardinality(FailedRows(t))
         - Indicator(status[t] \in BadOutcome /\ approval[t] = "none")

OpenClaim(t) ==
  status[t] = "RUNNING" =>
    \A k \in Attempt : k = attempt[t] => attemptRow[t][k] \notin Outcome

OutboxInv == RunBox /\ \A t \in Task : TaskBox(t) /\ OpenClaim(t)

-----------------------------------------------------------------------------
(* The current attempt of a RUNNING task.                                  *)

\* A task is RUNNING after a step because it was claimed, or because it was
\* RUNNING and nobody closed the record of its attempt.
LEMMA NextOpen ==
  ASSUME HistInv, BookType, CoreType, \A c \in Task : OpenClaim(c), [Next]_vars,
         NEW c \in Task
  PROVE  OpenClaim(c)'
<1> SUFFICES ASSUME status'[c] = "RUNNING", NEW k \in Attempt, k = attempt'[c]
             PROVE  attemptRow'[c][k] \notin Outcome
  BY DEF OpenClaim
<1>0. OpenClaim(c) /\ AttemptHist(c, k) /\ k \in Nat /\ attempt[c] \in Nat
  BY DEF HistInv, TaskHist, Attempt, BookType
<1>1. ASSUME NEW t \in Task, ClaimTask(t) PROVE attemptRow'[c][k] \notin Outcome
  <2>1. CASE c = t
    <3>1. attempt'[c] = attempt[c] + 1 /\ attemptRow' = attemptRow
      BY <1>1, <2>1 DEF ClaimTask, BookType
    <3>2. k > attempt[c]
      BY <1>0, <3>1
    <3> QED BY <1>0, <3>1, <3>2 DEF AttemptHist, Outcome
  <2>2. CASE c # t
    <3>1. status[c] = "RUNNING" /\ attempt[c] = k /\ attemptRow' = attemptRow
      BY <1>1, <2>2 DEF ClaimTask, BookType, CoreType
    <3> QED BY <1>0, <3>1 DEF OpenClaim
  <2> QED BY <2>1, <2>2
<1>2. ASSUME status[c] = "RUNNING", attempt[c] = k,
             attemptRow'[c][k] \in {attemptRow[c][k], "RUNNING", "ABANDONED"}
      PROVE  attemptRow'[c][k] \notin Outcome
  BY <1>0, <1>2 DEF OpenClaim, Outcome
<1>3. CASE Dispatch \/ KeepLease \/ PauseExecution \/ ResumeExecution \/ UNCHANGED vars
  <2>1. status[c] = "RUNNING" /\ attempt' = attempt /\ attemptRow' = attemptRow
    BY <1>3 DEF Dispatch, DispatchRead, DispatchTask, DispatchCrash, WinsDispatch, KeepLease,
                ExpireLease, RenewLease, PauseExecution, ResumeExecution, Promotable,
                TasksIn, vars, CoreType
  <2> QED BY <1>2, <2>1
<1>4. CASE CancelExecution
  <2>1. status[c] = "RUNNING" /\ attempt' = attempt /\ attemptRow' = attemptRow
    BY <1>4 DEF CancelExecution, Unfinished, Unstarted
  <2> QED BY <1>2, <2>1
<1>5. ASSUME NEW t \in Task, NEW j \in Attempt,
             CloseAbandoned(t, j) \/ CreateAttempt(t, j) \/ EmitStarted(t, j)
      PROVE  attemptRow'[c][k] \notin Outcome
  <2>1. status' = status /\ attempt' = attempt
    BY <1>5 DEF CloseAbandoned, CreateAttempt, EmitStarted
  <2>2. attemptRow'[c][k] \in {attemptRow[c][k], "RUNNING", "ABANDONED"}
    BY <1>5 DEF CloseAbandoned, CreateAttempt, EmitStarted, SetAttemptRow, BookType
  <2> QED BY <1>2, <2>1, <2>2
<1>6. CASE Report
  <2>1. PICK t \in Task, j \in Attempt :
          \/ CompleteTask(t, j)
          \/ SuspendForApproval(t, j)
          \/ FailTaskDecideRetry(t, j)
          \/ \E error \in HandlerError :
               FailTaskCommitRetry(t, j, error) \/ FailTaskForGood(t, j, error)
    BY <1>6 DEF Report
  <2>2. attempt' = attempt
    BY <2>1 DEF CompleteTask, SuspendForApproval, FailTaskDecideRetry,
                FailTaskCommitRetry, FailTaskForGood
  <2>3. CASE c = t /\ attemptRow' # attemptRow
    <3>1. status'[t] # "RUNNING"
      BY <2>1, <2>3 DEF CompleteTask, SuspendForApproval, FailTaskDecideRetry,
           FailTaskCommitRetry, FailTaskForGood, AfterTaskSucceeded,
           AfterTaskFailedForGood, CoreType
    <3> QED BY <2>3, <3>1
  <2>4. CASE c # t \/ attemptRow' = attemptRow
    <3>1. attemptRow'[c] = attemptRow[c]
      BY <2>1, <2>4 DEF CompleteTask, SuspendForApproval, FailTaskDecideRetry,
           FailTaskCommitRetry, FailTaskForGood, SetAttemptRow, BookType
    <3>2. status[c] = "RUNNING"
      <4>1. CASE c = t
        BY <2>1, <4>1 DEF CompleteTask, SuspendForApproval, FailTaskDecideRetry,
             FailTaskCommitRetry, FailTaskForGood, Fenced
      <4>2. CASE c # t
        BY <2>1, <4>2 DEF CompleteTask, SuspendForApproval, FailTaskDecideRetry,
             FailTaskCommitRetry, FailTaskForGood, AfterTaskSucceeded,
             AfterTaskFailedForGood, CoreType
      <4> QED BY <4>1, <4>2
    <3> QED BY <1>2, <2>2, <3>1, <3>2
  <2> QED BY <2>3, <2>4
<1>7. CASE Decide
  <2>1. status[c] = "RUNNING" /\ attempt' = attempt /\ attemptRow' = attemptRow
    BY <1>7 DEF Decide, ResolveApproval, AfterTaskSucceeded, AfterTaskFailedForGood, CoreType
  <2> QED BY <1>2, <2>1
<1>8. CASE Start
  BY <1>1, <1>5, <1>8 DEF Start
<1> QED BY <1>3, <1>4, <1>6, <1>7, <1>8 DEF Next

-----------------------------------------------------------------------------
(* The events of a task.                                                   *)

\* A step adds to the events of c exactly the ones of E, each once.
Emits(c, E) ==
  \A e \in TaskEvent : taskEvents'[c][e] = taskEvents[c][e] + Indicator(e \in E)

\* The three ways in which the engine writes to the outbox of the tasks.
LEMMA EmitsRight ==
  ASSUME BookType, NEW t \in Task
  PROVE  /\ \A e \in TaskEvent : EmitTask(t, e) =>
              Emits(t, {e}) /\ \A c \in Task \ {t} : Emits(c, {})
         /\ \A e, f \in TaskEvent : e # f /\ EmitTwice(t, e, f) =>
              Emits(t, {e, f}) /\ \A c \in Task \ {t} : Emits(c, {})
         /\ UNCHANGED taskEvents => \A c \in Task : Emits(c, {})
<1>0. \A c \in Task, e \in TaskEvent : taskEvents[c][e] \in Nat
  BY DEF BookType
<1>1. ASSUME NEW e \in TaskEvent, EmitTask(t, e)
      PROVE  Emits(t, {e}) /\ \A c \in Task \ {t} : Emits(c, {})
  BY <1>0, <1>1 DEF EmitTask, Emits, Indicator, BookType
<1>2. ASSUME NEW e \in TaskEvent, NEW f \in TaskEvent, e # f, EmitTwice(t, e, f)
      PROVE  Emits(t, {e, f}) /\ \A c \in Task \ {t} : Emits(c, {})
  BY <1>0, <1>2 DEF EmitTwice, Emits, Indicator, BookType
<1>3. UNCHANGED taskEvents => \A c \in Task : Emits(c, {})
  BY <1>0 DEF Emits, Indicator
<1> QED BY <1>1, <1>2, <1>3

\* What a step does to a task whose outcome, decision and failures it leaves
\* alone: it may emit task.started.
BoxKept(c) ==
  /\ Emits(c, {}) \/ Emits(c, {"started"})
  /\ FailedRows(c)' = FailedRows(c)
  /\ approval'[c] = approval[c] \/ (approval[c] = "PENDING" /\ approval'[c] = "CANCELLED")
  /\ \/ status'[c] = status[c]
     \/ status[c] \in Unfinished /\ status'[c] \in Unfinished \cup {"CANCELLED"}

\* Such a step keeps the events of the task right.
LEMMA KeptBox ==
  ASSUME BookType, NEW c \in Task, TaskBox(c), BoxKept(c)
  PROVE  TaskBox(c)'
<1>1. \A e \in TaskEvent \ {"started"} : taskEvents'[c][e] = taskEvents[c][e]
  BY DEF BoxKept, Emits, Indicator, BookType
<1>2. {"completed", "failed", "dead_lettered", "requested", "APPROVED", "REJECTED",
       "EXPIRED", "retrying"} \subseteq TaskEvent \ {"started"}
  BY DEF TaskEvent
<1>3. /\ \A s \in {"COMPLETED", "FAILED", "DEAD_LETTER"} : status'[c] = s <=> status[c] = s
      /\ \A d \in {"none", "APPROVED", "REJECTED", "EXPIRED"} : approval'[c] = d <=> approval[c] = d
  BY DEF BoxKept, Unfinished, Unstarted
<1>4. /\ taskEvents'[c]["completed"] = Indicator(status'[c] = "COMPLETED")
      /\ taskEvents'[c]["failed"] = Indicator(status'[c] = "FAILED")
      /\ taskEvents'[c]["dead_lettered"] = Indicator(status'[c] = "DEAD_LETTER")
      /\ taskEvents'[c]["requested"] = Indicator(approval'[c] # "none")
  BY <1>1, <1>2, <1>3 DEF TaskBox, Indicator
<1>5. \A d \in {"APPROVED", "REJECTED", "EXPIRED"} :
        taskEvents'[c][d] = Indicator(approval'[c] = d)
  BY <1>1, <1>2, <1>3 DEF TaskBox, Indicator
<1>6. Indicator(status'[c] \in BadOutcome /\ approval'[c] = "none")
        = Indicator(status[c] \in BadOutcome /\ approval[c] = "none")
  BY <1>3 DEF Indicator, BadOutcome
<1>7. taskEvents'[c]["retrying"] = Cardinality(FailedRows(c)')
        - Indicator(status'[c] \in BadOutcome /\ approval'[c] = "none")
  BY <1>1, <1>2, <1>6 DEF TaskBox, BoxKept
<1> QED BY <1>4, <1>5, <1>7 DEF TaskBox

\* The failed attempts of a task are finitely many.
LEMMA FailedRowsFinite ==
  ASSUME NEW c \in Task
  PROVE  IsFiniteSet(FailedRows(c)) /\ Cardinality(FailedRows(c)) \in Nat
<1>1. IsFiniteSet(Attempt) /\ FailedRows(c) \in SUBSET Attempt
  BY SettingsAssumption, FS_Interval DEF Attempt, FailedRows
<1> QED BY <1>1, FS_Subset, FS_CardinalityType

\* Steps that report nothing and decide nothing.
LEMMA QuietBox ==
  ASSUME HistInv, BookType, CoreType, NEW c \in Task, TaskBox(c),
         \/ Dispatch \/ Start \/ KeepLease \/ PauseExecution \/ ResumeExecution
         \/ CancelExecution \/ UNCHANGED vars
         \/ \E t \in Task, k \in Attempt : FailTaskDecideRetry(t, k)
  PROVE  TaskBox(c)'
<1>1. CASE \/ Dispatch \/ KeepLease \/ PauseExecution \/ ResumeExecution
           \/ UNCHANGED vars \/ \E t \in Task, k \in Attempt : FailTaskDecideRetry(t, k)
  <2>1. UNCHANGED <<taskEvents, attemptRow, approval>>
    BY <1>1 DEF Dispatch, DispatchRead, DispatchTask, DispatchCrash, KeepLease, ExpireLease,
                RenewLease, PauseExecution, ResumeExecution, FailTaskDecideRetry, vars
  <2>2. \/ status'[c] = status[c]
        \/ status[c] \in Unfinished /\ status'[c] \in Unfinished
    BY <1>1 DEF Dispatch, DispatchRead, DispatchTask, DispatchCrash, WinsDispatch, KeepLease,
                ExpireLease, RenewLease, PauseExecution, ResumeExecution, FailTaskDecideRetry,
                Promotable, TasksIn, vars, CoreType, Unfinished, Unstarted
  <2>3. Emits(c, {})
    BY <2>1, EmitsRight
  <2>4. BoxKept(c)
    BY <2>1, <2>2, <2>3 DEF BoxKept, FailedRows
  <2> QED BY <2>4, KeptBox
<1>2. CASE CancelExecution
  <2>1. UNCHANGED <<taskEvents, attemptRow>>
    BY <1>2 DEF CancelExecution
  <2>2. /\ status'[c] = IF status[c] \in Unfinished THEN "CANCELLED" ELSE status[c]
        /\ approval'[c] = IF approval[c] = "PENDING" THEN "CANCELLED" ELSE approval[c]
    BY <1>2 DEF CancelExecution, Withdrawn
  <2>3. Emits(c, {})
    BY <2>1, EmitsRight
  <2>4. BoxKept(c)
    BY <2>1, <2>2, <2>3 DEF BoxKept, FailedRows
  <2> QED BY <2>4, KeptBox
<1>3. ASSUME NEW t \in Task, ClaimTask(t) PROVE TaskBox(c)'
  <2>1. UNCHANGED <<taskEvents, attemptRow, approval>>
    BY <1>3 DEF ClaimTask
  <2>2. \/ status'[c] = status[c]
        \/ status[c] \in Unfinished /\ status'[c] \in Unfinished
    BY <1>3 DEF ClaimTask, Claimable, CoreType, Unfinished, Unstarted
  <2>3. Emits(c, {})
    BY <2>1, EmitsRight
  <2>4. BoxKept(c)
    BY <2>1, <2>2, <2>3 DEF BoxKept, FailedRows
  <2> QED BY <2>4, KeptBox
<1>4. ASSUME NEW t \in Task, NEW k \in Attempt,
             CloseAbandoned(t, k) \/ CreateAttempt(t, k) \/ EmitStarted(t, k)
      PROVE  TaskBox(c)'
  <2>1. UNCHANGED <<status, approval>>
    BY <1>4 DEF CloseAbandoned, CreateAttempt, EmitStarted
  <2>2. Emits(c, {}) \/ Emits(c, {"started"})
    <3>1. UNCHANGED taskEvents \/ EmitTask(t, "started")
      BY <1>4 DEF CloseAbandoned, CreateAttempt, EmitStarted
    <3>2. "started" \in TaskEvent
      BY DEF TaskEvent
    <3> QED BY <3>1, <3>2, EmitsRight
  <2>3. FailedRows(c)' = FailedRows(c)
    <3>1. AttemptHist(t, k)
      BY DEF HistInv, TaskHist
    <3>2. CASE CreateAttempt(t, k)
      <4>1. attemptRow[t][k] = "none"
        BY <3>1, <3>2 DEF CreateAttempt, AttemptHist
      <4>2. \A j \in Attempt : attemptRow'[c][j] =
              IF c = t /\ j = k THEN "RUNNING" ELSE attemptRow[c][j]
        BY <3>2 DEF CreateAttempt, SetAttemptRow, BookType
      <4> QED BY <4>1, <4>2 DEF FailedRows
    <3>3. CASE CloseAbandoned(t, k)
      <4>1. \A j \in Attempt : \/ attemptRow'[c][j] = attemptRow[c][j]
                               \/ /\ attemptRow[c][j] = "RUNNING"
                                  /\ attemptRow'[c][j] = "ABANDONED"
        BY <3>3 DEF CloseAbandoned, BookType
      <4> QED BY <4>1 DEF FailedRows
    <3>4. CASE EmitStarted(t, k)
      BY <3>4 DEF EmitStarted, FailedRows
    <3> QED BY <1>4, <3>2, <3>3, <3>4
  <2>4. BoxKept(c)
    BY <2>1, <2>2, <2>3 DEF BoxKept
  <2> QED BY <2>4, KeptBox
<1> QED BY <1>1, <1>2, <1>3, <1>4 DEF Start

\* What a report that is applied makes of the record of its attempt, of the
\* task and of the outbox.
ReportKinds ==
  {<<"SUCCEEDED", "COMPLETED", "completed">>,
   <<"SUSPENDED", "WAITING_FOR_APPROVAL", "requested">>}
    \cup ({"FAILED", "TIMED_OUT"} \X {"RETRYING"} \X {"retrying"})
    \cup ({"FAILED", "TIMED_OUT"} \X {"FAILED"} \X {"failed"})
    \cup ({"FAILED", "TIMED_OUT"} \X {"DEAD_LETTER"} \X {"dead_lettered"})

\* A report that is applied: the events of its task.
LEMMA ReportedBox ==
  ASSUME HistInv, BookType, NEW t \in Task, NEW k \in Attempt, OpenClaim(t), TaskBox(t),
         NEW row, NEW to, NEW e, <<row, to, e>> \in ReportKinds,
         Reported(t, k, row), status'[t] = to, EmitTask(t, e)
  PROVE  TaskBox(t)'
<1>0. /\ status[t] = "RUNNING" /\ attempt[t] = k /\ approval[t] = "none"
      /\ attemptRow[t][k] \notin Outcome
  <2>1. status[t] = "RUNNING" /\ attempt[t] = k
    BY DEF Reported, Fenced
  <2>2. approval[t] = "none"
    BY <2>1 DEF HistInv, TaskHist, ApprovalHist, BookType, ApprovalStatus
  <2> QED BY <2>1, <2>2 DEF OpenClaim
<1>1. e \in TaskEvent /\ row \in Outcome
  BY DEF ReportKinds, TaskEvent, Outcome
<1>2. Emits(t, {e})
  BY <1>1, EmitsRight
<1>3. \A f \in TaskEvent : taskEvents'[t][f] = taskEvents[t][f] + IF f = e THEN 1 ELSE 0
  BY <1>2 DEF Emits, Indicator
<1>4. /\ taskEvents[t]["completed"] = 0 /\ taskEvents[t]["failed"] = 0
      /\ taskEvents[t]["dead_lettered"] = 0 /\ taskEvents[t]["requested"] = 0
      /\ \A d \in {"APPROVED", "REJECTED", "EXPIRED"} : taskEvents[t][d] = 0
      /\ taskEvents[t]["retrying"] = Cardinality(FailedRows(t))
  <2>1. Indicator(status[t] \in BadOutcome /\ approval[t] = "none") = 0
    BY <1>0 DEF Indicator, BadOutcome
  <2> QED BY <1>0, <2>1, FailedRowsFinite DEF TaskBox, Indicator
<1>5. approval'[t] = IF row = "SUSPENDED" THEN "PENDING" ELSE "none"
  BY <1>0 DEF Reported, BookType
<1>6. \A j \in Attempt : attemptRow'[t][j] = IF j = k THEN row ELSE attemptRow[t][j]
  BY <1>0 DEF Reported, SetAttemptRow, BookType
<1>7. k \notin FailedRows(t)
  BY <1>0 DEF FailedRows, Outcome
<1>8. CASE row \in {"FAILED", "TIMED_OUT"}
  <2>1. FailedRows(t)' = FailedRows(t) \cup {k}
    BY <1>6, <1>8 DEF FailedRows
  <2>2. Cardinality(FailedRows(t)') = Cardinality(FailedRows(t)) + 1
    BY <1>7, <2>1, FailedRowsFinite, FS_AddElement
  <2>3. Cardinality(FailedRows(t)) \in Nat
    BY FailedRowsFinite
  <2>4. approval'[t] = "none"
    BY <1>5, <1>8
  <2>5. <<to, e>> \in {<<"RETRYING", "retrying">>, <<"FAILED", "failed">>,
                       <<"DEAD_LETTER", "dead_lettered">>}
    BY <1>8 DEF ReportKinds
  <2>6. taskEvents'[t]["retrying"] = Cardinality(FailedRows(t)')
          - Indicator(status'[t] \in BadOutcome /\ approval'[t] = "none")
    BY <1>3, <1>4, <2>2, <2>3, <2>4, <2>5 DEF Indicator, BadOutcome, TaskEvent
  <2>7. /\ taskEvents'[t]["completed"] = Indicator(status'[t] = "COMPLETED")
        /\ taskEvents'[t]["failed"] = Indicator(status'[t] = "FAILED")
        /\ taskEvents'[t]["dead_lettered"] = Indicator(status'[t] = "DEAD_LETTER")
        /\ taskEvents'[t]["requested"] = Indicator(approval'[t] # "none")
    BY <1>3, <1>4, <2>4, <2>5 DEF Indicator, TaskEvent
  <2>8. \A d \in {"APPROVED", "REJECTED", "EXPIRED"} :
          taskEvents'[t][d] = Indicator(approval'[t] = d)
    BY <1>3, <1>4, <2>4, <2>5 DEF Indicator, TaskEvent
  <2> QED BY <2>6, <2>7, <2>8 DEF TaskBox
<1>9. CASE row \in {"SUCCEEDED", "SUSPENDED"}
  <2>1. FailedRows(t)' = FailedRows(t)
    BY <1>6, <1>7, <1>9 DEF FailedRows
  <2>2. Cardinality(FailedRows(t)) \in Nat
    BY FailedRowsFinite
  <2>3. <<row, to, e>> \in {<<"SUCCEEDED", "COMPLETED", "completed">>,
                            <<"SUSPENDED", "WAITING_FOR_APPROVAL", "requested">>}
    BY <1>9 DEF ReportKinds
  <2>4. taskEvents'[t]["retrying"] = Cardinality(FailedRows(t)')
          - Indicator(status'[t] \in BadOutcome /\ approval'[t] = "none")
    BY <1>3, <1>4, <2>1, <2>2, <2>3 DEF Indicator, BadOutcome, TaskEvent
  <2>5. /\ taskEvents'[t]["completed"] = Indicator(status'[t] = "COMPLETED")
        /\ taskEvents'[t]["failed"] = Indicator(status'[t] = "FAILED")
        /\ taskEvents'[t]["dead_lettered"] = Indicator(status'[t] = "DEAD_LETTER")
        /\ taskEvents'[t]["requested"] = Indicator(approval'[t] # "none")
    BY <1>3, <1>4, <1>5, <2>3 DEF Indicator, TaskEvent
  <2>6. \A d \in {"APPROVED", "REJECTED", "EXPIRED"} :
          taskEvents'[t][d] = Indicator(approval'[t] = d)
    BY <1>3, <1>4, <1>5, <2>3 DEF Indicator, TaskEvent
  <2> QED BY <2>4, <2>5, <2>6 DEF TaskBox
<1> QED BY <1>1, <1>8, <1>9 DEF Outcome

\* ... and of the others.
LEMMA OthersBox ==
  ASSUME BookType, CoreType, NEW t \in Task, NEW c \in Task \ {t}, TaskBox(c),
         Emits(c, {}), attemptRow'[c] = attemptRow[c], approval'[c] = approval[c],
         \/ status'[c] = status[c]
         \/ /\ status[c] \in Unstarted
            /\ status'[c] \in Unstarted \cup {"RUNNING", "CANCELLED"}
  PROVE  TaskBox(c)'
<1>1. BoxKept(c)
  BY DEF BoxKept, FailedRows, Unfinished
<1> QED BY <1>1, KeptBox

\* completeTask, failTask and suspendForApproval emit what they did.
LEMMA ReportBox ==
  ASSUME HistInv, BookType, CoreType, Report, NEW c \in Task, \A t \in Task : OpenClaim(t),
         TaskBox(c)
  PROVE  TaskBox(c)'
<1>1. PICK t \in Task, k \in Attempt :
        \/ CompleteTask(t, k)
        \/ SuspendForApproval(t, k)
        \/ FailTaskDecideRetry(t, k)
        \/ \E error \in HandlerError :
             FailTaskCommitRetry(t, k, error) \/ FailTaskForGood(t, k, error)
  BY DEF Report
<1>2. ASSUME NEW row, NEW to, NEW e, <<row, to, e>> \in ReportKinds,
             Reported(t, k, row), status'[t] = to, EmitTask(t, e),
             \A d \in Task \ {t} :
               \/ status'[d] = status[d]
               \/ /\ status[d] \in Unstarted
                  /\ status'[d] \in Unstarted \cup {"RUNNING", "CANCELLED"}
      PROVE  TaskBox(c)'
  <2>1. CASE c = t
    BY <1>2, <2>1, ReportedBox
  <2>2. CASE c # t
    <3>1. e \in TaskEvent
      BY <1>2 DEF ReportKinds, TaskEvent
    <3>2. Emits(c, {})
      BY <1>2, <2>2, <3>1, EmitsRight
    <3>3. attemptRow'[c] = attemptRow[c] /\ approval'[c] = approval[c]
      BY <1>2, <2>2 DEF Reported, SetAttemptRow, BookType
    <3> QED BY <1>2, <2>2, <3>2, <3>3, OthersBox
  <2> QED BY <2>1, <2>2
<1>3. CASE CompleteTask(t, k)
  <2>1. Reported(t, k, "SUCCEEDED") /\ status'[t] = "COMPLETED" /\ EmitTask(t, "completed")
    BY <1>3 DEF CompleteTask, Reported, AfterTaskSucceeded
  <2>2. <<"SUCCEEDED", "COMPLETED", "completed">> \in ReportKinds
    BY DEF ReportKinds
  <2> QED BY <1>2, <1>3, <2>1, <2>2, AftermathKept DEF CompleteTask
<1>4. CASE SuspendForApproval(t, k)
  <2>1. /\ Reported(t, k, "SUSPENDED") /\ status'[t] = "WAITING_FOR_APPROVAL"
        /\ EmitTask(t, "requested") /\ \A d \in Task \ {t} : status'[d] = status[d]
    BY <1>4 DEF SuspendForApproval, Reported, CoreType
  <2>2. <<"SUSPENDED", "WAITING_FOR_APPROVAL", "requested">> \in ReportKinds
    BY DEF ReportKinds
  <2> QED BY <1>2, <2>1, <2>2
<1>5. CASE FailTaskDecideRetry(t, k)
  BY <1>5, QuietBox
<1>6. ASSUME NEW error \in HandlerError, FailTaskCommitRetry(t, k, error)
      PROVE  TaskBox(c)'
  <2>1. /\ Reported(t, k, FailedRow(error)) /\ status'[t] = "RETRYING"
        /\ EmitTask(t, "retrying") /\ \A d \in Task \ {t} : status'[d] = status[d]
    BY <1>6 DEF FailTaskCommitRetry, Reported, CoreType, FailedRow
  <2>2. <<FailedRow(error), "RETRYING", "retrying">> \in ReportKinds
    BY DEF ReportKinds, FailedRow
  <2> QED BY <1>2, <2>1, <2>2
<1>7. ASSUME NEW error \in HandlerError, FailTaskForGood(t, k, error)
      PROVE  TaskBox(c)'
  <2>1. PICK outcome \in BadOutcome :
          /\ AfterTaskFailedForGood(t, outcome)
          /\ EmitTask(t, IF outcome = "DEAD_LETTER" THEN "dead_lettered" ELSE "failed")
    BY <1>7 DEF FailTaskForGood, BadOutcome
  <2>2. status'[t] = outcome
    BY <2>1 DEF AfterTaskFailedForGood, CoreType
  <2>3. Reported(t, k, FailedRow(error))
    BY <1>7, <2>2 DEF FailTaskForGood, Reported, BadOutcome, FailedRow
  <2>4. <<FailedRow(error), outcome,
          IF outcome = "DEAD_LETTER" THEN "dead_lettered" ELSE "failed">> \in ReportKinds
    BY DEF ReportKinds, FailedRow, BadOutcome
  <2> QED BY <1>2, <2>1, <2>2, <2>3, <2>4, AftermathKept
<1> QED BY <1>1, <1>3, <1>4, <1>5, <1>6, <1>7

\* resolveApproval emits the decision and what it means for the task.
LEMMA DecideBox ==
  ASSUME HistInv, BookType, CoreType, Decide, NEW c \in Task, TaskBox(c)
  PROVE  TaskBox(c)'
<1>1. PICK t \in Task, decision \in {"APPROVED", "REJECTED", "EXPIRED"} :
        ResolveApproval(t, decision)
  BY DEF Decide
<1> DEFINE e == IF decision = "APPROVED" THEN "completed" ELSE "failed"
<1>2. /\ EmitTwice(t, e, decision) /\ e # decision /\ e \in TaskEvent /\ decision \in TaskEvent
      /\ attemptRow' = attemptRow /\ approval' = [approval EXCEPT ![t] = decision]
      /\ approval[t] = "PENDING" /\ status[t] = "WAITING_FOR_APPROVAL"
      /\ AfterTaskSucceeded(t) \/ AfterTaskFailedForGood(t, "FAILED")
  BY <1>1 DEF ResolveApproval, AwaitsDecision, TaskEvent
<1>3. Emits(t, {e, decision}) /\ \A d \in Task \ {t} : Emits(d, {})
  BY <1>2, EmitsRight
<1>4. CASE c = t
  <2>1. status'[t] = IF decision = "APPROVED" THEN "COMPLETED" ELSE "FAILED"
    BY <1>1 DEF ResolveApproval, AfterTaskSucceeded, AfterTaskFailedForGood, CoreType
  <2>2. approval'[t] = decision
    BY <1>2 DEF BookType
  <2>3. \A f \in TaskEvent :
          taskEvents'[t][f] = taskEvents[t][f] + IF f = e \/ f = decision THEN 1 ELSE 0
    BY <1>3 DEF Emits, Indicator
  <2>4. /\ taskEvents[t]["completed"] = 0 /\ taskEvents[t]["failed"] = 0
        /\ taskEvents[t]["dead_lettered"] = 0 /\ taskEvents[t]["requested"] = 1
        /\ \A d \in {"APPROVED", "REJECTED", "EXPIRED"} : taskEvents[t][d] = 0
        /\ taskEvents[t]["retrying"] = Cardinality(FailedRows(t))
    <3>1. Indicator(status[t] \in BadOutcome /\ approval[t] = "none") = 0
      BY <1>2 DEF Indicator, BadOutcome
    <3> QED BY <1>2, <1>4, <3>1, FailedRowsFinite DEF TaskBox, Indicator
  <2>5. FailedRows(t)' = FailedRows(t) /\ Cardinality(FailedRows(t)) \in Nat
    BY <1>2, FailedRowsFinite DEF FailedRows
  <2>6. taskEvents'[t]["retrying"] = Cardinality(FailedRows(t)')
          - Indicator(status'[t] \in BadOutcome /\ approval'[t] = "none")
    BY <2>2, <2>3, <2>4, <2>5 DEF Indicator, TaskEvent
  <2>7. /\ taskEvents'[t]["completed"] = Indicator(status'[t] = "COMPLETED")
        /\ taskEvents'[t]["failed"] = Indicator(status'[t] = "FAILED")
        /\ taskEvents'[t]["dead_lettered"] = Indicator(status'[t] = "DEAD_LETTER")
        /\ taskEvents'[t]["requested"] = Indicator(approval'[t] # "none")
    BY <2>1, <2>2, <2>3, <2>4 DEF Indicator, TaskEvent
  <2>8. \A d \in {"APPROVED", "REJECTED", "EXPIRED"} :
          taskEvents'[t][d] = Indicator(approval'[t] = d)
    BY <2>2, <2>3, <2>4 DEF Indicator, TaskEvent
  <2> QED BY <1>4, <2>6, <2>7, <2>8 DEF TaskBox
<1>5. CASE c # t
  <2>1. attemptRow'[c] = attemptRow[c] /\ approval'[c] = approval[c]
    BY <1>2, <1>5 DEF BookType
  <2> QED BY <1>2, <1>3, <1>5, <2>1, AftermathKept, OthersBox
<1> QED BY <1>4, <1>5

-----------------------------------------------------------------------------
(* The events of the run.                                                  *)

\* A run has one closing event, and is paused when it was paused once more
\* than it was resumed.
LEMMA NextRunBox ==
  ASSUME CoreInv, BookType, RunBox, [Next]_vars
  PROVE  RunBox'
<1>0. /\ runEvents \in [RunEvent -> Nat] /\ execStatus \in RunStatusUsed
      /\ {"completed", "failed", "cancelled", "paused", "resumed"} \subseteq RunEvent
  BY DEF BookType, CoreInv, CoreType, RunEvent
<1>1. CASE UNCHANGED <<execStatus, runEvents>>
  BY <1>1 DEF RunBox
<1>2. ASSUME NEW t \in Task, AfterTaskSucceeded(t) PROVE RunBox'
  <2>1. CASE execStatus = "RUNNING" /\ pendingTasks' = 0
    <3>1. execStatus' = "COMPLETED" /\ EmitRun("completed")
      BY <1>2, <2>1 DEF AfterTaskSucceeded
    <3> QED BY <1>0, <2>1, <3>1 DEF RunBox, EmitRun, Indicator
  <2>2. CASE ~(execStatus = "RUNNING" /\ pendingTasks' = 0)
    BY <1>1, <1>2, <2>2 DEF AfterTaskSucceeded
  <2> QED BY <2>1, <2>2
<1>3. ASSUME NEW t \in Task, NEW outcome, AfterTaskFailedForGood(t, outcome) PROVE RunBox'
  <2>1. CASE FailsRun
    <3>1. execStatus \in LiveRun /\ execStatus' = "FAILED" /\ EmitRun("failed")
      BY <1>3, <2>1 DEF AfterTaskFailedForGood, FailsRun
    <3> QED BY <1>0, <3>1 DEF RunBox, EmitRun, Indicator, LiveRun
  <2>2. CASE ~FailsRun
    BY <1>1, <1>3, <2>2 DEF AfterTaskFailedForGood
  <2> QED BY <2>1, <2>2
<1>4. CASE PauseExecution
  BY <1>0, <1>4 DEF PauseExecution, RunBox, EmitRun, Indicator
<1>5. CASE ResumeExecution
  <2>1. CASE pendingTasks = 0
    <3>1. /\ execStatus = "PAUSED" /\ execStatus' = "COMPLETED"
          /\ runEvents' = [runEvents EXCEPT !["resumed"] = @ + 1, !["completed"] = @ + 1]
      BY <1>5, <2>1 DEF ResumeExecution
    <3> QED BY <1>0, <3>1 DEF RunBox, Indicator
  <2>2. CASE pendingTasks # 0
    <3>1. execStatus = "PAUSED" /\ execStatus' = "RUNNING" /\ EmitRun("resumed")
      BY <1>5, <2>2 DEF ResumeExecution
    <3> QED BY <1>0, <3>1 DEF RunBox, EmitRun, Indicator
  <2> QED BY <2>1, <2>2
<1>6. CASE CancelExecution
  <2>1. execStatus \in LiveRun /\ execStatus' = "CANCELLED" /\ EmitRun("cancelled")
    BY <1>6 DEF CancelExecution
  <2> QED BY <1>0, <2>1 DEF RunBox, EmitRun, Indicator, LiveRun
<1>7. CASE Dispatch \/ Start \/ KeepLease \/ UNCHANGED vars
  <2>1. UNCHANGED <<execStatus, runEvents>>
    BY <1>7 DEF Dispatch, DispatchRead, DispatchTask, DispatchCrash, Start, ClaimTask,
                CloseAbandoned, CreateAttempt, EmitStarted, KeepLease, ExpireLease,
                RenewLease, vars
  <2> QED BY <1>1, <2>1
<1>8. CASE Report \/ Decide
  <2>1. \/ UNCHANGED <<execStatus, runEvents>>
        \/ \E t \in Task : AfterTaskSucceeded(t)
        \/ \E t \in Task, outcome \in BadOutcome : AfterTaskFailedForGood(t, outcome)
    BY <1>8 DEF Report, CompleteTask, SuspendForApproval, FailTaskDecideRetry,
                FailTaskCommitRetry, FailTaskForGood, Decide, ResolveApproval, BadOutcome
  <2> QED BY <1>1, <1>2, <1>3, <2>1
<1> QED BY <1>4, <1>5, <1>6, <1>7, <1>8 DEF Next

-----------------------------------------------------------------------------

\* startExecution records that the run started, and nothing else.
LEMMA InitOutbox == Init => OutboxInv
<1> SUFFICES ASSUME Init PROVE OutboxInv
  OBVIOUS
<1>1. RunBox
  BY DEF Init, RunBox, RunEvent, Indicator
<1>2. ASSUME NEW t \in Task PROVE TaskBox(t) /\ OpenClaim(t)
  <2>1. FailedRows(t) = {}
    BY DEF Init, FailedRows
  <2>2. Cardinality(FailedRows(t)) = 0
    BY <2>1, FS_EmptySet
  <2>3. /\ \A e \in TaskEvent : taskEvents[t][e] = 0
        /\ approval[t] = "none" /\ status[t] \in {"READY", "PENDING"}
    BY DEF Init
  <2>4. TaskBox(t)
    BY <2>2, <2>3 DEF TaskBox, TaskEvent, Indicator, BadOutcome
  <2> QED BY <2>3, <2>4 DEF OpenClaim
<1> QED BY <1>1, <1>2 DEF OutboxInv

\* Every step of the engine keeps OutboxInv.
LEMMA NextOutbox ==
  OutboxInv /\ HistInv /\ BookType /\ CoreInv /\ [Next]_vars => OutboxInv'
<1> SUFFICES ASSUME OutboxInv, HistInv, BookType, CoreInv, [Next]_vars PROVE OutboxInv'
  OBVIOUS
<1>0. CoreType /\ \A c \in Task : OpenClaim(c)
  BY DEF CoreInv, OutboxInv
<1>1. RunBox'
  BY NextRunBox DEF OutboxInv
<1>2. ASSUME NEW c \in Task PROVE TaskBox(c)' /\ OpenClaim(c)'
  <2>1. TaskBox(c)
    BY DEF OutboxInv
  <2>2. OpenClaim(c)'
    BY <1>0, NextOpen
  <2>3. CASE Report
    BY <1>0, <2>1, <2>2, <2>3, ReportBox
  <2>4. CASE Decide
    BY <1>0, <2>1, <2>2, <2>4, DecideBox
  <2>5. CASE \/ Dispatch \/ Start \/ KeepLease \/ PauseExecution \/ ResumeExecution
             \/ CancelExecution \/ UNCHANGED vars
    BY <1>0, <2>1, <2>2, <2>5, QuietBox
  <2> QED BY <2>3, <2>4, <2>5 DEF Next
<1> QED BY <1>1, <1>2 DEF OutboxInv

\* The outbox is exact: whatever reports race, are retried or are refused, the
\* events that the transactions of engine.js record are the changes they
\* committed, each once, and a task has one task.retrying for every failed
\* attempt that was not its last.
THEOREM OutboxCorrect == Spec => []OutboxMatchesState
<1>1. BookType /\ OutboxInv => OutboxMatchesState
  <2> SUFFICES ASSUME BookType, OutboxInv PROVE OutboxMatchesState
    OBVIOUS
  <2>1. ASSUME NEW e \in {"completed", "failed", "cancelled"}
        PROVE  runEvents[e] = Indicator(execStatus =
                 [completed |-> "COMPLETED", failed |-> "FAILED",
                  cancelled |-> "CANCELLED"][e])
    BY DEF OutboxInv, RunBox
  <2>2. runEvents["paused"] - runEvents["resumed"] \in
          (CASE execStatus \in {"RUNNING", "COMPLETED"} -> {0}
             [] execStatus = "PAUSED" -> {1}
             [] OTHER -> {0, 1})
    <3>0. runEvents["paused"] \in Nat /\ runEvents["resumed"] \in Nat
      BY DEF BookType, RunEvent
    <3>1. CASE execStatus \in {"RUNNING", "COMPLETED"}
      BY <3>0, <3>1 DEF OutboxInv, RunBox
    <3>2. CASE execStatus = "PAUSED"
      BY <3>0, <3>2 DEF OutboxInv, RunBox
    <3>3. CASE execStatus \notin {"RUNNING", "COMPLETED", "PAUSED"}
      BY <3>3 DEF OutboxInv, RunBox
    <3> QED BY <3>1, <3>2, <3>3
  <2>3. ASSUME NEW t \in Task PROVE TaskBox(t)
    BY DEF OutboxInv
  <2> QED BY <2>1, <2>2, <2>3 DEF OutboxMatchesState, TaskBox, FailedRows, BadOutcome
<1> QED BY <1>1, InitOutbox, NextOutbox, CoreInvariant, HistInvariant, InitBook, NextBook, PTL
        DEF Spec
-----------------------------------------------------------------------------
(* What reconcile can reach.                                               *)
(*                                                                         *)
(* A task has a lease exactly while it is RUNNING. With that, and what     *)
(* CoreInv says of PENDING tasks and HistInv of requests, SweepFindsWork   *)
(* follows.                                                                *)

LeaseInv == \A t \in Task : lease[t] # "none" <=> status[t] = "RUNNING"

\* A step that touches neither the lease of a task nor whether it is RUNNING.
LeaseKept(c) ==
  /\ lease'[c] = lease[c]
  /\ status'[c] = "RUNNING" <=> status[c] = "RUNNING"

\* What follows the end of task t makes no other task RUNNING and stops none.
LEMMA AftermathLease ==
  ASSUME CoreType, NEW t \in Task, NEW c \in Task \ {t},
         \/ AfterTaskSucceeded(t)
         \/ \E outcome \in {"FAILED", "DEAD_LETTER"} : AfterTaskFailedForGood(t, outcome)
  PROVE  status'[c] = "RUNNING" <=> status[c] = "RUNNING"
<1>1. CASE AfterTaskSucceeded(t)
  BY <1>1 DEF AfterTaskSucceeded
<1>2. CASE \E outcome \in {"FAILED", "DEAD_LETTER"} : AfterTaskFailedForGood(t, outcome)
  BY <1>2 DEF AfterTaskFailedForGood, CutOff, TasksIn, Unstarted, CoreType
<1> QED BY <1>1, <1>2

\* A claim makes RUNNING and sets the lease, every report that is applied and
\* every cancellation undoes both, a renewal is fenced by RUNNING, and an
\* approval is decided while its task has no lease.
LEMMA NextLease ==
  ASSUME LeaseInv, BookType, CoreType, [Next]_vars
  PROVE  LeaseInv'
<1> SUFFICES ASSUME NEW c \in Task
             PROVE  (lease[c] # "none" <=> status[c] = "RUNNING")'
  BY DEF LeaseInv
<1>0. lease[c] # "none" <=> status[c] = "RUNNING"
  BY DEF LeaseInv
<1>1. CASE LeaseKept(c)
  BY <1>0, <1>1 DEF LeaseKept
<1>2. CASE Dispatch \/ PauseExecution \/ ResumeExecution \/ UNCHANGED vars
  <2>1. LeaseKept(c)
    BY <1>2 DEF Dispatch, DispatchRead, DispatchTask, DispatchCrash, WinsDispatch,
                PauseExecution, ResumeExecution, Promotable, TasksIn, vars, CoreType,
                LeaseKept
  <2> QED BY <1>1, <2>1
<1>3. CASE Start
  <2>1. ASSUME NEW t \in Task, ClaimTask(t)
        PROVE  (lease[c] # "none" <=> status[c] = "RUNNING")'
    BY <1>0, <2>1 DEF ClaimTask, BookType, CoreType
  <2>2. ASSUME NEW t \in Task, NEW k \in Attempt,
               CloseAbandoned(t, k) \/ CreateAttempt(t, k) \/ EmitStarted(t, k)
        PROVE  LeaseKept(c)
    BY <2>2 DEF CloseAbandoned, CreateAttempt, EmitStarted, LeaseKept
  <2> QED BY <1>1, <1>3, <2>1, <2>2 DEF Start
<1>4. CASE KeepLease
  BY <1>0, <1>4 DEF KeepLease, ExpireLease, RenewLease, Fenced, BookType
<1>5. CASE Report
  <2>1. PICK t \in Task, k \in Attempt :
          \/ CompleteTask(t, k)
          \/ SuspendForApproval(t, k)
          \/ FailTaskDecideRetry(t, k)
          \/ \E error \in HandlerError :
               FailTaskCommitRetry(t, k, error) \/ FailTaskForGood(t, k, error)
    BY <1>5 DEF Report
  <2>2. CASE CompleteTask(t, k)
    <3>1. AfterTaskSucceeded(t) /\ lease' = [lease EXCEPT ![t] = "none"]
      BY <2>2 DEF CompleteTask, DropLease
    <3>2. status'[t] # "RUNNING"
      BY <3>1 DEF AfterTaskSucceeded
    <3> QED BY <1>0, <3>1, <3>2, AftermathLease DEF BookType
  <2>3. CASE SuspendForApproval(t, k)
    BY <1>0, <2>3 DEF SuspendForApproval, DropLease, BookType, CoreType
  <2>4. CASE FailTaskDecideRetry(t, k)
    BY <1>1, <2>4 DEF FailTaskDecideRetry, LeaseKept
  <2>5. ASSUME NEW error \in HandlerError, FailTaskCommitRetry(t, k, error)
        PROVE  (lease[c] # "none" <=> status[c] = "RUNNING")'
    BY <1>0, <2>5 DEF FailTaskCommitRetry, DropLease, BookType, CoreType
  <2>6. ASSUME NEW error \in HandlerError, FailTaskForGood(t, k, error)
        PROVE  (lease[c] # "none" <=> status[c] = "RUNNING")'
    <3>1. lease' = [lease EXCEPT ![t] = "none"]
      BY <2>6 DEF FailTaskForGood, DropLease
    <3>2. PICK outcome \in {"FAILED", "DEAD_LETTER"} : AfterTaskFailedForGood(t, outcome)
      BY <2>6 DEF FailTaskForGood
    <3>3. status'[t] # "RUNNING"
      BY <3>2 DEF AfterTaskFailedForGood, CoreType
    <3> QED BY <1>0, <3>1, <3>2, <3>3, AftermathLease DEF BookType
  <2> QED BY <2>1, <2>2, <2>3, <2>4, <2>5, <2>6
<1>6. CASE Decide
  <2>1. PICK t \in Task, decision \in {"APPROVED", "REJECTED", "EXPIRED"} :
          ResolveApproval(t, decision)
    BY <1>6 DEF Decide
  <2>2. lease' = lease /\ status[t] = "WAITING_FOR_APPROVAL"
    BY <2>1 DEF ResolveApproval, AwaitsDecision
  <2>3. \/ AfterTaskSucceeded(t)
        \/ \E outcome \in {"FAILED", "DEAD_LETTER"} : AfterTaskFailedForGood(t, outcome)
    BY <2>1 DEF ResolveApproval
  <2>4. status'[t] # "RUNNING"
    BY <2>3 DEF AfterTaskSucceeded, AfterTaskFailedForGood, CoreType
  <2> QED BY <1>0, <2>2, <2>3, <2>4, AftermathLease
<1>7. CASE CancelExecution
  BY <1>0, <1>7 DEF CancelExecution, Unfinished, Unstarted
<1> QED BY <1>2, <1>3, <1>4, <1>5, <1>6, <1>7 DEF Next

\* A PENDING task of a run that is not paused waits for an unfinished one: by
\* NothingOutstanding it has a dependency that is not COMPLETED, and in a live
\* run nothing has failed.
LEMMA PendingWaits ==
  ASSUME CoreInv, NEW t \in Task, status[t] = "PENDING", execStatus # "PAUSED"
  PROVE  execStatus = "RUNNING" /\ DependsOn[t] \cap TasksIn(Unfinished) # {}
<1> USE DEF CoreInv
<1>1. execStatus = "RUNNING"
  BY DEF CoreType, RunStatusUsed, RunOutcomeSound, TasksIn, Unfinished, Unstarted
<1>2. PICK d \in DependsOn[t] : status[d] # "COMPLETED"
  <2> SUFFICES ASSUME \A d \in DependsOn[t] : status[d] = "COMPLETED" PROVE FALSE
    OBVIOUS
  <2>1. Waiting(t) = {}
    BY DEF Waiting
  <2>2. remainingDeps[t] = 0
    BY <1>1, <2>1, FS_EmptySet DEF RemainingDepsExact, Waiting, LiveRun
  <2> QED BY <1>1, <2>2 DEF NothingOutstanding
<1>3. d \in Task
  BY DagAssumption
<1>4. status[d] \notin {"FAILED", "DEAD_LETTER", "CANCELLED"}
  BY <1>1, <1>3 DEF RunOutcomeSound, TasksIn, LiveRun
<1>5. status[d] \in Unfinished
  BY <1>2, <1>3, <1>4 DEF CoreType, TaskStatus, Unfinished, Unstarted
<1> QED BY <1>1, <1>3, <1>5 DEF TasksIn

\* A task is leased exactly while it is RUNNING, so that the filter "RUNNING
\* with an expired lease" of claimTask and reconcile misses no task whose worker
\* is gone, after any takeovers, late reports, decisions and cancellations.
THEOREM LeaseIffRunning == Spec => []LeaseInv
<1>1. Init => LeaseInv
  BY DEF Init, LeaseInv
<1>2. CoreInv => CoreType
  BY DEF CoreInv
<1> QED BY <1>1, <1>2, NextLease, InitBook, NextBook, CoreInvariant, PTL DEF Spec

\* Whatever a crash leaves behind, reconcile finds every unfinished task, or
\* the task waits for one that is unfinished, or for a resume: the safety half
\* of "every run ends". In a RUNNING run some sweep has a task to find.
THEOREM ReconcileReaches == Spec => []SweepFindsWork
<1> DEFINE Reached(t) ==
      \/ Swept(t)
      \/ status[t] = "PENDING" /\ DependsOn[t] \cap TasksIn(Unfinished) # {}
      \/ status[t] \in {"PENDING", "READY"} /\ execStatus = "PAUSED"
<1>1. ASSUME CoreInv, HistInv, LeaseInv, NEW t \in Task, status[t] \in Unfinished
      PROVE  Reached(t)
  <2>1. CASE status[t] = "PENDING"
    BY <1>1, <2>1, PendingWaits
  <2>2. CASE status[t] = "READY"
    <3>1. execStatus \in {"RUNNING", "PAUSED"}
      BY <1>1, <2>2 DEF CoreInv, CoreType, RunStatusUsed, RunOutcomeSound, TasksIn,
                        Unfinished, Unstarted
    <3> QED BY <2>2, <3>1 DEF Swept
  <2>3. CASE status[t] \in {"QUEUED", "RETRYING"}
    BY <2>3 DEF Swept
  <2>4. CASE status[t] = "RUNNING"
    BY <1>1, <2>4 DEF Swept, LeaseInv
  <2>5. CASE status[t] = "WAITING_FOR_APPROVAL"
    BY <1>1, <2>5 DEF Swept, AwaitsDecision, HistInv, TaskHist, ApprovalHist
  <2> QED BY <1>1, <2>1, <2>2, <2>3, <2>4, <2>5 DEF Unfinished, Unstarted
<1>2. ASSUME CoreInv, HistInv, LeaseInv, NoStuckRun PROVE SweepFindsWork
  <2>1. \A t \in TasksIn(Unfinished) : Reached(t)
    BY <1>1, <1>2 DEF TasksIn
  <2>2. ASSUME execStatus = "RUNNING" PROVE \E t \in Task : Swept(t)
    <3>1. PICK t \in Task : status[t] \in Unfinished \ {"PENDING"}
      BY <1>2, <2>2 DEF NoStuckRun, TasksIn
    <3>2. Reached(t)
      BY <2>1, <3>1 DEF TasksIn
    <3> QED BY <2>2, <3>1, <3>2
  <2> QED BY <2>1, <2>2 DEF SweepFindsWork
<1>3. CoreInv /\ HistInv /\ LeaseInv /\ NoStuckRun => SweepFindsWork
  BY <1>2
<1> QED BY <1>3, CoreInvariant, HistInvariant, LeaseIffRunning, RunNeverStuck, PTL
=============================================================================
