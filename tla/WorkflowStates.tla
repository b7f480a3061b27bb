--------------------------- MODULE WorkflowStates ---------------------------
(***************************************************************************)
(* The two explicit state machines of workflow/states.js: one for a run    *)
(* (a WorkflowExecution document) and one for a task of a run.             *)
(***************************************************************************)

ExecutionStatus ==
  {"PENDING", "RUNNING", "PAUSED", "WAITING_FOR_APPROVAL",
   "COMPLETED", "FAILED", "CANCELLED"}

TaskStatus ==
  {"PENDING", "READY", "QUEUED", "RUNNING", "RETRYING",
   "WAITING_FOR_APPROVAL", "COMPLETED", "FAILED", "DEAD_LETTER", "CANCELLED"}

\* From each status, the set of statuses it may move to. A terminal status
\* has the empty set.
ExecutionTransitions ==
  [PENDING              |-> {"RUNNING", "CANCELLED"},
   RUNNING              |-> {"PAUSED", "WAITING_FOR_APPROVAL", "COMPLETED",
                             "FAILED", "CANCELLED"},
   PAUSED               |-> {"RUNNING", "FAILED", "CANCELLED"},
   WAITING_FOR_APPROVAL |-> {"RUNNING", "FAILED", "CANCELLED"},
   COMPLETED            |-> {},
   FAILED               |-> {},
   CANCELLED            |-> {}]

TaskTransitions ==
  [PENDING              |-> {"READY", "CANCELLED"},
   READY                |-> {"QUEUED", "CANCELLED"},
   QUEUED               |-> {"RUNNING", "READY", "CANCELLED"},
   RUNNING              |-> {"COMPLETED", "FAILED", "RETRYING",
                             "WAITING_FOR_APPROVAL", "QUEUED", "CANCELLED"},
   RETRYING             |-> {"QUEUED", "CANCELLED"},
   WAITING_FOR_APPROVAL |-> {"COMPLETED", "FAILED", "CANCELLED"},
   FAILED               |-> {"DEAD_LETTER"},
   COMPLETED            |-> {},
   DEAD_LETTER          |-> {},
   CANCELLED            |-> {}]

CanTransition(table, from, to) == to \in table[from]
=============================================================================
