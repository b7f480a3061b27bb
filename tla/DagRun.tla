------------------------------- MODULE DagRun -------------------------------
(***************************************************************************)
(* What a run of a workflow promises to its user, whatever queues, leases, *)
(* retries, pauses and approvals are behind it: a task ends once, for good *)
(* or for bad, a successful one after all it depends on; the run ends once *)
(* and its end is true.                                                    *)
(***************************************************************************)
CONSTANTS Task, DependsOn

VARIABLES
  outcome,  \* "open", "COMPLETED", "FAILED" or "CANCELLED"
  done,     \* the tasks that have succeeded
  lost      \* the tasks that never will

runVars == <<outcome, done, lost>>

Init == outcome = "open" /\ done = {} /\ lost = {}

Left == Task \ (done \cup lost)

\* A task succeeds; the last one may end the run with it. In a run that has
\* failed, what was under way may still come in.
Finish(t) ==
  /\ outcome \in {"open", "FAILED"}
  /\ t \in Left /\ DependsOn[t] \subseteq done
  /\ done' = done \cup {t}
  /\ \/ outcome' = outcome
     \/ outcome = "open" /\ done' = Task /\ outcome' = "COMPLETED"
  /\ UNCHANGED lost

\* A run whose last task came in while it was paused.
Close ==
  /\ outcome = "open" /\ done = Task
  /\ outcome' = "COMPLETED"
  /\ UNCHANGED <<done, lost>>

\* The first task that fails for good fails the run, and takes others with it.
Fail(t, others) ==
  /\ outcome = "open"
  /\ t \in Left /\ DependsOn[t] \subseteq done
  /\ outcome' = "FAILED"
  /\ lost' = lost \cup {t} \cup others
  /\ UNCHANGED done

\* A later one has nothing more to fail.
Lose(t) ==
  /\ outcome = "FAILED"
  /\ t \in Left
  /\ lost' = lost \cup {t}
  /\ UNCHANGED <<outcome, done>>

Cancel ==
  /\ outcome = "open"
  /\ outcome' = "CANCELLED"
  /\ lost' = lost \cup Left
  /\ UNCHANGED done

Next ==
  \/ \E t \in Task : Finish(t) \/ Lose(t) \/ \E others \in SUBSET Left : Fail(t, others)
  \/ Close \/ Cancel

Spec == Init /\ [][Next]_runVars
=============================================================================
