------------------------------ MODULE MCProcess ------------------------------
(* What a worker process is and uses, each by itself: its own life and     *)
(* registration, the calls of its handlers to a primary and a fallback     *)
(* provider, the scripts of the queue, called by anyone in any order, and  *)
(* the events of a run on their way from the outbox to the statistics.     *)
(* They share no state, and a behaviour is about one of them.              *)
EXTENDS ProviderFallback, WorkerProcess, TaskQueue, EventPipeline

CONSTANTS p1, p2, m1, m2

Relays  == {p1, p2}
Members == {m1, m2}

VARIABLE about

\* A component that a behaviour is not about rests, with nothing to do: there
\* is no traffic, no process, no relay. The members of the group are alike: the
\* partition is the first one's.
MCInit ==
  /\ Init /\ WorkerInit /\ QueueInit
  /\ about \in {"providers", "registry", "queue", "events"}
  /\ owner = m1
  /\ IF about = "events" THEN PipeInit ELSE StartsWith(Proc) /\ broker

MCNext ==
  /\ UNCHANGED about
  /\ \/ about = "providers" /\ Next /\ UNCHANGED <<workerVars, queueVars, pipeVars>>
     \/ about = "registry" /\ WorkerNext /\ UNCHANGED <<vars, queueVars, pipeVars>>
     \/ about = "queue" /\ QueueNext /\ UNCHANGED <<vars, workerVars, pipeVars>>
     \/ about = "events" /\ PipeNext /\ UNCHANGED <<vars, workerVars, queueVars>>

\* Fairness of ProviderFallback, where there is traffic.
ProviderFairness ==
  /\ \A c \in Call : /\ WF_vars(about = "providers" /\ Send(c))
                     /\ WF_vars(about = "providers" /\ Settle(c))
  /\ \A i \in Provider : WF_vars(CooldownPasses(i))

MCSpec ==
  /\ MCInit /\ [][MCNext]_<<about, vars, workerVars, queueVars, pipeVars>>
  /\ ProviderFairness /\ WorkerFairness /\ PipeFairness
=============================================================================
