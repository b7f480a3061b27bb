------------------------------ MODULE TaskQueue ------------------------------
(***************************************************************************)
(* The reliable task queue on Redis (queues/taskQueue.js): a LIST of ready *)
(* ids, a ZSET of leased ids, a ZSET of delayed ids, and the SET of all    *)
(* the ids in them. Every operation is one Lua script, which Redis runs as *)
(* one command: one action each. A score is kept as "in the future" or     *)
(* "passed"; ZRANGEBYSCORE's order among passed scores is left open.       *)
(***************************************************************************)
EXTENDS Integers, Sequences

CONSTANTS
  Task,     \* task ids
  Limit     \* the LIMIT of requeueExpired and promoteDue

ASSUME QueueAssumption == Limit \in Nat \ {0}

VARIABLES
  ready,       \* LIST, head first
  leases,      \* ZSET: task -> not a member, deadline ahead, deadline passed
  delayed,     \* ZSET: task -> not a member, still waiting, due
  members      \* SET

queueVars == <<ready, leases, delayed, members>>

Score == {"none", "ahead", "passed"}

ReadyIds   == {ready[i] : i \in DOMAIN ready}
LeasedIds  == {t \in Task : leases[t] # "none"}
DelayedIds == {t \in Task : delayed[t] # "none"}
ExpiredIds == {t \in Task : leases[t] = "passed"}
DueIds     == {t \in Task : delayed[t] = "passed"}

IdsOf(s) == {s[i] : i \in DOMAIN s}

\* What ZRANGEBYSCORE ... LIMIT 0 Limit can return of the ids S: all of them,
\* or Limit of them, each once.
Batch(S) ==
  {s \in UNION {[1 .. n -> S] : n \in 0 .. Limit} :
     /\ \A i, j \in DOMAIN s : s[i] = s[j] => i = j
     /\ IdsOf(s) = S \/ DOMAIN s = 1 .. Limit}

QueueInit ==
  /\ ready = <<>>
  /\ leases = [t \in Task |-> "none"]
  /\ delayed = [t \in Task |-> "none"]
  /\ members = {}

-----------------------------------------------------------------------------
(* The scripts.                                                            *)

Enqueue(t) ==
  /\ members' = members \cup {t}
  /\ ready' = IF t \in members THEN ready ELSE Append(ready, t)
  /\ UNCHANGED <<leases, delayed>>

\* Mutant: an id that is a member, a leased one too, is refused.
EnqueueDelayedIfNew(t) ==
  /\ members' = members \cup {t}
  /\ delayed' = IF t \notin members
                THEN [delayed EXCEPT ![t] = "ahead"] ELSE delayed
  /\ UNCHANGED <<ready, leases>>

\* Move a leased id to the delayed ones; otherwise add it unless it is known.
EnqueueDelayed(t) ==
  /\ leases' = [leases EXCEPT ![t] = "none"]
  /\ members' = members \cup {t}
  /\ delayed' = IF leases[t] # "none" \/ t \notin members
                THEN [delayed EXCEPT ![t] = "ahead"]
                ELSE delayed
  /\ UNCHANGED ready

Claim ==
  /\ ready # <<>>
  /\ ready' = Tail(ready)
  /\ leases' = [leases EXCEPT ![Head(ready)] = "ahead"]
  /\ UNCHANGED <<delayed, members>>

\* Mutant: ZADD without XX.
ExtendLeaseUpserts(t) ==
  /\ leases' = [leases EXCEPT ![t] = "ahead"]
  /\ UNCHANGED <<ready, delayed, members>>

ExtendLease(t) ==
  /\ leases' = IF leases[t] # "none"
               THEN [leases EXCEPT ![t] = "ahead"]
               ELSE leases
  /\ UNCHANGED <<ready, delayed, members>>

\* Mutant: the id stays in the set of members.
AckKeepsMember(t) ==
  /\ leases' = [leases EXCEPT ![t] = "none"]
  /\ UNCHANGED <<ready, delayed, members>>

\* The script knows the id, not the caller.
Ack(t) ==
  /\ leases' = [leases EXCEPT ![t] = "none"]
  /\ members' = IF leases[t] # "none" THEN members \ {t} ELSE members
  /\ UNCHANGED <<ready, delayed>>

RequeueExpired ==
  \E s \in Batch(ExpiredIds) :
    /\ leases' = [t \in Task |-> IF t \in IdsOf(s) THEN "none" ELSE leases[t]]
    /\ ready' = ready \o s
    /\ UNCHANGED <<delayed, members>>

PromoteDue ==
  \E s \in Batch(DueIds) :
    /\ delayed' = [t \in Task |-> IF t \in IdsOf(s) THEN "none" ELSE delayed[t]]
    /\ ready' = ready \o s
    /\ UNCHANGED <<leases, members>>

-----------------------------------------------------------------------------
(* Redis's clock, and a Redis that restarts empty.                         *)

LeaseDeadlinePasses(t) ==
  /\ leases[t] = "ahead"
  /\ leases' = [leases EXCEPT ![t] = "passed"]
  /\ UNCHANGED <<ready, delayed, members>>

DelayPasses(t) ==
  /\ delayed[t] = "ahead"
  /\ delayed' = [delayed EXCEPT ![t] = "passed"]
  /\ UNCHANGED <<ready, leases, members>>

LoseData ==
  /\ ready' = <<>>
  /\ leases' = [t \in Task |-> "none"]
  /\ delayed' = [t \in Task |-> "none"]
  /\ members' = {}

QueueNext ==
  \/ \E t \in Task :
       \/ Enqueue(t)
       \/ EnqueueDelayed(t)
       \/ ExtendLease(t)
       \/ Ack(t)
       \/ LeaseDeadlinePasses(t)
       \/ DelayPasses(t)
  \/ Claim
  \/ RequeueExpired
  \/ PromoteDue
  \/ LoseData

QueueSpec == QueueInit /\ [][QueueNext]_queueVars

-----------------------------------------------------------------------------
(* Properties.                                                             *)

\* The Redis keys hold what taskQueue.js:9-13 says they hold.
QueueTypeOK ==
  /\ ready \in Seq(Task)
  /\ leases \in [Task -> Score]
  /\ delayed \in [Task -> Score]
  /\ members \subseteq Task

\* members is exactly ready + leases + delayed, and an id is in one of the
\* three only, once: no sequence of scripts, from any callers, makes an id two
\* entries (it would run twice) or an entry without membership (it would be
\* enqueued again), or a membership without entry (enqueue would refuse it
\* for ever and the task would never run).
QueuePartition ==
  /\ members = ReadyIds \cup LeasedIds \cup DelayedIds
  /\ ReadyIds \cap LeasedIds = {}
  /\ ReadyIds \cap DelayedIds = {}
  /\ LeasedIds \cap DelayedIds = {}
  /\ \A i, j \in DOMAIN ready : ready[i] = ready[j] => i = j
=============================================================================
