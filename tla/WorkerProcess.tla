---------------------------- MODULE WorkerProcess ----------------------------
(***************************************************************************)
(* The life of a worker process (worker.js, queueWorker.js start and stop) *)
(* and what GET /workers says of it: the registry (workers/registry.js)    *)
(* keeps a document in MongoDB and a key with a TTL in Redis, both under   *)
(* the process' workerId, `${hostname}-${pid}`, which a container that is  *)
(* restarted has again. Processes with one workerId follow one another; of *)
(* a dead one, updates may still be on their way to MongoDB.               *)
(*                                                                         *)
(* Time passes in thirds of the TTL: the interval of the heartbeat.        *)
(***************************************************************************)
EXTENDS Integers

CONSTANTS
  MaxStarts,    \* bound: processes
  MaxOutage     \* bound: times that MongoDB or Redis goes away

ASSUME WorkerAssumption == MaxStarts \in Nat /\ MaxOutage \in Nat

Ttl == 3

VARIABLES
  life,     \* "off", "registering", "working", "draining", "deregistering", "closing"
  starts,   \* processes so far
  busy,     \* a loop has a task in hand
  beaten,   \* the heartbeat of this interval has been made
  row,      \* status in the Worker document, "none" without one
  age,      \* thirds of the TTL since the key was set, Ttl without a key
  updates,  \* updateOne calls under way, as [by, status]
  mongo, redis,  \* whether they can be reached
  cuts      \* times one of them could not be

workerVars == <<life, starts, busy, beaten, row, age, updates, mongo, redis, cuts>>

WorkerInit ==
  /\ life = "off" /\ starts = 0 /\ busy = FALSE /\ beaten = FALSE
  /\ row = "none" /\ age = Ttl /\ updates = {}
  /\ mongo = TRUE /\ redis = TRUE /\ cuts = 0

\* What listWorkers makes of the document and the key.
Listed == IF row = "ACTIVE" /\ age = Ttl THEN "UNRESPONSIVE" ELSE row

-----------------------------------------------------------------------------
(* Start: main(), and register() in worker.start().                        *)

\* connectMongo, and the upsert of the document.
Start ==
  /\ life = "off" /\ starts < MaxStarts /\ mongo
  /\ starts' = starts + 1
  /\ row' = "ACTIVE"
  /\ life' = "registering"
  /\ UNCHANGED <<busy, beaten, age, updates, mongo, redis, cuts>>

\* The key is set, and the loops and timers start.
Registered ==
  /\ life = "registering" /\ redis
  /\ age' = 0 /\ beaten' = TRUE
  /\ life' = "working"
  /\ UNCHANGED <<starts, busy, row, updates, mongo, redis, cuts>>

-----------------------------------------------------------------------------
(* Work.                                                                   *)

TakeTask ==
  /\ life = "working" /\ ~busy
  /\ busy' = TRUE
  /\ UNCHANGED <<life, starts, beaten, row, age, updates, mongo, redis, cuts>>

\* A loop finishes its task also while the process drains.
EndTask ==
  /\ busy
  /\ busy' = FALSE
  /\ UNCHANGED <<life, starts, beaten, row, age, updates, mongo, redis, cuts>>

Sends(status) ==
  updates' = IF mongo THEN updates \cup {[by |-> starts, status |-> status]}
             ELSE updates

\* Mutant: a heartbeat leaves the status alone.
BeatsQuietly == "seen"

\* The status that a heartbeat sets.
Beats == "ACTIVE"

\* heartbeat(), by the timer; what fails is logged.
Beat ==
  /\ life = "working" /\ ~beaten
  /\ beaten' = TRUE
  /\ age' = IF redis THEN 0 ELSE age
  /\ Sends(Beats)
  /\ UNCHANGED <<life, starts, busy, row, mongo, redis, cuts>>

-----------------------------------------------------------------------------
(* Shutdown.                                                               *)

\* SIGTERM, SIGINT or an unhandled rejection: no more claims and heartbeats.
Terminate ==
  /\ life = "working"
  /\ life' = "draining"
  /\ UNCHANGED <<starts, busy, beaten, row, age, updates, mongo, redis, cuts>>

\* The loops have ended: deregister(). Redis serves the DEL after every SET
\* that this process has sent it.
Deregister ==
  /\ life = "draining" /\ ~busy
  /\ life' = "deregistering"
  /\ age' = IF redis THEN Ttl ELSE age
  /\ Sends("STOPPED")
  /\ UNCHANGED <<starts, busy, beaten, row, mongo, redis, cuts>>

\* Promise.allSettled: both are done, or have failed.
Deregistered ==
  /\ life = "deregistering"
  /\ [by |-> starts, status |-> "STOPPED"] \notin updates
  /\ life' = "closing"
  /\ UNCHANGED <<starts, busy, beaten, row, age, updates, mongo, redis, cuts>>

\* The scheduler, the relay, Kafka and the connections, and exit(0).
ExitZero ==
  /\ life = "closing"
  /\ life' = "off"
  /\ UNCHANGED <<starts, busy, beaten, row, age, updates, mongo, redis, cuts>>

\* main() throws, shutdownTimeoutMs are over, or the process is killed.
Dies ==
  /\ life # "off"
  /\ life' = "off" /\ busy' = FALSE
  /\ UNCHANGED <<starts, beaten, row, age, updates, mongo, redis, cuts>>

-----------------------------------------------------------------------------
(* The world: updates land in any order, time passes, connections break.   *)

Lands(u) ==
  /\ updates' = updates \ {u}
  /\ row' = IF u.status = "seen" THEN row ELSE u.status
  /\ UNCHANGED <<life, starts, busy, beaten, age, mongo, redis, cuts>>

\* Without MongoDB, or of a process that is gone.
GetsLost(u) ==
  /\ ~mongo \/ u.by # starts \/ life = "off"
  /\ updates' = updates \ {u}
  /\ UNCHANGED <<life, starts, busy, beaten, row, age, mongo, redis, cuts>>

\* The heartbeat of a process that works is never a whole interval late.
IntervalPasses ==
  /\ life = "working" => beaten
  /\ beaten' = FALSE
  /\ age' = IF age < Ttl THEN age + 1 ELSE Ttl
  /\ <<beaten, age>>' # <<beaten, age>>
  /\ UNCHANGED <<life, starts, busy, row, updates, mongo, redis, cuts>>

MongoCut ==
  /\ mongo /\ cuts < MaxOutage
  /\ mongo' = FALSE /\ cuts' = cuts + 1
  /\ UNCHANGED <<life, starts, busy, beaten, row, age, updates, redis>>

RedisCut ==
  /\ redis /\ cuts < MaxOutage
  /\ redis' = FALSE /\ cuts' = cuts + 1
  /\ UNCHANGED <<life, starts, busy, beaten, row, age, updates, mongo>>

MongoBack ==
  /\ ~mongo /\ mongo' = TRUE
  /\ UNCHANGED <<life, starts, busy, beaten, row, age, updates, redis, cuts>>

RedisBack ==
  /\ ~redis /\ redis' = TRUE
  /\ UNCHANGED <<life, starts, busy, beaten, row, age, updates, mongo, cuts>>

LandsOrNot == \E u \in updates : Lands(u) \/ GetsLost(u)

WorkerNext ==
  \/ Start \/ Registered \/ TakeTask \/ EndTask \/ Beat
  \/ Terminate \/ Deregister \/ Deregistered \/ ExitZero \/ Dies
  \/ LandsOrNot \/ IntervalPasses
  \/ MongoCut \/ RedisCut \/ MongoBack \/ RedisBack

WorkerSpec == WorkerInit /\ [][WorkerNext]_workerVars

\* Timers fire, time passes, updates end, and outages do.
WorkerFairness ==
  /\ WF_workerVars(Beat) /\ WF_workerVars(IntervalPasses)
  /\ WF_workerVars(LandsOrNot)
  /\ WF_workerVars(MongoBack) /\ WF_workerVars(RedisBack)

FairWorkerSpec == WorkerSpec /\ WorkerFairness

-----------------------------------------------------------------------------
(* Properties.                                                             *)

\* A worker that stays is in the end listed ACTIVE, whatever updates of
\* processes that had its id before it come late, and one that is gone is not
\* (registry.js:3-5).
RegistryConverges ==
  /\ <>[](life = "working") => <>[](Listed = "ACTIVE")
  /\ <>[](life = "off") => <>[](Listed # "ACTIVE")
=============================================================================
