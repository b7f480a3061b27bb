---------------------------- MODULE EventPipeline ----------------------------
(***************************************************************************)
(* From the outbox to the statistics: the relay (events/relay.js) in every *)
(* worker process, elected by LeaderLock; Kafka (events/kafka.js); and the *)
(* analytics consumer group (consumers/analytics.js) with its idempotent   *)
(* processor (events/analyticsProcessor.js).                               *)
(*                                                                         *)
(* The events are those of one run: they have one key, hence one partition *)
(* of the topic. An event is named by the rank of its _id. The _id is made *)
(* by the process that emits the event, so the order of ids and the order  *)
(* of commits need not agree.                                              *)
(***************************************************************************)
EXTENDS LeaderLock, Sequences

CONSTANTS
  Event,      \* the events of the run, ordered by _id
  Consumer,   \* members of the consumer group "analytics"
  BatchSize,  \* rows read by one relayOnce
  Rounds,     \* relayOnce calls of one tick
  MaxExpiries \* bound: how often a ProcessedEvent row of one event expires

ASSUME PipelineAssumption ==
  /\ Event \subseteq Nat \ {0}
  /\ BatchSize \in Nat \ {0}
  /\ Rounds \in Nat \ {0}
  /\ MaxExpiries \in Nat

VARIABLES
  broker,     \* Kafka can be reached
  relayless,  \* the processes that run without a relay
  outbox,     \* OutboxEvent rows in the order of their commits
  published,  \* the rows whose publishedAt is set
  batch,      \* per process: the rows its relayOnce has read
  round,      \* per process: relayOnce calls of this tick
  topic,      \* the partition's log
  owner,      \* the group member the partition is assigned to
  position,   \* the owner's next index in the log
  offset,     \* the committed offset: messages 1 .. offset are done with
  inflight,   \* per member: the event eachMessage is working on, 0 for none
  processed,  \* ProcessedEvent rows of the group
  counted,    \* EventStat: how often each event has been counted
  expiries    \* history: how often its ProcessedEvent row has expired

bootVars     == <<broker, relayless>>
relayVars    == <<outbox, published, batch, round>>
consumerVars == <<owner, position, offset, inflight, processed, counted, expiries>>
pipeVars == <<lockVars, bootVars, relayVars, topic, consumerVars>>

Elements(s) == {s[i] : i \in DOMAIN s}

\* Mutant: a cursor, "newer than the last one published", for publishedAt.
NewerThanPublished == {e \in Elements(outbox) : \A f \in published : f < e}

\* The rows with publishedAt: null.
Unpublished == Elements(outbox) \ published

\* What find({ publishedAt: null }).sort({ _id: 1 }).limit(batchSize) returns.
OldestRows ==
  {s \in UNION {[1 .. n -> Unpublished] : n \in 1 .. BatchSize} :
     /\ \A i, j \in DOMAIN s : i < j => s[i] < s[j]
     /\ \A e \in Unpublished \ Elements(s) :
          Len(s) = BatchSize /\ \A i \in DOMAIN s : s[i] < e}

\* The processes of up are running already, started while Kafka was away.
StartsWith(up) ==
  /\ LockInit(FALSE) /\ relayless = up /\ broker \in BOOLEAN
  /\ outbox = <<>> /\ published = {} /\ topic = <<>>
  /\ batch = [p \in Proc |-> <<>>]
  /\ round = [p \in Proc |-> 0]
  /\ owner \in Consumer
  /\ position = 1 /\ offset = 0
  /\ inflight = [c \in Consumer |-> 0]
  /\ processed = {}
  /\ counted = [e \in Event |-> 0]
  /\ expiries = [e \in Event |-> 0]

PipeInit == StartsWith({})

\* A transaction of the engine commits with the event it emits.
Commit(e) ==
  /\ e \notin Elements(outbox)
  /\ outbox' = Append(outbox, e)
  /\ UNCHANGED <<lockVars, bootVars, published, batch, round, topic, consumerVars>>

-----------------------------------------------------------------------------
(* worker.js: a relay only for the process that reaches Kafka as it starts. *)

Boot(p) ==
  /\ ~timer[p] /\ p \notin relayless
  /\ IF broker THEN Restart(p) /\ UNCHANGED relayless
     ELSE relayless' = relayless \cup {p} /\ UNCHANGED lockVars
  /\ batch' = [batch EXCEPT ![p] = <<>>]
  /\ round' = [round EXCEPT ![p] = 0]
  /\ UNCHANGED <<broker, outbox, published, topic, consumerVars>>

\* A process without a relay ends.
Exit(p) ==
  /\ p \in relayless
  /\ Fault
  /\ relayless' = relayless \ {p}
  /\ UNCHANGED <<key, tokens, fence, held, fresh, phase, timer,
                 broker, relayVars, topic, consumerVars>>

BrokerFails ==
  /\ broker
  /\ Fault
  /\ broker' = FALSE
  /\ UNCHANGED <<key, tokens, fence, held, fresh, phase, timer,
                 relayless, relayVars, topic, consumerVars>>

BrokerBack ==
  /\ ~broker
  /\ broker' = TRUE
  /\ UNCHANGED <<lockVars, relayless, relayVars, topic, consumerVars>>

-----------------------------------------------------------------------------
(* The relay.                                                              *)

Election(p) ==
  /\ Elect(p) \/ TickFails(p) \/ Stop(p) \/ Crash(p)
  /\ round' = IF phase'[p] = "idle" THEN [round EXCEPT ![p] = 0] ELSE round
  /\ batch' = IF phase'[p] = "idle" THEN [batch EXCEPT ![p] = <<>>] ELSE batch
  /\ UNCHANGED <<bootVars, outbox, published, topic, consumerVars>>

KeyExpires ==
  /\ Expire
  /\ UNCHANGED <<bootVars, relayVars, topic, consumerVars>>

\* relayOnce reads the oldest rows; none ends the tick.
ReadBatch(p) ==
  /\ phase[p] = "work"
  /\ IF Unpublished = {}
     THEN /\ GoTo(p, "idle")
          /\ round' = [round EXCEPT ![p] = 0]
          /\ UNCHANGED batch
     ELSE /\ GoTo(p, "publish")
          /\ \E s \in OldestRows : batch' = [batch EXCEPT ![p] = s]
          /\ UNCHANGED round
  /\ UNCHANGED <<key, tokens, fence, held, fresh, timer, faults, bootVars,
                 outbox, published, topic, consumerVars>>

Publish(p) ==
  /\ phase[p] = "publish" /\ broker
  /\ topic' = topic \o batch[p]
  /\ GoTo(p, "mark")
  /\ UNCHANGED <<key, tokens, fence, held, fresh, timer, faults, bootVars,
                 relayVars, consumerVars>>

\* producer.send throws: Kafka is away, or may have written the messages.
PublishFails(p) ==
  /\ phase[p] = "publish"
  /\ IF broker THEN Fault /\ topic' \in {topic, topic \o batch[p]}
     ELSE UNCHANGED <<faults, topic>>
  /\ GoTo(p, "idle")
  /\ batch' = [batch EXCEPT ![p] = <<>>]
  /\ round' = [round EXCEPT ![p] = 0]
  /\ UNCHANGED <<key, tokens, fence, held, fresh, timer, bootVars,
                 outbox, published, consumerVars>>

\* Mutant: updateMany on { publishedAt: null }, not on the ids that were read.
MarkAllUnpublished(p) == Elements(outbox)

\* The filter of the updateMany: the rows that were read.
Marked(p) == Elements(batch[p])

\* for (let i = 0; i < 20; i++)
HasRound(p) == round[p] + 1 < Rounds

\* updateMany sets publishedAt; then the next round, or the end of the tick.
MarkPublished(p) ==
  /\ phase[p] = "mark"
  /\ published' = published \cup Marked(p)
  /\ batch' = [batch EXCEPT ![p] = <<>>]
  /\ IF HasRound(p)
     THEN GoTo(p, "work") /\ round' = [round EXCEPT ![p] = @ + 1]
     ELSE GoTo(p, "idle") /\ round' = [round EXCEPT ![p] = 0]
  /\ UNCHANGED <<key, tokens, fence, held, fresh, timer, faults, bootVars,
                 outbox, topic, consumerVars>>

RelayStep(p) == ReadBatch(p) \/ Publish(p) \/ MarkPublished(p)

-----------------------------------------------------------------------------
(* The consumer group.                                                     *)

Deliver(c) ==
  /\ c = owner /\ inflight[c] = 0 /\ broker
  /\ position <= Len(topic)
  /\ inflight' = [inflight EXCEPT ![c] = topic[position]]
  /\ UNCHANGED <<lockVars, bootVars, relayVars, topic, owner, position, offset,
                 processed, counted, expiries>>

\* Mutant: the effect without the ProcessedEvent insert deciding.
IsNewAlways(e) == e \in Event

\* The unique index on (consumer, eventId) accepts the insert.
IsNew(e) == e \notin processed

\* process(): marker and count in one transaction, or neither; the member
\* then moves on to its next message.
Process(c) ==
  /\ inflight[c] # 0
  /\ IF IsNew(inflight[c])
     THEN /\ processed' = processed \cup {inflight[c]}
          /\ counted' = [counted EXCEPT ![inflight[c]] = @ + 1]
     ELSE UNCHANGED <<processed, counted>>
  /\ inflight' = [inflight EXCEPT ![c] = 0]
  /\ position' = IF c = owner THEN position + 1 ELSE position
  /\ UNCHANGED <<lockVars, bootVars, relayVars, topic, owner, offset, expiries>>

\* kafkajs commits the offset of what eachMessage has returned from.
CommitOffset ==
  /\ offset < position - 1 /\ broker
  /\ offset' = position - 1
  /\ UNCHANGED <<lockVars, bootVars, relayVars, topic, owner, position, inflight,
                 processed, counted, expiries>>

\* The partition moves to member c, a new one or the old one restarted. The
\* former owner may still be inside eachMessage.
Rebalance(c) ==
  /\ Fault
  /\ owner' = c
  /\ position' = offset + 1
  /\ inflight' = [inflight EXCEPT ![c] = 0]
  /\ UNCHANGED <<key, tokens, fence, held, fresh, phase, timer, bootVars,
                 relayVars, topic, offset, processed, counted, expiries>>

\* The TTL index on processedAt: 30 days later the row is gone, though a relay
\* or the log may still hold the event.
MarkerExpires(e) ==
  /\ e \in processed /\ expiries[e] < MaxExpiries
  /\ processed' = processed \ {e}
  /\ expiries' = [expiries EXCEPT ![e] = @ + 1]
  /\ UNCHANGED <<lockVars, bootVars, relayVars, topic, owner, position, offset,
                 inflight, counted>>

ConsumerStep(c) == Deliver(c) \/ Process(c)

-----------------------------------------------------------------------------

PipeNext ==
  \/ \E e \in Event : Commit(e)
  \/ BrokerFails \/ BrokerBack
  \/ \E p \in Proc : Boot(p) \/ Exit(p) \/ Election(p) \/ RelayStep(p) \/ PublishFails(p)
  \/ KeyExpires
  \/ \E c \in Consumer : ConsumerStep(c) \/ Rebalance(c)
  \/ CommitOffset
  \/ \E e \in Event : MarkerExpires(e)

PipeSpec == PipeInit /\ [][PipeNext]_pipeVars

\* A process that ended is started again (docker-compose.yml, "restart:
\* unless-stopped"), but none is told to end; intervals fire, ticks and
\* eachMessage run on, Kafka comes back, and an abandoned key expires.
PipeFairness ==
  /\ \A p \in Proc :
       /\ WF_pipeVars(Elect(p) /\ Election(p))
       /\ WF_pipeVars(Boot(p))
       /\ WF_pipeVars(RelayStep(p))
  /\ WF_pipeVars(BrokerBack)
  /\ WF_pipeVars(~Renewed /\ KeyExpires)
  /\ \A c \in Consumer : WF_pipeVars(ConsumerStep(c))

FairPipeSpec == PipeSpec /\ PipeFairness

-----------------------------------------------------------------------------
(* Properties.                                                             *)

\* No event is lost between MongoDB and Kafka: a row marked published is in
\* the log, whatever crashed, and whoever else was relaying.
NothingLost == published \subseteq Elements(topic)

\* Everything below the committed offset is counted, and an event once for
\* every life of its ProcessedEvent row: republished batches, redelivered
\* messages and a member that lost its partition in the middle of a message
\* change no statistic, until the TTL index has removed the row ("a redelivery
\* older than that would be counted again", docs/kafka.md:58-59).
CountedOnce ==
  /\ \A i \in 1 .. offset : counted[topic[i]] >= 1
  /\ \A e \in Event : counted[e] <= 1 + expiries[e]

\* Every committed event is counted in the end, though leaders die, the lock
\* is lost, Kafka goes away and comes back and the partition moves: all it
\* takes is that not every process was started while Kafka was away.
EveryEventCounted ==
  \/ <>[](relayless = Proc)
  \/ \A e \in Event : (e \in Elements(outbox)) ~> (counted[e] >= 1)

\* "events go out once Kafka is back" (docs/kafka.md:51): Kafka always comes
\* back here, but workers that were started before never look again.
EventsGoOutOnceBack ==
  \A e \in Event : (e \in Elements(outbox)) ~> (e \in Elements(topic))
=============================================================================
