-------------------------- MODULE EventPipelineProofs --------------------------
(***************************************************************************)
(* No event is lost on its way to Kafka, and none is counted again while   *)
(* its ProcessedEvent row lives, for any number of relays and group        *)
(* members, any batch size, any faults and any number of rows that expire. *)
(* The lock plays no part in that proof: the pipeline is safe whoever      *)
(* relays, as relay.js and docs/kafka.md promise. What the lock does       *)
(* guarantee is the last part.                                             *)
(***************************************************************************)
EXTENDS EventPipeline, TLAPS

\* Types of what the argument reads; the lock's variables are left out.
PipeType ==
  /\ phase \in [Proc -> {"idle", "acquire", "incr", "work", "publish", "mark"}]
  /\ topic \in Seq(Event) /\ batch \in [Proc -> Seq(Event)]
  /\ outbox \in Seq(Event)
  /\ owner \in Consumer /\ position \in Nat \ {0} /\ offset \in Nat
  /\ inflight \in [Consumer -> {0} \cup Event]
  /\ processed \subseteq Event
  /\ counted \in [Event -> Nat] /\ expiries \in [Event -> Nat]

\* What a relay is about to mark is in the log already.
MarkedIsSent ==
  \A p \in Proc : phase[p] = "mark" => Elements(batch[p]) \subseteq Elements(topic)

\* An event is counted once for each ProcessedEvent row it has had: the ones
\* that expired, and the one that lives.
CountIsMarker ==
  \A e \in Event : counted[e] = expiries[e] + (IF e \in processed THEN 1 ELSE 0)

\* The owner has passed only messages whose event is counted, commits no
\* offset ahead of itself, and works on the message at its position.
OwnerInLine ==
  /\ offset < position /\ position <= Len(topic) + 1
  /\ \A i \in 1 .. Len(topic) : i < position => counted[topic[i]] >= 1
  /\ inflight[owner] # 0 => position <= Len(topic) /\ inflight[owner] = topic[position]

\* The inductive invariant.
PipeInv == PipeType /\ NothingLost /\ MarkedIsSent /\ CountIsMarker /\ OwnerInLine

-----------------------------------------------------------------------------

\* Appending a batch to the log keeps what was in it, at its place.
LEMMA LogGrows ==
  ASSUME NEW s \in Seq(Event), NEW b \in Seq(Event)
  PROVE  /\ s \o b \in Seq(Event)
         /\ Len(s \o b) = Len(s) + Len(b)
         /\ \A i \in 1 .. Len(s) : (s \o b)[i] = s[i]
         /\ Elements(s \o b) = Elements(s) \cup Elements(b)
<1>1. /\ s \o b \in Seq(Event)
      /\ Len(s \o b) = Len(s) + Len(b)
      /\ \A i \in 1 .. Len(s) : (s \o b)[i] = s[i]
      /\ \A i \in 1 .. Len(b) : (s \o b)[Len(s) + i] = b[i]
  OBVIOUS
<1>2. DOMAIN s = 1 .. Len(s) /\ DOMAIN b = 1 .. Len(b)
      /\ DOMAIN (s \o b) = 1 .. Len(s) + Len(b)
  OBVIOUS
<1>3. Elements(s \o b) \subseteq Elements(s) \cup Elements(b)
  <2> SUFFICES ASSUME NEW i \in 1 .. Len(s) + Len(b)
               PROVE  (s \o b)[i] \in Elements(s) \cup Elements(b)
    BY <1>2 DEF Elements
  <2>1. CASE i \in 1 .. Len(s)
    BY <1>1, <1>2, <2>1 DEF Elements
  <2>2. CASE i \notin 1 .. Len(s)
    <3>1. Len(s) \in Nat /\ Len(b) \in Nat
      OBVIOUS
    <3>2. i - Len(s) \in 1 .. Len(b) /\ i = Len(s) + (i - Len(s))
      BY <2>2, <3>1
    <3>3. (s \o b)[i] = b[i - Len(s)]
      BY <1>1, <3>2
    <3> QED
      BY <1>2, <3>2, <3>3 DEF Elements
  <2> QED
    BY <2>1, <2>2
<1>4. Elements(s) \subseteq Elements(s \o b)
  BY <1>1, <1>2 DEF Elements
<1>5. Elements(b) \subseteq Elements(s \o b)
  <2> SUFFICES ASSUME NEW i \in 1 .. Len(b)
               PROVE  b[i] \in Elements(s \o b)
    BY <1>2 DEF Elements
  <2>1. Len(s) + i \in 1 .. Len(s) + Len(b)
    OBVIOUS
  <2> QED
    BY <1>1, <1>2, <2>1 DEF Elements
<1> QED
  BY <1>1, <1>3, <1>4, <1>5

\* An empty log, an empty outbox: the invariant holds at the start.
LEMMA InitPipe == PipeInit => PipeInv
<1> SUFFICES ASSUME PipeInit PROVE PipeInv
  OBVIOUS
<1>1. PipeType
  BY DEF PipeInit, StartsWith, LockInit, PipeType
<1>2. NothingLost /\ MarkedIsSent
  BY DEF PipeInit, StartsWith, LockInit, NothingLost, MarkedIsSent
<1>3. CountIsMarker
  BY DEF PipeInit, StartsWith, CountIsMarker
<1>4. OwnerInLine
  BY DEF PipeInit, StartsWith, OwnerInLine
<1> QED
  BY <1>1, <1>2, <1>3, <1>4 DEF PipeInv

\* Rows committed by the engine concern nothing downstream.
LEMMA CommitPipe == ASSUME PipeInv, NEW e \in Event, Commit(e) PROVE PipeInv'
<1>1. UNCHANGED <<phase, topic, batch, published, consumerVars>>
  BY DEF Commit, lockVars
<1>2. PipeType'
  BY <1>1 DEF PipeInv, PipeType, Commit, consumerVars
<1> QED
  BY <1>1, <1>2 DEF PipeInv, NothingLost, MarkedIsSent, CountIsMarker, OwnerInLine,
                    consumerVars

\* Elections, failed ticks, stops, crashes and restarts: a process enters
\* "mark" by none of them, and its batch changes only when its tick ends.
LEMMA ElectionPipe == ASSUME PipeInv, NEW p \in Proc, Election(p) PROVE PipeInv'
<1>1. UNCHANGED <<outbox, published, topic, consumerVars>>
  BY DEF Election
<1>2. \/ phase' = phase
      \/ \E s \in {"idle", "acquire", "incr", "work"} : GoTo(p, s)
  BY DEF Election, Elect, Extend, SetNx, Incr, TickFails, Stop, Crash
<1>3. phase' \in [Proc -> {"idle", "acquire", "incr", "work", "publish", "mark"}]
      /\ \A q \in Proc : phase'[q] = "mark" => phase[q] = "mark"
  BY <1>2 DEF PipeInv, PipeType, GoTo
<1>4. batch' \in [Proc -> Seq(Event)]
      /\ \A q \in Proc : phase'[q] = "mark" => batch'[q] = batch[q]
  <2>1. CASE phase'[p] = "idle"
    <3>1. batch' = [batch EXCEPT ![p] = <<>>]
      BY <2>1 DEF Election
    <3>2. <<>> \in Seq(Event)
      OBVIOUS
    <3> QED
      BY <2>1, <3>1, <3>2 DEF PipeInv, PipeType
  <2>2. CASE phase'[p] # "idle"
    BY <2>2 DEF Election, PipeInv, PipeType
  <2> QED
    BY <2>1, <2>2
<1>5. PipeType'
  BY <1>1, <1>3, <1>4 DEF PipeInv, PipeType, consumerVars
<1>6. MarkedIsSent'
  BY <1>1, <1>3, <1>4 DEF PipeInv, MarkedIsSent, Elements
<1> QED
  BY <1>1, <1>5, <1>6 DEF PipeInv, NothingLost, CountIsMarker, OwnerInLine,
                          consumerVars

\* A process starts, and its batch, if it had one, is forgotten.
LEMMA BootPipe == ASSUME PipeInv, NEW p \in Proc, Boot(p) PROVE PipeInv'
<1>1. UNCHANGED <<outbox, published, topic, consumerVars>>
  BY DEF Boot
<1>2. phase' \in [Proc -> {"idle", "acquire", "incr", "work", "publish", "mark"}]
      /\ \A q \in Proc : phase'[q] = "mark" => phase[q] = "mark"
  BY DEF Boot, Restart, GoTo, lockVars, PipeInv, PipeType
<1>3. batch' \in [Proc -> Seq(Event)] /\ Elements(batch'[p]) = {}
      /\ \A q \in Proc \ {p} : batch'[q] = batch[q]
  <2>1. batch' = [batch EXCEPT ![p] = <<>>] /\ <<>> \in Seq(Event) /\ DOMAIN <<>> = {}
    BY DEF Boot
  <2> QED BY <2>1 DEF PipeInv, PipeType, Elements
<1>4. PipeType'
  BY <1>1, <1>2, <1>3 DEF PipeInv, PipeType, consumerVars
<1>5. MarkedIsSent'
  BY <1>1, <1>2, <1>3 DEF PipeInv, MarkedIsSent, Elements
<1> QED
  BY <1>1, <1>4, <1>5 DEF PipeInv, NothingLost, CountIsMarker, OwnerInLine,
                          consumerVars

\* A relay reads, sends and marks, or fails to send.
LEMMA RelayPipe ==
  ASSUME PipeInv, NEW p \in Proc, RelayStep(p) \/ PublishFails(p)
  PROVE  PipeInv'
<1>0. UNCHANGED <<outbox, consumerVars>>
  BY DEF RelayStep, ReadBatch, Publish, MarkPublished, PublishFails, relayVars
<1>t. topic \in Seq(Event) /\ batch[p] \in Seq(Event)
  BY DEF PipeInv, PipeType
<1>e. <<>> \in Seq(Event)
  OBVIOUS
<1>1. \/ topic' = topic
      \/ topic' = topic \o batch[p]
  BY DEF RelayStep, ReadBatch, Publish, MarkPublished, PublishFails
<1>2. topic' \in Seq(Event) /\ Elements(topic) \subseteq Elements(topic')
      /\ Len(topic') >= Len(topic)
      /\ \A i \in 1 .. Len(topic) : topic'[i] = topic[i]
  <2>1. CASE topic' = topic
    <3>1. Len(topic) \in Nat
      BY <1>t
    <3> QED
      BY <2>1, <3>1, <1>t
  <2>2. CASE topic' = topic \o batch[p]
    <3> DEFINE t == topic \o batch[p]
    <3>1. /\ t \in Seq(Event) /\ Len(t) = Len(topic) + Len(batch[p])
          /\ \A i \in 1 .. Len(topic) : t[i] = topic[i]
          /\ Elements(t) = Elements(topic) \cup Elements(batch[p])
      BY <1>t, LogGrows
    <3>2. Len(topic) \in Nat /\ Len(batch[p]) \in Nat
      BY <1>t
    <3>3. topic' = t
      BY <2>2
    <3> HIDE DEF t
    <3> QED
      BY <3>1, <3>2, <3>3
  <2> QED
    BY <1>1, <2>1, <2>2
<1>3. batch' \in [Proc -> Seq(Event)]
  <2>1. CASE ReadBatch(p)
    <3>1. CASE Unpublished = {}
      BY <2>1, <3>1 DEF ReadBatch, PipeInv, PipeType
    <3>2. CASE Unpublished # {}
      <4>1. PICK s \in OldestRows : batch' = [batch EXCEPT ![p] = s]
        BY <2>1, <3>2 DEF ReadBatch
      <4>2. PICK n \in 1 .. BatchSize : s \in [1 .. n -> Unpublished]
        BY DEF OldestRows
      <4>3. Unpublished \subseteq Event
        BY DEF Unpublished, Elements, PipeInv, PipeType
      <4>4. n \in Nat /\ s \in [1 .. n -> Event]
        <5>1. n \in Nat
          BY PipelineAssumption
        <5>2. DOMAIN s = 1 .. n /\ \A i \in 1 .. n : s[i] \in Event
          BY <4>2, <4>3
        <5>3. s = [i \in 1 .. n |-> s[i]]
          BY <4>2
        <5> QED
          BY <5>1, <5>2, <5>3
      <4>5. s \in Seq(Event)
        BY <4>4
      <4> QED
        BY <4>1, <4>5 DEF PipeInv, PipeType
    <3> QED
      BY <3>1, <3>2
  <2>2. CASE Publish(p)
    BY <2>2 DEF Publish, relayVars, PipeInv, PipeType
  <2>3. CASE MarkPublished(p) \/ PublishFails(p)
    BY <2>3, <1>e DEF MarkPublished, PublishFails, PipeInv, PipeType
  <2> QED
    BY <2>1, <2>2, <2>3 DEF RelayStep
<1>4. phase' \in [Proc -> {"idle", "acquire", "incr", "work", "publish", "mark"}]
      /\ \A q \in Proc \ {p} : phase'[q] = phase[q] /\ batch'[q] = batch[q]
  BY DEF RelayStep, ReadBatch, Publish, MarkPublished, PublishFails, GoTo,
         relayVars, PipeInv, PipeType
<1>5. PipeType'
  BY <1>0, <1>2, <1>3, <1>4 DEF PipeInv, PipeType, consumerVars
<1>6. phase'[p] = "mark" => Elements(batch'[p]) \subseteq Elements(topic')
  <2> SUFFICES ASSUME phase'[p] = "mark"
               PROVE  Elements(batch'[p]) \subseteq Elements(topic')
    OBVIOUS
  <2>1. Publish(p)
    BY DEF RelayStep, ReadBatch, MarkPublished, PublishFails, GoTo, PipeInv, PipeType
  <2>2. topic' = topic \o batch[p] /\ batch' = batch
    BY <2>1 DEF Publish, relayVars
  <2> QED
    BY <2>2, <1>t, LogGrows
<1>7. MarkedIsSent'
  BY <1>2, <1>4, <1>6 DEF PipeInv, MarkedIsSent, Elements
<1>8. NothingLost'
  <2>1. CASE MarkPublished(p)
    <3>1. Elements(batch[p]) \subseteq Elements(topic)
      BY <2>1 DEF MarkPublished, PipeInv, MarkedIsSent
    <3>2. published' = published \cup Elements(batch[p]) /\ topic' = topic
      BY <2>1 DEF MarkPublished, Marked
    <3> QED
      BY <3>1, <3>2 DEF PipeInv, NothingLost
  <2>2. CASE ~MarkPublished(p)
    <3>1. published' = published
      BY <2>2 DEF RelayStep, ReadBatch, Publish, PublishFails, relayVars
    <3> QED
      BY <1>2, <3>1 DEF PipeInv, NothingLost
  <2> QED
    BY <2>1, <2>2
<1>9. CountIsMarker'
  BY <1>0 DEF PipeInv, CountIsMarker, consumerVars
<1>10. OwnerInLine'
  <2>1. Len(topic) \in Nat /\ Len(topic') \in Nat /\ position \in Nat
    BY <1>t, <1>2 DEF PipeInv, PipeType
  <2>2. position' = position /\ offset' = offset /\ owner' = owner
        /\ inflight' = inflight /\ counted' = counted
    BY <1>0 DEF consumerVars
  <2>3. \A i \in 1 .. Len(topic') : i < position => counted[topic'[i]] >= 1
    <3> SUFFICES ASSUME NEW i \in 1 .. Len(topic'), i < position
                 PROVE  counted[topic'[i]] >= 1
      OBVIOUS
    <3>1. i \in 1 .. Len(topic)
      BY <2>1 DEF PipeInv, OwnerInLine
    <3> QED
      BY <1>2, <3>1 DEF PipeInv, OwnerInLine
  <2>4. ASSUME inflight[owner] # 0
        PROVE  position <= Len(topic') /\ inflight[owner] = topic'[position]
    <3>1. position <= Len(topic) /\ inflight[owner] = topic[position]
      BY <2>4 DEF PipeInv, OwnerInLine
    <3>2. position \in 1 .. Len(topic)
      BY <3>1, <2>1 DEF PipeInv, PipeType
    <3> QED
      BY <1>2, <2>1, <3>1, <3>2
  <2> QED
    BY <1>2, <2>1, <2>2, <2>3, <2>4 DEF PipeInv, OwnerInLine
<1> QED
  BY <1>5, <1>7, <1>8, <1>9, <1>10 DEF PipeInv

\* A message is delivered, processed or skipped as a duplicate, its offset is
\* committed, and the partition moves.
LEMMA ConsumerPipe ==
  ASSUME PipeInv, NEW c \in Consumer,
         ConsumerStep(c) \/ Rebalance(c) \/ CommitOffset
  PROVE  PipeInv'
<1>1. UNCHANGED <<phase, batch, outbox, published, topic>>
  BY DEF ConsumerStep, Deliver, Process, Rebalance, CommitOffset, lockVars, relayVars
<1>2. NothingLost' /\ MarkedIsSent'
  BY <1>1 DEF PipeInv, NothingLost, MarkedIsSent, Elements
<1>3. Len(topic) \in Nat /\ DOMAIN topic = 1 .. Len(topic)
      /\ \A i \in 1 .. Len(topic) : topic[i] \in Event
  BY DEF PipeInv, PipeType
<1>0. Event \subseteq Nat \ {0}
  BY PipelineAssumption
<1>4. CASE Deliver(c)
  <2>1. position \in 1 .. Len(topic) /\ topic[position] \in Event
    BY <1>3, <1>4 DEF Deliver, PipeInv, PipeType
  <2>2. PipeType'
    BY <1>1, <1>4, <2>1 DEF Deliver, PipeInv, PipeType
  <2>3. CountIsMarker'
    BY <1>4 DEF Deliver, PipeInv, CountIsMarker
  <2>4. OwnerInLine'
    BY <1>1, <1>4, <2>1 DEF Deliver, PipeInv, PipeType, OwnerInLine
  <2> QED
    BY <1>2, <2>2, <2>3, <2>4 DEF PipeInv
<1>5. CASE Process(c)
  <2> DEFINE e == inflight[c]
  <2>1. e \in Event
    BY <1>5 DEF Process, PipeInv, PipeType
  <2>2. processed' = processed \cup {e} /\ expiries' = expiries
    BY <1>5 DEF Process, IsNew
  <2>3. /\ counted' \in [Event -> Nat] /\ CountIsMarker'
        /\ counted'[e] >= 1 /\ \A f \in Event : counted'[f] >= counted[f]
    <3>1. CASE IsNew(e)
      <4>1. counted' = [counted EXCEPT ![e] = @ + 1]
        BY <1>5, <3>1 DEF Process
      <4>2. counted[e] = expiries[e]
        BY <2>1, <3>1 DEF IsNew, PipeInv, PipeType, CountIsMarker
      <4> QED
        BY <2>1, <2>2, <4>1, <4>2 DEF PipeInv, PipeType, CountIsMarker
    <3>2. CASE ~IsNew(e)
      <4>1. counted' = counted /\ e \in processed
        BY <1>5, <3>2 DEF Process, IsNew
      <4> QED
        BY <2>1, <2>2, <4>1 DEF PipeInv, PipeType, CountIsMarker
    <3> QED
      BY <3>1, <3>2
  <2>4. inflight' = [inflight EXCEPT ![c] = 0] /\ owner' = owner /\ offset' = offset
        /\ position' = IF c = owner THEN position + 1 ELSE position
    BY <1>5 DEF Process
  <2>5. PipeType'
    BY <1>1, <2>1, <2>2, <2>3, <2>4 DEF PipeInv, PipeType
  <2>6. OwnerInLine'
    <3>1. CASE c = owner
      <4>1. position \in 1 .. Len(topic) /\ e = topic[position]
        BY <1>3, <1>5, <3>1 DEF Process, PipeInv, PipeType, OwnerInLine
      <4>2. inflight'[owner] = 0
        BY <2>4, <3>1 DEF PipeInv, PipeType
      <4>3. \A i \in 1 .. Len(topic) : i < position + 1 => counted'[topic[i]] >= 1
        <5> SUFFICES ASSUME NEW i \in 1 .. Len(topic), i < position + 1
                     PROVE  counted'[topic[i]] >= 1
          OBVIOUS
        <5>1. CASE i = position
          BY <2>3, <4>1, <5>1
        <5>2. CASE i < position
          BY <1>3, <2>3, <5>2 DEF PipeInv, PipeType, OwnerInLine
        <5> QED BY <1>3, <5>1, <5>2 DEF PipeInv, PipeType
      <4> QED
        BY <1>1, <1>3, <2>4, <3>1, <4>1, <4>2, <4>3
        DEF PipeInv, PipeType, OwnerInLine
    <3>2. CASE c # owner
      <4>1. inflight'[owner] = inflight[owner]
        BY <2>4, <3>2 DEF PipeInv, PipeType
      <4> QED
        BY <1>1, <1>3, <2>3, <2>4, <3>2, <4>1 DEF PipeInv, PipeType, OwnerInLine
    <3> QED
      BY <3>1, <3>2
  <2> QED
    BY <1>2, <2>3, <2>5, <2>6 DEF PipeInv
<1>6. CASE Rebalance(c)
  <2>1. PipeType'
    BY <1>1, <1>6 DEF Rebalance, PipeInv, PipeType
  <2>2. CountIsMarker'
    BY <1>6 DEF Rebalance, PipeInv, CountIsMarker
  <2>3. inflight'[c] = 0
    BY <1>6 DEF Rebalance, PipeInv, PipeType
  <2>4. OwnerInLine'
    BY <1>1, <1>3, <1>6, <2>3 DEF Rebalance, PipeInv, PipeType, OwnerInLine
  <2> QED
    BY <1>2, <2>1, <2>2, <2>4 DEF PipeInv
<1>7. CASE CommitOffset
  BY <1>1, <1>2, <1>7 DEF CommitOffset, PipeInv, PipeType, CountIsMarker, OwnerInLine
<1> QED
  BY <1>4, <1>5, <1>6, <1>7 DEF ConsumerStep

\* A ProcessedEvent row expires: its event stays counted.
LEMMA ExpiryPipe == ASSUME PipeInv, NEW e \in Event, MarkerExpires(e) PROVE PipeInv'
<1>1. UNCHANGED <<phase, batch, outbox, published, topic, owner, position, offset,
                  inflight, counted>>
  BY DEF MarkerExpires, lockVars, relayVars
<1>2. PipeType'
  BY <1>1 DEF PipeInv, PipeType, MarkerExpires
<1>3. NothingLost' /\ MarkedIsSent' /\ OwnerInLine'
  BY <1>1 DEF PipeInv, NothingLost, MarkedIsSent, OwnerInLine, Elements
<1>4. CountIsMarker'
  BY <1>1 DEF PipeInv, PipeType, CountIsMarker, MarkerExpires
<1> QED BY <1>2, <1>3, <1>4 DEF PipeInv

\* Every step of the pipeline keeps the invariant.
LEMMA NextPipe == PipeInv /\ [PipeNext]_pipeVars => PipeInv'
<1> SUFFICES ASSUME PipeInv, [PipeNext]_pipeVars PROVE PipeInv'
  OBVIOUS
<1>1. ASSUME NEW e \in Event, Commit(e) PROVE PipeInv'
  BY <1>1, CommitPipe
<1>2. ASSUME NEW p \in Proc, Election(p) PROVE PipeInv'
  BY <1>2, ElectionPipe
<1>3. ASSUME NEW p \in Proc, RelayStep(p) \/ PublishFails(p) PROVE PipeInv'
  BY <1>3, RelayPipe
<1>4. CASE KeyExpires \/ BrokerFails \/ BrokerBack \/ \E p \in Proc : Exit(p)
  <2>1. UNCHANGED <<phase, relayVars, topic, consumerVars>>
    BY <1>4 DEF KeyExpires, Expire, BrokerFails, BrokerBack, Exit, lockVars
  <2> QED
    BY <2>1 DEF relayVars, consumerVars, PipeInv, PipeType, NothingLost,
                MarkedIsSent, CountIsMarker, OwnerInLine
<1>5. ASSUME NEW c \in Consumer, ConsumerStep(c) \/ Rebalance(c) PROVE PipeInv'
  BY <1>5, ConsumerPipe
<1>6. CASE CommitOffset
  <2>1. owner \in Consumer
    BY DEF PipeInv, PipeType
  <2> QED
    BY <1>6, <2>1, ConsumerPipe
<1>7. CASE UNCHANGED pipeVars
  <2>1. UNCHANGED <<phase, relayVars, topic, consumerVars>>
    BY <1>7 DEF pipeVars, lockVars
  <2> QED
    BY <2>1 DEF relayVars, consumerVars, PipeInv, PipeType, NothingLost,
                MarkedIsSent, CountIsMarker, OwnerInLine
<1>8. ASSUME NEW p \in Proc, Boot(p) PROVE PipeInv'
  BY <1>8, BootPipe
<1>9. ASSUME NEW e \in Event, MarkerExpires(e) PROVE PipeInv'
  BY <1>9, ExpiryPipe
<1> QED
  BY <1>1, <1>2, <1>3, <1>4, <1>5, <1>6, <1>7, <1>8, <1>9 DEF PipeNext

\* The inductive invariant holds throughout.
THEOREM PipeInvariant == PipeSpec => []PipeInv
<1> QED
  BY InitPipe, NextPipe, PTL DEF PipeSpec

\* relay.js publishes before it marks, and marks only what it read: no event
\* is lost, with any number of relays at once and a failure at any step.
THEOREM NoEventLost == PipeSpec => []NothingLost
<1>1. PipeInv => NothingLost
  BY DEF PipeInv
<1> QED
  BY <1>1, PipeInvariant, PTL

\* analyticsProcessor.js inserts its marker and counts in one transaction:
\* whatever is republished or redelivered, every event below the committed
\* offset is counted, and none is counted again unless its marker has expired
\* since (analytics.model.js, the TTL index).
THEOREM EventsCountedOnce == PipeSpec => []CountedOnce
<1>1. PipeInv => CountedOnce
  <2> SUFFICES ASSUME PipeInv PROVE CountedOnce
    OBVIOUS
  <2>1. ASSUME NEW e \in Event PROVE counted[e] <= 1 + expiries[e]
    <3>1. expiries[e] \in Nat /\ counted[e] \in {expiries[e], expiries[e] + 1}
      BY DEF PipeInv, PipeType, CountIsMarker
    <3> QED BY <3>1
  <2>2. ASSUME NEW i \in 1 .. offset PROVE counted[topic[i]] >= 1
    <3>1. Len(topic) \in Nat
      BY DEF PipeInv, PipeType
    <3>2. i \in 1 .. Len(topic) /\ i < position
      BY <3>1 DEF PipeInv, PipeType, OwnerInLine
    <3> QED
      BY <3>2 DEF PipeInv, OwnerInLine
  <2> QED
    BY <2>1, <2>2 DEF CountedOnce
<1> QED
  BY <1>1, PipeInvariant, PTL

\* What EveryEventCounted needs besides fairness: no committed event is passed
\* over. Until it is counted, a relay will find its row unpublished, or the
\* group the message above its committed offset.
StillAhead ==
  \A e \in Elements(outbox) :
    \/ counted[e] >= 1
    \/ e \in Unpublished
    \/ \E i \in offset + 1 .. Len(topic) : topic[i] = e

\* Crashes, second relays, failed publishes and rebalances leave no event
\* behind (relayOnce, analyticsProcessor.js).
THEOREM NoEventPassedOver == PipeSpec => []StillAhead
<1>1. ASSUME NothingLost, CountedOnce, PipeInv PROVE StillAhead
  <2> SUFFICES ASSUME NEW e \in Elements(outbox), e \in published, ~(counted[e] >= 1)
               PROVE  \E i \in offset + 1 .. Len(topic) : topic[i] = e
    BY DEF StillAhead, Unpublished
  <2>1. Len(topic) \in Nat /\ DOMAIN topic = 1 .. Len(topic) /\ offset \in Nat
    BY <1>1 DEF PipeInv, PipeType
  <2>2. PICK i \in 1 .. Len(topic) : topic[i] = e
    BY <1>1, <2>1 DEF NothingLost, Elements
  <2>3. i \notin 1 .. offset
    BY <1>1, <2>2 DEF CountedOnce
  <2>4. i \in offset + 1 .. Len(topic)
    BY <2>1, <2>2, <2>3
  <2> QED BY <2>2, <2>4
<1>2. NothingLost /\ CountedOnce /\ PipeInv => StillAhead
  BY <1>1
<1> QED BY <1>2, NoEventLost, EventsCountedOnce, PipeInvariant, PTL

-----------------------------------------------------------------------------
(* The lock. A token is written once, so no two processes have the same    *)
(* one in memory. While nothing has failed, whoever remembers a token is   *)
(* ticking, which renews the key, so the token is the key's; and whoever   *)
(* leads remembers one.                                                    *)

LockType ==
  /\ key \in Nat /\ tokens \in Nat /\ faults \in Nat
  /\ held \in [Proc -> Nat] /\ fresh \in [Proc -> Nat]
  /\ timer \in [Proc -> BOOLEAN]
  /\ phase \in [Proc -> {"idle", "acquire", "incr", "work", "publish", "mark"}]

\* Tokens were written before, and each belongs to one process.
TokensOwned ==
  /\ key <= tokens
  /\ \A p \in Proc : held[p] <= tokens /\ fresh[p] <= tokens
  /\ \A p, q \in Proc : \A t \in {held[p], fresh[p]} :
       t \in {held[q], fresh[q]} /\ t # 0 => p = q

\* As long as nothing has failed.
Undisturbed ==
  faults = 0 => \A p \in Proc :
    /\ phase[p] # "acquire" /\ (phase[p] # "idle" => timer[p])
    /\ held[p] # 0 => held[p] = key /\ timer[p]
    /\ fresh[p] # 0 => fresh[p] = key /\ timer[p]
    /\ phase[p] = "incr" => fresh[p] # 0
    /\ Leading(p) => held[p] # 0

LockInv == LockType /\ TokensOwned /\ Undisturbed

\* No key, and nobody ticks.
LEMMA InitLock == PipeInit => LockInv
<1> SUFFICES ASSUME PipeInit PROVE LockInv
  OBVIOUS
<1>1. LockType
  BY DEF PipeInit, StartsWith, LockInit, LockType
<1> QED BY <1>1 DEF PipeInit, StartsWith, LockInit, LockInv, TokensOwned, Undisturbed,
                    Leading

\* An election, or what disturbs it.
LEMMA LockSteps ==
  ASSUME LockInv, NEW p \in Proc, Elect(p) \/ TickFails(p) \/ Stop(p) \/ Crash(p) \/ Restart(p)
  PROVE  LockInv'
<1> USE DEF LockInv, LockType, TokensOwned, Undisturbed, GoTo, Leading
<1>1. CASE Extend(p)
  BY <1>1 DEF Extend
<1>2. CASE SetNx(p)
  <2>1. CASE key = 0
    BY <1>2, <2>1 DEF SetNx
  <2>2. CASE key # 0
    BY <1>2, <2>2 DEF SetNx
  <2> QED BY <2>1, <2>2
<1>3. CASE Incr(p)
  BY <1>3 DEF Incr
<1>4. CASE TickFails(p)
  BY <1>4 DEF TickFails, Fault
<1>5. CASE Stop(p)
  BY <1>5 DEF Stop, Fault
<1>6. CASE Crash(p)
  BY <1>6 DEF Crash, Fault
<1>7. CASE Restart(p)
  BY <1>7 DEF Restart
<1> QED BY <1>1, <1>2, <1>3, <1>4, <1>5, <1>6, <1>7 DEF Elect

\* The key expires: while nothing has failed, nobody remembers its token.
LEMMA ExpireLock == ASSUME LockInv, Expire PROVE LockInv'
<1>1. CASE Renewed
  BY <1>1 DEF LockInv, LockType, TokensOwned, Undisturbed, Expire, Fault
<1>2. CASE ~Renewed
  BY <1>2 DEF LockInv, LockType, TokensOwned, Undisturbed, Expire, Renewed, Leading
<1> QED BY <1>1, <1>2

\* A step of the relay: the leader goes on, or its tick ends.
LEMMA RelayLock ==
  ASSUME LockInv, NEW p \in Proc, RelayStep(p) \/ PublishFails(p)
  PROVE  LockInv'
<1>1. /\ UNCHANGED <<key, tokens, held, fresh, timer>>
      /\ faults' \in Nat /\ (faults' = 0 => faults = 0)
      /\ Leading(p) /\ \E s \in {"idle", "work", "publish", "mark"} : GoTo(p, s)
  BY DEF RelayStep, ReadBatch, Publish, MarkPublished, PublishFails, Fault, Leading,
         LockInv, LockType
<1> QED BY <1>1 DEF LockInv, LockType, TokensOwned, Undisturbed, GoTo, Leading

\* A step that leaves the lock alone, and may be a fault.
LEMMA OtherLock ==
  ASSUME LockInv, UNCHANGED <<key, tokens, held, fresh, timer, phase>>,
         faults' = faults \/ Fault
  PROVE  LockInv'
BY DEF LockInv, LockType, TokensOwned, Undisturbed, Leading, Fault

\* Every step of the pipeline keeps the lock's invariant.
LEMMA NextLock == ASSUME LockInv, [PipeNext]_pipeVars PROVE LockInv'
<1>1. CASE \E p \in Proc : Election(p)
  BY <1>1, LockSteps DEF Election
<1>2. CASE \E p \in Proc : RelayStep(p) \/ PublishFails(p)
  BY <1>2, RelayLock
<1>3. CASE \E p \in Proc : Boot(p)
  <2>1. PICK p \in Proc : Boot(p)
    BY <1>3
  <2>2. Restart(p) \/ UNCHANGED lockVars
    BY <2>1 DEF Boot
  <2> QED BY <2>2, LockSteps, OtherLock DEF lockVars
<1>4. CASE KeyExpires
  BY <1>4, ExpireLock DEF KeyExpires
<1>5. CASE \/ \E e \in Event : Commit(e)
           \/ BrokerFails \/ BrokerBack \/ \E p \in Proc : Exit(p)
           \/ \E c \in Consumer : ConsumerStep(c) \/ Rebalance(c)
           \/ CommitOffset \/ (\E e \in Event : MarkerExpires(e)) \/ UNCHANGED pipeVars
  <2>1. UNCHANGED <<key, tokens, held, fresh, timer, phase>> /\ (faults' = faults \/ Fault)
    BY <1>5 DEF Commit, BrokerFails, BrokerBack, Exit, ConsumerStep, Deliver, Process,
                Rebalance, CommitOffset, MarkerExpires, pipeVars, lockVars
  <2> QED BY <2>1, OtherLock
<1> QED BY <1>1, <1>2, <1>3, <1>4, <1>5 DEF PipeNext

\* lock.js elects one leader at a time among any number of processes as long as
\* nothing fails or outlasts its TTL, and whatever fails, at most one process
\* can renew or release the key.
THEOREM OneLeaderTheorem == PipeSpec => []OneLeader
<1>1. LockInv => OneLeader
  BY DEF LockInv, LockType, TokensOwned, Undisturbed, OneLeader
<1> QED BY <1>1, InitLock, NextLock, PTL DEF PipeSpec
=============================================================================
