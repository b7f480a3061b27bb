--------------------------- MODULE TaskQueueProofs ---------------------------
(***************************************************************************)
(* The Redis scripts keep the queue a partition, for any number of ids,    *)
(* any batch limit and any callers.                                        *)
(*                                                                         *)
(* QueuePartition is inductive together with the types. Every script moves *)
(* ids between the three structures or adds/removes one id, so the proof   *)
(* goes through what a step does to ReadyIds, LeasedIds and DelayedIds.    *)
(***************************************************************************)
EXTENDS TaskQueue, SequenceTheorems, TLAPS

\* The list holds no id twice.
NoDuplicates == \A i, j \in DOMAIN ready : ready[i] = ready[j] => i = j

QueueInv == QueueTypeOK /\ QueuePartition

\* Appending an id that is not in the list.
LEMMA AppendFacts ==
  ASSUME QueueTypeOK, NoDuplicates, NEW t \in Task, t \notin ReadyIds,
         ready' = Append(ready, t)
  PROVE  /\ ready' \in Seq(Task)
         /\ ReadyIds' = ReadyIds \cup {t}
         /\ NoDuplicates'
<1>1. ready \in Seq(Task)
  BY DEF QueueTypeOK
<1>2. /\ ready' \in Seq(Task) /\ Len(ready') = Len(ready) + 1
      /\ \A i \in 1 .. Len(ready) : ready'[i] = ready[i]
      /\ ready'[Len(ready) + 1] = t
  BY <1>1, AppendProperties
<1>3. DOMAIN ready = 1 .. Len(ready) /\ DOMAIN ready' = 1 .. Len(ready) + 1
      /\ Len(ready) \in Nat
  BY <1>1, <1>2
<1>4. ReadyIds' = ReadyIds \cup {t}
  BY <1>2, <1>3 DEF ReadyIds
<1>5. NoDuplicates'
  BY <1>2, <1>3 DEF NoDuplicates, ReadyIds
<1> QED BY <1>2, <1>4, <1>5

\* Popping the head of a list without duplicates.
LEMMA TailFacts ==
  ASSUME QueueTypeOK, NoDuplicates, ready # <<>>, ready' = Tail(ready)
  PROVE  /\ ready' \in Seq(Task)
         /\ Head(ready) \in Task /\ Head(ready) \in ReadyIds
         /\ ReadyIds' = ReadyIds \ {Head(ready)}
         /\ NoDuplicates'
<1>1. ready \in Seq(Task)
  BY DEF QueueTypeOK
<1>2. /\ Len(ready) \in Nat \ {0} /\ DOMAIN ready = 1 .. Len(ready)
      /\ Head(ready) = ready[1] /\ Head(ready) \in Task
  BY <1>1, EmptySeq, HeadTailProperties
<1>3. /\ ready' \in Seq(Task) /\ Len(ready') = Len(ready) - 1
      /\ \A i \in 1 .. Len(ready') : ready'[i] = ready[i + 1]
  BY <1>1, HeadTailProperties
<1>4. DOMAIN ready' = 1 .. Len(ready) - 1
  BY <1>3
<1>5. ReadyIds' = ReadyIds \ {Head(ready)}
  <2>1. ASSUME NEW x \in ReadyIds' PROVE x \in ReadyIds \ {Head(ready)}
    BY <1>2, <1>3, <1>4 DEF ReadyIds, NoDuplicates
  <2>2. ASSUME NEW x \in ReadyIds \ {Head(ready)} PROVE x \in ReadyIds'
    <3>1. PICK i \in 1 .. Len(ready) : x = ready[i] /\ i # 1
      BY <1>2 DEF ReadyIds
    <3>2. i - 1 \in DOMAIN ready' /\ ready'[i - 1] = x
      BY <1>2, <1>3, <1>4, <3>1
    <3> QED BY <3>2 DEF ReadyIds
  <2> QED BY <2>1, <2>2
<1>6. NoDuplicates'
  BY <1>2, <1>3, <1>4 DEF NoDuplicates
<1>7. Head(ready) \in ReadyIds
  BY <1>2 DEF ReadyIds
<1> QED BY <1>2, <1>3, <1>5, <1>6, <1>7

\* A batch is a sequence of distinct members of the set.
LEMMA BatchFacts ==
  ASSUME NEW S \in SUBSET Task, NEW s \in Batch(S)
  PROVE  /\ s \in Seq(S) /\ s \in Seq(Task)
         /\ IdsOf(s) \subseteq S
         /\ \A i, j \in DOMAIN s : s[i] = s[j] => i = j
<1>1. PICK n \in 0 .. Limit : s \in [1 .. n -> S]
  BY DEF Batch
<1>2. n \in Nat
  BY QueueAssumption
<1>3. s \in Seq(S) /\ s \in Seq(Task)
  BY <1>1, <1>2
<1> QED BY <1>1, <1>3 DEF IdsOf, Batch

\* Appending a batch of ids that are not in the list.
LEMMA ConcatFacts ==
  ASSUME QueueTypeOK, NoDuplicates, NEW s \in Seq(Task),
         IdsOf(s) \cap ReadyIds = {},
         \A i, j \in DOMAIN s : s[i] = s[j] => i = j,
         ready' = ready \o s
  PROVE  /\ ready' \in Seq(Task)
         /\ ReadyIds' = ReadyIds \cup IdsOf(s)
         /\ NoDuplicates'
<1>1. ready \in Seq(Task)
  BY DEF QueueTypeOK
<1>2. /\ ready' \in Seq(Task) /\ Len(ready') = Len(ready) + Len(s)
      /\ \A i \in 1 .. Len(ready) + Len(s) :
           ready'[i] = IF i <= Len(ready) THEN ready[i] ELSE s[i - Len(ready)]
  BY <1>1, ConcatProperties
<1>3. /\ DOMAIN ready = 1 .. Len(ready) /\ DOMAIN s = 1 .. Len(s)
      /\ DOMAIN ready' = 1 .. Len(ready) + Len(s)
      /\ Len(ready) \in Nat /\ Len(s) \in Nat
  BY <1>1, <1>2
<1>4. ReadyIds' = ReadyIds \cup IdsOf(s)
  <2>1. ASSUME NEW x \in ReadyIds' PROVE x \in ReadyIds \cup IdsOf(s)
    BY <1>2, <1>3 DEF ReadyIds, IdsOf
  <2>2. ASSUME NEW x \in ReadyIds PROVE x \in ReadyIds'
    BY <1>2, <1>3 DEF ReadyIds
  <2>3. ASSUME NEW x \in IdsOf(s) PROVE x \in ReadyIds'
    <3>1. PICK j \in 1 .. Len(s) : x = s[j]
      BY <1>3 DEF IdsOf
    <3>2. Len(ready) + j \in DOMAIN ready' /\ ready'[Len(ready) + j] = x
      BY <1>2, <1>3, <3>1
    <3> QED BY <3>2 DEF ReadyIds
  <2> QED BY <2>1, <2>2, <2>3
<1>5. NoDuplicates'
  <2> SUFFICES ASSUME NEW i \in DOMAIN ready', NEW j \in DOMAIN ready',
                      ready'[i] = ready'[j]
               PROVE  i = j
    BY DEF NoDuplicates
  <2>1. CASE i <= Len(ready) /\ j <= Len(ready)
    BY <2>1, <1>2, <1>3 DEF NoDuplicates
  <2>2. CASE i > Len(ready) /\ j > Len(ready)
    <3>1. i - Len(ready) \in DOMAIN s /\ j - Len(ready) \in DOMAIN s
          /\ s[i - Len(ready)] = s[j - Len(ready)]
      BY <2>2, <1>2, <1>3
    <3>2. i - Len(ready) = j - Len(ready)
      BY <3>1
    <3> QED BY <3>2, <1>3
  <2>3. ASSUME NEW a \in DOMAIN ready, NEW b \in DOMAIN s PROVE ready[a] # s[b]
    BY DEF ReadyIds, IdsOf
  <2>4. CASE i <= Len(ready) /\ j > Len(ready)
    <3>1. j - Len(ready) \in DOMAIN s /\ i \in DOMAIN ready
          /\ ready[i] = s[j - Len(ready)]
      BY <2>4, <1>2, <1>3
    <3> QED BY <3>1, <2>3
  <2>5. CASE i > Len(ready) /\ j <= Len(ready)
    <3>1. i - Len(ready) \in DOMAIN s /\ j \in DOMAIN ready
          /\ ready[j] = s[i - Len(ready)]
      BY <2>5, <1>2, <1>3
    <3> QED BY <3>1, <2>3
  <2> QED BY <2>1, <2>2, <2>4, <2>5, <1>3
<1> QED BY <1>2, <1>4, <1>5

\* Facts about the four structures of the current state, as sets.
LEMMA PartitionFacts ==
  ASSUME QueueInv
  PROVE  /\ leases \in [Task -> Score] /\ delayed \in [Task -> Score]
         /\ members \subseteq Task /\ NoDuplicates
  BY DEF QueueInv, QueueTypeOK, QueuePartition, NoDuplicates

\* The operations on one id.
LEMMA OneIdStep ==
  ASSUME QueueInv, NEW t \in Task,
         \/ Enqueue(t) \/ EnqueueDelayed(t) \/ ExtendLease(t) \/ Ack(t)
         \/ LeaseDeadlinePasses(t) \/ DelayPasses(t)
  PROVE  QueueInv'
<1> USE PartitionFacts DEF QueueInv
<1>1. CASE Enqueue(t)
  <2>1. CASE t \in members
    BY <1>1, <2>1 DEF Enqueue, QueueTypeOK, QueuePartition, ReadyIds, LeasedIds,
                      DelayedIds
  <2>2. CASE t \notin members
    <3>1. t \notin ReadyIds /\ t \notin LeasedIds /\ t \notin DelayedIds
      BY <2>2 DEF QueuePartition
    <3>2. ready' \in Seq(Task) /\ ReadyIds' = ReadyIds \cup {t} /\ NoDuplicates'
      BY <1>1, <2>2, <3>1, AppendFacts DEF Enqueue
    <3>3. LeasedIds' = LeasedIds /\ DelayedIds' = DelayedIds
      BY <1>1 DEF Enqueue, LeasedIds, DelayedIds
    <3> QED BY <1>1, <3>1, <3>2, <3>3
            DEF Enqueue, QueueTypeOK, QueuePartition, NoDuplicates
  <2> QED BY <2>1, <2>2
<1>2. CASE EnqueueDelayed(t)
  <2>1. ReadyIds' = ReadyIds /\ ready' = ready
    BY <1>2 DEF EnqueueDelayed, ReadyIds
  <2>2. LeasedIds' = LeasedIds \ {t}
    BY <1>2 DEF EnqueueDelayed, LeasedIds, Score
  <2>3. DelayedIds' = IF t \in LeasedIds \/ t \notin members
                      THEN DelayedIds \cup {t} ELSE DelayedIds
    BY <1>2 DEF EnqueueDelayed, DelayedIds, LeasedIds, Score
  <2>4. QueueTypeOK'
    BY <1>2 DEF EnqueueDelayed, QueueTypeOK, Score
  <2>5. members' = members \cup {t}
    BY <1>2 DEF EnqueueDelayed
  <2> QED BY <2>1, <2>2, <2>3, <2>4, <2>5 DEF QueuePartition
<1>3. CASE ExtendLease(t)
  <2>1. LeasedIds' = LeasedIds /\ DelayedIds' = DelayedIds /\ ReadyIds' = ReadyIds
    BY <1>3 DEF ExtendLease, LeasedIds, DelayedIds, ReadyIds, Score
  <2>2. QueueTypeOK'
    BY <1>3 DEF ExtendLease, QueueTypeOK, Score
  <2> QED BY <1>3, <2>1, <2>2 DEF ExtendLease, QueuePartition
<1>4. CASE Ack(t)
  <2>1. DelayedIds' = DelayedIds /\ ReadyIds' = ReadyIds /\ ready' = ready
    BY <1>4 DEF Ack, DelayedIds, ReadyIds
  <2>2. LeasedIds' = LeasedIds \ {t}
    BY <1>4 DEF Ack, LeasedIds, Score
  <2>3. members' = IF t \in LeasedIds THEN members \ {t} ELSE members
    BY <1>4 DEF Ack, LeasedIds
  <2>4. QueueTypeOK'
    BY <1>4 DEF Ack, QueueTypeOK, Score
  <2> QED BY <2>1, <2>2, <2>3, <2>4 DEF QueuePartition
<1>5. CASE LeaseDeadlinePasses(t) \/ DelayPasses(t)
  <2>1. LeasedIds' = LeasedIds /\ DelayedIds' = DelayedIds /\ ReadyIds' = ReadyIds
    BY <1>5 DEF LeaseDeadlinePasses, DelayPasses, LeasedIds, DelayedIds,
                ReadyIds, Score
  <2>2. QueueTypeOK'
    BY <1>5 DEF LeaseDeadlinePasses, DelayPasses, QueueTypeOK, Score
  <2> QED BY <1>5, <2>1, <2>2
          DEF LeaseDeadlinePasses, DelayPasses, QueuePartition
<1> QED BY <1>1, <1>2, <1>3, <1>4, <1>5

\* Popping an id, and the two scripts that put a batch back into the list.
LEMMA ListStep ==
  ASSUME QueueInv, Claim \/ RequeueExpired \/ PromoteDue
  PROVE  QueueInv'
<1> USE PartitionFacts DEF QueueInv
<1>1. CASE Claim
  <2>1. /\ ready' \in Seq(Task) /\ Head(ready) \in Task
        /\ Head(ready) \in ReadyIds
        /\ ReadyIds' = ReadyIds \ {Head(ready)} /\ NoDuplicates'
    BY <1>1, TailFacts DEF Claim
  <2>2. LeasedIds' = LeasedIds \cup {Head(ready)} /\ DelayedIds' = DelayedIds
    BY <1>1, <2>1 DEF Claim, LeasedIds, DelayedIds, Score
  <2>3. leases' \in [Task -> Score]
    BY <1>1, <2>1 DEF Claim, Score
  <2> QED BY <1>1, <2>1, <2>2, <2>3
          DEF Claim, QueueTypeOK, QueuePartition, NoDuplicates
<1>2. CASE RequeueExpired
  <2>1. PICK s \in Batch(ExpiredIds) :
          /\ leases' = [t \in Task |-> IF t \in IdsOf(s) THEN "none" ELSE leases[t]]
          /\ ready' = ready \o s
          /\ delayed' = delayed /\ members' = members
    BY <1>2 DEF RequeueExpired
  <2>2. /\ s \in Seq(Task) /\ IdsOf(s) \subseteq ExpiredIds
        /\ \A i, j \in DOMAIN s : s[i] = s[j] => i = j
    BY BatchFacts DEF ExpiredIds
  <2>3. IdsOf(s) \subseteq LeasedIds
    BY <2>2 DEF ExpiredIds, LeasedIds
  <2>4. IdsOf(s) \cap ReadyIds = {}
    BY <2>3 DEF QueuePartition
  <2>5. ready' \in Seq(Task) /\ ReadyIds' = ReadyIds \cup IdsOf(s) /\ NoDuplicates'
    BY <2>1, <2>2, <2>4, ConcatFacts
  <2>6. LeasedIds' = LeasedIds \ IdsOf(s) /\ DelayedIds' = DelayedIds
    BY <2>1 DEF LeasedIds, DelayedIds
  <2>7. leases' \in [Task -> Score]
    BY <2>1 DEF Score
  <2> QED BY <2>1, <2>3, <2>5, <2>6, <2>7
          DEF QueueTypeOK, QueuePartition, NoDuplicates
<1>3. CASE PromoteDue
  <2>1. PICK s \in Batch(DueIds) :
          /\ delayed' = [t \in Task |-> IF t \in IdsOf(s) THEN "none" ELSE delayed[t]]
          /\ ready' = ready \o s
          /\ leases' = leases /\ members' = members
    BY <1>3 DEF PromoteDue
  <2>2. /\ s \in Seq(Task) /\ IdsOf(s) \subseteq DueIds
        /\ \A i, j \in DOMAIN s : s[i] = s[j] => i = j
    BY BatchFacts DEF DueIds
  <2>3. IdsOf(s) \subseteq DelayedIds
    BY <2>2 DEF DueIds, DelayedIds
  <2>4. IdsOf(s) \cap ReadyIds = {}
    BY <2>3 DEF QueuePartition
  <2>5. ready' \in Seq(Task) /\ ReadyIds' = ReadyIds \cup IdsOf(s) /\ NoDuplicates'
    BY <2>1, <2>2, <2>4, ConcatFacts
  <2>6. DelayedIds' = DelayedIds \ IdsOf(s) /\ LeasedIds' = LeasedIds
    BY <2>1 DEF LeasedIds, DelayedIds
  <2>7. delayed' \in [Task -> Score]
    BY <2>1 DEF Score
  <2> QED BY <2>1, <2>3, <2>5, <2>6, <2>7
          DEF QueueTypeOK, QueuePartition, NoDuplicates
<1> QED BY <1>1, <1>2, <1>3

\* An empty Redis, at the beginning or after a restart.
LEMMA EmptyQueue == QueueInit => QueueInv
  BY DEF QueueInit, QueueInv, QueueTypeOK, QueuePartition, ReadyIds, LeasedIds,
         DelayedIds, Score

\* No sequence of scripts, by any callers, breaks the types of the keys or
\* the partition of the ids.
LEMMA NextQueue == QueueInv /\ [QueueNext]_queueVars => QueueInv'
<1>1. QueueInv /\ UNCHANGED queueVars => QueueInv'
  BY DEF queueVars, QueueInv, QueueTypeOK, QueuePartition, ReadyIds, LeasedIds,
         DelayedIds
<1>2. QueueInv /\ LoseData => QueueInv'
  BY DEF LoseData, QueueInv, QueueTypeOK, QueuePartition, ReadyIds, LeasedIds,
         DelayedIds, Score
<1> QED BY <1>1, <1>2, OneIdStep, ListStep DEF QueueNext

\* The keys keep their types, and members = ready + leases + delayed without
\* duplicates, for every interleaving of the scripts of taskQueue.js.
THEOREM QueueInvariant == QueueSpec => []QueueInv
  BY EmptyQueue, NextQueue, PTL DEF QueueSpec

\* Types of the four Redis keys.
THEOREM QueueTypeCorrect == QueueSpec => []QueueTypeOK
<1>1. QueueInv => QueueTypeOK
  BY DEF QueueInv
<1> QED BY <1>1, QueueInvariant, PTL

\* An id is in exactly one of ready, leases and delayed when it is a member,
\* and in none when it is not (wfEnqueue ... wfPromoteDue).
THEOREM QueueIsPartition == QueueSpec => []QueuePartition
<1>1. QueueInv => QueuePartition
  BY DEF QueueInv
<1> QED BY <1>1, QueueInvariant, PTL
=============================================================================
