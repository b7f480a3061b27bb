--------------------------- MODULE SchedulerProofs ---------------------------
(***************************************************************************)
(* The cron scheduler, for any workflows, crons, processes, batches, edits *)
(* and faults, and clocks that differ in any way: a slot is started once,  *)
(* none is passed over in silence, and a schedule that the user has        *)
(* changed is left alone, if it was stored before its first slot was due.  *)
(* The lock plays no part in the proofs.                                   *)
(***************************************************************************)
EXTENDS Scheduler, Facts

Schedule == [cron : Cron, enabled : BOOLEAN, nextRunAt : Slot, lastError : BOOLEAN]
Entry == [workflow : Workflow, slot : Slot, cron : Cron]
Request == [workflow : Workflow, cron : Cron, enabled : BOOLEAN, nextRunAt : Slot]

\* Types of what the argument reads.
SchedType ==
  /\ phase \in [Proc -> {"idle", "acquire", "incr", "work", "start", "advance"}]
  /\ now \in 0 .. MaxTime /\ skew \in Skews
  /\ schedule \in [Workflow -> {None} \cup Schedule]
  /\ keys \subseteq Workflow \X Slot
  /\ runs \in [Workflow -> [Slot -> Nat]]
  /\ current \in [Proc -> Nat]
  /\ due \in [Proc -> Seq(Entry)]
  /\ failed \in [Proc -> BOOLEAN]
  /\ asked \subseteq Request /\ edits \in Nat

\* A run was started for a slot iff the slot's key is in the index.
RunsAreKeys ==
  \A w \in Workflow, s \in Slot : runs[w][s] = IF <<w, s>> \in keys THEN 1 ELSE 0

\* A tick works on slots that were due by its process' clock when it began.
DueIsPast ==
  \A p \in Proc :
    /\ current[p] <= ClockOf(p)
    /\ \A i \in DOMAIN due[p] : due[p][i].slot <= current[p]
    /\ phase[p] \in {"start", "advance"} => due[p] # <<>>

\* What is about to be advanced has been started, or has failed.
StartedOrFailed ==
  \A p \in Proc : phase[p] = "advance" =>
    failed[p] \/ <<due[p][1].workflow, due[p][1].slot>> \in keys

\* A schedule that the API is about to store begins with one of its slots.
AskedIsASlot == \A a \in asked : a.nextRunAt \in a.cron

\* The schedule of a workflow that a tick has read has moved on since, or is
\* as it was, unless it was stored late.
FoundIsCurrent ==
  \A p \in Proc : \A i \in DOMAIN due[p] :
    LET f == due[p][i]
        s == schedule[f.workflow]
    IN  s # None /\ f.workflow \notin late
          => f.slot < s.nextRunAt \/ (f.slot = s.nextRunAt /\ f.cron = s.cron)

\* The inductive invariant.
SchedInv ==
  /\ SchedType /\ RunsAreKeys /\ DueIsPast /\ StartedOrFailed
  /\ AskedIsASlot /\ FoundIsCurrent /\ NextRunIsASlot

-----------------------------------------------------------------------------
(* Facts about numbers and slots.                                          *)

\* The next slot of a cron after a time that some clock shows exists, is one of
\* its slots, and is later.
LEMMA NextSlot ==
  ASSUME NEW S \in Cron, NEW k \in Skews, NEW x \in Proc \cup {Api},
         NEW t \in Nat, t <= MaxTime + k[x]
  PROVE  NextRunAfter(S, t) \in S /\ NextRunAfter(S, t) > t
<1> DEFINE T == {s \in S : s > t}
<1>1. S \subseteq Nat /\ MaxTime \in Nat /\ k[x] \in Nat
  BY SchedulerAssumption
<1>2. PICK s \in S : s > MaxTime + k[x]
  BY SchedulerAssumption
<1>3. T \subseteq Nat /\ T # {}
  <2>1. s \in Nat /\ s > t
    BY <1>1, <1>2
  <2> QED BY <1>1, <2>1
<1>4. PICK m \in T : \A n \in T : m <= n
  <2> HIDE DEF T
  <2> QED BY <1>3, LeastNumber
<1>5. m \in S /\ m > t /\ \A r \in S : r > t => m <= r
  BY <1>4
<1> HIDE DEF T
<1> QED BY <1>5 DEF NextRunAfter

\* Clocks show numbers.
LEMMA Clocks ==
  ASSUME SchedType, NEW x \in Proc \cup {Api}
  PROVE  ClockOf(x) \in Nat /\ ClockOf(x) <= MaxTime + skew[x] /\ skew[x] \in Nat
<1>1. skew[x] \in Nat /\ MaxTime \in Nat
  BY SchedulerAssumption DEF SchedType
<1> QED BY <1>1 DEF ClockOf, SchedType

\* Slots are numbers.
LEMMA SlotsAreNumbers == Slot \subseteq Nat
BY SchedulerAssumption DEF Slot

\* What a tick has in hand.
LEMMA EntryFields ==
  ASSUME SchedType, NEW p \in Proc, NEW i \in DOMAIN due[p]
  PROVE  /\ due[p][i].workflow \in Workflow /\ due[p][i].cron \in Cron
         /\ due[p][i].slot \in Slot /\ due[p][i].slot \in Nat
<1>1. due[p] \in Seq(Entry)
  BY DEF SchedType
<1>2. due[p][i] \in Entry
  BY <1>1
<1> QED BY <1>2, SlotsAreNumbers DEF Entry

-----------------------------------------------------------------------------
(* Initially, and step by step.                                            *)

\* No schedule, no run, no tick: the invariant holds at the start.
LEMMA InitSched == Init => SchedInv
<1> SUFFICES ASSUME Init PROVE SchedInv
  OBVIOUS
<1>0. <<>> \in Seq(Entry) /\ DOMAIN <<>> = {}
  OBVIOUS
<1>1. SchedType
  BY <1>0, SchedulerAssumption DEF Init, LockInit, SchedType
<1>2. RunsAreKeys /\ StartedOrFailed /\ AskedIsASlot /\ NextRunIsASlot
  BY DEF Init, LockInit, RunsAreKeys, StartedOrFailed, AskedIsASlot, NextRunIsASlot
<1>3. DueIsPast /\ FoundIsCurrent
  BY <1>0, <1>1, Clocks DEF Init, LockInit, DueIsPast, FoundIsCurrent
<1> QED BY <1>1, <1>2, <1>3 DEF SchedInv

\* The clock only goes forward.
LEMMA ClockSched == ASSUME SchedInv, Clock PROVE SchedInv'
<1> USE DEF SchedInv
<1>0. MaxTime \in Nat /\ \A p \in Proc : skew[p] \in Nat
  BY Clocks, SchedulerAssumption
<1>1. SchedType'
  BY <1>0 DEF Clock, SchedType, lockVars, userVars
<1>2. DueIsPast'
  BY <1>0 DEF Clock, DueIsPast, ClockOf, SchedType, lockVars
<1> QED BY <1>1, <1>2 DEF Clock, RunsAreKeys, StartedOrFailed, AskedIsASlot, FoundIsCurrent,
                          NextRunIsASlot, lockVars, userVars

\* The API makes up a schedule, and stores nothing yet.
LEMMA SetScheduleSched ==
  ASSUME SchedInv, NEW w \in Workflow, NEW S \in Cron, NEW enabled \in BOOLEAN,
         SetSchedule(w, S, enabled)
  PROVE  SchedInv'
<1> USE DEF SchedInv
<1> DEFINE n == NextRunAfter(S, ClockOf(Api))
           a == [workflow |-> w, cron |-> S, enabled |-> enabled, nextRunAt |-> n]
<1>1. n \in S
  BY Clocks, NextSlot DEF SchedType
<1>2. n \in Slot
  BY <1>1 DEF Slot
<1> HIDE DEF n
<1>3. a \in Request /\ a.nextRunAt \in a.cron
  BY <1>1, <1>2 DEF Request
<1>4. asked' = asked \cup {a}
      /\ UNCHANGED <<lockVars, now, skew, schedule, keys, runs, current, due, failed, edits, late>>
  BY DEF SetSchedule, n
<1> HIDE DEF a
<1>5. SchedType' /\ AskedIsASlot'
  BY <1>3, <1>4 DEF SchedType, AskedIsASlot, lockVars
<1> QED BY <1>4, <1>5 DEF RunsAreKeys, DueIsPast, StartedOrFailed, FoundIsCurrent,
                          NextRunIsASlot, ClockOf, lockVars

\* A schedule that is stored before it is due by any process' clock begins after
\* every slot that a leader has in hand.
LEMMA StoreScheduleSched ==
  ASSUME SchedInv, NEW a \in asked, StoreSchedule(a)
  PROVE  SchedInv'
<1> USE DEF SchedInv
<1> DEFINE w == a.workflow
           n == a.nextRunAt
           new == [cron |-> a.cron, enabled |-> a.enabled, nextRunAt |-> n, lastError |-> FALSE]
<1>1. a \in Request /\ n \in a.cron
  BY DEF SchedType, AskedIsASlot
<1>2. w \in Workflow /\ new \in Schedule /\ n \in Slot
  BY <1>1 DEF Request, Schedule
<1>3. n \in Nat
  BY <1>2, SlotsAreNumbers
<1>4. schedule' = [schedule EXCEPT ![w] = new] /\ edits' = edits + 1 /\ asked' = asked \ {a}
      /\ late' = (IF DueSomewhere(n) THEN late \cup {w} ELSE late \ {w})
      /\ UNCHANGED <<lockVars, now, skew, keys, runs, current, due, failed>>
  BY DEF StoreSchedule
<1>5. new.nextRunAt = n /\ new.cron = a.cron
  OBVIOUS
<1> HIDE DEF new, n, w
<1>6. SchedType' /\ AskedIsASlot'
  BY <1>2, <1>4 DEF SchedType, AskedIsASlot, lockVars
<1>7. RunsAreKeys' /\ DueIsPast' /\ StartedOrFailed'
  BY <1>4 DEF RunsAreKeys, DueIsPast, StartedOrFailed, ClockOf, lockVars
<1>8. \A v \in Workflow : schedule'[v] = IF v = w THEN new ELSE schedule[v]
  BY <1>4 DEF SchedType
<1>9. \A v \in Workflow \ {w} : v \notin late' => v \notin late
  BY <1>4
<1>10. NextRunIsASlot'
  <2>1. ASSUME NEW v \in Workflow, v \notin late', schedule'[v] # None
        PROVE  schedule'[v].nextRunAt \in schedule'[v].cron
    <3>1. CASE v = w
      BY <1>1, <1>5, <1>8, <3>1 DEF n
    <3>2. CASE v # w
      BY <1>8, <1>9, <2>1, <3>2 DEF NextRunIsASlot
    <3> QED BY <3>1, <3>2
  <2> QED BY <2>1 DEF NextRunIsASlot
<1>11. FoundIsCurrent'
  <2>1. ASSUME NEW p \in Proc, NEW i \in DOMAIN due[p], due[p][i].workflow = w, w \notin late'
        PROVE  due[p][i].slot < n
    <3>1. due[p][i].slot <= current[p] /\ current[p] <= ClockOf(p)
      BY DEF DueIsPast
    <3>2. due[p][i].slot \in Nat /\ current[p] \in Nat /\ ClockOf(p) \in Nat
      BY EntryFields, Clocks DEF SchedType
    <3>3. ~(n <= ClockOf(p))
      BY <1>4, <2>1 DEF DueSomewhere
    <3> QED BY <1>3, <3>1, <3>2, <3>3
  <2>2. ASSUME NEW p \in Proc, NEW i \in DOMAIN due'[p]
        PROVE  LET f == due'[p][i]
                   s == schedule'[f.workflow]
               IN  s # None /\ f.workflow \notin late'
                     => f.slot < s.nextRunAt \/ (f.slot = s.nextRunAt /\ f.cron = s.cron)
    <3>1. due' = due /\ due[p][i].workflow \in Workflow
      BY <1>4, EntryFields
    <3>2. CASE due[p][i].workflow = w
      BY <1>5, <1>8, <2>1, <3>1, <3>2
    <3>3. CASE due[p][i].workflow # w
      BY <1>8, <1>9, <3>1, <3>3 DEF FoundIsCurrent
    <3> QED BY <3>2, <3>3
  <2> QED BY <2>2 DEF FoundIsCurrent
<1> QED BY <1>6, <1>7, <1>10, <1>11

\* A cleared schedule is nobody's.
LEMMA ClearScheduleSched ==
  ASSUME SchedInv, NEW w \in Workflow, ClearSchedule(w)
  PROVE  SchedInv'
<1> USE DEF SchedInv
<1>1. schedule' = [schedule EXCEPT ![w] = None] /\ edits' = edits + 1 /\ late' = late \ {w}
      /\ UNCHANGED <<lockVars, now, skew, keys, runs, current, due, failed, asked>>
  BY DEF ClearSchedule
<1>2. \A v \in Workflow : schedule'[v] = IF v = w THEN None ELSE schedule[v]
  BY <1>1 DEF SchedType
<1>3. SchedType' /\ AskedIsASlot'
  BY <1>1 DEF SchedType, AskedIsASlot, lockVars
<1>4. RunsAreKeys' /\ DueIsPast' /\ StartedOrFailed' /\ NextRunIsASlot'
  BY <1>1, <1>2 DEF RunsAreKeys, DueIsPast, StartedOrFailed, NextRunIsASlot, ClockOf, lockVars
<1>5. FoundIsCurrent'
  <2>1. \A p \in Proc : \A i \in DOMAIN due[p] : due[p][i].workflow \in Workflow
    BY EntryFields
  <2> QED BY <1>1, <1>2, <2>1 DEF FoundIsCurrent
<1> QED BY <1>3, <1>4, <1>5

\* The election, a failed tick, a stop, a crash or a restart: a process gets to
\* none of the steps of runDue by them, and keeps or forgets what it has read.
LEMMA ElectionSched == ASSUME SchedInv, NEW p \in Proc, Election(p) PROVE SchedInv'
<1> USE DEF SchedInv
<1>1. UNCHANGED <<now, skew, schedule, keys, runs, asked, edits, late>>
  BY DEF Election, userVars
<1>2. phase' = phase \/ \E s \in {"idle", "acquire", "incr", "work"} : GoTo(p, s)
  BY DEF Election, Elect, Disturb, Extend, SetNx, Incr, TickFails, Stop, Crash, Restart
<1>3. /\ phase' \in [Proc -> {"idle", "acquire", "incr", "work", "start", "advance"}]
      /\ \A q \in Proc : phase'[q] \in {"start", "advance"} => phase'[q] = phase[q]
  BY <1>2 DEF SchedType, GoTo
<1>4. <<>> \in Seq(Entry) /\ DOMAIN <<>> = {}
  OBVIOUS
<1>5. \/ UNCHANGED <<current, due, failed>>
      \/ phase'[p] = "idle" /\ Forget(p)
  BY DEF Election
<1>6. /\ current' \in [Proc -> Nat] /\ due' \in [Proc -> Seq(Entry)]
      /\ failed' \in [Proc -> BOOLEAN]
  <2>0. 0 \in Nat /\ (current' = current \/ current' = [current EXCEPT ![p] = 0])
    BY <1>5 DEF Forget
  <2>1. current' \in [Proc -> Nat]
    BY <2>0 DEF SchedType
  <2>2. due' \in [Proc -> Seq(Entry)]
    BY <1>4, <1>5 DEF SchedType, Forget
  <2>3. failed' \in [Proc -> BOOLEAN]
    BY <1>5 DEF SchedType, Forget
  <2> QED BY <2>1, <2>2, <2>3
<1>7. \A q \in Proc :
        \/ current'[q] = current[q] /\ due'[q] = due[q] /\ failed'[q] = failed[q]
        \/ phase'[q] = "idle" /\ due'[q] = <<>> /\ current'[q] = 0
  BY <1>5 DEF SchedType, Forget
<1>8. SchedType'
  BY <1>1, <1>3, <1>6 DEF SchedType
<1>9. DueIsPast'
  <2>1. \A q \in Proc : ClockOf(q)' = ClockOf(q) /\ ClockOf(q) \in Nat
    BY <1>1, Clocks DEF ClockOf
  <2> QED BY <1>3, <1>4, <1>7, <2>1 DEF DueIsPast
<1>10. StartedOrFailed'
  BY <1>1, <1>3, <1>7 DEF StartedOrFailed
<1>11. FoundIsCurrent'
  BY <1>1, <1>4, <1>7 DEF FoundIsCurrent
<1>12. RunsAreKeys' /\ AskedIsASlot' /\ NextRunIsASlot'
  BY <1>1 DEF RunsAreKeys, AskedIsASlot, NextRunIsASlot
<1> QED BY <1>8, <1>9, <1>10, <1>11, <1>12

\* find(): what it returns is due, and as the schedules are now.
LEMMA FindDueSched == ASSUME SchedInv, NEW p \in Proc, FindDue(p) PROVE SchedInv'
<1> USE DEF SchedInv
<1>1. UNCHANGED <<now, skew, schedule, keys, runs, failed, asked, edits, late>>
  BY DEF FindDue, userVars
<1>2. CASE DueNow(p) = {}
  <2>1. GoTo(p, "idle") /\ UNCHANGED <<current, due>>
    BY <1>2 DEF FindDue
  <2>2. SchedType' /\ \A q \in Proc : phase'[q] \in {phase[q], "idle"}
    BY <1>1, <2>1 DEF SchedType, GoTo
  <2>3. DueIsPast' /\ StartedOrFailed'
    BY <1>1, <2>1, <2>2 DEF DueIsPast, StartedOrFailed, ClockOf
  <2> QED BY <1>1, <2>1, <2>2, <2>3 DEF RunsAreKeys, AskedIsASlot, FoundIsCurrent, NextRunIsASlot
<1>3. CASE DueNow(p) # {}
  <2>1. GoTo(p, "start") /\ current' = [current EXCEPT ![p] = ClockOf(p)]
    BY <1>3 DEF FindDue
  <2>2. PICK s \in Batches(p) : due' = [due EXCEPT ![p] = [i \in DOMAIN s |-> Found(s[i])]]
    BY <1>3 DEF FindDue
  <2> DEFINE found == [i \in DOMAIN s |-> Found(s[i])]
  <2>3. PICK n \in 1 .. BatchSize : s \in [1 .. n -> DueNow(p)]
    BY <2>2 DEF Batches
  <2>4. n \in Nat /\ n >= 1 /\ DOMAIN s = 1 .. n
    BY <2>3, SchedulerAssumption
  <2>5. \A i \in 1 .. n : /\ s[i] \in Workflow /\ schedule[s[i]] # None
                          /\ schedule[s[i]] \in Schedule
                          /\ schedule[s[i]].nextRunAt <= ClockOf(p)
    BY <2>3 DEF DueNow, IsDue, SchedType
  <2>6. \A i \in 1 .. n : /\ found[i] \in Entry /\ found[i].workflow = s[i]
                          /\ found[i].slot = schedule[s[i]].nextRunAt
                          /\ found[i].cron = schedule[s[i]].cron
    BY <2>4, <2>5 DEF Found, Entry, Schedule
  <2>7. found \in Seq(Entry) /\ DOMAIN found = 1 .. n /\ found # <<>>
    <3>1. DOMAIN found = 1 .. n
      BY <2>4
    <3> HIDE DEF found
    <3>2. found \in [1 .. n -> Entry]
      <4>1. found = [i \in 1 .. n |-> found[i]]
        BY <2>4 DEF found
      <4> QED BY <2>6, <4>1
    <3> QED BY <2>4, <3>1, <3>2
  <2>8. due' = [due EXCEPT ![p] = found]
    BY <2>2
  <2> HIDE DEF found
  <2>9. ClockOf(p) \in Nat /\ ClockOf(p)' = ClockOf(p)
    BY <1>1, Clocks DEF ClockOf
  <2>10. SchedType'
    BY <1>1, <2>1, <2>7, <2>8, <2>9 DEF SchedType, GoTo
  <2>11. \A q \in Proc : /\ phase'[q] = IF q = p THEN "start" ELSE phase[q]
                         /\ due'[q] = IF q = p THEN found ELSE due[q]
                         /\ current'[q] = IF q = p THEN ClockOf(p) ELSE current[q]
    BY <2>1, <2>8 DEF SchedType, GoTo
  <2>12. DueIsPast'
    <3> SUFFICES ASSUME NEW q \in Proc
                 PROVE  /\ current'[q] <= ClockOf(q)
                        /\ \A i \in DOMAIN due'[q] : due'[q][i].slot <= current'[q]
                        /\ phase'[q] \in {"start", "advance"} => due'[q] # <<>>
      BY <1>1 DEF DueIsPast, ClockOf
    <3>1. CASE q = p
      BY <2>5, <2>6, <2>7, <2>9, <2>11, <3>1
    <3>2. CASE q # p
      BY <2>11, <3>2 DEF DueIsPast
    <3> QED BY <3>1, <3>2
  <2>13. StartedOrFailed'
    BY <1>1, <2>11 DEF StartedOrFailed
  <2>14. FoundIsCurrent'
    BY <1>1, <2>6, <2>7, <2>11 DEF FoundIsCurrent
  <2> QED BY <1>1, <2>10, <2>12, <2>13, <2>14 DEF RunsAreKeys, AskedIsASlot, NextRunIsASlot
<1> QED BY <1>2, <1>3

\* The insert: the index decides whether there is a new run.
LEMMA StartRunKeys ==
  ASSUME SchedInv, NEW p \in Proc, due[p] # <<>>, StartRun(p)
  PROVE  /\ keys' \subseteq Workflow \X Slot /\ keys \subseteq keys'
         /\ runs' \in [Workflow -> [Slot -> Nat]]
         /\ RunsAreKeys'
         /\ <<due[p][1].workflow, due[p][1].slot>> \in keys'
<1> USE DEF SchedInv
<1> DEFINE w == due[p][1].workflow
           s == due[p][1].slot
<1>1. 1 \in DOMAIN due[p]
  <2>1. due[p] \in Seq(Entry)
    BY DEF SchedType
  <2> QED BY <2>1
<1>2. w \in Workflow /\ s \in Slot
  BY <1>1, EntryFields
<1>3. keys' = keys \cup {<<w, s>>}
  BY DEF StartRun, IdempotencyKey
<1>4. runs' = IF <<w, s>> \in keys THEN runs ELSE [runs EXCEPT ![w][s] = @ + 1]
  BY DEF StartRun, IdempotencyKey
<1> HIDE DEF w, s
<1>5. runs' \in [Workflow -> [Slot -> Nat]]
  BY <1>2, <1>4 DEF SchedType
<1>6. RunsAreKeys'
  <2> SUFFICES ASSUME NEW v \in Workflow, NEW r \in Slot
               PROVE  runs'[v][r] = IF <<v, r>> \in keys' THEN 1 ELSE 0
    BY DEF RunsAreKeys
  <2>1. runs[v][r] = IF <<v, r>> \in keys THEN 1 ELSE 0
    BY DEF RunsAreKeys
  <2>2. CASE <<w, s>> \in keys
    BY <1>3, <1>4, <2>1, <2>2
  <2>3. CASE <<w, s>> \notin keys
    <3>1. runs'[v][r] = IF v = w /\ r = s THEN runs[v][r] + 1 ELSE runs[v][r]
      BY <1>2, <1>4, <2>3 DEF SchedType
    <3> QED BY <1>3, <2>1, <2>3, <3>1
  <2> QED BY <2>2, <2>3
<1> QED BY <1>2, <1>3, <1>5, <1>6 DEF w, s, SchedType

\* startExecution: the slot is started, or its error kept.
LEMMA StartSlotSched == ASSUME SchedInv, NEW p \in Proc, StartSlot(p) PROVE SchedInv'
<1> USE DEF SchedInv
<1>1. /\ phase[p] = "start" /\ GoTo(p, "advance")
      /\ UNCHANGED <<now, skew, schedule, current, due, asked, edits, late>>
  BY DEF StartSlot, userVars
<1>2. due[p] # <<>>
  BY <1>1 DEF DueIsPast
<1>3. \/ StartRun(p) /\ failed' = [failed EXCEPT ![p] = FALSE]
      \/ (StartRun(p) \/ UNCHANGED <<keys, runs>>) /\ failed' = [failed EXCEPT ![p] = TRUE]
  BY DEF StartSlot, KeepsError
<1>4. /\ keys' \subseteq Workflow \X Slot /\ keys \subseteq keys'
      /\ runs' \in [Workflow -> [Slot -> Nat]] /\ RunsAreKeys'
  <2>1. CASE StartRun(p)
    BY <1>2, <2>1, StartRunKeys
  <2>2. CASE UNCHANGED <<keys, runs>>
    BY <2>2 DEF SchedType, RunsAreKeys
  <2> QED BY <1>3, <2>1, <2>2
<1>5. /\ failed' \in [Proc -> BOOLEAN]
      /\ \A q \in Proc : q # p => failed'[q] = failed[q]
      /\ failed'[p] \/ <<due[p][1].workflow, due[p][1].slot>> \in keys'
  <2>1. CASE StartRun(p) /\ failed' = [failed EXCEPT ![p] = FALSE]
    BY <1>2, <2>1, StartRunKeys DEF SchedType
  <2>2. CASE failed' = [failed EXCEPT ![p] = TRUE]
    BY <2>2 DEF SchedType
  <2> QED BY <1>3, <2>1, <2>2
<1>6. phase' \in [Proc -> {"idle", "acquire", "incr", "work", "start", "advance"}]
      /\ \A q \in Proc : phase'[q] = IF q = p THEN "advance" ELSE phase[q]
  BY <1>1 DEF SchedType, GoTo
<1>7. SchedType'
  BY <1>1, <1>4, <1>5, <1>6 DEF SchedType
<1>8. DueIsPast'
  BY <1>1, <1>2, <1>6 DEF DueIsPast, ClockOf
<1>9. StartedOrFailed'
  BY <1>1, <1>4, <1>5, <1>6 DEF StartedOrFailed
<1> QED BY <1>1, <1>4, <1>7, <1>8, <1>9 DEF AskedIsASlot, FoundIsCurrent, NextRunIsASlot

\* The schedule moves on, if it is still the one that was read, to a later slot
\* of the cron that was read.
LEMMA AdvanceMoves ==
  ASSUME SchedInv, NEW p \in Proc, Advance(p)
  PROVE  LET f == due[p][1]
             n == NextRunAfter(f.cron, Later(f.slot, current[p]))
         IN  /\ f.workflow \in Workflow /\ f.cron \in Cron /\ f.slot \in Nat
             /\ n \in f.cron /\ n \in Slot /\ n \in Nat /\ f.slot < n
<1> USE DEF SchedInv
<1> DEFINE f == due[p][1]
           n == NextRunAfter(f.cron, Later(f.slot, current[p]))
<1>1. due[p] # <<>>
  BY DEF Advance, DueIsPast
<1>2. 1 \in DOMAIN due[p]
  <2>1. due[p] \in Seq(Entry)
    BY DEF SchedType
  <2> QED BY <1>1, <2>1
<1>3. f.workflow \in Workflow /\ f.cron \in Cron /\ f.slot \in Nat
  BY <1>2, EntryFields
<1>4. f.slot <= current[p] /\ current[p] <= ClockOf(p) /\ current[p] \in Nat
  BY <1>2 DEF DueIsPast, SchedType
<1>5. Later(f.slot, current[p]) = current[p]
  BY <1>3, <1>4 DEF Later
<1>6. current[p] <= MaxTime + skew[p]
  <2>1. ClockOf(p) \in Nat /\ ClockOf(p) <= MaxTime + skew[p] /\ skew[p] \in Nat
    BY Clocks
  <2> QED BY <1>4, <2>1, SchedulerAssumption
<1>7. n \in f.cron /\ n > current[p]
  <2>1. skew \in Skews
    BY DEF SchedType
  <2> HIDE DEF f
  <2> QED BY <1>3, <1>4, <1>5, <1>6, <2>1, NextSlot
<1>8. n \in Slot
  BY <1>3, <1>7 DEF Slot
<1>9. n \in Nat
  BY <1>8, SlotsAreNumbers
<1>10. f.slot < n
  BY <1>3, <1>4, <1>7, <1>9
<1> QED BY <1>3, <1>7, <1>8, <1>9, <1>10

\* updateOne with the compare, then the next workflow of the tick.
LEMMA AdvanceSched == ASSUME SchedInv, NEW p \in Proc, Advance(p) PROVE SchedInv'
<1> USE DEF SchedInv
<1> DEFINE f == due[p][1]
           n == NextRunAfter(f.cron, Later(f.slot, current[p]))
<1>0. /\ f.workflow \in Workflow /\ f.cron \in Cron /\ f.slot \in Nat
      /\ n \in f.cron /\ n \in Slot /\ n \in Nat /\ f.slot < n
  BY AdvanceMoves
<1>1. UNCHANGED <<now, skew, keys, runs, asked, edits, late>> /\ phase[p] = "advance"
  BY DEF Advance, userVars
<1>2. schedule' = IF StillAtSlot(p)
                  THEN [schedule EXCEPT ![f.workflow].nextRunAt = n,
                                        ![f.workflow].lastError = failed[p]]
                  ELSE schedule
  BY DEF Advance
<1>3. due[p] \in Seq(Entry) /\ due[p] # <<>>
  BY <1>1 DEF SchedType, DueIsPast
<1>4. \/ /\ Len(due[p]) > 1 /\ GoTo(p, "start")
         /\ due' = [due EXCEPT ![p] = Tail(@)] /\ UNCHANGED <<current, failed>>
      \/ GoTo(p, "idle") /\ Forget(p)
  BY DEF Advance
<1> HIDE DEF f, n
<1>5. \A w \in Workflow :
        \/ schedule'[w] = schedule[w]
        \/ /\ w = f.workflow /\ schedule[w] # None /\ schedule[w].nextRunAt = f.slot
           /\ schedule[w] \in Schedule /\ schedule'[w] \in Schedule
           /\ schedule'[w].nextRunAt = n /\ schedule'[w].cron = schedule[w].cron
  <2>1. CASE ~StillAtSlot(p)
    BY <1>2, <2>1
  <2>2. CASE StillAtSlot(p)
    <3>1. schedule[f.workflow] # None /\ schedule[f.workflow].nextRunAt = f.slot
      BY <2>2 DEF StillAtSlot, f
    <3>2. schedule[f.workflow] \in Schedule /\ failed[p] \in BOOLEAN
      BY <1>0, <3>1 DEF SchedType
    <3> DEFINE new == [schedule[f.workflow] EXCEPT !.nextRunAt = n, !.lastError = failed[p]]
    <3>3. new \in Schedule /\ new.nextRunAt = n /\ new.cron = schedule[f.workflow].cron
      BY <1>0, <3>2 DEF Schedule
    <3>4. schedule' = [schedule EXCEPT ![f.workflow] = new]
      BY <1>0, <1>2, <2>2, <3>2 DEF SchedType, Schedule
    <3> HIDE DEF new
    <3>5. \A w \in Workflow : schedule'[w] = IF w = f.workflow THEN new ELSE schedule[w]
      BY <3>4 DEF SchedType
    <3> QED BY <3>1, <3>2, <3>3, <3>5
  <2> QED BY <2>1, <2>2
<1>6. schedule' \in [Workflow -> {None} \cup Schedule]
  <2>1. \A w \in Workflow : schedule'[w] \in {None} \cup Schedule
    BY <1>5 DEF SchedType
  <2>2. schedule' = [w \in Workflow |-> schedule'[w]]
    BY <1>2 DEF SchedType
  <2> QED BY <2>1, <2>2
<1>7. \A q \in Proc :
        \/ /\ phase'[q] = phase[q] /\ due'[q] = due[q] /\ q # p
           /\ current'[q] = current[q] /\ failed'[q] = failed[q]
        \/ /\ phase'[q] = "start" /\ q = p /\ current'[q] = current[q]
           /\ due'[q] = Tail(due[q]) /\ Len(due[q]) > 1
        \/ phase'[q] = "idle" /\ due'[q] = <<>> /\ current'[q] = 0
  BY <1>4 DEF SchedType, GoTo, Forget
<1>8. SchedType'
  <2>0. <<>> \in Seq(Entry) /\ Tail(due[p]) \in Seq(Entry)
    BY <1>3
  <2>1. due' \in [Proc -> Seq(Entry)]
    BY <1>4, <2>0 DEF SchedType, Forget
  <2>2. phase' \in [Proc -> {"idle", "acquire", "incr", "work", "start", "advance"}]
    BY <1>4 DEF SchedType, GoTo
  <2>3. current' = current \/ current' = [current EXCEPT ![p] = 0]
    BY <1>4 DEF Forget
  <2>4. current' \in [Proc -> Nat]
    BY <2>3 DEF SchedType
  <2>5. failed' \in [Proc -> BOOLEAN]
    BY <1>4 DEF SchedType, Forget
  <2> QED BY <1>1, <1>6, <2>1, <2>2, <2>4, <2>5 DEF SchedType
<1>9. \A q \in Proc : \A i \in DOMAIN due'[q] :
        \E j \in DOMAIN due[q] : due'[q][i] = due[q][j] /\ current'[q] = current[q]
  <2> SUFFICES ASSUME NEW q \in Proc, NEW i \in DOMAIN due'[q]
               PROVE  \E j \in DOMAIN due[q] : due'[q][i] = due[q][j] /\ current'[q] = current[q]
    OBVIOUS
  <2>1. CASE due'[q] = <<>>
    BY <2>1
  <2>2. CASE due'[q] = due[q] /\ current'[q] = current[q]
    BY <2>2
  <2>3. CASE q = p /\ due'[q] = Tail(due[q]) /\ current'[q] = current[q]
    <3>1. i \in 1 .. Len(due[p]) - 1 /\ due'[q][i] = due[p][i + 1]
      BY <1>3, <2>3
    <3>2. i + 1 \in DOMAIN due[p]
      BY <1>3, <3>1
    <3> QED BY <2>3, <3>1, <3>2
  <2> QED BY <1>7, <2>1, <2>2, <2>3
<1>10. DueIsPast'
  <2> SUFFICES ASSUME NEW q \in Proc
               PROVE  /\ current'[q] <= ClockOf(q)
                      /\ \A i \in DOMAIN due'[q] : due'[q][i].slot <= current'[q]
                      /\ phase'[q] \in {"start", "advance"} => due'[q] # <<>>
    BY <1>1 DEF DueIsPast, ClockOf
  <2>1. current'[q] <= ClockOf(q)
    BY <1>7, Clocks DEF DueIsPast
  <2>2. \A i \in DOMAIN due'[q] : due'[q][i].slot <= current'[q]
    BY <1>9 DEF DueIsPast
  <2>3. ASSUME phase'[q] \in {"start", "advance"} PROVE due'[q] # <<>>
    <3>1. CASE q # p
      BY <1>7, <2>3, <3>1 DEF DueIsPast
    <3>2. CASE q = p
      <4>1. due'[p] = Tail(due[p]) /\ Len(due[p]) > 1
        BY <1>7, <2>3, <3>2
      <4> QED BY <1>3, <3>2, <4>1, LongTail
    <3> QED BY <3>1, <3>2
  <2> QED BY <2>1, <2>2, <2>3
<1>11. StartedOrFailed'
  BY <1>1, <1>7 DEF StartedOrFailed
<1>12. FoundIsCurrent'
  <2> SUFFICES ASSUME NEW q \in Proc, NEW i \in DOMAIN due[q],
                      schedule'[due[q][i].workflow] # None, due[q][i].workflow \notin late
               PROVE  LET g == due[q][i]
                          s == schedule'[g.workflow]
                      IN  g.slot < s.nextRunAt \/ (g.slot = s.nextRunAt /\ g.cron = s.cron)
    BY <1>1, <1>9 DEF FoundIsCurrent
  <2> DEFINE g == due[q][i]
  <2>1. g.workflow \in Workflow /\ g.slot \in Nat
    BY EntryFields
  <2>2. schedule[g.workflow] # None =>
          \/ g.slot < schedule[g.workflow].nextRunAt
          \/ g.slot = schedule[g.workflow].nextRunAt /\ g.cron = schedule[g.workflow].cron
    BY DEF FoundIsCurrent
  <2> HIDE DEF g
  <2>3. CASE schedule'[g.workflow] = schedule[g.workflow]
    BY <2>2, <2>3 DEF g
  <2>4. CASE schedule'[g.workflow] # schedule[g.workflow]
    <3>1. /\ schedule[g.workflow] # None /\ schedule[g.workflow].nextRunAt = f.slot
          /\ schedule'[g.workflow].nextRunAt = n
      BY <1>5, <2>1, <2>4
    <3>2. g.slot <= f.slot
      BY <1>0, <2>1, <2>2, <3>1
    <3> QED BY <1>0, <2>1, <3>1, <3>2 DEF g
  <2> QED BY <2>3, <2>4
<1>13. NextRunIsASlot'
  <2> SUFFICES ASSUME NEW w \in Workflow, w \notin late, schedule'[w] # None
               PROVE  schedule'[w].nextRunAt \in schedule'[w].cron
    BY <1>1 DEF NextRunIsASlot
  <2>1. CASE schedule'[w] = schedule[w]
    BY <2>1 DEF NextRunIsASlot
  <2>2. CASE schedule'[w] # schedule[w]
    <3>1. /\ w = f.workflow /\ schedule[w] # None /\ schedule[w].nextRunAt = f.slot
          /\ schedule'[w].nextRunAt = n /\ schedule'[w].cron = schedule[w].cron
      BY <1>5, <2>2
    <3>2. 1 \in DOMAIN due[p]
      BY <1>3
    <3>3. f.cron = schedule[w].cron
      BY <1>0, <3>1, <3>2 DEF FoundIsCurrent, f
    <3> QED BY <1>0, <3>1, <3>3
  <2> QED BY <2>1, <2>2
<1> QED BY <1>1, <1>8, <1>10, <1>11, <1>12, <1>13 DEF RunsAreKeys, AskedIsASlot

-----------------------------------------------------------------------------
(* Every step, and the theorems.                                           *)

\* A step that changes nothing that the invariant reads.
LEMMA StutterSched == ASSUME SchedInv, UNCHANGED <<phase, schedVars>> PROVE SchedInv'
BY DEF SchedInv, SchedType, RunsAreKeys, DueIsPast, StartedOrFailed, AskedIsASlot,
       FoundIsCurrent, NextRunIsASlot, ClockOf, schedVars, userVars

\* Every step keeps the invariant.
LEMMA SchedStep == ASSUME SchedInv, [Next]_vars PROVE SchedInv'
<1>1. CASE Clock
  BY <1>1, ClockSched
<1>2. CASE KeyExpires
  BY <1>2, StutterSched DEF KeyExpires, Expire
<1>3. ASSUME NEW w \in Workflow, ClearSchedule(w) PROVE SchedInv'
  BY <1>3, ClearScheduleSched
<1>4. ASSUME NEW w \in Workflow, NEW S \in Cron, NEW enabled \in BOOLEAN,
             SetSchedule(w, S, enabled)
      PROVE  SchedInv'
  BY <1>4, SetScheduleSched
<1>5. ASSUME NEW p \in Proc, Election(p) PROVE SchedInv'
  BY <1>5, ElectionSched
<1>6. ASSUME NEW p \in Proc, RunDue(p) PROVE SchedInv'
  BY <1>6, FindDueSched, StartSlotSched, AdvanceSched DEF RunDue
<1>7. CASE UNCHANGED vars
  BY <1>7, StutterSched DEF vars, lockVars, schedVars
<1>8. ASSUME NEW a \in asked, StoreSchedule(a) PROVE SchedInv'
  BY <1>8, StoreScheduleSched
<1> QED BY <1>1, <1>2, <1>3, <1>4, <1>5, <1>6, <1>7, <1>8 DEF Next

\* The inductive invariant of the schedules and ticks holds throughout.
LEMMA SchedInvariant == Spec => []SchedInv
<1>1. Init => SchedInv
  BY InitSched
<1>2. SchedInv /\ [Next]_vars => SchedInv'
  BY SchedStep
<1> QED BY <1>1, <1>2, PTL DEF Spec

\* A slot is started at most once, whatever the leaders, their crashes, their
\* failures and their clocks do (the unique index of runDue's key).
THEOREM OneRunPerSlotTheorem == Spec => []OneRunPerSlot
<1>1. SchedInv => OneRunPerSlot
  <2> SUFFICES ASSUME SchedInv, NEW w \in Workflow, NEW s \in Slot PROVE runs[w][s] <= 1
    BY DEF OneRunPerSlot
  <2>1. runs[w][s] = 0 \/ runs[w][s] = 1
    BY DEF SchedInv, RunsAreKeys
  <2> QED BY <2>1
<1> QED BY <1>1, SchedInvariant, PTL

\* nextRunAt is a slot of the schedule's own cron if setSchedule's write was not
\* so late that its first slot was due: a tick that read the schedule before it
\* was changed does not write to the new one (the filter of runDue's updateOne).
THEOREM NextRunIsASlotTheorem == Spec => []NextRunIsASlot
<1>1. SchedInv => NextRunIsASlot
  BY DEF SchedInv
<1> QED BY <1>1, SchedInvariant, PTL

\* The schedule of a workflow that a step of the scheduler moves on: its run is
\* there, or its failure is kept.
LEMMA MovedOnce ==
  ASSUME SchedInv, [Next]_vars, NEW w \in Workflow,
         edits' = edits, schedule'[w] # schedule[w]
  PROVE  runs[w][schedule[w].nextRunAt] = 1 \/ schedule'[w].lastError
<1>1. edits \in Nat
  BY DEF SchedInv, SchedType
<1>2. PICK p \in Proc : Advance(p)
  <2>1. ASSUME NEW v \in Workflow, ClearSchedule(v) PROVE FALSE
    BY <1>1, <2>1 DEF ClearSchedule
  <2>2. ASSUME NEW a \in asked, StoreSchedule(a) PROVE FALSE
    BY <1>1, <2>2 DEF StoreSchedule
  <2>3. CASE schedule' = schedule
    BY <2>3
  <2>4. ASSUME NEW q \in Proc, Election(q) \/ FindDue(q) \/ StartSlot(q)
        PROVE  schedule' = schedule
    BY <2>4 DEF Election, FindDue, StartSlot
  <2>5. Clock \/ KeyExpires \/ UNCHANGED vars => schedule' = schedule
    BY DEF Clock, KeyExpires, vars, schedVars
  <2>6. ASSUME NEW v \in Workflow, NEW S \in Cron, NEW enabled \in BOOLEAN,
               SetSchedule(v, S, enabled)
        PROVE  schedule' = schedule
    BY <2>6 DEF SetSchedule
  <2> QED BY <2>1, <2>2, <2>3, <2>4, <2>5, <2>6 DEF Next, RunDue
<1> DEFINE f == due[p][1]
           n == NextRunAfter(f.cron, Later(f.slot, current[p]))
<1>3. f.workflow \in Workflow /\ f.slot \in Slot
  <2>1. due[p] \in Seq(Entry) /\ due[p] # <<>>
    BY <1>2 DEF SchedInv, SchedType, DueIsPast, Advance
  <2>2. 1 \in DOMAIN due[p]
    BY <2>1
  <2> QED BY <2>2, EntryFields DEF SchedInv
<1>4. StillAtSlot(p)
  BY <1>2 DEF Advance
<1>5. schedule' = [schedule EXCEPT ![f.workflow].nextRunAt = n,
                                   ![f.workflow].lastError = failed[p]]
  BY <1>2, <1>4 DEF Advance
<1>6. failed[p] \/ <<f.workflow, f.slot>> \in keys
  BY <1>2 DEF SchedInv, StartedOrFailed, Advance
<1>7. schedule[f.workflow] # None /\ schedule[f.workflow].nextRunAt = f.slot
  BY <1>4 DEF StillAtSlot
<1> HIDE DEF f, n
<1>8. schedule[f.workflow] \in Schedule /\ schedule \in [Workflow -> {None} \cup Schedule]
  BY <1>3, <1>7 DEF SchedInv, SchedType
<1>9. w = f.workflow
  BY <1>3, <1>5, <1>8
<1>10. schedule'[w].lastError = failed[p]
  BY <1>5, <1>8, <1>9 DEF Schedule
<1>11. <<f.workflow, f.slot>> \in keys => runs[w][schedule[w].nextRunAt] = 1
  BY <1>3, <1>7, <1>9 DEF SchedInv, RunsAreKeys
<1> QED BY <1>6, <1>10, <1>11

\* The scheduler never moves nextRunAt off a slot whose run it has neither
\* started nor recorded as failed ("Advancing first could skip a run forever").
THEOREM NoSlotSkippedTheorem == Spec => NoSlotSkipped
<1>1. SchedInv /\ [Next]_vars =>
        [\A w \in Workflow :
           edits' = edits /\ schedule'[w] # schedule[w]
             => runs[w][schedule[w].nextRunAt] = 1 \/ schedule'[w].lastError]_vars
  BY MovedOnce
<1> QED BY <1>1, SchedInvariant, PTL DEF Spec, NoSlotSkipped
=============================================================================
