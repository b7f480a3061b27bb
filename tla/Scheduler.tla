------------------------------ MODULE Scheduler ------------------------------
(***************************************************************************)
(* The cron scheduler (scheduler/scheduler.js) in every worker process,    *)
(* elected by LeaderLock, and the users who set and clear schedules        *)
(* (services/workflow.service.js) meanwhile. A cron expression is the set  *)
(* of its slots. startExecution is seen as the insert it begins with: the  *)
(* unique index on (triggeredBy, idempotencyKey) accepts it or not.        *)
(* Every process, and the API, reads its own clock: now, or ahead of it.   *)
(***************************************************************************)
EXTENDS LeaderLock, Sequences, FiniteSets

CONSTANTS
  Api,        \* the process that serves the users
  Skews,      \* how far each clock may be ahead of the slowest one
  Workflow,   \* workflows
  Cron,       \* the cron expressions users choose from, as sets of slots
  MaxTime,    \* bound: the clock stops here
  MaxEdits,   \* bound: changes of schedules by users
  BatchSize,  \* workflows read by one runDue
  None        \* no schedule

ASSUME SchedulerAssumption ==
  /\ MaxTime \in Nat /\ MaxEdits \in Nat /\ BatchSize \in Nat \ {0}
  /\ Skews \subseteq [Proc \cup {Api} -> Nat]
  /\ \A S \in Cron : S \subseteq Nat \ {0}
  /\ \A S \in Cron, k \in Skews, x \in Proc \cup {Api} : \E s \in S : s > MaxTime + k[x]
  /\ \A S \in Cron : None # S

VARIABLES
  now,       \* the slowest clock
  skew,      \* how far each clock is ahead of it
  schedule,  \* Workflow.schedule: None, or its fields
  keys,      \* the unique index: <<workflow, idempotency key>>
  runs,      \* runs started for each workflow and slot
  current,   \* per process: the time its runDue took
  due,       \* per process: the workflows its runDue still has to handle, first first
  failed,    \* per process: lastError of the workflow at hand is set
  asked,     \* schedules that the API has made up and not stored yet
  edits,     \* changes of schedules by users so far
  late       \* history: the workflows whose schedule was due when it was stored

userVars == <<asked, edits, late>>
schedVars == <<now, skew, schedule, keys, runs, current, due, failed, userVars>>
vars == <<lockVars, schedVars>>

Slot == UNION Cron

\* The first slot of S strictly after time t.
NextRunAfter(S, t) == CHOOSE s \in S : s > t /\ \A r \in S : r > t => s <= r

ClockOf(x) == now + skew[x]

Later(a, b) == IF a > b THEN a ELSE b

Init ==
  /\ LockInit(TRUE)
  /\ now = 0 /\ skew \in Skews
  /\ schedule = [w \in Workflow |-> None]
  /\ keys = {}
  /\ runs = [w \in Workflow |-> [s \in Slot |-> 0]]
  /\ current = [p \in Proc |-> 0]
  /\ due = [p \in Proc |-> <<>>]
  /\ failed = [p \in Proc |-> FALSE]
  /\ asked = {} /\ edits = 0 /\ late = {}

Clock ==
  /\ now < MaxTime
  /\ now' = now + 1
  /\ UNCHANGED <<lockVars, skew, schedule, keys, runs, current, due, failed, userVars>>

-----------------------------------------------------------------------------
(* Users.                                                                  *)

MayEdit == edits + Cardinality(asked) < MaxEdits

\* The API takes its time, and the first slot after it.
SetSchedule(w, S, enabled) ==
  /\ MayEdit
  /\ asked' = asked \cup
       {[workflow |-> w, cron |-> S, enabled |-> enabled,
         nextRunAt |-> NextRunAfter(S, ClockOf(Api))]}
  /\ UNCHANGED <<lockVars, now, skew, schedule, keys, runs, current, due, failed, edits, late>>

\* Some process' clock has come to time t.
DueSomewhere(t) == \E p \in Proc : t <= ClockOf(p)

\* findOneAndUpdate, some time later.
StoreSchedule(a) ==
  /\ asked' = asked \ {a}
  /\ schedule' = [schedule EXCEPT ![a.workflow] =
       [cron |-> a.cron, enabled |-> a.enabled, nextRunAt |-> a.nextRunAt,
        lastError |-> FALSE]]
  /\ edits' = edits + 1
  /\ late' = IF DueSomewhere(a.nextRunAt) THEN late \cup {a.workflow}
             ELSE late \ {a.workflow}
  /\ UNCHANGED <<lockVars, now, skew, keys, runs, current, due, failed>>

ClearSchedule(w) ==
  /\ MayEdit /\ schedule[w] # None
  /\ edits' = edits + 1
  /\ schedule' = [schedule EXCEPT ![w] = None]
  /\ late' = late \ {w}
  /\ UNCHANGED <<lockVars, now, skew, keys, runs, current, due, failed, asked>>

-----------------------------------------------------------------------------
(* tick(): the election, then runDue, workflow by workflow.                *)

Forget(p) ==
  /\ current' = [current EXCEPT ![p] = 0]
  /\ due' = [due EXCEPT ![p] = <<>>]
  /\ failed' = [failed EXCEPT ![p] = FALSE]

Election(p) ==
  /\ Elect(p) \/ Disturb(p)
  /\ IF phase'[p] = "idle" THEN Forget(p) ELSE UNCHANGED <<current, due, failed>>
  /\ UNCHANGED <<now, skew, schedule, keys, runs, userVars>>

KeyExpires == Expire /\ UNCHANGED schedVars

IsDue(w, time) ==
  /\ schedule[w] # None
  /\ schedule[w].enabled
  /\ schedule[w].nextRunAt <= time

\* A workflow as find() returned it: its slot and its cron at that moment.
Found(w) == [workflow |-> w, slot |-> schedule[w].nextRunAt, cron |-> schedule[w].cron]

DueNow(p) == {w \in Workflow : IsDue(w, ClockOf(p))}

\* find().sort({ nextRunAt: 1 }).limit(batchSize)
Batches(p) ==
  {s \in UNION {[1 .. n -> DueNow(p)] : n \in 1 .. BatchSize} :
     /\ \A i, j \in DOMAIN s : i < j =>
          /\ s[i] # s[j]
          /\ schedule[s[i]].nextRunAt <= schedule[s[j]].nextRunAt
     /\ \A v \in DueNow(p) : v \in {s[i] : i \in DOMAIN s} \/
          /\ Len(s) = BatchSize
          /\ schedule[s[BatchSize]].nextRunAt <= schedule[v].nextRunAt}

FindDue(p) ==
  /\ phase[p] = "work"
  /\ IF DueNow(p) = {}
     THEN GoTo(p, "idle") /\ UNCHANGED <<current, due>>
     ELSE /\ GoTo(p, "start")
          /\ current' = [current EXCEPT ![p] = ClockOf(p)]
          /\ \E s \in Batches(p) :
               due' = [due EXCEPT ![p] = [i \in DOMAIN s |-> Found(s[i])]]
  /\ UNCHANGED <<key, tokens, fence, held, fresh, timer, faults,
                 now, skew, schedule, keys, runs, failed, userVars>>

\* Mutant: the key of a run names the time of the tick, not the slot.
KeyOfTick(p) == <<due[p][1].workflow, current[p]>>

\* `schedule:${workflow._id}:${slot.toISOString()}`
IdempotencyKey(p) == <<due[p][1].workflow, due[p][1].slot>>

\* The insert: a new run, or the duplicate key of a slot that was started.
StartRun(p) ==
  /\ keys' = keys \cup {IdempotencyKey(p)}
  /\ runs' = IF IdempotencyKey(p) \in keys THEN runs
             ELSE [runs EXCEPT ![due[p][1].workflow][due[p][1].slot] = @ + 1]

\* Mutant: lastError is not assigned in the catch.
DropsError == FALSE

\* lastError = err.message
KeepsError == TRUE

\* startExecution starts the run of the slot, or is refused as a duplicate; or
\* it throws, before or after its commit, and the error is kept.
StartSlot(p) ==
  /\ phase[p] = "start"
  /\ \/ StartRun(p) /\ failed' = [failed EXCEPT ![p] = FALSE] /\ UNCHANGED faults
     \/ /\ Fault
        /\ StartRun(p) \/ UNCHANGED <<keys, runs>>
        /\ failed' = [failed EXCEPT ![p] = KeepsError]
  /\ GoTo(p, "advance")
  /\ UNCHANGED <<key, tokens, fence, held, fresh, timer,
                 now, skew, schedule, current, due, userVars>>

\* Mutants: no compare; a compare with the time of the tick.
StillThere(p) == schedule[due[p][1].workflow] # None
StillAtTick(p) ==
  /\ schedule[due[p][1].workflow] # None
  /\ schedule[due[p][1].workflow].nextRunAt = current[p]

\* The filter { _id, "schedule.nextRunAt": slot }.
StillAtSlot(p) ==
  /\ schedule[due[p][1].workflow] # None
  /\ schedule[due[p][1].workflow].nextRunAt = due[p][1].slot

\* nextRunAt moves on from now, or from the slot if that is later; then the
\* next workflow, or the end of the tick.
Advance(p) ==
  LET f == due[p][1] IN
  /\ phase[p] = "advance"
  /\ schedule' = IF StillAtSlot(p)
                 THEN [schedule EXCEPT
                        ![f.workflow].nextRunAt =
                           NextRunAfter(f.cron, Later(f.slot, current[p])),
                        ![f.workflow].lastError = failed[p]]
                 ELSE schedule
  /\ IF Len(due[p]) > 1
     THEN /\ GoTo(p, "start")
          /\ due' = [due EXCEPT ![p] = Tail(@)]
          /\ UNCHANGED <<current, failed>>
     ELSE GoTo(p, "idle") /\ Forget(p)
  /\ UNCHANGED <<key, tokens, fence, held, fresh, timer, faults,
                 now, skew, keys, runs, userVars>>

RunDue(p) == FindDue(p) \/ StartSlot(p) \/ Advance(p)

-----------------------------------------------------------------------------

Next ==
  \/ Clock
  \/ KeyExpires
  \/ \E w \in Workflow :
       \/ ClearSchedule(w)
       \/ \E S \in Cron, enabled \in BOOLEAN : SetSchedule(w, S, enabled)
  \/ \E a \in asked : StoreSchedule(a)
  \/ \E p \in Proc : Election(p) \/ RunDue(p)

Spec == Init /\ [][Next]_vars

\* Processes are started again, intervals fire, ticks run to their end, an
\* abandoned key expires.
Fairness ==
  /\ \A p \in Proc :
       /\ WF_vars(Elect(p) /\ Election(p))
       /\ WF_vars(Restart(p) /\ Election(p))
       /\ WF_vars(RunDue(p))
  /\ WF_vars(~Renewed /\ KeyExpires)

FairSpec == Spec /\ Fairness

-----------------------------------------------------------------------------
(* Properties.                                                             *)

\* A slot is started at most once, with two leaders at once, a crash between
\* the start and the advance, a start that was reported as an error, or clocks
\* that differ.
OneRunPerSlot == \A w \in Workflow, s \in Slot : runs[w][s] <= 1

\* nextRunAt is always a slot of the schedule's own cron: a leader that read
\* the workflow before the user changed or cleared the schedule leaves the new
\* one alone, provided that the new one is stored before its first slot is due
\* by any process' clock. A write that comes later than that, or an API whose
\* clock is behind, can store the very slot that a leader has read: the compare
\* then passes, and nextRunAt comes from the old cron.
NextRunIsASlot ==
  \A w \in Workflow \ late :
    schedule[w] # None => schedule[w].nextRunAt \in schedule[w].cron

\* The scheduler moves nextRunAt off a slot only once the slot's run exists or
\* its failure is on record: no slot is passed over in silence (scheduler.js,
\* "Advancing first could skip a run forever").
NoSlotSkipped ==
  [][\A w \in Workflow :
       edits' = edits /\ schedule'[w] # schedule[w]
         => runs[w][schedule[w].nextRunAt] = 1 \/ schedule'[w].lastError]_vars

\* A slot that is due by every clock is handled in the end, unless the user
\* takes it away: leaders die, lose the lock or fail, and another tick gets to it.
DueSlotHandled ==
  \A w \in Workflow, s \in Slot \cap (1 .. MaxTime) :
    LET waits == IsDue(w, now) /\ schedule[w].nextRunAt = s
    IN  waits ~> ~waits
=============================================================================
