----------------------------- MODULE LeaderLock -----------------------------
(***************************************************************************)
(* The Redis lock (queues/lock.js) and the leader election that the outbox *)
(* relay and the scheduler build on it: the first half of their tick(),    *)
(* and their stop(). acquire() is two Redis commands, SET NX PX and INCR,  *)
(* hence two actions; release() and extend() are one script each. A random *)
(* token is the number of the successful SET it was written by: unique,    *)
(* compared for equality only. The time left is not kept: the key may      *)
(* expire at any time, which is a fault while its holder is still ticking. *)
(***************************************************************************)
EXTENDS Integers

CONSTANTS
  Proc,       \* the worker processes; each runs one leader candidate
  MaxFaults   \* bound: crashes, stops, failed calls and stalls of a run

ASSUME LockAssumption == MaxFaults \in Nat

VARIABLES
  key,      \* the token stored under the lock's key, 0 when there is no key
  tokens,   \* tokens written so far
  fence,    \* the counter under the fence key
  held,     \* per process: the token it believes it holds, 0 for null
  fresh,    \* per process: the token it has SET and not yet INCRed for, or 0
  phase,    \* per process: where its tick is; "idle" is busy = false
  timer,    \* per process: the interval is armed
  faults    \* faults so far

lockVars == <<key, tokens, fence, held, fresh, phase, timer, faults>>

\* The intervals are armed, or the processes have yet to start.
LockInit(armed) ==
  /\ key = 0 /\ tokens = 0 /\ fence = 0
  /\ held = [p \in Proc |-> 0]
  /\ fresh = [p \in Proc |-> 0]
  /\ phase = [p \in Proc |-> "idle"]
  /\ timer = [p \in Proc |-> armed]
  /\ faults = 0

Fault == faults < MaxFaults /\ faults' = faults + 1

GoTo(p, s) == phase' = [phase EXCEPT ![p] = s]

\* Still renewed by the process that wrote it.
Renewed == \E p \in Proc : key \in {held[p], fresh[p]} /\ timer[p]

-----------------------------------------------------------------------------
(* tick(), up to the point where the process knows whether it leads.       *)

\* if (held && !(await lock.extend(held.token))) held = null
Extend(p) ==
  /\ phase[p] = "idle" /\ timer[p] /\ held[p] # 0
  /\ IF key = held[p]
     THEN GoTo(p, "work") /\ UNCHANGED held
     ELSE GoTo(p, "acquire") /\ held' = [held EXCEPT ![p] = 0]
  /\ UNCHANGED <<key, tokens, fence, fresh, timer, faults>>

\* Mutant: SET without NX.
SetAlways(p) ==
  /\ \/ phase[p] = "idle" /\ timer[p] /\ held[p] = 0
     \/ phase[p] = "acquire"
  /\ tokens' = tokens + 1
  /\ key' = tokens + 1
  /\ fresh' = [fresh EXCEPT ![p] = tokens + 1]
  /\ GoTo(p, "incr")
  /\ UNCHANGED <<fence, held, timer, faults>>

\* acquire(): SET key token NX PX ttl. A refusal ends the tick.
SetNx(p) ==
  /\ \/ phase[p] = "idle" /\ timer[p] /\ held[p] = 0
     \/ phase[p] = "acquire"
  /\ IF key = 0
     THEN /\ tokens' = tokens + 1
          /\ key' = tokens + 1
          /\ fresh' = [fresh EXCEPT ![p] = tokens + 1]
          /\ GoTo(p, "incr")
     ELSE GoTo(p, "idle") /\ UNCHANGED <<tokens, key, fresh>>
  /\ UNCHANGED <<fence, held, timer, faults>>

\* acquire(): INCR fenceKey. held becomes { token, fence }, lost key or not.
Incr(p) ==
  /\ phase[p] = "incr"
  /\ fence' = fence + 1
  /\ held' = [held EXCEPT ![p] = fresh[p]]
  /\ fresh' = [fresh EXCEPT ![p] = 0]
  /\ GoTo(p, "work")
  /\ UNCHANGED <<key, tokens, timer, faults>>

\* A call of the tick throws and is logged; what was SET stays SET.
TickFails(p) ==
  /\ phase[p] # "idle"
  /\ Fault
  /\ fresh' = [fresh EXCEPT ![p] = 0]
  /\ GoTo(p, "idle")
  /\ UNCHANGED <<key, tokens, fence, held, timer>>

-----------------------------------------------------------------------------
(* stop(), crashes, and the clock of Redis.                                *)

\* The compare of RELEASE's compare-and-delete.
Releases(p) == held[p] # 0 /\ key = held[p]

\* stop() does not wait for a tick that is under way: that tick goes on.
\* A release that fails is swallowed.
Stop(p) ==
  /\ timer[p]
  /\ Fault
  /\ timer' = [timer EXCEPT ![p] = FALSE]
  /\ held' = [held EXCEPT ![p] = 0]
  /\ \/ key' = IF Releases(p) THEN 0 ELSE key
     \/ key' = key
  /\ UNCHANGED <<tokens, fence, fresh, phase>>

Crash(p) ==
  /\ timer[p]
  /\ Fault
  /\ timer' = [timer EXCEPT ![p] = FALSE]
  /\ held' = [held EXCEPT ![p] = 0]
  /\ fresh' = [fresh EXCEPT ![p] = 0]
  /\ GoTo(p, "idle")
  /\ UNCHANGED <<key, tokens, fence>>

\* A process starts, the first one or in place of one that stopped or crashed.
Restart(p) ==
  /\ ~timer[p]
  /\ timer' = [timer EXCEPT ![p] = TRUE]
  /\ held' = [held EXCEPT ![p] = 0]
  /\ fresh' = [fresh EXCEPT ![p] = 0]
  /\ GoTo(p, "idle")
  /\ UNCHANGED <<key, tokens, fence, faults>>

\* The PX of the key runs out.
Expire ==
  /\ key # 0
  /\ IF Renewed THEN Fault ELSE UNCHANGED faults
  /\ key' = 0
  /\ UNCHANGED <<tokens, fence, held, fresh, phase, timer>>

Elect(p) == Extend(p) \/ SetNx(p) \/ Incr(p)

Disturb(p) == TickFails(p) \/ Stop(p) \/ Crash(p) \/ Restart(p)

-----------------------------------------------------------------------------

\* tick() has passed if (!held) return: the process acts as the leader.
Leading(p) == phase[p] \notin {"idle", "acquire", "incr"}

\* "only one holder" (lock.js:5): as long as nothing fails or outlasts its TTL
\* one process leads at a time, though acquire() is two commands and all tick
\* at once; and even after faults the key is the token of one process at most,
\* so that of several that believe they lead only one can extend or release.
OneLeader ==
  /\ faults = 0 => \A p, q \in Proc : Leading(p) /\ Leading(q) => p = q
  /\ \A p, q \in Proc :
       key # 0 /\ key \in {held[p], fresh[p]} /\ key \in {held[q], fresh[q]} => p = q
=============================================================================
