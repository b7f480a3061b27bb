----------------------------- MODULE RateLimiter -----------------------------
(***************************************************************************)
(* The sliding-window rate limiter (middleware/rateLimit.js): per bucket,  *)
(* which is a limiter's name and who is limited, a Redis sorted set of the *)
(* times of the requests admitted. A route puts its requests through       *)
(* several buckets one after the other; between two of them other requests *)
(* run. The Lua script is one step.                                        *)
(*                                                                         *)
(* Time is Redis' own clock (TIME), in ticks.                              *)
(***************************************************************************)
EXTENDS Integers, Sequences, FiniteSetsExt

CONSTANTS
  Bucket,      \* `${prefix}:${name}:${who}`
  Limit,       \* Bucket -> limit
  Window,      \* Bucket -> windowMs, in ticks
  FailClosed,  \* Bucket -> failClosed
  Request,     \* concurrent requests
  Routes,      \* the sequences of buckets that routes put requests through
  Second,      \* ticks per second
  MaxTime,     \* bound: ticks
  MaxOutages   \* bound: times Redis becomes unreachable

ASSUME LimiterAssumption ==
  /\ Limit \in [Bucket -> Nat \ {0}] /\ Window \in [Bucket -> Nat \ {0}]
  /\ FailClosed \in [Bucket -> BOOLEAN]
  /\ Routes \subseteq Seq(Bucket)
  /\ Second \in Nat \ {0} /\ MaxTime \in Nat /\ MaxOutages \in Nat

VARIABLES
  clock,      \* Redis' TIME
  log,        \* per bucket: the sorted set, its members with their scores
  expiresAt,  \* per bucket: when Redis drops the key (PEXPIRE)
  reachable,  \* Redis answers
  outages,    \* times it stopped doing so
  ahead,      \* per request: the buckets it has yet to pass
  refusal,    \* per request: its last 429, as [bucket, at, seconds]
  passed,     \* history: per bucket, the members of the requests it let pass
  unseen      \* history: the buckets that let one pass that is not among them

limiterVars == <<clock, log, expiresAt, reachable, outages, ahead, refusal, passed, unseen>>

NoRefusal == [bucket |-> "none", at |-> 0, seconds |-> 0]

LimiterInit ==
  /\ clock = 0
  /\ log = [b \in Bucket |-> {}]
  /\ expiresAt = [b \in Bucket |-> 0]
  /\ reachable = TRUE /\ outages = 0
  /\ ahead = [r \in Request |-> <<>>]
  /\ refusal = [r \in Request |-> NoRefusal]
  /\ passed = [b \in Bucket |-> {}] /\ unseen = {}

-----------------------------------------------------------------------------
(* SLIDING_WINDOW.                                                         *)

\* Mutant: the key expires when its first request leaves the window.
FixedWindow(b) == IF log[b] = {} THEN clock + Window[b] ELSE expiresAt[b]

\* PEXPIRE: with every request admitted.
Expiry(b) == clock + Window[b]

\* ZREMRANGEBYSCORE key -inf now-window, on a key that may be gone.
InWindow(b) ==
  IF clock >= expiresAt[b] THEN {}
  ELSE {m \in log[b] : m.at > clock - Window[b]}

\* now .. '-' .. ARGV[3], a member that was never used, with its score.
Member(b) == [at |-> clock, id |-> Cardinality(passed[b])]

\* ZRANGE key 0 0 WITHSCORES
Oldest(b) == Min({m.at : m \in InWindow(b)})

\* Mutant: the seconds are rounded down.
FloorSeconds(ticks) == IF ticks < Second THEN 1 ELSE ticks \div Second

\* Math.max(1, Math.ceil(retryAfterMs / 1000))
Seconds(ticks) ==
  IF ticks < Second THEN 1 ELSE (ticks + Second - 1) \div Second

Proceed(r) == ahead' = [ahead EXCEPT ![r] = Tail(@)]
Stop(r) == ahead' = [ahead EXCEPT ![r] = <<>>]

Arrive(r, route) ==
  /\ ahead[r] = <<>>
  /\ ahead' = [ahead EXCEPT ![r] = route]
  /\ refusal' = [refusal EXCEPT ![r] = NoRefusal]
  /\ UNCHANGED <<clock, log, expiresAt, reachable, outages, passed, unseen>>

\* count < limit: record the request and go on.
Admit(r) ==
  /\ ahead[r] # <<>> /\ reachable
  /\ LET b == Head(ahead[r]) IN
     /\ Cardinality(InWindow(b)) < Limit[b]
     /\ log' = [log EXCEPT ![b] = InWindow(b) \cup {Member(b)}]
     /\ expiresAt' = [expiresAt EXCEPT ![b] = Expiry(b)]
     /\ passed' = [passed EXCEPT ![b] = @ \cup {Member(b)}]
  /\ Proceed(r)
  /\ UNCHANGED <<clock, reachable, outages, refusal, unseen>>

\* 429, with the time at which the oldest request leaves the window.
Refuse(r) ==
  /\ ahead[r] # <<>> /\ reachable
  /\ LET b == Head(ahead[r]) IN
     /\ Cardinality(InWindow(b)) >= Limit[b]
     /\ log' = [log EXCEPT ![b] = InWindow(b)]
     /\ refusal' = [refusal EXCEPT ![r] =
          [bucket |-> b, at |-> clock,
           seconds |-> Seconds(Oldest(b) + Window[b] - clock)]]
  /\ Stop(r)
  /\ UNCHANGED <<clock, expiresAt, reachable, outages, passed, unseen>>

\* The script cannot be run: 503 if failClosed, or on to the next handler.
Unavailable(r) ==
  /\ ahead[r] # <<>> /\ ~reachable
  /\ IF FailClosed[Head(ahead[r])]
     THEN Stop(r) /\ UNCHANGED unseen
     ELSE Proceed(r) /\ unseen' = unseen \cup {Head(ahead[r])}
  /\ UNCHANGED <<clock, log, expiresAt, reachable, outages, refusal, passed>>

-----------------------------------------------------------------------------

TimePasses ==
  /\ clock < MaxTime
  /\ clock' = clock + 1
  /\ UNCHANGED <<log, expiresAt, reachable, outages, ahead, refusal, passed, unseen>>

Outage ==
  /\ reachable /\ outages < MaxOutages
  /\ reachable' = FALSE /\ outages' = outages + 1
  /\ UNCHANGED <<clock, log, expiresAt, ahead, refusal, passed, unseen>>

BackUp ==
  /\ ~reachable
  /\ reachable' = TRUE
  /\ UNCHANGED <<clock, log, expiresAt, outages, ahead, refusal, passed, unseen>>

LimiterNext ==
  \/ \E r \in Request :
       \/ \E route \in Routes : Arrive(r, route)
       \/ Admit(r) \/ Refuse(r) \/ Unavailable(r)
  \/ TimePasses \/ Outage \/ BackUp

LimiterSpec == LimiterInit /\ [][LimiterNext]_limiterVars

-----------------------------------------------------------------------------
(* Properties.                                                             *)

\* The requests that bucket b let pass in the window that ends at t, counting
\* those up to time upTo.
PassedIn(b, t, upTo) ==
  {m \in passed[b] : m.at > t - Window[b] /\ m.at <= t /\ m.at <= upTo}

\* "A sliding window never exceeds `limit` in ANY window-sized period"
\* (rateLimit.js:12-13): not only in the one that ends now. It says so of the
\* requests a bucket has seen; and "brute-force protection must not vanish"
\* (rateLimit.js:58): a bucket that fails closed has seen all it let pass.
WithinAnyWindow ==
  \A b \in Bucket :
    /\ \A t \in 0 .. clock : Cardinality(PassedIn(b, t, t)) <= Limit[b]
    /\ FailClosed[b] => b \notin unseen

\* A client that waits the Retry-After seconds of its 429 finds room, unless
\* others took it meanwhile; and had it waited a second less, it would not.
RetryAfterExact ==
  \A r \in Request : refusal[r] # NoRefusal =>
    LET b == refusal[r].bucket
        t == refusal[r].at
        count(s) == Cardinality(PassedIn(b, t + s * Second, t))
    IN  /\ count(refusal[r].seconds) < Limit[b]
        /\ refusal[r].seconds > 1 => count(refusal[r].seconds - 1) >= Limit[b]
=============================================================================
