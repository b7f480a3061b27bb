--------------------------- MODULE ProviderFallback ---------------------------
(***************************************************************************)
(* The chain of LLM providers (ai/providers/fallback.js) with a circuit    *)
(* breaker each (ai/providers/circuitBreaker.js), in one worker process    *)
(* whose handlers call it concurrently. JavaScript runs to the next await: *)
(* from allow(), through the providers that refuse, to the request that is *)
(* sent is one action, and so is the handling of an answer with the move   *)
(* to the next provider.                                                   *)
(*                                                                         *)
(* failures is kept up to Threshold: it is only compared with it and reset *)
(* to 0. Of openedAt, only whether the cooldown is over is kept.           *)
(***************************************************************************)
EXTENDS Integers

CONSTANTS
  Length,       \* the length of the chain
  Chat, Embed,  \* concurrent callers of chat() and of embed()
  Threshold,    \* failureThreshold
  BadTrials,    \* whether a trial may be answered with a non-retryable error
  MaxFlips,     \* bound: changes between up and down of each provider
  MaxAborts     \* bound: requests whose caller gives up

ASSUME FallbackAssumption ==
  /\ Length \in Nat \ {0} /\ Threshold \in Nat \ {0} 
  /\ MaxFlips \in Nat /\ MaxAborts \in Nat
  /\ BadTrials \in BOOLEAN
  /\ Chat \cap Embed = {}

Provider == 1 .. Length
Call == Chat \cup Embed

VARIABLES
  state,     \* breaker: "CLOSED", "OPEN", "HALF_OPEN"
  failures,  \* breaker: failures in a row
  cooled,    \* breaker: cooldownMs have passed since openedAt
  trial,     \* breaker: trialInFlight
  at,        \* per caller: the provider its request is at, 0 for none
  probe,     \* per caller: its request was let through as the trial
  aborted,   \* per caller: its AbortSignal has fired
  aborts,    \* how often one has
  up,        \* per provider: whether it is serving
  flips      \* per provider: changes of up so far

breakerVars == <<state, failures, cooled, trial>>
abortVars == <<aborted, aborts>>
vars == <<breakerVars, at, probe, abortVars, up, flips>>

Init ==
  /\ state = [i \in Provider |-> "CLOSED"]
  /\ failures = [i \in Provider |-> 0]
  /\ cooled = [i \in Provider |-> FALSE]
  /\ trial = [i \in Provider |-> FALSE]
  /\ at = [c \in Call |-> 0]
  /\ probe = [c \in Call |-> FALSE]
  /\ aborted = [c \in Call |-> FALSE] /\ aborts = 0
  /\ up = [i \in Provider |-> TRUE]
  /\ flips = [i \in Provider |-> 0]

-----------------------------------------------------------------------------
(* The breaker, as values: b is [state, failures, cooled, trial] of one    *)
(* provider.                                                               *)

Breaker(i) == [state |-> state[i], failures |-> failures[i],
               cooled |-> cooled[i], trial |-> trial[i]]

\* Mutant: an OPEN circuit never gets a trial.
AllowsWithoutCooldown(b) ==
  \/ b.state = "CLOSED"
  \/ b.state = "HALF_OPEN" /\ ~b.trial

\* allow() returns true; a refusal changes nothing.
Allows(b) ==
  \/ b.state = "CLOSED"
  \/ b.state = "OPEN" /\ b.cooled
  \/ b.state = "HALF_OPEN" /\ ~b.trial

Allowed(b) == IF b.state = "CLOSED" THEN b
              ELSE [b EXCEPT !.state = "HALF_OPEN", !.trial = TRUE]

Success(b) == [b EXCEPT !.state = "CLOSED", !.failures = 0, !.trial = FALSE]

Failure(b) ==
  LET n == IF b.failures < Threshold THEN b.failures + 1 ELSE Threshold
      opens == b.state = "HALF_OPEN" \/ n = Threshold
  IN  [b EXCEPT !.failures = n, !.trial = FALSE,
                !.state = IF opens THEN "OPEN" ELSE @,
                !.cooled = IF opens THEN FALSE ELSE @]

\* All breakers become what B says.
SetBreakers(B) ==
  /\ state' = [i \in Provider |-> B[i].state]
  /\ failures' = [i \in Provider |-> B[i].failures]
  /\ cooled' = [i \in Provider |-> B[i].cooled]
  /\ trial' = [i \in Provider |-> B[i].trial]

Breakers == [i \in Provider |-> Breaker(i)]

-----------------------------------------------------------------------------
(* chat() and embed().                                                     *)

\* The providers of S, tried in order, that let the request through.
FirstAllowing(B, S) ==
  {i \in S : Allows(B[i]) /\ \A j \in S : j < i => ~Allows(B[j])}

Return(c) ==
  /\ at' = [at EXCEPT ![c] = 0]
  /\ probe' = [probe EXCEPT ![c] = FALSE]
  /\ aborted' = [aborted EXCEPT ![c] = FALSE]

\* Send the request to the first provider of S that allows it, or throw; B is
\* what the breakers are at that moment.
Try(c, B, S) ==
  IF FirstAllowing(B, S) = {}
  THEN Return(c) /\ SetBreakers(B)
  ELSE \E i \in FirstAllowing(B, S) :
         /\ at' = [at EXCEPT ![c] = i]
         /\ probe' = [probe EXCEPT ![c] = B[i].state # "CLOSED"]
         /\ SetBreakers([B EXCEPT ![i] = Allowed(@)])
         /\ UNCHANGED aborted

\* embed() uses the first provider only.
Chain(c) == IF c \in Chat THEN Provider ELSE {1}

Send(c) ==
  /\ at[c] = 0
  /\ Try(c, Breakers, Chain(c))
  /\ UNCHANGED <<aborts, up, flips>>

Answered(c) ==
  /\ at[c] # 0 /\ up[at[c]] /\ ~aborted[c]
  /\ Return(c)
  /\ SetBreakers([Breakers EXCEPT ![at[c]] = Success(@)])
  /\ UNCHANGED <<aborts, up, flips>>

\* err.retryable === false is thrown on: the breaker hears nothing of it.
AnsweredBadRequest(c) ==
  /\ at[c] # 0 /\ up[at[c]] /\ ~aborted[c]
  /\ probe[c] => BadTrials
  /\ Return(c)
  /\ UNCHANGED <<breakerVars, aborts, up, flips>>

\* The caller's signal fires while its request is under way: the task timed
\* out or lost its lease, or the agent's time is up.
Abort(c) ==
  /\ at[c] # 0 /\ ~aborted[c] /\ aborts < MaxAborts
  /\ aborted' = [aborted EXCEPT ![c] = TRUE]
  /\ aborts' = aborts + 1
  /\ UNCHANGED <<breakerVars, at, probe, up, flips>>

\* Mutant: an aborted request is not counted for or against its provider.
BlamesTheDown(c, b) == IF aborted[c] THEN b ELSE Failure(b)

\* post() makes a retryable ProviderError of whatever fetch throws.
Blames(c, b) == Failure(b)

\* A retryable failure: chat() goes on to the rest of the chain, where a
\* request that was aborted fails in the same way.
Unanswered(c) ==
  /\ at[c] # 0 /\ (~up[at[c]] \/ aborted[c])
  /\ Try(c, [Breakers EXCEPT ![at[c]] = Blames(c, @)],
         {i \in Chain(c) : i > at[c]})
  /\ UNCHANGED <<aborts, up, flips>>

-----------------------------------------------------------------------------

CooldownPasses(i) ==
  /\ state[i] = "OPEN" /\ ~cooled[i]
  /\ cooled' = [cooled EXCEPT ![i] = TRUE]
  /\ UNCHANGED <<state, failures, trial, at, probe, abortVars, up, flips>>

\* A provider goes down or comes back.
Flip(i) ==
  /\ flips[i] < MaxFlips
  /\ flips' = [flips EXCEPT ![i] = @ + 1]
  /\ up' = [up EXCEPT ![i] = ~@]
  /\ UNCHANGED <<breakerVars, at, probe, abortVars>>

Settle(c) == Answered(c) \/ Unanswered(c)

Next ==
  \/ \E c \in Call : Send(c) \/ Settle(c) \/ AnsweredBadRequest(c) \/ Abort(c)
  \/ \E i \in Provider : CooldownPasses(i) \/ Flip(i)

Spec == Init /\ [][Next]_vars

\* There is traffic, requests end (providers answer or time out), time passes.
Fairness ==
  /\ \A c \in Call : WF_vars(Send(c)) /\ WF_vars(Settle(c))
  /\ \A i \in Provider : WF_vars(CooldownPasses(i))

FairSpec == Spec /\ Fairness

-----------------------------------------------------------------------------
(* Properties.                                                             *)

\* A HALF_OPEN circuit that refuses calls is waiting for one: the trial is at
\* the provider, and its end will close or open the circuit
\* (docs/ai-architecture.md:81-82).
TrialHasACall ==
  \A i \in Provider :
    state[i] = "HALF_OPEN" /\ trial[i] => \E c \in Call : at[c] = i /\ probe[c]

\* A primary that is up for good gets its traffic back.
PrimaryComesBack == <>[](up[1]) => <>[](state[1] = "CLOSED")
=============================================================================
