------------------------------ MODULE AiProofs ------------------------------
(***************************************************************************)
(* The AI runtime: the circuit breakers of the provider chain              *)
(* (ProviderFallback) and one attempt of a task (AiTask), for any number   *)
(* of providers, callers, aborts and outages, and any bounds on repairs    *)
(* and iterations.                                                         *)
(***************************************************************************)
EXTENDS ProviderFallback, AiTask, Facts

-----------------------------------------------------------------------------
(* ProviderFallback.                                                       *)

BreakerRecord == [state : {"CLOSED", "OPEN", "HALF_OPEN"}, failures : 0 .. Threshold,
                  cooled : BOOLEAN, trial : BOOLEAN]

FallbackTypeOK ==
  /\ state \in [Provider -> {"CLOSED", "OPEN", "HALF_OPEN"}]
  /\ failures \in [Provider -> 0 .. Threshold]
  /\ cooled \in [Provider -> BOOLEAN]
  /\ trial \in [Provider -> BOOLEAN]
  /\ at \in [Call -> 0 .. Length]
  /\ probe \in [Call -> BOOLEAN]

\* A breaker that waits for the end of a trial.
Waiting(b) == b.state = "HALF_OPEN" /\ b.trial

FallbackInv == FallbackTypeOK /\ TrialHasACall

\* Whatever ends at a provider, its breaker does not wait for a trial after it.
LEMMA Outcomes ==
  ASSUME NEW b \in BreakerRecord
  PROVE  /\ Success(b) \in BreakerRecord /\ ~Waiting(Success(b))
         /\ Failure(b) \in BreakerRecord /\ ~Waiting(Failure(b))
         /\ Allowed(b) \in BreakerRecord
         /\ Waiting(Allowed(b)) => Waiting(b) \/ b.state # "CLOSED"
<1>1. Threshold \in Nat \ {0}
  BY FallbackAssumption
<1>2. Success(b) \in BreakerRecord /\ ~Waiting(Success(b))
  <2>1. 0 \in 0 .. Threshold
    BY <1>1
  <2>2. Success(b) \in BreakerRecord /\ Success(b).trial = FALSE
    BY <2>1 DEF BreakerRecord, Success
  <2> QED BY <2>2 DEF Waiting
<1>3. Failure(b) \in BreakerRecord /\ ~Waiting(Failure(b))
  <2> DEFINE n == IF b.failures < Threshold THEN b.failures + 1 ELSE Threshold
             opens == b.state = "HALF_OPEN" \/ n = Threshold
             s == IF opens THEN "OPEN" ELSE b.state
             k == IF opens THEN FALSE ELSE b.cooled
  <2>1. n \in 0 .. Threshold /\ s \in {"CLOSED", "OPEN", "HALF_OPEN"} /\ k \in BOOLEAN
    <3>1. b.failures \in 0 .. Threshold
      BY DEF BreakerRecord
    <3>2. n \in 0 .. Threshold
      BY <1>1, <3>1
    <3>3. s \in {"CLOSED", "OPEN", "HALF_OPEN"} /\ k \in BOOLEAN
      <4> HIDE DEF n
      <4> QED BY DEF BreakerRecord
    <3> QED BY <3>2, <3>3
  <2>2. Failure(b) = [b EXCEPT !.failures = n, !.trial = FALSE, !.state = s, !.cooled = k]
    BY DEF Failure
  <2> HIDE DEF n, s, k
  <2>3. Failure(b) \in BreakerRecord /\ Failure(b).trial = FALSE
    BY <2>1, <2>2 DEF BreakerRecord
  <2> QED BY <2>3 DEF Waiting
<1>4. Allowed(b) \in BreakerRecord /\ (Waiting(Allowed(b)) => Waiting(b) \/ b.state # "CLOSED")
  BY DEF BreakerRecord, Allowed, Waiting
<1> QED BY <1>2, <1>3, <1>4

\* The breakers that a step starts from.
LEMMA BreakersNow ==
  ASSUME FallbackTypeOK
  PROVE  /\ Breakers \in [Provider -> BreakerRecord]
         /\ \A i \in Provider : Waiting(Breakers[i]) <=> state[i] = "HALF_OPEN" /\ trial[i]
<1>1. \A i \in Provider : Breakers[i] = Breaker(i)
  BY DEF Breakers
<1> QED BY <1>1 DEF FallbackTypeOK, Breakers, Breaker, BreakerRecord, Waiting

\* The breakers after a step that sets them.
LEMMA BreakersSet ==
  ASSUME NEW B \in [Provider -> BreakerRecord], SetBreakers(B)
  PROVE  /\ state' \in [Provider -> {"CLOSED", "OPEN", "HALF_OPEN"}]
         /\ failures' \in [Provider -> 0 .. Threshold]
         /\ cooled' \in [Provider -> BOOLEAN]
         /\ trial' \in [Provider -> BOOLEAN]
         /\ \A i \in Provider : Waiting(B[i]) <=> state'[i] = "HALF_OPEN" /\ trial'[i]
BY DEF SetBreakers, BreakerRecord, Waiting

\* A request leaves its provider, or comes from none, and goes on along S: what
\* waits for a trial in B waits for the trial of another caller.
LEMMA TryKeeps ==
  ASSUME FallbackTypeOK, NEW c \in Call, NEW B \in [Provider -> BreakerRecord],
         NEW S \in SUBSET Provider, Try(c, B, S),
         \A i \in Provider : Waiting(B[i]) => \E d \in Call : d # c /\ at[d] = i /\ probe[d]
  PROVE  FallbackInv'
<1>1. CASE FirstAllowing(B, S) = {}
  <2>1. Return(c) /\ SetBreakers(B)
    BY <1>1 DEF Try
  <2>2. at' \in [Call -> 0 .. Length] /\ probe' \in [Call -> BOOLEAN]
    BY <2>1, FallbackAssumption DEF Return, FallbackTypeOK
  <2>3. \A d \in Call : d # c => at'[d] = at[d] /\ probe'[d] = probe[d]
    BY <2>1 DEF Return, FallbackTypeOK
  <2>4. FallbackTypeOK'
    BY <2>1, <2>2, BreakersSet DEF FallbackTypeOK
  <2>5. TrialHasACall'
    BY <2>1, <2>3, BreakersSet DEF TrialHasACall
  <2> QED BY <2>4, <2>5 DEF FallbackInv
<1>2. CASE FirstAllowing(B, S) # {}
  <2>1. PICK i \in FirstAllowing(B, S) :
          /\ at' = [at EXCEPT ![c] = i]
          /\ probe' = [probe EXCEPT ![c] = B[i].state # "CLOSED"]
          /\ SetBreakers([B EXCEPT ![i] = Allowed(@)])
    BY <1>2 DEF Try
  <2>2. i \in Provider
    BY DEF FirstAllowing
  <2> DEFINE A == [B EXCEPT ![i] = Allowed(@)]
  <2>3. A \in [Provider -> BreakerRecord]
    BY <2>2, Outcomes
  <2>4. \A j \in Provider : Waiting(A[j]) => Waiting(B[j]) \/ (j = i /\ B[j].state # "CLOSED")
    BY <2>2, Outcomes
  <2>5. SetBreakers(A)
    BY <2>1
  <2> HIDE DEF A
  <2>6. at' \in [Call -> 0 .. Length] /\ probe' \in [Call -> BOOLEAN]
    <3>1. i \in 0 .. Length
      BY <2>2, FallbackAssumption DEF Provider
    <3>2. (B[i].state # "CLOSED") \in BOOLEAN
      OBVIOUS
    <3> QED BY <2>1, <3>1, <3>2 DEF FallbackTypeOK
  <2>7. \A d \in Call : d # c => at'[d] = at[d] /\ probe'[d] = probe[d]
    BY <2>1 DEF FallbackTypeOK
  <2>8. at'[c] = i /\ (probe'[c] <=> B[i].state # "CLOSED")
    BY <2>1 DEF FallbackTypeOK
  <2>9. FallbackTypeOK'
    BY <2>3, <2>5, <2>6, BreakersSet DEF FallbackTypeOK
  <2>10. TrialHasACall'
    <3> SUFFICES ASSUME NEW j \in Provider, Waiting(A[j])
                 PROVE  \E d \in Call : at'[d] = j /\ probe'[d]
      BY <2>3, <2>5, BreakersSet DEF TrialHasACall
    <3>1. CASE Waiting(B[j])
      BY <2>7, <3>1
    <3>2. CASE j = i /\ B[j].state # "CLOSED"
      BY <2>8, <3>2
    <3> QED BY <2>4, <3>1, <3>2
  <2> QED BY <2>9, <2>10 DEF FallbackInv
<1> QED BY <1>1, <1>2

\* The breakers after the end of a request: only the provider's has changed, and
\* the others wait for the trials of others.
LEMMA Ended ==
  ASSUME FallbackInv, NEW c \in Call, at[c] # 0,
         NEW b \in BreakerRecord, ~Waiting(b)
  PROVE  /\ [Breakers EXCEPT ![at[c]] = b] \in [Provider -> BreakerRecord]
         /\ \A i \in Provider : Waiting([Breakers EXCEPT ![at[c]] = b][i]) =>
              \E d \in Call : d # c /\ at[d] = i /\ probe[d]
<1>1. at[c] \in Provider
  BY FallbackAssumption DEF FallbackInv, FallbackTypeOK, Provider
<1>2. Breakers \in [Provider -> BreakerRecord]
  BY BreakersNow DEF FallbackInv
<1>3. \A i \in Provider : Waiting(Breakers[i]) => \E d \in Call : at[d] = i /\ probe[d]
  BY BreakersNow DEF FallbackInv, TrialHasACall
<1> QED BY <1>1, <1>2, <1>3

\* Every step keeps the invariant, if no trial is answered with an error that
\* the breaker does not hear of.
LEMMA FallbackStep == ASSUME ~BadTrials, FallbackInv, [Next]_vars PROVE FallbackInv'
<1>0. FallbackTypeOK /\ TrialHasACall
  BY DEF FallbackInv
<1>1. ASSUME NEW c \in Call, Send(c) PROVE FallbackInv'
  <2>1. at[c] = 0 /\ Try(c, Breakers, Chain(c))
    BY <1>1 DEF Send
  <2>2. Chain(c) \in SUBSET Provider
    BY FallbackAssumption DEF Chain, Provider
  <2>3. \A i \in Provider : Waiting(Breakers[i]) =>
          \E d \in Call : d # c /\ at[d] = i /\ probe[d]
    BY <1>0, <2>1, BreakersNow DEF TrialHasACall, Provider
  <2> QED BY <1>0, <2>1, <2>2, <2>3, BreakersNow, TryKeeps
<1>2. ASSUME NEW c \in Call, Answered(c) PROVE FallbackInv'
  <2> DEFINE b == Success(Breakers[at[c]])
             B == [Breakers EXCEPT ![at[c]] = b]
  <2>1. at[c] # 0 /\ Return(c) /\ SetBreakers(B)
    BY <1>2 DEF Answered
  <2>2. at[c] \in Provider
    BY <1>0, <2>1, FallbackAssumption DEF FallbackTypeOK, Provider
  <2>3. b \in BreakerRecord /\ ~Waiting(b)
    BY <1>0, <2>2, BreakersNow, Outcomes
  <2> HIDE DEF b
  <2>4. B \in [Provider -> BreakerRecord]
        /\ \A i \in Provider : Waiting(B[i]) => \E d \in Call : d # c /\ at[d] = i /\ probe[d]
    BY <2>1, <2>3, Ended
  <2> HIDE DEF B
  <2>5. at' \in [Call -> 0 .. Length] /\ probe' \in [Call -> BOOLEAN]
    BY <1>0, <2>1, FallbackAssumption DEF Return, FallbackTypeOK
  <2>6. \A d \in Call : d # c => at'[d] = at[d] /\ probe'[d] = probe[d]
    BY <1>0, <2>1 DEF Return, FallbackTypeOK
  <2>7. FallbackTypeOK'
    BY <2>1, <2>4, <2>5, BreakersSet DEF FallbackTypeOK
  <2>8. TrialHasACall'
    BY <2>1, <2>4, <2>6, BreakersSet DEF TrialHasACall
  <2> QED BY <2>7, <2>8 DEF FallbackInv
<1>3. ASSUME NEW c \in Call, Unanswered(c) PROVE FallbackInv'
  <2> DEFINE b == Failure(Breakers[at[c]])
             B == [Breakers EXCEPT ![at[c]] = b]
             S == {i \in Chain(c) : i > at[c]}
  <2>1. at[c] # 0 /\ Try(c, B, S)
    BY <1>3 DEF Unanswered, Blames
  <2>2. at[c] \in Provider
    BY <1>0, <2>1, FallbackAssumption DEF FallbackTypeOK, Provider
  <2>3. b \in BreakerRecord /\ ~Waiting(b)
    BY <1>0, <2>2, BreakersNow, Outcomes
  <2>4. S \in SUBSET Provider
    BY FallbackAssumption DEF Chain, Provider
  <2> HIDE DEF b, S
  <2>5. B \in [Provider -> BreakerRecord]
        /\ \A i \in Provider : Waiting(B[i]) => \E d \in Call : d # c /\ at[d] = i /\ probe[d]
    BY <2>1, <2>3, Ended
  <2> HIDE DEF B
  <2> QED BY <1>0, <2>1, <2>4, <2>5, TryKeeps
<1>4. ASSUME NEW c \in Call, AnsweredBadRequest(c) PROVE FallbackInv'
  <2>1. ~probe[c] /\ Return(c) /\ UNCHANGED breakerVars
    BY <1>4 DEF AnsweredBadRequest
  <2>2. at' \in [Call -> 0 .. Length] /\ probe' \in [Call -> BOOLEAN]
    BY <1>0, <2>1, FallbackAssumption DEF Return, FallbackTypeOK
  <2>3. \A d \in Call : probe[d] => at'[d] = at[d] /\ probe'[d] = probe[d]
    BY <1>0, <2>1 DEF Return, FallbackTypeOK
  <2> QED BY <1>0, <2>1, <2>2, <2>3 DEF FallbackInv, FallbackTypeOK, TrialHasACall, breakerVars
<1>5. ASSUME NEW c \in Call, Abort(c) PROVE FallbackInv'
  BY <1>0, <1>5 DEF Abort, FallbackInv, FallbackTypeOK, TrialHasACall, breakerVars
<1>6. ASSUME NEW i \in Provider, CooldownPasses(i) PROVE FallbackInv'
  BY <1>0, <1>6 DEF CooldownPasses, FallbackInv, FallbackTypeOK, TrialHasACall
<1>7. ASSUME NEW i \in Provider, Flip(i) PROVE FallbackInv'
  BY <1>0, <1>7 DEF Flip, FallbackInv, FallbackTypeOK, TrialHasACall, breakerVars
<1>8. CASE UNCHANGED vars
  BY <1>0, <1>8 DEF vars, breakerVars, FallbackInv, FallbackTypeOK, TrialHasACall
<1> QED BY <1>1, <1>2, <1>3, <1>4, <1>5, <1>6, <1>7, <1>8 DEF Next, Settle

\* While no trial is answered with an error that is not retryable (the case
\* that onFailure() and onSuccess() both miss), a HALF_OPEN circuit that
\* refuses calls is waiting for one that is under way, whichever calls are
\* aborted, overtake each other or outlive a change of the circuit.
THEOREM TrialHasACallTheorem == ASSUME ~BadTrials PROVE Spec => []TrialHasACall
<1>1. Init => FallbackInv
  <2> SUFFICES ASSUME Init PROVE FallbackInv
    OBVIOUS
  <2>1. FallbackTypeOK
    BY FallbackAssumption DEF Init, FallbackTypeOK
  <2>2. TrialHasACall
    BY DEF Init, TrialHasACall
  <2> QED BY <2>1, <2>2 DEF FallbackInv
<1>2. FallbackInv /\ [Next]_vars => FallbackInv'
  BY FallbackStep
<1>3. FallbackInv => TrialHasACall
  BY DEF FallbackInv
<1> QED BY <1>1, <1>2, <1>3, PTL DEF Spec

-----------------------------------------------------------------------------
(* AiTask.                                                                 *)

Report == [how : {"none", "complete", "permanent", "transient", "suspend"},
           source : {"none", "heuristic", "parent", "builtin", "no hits", "llm"},
           usage : Nat]

Logged == ToolCall \cup {"invalid", "final", "refused", "down", "embedded"}

AttemptTypeOK ==
  /\ stage \in {"idle", "sleep", "embedding", "role", "chat", "tool", "over"}
  /\ tries \in Nat /\ usage \in Nat /\ iteration \in Nat /\ spent \in Nat
  /\ fired \in BOOLEAN /\ firedAt \in Nat
  /\ calls \in Seq(Logged)
  /\ report \in Report

Answers == {i \in DOMAIN calls : calls[i] # "embedded"}

\* Until the first call, everything is as it was.
NothingYet ==
  stage \in {"idle", "sleep", "embedding", "role"} =>
    calls = <<>> /\ tries = 1 /\ usage = 0 /\ iteration = 1 /\ spent = 0 /\ lastCall = "none"

\* The loop around the tools is the agent's.
LoopIsAgents == stage \in {"role", "tool"} => handler = "ai.agent"

\* A handler that still runs has reported nothing, or its timeout has.
NotReported == stage # "over" => report = Nothing \/ (fired /\ report = Failed("transient"))

\* Once the signal has fired, the handler logs one failed call, its last step.
QuietNow ==
  fired => \/ Len(calls) = firedAt
           \/ /\ stage = "over" /\ Len(calls) = firedAt + 1
              /\ calls[Len(calls)] \in {"down", "refused"}

\* The answers so far are those of the iterations before and of this one.
AnswersCounted ==
  /\ stage = "chat" => Cardinality(Answers) = spent + usage
  /\ stage = "tool" => Cardinality(Answers) = spent
  /\ report.source = "llm" => report.usage = Cardinality(Answers)

\* This iteration's answers were all invalid, and not more than can be repaired.
RepairsCounted ==
  stage = "chat" =>
    /\ tries \in 1 .. MaxRepairs + 1 /\ tries - 1 <= Len(calls)
    /\ \A i \in Len(calls) - tries + 2 .. Len(calls) : calls[i] = "invalid"

\* lastCall is the last tool call, if there was one.
LastCallRight ==
  stage \in {"chat", "tool"} =>
    \/ ToolCalls = {} /\ lastCall = "none"
    \/ \E i \in ToolCalls : calls[i] = lastCall /\ \A k \in ToolCalls : k <= i

\* Every iteration before this one ended in a tool call, and a tool runs only
\* after one.
IterationsCounted ==
  /\ stage = "chat" => iteration <= MaxIterations /\ Cardinality(ToolCalls) = iteration - 1
  /\ stage = "tool" => /\ iteration <= MaxIterations /\ Cardinality(ToolCalls) = iteration
                       /\ calls # <<>> /\ calls[Len(calls)] \in ToolCall

AttemptInv ==
  /\ AttemptTypeOK /\ NothingYet /\ LoopIsAgents /\ NotReported /\ QuietNow
  /\ AnswersCounted /\ RepairsCounted /\ LastCallRight /\ IterationsCounted
  /\ FailureKindRight

\* What a call that is logged changes.
LEMMA Logging ==
  ASSUME AttemptTypeOK, NEW e \in Logged, Logs(e)
  PROVE  /\ calls' \in Seq(Logged) /\ Len(calls) \in Nat /\ Len(calls') = Len(calls) + 1
         /\ \A i \in 1 .. Len(calls) : calls'[i] = calls[i]
         /\ calls'[Len(calls')] = e /\ calls' # <<>>
         /\ Cardinality(Answers) \in Nat /\ Cardinality(ToolCalls) \in Nat
         /\ Cardinality(Answers') = Cardinality(Answers) + IF e = "embedded" THEN 0 ELSE 1
         /\ Cardinality(ToolCalls') = Cardinality(ToolCalls) + IF e \in ToolCall THEN 1 ELSE 0
         /\ ToolCalls' = IF e \in ToolCall THEN ToolCalls \cup {Len(calls) + 1} ELSE ToolCalls
         /\ ToolCalls \in SUBSET (1 .. Len(calls))
<1>1. calls \in Seq(Logged) /\ calls' = Append(calls, e)
  BY DEF AttemptTypeOK, Logs
<1>2. /\ calls' \in Seq(Logged) /\ Len(calls) \in Nat /\ Len(calls') = Len(calls) + 1
      /\ \A i \in 1 .. Len(calls) : calls'[i] = calls[i]
      /\ calls'[Len(calls')] = e
      /\ DOMAIN calls = 1 .. Len(calls) /\ DOMAIN calls' = 1 .. Len(calls) + 1
  BY <1>1, OneMore
<1>3. calls' # <<>>
  <2>1. Len(calls') # 0
    BY <1>2
  <2>2. Len(<<>>) = 0
    OBVIOUS
  <2> QED BY <2>1, <2>2, Zenon
<1> DEFINE A == Logged \ {"embedded"}
<1>4. Answers = Places(calls, A) /\ Answers' = Places(calls', A)
  <2>1. \A i \in DOMAIN calls : calls[i] \in Logged
    BY <1>1
  <2>2. \A i \in DOMAIN calls' : calls'[i] \in Logged
    BY <1>2
  <2> QED BY <2>1, <2>2 DEF Answers, Places
<1>5. ToolCalls = Places(calls, ToolCall) /\ ToolCalls' = Places(calls', ToolCall)
  BY DEF ToolCalls, Places
<1>6. e \in A <=> e # "embedded"
  OBVIOUS
<1> HIDE DEF A
<1>7. /\ Cardinality(Answers) \in Nat
      /\ Cardinality(Answers') = Cardinality(Answers) + IF e = "embedded" THEN 0 ELSE 1
  <2>1. /\ Cardinality(Places(calls, A)) \in Nat
        /\ Cardinality(Places(Append(calls, e), A))
             = Cardinality(Places(calls, A)) + IF e \in A THEN 1 ELSE 0
    BY <1>1, OneMorePlace
  <2> QED BY <1>1, <1>4, <1>6, <2>1
<1>8. /\ Cardinality(Places(calls, ToolCall)) \in Nat
      /\ Cardinality(Places(Append(calls, e), ToolCall))
           = Cardinality(Places(calls, ToolCall)) + IF e \in ToolCall THEN 1 ELSE 0
      /\ Places(Append(calls, e), ToolCall)
           = IF e \in ToolCall THEN Places(calls, ToolCall) \cup {Len(calls) + 1}
             ELSE Places(calls, ToolCall)
      /\ Places(calls, ToolCall) \in SUBSET (1 .. Len(calls))
  BY <1>1, OneMorePlace
<1> QED BY <1>1, <1>2, <1>3, <1>5, <1>7, <1>8

\* Calls after which trying again is of no use.
Hopeless(s) ==
  \/ s # <<>> /\ s[Len(s)] = "refused"
  \/ Len(s) > MaxRepairs /\ \A i \in Len(s) - MaxRepairs .. Len(s) : s[i] = "invalid"

\* What justifies a permanent failure.
ForGood ==
  \/ trouble # "none"
  \/ /\ handler \notin Classifiers
     /\ Hopeless(calls) \/ Circles \/ Cardinality(ToolCalls) = MaxIterations

\* FailureKindRight, in these words.
LEMMA FailureKinds ==
  /\ FailureKindRight <=> /\ report.how = "permanent" => ForGood
                          /\ report.how = "transient" /\ ~fired => ~Hopeless(calls)
  /\ FailureKindRight' <=> /\ report'.how = "permanent" => ForGood'
                           /\ report'.how = "transient" /\ ~fired' => ~Hopeless(calls')
BY DEF FailureKindRight, ForGood, Hopeless, Refusal, Unrepaired, Last

\* There is hope while the last call was something else.
LEMMA Hope ==
  ASSUME NEW s \in Seq(Logged), s = <<>> \/ s[Len(s)] \notin {"refused", "invalid"}
  PROVE  ~Hopeless(s)
<1>1. MaxRepairs \in Nat /\ Len(s) \in Nat
  BY AiTaskAssumption
<1>2. CASE s = <<>>
  <2>1. Len(s) = 0
    BY <1>2
  <2> QED BY <1>1, <1>2, <2>1 DEF Hopeless
<1>3. CASE s[Len(s)] \notin {"refused", "invalid"}
  <2>1. Len(s) \in Len(s) - MaxRepairs .. Len(s)
    BY <1>1
  <2> QED BY <1>3, <2>1 DEF Hopeless
<1> QED BY <1>2, <1>3

\* Nothing is counted in no calls.
LEMMA NoCalls ==
  /\ calls = <<>> => /\ Answers = {} /\ ToolCalls = {} /\ Cardinality(Answers) = 0
                     /\ Cardinality(ToolCalls) = 0 /\ Len(calls) = 0
  /\ calls' = <<>> => /\ Answers' = {} /\ ToolCalls' = {} /\ Cardinality(Answers') = 0
                      /\ Cardinality(ToolCalls') = 0 /\ Len(calls') = 0
<1>1. DOMAIN <<>> = {} /\ Len(<<>>) = 0 /\ Cardinality({}) = 0
  BY FS_EmptySet
<1>2. calls = <<>> => Answers = {} /\ ToolCalls = {}
  BY DEF Answers, ToolCalls
<1>3. calls' = <<>> => Answers' = {} /\ ToolCalls' = {}
  BY DEF Answers, ToolCalls
<1> QED BY <1>1, <1>2, <1>3, Zenon

\* The handler settles.
LEMMA SettleStep ==
  ASSUME AttemptInv, stage # "over", NEW outcome \in Report, Settles(outcome),
         UNCHANGED <<fired, firedAt>>,
         tries' \in Nat, usage' \in Nat, iteration' \in Nat, spent' \in Nat,
         calls' \in Seq(Logged),
         \/ calls' = calls
         \/ ~fired
         \/ Len(calls') = Len(calls) + 1 /\ calls'[Len(calls')] \in {"down", "refused"},
         outcome.source = "llm" => outcome.usage = Cardinality(Answers'),
         outcome.how = "permanent" => ForGood',
         outcome.how = "transient" /\ ~fired => ~Hopeless(calls')
  PROVE  AttemptInv'
<1>1. /\ stage' = "over" /\ report' = (IF report = Nothing THEN outcome ELSE report)
  BY DEF Settles
<1>2. report = Nothing \/ (fired /\ report = Failed("transient"))
  BY DEF AttemptInv, NotReported
<1>3. report' = outcome \/ (fired /\ report' = Failed("transient"))
  BY <1>1, <1>2
<1>4. report \in Report
  BY DEF AttemptInv, AttemptTypeOK
<1>5. AttemptTypeOK'
  BY <1>1, <1>4 DEF AttemptInv, AttemptTypeOK
<1>6. QuietNow'
  <2>1. fired => Len(calls) = firedAt
    BY DEF AttemptInv, QuietNow
  <2> QED BY <1>1, <2>1 DEF QuietNow
<1>7. Failed("transient").source = "none" /\ Failed("transient").how = "transient"
  BY DEF Failed, Nothing
<1>8. AnswersCounted'
  BY <1>1, <1>3, <1>7 DEF AnswersCounted
<1>9. FailureKindRight'
  BY <1>3, <1>7, FailureKinds
<1> QED BY <1>1, <1>5, <1>6, <1>8, <1>9
     DEF AttemptInv, NothingYet, LoopIsAgents, NotReported, RepairsCounted, LastCallRight,
         IterationsCounted

\* The reports there are.
LEMMA Reports ==
  /\ Nothing \in Report /\ Nothing.how = "none" /\ Nothing.source = "none"
  /\ \A how \in {"permanent", "transient", "suspend"} :
       Failed(how) \in Report /\ Failed(how).how = how /\ Failed(how).source = "none"
  /\ \A source \in {"heuristic", "parent", "builtin", "no hits", "llm"}, n \in Nat :
       /\ Completed(source, n) \in Report /\ Completed(source, n).how = "complete"
       /\ Completed(source, n).source = source /\ Completed(source, n).usage = n
BY DEF Report, Failed, Completed, Nothing

\* What a handler that still runs has reported.
LEMMA SilentSoFar ==
  ASSUME NotReported, stage # "over"
  PROVE  report.source = "none" /\ (report.how = "none" \/ (fired /\ report.how = "transient"))
<1>1. CASE report = Nothing
  BY <1>1, Reports
<1>2. CASE fired /\ report = Failed("transient")
  <2>1. Failed("transient").how = "transient" /\ Failed("transient").source = "none"
    BY DEF Failed, Nothing
  <2> QED BY <1>2, <2>1
<1> QED BY <1>1, <1>2 DEF NotReported

\* The first request to the model.
LEMMA FirstChat ==
  ASSUME AttemptInv, stage \in {"idle", "embedding", "role"}, stage' = "chat",
         UNCHANGED <<tries, usage, iteration, spent, lastCall, fired, firedAt, report>>,
         calls' = calls \/ (Logs("embedded") /\ ~fired)
  PROVE  AttemptInv'
<1>0. AttemptTypeOK /\ MaxRepairs \in Nat /\ MaxIterations \in Nat \ {0}
  BY AiTaskAssumption DEF AttemptInv
<1>1. calls = <<>> /\ tries = 1 /\ usage = 0 /\ iteration = 1 /\ spent = 0 /\ lastCall = "none"
  BY DEF AttemptInv, NothingYet
<1>2. "embedded" \in Logged /\ "embedded" \notin ToolCall
  BY AiTaskAssumption DEF Logged
<1>3. /\ calls' \in Seq(Logged) /\ Len(calls') \in Nat /\ ToolCalls' = {}
      /\ Cardinality(Answers') = 0 /\ Cardinality(ToolCalls') = 0
  <2>1. CASE calls' = calls
    BY <1>0, <1>1, <2>1, NoCalls DEF AttemptTypeOK
  <2>2. CASE Logs("embedded")
    BY <1>0, <1>1, <1>2, <2>2, NoCalls, Logging
  <2> QED BY <2>1, <2>2
<1>4. AttemptTypeOK'
  BY <1>0, <1>3 DEF AttemptTypeOK
<1>5. report = Nothing \/ (fired /\ report = Failed("transient"))
  BY DEF AttemptInv, NotReported
<1>6. report.source = "none" /\ (report.how = "none" \/ (fired /\ report.how = "transient"))
  BY SilentSoFar DEF AttemptInv
<1>7. QuietNow'
  BY DEF AttemptInv, QuietNow
<1>8. AnswersCounted'
  BY <1>1, <1>3, <1>6 DEF AnswersCounted
<1>9. RepairsCounted'
  BY <1>0, <1>1, <1>3 DEF RepairsCounted
<1>10. IterationsCounted'
  BY <1>0, <1>1, <1>3 DEF IterationsCounted
<1>11. FailureKindRight'
  BY <1>6, FailureKinds
<1> QED BY <1>1, <1>3, <1>4, <1>5, <1>7, <1>8, <1>9, <1>10, <1>11
     DEF AttemptInv, NothingYet, LoopIsAgents, NotReported, LastCallRight

\* The agent's loop goes on after a tool call, the last of calls'.
LEMMA IterateStep ==
  ASSUME AttemptInv, stage \in {"chat", "tool"}, handler = "ai.agent", handler' = handler,
         NEW i \in Nat, i > 1, i - 1 <= MaxIterations, Iterate(i),
         UNCHANGED <<fired, firedAt>>, spent' \in Nat,
         calls' \in Seq(Logged), calls' # <<>>, calls'[Len(calls')] \in ToolCall,
         calls' = calls \/ ~fired,
         Cardinality(Answers') = spent', Cardinality(ToolCalls') = i - 1,
         \E k \in ToolCalls' : calls'[k] = lastCall' /\ \A j \in ToolCalls' : j <= k
  PROVE  AttemptInv'
<1>0. /\ AttemptTypeOK /\ MaxRepairs \in Nat /\ MaxIterations \in Nat \ {0}
      /\ handler' \notin Classifiers
  BY AiTaskAssumption DEF AttemptInv, Classifiers
<1>1. ~Hopeless(calls')
  <2>1. calls'[Len(calls')] \notin {"refused", "invalid"}
    BY AiTaskAssumption
  <2> QED BY <2>1, Hope
<1>2. CASE i > MaxIterations
  <2>1. Settles(Failed("permanent")) /\ UNCHANGED <<iteration, tries, usage>>
    BY <1>0, <1>2 DEF Iterate, structuredVars
  <2>2. Cardinality(ToolCalls') = MaxIterations
    BY <1>0, <1>2
  <2>3. ForGood'
    BY <1>0, <2>2 DEF ForGood
  <2>4. /\ Failed("permanent") \in Report /\ Failed("permanent").how = "permanent"
        /\ Failed("permanent").source = "none"
    BY Reports
  <2> QED BY <1>0, <2>1, <2>3, <2>4, SettleStep DEF AttemptTypeOK
<1>3. CASE i <= MaxIterations /\ Told
  <2>1. Settles(Failed("transient")) /\ UNCHANGED <<iteration, tries, usage>>
    BY <1>0, <1>3 DEF Iterate, structuredVars
  <2>2. /\ Failed("transient") \in Report /\ Failed("transient").how = "transient"
        /\ Failed("transient").source = "none"
    BY Reports
  <2> QED BY <1>0, <1>1, <2>1, <2>2, SettleStep DEF AttemptTypeOK
<1>4. CASE i <= MaxIterations /\ ~Told
  <2>1. stage' = "chat" /\ iteration' = i /\ tries' = 1 /\ usage' = 0 /\ report' = report
    BY <1>0, <1>4 DEF Iterate
  <2>2. report.source = "none" /\ (report.how = "none" \/ (fired /\ report.how = "transient"))
    BY SilentSoFar DEF AttemptInv
  <2>3. AttemptTypeOK'
    BY <1>0, <2>1 DEF AttemptTypeOK
  <2>4. NotReported'
    BY <2>1 DEF AttemptInv, NotReported
  <2>5. QuietNow'
    BY DEF AttemptInv, QuietNow
  <2>6. AnswersCounted'
    <3>1. \A n \in Nat : n + 0 = n
      OBVIOUS
    <3>2. spent' + 0 = spent'
      BY <3>1, Zenon
    <3> QED BY <2>1, <2>2, <3>2 DEF AnswersCounted
  <2>7. RepairsCounted'
    <3>1. Len(calls') \in Nat
      OBVIOUS
    <3> QED BY <1>0, <2>1, <3>1 DEF RepairsCounted
  <2>8. IterationsCounted'
    BY <1>4, <2>1 DEF IterationsCounted
  <2>9. FailureKindRight'
    BY <2>1, <2>2, FailureKinds
  <2>10. LastCallRight'
    BY DEF LastCallRight
  <2> QED BY <2>1, <2>3, <2>4, <2>5, <2>6, <2>7, <2>8, <2>9, <2>10
       DEF AttemptInv, NothingYet, LoopIsAgents
<1> QED BY <1>0, <1>2, <1>3, <1>4

\* A handler starts.
LEMMA BeginStep ==
  ASSUME AttemptInv, NEW h, NEW t, Begin(h, t)
  PROVE  AttemptInv'
<1>0. AttemptTypeOK
  BY DEF AttemptInv
<1>1. /\ stage = "idle" /\ handler' = h /\ trouble' = t
      /\ UNCHANGED <<tries, usage, iteration, lastCall, spent, fired, firedAt, calls>>
  BY DEF Begin, structuredVars, agentVars, signalVars
<1>2. calls = <<>>
  BY <1>1 DEF AttemptInv, NothingYet
<1>3. ASSUME NEW outcome \in AtOnce(h, t), Settles(outcome) PROVE AttemptInv'
  <2>1. /\ outcome \in Report /\ outcome.source # "llm"
        /\ outcome.how = "permanent" => t # "none"
    <3>1. CASE t # "none"
      <4>1. outcome = Failed("permanent")
        BY <1>3, <3>1 DEF AtOnce
      <4> QED BY <3>1, <4>1, Reports
    <3>2. CASE t = "none" /\ h = "ai.route"
      <4>1. outcome = Completed("parent", 0)
        BY <1>3, <3>2 DEF AtOnce
      <4> QED BY <4>1, Reports
    <3>3. CASE t = "none" /\ h = "builtin"
      <4>1. outcome \in {Completed("builtin", 0), Failed("suspend"), Failed("transient")}
        BY <1>3, <3>3 DEF AtOnce
      <4>2. CASE outcome = Completed("builtin", 0)
        BY <4>2, Reports
      <4>3. CASE outcome = Failed("suspend")
        BY <4>3, Reports
      <4>4. CASE outcome = Failed("transient")
        BY <4>4, Reports
      <4> QED BY <4>1, <4>2, <4>3, <4>4
    <3>4. CASE t = "none" /\ h \notin {"ai.route", "builtin"}
      BY <1>3, <3>4 DEF AtOnce
    <3> QED BY <3>1, <3>2, <3>3, <3>4
  <2>2. t # "none" => ForGood'
    BY <1>1 DEF ForGood
  <2>3. ~Hopeless(calls')
    BY <1>0, <1>1, <1>2, Hope DEF AttemptTypeOK
  <2> QED BY <1>0, <1>1, <1>3, <2>1, <2>2, <2>3, SettleStep DEF AttemptTypeOK
<1>4. CASE stage' = "chat" /\ report' = report
  BY <1>1, <1>4, FirstChat
<1>5. CASE stage' \in {"embedding", "sleep", "role"} /\ (stage' = "role" => h = "ai.agent")
           /\ report' = report
  <2>1. report.source = "none" /\ (report.how = "none" \/ (fired /\ report.how = "transient"))
    BY <1>1, SilentSoFar DEF AttemptInv
  <2>2. AttemptTypeOK'
    BY <1>0, <1>1, <1>5 DEF AttemptTypeOK
  <2>3. FailureKindRight'
    BY <1>1, <1>5, <2>1, FailureKinds
  <2>4. NothingYet' /\ NotReported' /\ QuietNow'
    BY <1>1, <1>5 DEF AttemptInv, NothingYet, NotReported, QuietNow
  <2>5. AnswersCounted' /\ RepairsCounted' /\ LastCallRight' /\ IterationsCounted' /\ LoopIsAgents'
    BY <1>1, <1>5, <2>1
       DEF AnswersCounted, RepairsCounted, LastCallRight, IterationsCounted, LoopIsAgents
  <2> QED BY <2>2, <2>3, <2>4, <2>5 DEF AttemptInv
<1> QED BY <1>3, <1>4, <1>5 DEF Begin, FirstAwait

\* The handler throws after one more call.
LEMMA ThrowsStep ==
  ASSUME AttemptInv, stage # "over", NEW kind \in {"permanent", "transient"}, Throws(kind),
         NEW e \in Logged, Logs(e), e \in {"down", "refused"} \/ ~fired,
         UNCHANGED <<handler, trouble, iteration, lastCall, spent, fired, firedAt>>,
         tries' \in Nat, usage' \in Nat,
         kind = "permanent" => Hopeless(calls'),
         kind = "transient" => ~Hopeless(calls')
  PROVE  AttemptInv'
<1>0. AttemptTypeOK
  BY DEF AttemptInv
<1>1. calls' \in Seq(Logged) /\ Len(calls') = Len(calls) + 1 /\ calls'[Len(calls')] = e
  BY <1>0, Logging
<1>2. CASE handler \in Classifiers
  <2>1. Settles(Completed("heuristic", 0))
    BY <1>2 DEF Throws
  <2>2. /\ Completed("heuristic", 0) \in Report /\ Completed("heuristic", 0).how = "complete"
        /\ Completed("heuristic", 0).source = "heuristic"
    BY DEF Report, Completed
  <2> QED BY <1>0, <1>1, <2>1, <2>2, SettleStep DEF AttemptTypeOK
<1>3. CASE handler \notin Classifiers
  <2>1. Settles(Failed(kind))
    BY <1>3 DEF Throws
  <2>2. Failed(kind) \in Report /\ Failed(kind).how = kind /\ Failed(kind).source = "none"
    BY DEF Report, Failed, Nothing
  <2>3. kind = "permanent" => ForGood'
    BY <1>3 DEF ForGood
  <2> QED BY <1>0, <1>1, <2>1, <2>2, <2>3, SettleStep DEF AttemptTypeOK
<1> QED BY <1>2, <1>3

\* sleep() ends.
LEMMA WakesStep == ASSUME AttemptInv, Wakes PROVE AttemptInv'
<1>0. AttemptTypeOK
  BY DEF AttemptInv
<1>1. /\ stage = "sleep" /\ calls' = calls
      /\ UNCHANGED <<tries, usage, iteration, spent, fired, firedAt>>
      /\ \/ fired /\ Settles(Failed("transient"))
         \/ Settles(Completed("builtin", 0))
  BY DEF Wakes, structuredVars, agentVars, signalVars
<1>2. /\ Failed("transient") \in Report /\ Failed("transient").how = "transient"
      /\ Failed("transient").source = "none"
  BY Reports
<1>3. /\ Completed("builtin", 0) \in Report /\ Completed("builtin", 0).how = "complete"
      /\ Completed("builtin", 0).source = "builtin"
  BY Reports
<1>4. CASE fired /\ Settles(Failed("transient"))
  BY <1>0, <1>1, <1>2, <1>4, SettleStep DEF AttemptTypeOK
<1>5. CASE Settles(Completed("builtin", 0))
  BY <1>0, <1>1, <1>3, <1>5, SettleStep DEF AttemptTypeOK
<1> QED BY <1>1, <1>4, <1>5

\* Nothing is answered once the signal has fired.
LEMMA ToldIfFired == ~Told => ~fired
BY DEF Told

\* The question is looked up, with or without hits.
LEMMA RetrievedStep == ASSUME AttemptInv, NEW hits, Retrieved(hits) PROVE AttemptInv'
<1>0. AttemptTypeOK
  BY DEF AttemptInv
<1>1. /\ stage = "embedding" /\ ~fired /\ Logs("embedded")
      /\ UNCHANGED <<tries, usage, iteration, lastCall, spent, fired, firedAt>>
      /\ \/ stage' = "chat" /\ report' = report
         \/ Settles(Completed("no hits", 0))
  BY ToldIfFired DEF Retrieved, structuredVars, agentVars, signalVars
<1>2. CASE stage' = "chat" /\ report' = report
  BY <1>1, <1>2, FirstChat
<1>3. CASE Settles(Completed("no hits", 0))
  <2>1. calls' \in Seq(Logged)
    BY <1>0, <1>1, Logging DEF Logged
  <2>2. /\ Completed("no hits", 0) \in Report /\ Completed("no hits", 0).how = "complete"
        /\ Completed("no hits", 0).source = "no hits"
    BY Reports
  <2> QED BY <1>0, <1>1, <1>3, <2>1, <2>2, SettleStep DEF AttemptTypeOK
<1> QED BY <1>1, <1>2, <1>3

\* The vector store fails.
LEMMA SearchFailsStep == ASSUME AttemptInv, SearchFails PROVE AttemptInv'
<1>0. AttemptTypeOK
  BY DEF AttemptInv
<1>1. /\ stage = "embedding" /\ ~fired /\ Logs("embedded") /\ Throws("transient")
      /\ UNCHANGED <<handler, trouble, tries, usage, iteration, lastCall, spent, fired, firedAt>>
  BY ToldIfFired DEF SearchFails, taskVars, structuredVars, agentVars, signalVars
<1>2. "embedded" \in Logged
  BY DEF Logged
<1>3. ~Hopeless(calls')
  <2>1. calls' \in Seq(Logged) /\ calls'[Len(calls')] = "embedded"
    BY <1>0, <1>1, <1>2, Logging
  <2> QED BY <2>1, Hope
<1>4. tries' \in Nat /\ usage' \in Nat
  BY <1>0, <1>1 DEF AttemptTypeOK
<1> QED BY <1>1, <1>2, <1>3, <1>4, ThrowsStep

\* A provider throws.
LEMMA ProviderThrowsStep ==
  ASSUME AttemptInv, NEW e \in {"refused", "down"}, ProviderThrows(e) PROVE AttemptInv'
<1>0. AttemptTypeOK
  BY DEF AttemptInv
<1>1. /\ stage # "over" /\ Logs(e) /\ Throws(KindOf(e))
      /\ UNCHANGED <<handler, trouble, tries, usage, iteration, lastCall, spent, fired, firedAt>>
  BY DEF ProviderThrows, taskVars, structuredVars, agentVars, signalVars
<1>2. e \in Logged
  BY DEF Logged
<1>3. calls' \in Seq(Logged) /\ calls'[Len(calls')] = e /\ calls' # <<>>
  BY <1>0, <1>1, <1>2, Logging
<1>4. KindOf(e) \in {"permanent", "transient"} /\ (KindOf(e) = "permanent" <=> e = "refused")
  BY DEF KindOf
<1>5. KindOf(e) = "permanent" => Hopeless(calls')
  BY <1>3, <1>4 DEF Hopeless
<1>6. KindOf(e) = "transient" => ~Hopeless(calls')
  BY <1>3, <1>4, Hope
<1>7. tries' \in Nat /\ usage' \in Nat
  BY <1>0, <1>1 DEF AttemptTypeOK
<1> QED BY <1>1, <1>2, <1>4, <1>5, <1>6, <1>7, ThrowsStep

\* Output that does not fit the schema: a repair, or one too many.
LEMMA InvalidOutputStep == ASSUME AttemptInv, InvalidOutput PROVE AttemptInv'
<1>0. AttemptTypeOK /\ MaxRepairs \in Nat
  BY AiTaskAssumption DEF AttemptInv
<1>1. /\ stage = "chat" /\ ~fired /\ Logs("invalid") /\ usage' = usage + 1
      /\ UNCHANGED <<handler, trouble, iteration, lastCall, spent, fired, firedAt>>
  BY ToldIfFired DEF InvalidOutput, Used, taskVars, agentVars, signalVars
<1>2. "invalid" \in Logged /\ "invalid" \notin ToolCall
  BY AiTaskAssumption DEF Logged
<1>3. /\ calls' \in Seq(Logged) /\ Len(calls) \in Nat /\ Len(calls') = Len(calls) + 1
      /\ \A i \in 1 .. Len(calls) : calls'[i] = calls[i]
      /\ calls'[Len(calls')] = "invalid"
      /\ Cardinality(Answers) \in Nat
      /\ Cardinality(Answers') = Cardinality(Answers) + 1
      /\ Cardinality(ToolCalls') = Cardinality(ToolCalls)
      /\ ToolCalls' = ToolCalls /\ ToolCalls \in SUBSET (1 .. Len(calls))
  BY <1>0, <1>1, <1>2, Logging
<1>4. /\ tries \in 1 .. MaxRepairs + 1 /\ tries - 1 <= Len(calls)
      /\ \A i \in Len(calls) - tries + 2 .. Len(calls) : calls[i] = "invalid"
  BY <1>1 DEF AttemptInv, RepairsCounted
<1>5. \A i \in Len(calls') - tries + 1 .. Len(calls') : calls'[i] = "invalid"
  <2> SUFFICES ASSUME NEW i \in Len(calls') - tries + 1 .. Len(calls')
               PROVE  calls'[i] = "invalid"
    OBVIOUS
  <2>1. CASE i = Len(calls')
    BY <1>3, <2>1
  <2>2. CASE i # Len(calls')
    <3>1. i \in Len(calls) - tries + 2 .. Len(calls) /\ i \in 1 .. Len(calls)
      BY <1>0, <1>3, <1>4, <2>2
    <3> QED BY <1>3, <1>4, <3>1
  <2> QED BY <2>1, <2>2
<1>6. CASE tries <= MaxRepairs
  <2>1. tries' = tries + 1 /\ stage' = "chat" /\ report' = report
    BY <1>1, <1>6 DEF InvalidOutput
  <2>2. report.source = "none" /\ (report.how = "none" \/ (fired /\ report.how = "transient"))
    BY <1>1, SilentSoFar DEF AttemptInv
  <2>3. AttemptTypeOK'
    BY <1>0, <1>1, <1>3, <2>1 DEF AttemptTypeOK
  <2>4. AnswersCounted'
    <3>1. Cardinality(Answers) = spent + usage
      BY <1>1 DEF AttemptInv, AnswersCounted
    <3>2. Cardinality(Answers') = spent' + usage'
      BY <1>0, <1>1, <1>3, <3>1 DEF AttemptTypeOK
    <3> QED BY <2>1, <2>2, <3>2 DEF AnswersCounted
  <2>5. RepairsCounted'
    <3>1. tries' \in 1 .. MaxRepairs + 1 /\ tries' - 1 <= Len(calls')
      BY <1>0, <1>3, <1>4, <1>6, <2>1
    <3>2. Len(calls') - tries' + 2 = Len(calls') - tries + 1
      BY <1>3, <1>4, <2>1
    <3> QED BY <1>5, <3>1, <3>2 DEF RepairsCounted
  <2>6. LastCallRight'
    <3>1. \/ ToolCalls = {} /\ lastCall = "none"
          \/ \E i \in ToolCalls : calls[i] = lastCall /\ \A k \in ToolCalls : k <= i
      BY <1>1 DEF AttemptInv, LastCallRight
    <3> QED BY <1>1, <1>3, <3>1 DEF LastCallRight
  <2>7. IterationsCounted'
    <3>1. iteration <= MaxIterations /\ Cardinality(ToolCalls) = iteration - 1
      BY <1>1 DEF AttemptInv, IterationsCounted
    <3> QED BY <1>1, <1>3, <2>1, <3>1 DEF IterationsCounted
  <2>8. FailureKindRight'
    BY <1>1, <2>1, <2>2, FailureKinds
  <2>9. NothingYet' /\ LoopIsAgents' /\ NotReported' /\ QuietNow'
    BY <1>1, <2>1 DEF AttemptInv, NothingYet, LoopIsAgents, NotReported, QuietNow
  <2> QED BY <2>3, <2>4, <2>5, <2>6, <2>7, <2>8, <2>9 DEF AttemptInv
<1>7. CASE ~(tries <= MaxRepairs)
  <2>1. Throws("permanent") /\ tries' = tries
    BY <1>7 DEF InvalidOutput
  <2>2. tries = MaxRepairs + 1
    BY <1>0, <1>4, <1>7
  <2>3. Len(calls') > MaxRepairs /\ Len(calls') - tries + 1 = Len(calls') - MaxRepairs
    BY <1>0, <1>3, <1>4, <2>2
  <2>4. Hopeless(calls')
    BY <1>5, <2>3 DEF Hopeless
  <2>5. tries' \in Nat /\ usage' \in Nat
    BY <1>0, <1>1, <2>1 DEF AttemptTypeOK
  <2> QED BY <1>1, <1>2, <2>1, <2>4, <2>5, ThrowsStep
<1> QED BY <1>6, <1>7

\* The answer.
LEMMA FinalOutputStep == ASSUME AttemptInv, FinalOutput PROVE AttemptInv'
<1>0. AttemptTypeOK
  BY DEF AttemptInv
<1> DEFINE n == spent + (usage + 1)
<1>1. /\ stage = "chat" /\ ~fired /\ Logs("final") /\ Settles(Completed("llm", n))
      /\ UNCHANGED <<tries, usage, iteration, spent, fired, firedAt>>
  BY ToldIfFired DEF FinalOutput, Used, structuredVars, agentVars, signalVars
<1>2. calls' \in Seq(Logged) /\ Cardinality(Answers') = Cardinality(Answers) + 1
  <2>1. "final" \in Logged
    BY DEF Logged
  <2> QED BY <1>0, <1>1, <2>1, Logging
<1>3. Cardinality(Answers) = spent + usage
  BY <1>1 DEF AttemptInv, AnswersCounted
<1>4. n \in Nat /\ Cardinality(Answers') = n
  BY <1>0, <1>2, <1>3 DEF AttemptTypeOK
<1> HIDE DEF n
<1>5. /\ Completed("llm", n) \in Report /\ Completed("llm", n).how = "complete"
      /\ Completed("llm", n).usage = n
  BY <1>4 DEF Report, Completed
<1>6. tries' \in Nat /\ usage' \in Nat /\ iteration' \in Nat /\ spent' \in Nat
  BY <1>0, <1>1 DEF AttemptTypeOK
<1> QED BY <1>1, <1>2, <1>4, <1>5, <1>6, SettleStep

\* The role of the run's owner is read, or not.
LEMMA RoleStep == ASSUME AttemptInv, RoleRead \/ RoleUnread PROVE AttemptInv'
<1>0. AttemptTypeOK /\ MaxIterations \in Nat \ {0}
  BY AiTaskAssumption DEF AttemptInv
<1>1. /\ stage = "role" /\ calls' = calls
      /\ UNCHANGED <<handler, trouble, lastCall, spent, fired, firedAt>>
  BY DEF RoleRead, RoleUnread, taskVars, agentVars, signalVars
<1>2. calls = <<>> /\ tries = 1 /\ usage = 0 /\ iteration = 1
  BY <1>1 DEF AttemptInv, NothingYet
<1>3. /\ Failed("permanent") \in Report /\ Failed("permanent").how = "permanent"
      /\ Failed("permanent").source = "none"
  BY DEF Report, Failed, Nothing
<1>4. /\ Failed("transient") \in Report /\ Failed("transient").how = "transient"
      /\ Failed("transient").source = "none"
  BY DEF Report, Failed, Nothing
<1>5. ~Hopeless(calls')
  BY <1>0, <1>1, <1>2, Hope DEF AttemptTypeOK
<1>6. CASE /\ UNCHANGED <<iteration, tries, usage>>
           /\ Settles(Failed("transient")) \/ (trouble # "none" /\ Settles(Failed("permanent")))
  <2>1. trouble # "none" => ForGood'
    BY <1>1 DEF ForGood
  <2> QED BY <1>0, <1>1, <1>3, <1>4, <1>5, <1>6, <2>1, SettleStep DEF AttemptTypeOK
<1>7. CASE stage' = "chat" /\ UNCHANGED <<iteration, tries, usage, report>>
  BY <1>1, <1>7, FirstChat
<1>8. Iterate(1) =>
        \/ UNCHANGED <<iteration, tries, usage>> /\ Settles(Failed("transient"))
        \/ stage' = "chat" /\ UNCHANGED <<iteration, tries, usage, report>>
  BY <1>0, <1>2 DEF Iterate, structuredVars
<1> QED BY <1>6, <1>7, <1>8 DEF RoleRead, RoleUnread, structuredVars, agentVars

\* The model proposes a tool call.
LEMMA ToolOutputStep ==
  ASSUME AttemptInv, NEW c \in ToolCall, ToolOutput(c) PROVE AttemptInv'
<1>0. AttemptTypeOK /\ MaxIterations \in Nat \ {0}
  BY AiTaskAssumption DEF AttemptInv
<1>1. /\ stage = "chat" /\ handler = "ai.agent" /\ ~fired /\ Logs(c)
      /\ spent' = spent + (usage + 1) /\ lastCall' = c
      /\ UNCHANGED <<handler, trouble, fired, firedAt>>
  BY ToldIfFired DEF ToolOutput, Used, taskVars, signalVars
<1>2. c \in Logged /\ c \notin {"none", "embedded", "refused", "invalid"}
  BY AiTaskAssumption DEF Logged
<1> DEFINE n == Len(calls) + 1
<1>3. /\ calls' \in Seq(Logged) /\ Len(calls) \in Nat /\ Len(calls') = n
      /\ \A i \in 1 .. Len(calls) : calls'[i] = calls[i]
      /\ calls'[n] = c /\ calls' # <<>>
      /\ Cardinality(Answers') = Cardinality(Answers) + 1
      /\ Cardinality(ToolCalls') = Cardinality(ToolCalls) + 1
      /\ ToolCalls' = ToolCalls \cup {n} /\ ToolCalls \in SUBSET (1 .. Len(calls))
  BY <1>0, <1>1, <1>2, Logging
<1>4. n \in Nat /\ \A k \in ToolCalls : k \in Nat /\ k < n
  BY <1>3
<1> HIDE DEF n
<1>5. iteration <= MaxIterations /\ Cardinality(ToolCalls) = iteration - 1
  BY <1>1 DEF AttemptInv, IterationsCounted
<1>6. Cardinality(ToolCalls') = iteration /\ iteration \in Nat \ {0} /\ iteration <= MaxIterations
  <2>1. Cardinality(ToolCalls) \in Nat
    BY <1>0, <1>1, <1>2, Logging
  <2> QED BY <1>0, <1>3, <1>5, <2>1 DEF AttemptTypeOK
<1>7. spent' \in Nat /\ Cardinality(Answers') = spent'
  <2>1. Cardinality(Answers) = spent + usage
    BY <1>1 DEF AttemptInv, AnswersCounted
  <2> QED BY <1>0, <1>1, <1>3, <2>1 DEF AttemptTypeOK
<1>8. \E k \in ToolCalls' : calls'[k] = lastCall' /\ \A j \in ToolCalls' : j <= k
  <2>1. n \in ToolCalls' /\ \A j \in ToolCalls' : j <= n
    BY <1>3, <1>4
  <2> QED BY <1>1, <1>3, <2>1
<1>9. CASE c = lastCall
  <2>1. Settles(Failed("permanent")) /\ UNCHANGED <<iteration, tries, usage>>
    BY <1>9 DEF ToolOutput, structuredVars
  <2>2. PICK i \in ToolCalls : calls[i] = lastCall /\ \A k \in ToolCalls : k <= i
    BY <1>1, <1>2, <1>9 DEF AttemptInv, LastCallRight
  <2>3. Circles'
    <3>1. i < n /\ calls'[i] = calls'[n] /\ i \in ToolCalls' /\ n \in ToolCalls'
      BY <1>3, <1>4, <1>9, <2>2
    <3>2. \A k \in ToolCalls' : k <= i \/ k = n
      BY <1>3, <2>2
    <3> QED BY <3>1, <3>2 DEF Circles
  <2>4. ForGood'
    BY <1>1, <2>3 DEF ForGood, Classifiers
  <2>5. /\ Failed("permanent") \in Report /\ Failed("permanent").how = "permanent"
        /\ Failed("permanent").source = "none"
    BY DEF Report, Failed, Nothing
  <2>6. tries' \in Nat /\ usage' \in Nat /\ iteration' \in Nat
    BY <1>0, <2>1 DEF AttemptTypeOK
  <2> QED BY <1>1, <1>3, <1>7, <2>1, <2>4, <2>5, <2>6, SettleStep
<1>10. CASE c # lastCall /\ c \in BadArgs
  <2>1. Iterate(iteration + 1)
    BY <1>10 DEF ToolOutput
  <2>2. iteration + 1 \in Nat /\ iteration + 1 > 1 /\ (iteration + 1) - 1 = iteration
    BY <1>6
  <2> QED BY <1>1, <1>3, <1>6, <1>7, <1>8, <2>1, <2>2, IterateStep
<1>11. CASE c # lastCall /\ c \notin BadArgs
  <2>1. stage' = "tool" /\ UNCHANGED <<report, iteration, tries, usage>>
    BY <1>11 DEF ToolOutput, structuredVars
  <2>2. report.source = "none" /\ (report.how = "none" \/ (fired /\ report.how = "transient"))
    BY <1>1, SilentSoFar DEF AttemptInv
  <2>3. AttemptTypeOK'
    BY <1>0, <1>1, <1>3, <1>7, <2>1 DEF AttemptTypeOK
  <2>4. AnswersCounted'
    BY <1>7, <2>1, <2>2 DEF AnswersCounted
  <2>5. IterationsCounted'
    BY <1>3, <1>6, <2>1 DEF IterationsCounted
  <2>6. LastCallRight'
    BY <1>8 DEF LastCallRight
  <2>7. FailureKindRight'
    BY <1>1, <2>1, <2>2, FailureKinds
  <2>8. NothingYet' /\ LoopIsAgents' /\ NotReported' /\ QuietNow' /\ RepairsCounted'
    BY <1>1, <2>1 DEF AttemptInv, NothingYet, LoopIsAgents, NotReported, QuietNow, RepairsCounted
  <2> QED BY <2>3, <2>4, <2>5, <2>6, <2>7, <2>8 DEF AttemptInv
<1> QED BY <1>9, <1>10, <1>11

\* The tool ends, and the loop goes on.
LEMMA ToolEndsStep == ASSUME AttemptInv, ToolEnds PROVE AttemptInv'
<1>0. AttemptTypeOK /\ MaxIterations \in Nat \ {0}
  BY AiTaskAssumption DEF AttemptInv
<1>1. /\ stage = "tool" /\ Iterate(iteration + 1) /\ calls' = calls
      /\ UNCHANGED <<handler, lastCall, spent, fired, firedAt>>
  BY DEF ToolEnds, taskVars, signalVars
<1>2. /\ iteration <= MaxIterations /\ Cardinality(ToolCalls) = iteration
      /\ calls # <<>> /\ calls[Len(calls)] \in ToolCall
  BY <1>1 DEF AttemptInv, IterationsCounted
<1>3. Cardinality(Answers) = spent /\ handler = "ai.agent"
  BY <1>1 DEF AttemptInv, AnswersCounted, LoopIsAgents
<1>4. ToolCalls' = ToolCalls /\ Answers' = Answers
  BY <1>1 DEF ToolCalls, Answers
<1>5. \E k \in ToolCalls : calls[k] = lastCall /\ \A j \in ToolCalls : j <= k
  <2>1. ToolCalls # {}
    <3>1. Len(calls) \in DOMAIN calls
      BY <1>0, <1>2 DEF AttemptTypeOK
    <3> QED BY <1>2, <3>1 DEF ToolCalls
  <2> QED BY <1>1, <2>1 DEF AttemptInv, LastCallRight
<1>6. iteration \in Nat \ {0}
  <2>1. Len(calls) \in ToolCalls
    <3>1. Len(calls) \in DOMAIN calls
      BY <1>0, <1>2 DEF AttemptTypeOK
    <3> QED BY <1>2, <3>1 DEF ToolCalls
  <2>2. IsFiniteSet(ToolCalls)
    <3>1. Len(calls) \in Nat /\ DOMAIN calls = 1 .. Len(calls)
      BY <1>0 DEF AttemptTypeOK
    <3>2. IsFiniteSet(1 .. Len(calls))
      BY <3>1, FS_Interval
    <3>3. ToolCalls \in SUBSET (1 .. Len(calls))
      BY <3>1 DEF ToolCalls
    <3> QED BY <3>2, <3>3, FS_Subset
  <2>3. Cardinality(ToolCalls) # 0
    BY <2>1, <2>2, FS_EmptySet
  <2> QED BY <1>0, <1>2, <2>3 DEF AttemptTypeOK
<1>7. iteration + 1 \in Nat /\ iteration + 1 > 1 /\ (iteration + 1) - 1 = iteration
  BY <1>6
<1>8. calls \in Seq(Logged) /\ spent \in Nat
  BY <1>0 DEF AttemptTypeOK
<1> QED BY <1>1, <1>2, <1>3, <1>4, <1>5, <1>7, <1>8, IterateStep

\* Timers and the lease: the handler is told, and may be reported already.
LEMMA SignalStep ==
  ASSUME AttemptInv, TimesOut \/ LosesLease \/ AgentDeadline PROVE AttemptInv'
<1>0. AttemptTypeOK
  BY DEF AttemptInv
<1>1. /\ UNCHANGED <<handler, trouble, stage, tries, usage, iteration, lastCall, spent, calls>>
      /\ stage # "over"
      /\ \/ /\ fired' = TRUE /\ firedAt' = (IF fired THEN firedAt ELSE Len(calls))
            /\ report' = report \/ report' = Failed("transient")
         \/ UNCHANGED <<fired, firedAt, report>>
  BY DEF TimesOut, LosesLease, AgentDeadline, FireSignal, Running, taskVars, structuredVars,
         agentVars
<1>2. report.source = "none" /\ (report.how = "none" \/ (fired /\ report.how = "transient"))
  BY <1>1, SilentSoFar DEF AttemptInv
<1>3. /\ Failed("transient") \in Report /\ Failed("transient").how = "transient"
      /\ Failed("transient").source = "none"
  BY DEF Report, Failed, Nothing
<1>4. /\ report'.source = "none" /\ report' \in Report
      /\ report'.how = "none" \/ (fired' /\ report'.how = "transient")
  BY <1>0, <1>1, <1>2, <1>3 DEF AttemptTypeOK
<1>5. AttemptTypeOK'
  <2>1. Len(calls) \in Nat
    BY <1>0 DEF AttemptTypeOK
  <2> QED BY <1>0, <1>1, <1>4, <2>1 DEF AttemptTypeOK
<1>6. NotReported'
  BY <1>1 DEF AttemptInv, NotReported
<1>7. QuietNow'
  BY <1>1 DEF AttemptInv, QuietNow
<1>8. AnswersCounted'
  BY <1>1, <1>4 DEF AttemptInv, AnswersCounted, Answers
<1>9. FailureKindRight'
  BY <1>4, FailureKinds
<1>10. NothingYet' /\ LoopIsAgents' /\ RepairsCounted' /\ LastCallRight' /\ IterationsCounted'
  BY <1>1 DEF AttemptInv, NothingYet, LoopIsAgents, RepairsCounted, LastCallRight,
              IterationsCounted, ToolCalls
<1> QED BY <1>5, <1>6, <1>7, <1>8, <1>9, <1>10 DEF AttemptInv

\* Every step of an attempt keeps the invariant.
LEMMA AttemptStep == ASSUME AttemptInv, [AttemptNext]_attemptVars PROVE AttemptInv'
<1>1. CASE UNCHANGED attemptVars
  <2>1. UNCHANGED <<handler, trouble, stage, tries, usage, iteration, lastCall, spent, expired,
                    fired, firedAt, calls, report>>
    BY <1>1 DEF attemptVars, taskVars, structuredVars, agentVars, signalVars
  <2> QED BY <2>1
       DEF AttemptInv, AttemptTypeOK, NothingYet, LoopIsAgents, NotReported, QuietNow,
           AnswersCounted, RepairsCounted, LastCallRight, IterationsCounted, FailureKindRight,
           Answers, ToolCalls, Refusal, Unrepaired, Circles, Last
<1>2. CASE AttemptNext
  BY <1>2, BeginStep, WakesStep, RetrievedStep, SearchFailsStep, ProviderThrowsStep,
     InvalidOutputStep, FinalOutputStep, RoleStep, ToolOutputStep, ToolEndsStep, SignalStep
     DEF AttemptNext
<1> QED BY <1>1, <1>2

\* The inductive invariant of an attempt holds throughout.
LEMMA AttemptInvariant == AttemptSpec => []AttemptInv
<1>1. AttemptInit => AttemptInv
  <2> SUFFICES ASSUME AttemptInit PROVE AttemptInv
    OBVIOUS
  <2>1. /\ stage = "idle" /\ calls = <<>> /\ report = Nothing /\ fired = FALSE
        /\ tries = 1 /\ usage = 0 /\ iteration = 1 /\ spent = 0 /\ lastCall = "none"
        /\ firedAt = 0
    BY DEF AttemptInit
  <2>2. AttemptTypeOK
    <3>1. <<>> \in Seq(Logged)
      OBVIOUS
    <3>2. Nothing \in Report
      BY DEF Nothing, Report
    <3> QED BY <2>1, <3>1, <3>2 DEF AttemptTypeOK
  <2>3. report.how = "none" /\ report.source = "none"
    BY <2>1, Reports
  <2>4. FailureKindRight
    BY <2>3, FailureKinds
  <2> QED BY <2>1, <2>2, <2>3, <2>4
       DEF AttemptInv, NothingYet, LoopIsAgents, NotReported, QuietNow, AnswersCounted,
           RepairsCounted, LastCallRight, IterationsCounted
<1>2. AttemptInv /\ [AttemptNext]_attemptVars => AttemptInv'
  BY AttemptStep
<1> QED BY <1>1, <1>2, PTL DEF AttemptSpec

\* An attempt fails for good only when trying again cannot help, and a refusal
\* or output that stayed invalid is never tried again, for any bounds on the
\* repairs and iterations and any set of tool calls.
THEOREM FailureKindRightTheorem == AttemptSpec => []FailureKindRight
<1>1. AttemptInv => FailureKindRight
  BY DEF AttemptInv
<1> QED BY <1>1, AttemptInvariant, PTL

\* The usage that a completed task reports counts every answer of the model,
\* over any number of repairs and iterations.
THEOREM UsageCompleteTheorem == AttemptSpec => []UsageComplete
<1>1. AttemptInv => UsageComplete
  BY DEF AttemptInv, AnswersCounted, Answers, UsageComplete
<1> QED BY <1>1, AttemptInvariant, PTL

\* After its signal has fired a handler gets no answer from a provider, and
\* makes at most one more call, which fails.
THEOREM QuietOnceFiredTheorem == AttemptSpec => []QuietOnceFired
<1>1. AttemptInv => QuietOnceFired
  <2> SUFFICES ASSUME AttemptInv, fired
               PROVE  /\ Len(calls) <= firedAt + 1
                      /\ \A i \in firedAt + 1 .. Len(calls) : calls[i] \in {"down", "refused"}
    BY DEF QuietOnceFired
  <2>1. firedAt \in Nat /\ Len(calls) \in Nat
    BY DEF AttemptInv, AttemptTypeOK
  <2>2. CASE Len(calls) = firedAt
    BY <2>1, <2>2
  <2>3. CASE Len(calls) = firedAt + 1 /\ calls[Len(calls)] \in {"down", "refused"}
    BY <2>1, <2>3
  <2> QED BY <2>2, <2>3 DEF AttemptInv, QuietNow
<1> QED BY <1>1, AttemptInvariant, PTL
=============================================================================
