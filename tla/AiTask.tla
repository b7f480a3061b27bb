------------------------------- MODULE AiTask -------------------------------
(***************************************************************************)
(* One attempt of a task in a worker: runTask() with the handler it runs   *)
(* (handlers/index.js, handlers/ai.js) under the task's timeout, and below *)
(* the AI handlers generateStructured(), which asks the model to repair    *)
(* what does not fit the schema, and the agent's loop around it.           *)
(*                                                                         *)
(* A model's reply is what validation makes of it: "invalid", or "final"   *)
(* (an answer), or for an agent one of the tool calls. A provider's error  *)
(* is "refused" (retryable: false) or "down". An agent hears of a tool's   *)
(* failure as of its result, so tools (and what they embed) just end.      *)
(***************************************************************************)
EXTENDS Integers, SequencesExt

CONSTANTS
  MaxRepairs,     \* maxRepairs of generateStructured
  MaxIterations,  \* maxIterations of the agent
  ToolCall,       \* a tool of the agent, with arguments
  BadArgs         \* the ones whose arguments do not fit the tool's schema

ASSUME AiTaskAssumption ==
  /\ MaxRepairs \in Nat /\ MaxIterations \in Nat \ {0}
  /\ BadArgs \subseteq ToolCall
  /\ ToolCall \cap {"none", "invalid", "final", "refused", "down", "embedded"} = {}

Classifiers == {"ai.classify", "ai.route"}
AiHandlers == Classifiers \cup {"ai.rag", "ai.generate", "ai.agent"}

VARIABLES
  handler,    \* task.type
  trouble,    \* what is wrong with the task's definition, owner or worker
  stage,      \* what the handler awaits
  tries,      \* generateStructured: attempt
  usage,      \* generateStructured: usage, in calls
  iteration,  \* agent: i
  lastCall,   \* agent: lastCallKey
  spent,      \* agent: usage
  expired,    \* agent: the deadline has passed
  fired,      \* the task's AbortSignal has fired
  calls,      \* the calls to the provider that observe() has logged
  firedAt,    \* history: how many they were when the signal fired
  report      \* what runTask tells the engine: [how, source, usage]

structuredVars == <<tries, usage>>
agentVars == <<iteration, lastCall, spent>>
signalVars == <<expired, fired, firedAt>>
taskVars == <<handler, trouble>>
attemptVars == <<taskVars, stage, structuredVars, agentVars, signalVars, calls, report>>

Nothing == [how |-> "none", source |-> "none", usage |-> 0]
Completed(source, n) == [how |-> "complete", source |-> source, usage |-> n]
Failed(how) == [Nothing EXCEPT !.how = how]

AttemptInit ==
  /\ handler = "none" /\ trouble = "none" /\ stage = "idle"
  /\ tries = 1 /\ usage = 0
  /\ iteration = 1 /\ lastCall = "none" /\ spent = 0
  /\ expired = FALSE /\ fired = FALSE /\ firedAt = 0
  /\ calls = <<>> /\ report = Nothing

-----------------------------------------------------------------------------
(* How an attempt ends: withTimeout() lets the first outcome win.          *)

\* The handler's promise settles.
Settles(outcome) ==
  /\ stage' = "over"
  /\ report' = IF report = Nothing THEN outcome ELSE report

\* Mutant: the agent passes its own deadline on, and not the task's signal.
ToldByDeadline == IF handler = "ai.agent" THEN expired ELSE fired

\* The signal that the handler passes on: of an agent, runSignal.
Told == fired \/ (handler = "ai.agent" /\ expired)

\* Mutant: whatever a provider throws is permanent.
KindOfAny(e) == "permanent"

\* isRetryable() of what a provider throws.
KindOf(e) == IF e = "refused" THEN "permanent" ELSE "transient"

\* A handler that a call or the validation makes throw; classifyTask catches
\* it all and answers with a heuristic.
Throws(kind) ==
  IF handler \in Classifiers THEN Settles(Completed("heuristic", 0))
  ELSE Settles(Failed(kind))

Logs(entry) == calls' = Append(calls, entry)

-----------------------------------------------------------------------------
(* The start of a handler.                                                 *)

\* What the definition, the run's owner and the worker may lack: no text for
\* the handler; or no RAG, tools, owner, permitted or known tool, no handler, a
\* route that ai.generate does not serve, a task that is meant to fail.
Troubles(h) ==
  {"none"} \cup (IF h \in AiHandlers THEN {"text"} ELSE {})
           \cup (IF h \in Classifiers \cup {"delay"} THEN {} ELSE {"config"})

\* A handler that settles before it awaits anything. noop, echo, flaky, fail
\* and human.approval all do, a route whose parent has classified, and the
\* handlers that find trouble (an agent some of it: see RoleRead).
AtOnce(h, t) ==
  IF t # "none" THEN {Failed("permanent")}
  ELSE CASE h = "ai.route" -> {Completed("parent", 0)}
         [] h = "builtin" -> {Completed("builtin", 0), Failed("suspend"), Failed("transient")}
         [] OTHER -> {}

\* What it awaits first, otherwise.
FirstAwait(h) ==
  CASE h = "ai.rag" -> "embedding" [] h = "delay" -> "sleep" [] OTHER -> "chat"

Begin(h, t) ==
  /\ stage = "idle"
  /\ handler' = h /\ trouble' = t
  /\ \/ (h = "ai.agent" => t # "text") /\ \E outcome \in AtOnce(h, t) : Settles(outcome)
     \/ t = "none" /\ h \notin {"ai.agent", "builtin"}
        /\ stage' = FirstAwait(h) /\ UNCHANGED report
     \/ h = "ai.agent" /\ stage' = "role" /\ UNCHANGED report
  /\ UNCHANGED <<structuredVars, agentVars, signalVars, calls>>

\* sleep() resolves, or rejects because the signal has fired.
Wakes ==
  /\ stage = "sleep"
  /\ Settles(IF fired THEN Failed("transient") ELSE Completed("builtin", 0))
  /\ UNCHANGED <<taskVars, structuredVars, agentVars, signalVars, calls>>

-----------------------------------------------------------------------------
(* generateStructured(), and rag.answer() before it.                       *)

\* The question is embedded and looked up: without a hit nothing is asked.
Retrieved(hits) ==
  /\ stage = "embedding" /\ ~Told
  /\ Logs("embedded")
  /\ IF hits THEN stage' = "chat" /\ UNCHANGED report
     ELSE Settles(Completed("no hits", 0))
  /\ UNCHANGED <<taskVars, structuredVars, agentVars, signalVars>>

\* The vectors arrive, and then the vector store does not answer.
SearchFails ==
  /\ stage = "embedding" /\ ~Told
  /\ Logs("embedded")
  /\ Throws("transient")
  /\ UNCHANGED <<taskVars, structuredVars, agentVars, signalVars>>

\* chat() or embed() throws: all that a request can do whose signal has fired.
ProviderThrows(e) ==
  /\ stage \in {"chat", "embedding"}
  /\ Logs(e)
  /\ Throws(KindOf(e))
  /\ UNCHANGED <<taskVars, structuredVars, agentVars, signalVars>>

\* Mutant: the usage is that of the last call.
LastUsage(n) == 1

\* usage after one more answer.
Used(n) == n + 1

\* A repair, or StructuredOutputError.
InvalidOutput ==
  /\ stage = "chat" /\ ~Told
  /\ Logs("invalid")
  /\ usage' = Used(usage)
  /\ IF tries <= MaxRepairs
     THEN tries' = tries + 1 /\ UNCHANGED <<stage, report>>
     ELSE Throws("permanent") /\ UNCHANGED tries
  /\ UNCHANGED <<taskVars, agentVars, signalVars>>

FinalOutput ==
  /\ stage = "chat" /\ ~Told
  /\ Logs("final")
  /\ Settles(Completed("llm", spent + Used(usage)))
  /\ UNCHANGED <<taskVars, structuredVars, agentVars, signalVars>>

-----------------------------------------------------------------------------
(* runAgent().                                                             *)

\* The head of the loop, for iteration i: it ends, is aborted, or asks.
Iterate(i) ==
  CASE i > MaxIterations ->
         Settles(Failed("permanent")) /\ UNCHANGED <<iteration, structuredVars>>
    [] i <= MaxIterations /\ Told ->
         Settles(Failed("transient")) /\ UNCHANGED <<iteration, structuredVars>>
    [] OTHER -> /\ stage' = "chat" /\ iteration' = i
                /\ tries' = 1 /\ usage' = 0 /\ UNCHANGED report

RoleRead ==
  /\ stage = "role"
  /\ IF trouble # "none"
     THEN Settles(Failed("permanent")) /\ UNCHANGED <<iteration, structuredVars>>
     ELSE Iterate(1)
  /\ UNCHANGED <<taskVars, lastCall, spent, signalVars, calls>>

\* User.findById rejects.
RoleUnread ==
  /\ stage = "role"
  /\ Settles(Failed("transient"))
  /\ UNCHANGED <<taskVars, structuredVars, agentVars, signalVars, calls>>

\* The model proposes a tool call: the same one again ends the run, one with
\* bad arguments is only answered.
ToolOutput(c) ==
  /\ stage = "chat" /\ handler = "ai.agent" /\ ~Told
  /\ Logs(c)
  /\ spent' = spent + Used(usage)
  /\ lastCall' = c
  /\ \/ /\ c = lastCall
        /\ Settles(Failed("permanent")) /\ UNCHANGED <<iteration, structuredVars>>
     \/ /\ c # lastCall /\ c \in BadArgs
        /\ Iterate(iteration + 1)
     \/ /\ c # lastCall /\ c \notin BadArgs
        /\ stage' = "tool" /\ UNCHANGED <<report, iteration, structuredVars>>
  /\ UNCHANGED <<taskVars, signalVars>>

\* It returns, throws, or is not waited for any longer.
ToolEnds ==
  /\ stage = "tool"
  /\ Iterate(iteration + 1)
  /\ UNCHANGED <<taskVars, lastCall, spent, signalVars, calls>>

-----------------------------------------------------------------------------
(* Timers, and the lease.                                                  *)

Running == stage \notin {"idle", "over"}

FireSignal == fired' = TRUE /\ firedAt' = IF fired THEN firedAt ELSE Len(calls)

\* withTimeout() rejects: the attempt is reported, and the handler told.
TimesOut ==
  /\ Running /\ report = Nothing
  /\ report' = Failed("transient")
  /\ FireSignal
  /\ UNCHANGED <<taskVars, stage, structuredVars, agentVars, expired, calls>>

\* leaseLost.abort(): the handler is told, and its outcome reported (in vain).
LosesLease ==
  /\ Running /\ ~fired
  /\ FireSignal
  /\ UNCHANGED <<taskVars, stage, structuredVars, agentVars, expired, calls, report>>

AgentDeadline ==
  /\ handler = "ai.agent" /\ stage \in {"chat", "tool"} /\ ~expired
  /\ expired' = TRUE
  /\ UNCHANGED <<taskVars, stage, structuredVars, agentVars, fired, firedAt, calls, report>>

AttemptNext ==
  \/ \E h \in AiHandlers \cup {"builtin", "delay"} : \E t \in Troubles(h) : Begin(h, t)
  \/ Wakes
  \/ \E hits \in BOOLEAN : Retrieved(hits)
  \/ SearchFails
  \/ \E e \in {"refused", "down"} : ProviderThrows(e)
  \/ InvalidOutput \/ FinalOutput
  \/ RoleRead \/ RoleUnread
  \/ \E c \in ToolCall : ToolOutput(c)
  \/ ToolEnds
  \/ TimesOut \/ LosesLease \/ AgentDeadline

AttemptSpec == AttemptInit /\ [][AttemptNext]_attemptVars

-----------------------------------------------------------------------------
(* Properties.                                                             *)

\* The provider's last answers were refused, or invalid once too often.
Refusal == calls # <<>> /\ Last(calls) = "refused"
Unrepaired ==
  /\ Len(calls) > MaxRepairs
  /\ \A i \in Len(calls) - MaxRepairs .. Len(calls) : calls[i] = "invalid"

\* Where in calls the model proposed a tool call; the last two are the same.
ToolCalls == {i \in DOMAIN calls : calls[i] \in ToolCall}
Circles ==
  \E i, j \in ToolCalls :
    /\ i < j /\ calls[i] = calls[j]
    /\ \A k \in ToolCalls : k <= i \/ k = j

\* An attempt fails for good only when trying again cannot help: something is
\* missing, the provider refused the request, the model's output stayed
\* invalid through all repairs, or the agent went in a circle or used up its
\* iterations; a refusal and unrepaired output are never tried again; and a
\* classifier fails for nothing a model or provider does (ai.js:17,71-72,
\* structured.js:33-34, classifier.js:38-40).
FailureKindRight ==
  /\ report.how = "permanent" =>
       \/ trouble # "none"
       \/ /\ handler \notin Classifiers
          /\ Refusal \/ Unrepaired \/ Circles \/ Cardinality(ToolCalls) = MaxIterations
  /\ report.how = "transient" /\ ~fired => ~(Refusal \/ Unrepaired)

\* The usage of a completed task counts every answer the model gave for it,
\* through all repairs of all iterations (ai.js:64,74; route reports none).
UsageComplete ==
  report.source = "llm" /\ handler # "ai.route" =>
    report.usage = Cardinality({i \in DOMAIN calls : calls[i] # "embedded"})

\* Once a task has timed out or lost its lease, its handler gets no answer
\* from a provider any more, and makes at most one call, which fails
\* (runTask.js:56, "abort() asks the handler to stop WORKING").
QuietOnceFired ==
  fired => /\ Len(calls) <= firedAt + 1
           /\ \A i \in firedAt + 1 .. Len(calls) : calls[i] \in {"down", "refused"}
=============================================================================
