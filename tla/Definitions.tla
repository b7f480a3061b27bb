----------------------------- MODULE Definitions -----------------------------
(***************************************************************************)
(* One workflow definition and the requests on it: the versioned update    *)
(* (services/workflow.service.js) and the idempotent start of a run        *)
(* (services/execution.service.js). Clients read, edit and save, and repeat*)
(* requests whose answer was lost; each database call is a step.           *)
(*                                                                         *)
(* Of a definition only its version and the version it was edited from are *)
(* kept. The hash of a request is the request: SHA-256 of a canonical text *)
(* tells apart what differs and nothing else.                              *)
(***************************************************************************)
EXTENDS Integers, Sequences

CONSTANTS
  Client,      \* browser tabs and scripts: one request at a time each
  UserOf,      \* Client -> the user it is logged in as
  Owner,       \* the owner of the workflow
  Admin,       \* the users with role admin
  Key,         \* values of the Idempotency-Key header
  NoKey,       \* the header is missing
  Input,       \* inputs of a run
  MaxUpdates,  \* bound: updates saved
  MaxRuns      \* bound: runs started

ASSUME DefinitionsAssumption ==
  /\ DOMAIN UserOf = Client
  /\ NoKey \notin Key
  /\ MaxUpdates \in Nat /\ MaxRuns \in Nat

VARIABLES
  workflow,  \* the document: [version, from]
  runs,      \* the executions started, in order
  client     \* per client: [at, seen, ask, answer]

definitionVars == <<workflow, runs, client>>

Document(v, base) == [version |-> v, from |-> base]
NoRequest == [key |-> NoKey]
NoAnswer == 0

\* create: version 1, by the owner.
DefinitionsInit ==
  /\ workflow = Document(1, 0)
  /\ runs = <<>>
  /\ client = [c \in Client |->
       [at |-> "ready", seen |-> Document(1, 0),
        ask |-> NoRequest, answer |-> NoAnswer]]

\* ownerScope: the filter of every query.
Visible(c) == UserOf[c] = Owner \/ UserOf[c] \in Admin

Move(c, at) == client' = [client EXCEPT ![c].at = at]

\* How far c's request is, and what it was answered.
Serve(c, at, ask, answer) ==
  client' = [client EXCEPT ![c] =
    [at |-> at, seen |-> client[c].seen, ask |-> ask, answer |-> answer]]

-----------------------------------------------------------------------------
(* workflow.service.js: get and update.                                    *)

Get(c) ==
  /\ client[c].at = "ready" /\ Visible(c)
  /\ client' = [client EXCEPT ![c].seen = workflow]
  /\ UNCHANGED <<workflow, runs>>

\* Mutant: the filter has no version.
MatchesAny(c) == Visible(c)

\* The filter of findOneAndUpdate: { _id, ...ownerScope(user), version }.
Matches(c) == Visible(c) /\ workflow.version = client[c].seen.version

\* The graph is valid (else nothing is written) and the version current:
\* replaced and counted in one operation. The answer is the new document.
UpdateSaved(c) ==
  /\ client[c].at = "ready" /\ workflow.version <= MaxUpdates
  /\ Matches(c)
  /\ workflow' = Document(workflow.version + 1, client[c].seen.version)
  /\ client' = [client EXCEPT ![c].seen = workflow']
  /\ UNCHANGED runs

\* Nothing matched: a second read is to tell 404 from 409.
UpdateMissed(c) ==
  /\ client[c].at = "ready" /\ ~Matches(c)
  /\ Move(c, "missed")
  /\ UNCHANGED <<workflow, runs>>

\* 404, or 409 with the version it reads now: the client reloads or gives up.
UpdateExplained(c) ==
  /\ client[c].at = "missed"
  /\ Move(c, "ready")
  /\ UNCHANGED <<workflow, runs>>

-----------------------------------------------------------------------------
(* execution.service.js: run.                                              *)

\* Workflow.findOne: the definition that will run. A client's request may be
\* one it has sent before.
RunRead(c, key, input) ==
  /\ client[c].at = "ready" /\ Visible(c)
  /\ Serve(c, "run", [key |-> key, input |-> input, definition |-> workflow], NoAnswer)
  /\ UNCHANGED <<workflow, runs>>

\* The run of c's user with this key, by the partial unique index on
\* { triggeredBy, idempotencyKey }.
WithKey(c, key) ==
  {n \in DOMAIN runs : key # NoKey /\ runs[n].triggeredBy = UserOf[c] /\ runs[n].key = key}

\* The insert of the execution passes the index.
IndexAllows(c) == WithKey(c, client[c].ask.key) = {}

\* engine.startExecution, from the definition that was read.
RunStarted(c) ==
  /\ client[c].at = "run" /\ Len(runs) < MaxRuns
  /\ IndexAllows(c)
  /\ runs' = Append(runs, [triggeredBy |-> UserOf[c], key |-> client[c].ask.key,
                           input |-> client[c].ask.input,
                           definition |-> client[c].ask.definition])
  /\ Serve(c, "ready", client[c].ask, Len(runs'))
  /\ UNCHANGED workflow

\* E11000 on the key.
RunClashes(c) ==
  /\ client[c].at = "run" /\ ~IndexAllows(c)
  /\ Move(c, "clash")
  /\ UNCHANGED <<workflow, runs>>

\* Mutant: the run with the key is returned whatever was asked for.
SameKey(n, ask) == TRUE

SameRequest(n, ask) == runs[n].input = ask.input

\* The existing run is read: it is replayed, or the request is refused
\* because its key was used for another one (422).
RunReplayed(c) ==
  /\ client[c].at = "clash"
  /\ \E n \in WithKey(c, client[c].ask.key) :
       Serve(c, "ready", client[c].ask,
             IF SameRequest(n, client[c].ask) THEN n ELSE NoAnswer)
  /\ UNCHANGED <<workflow, runs>>

\* The connection breaks, or the process dies: no answer. What was written
\* stays; the client may send the request again.
AnswerLost(c) ==
  /\ client[c].at # "ready" \/ client[c].answer # NoAnswer
  /\ Serve(c, "ready", NoRequest, NoAnswer)
  /\ UNCHANGED <<workflow, runs>>

DefinitionsNext ==
  \E c \in Client :
    \/ Get(c) \/ UpdateSaved(c) \/ UpdateMissed(c) \/ UpdateExplained(c)
    \/ \E key \in Key \cup {NoKey}, input \in Input : RunRead(c, key, input)
    \/ RunStarted(c) \/ RunClashes(c) \/ RunReplayed(c) \/ AnswerLost(c)

DefinitionsSpec == DefinitionsInit /\ [][DefinitionsNext]_definitionVars

-----------------------------------------------------------------------------
(* Properties.                                                             *)

\* No update is lost: the definition stored was made from the version right
\* before it, and so is the definition of every run (workflow.service.js:73-78).
\* A run belongs to one version, however long ago the service read it.
NoLostUpdate ==
  \A d \in {workflow} \cup {runs[n].definition : n \in DOMAIN runs} :
    d.from = d.version - 1

\* A key starts one run of its user, and every answer to a request is a run of
\* that request: "retrying the SAME request [...] returns the run that was
\* already created" (execution.service.js:28-30).
OneRunPerKey ==
  /\ \A n, m \in DOMAIN runs :
       runs[n].key # NoKey /\ runs[n].key = runs[m].key
         /\ runs[n].triggeredBy = runs[m].triggeredBy => n = m
  /\ \A c \in Client : client[c].answer # NoAnswer =>
       /\ runs[client[c].answer].triggeredBy = UserOf[c]
       /\ runs[client[c].answer].key = client[c].ask.key
       /\ runs[client[c].answer].input = client[c].ask.input
=============================================================================
