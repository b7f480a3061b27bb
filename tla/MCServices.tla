----------------------------- MODULE MCServices -----------------------------
(* What the API does besides controlling runs (the rate limiter, accounts, *)
(* definitions, documents and validateDag), and one attempt of a task in a *)
(* worker. They share no state, so nothing is to be learned from           *)
(* interleaving them: a behaviour is about one of them.                    *)
EXTENDS RateLimiter, Accounts, Definitions, Knowledge, Dag, AiTask

VARIABLE used

rest == <<limiterVars, accountVars, definitionVars, knowledgeVars, dagVars, attemptVars>>

-----------------------------------------------------------------------------
(* validateDag: every graph of four tasks, and every short definition of   *)
(* two tasks with repeated keys, and repeated, unknown and own             *)
(* dependencies.                                                           *)

Graphs ==
  {[i \in 1 .. 4 |-> [key |-> i, dependsOn |-> SetToSortSeq(g[i], <)]] :
     g \in {h \in [1 .. 4 -> SUBSET (1 .. 4)] : \A i \in 1 .. 4 : i \notin h[i]}}

DepLists == UNION {[1 .. n -> {1, 2, 9}] : n \in 0 .. 2}

Flawed == [1 .. 2 -> [key : {1, 2}, dependsOn : DepLists]]

Submitted == Graphs \cup Flawed

-----------------------------------------------------------------------------
(* A limiter that fails closed and one that fails open, which a route like *)
(* POST /workflows/:id/run passes twice: both the router of /workflows and *)
(* the route itself authenticate.                                          *)

Buckets == {"login-ip", "api"}
Limits == [b \in Buckets |-> 2]
Windows == [b \in Buckets |-> IF b = "api" THEN 2 ELSE 3]
Closed == [b \in Buckets |-> b = "login-ip"]
Paths == {<<"login-ip">>, <<"api", "api">>}

CONSTANTS tab1, tab2
Tabs == [c \in {tab1, tab2} |-> "owner"]

CONSTANTS req1, req2, ses1, ses2
Symmetry == Permutations({req1, req2}) \cup Permutations({ses1, ses2})
            \cup Permutations({tab1, tab2})

-----------------------------------------------------------------------------

MCInit ==
  /\ LimiterInit /\ AccountsInit /\ DefinitionsInit /\ KnowledgeInit /\ AttemptInit
  /\ \/ used \in {"limiter", "accounts", "definitions", "documents", "attempt"}
        /\ tasks = <<>> /\ phase = "unused" /\ errors = {}
        /\ inDegree = <<>> /\ wave = {} /\ levels = <<>>
        /\ path = <<>> /\ black = {} /\ left = <<>> /\ cycle = <<>>
     \/ used = "graphs" /\ DagInit

MCNext ==
  /\ UNCHANGED used
  /\ \/ /\ used = "limiter" /\ LimiterNext
        /\ UNCHANGED <<accountVars, definitionVars, knowledgeVars, dagVars, attemptVars>>
     \/ /\ used = "accounts" /\ AccountsNext
        /\ UNCHANGED <<limiterVars, definitionVars, knowledgeVars, dagVars, attemptVars>>
     \/ /\ used = "definitions" /\ DefinitionsNext
        /\ UNCHANGED <<limiterVars, accountVars, knowledgeVars, dagVars, attemptVars>>
     \/ /\ used = "documents" /\ KnowledgeNext
        /\ UNCHANGED <<limiterVars, accountVars, definitionVars, dagVars, attemptVars>>
     \/ /\ used = "graphs" /\ DagNext
        /\ UNCHANGED <<limiterVars, accountVars, definitionVars, knowledgeVars, attemptVars>>
     \/ /\ used = "attempt" /\ AttemptNext
        /\ UNCHANGED <<limiterVars, accountVars, definitionVars, knowledgeVars, dagVars>>

MCSpec == MCInit /\ [][MCNext]_<<used, rest>>
=============================================================================
