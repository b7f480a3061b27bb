--------------------------- MODULE ServicesProofs ---------------------------
(***************************************************************************)
(* What the API does besides controlling runs, for any number of users,    *)
(* clients, requests, documents, buckets, failures, changes and tasks:     *)
(* accounts (RevocationIsFinal), definitions (NoLostUpdate, OneRunPerKey), *)
(* documents (StatusIsTrue, DeleteIsComplete), the rate limiter            *)
(* (WithinAnyWindow, RetryAfterExact) and the validation of definitions    *)
(* (ValidationRight). They share no state.                                 *)
(***************************************************************************)
EXTENDS Accounts, Definitions, Knowledge, RateLimiter, Dag, Facts

-----------------------------------------------------------------------------
(* Accounts. Every document a request holds on to is older than or as old  *)
(* as the user's: a version that is still current comes with the role that *)
(* is still current (Fresh), whether it is in a token pair or in the       *)
(* memory of a request between its two steps.                              *)

Account == [exists : BOOLEAN, role : Role, tokenVersion : Nat]
Pair == [sub : User, role : Role, tv : Nat, at : Nat, login : Nat]
LoginRequest == [op : {"login"}, sub : User, doc : Account]
RefreshRequest == [op : {"refresh"}, pair : Pair, doc : Account]
ActRequest == [op : {"act"}, id : User, role : Role]

AccountsTypeOK ==
  /\ time \in Nat
  /\ account \in [User -> Account]
  /\ pairs \subseteq Pair
  /\ request \in [Session -> {Idle} \cup LoginRequest \cup RefreshRequest \cup ActRequest]

\* A version and a role that user u has or had: if the version is u's current
\* one, so is the role.
Fresh(u, tv, role) ==
  /\ account[u].exists
  /\ tv <= account[u].tokenVersion
  /\ tv = account[u].tokenVersion => role = account[u].role

\* Nothing was ever changed of a user who has not registered.
Untouched ==
  \A u \in User : ~account[u].exists =>
    account[u].role = "viewer" /\ account[u].tokenVersion = 0

PairsFresh == \A p \in pairs : p.login = p.tv /\ Fresh(p.sub, p.tv, p.role)

LoginsFresh ==
  \A s \in Session : request[s].op = "login" =>
    Fresh(request[s].sub, request[s].doc.tokenVersion, request[s].doc.role)

RefreshesFresh ==
  \A s \in Session : request[s].op = "refresh" =>
    /\ request[s].pair \in pairs
    /\ Fresh(request[s].pair.sub, request[s].doc.tokenVersion, request[s].doc.role)

ActorsExist ==
  \A s \in Session : request[s].op = "act" => account[request[s].id].exists

AccountsInv ==
  AccountsTypeOK /\ Untouched /\ PairsFresh /\ LoginsFresh /\ RefreshesFresh /\ ActorsExist

-----------------------------------------------------------------------------

\* A new account document of u that is newer than the old one, or the same,
\* keeps what was fresh fresh.
LEMMA FreshKept ==
  ASSUME account \in [User -> Account], NEW u \in User, NEW new \in Account,
         account' = [account EXCEPT ![u] = new],
         new.exists,
         \/ new.tokenVersion > account[u].tokenVersion
         \/ new.tokenVersion = account[u].tokenVersion /\ new.role = account[u].role,
         NEW v \in User, NEW tv \in Nat, NEW role \in Role, Fresh(v, tv, role)
  PROVE  Fresh(v, tv, role)'
<1>1. account'[v] = IF v = u THEN new ELSE account[v]
  OBVIOUS
<1>2. account[u].tokenVersion \in Nat /\ new.tokenVersion \in Nat
  BY DEF Account
<1> QED BY <1>1, <1>2 DEF Fresh

\* An update of one user's document of that kind keeps the invariant, if it
\* ends the request that made it or no request.
LEMMA AccountUpdate ==
  ASSUME AccountsInv, NEW u \in User, NEW new \in Account,
         account' = [account EXCEPT ![u] = new],
         new.exists,
         \/ new.tokenVersion > account[u].tokenVersion
         \/ new.tokenVersion = account[u].tokenVersion /\ new.role = account[u].role,
         request' = request \/ \E s \in Session : Done(s),
         UNCHANGED <<time, pairs>>
  PROVE  AccountsInv'
<1> USE DEF AccountsInv
<1>0. /\ account \in [User -> Account]
      /\ \A v \in User, tv \in Nat, role \in Role :
           Fresh(v, tv, role) => Fresh(v, tv, role)'
  BY FreshKept DEF AccountsTypeOK
<1>1. AccountsTypeOK'
  BY DEF AccountsTypeOK, Done
<1>2. Untouched'
  BY <1>0 DEF Untouched
<1>3. \A s \in Session : request'[s] \in {request[s], Idle}
  BY DEF Done, AccountsTypeOK
<1>4. PairsFresh'
  BY <1>0 DEF PairsFresh, AccountsTypeOK, Pair
<1>5. LoginsFresh'
  <2> SUFFICES ASSUME NEW s \in Session, request'[s].op = "login"
               PROVE  Fresh(request[s].sub, request[s].doc.tokenVersion, request[s].doc.role)'
                      /\ request'[s] = request[s]
    BY <1>3 DEF LoginsFresh
  <2>1. request'[s] = request[s] /\ request[s] \in LoginRequest
    BY <1>3 DEF Idle, AccountsTypeOK, LoginRequest, RefreshRequest, ActRequest
  <2>2. /\ request[s].sub \in User /\ request[s].doc.tokenVersion \in Nat
        /\ request[s].doc.role \in Role
    BY <2>1 DEF LoginRequest, Account
  <2> QED BY <1>0, <2>1, <2>2 DEF LoginsFresh
<1>6. RefreshesFresh'
  <2> SUFFICES ASSUME NEW s \in Session, request'[s].op = "refresh"
               PROVE  /\ request'[s] = request[s] /\ request[s].pair \in pairs
                      /\ Fresh(request[s].pair.sub, request[s].doc.tokenVersion,
                               request[s].doc.role)'
    BY <1>3 DEF RefreshesFresh
  <2>1. request'[s] = request[s] /\ request[s] \in RefreshRequest
    BY <1>3 DEF Idle, AccountsTypeOK, LoginRequest, RefreshRequest, ActRequest
  <2>2. /\ request[s].pair.sub \in User /\ request[s].doc.tokenVersion \in Nat
        /\ request[s].doc.role \in Role
    BY <2>1 DEF RefreshRequest, Account, Pair
  <2> QED BY <1>0, <2>1, <2>2 DEF RefreshesFresh
<1>7. ActorsExist'
  <2> SUFFICES ASSUME NEW s \in Session, request'[s].op = "act"
               PROVE  request'[s] = request[s] /\ account'[request[s].id].exists
    BY <1>3 DEF ActorsExist
  <2>1. request'[s] = request[s] /\ request[s] \in ActRequest
    BY <1>3 DEF Idle, AccountsTypeOK, LoginRequest, RefreshRequest, ActRequest
  <2> QED BY <1>0, <2>1 DEF ActorsExist, ActRequest
<1> QED BY <1>1, <1>2, <1>4, <1>5, <1>6, <1>7

\* So does a step that starts or ends one request and signs at most one pair,
\* if what the request holds, and the pair, are fresh.
LEMMA RequestStep ==
  ASSUME AccountsInv, NEW s \in Session,
         NEW r \in {Idle} \cup LoginRequest \cup RefreshRequest \cup ActRequest,
         request' = [request EXCEPT ![s] = r],
         r.op = "login" => Fresh(r.sub, r.doc.tokenVersion, r.doc.role),
         r.op = "refresh" =>
           r.pair \in pairs /\ Fresh(r.pair.sub, r.doc.tokenVersion, r.doc.role),
         r.op = "act" => account[r.id].exists,
         NEW new \in SUBSET Pair, pairs' = pairs \cup new,
         \A p \in new : p.login = p.tv /\ Fresh(p.sub, p.tv, p.role),
         UNCHANGED <<time, account>>
  PROVE  AccountsInv'
<1> USE DEF AccountsInv
<1>1. AccountsTypeOK' /\ Untouched'
  BY DEF AccountsTypeOK, Untouched
<1>2. \A t \in Session : request'[t] = IF t = s THEN r ELSE request[t]
  BY DEF AccountsTypeOK
<1>3. PairsFresh'
  BY DEF PairsFresh, Fresh
<1>4. LoginsFresh'
  BY <1>2 DEF LoginsFresh, Fresh
<1>5. RefreshesFresh'
  BY <1>2 DEF RefreshesFresh, Fresh
<1>6. ActorsExist'
  BY <1>2 DEF ActorsExist
<1> QED BY <1>1, <1>3, <1>4, <1>5, <1>6

-----------------------------------------------------------------------------

\* Every step of a request or of the clock keeps the invariant.
LEMMA AccountsStep ==
  ASSUME AccountsInv, [AccountsNext]_accountVars
  PROVE  AccountsInv'
<1> USE DEF AccountsInv
<1>1. ASSUME NEW u \in User, Register(u) PROVE AccountsInv'
  <2> DEFINE new == [exists |-> TRUE, role |-> "viewer", tokenVersion |-> 0]
  <2>1. new \in Account
    BY DEF Account, Role
  <2>2. new.tokenVersion = account[u].tokenVersion /\ new.role = account[u].role
    BY <1>1 DEF Register, Untouched
  <2>3. account' = [account EXCEPT ![u] = new] /\ new.exists
        /\ request' = request /\ UNCHANGED <<time, pairs>>
    BY <1>1 DEF Register
  <2> HIDE DEF new
  <2> QED BY <2>1, <2>2, <2>3, AccountUpdate
<1>2. ASSUME NEW s \in Session, NEW u \in User, LoginRead(s, u) PROVE AccountsInv'
  <2> DEFINE r == [op |-> "login", sub |-> u, doc |-> account[u]]
  <2>1. account[u] \in Account /\ account[u].tokenVersion \in Nat
    BY DEF AccountsTypeOK, Account
  <2>2. r \in LoginRequest /\ r.op = "login"
        /\ Fresh(r.sub, r.doc.tokenVersion, r.doc.role)
    BY <1>2, <2>1 DEF LoginRequest, LoginRead, Fresh
  <2>3. request' = [request EXCEPT ![s] = r] /\ pairs' = pairs \cup {}
        /\ UNCHANGED <<time, account>>
    BY <1>2 DEF LoginRead
  <2>4. {} \in SUBSET Pair /\ \A p1 \in {} : p1.login = p1.tv /\ Fresh(p1.sub, p1.tv, p1.role)
    OBVIOUS
  <2>5. r \in {Idle} \cup LoginRequest \cup RefreshRequest \cup ActRequest
    BY <2>2
  <2> HIDE DEF r
  <2> QED BY <2>2, <2>3, <2>4, <2>5, RequestStep
<1>3. ASSUME NEW s \in Session, LoginIssue(s) PROVE AccountsInv'
  <2> DEFINE p == [sub |-> request[s].sub, role |-> request[s].doc.role,
                   tv |-> request[s].doc.tokenVersion, at |-> time,
                   login |-> request[s].doc.tokenVersion]
  <2>1. request[s] \in LoginRequest
    BY <1>3 DEF LoginIssue, Idle, AccountsTypeOK, LoginRequest, RefreshRequest, ActRequest
  <2>2. p \in Pair
    BY <2>1 DEF LoginRequest, Account, Pair, AccountsTypeOK
  <2>3. p.login = p.tv /\ Fresh(p.sub, p.tv, p.role)
    BY <1>3 DEF LoginIssue, LoginsFresh
  <2>4. request' = [request EXCEPT ![s] = Idle] /\ pairs' = pairs \cup {p}
        /\ UNCHANGED <<time, account>>
    BY <1>3 DEF LoginIssue, IssueTokens, Done
  <2>5. Idle.op = "idle"
    BY DEF Idle
  <2>6. {p} \in SUBSET Pair /\ \A p1 \in {p} : p1.login = p1.tv /\ Fresh(p1.sub, p1.tv, p1.role)
    BY <2>2, <2>3
  <2> HIDE DEF p
  <2> QED BY <2>4, <2>5, <2>6, RequestStep
<1>4. ASSUME NEW s \in Session, NEW p \in pairs, RefreshRead(s, p) PROVE AccountsInv'
  <2> DEFINE r == [op |-> "refresh", pair |-> p, doc |-> account[p.sub]]
  <2>1. p \in Pair /\ p.sub \in User /\ account[p.sub] \in Account
        /\ account[p.sub].tokenVersion \in Nat
    BY DEF AccountsTypeOK, Account, Pair
  <2>2. r \in RefreshRequest /\ r.op = "refresh" /\ r.pair \in pairs
        /\ Fresh(r.pair.sub, r.doc.tokenVersion, r.doc.role)
    BY <1>4, <2>1 DEF RefreshRequest, PairsFresh, Fresh
  <2>3. request' = [request EXCEPT ![s] = r] /\ pairs' = pairs \cup {}
        /\ UNCHANGED <<time, account>>
    BY <1>4 DEF RefreshRead
  <2>4. {} \in SUBSET Pair /\ \A p1 \in {} : p1.login = p1.tv /\ Fresh(p1.sub, p1.tv, p1.role)
    OBVIOUS
  <2>5. r \in {Idle} \cup LoginRequest \cup RefreshRequest \cup ActRequest
    BY <2>2
  <2> HIDE DEF r
  <2> QED BY <2>2, <2>3, <2>4, <2>5, RequestStep
<1>5. ASSUME NEW s \in Session, RefreshIssue(s) PROVE AccountsInv'
  <2> DEFINE q == request[s].pair
             p == [sub |-> q.sub, role |-> request[s].doc.role,
                   tv |-> request[s].doc.tokenVersion, at |-> time, login |-> q.login]
  <2>1. request[s] \in RefreshRequest
    BY <1>5 DEF RefreshIssue, Idle, AccountsTypeOK, LoginRequest, RefreshRequest, ActRequest
  <2>2. p \in Pair
    BY <2>1 DEF RefreshRequest, Account, Pair, AccountsTypeOK
  <2>3. q \in pairs /\ q.login = q.tv
    BY <1>5 DEF RefreshIssue, RefreshesFresh, PairsFresh
  <2>4. p.login = p.tv /\ Fresh(p.sub, p.tv, p.role)
    BY <1>5, <2>3 DEF RefreshIssue, RefreshesFresh, Honours
  <2>5. request' = [request EXCEPT ![s] = Idle] /\ pairs' = pairs \cup {p}
        /\ UNCHANGED <<time, account>>
    BY <1>5 DEF RefreshIssue, IssueTokens, Done
  <2>6. Idle.op = "idle"
    BY DEF Idle
  <2>7. {p} \in SUBSET Pair /\ \A p1 \in {p} : p1.login = p1.tv /\ Fresh(p1.sub, p1.tv, p1.role)
    BY <2>2, <2>4
  <2> HIDE DEF p
  <2> QED BY <2>5, <2>6, <2>7, RequestStep
<1>6. ASSUME NEW s \in Session, Refused(s) PROVE AccountsInv'
  <2>1. request' = [request EXCEPT ![s] = Idle] /\ pairs' = pairs \cup {}
        /\ UNCHANGED <<time, account>>
    BY <1>6 DEF Refused, Done
  <2>2. Idle.op = "idle"
    BY DEF Idle
  <2>3. {} \in SUBSET Pair /\ \A p1 \in {} : p1.login = p1.tv /\ Fresh(p1.sub, p1.tv, p1.role)
    OBVIOUS
  <2> QED BY <2>1, <2>2, <2>3, RequestStep
<1>7. ASSUME NEW s \in Session, NEW p \in pairs, Authenticate(s, p) PROVE AccountsInv'
  <2> DEFINE r == [op |-> "act", id |-> p.sub, role |-> p.role]
  <2>1. r \in ActRequest /\ r.op = "act" /\ account[r.id].exists
    BY DEF ActRequest, AccountsTypeOK, Pair, PairsFresh, Fresh
  <2>2. request' = [request EXCEPT ![s] = r] /\ pairs' = pairs \cup {}
        /\ UNCHANGED <<time, account>>
    BY <1>7 DEF Authenticate
  <2>3. {} \in SUBSET Pair /\ \A p1 \in {} : p1.login = p1.tv /\ Fresh(p1.sub, p1.tv, p1.role)
    OBVIOUS
  <2>4. r \in {Idle} \cup LoginRequest \cup RefreshRequest \cup ActRequest
    BY <2>1
  <2> HIDE DEF r
  <2> QED BY <2>1, <2>2, <2>3, <2>4, RequestStep
<1>8. ASSUME NEW s \in Session, LogoutAll(s) PROVE AccountsInv'
  <2> DEFINE u == request[s].id
             new == [account[u] EXCEPT !.tokenVersion = @ + 1]
  <2>1. u \in User /\ account[u] \in Account /\ account[u].exists
    BY <1>8 DEF LogoutAll, ActorsExist, Idle, AccountsTypeOK,
                LoginRequest, RefreshRequest, ActRequest
  <2>2. new \in Account /\ new.exists /\ new.tokenVersion > account[u].tokenVersion
    BY <2>1 DEF Account
  <2>3. account' = [account EXCEPT ![u] = new] /\ Done(s) /\ UNCHANGED <<time, pairs>>
    BY <1>8, <2>1 DEF LogoutAll
  <2> HIDE DEF u, new
  <2> QED BY <2>1, <2>2, <2>3, AccountUpdate
<1>9. ASSUME NEW s \in Session, NEW u \in User, NEW role \in Role, ChangeRole(s, u, role)
      PROVE  AccountsInv'
  <2> DEFINE new == WithRole(account[u], role)
  <2>1. account[u] \in Account /\ account[u].exists
    BY <1>9 DEF ChangeRole, AccountsTypeOK
  <2>2. new \in Account /\ new.exists /\ new.tokenVersion > account[u].tokenVersion
    BY <2>1 DEF Account, WithRole
  <2>3. account' = [account EXCEPT ![u] = new] /\ Done(s) /\ UNCHANGED <<time, pairs>>
    BY <1>9 DEF ChangeRole
  <2> HIDE DEF new
  <2> QED BY <2>2, <2>3, AccountUpdate
<1>10. ASSUME ClockTicks \/ UNCHANGED accountVars PROVE AccountsInv'
  <2>1. UNCHANGED <<account, pairs, request>> /\ time' \in Nat
    BY <1>10 DEF ClockTicks, accountVars, AccountsTypeOK
  <2>2. AccountsTypeOK' /\ Untouched' /\ PairsFresh'
    BY <2>1 DEF AccountsTypeOK, Untouched, PairsFresh, Fresh
  <2> QED BY <2>1, <2>2 DEF LoginsFresh, RefreshesFresh, ActorsExist, Fresh
<1> QED
  BY <1>1, <1>2, <1>3, <1>4, <1>5, <1>6, <1>7, <1>8, <1>9, <1>10 DEF AccountsNext

\* The first state: no tokens, no requests.
LEMMA AccountsInitially == AccountsInit => AccountsInv
<1> SUFFICES ASSUME AccountsInit PROVE AccountsInv
  OBVIOUS
<1>1. AccountsTypeOK
  BY DEF AccountsInit, AccountsTypeOK, Account, Role
<1>2. Untouched /\ PairsFresh
  BY DEF AccountsInit, Untouched, PairsFresh
<1>3. \A s \in Session : request[s].op = "idle"
  BY DEF AccountsInit, Idle
<1> QED BY <1>1, <1>2, <1>3 DEF AccountsInv, LoginsFresh, RefreshesFresh, ActorsExist

\* A refresh token still honoured descends from a login since the user's last
\* logout or change of role, and carries the user's role.
THEOREM RevocationIsFinalTheorem == AccountsSpec => []RevocationIsFinal
<1>1. AccountsInit => AccountsInv
  BY AccountsInitially
<1>2. AccountsInv /\ [AccountsNext]_accountVars => AccountsInv'
  BY AccountsStep
<1>3. AccountsInv => RevocationIsFinal
  BY DEF AccountsInv, PairsFresh, Fresh, RevocationIsFinal
<1> QED BY <1>1, <1>2, <1>3, PTL DEF AccountsSpec

-----------------------------------------------------------------------------
(* Definitions.                                                            *)

Stored == [version : Nat, from : Nat]
Ask == [key : Key \cup {NoKey}, input : Input, definition : Stored]
Run == [triggeredBy : {UserOf[c] : c \in Client}, key : Key \cup {NoKey},
        input : Input, definition : Stored]

DefinitionsTypeOK ==
  /\ workflow \in Stored
  /\ runs \in Seq(Run)
  /\ client \in [Client -> [at : {"ready", "missed", "run", "clash"}, seen : Stored,
                            ask : {NoRequest} \cup Ask, answer : Nat]]

\* Made from the version right before it.
Successor(d) == d.from = d.version - 1

\* A request that is being served was made, and holds a definition that was
\* current when it was read.
RequestsSound ==
  \A c \in Client : client[c].at \in {"run", "clash"} =>
    client[c].ask \in Ask /\ Successor(client[c].ask.definition)

RunsSound == \A n \in DOMAIN runs : Successor(runs[n].definition)

KeysUnique ==
  \A n, m \in DOMAIN runs :
    runs[n].key # NoKey /\ runs[n].key = runs[m].key
      /\ runs[n].triggeredBy = runs[m].triggeredBy => n = m

\* What was answered to a client is a run, and the one it asked for.
AnswersRight ==
  \A c \in Client : client[c].answer # NoAnswer =>
    /\ client[c].answer \in DOMAIN runs
    /\ client[c].ask \in Ask
    /\ runs[client[c].answer].triggeredBy = UserOf[c]
    /\ runs[client[c].answer].key = client[c].ask.key
    /\ runs[client[c].answer].input = client[c].ask.input

DefinitionsInv ==
  /\ DefinitionsTypeOK
  /\ Successor(workflow)
  /\ RequestsSound /\ RunsSound /\ KeysUnique /\ AnswersRight

-----------------------------------------------------------------------------

\* A step that leaves the runs alone and moves one client keeps the invariant,
\* if the client's new state is sound.
LEMMA ClientStep ==
  ASSUME DefinitionsInv, NEW c \in Client,
         NEW new \in [at : {"ready", "missed", "run", "clash"}, seen : Stored,
                      ask : {NoRequest} \cup Ask, answer : Nat],
         client' = [client EXCEPT ![c] = new],
         workflow' \in Stored, Successor(workflow'),
         runs' = runs,
         new.at \in {"run", "clash"} => new.ask \in Ask /\ Successor(new.ask.definition),
         new.answer # NoAnswer =>
           /\ new.answer \in DOMAIN runs /\ new.ask \in Ask
           /\ runs[new.answer].triggeredBy = UserOf[c]
           /\ runs[new.answer].key = new.ask.key
           /\ runs[new.answer].input = new.ask.input
  PROVE  DefinitionsInv'
<1>1. \A d \in Client : client'[d] = IF d = c THEN new ELSE client[d]
  BY DEF DefinitionsInv, DefinitionsTypeOK
<1>2. DefinitionsTypeOK'
  BY DEF DefinitionsInv, DefinitionsTypeOK
<1>3. RequestsSound'
  BY <1>1 DEF DefinitionsInv, RequestsSound
<1>4. AnswersRight'
  BY <1>1 DEF DefinitionsInv, AnswersRight
<1>5. RunsSound' /\ KeysUnique'
  BY DEF DefinitionsInv, RunsSound, KeysUnique
<1> QED BY <1>2, <1>3, <1>4, <1>5 DEF DefinitionsInv, Successor

\* The start of a run keeps the invariant: the index lets it in only if no run
\* of the same user has its key.
LEMMA RunStartedStep ==
  ASSUME DefinitionsInv, NEW c \in Client, RunStarted(c)
  PROVE  DefinitionsInv'
<1> DEFINE ask == client[c].ask
           run == [triggeredBy |-> UserOf[c], key |-> ask.key,
                   input |-> ask.input, definition |-> ask.definition]
<1>1. ask \in Ask /\ Successor(ask.definition)
  BY DEF RunStarted, DefinitionsInv, RequestsSound
<1>2. run \in Run /\ run.triggeredBy = UserOf[c] /\ run.key = ask.key
      /\ run.input = ask.input /\ run.definition = ask.definition
  BY <1>1 DEF Ask, Run
<1>3. runs' = Append(runs, run)
  BY DEF RunStarted
<1> HIDE DEF run
<1>4. /\ runs' \in Seq(Run) /\ Len(runs') = Len(runs) + 1
      /\ runs \in Seq(Run) /\ Len(runs) \in Nat
      /\ DOMAIN runs = 1 .. Len(runs) /\ DOMAIN runs' = 1 .. Len(runs) + 1
      /\ \A n \in DOMAIN runs : runs'[n] = runs[n]
      /\ runs'[Len(runs) + 1] = run
  BY <1>2, <1>3 DEF DefinitionsInv, DefinitionsTypeOK
<1>5. /\ client' \in [Client -> [at : {"ready", "missed", "run", "clash"},
                                seen : Stored, ask : {NoRequest} \cup Ask, answer : Nat]]
      /\ \A d \in Client \ {c} : client'[d] = client[d]
      /\ client'[c].at = "ready" /\ client'[c].ask = ask
      /\ client'[c].answer = Len(runs) + 1
  <2>1. client' = [client EXCEPT ![c] = [at |-> "ready", seen |-> client[c].seen,
                                         ask |-> ask, answer |-> Len(runs) + 1]]
    BY <1>4 DEF RunStarted, Serve
  <2> QED BY <1>4, <2>1 DEF DefinitionsInv, DefinitionsTypeOK
<1>6. DefinitionsTypeOK' /\ Successor(workflow)'
  BY <1>4, <1>5 DEF RunStarted, DefinitionsInv, DefinitionsTypeOK, Successor
<1>7. RequestsSound'
  BY <1>5 DEF DefinitionsInv, RequestsSound
<1>8. RunsSound'
  BY <1>1, <1>2, <1>4 DEF DefinitionsInv, RunsSound
<1>9. KeysUnique'
  <2> SUFFICES ASSUME NEW n \in DOMAIN runs', NEW m \in DOMAIN runs',
                      runs'[n].key # NoKey, runs'[n].key = runs'[m].key,
                      runs'[n].triggeredBy = runs'[m].triggeredBy
               PROVE  n = m
    BY DEF KeysUnique
  <2>1. \A k \in DOMAIN runs :
          ask.key # NoKey => ~(runs[k].triggeredBy = UserOf[c] /\ runs[k].key = ask.key)
    BY DEF RunStarted, IndexAllows, WithKey
  <2>2. CASE n \in DOMAIN runs /\ m \in DOMAIN runs
    BY <1>4, <2>2 DEF DefinitionsInv, KeysUnique
  <2>3. CASE n \in DOMAIN runs /\ m \notin DOMAIN runs
    BY <1>2, <1>4, <2>1, <2>3
  <2>4. CASE n \notin DOMAIN runs /\ m \in DOMAIN runs
    BY <1>2, <1>4, <2>1, <2>4
  <2>5. CASE n \notin DOMAIN runs /\ m \notin DOMAIN runs
    BY <1>4, <2>5
  <2> QED BY <2>2, <2>3, <2>4, <2>5
<1>10. AnswersRight'
  <2> SUFFICES ASSUME NEW d \in Client, client'[d].answer # NoAnswer
               PROVE  /\ client'[d].answer \in DOMAIN runs'
                      /\ client'[d].ask \in Ask
                      /\ runs'[client'[d].answer].triggeredBy = UserOf[d]
                      /\ runs'[client'[d].answer].key = client'[d].ask.key
                      /\ runs'[client'[d].answer].input = client'[d].ask.input
    BY DEF AnswersRight
  <2>1. CASE d = c
    BY <1>1, <1>2, <1>4, <1>5, <2>1
  <2>2. CASE d # c
    BY <1>4, <1>5, <2>2 DEF DefinitionsInv, AnswersRight
  <2> QED BY <2>1, <2>2
<1> QED BY <1>6, <1>7, <1>8, <1>9, <1>10 DEF DefinitionsInv

-----------------------------------------------------------------------------

\* Every step of every client keeps the invariant.
LEMMA DefinitionsStep ==
  ASSUME DefinitionsInv, [DefinitionsNext]_definitionVars
  PROVE  DefinitionsInv'
<1> DEFINE State == [at : {"ready", "missed", "run", "clash"}, seen : Stored,
                     ask : {NoRequest} \cup Ask, answer : Nat]
           Answered(new, c) ==
             new.answer # NoAnswer =>
               /\ new.answer \in DOMAIN runs /\ new.ask \in Ask
               /\ runs[new.answer].triggeredBy = UserOf[c]
               /\ runs[new.answer].key = new.ask.key
               /\ runs[new.answer].input = new.ask.input
           Asked(new) ==
             new.at \in {"run", "clash"} => new.ask \in Ask /\ Successor(new.ask.definition)
<1>0. \A c \in Client : client[c] \in State /\ Answered(client[c], c) /\ Asked(client[c])
  BY DEF DefinitionsInv, DefinitionsTypeOK, AnswersRight, RequestsSound
<1>00. workflow \in Stored /\ Successor(workflow) /\ workflow.version \in Nat
  BY DEF DefinitionsInv, DefinitionsTypeOK, Stored
<1>k. ASSUME NEW c \in Client, NEW new \in State, client' = [client EXCEPT ![c] = new],
             workflow' \in Stored, Successor(workflow'), runs' = runs,
             Asked(new), Answered(new, c)
      PROVE  DefinitionsInv'
  BY <1>k, ClientStep
<1> HIDE DEF State, Answered, Asked
<1>1. ASSUME NEW c \in Client, Get(c) PROVE DefinitionsInv'
  <2> DEFINE new == [client[c] EXCEPT !.seen = workflow]
  <2>1. new \in State /\ Asked(new) /\ Answered(new, c)
    BY <1>0, <1>00 DEF State, Answered, Asked
  <2>2. client' = [client EXCEPT ![c] = new]
    BY <1>1, <1>0 DEF Get, State
  <2> HIDE DEF new
  <2> QED BY <1>1, <1>00, <2>1, <2>2, <1>k DEF Get
<1>2. ASSUME NEW c \in Client, UpdateSaved(c) PROVE DefinitionsInv'
  <2> DEFINE d == Document(workflow.version + 1, client[c].seen.version)
             new == [client[c] EXCEPT !.seen = d]
  <2>1. d \in Stored /\ Successor(d)
    BY <1>2, <1>00 DEF UpdateSaved, Matches, Document, Stored, Successor
  <2>2. workflow' = d /\ runs' = runs /\ client' = [client EXCEPT ![c].seen = d]
    BY <1>2 DEF UpdateSaved
  <2> HIDE DEF d
  <2>3. new \in State /\ Asked(new) /\ Answered(new, c)
    BY <1>0, <2>1 DEF State, Answered, Asked
  <2>4. client' = [client EXCEPT ![c] = new]
    BY <2>2
  <2> HIDE DEF new
  <2> QED BY <2>1, <2>2, <2>3, <2>4, <1>k
<1>3. ASSUME NEW c \in Client, UpdateMissed(c) PROVE DefinitionsInv'
  <2> DEFINE new == [client[c] EXCEPT !.at = "missed"]
  <2>1. new \in State /\ Asked(new) /\ Answered(new, c)
    BY <1>0 DEF State, Answered, Asked
  <2>2. client' = [client EXCEPT ![c] = new]
    BY <1>3, <1>0 DEF UpdateMissed, Move, State
  <2> HIDE DEF new
  <2> QED BY <1>3, <1>00, <2>1, <2>2, <1>k DEF UpdateMissed
<1>4. ASSUME NEW c \in Client, UpdateExplained(c) PROVE DefinitionsInv'
  <2> DEFINE new == [client[c] EXCEPT !.at = "ready"]
  <2>1. new \in State /\ Asked(new) /\ Answered(new, c)
    BY <1>0 DEF State, Answered, Asked
  <2>2. client' = [client EXCEPT ![c] = new]
    BY <1>4, <1>0 DEF UpdateExplained, Move, State
  <2> HIDE DEF new
  <2> QED BY <1>4, <1>00, <2>1, <2>2, <1>k DEF UpdateExplained
<1>5. ASSUME NEW c \in Client, NEW key \in Key \cup {NoKey}, NEW input \in Input,
             RunRead(c, key, input)
      PROVE  DefinitionsInv'
  <2> DEFINE ask == [key |-> key, input |-> input, definition |-> workflow]
             new == [at |-> "run", seen |-> client[c].seen, ask |-> ask, answer |-> NoAnswer]
  <2>1. ask \in Ask /\ Successor(ask.definition)
    BY <1>00 DEF Ask
  <2>2. client' = [client EXCEPT ![c] = new]
    BY <1>5 DEF RunRead, Serve
  <2> HIDE DEF ask
  <2>3. new \in State /\ Asked(new) /\ Answered(new, c)
    BY <1>0, <2>1 DEF State, Answered, Asked, NoAnswer
  <2> HIDE DEF new
  <2> QED BY <1>5, <1>00, <2>2, <2>3, <1>k DEF RunRead
<1>6. ASSUME NEW c \in Client, RunStarted(c) PROVE DefinitionsInv'
  BY <1>6, RunStartedStep
<1>7. ASSUME NEW c \in Client, RunClashes(c) PROVE DefinitionsInv'
  <2> DEFINE new == [client[c] EXCEPT !.at = "clash"]
  <2>1. new \in State /\ Asked(new) /\ Answered(new, c)
    BY <1>7, <1>0 DEF RunClashes, State, Answered, Asked
  <2>2. client' = [client EXCEPT ![c] = new]
    BY <1>7, <1>0 DEF RunClashes, Move, State
  <2> HIDE DEF new
  <2> QED BY <1>7, <1>00, <2>1, <2>2, <1>k DEF RunClashes
<1>8. ASSUME NEW c \in Client, RunReplayed(c) PROVE DefinitionsInv'
  <2>1. PICK n \in WithKey(c, client[c].ask.key) :
          Serve(c, "ready", client[c].ask,
                IF SameRequest(n, client[c].ask) THEN n ELSE NoAnswer)
    BY <1>8 DEF RunReplayed
  <2> DEFINE a == IF SameRequest(n, client[c].ask) THEN n ELSE NoAnswer
             new == [at |-> "ready", seen |-> client[c].seen,
                     ask |-> client[c].ask, answer |-> a]
  <2>2. n \in DOMAIN runs /\ runs[n].triggeredBy = UserOf[c] /\ runs[n].key = client[c].ask.key
    BY DEF WithKey
  <2>3. n \in Nat
    BY <2>2 DEF DefinitionsInv, DefinitionsTypeOK
  <2>4. client[c].ask \in Ask
    BY <1>8, <1>0 DEF RunReplayed, Asked
  <2>5. new \in State /\ Asked(new) /\ Answered(new, c)
    BY <1>0, <2>2, <2>3, <2>4 DEF State, Answered, Asked, NoAnswer, SameRequest
  <2>6. client' = [client EXCEPT ![c] = new]
    BY <2>1 DEF Serve
  <2> HIDE DEF new
  <2> QED BY <1>8, <1>00, <2>5, <2>6, <1>k DEF RunReplayed
<1>9. ASSUME NEW c \in Client, AnswerLost(c) PROVE DefinitionsInv'
  <2> DEFINE new == [at |-> "ready", seen |-> client[c].seen,
                     ask |-> NoRequest, answer |-> NoAnswer]
  <2>1. new \in State /\ Asked(new) /\ Answered(new, c)
    BY <1>0 DEF State, Answered, Asked, NoAnswer
  <2>2. client' = [client EXCEPT ![c] = new]
    BY <1>9 DEF AnswerLost, Serve
  <2> HIDE DEF new
  <2> QED BY <1>9, <1>00, <2>1, <2>2, <1>k DEF AnswerLost
<1>10. CASE UNCHANGED definitionVars
  BY <1>10 DEF definitionVars, DefinitionsInv, DefinitionsTypeOK, Successor,
               RequestsSound, RunsSound, KeysUnique, AnswersRight
<1> QED
  BY <1>1, <1>2, <1>3, <1>4, <1>5, <1>6, <1>7, <1>8, <1>9, <1>10 DEF DefinitionsNext

\* The invariant holds when the workflow has just been created, and so always.
LEMMA DefinitionsInvariant == DefinitionsSpec => []DefinitionsInv
<1>1. DefinitionsInit => DefinitionsInv
  <2> SUFFICES ASSUME DefinitionsInit PROVE DefinitionsInv
    OBVIOUS
  <2>1. Document(1, 0) \in Stored /\ Successor(Document(1, 0))
    BY DEF Document, Stored, Successor
  <2>2. DefinitionsTypeOK /\ Successor(workflow)
    BY <2>1 DEF DefinitionsInit, DefinitionsTypeOK, NoAnswer
  <2>3. RunsSound /\ KeysUnique
    BY DEF DefinitionsInit, RunsSound, KeysUnique
  <2>4. \A c \in Client : client[c].at = "ready" /\ client[c].answer = NoAnswer
    BY DEF DefinitionsInit
  <2> QED BY <2>2, <2>3, <2>4 DEF DefinitionsInv, RequestsSound, AnswersRight
<1>2. DefinitionsInv /\ [DefinitionsNext]_definitionVars => DefinitionsInv'
  BY DefinitionsStep
<1> QED BY <1>1, <1>2, PTL DEF DefinitionsSpec

\* No update is lost, and a run has the tasks of one version.
THEOREM NoLostUpdateTheorem == DefinitionsSpec => []NoLostUpdate
<1>1. DefinitionsInv => NoLostUpdate
  BY DEF DefinitionsInv, RunsSound, Successor, NoLostUpdate
<1> QED BY <1>1, DefinitionsInvariant, PTL

\* A key starts one run of its user, and an answer is a run of its request.
THEOREM OneRunPerKeyTheorem == DefinitionsSpec => []OneRunPerKey
<1>1. DefinitionsInv => OneRunPerKey
  BY DEF DefinitionsInv, KeysUnique, AnswersRight, OneRunPerKey
<1> QED BY <1>1, DefinitionsInvariant, PTL
-----------------------------------------------------------------------------
(* Documents. An ingest and a deletion of the same document interleave     *)
(* freely: what holds of it is said step by step, in terms of both.        *)

DocRecord == [status : {"none", "PROCESSING", "READY", "FAILED"},
              content : Content \cup {"none"}, dims : BOOLEAN]

\* The steps up to the save of READY, the ones that run once it has failed with
\* vectorDims set on the document, and the whole catch block.
Forward == {"embed", "chunks", "upsert", "save"}
CatchDims == {"clean chunks, dims set", "clean vectors, dims set", "fail, dims set"}
Catch == {"clean chunks, dims set", "clean vectors, dims set", "fail, dims set",
          "clean only chunks", "clean chunks", "clean vectors", "fail"}

IngestAt == {"new", "embed", "chunks", "upsert", "save", "clean chunks, dims set",
             "clean vectors, dims set", "fail, dims set", "clean only chunks", "clean chunks",
             "clean vectors", "fail", "ingested", "failed", "died"}

DeletionAt == {"none", "vectors", "chunks", "document", "done", "failed"}

KnowledgeTypeOK ==
  /\ doc \in [Doc -> DocRecord]
  /\ chunks \in [Doc -> {"none", "some", "all"}]
  /\ vectors \in [Doc -> BOOLEAN]
  /\ ingest \in [Doc -> IngestAt]
  /\ deletion \in [Doc -> DeletionAt]
  /\ sawDims \in [Doc -> BOOLEAN]
  /\ sawReady \in [Doc -> BOOLEAN]
  /\ mishaps \in [Doc -> Nat]

\* How far an ingest is that has a result on record, READY with vectorDims.
Finished(d) ==
  /\ doc[d].status = "READY" => doc[d].dims /\ ingest[d] \in CatchDims \cup Ends
  /\ doc[d].status = "FAILED" => ingest[d] = "failed"

\* What an ingest that no deletion has touched has stored.
StoredSoFar(d) ==
  deletion[d] = "none" =>
    /\ ingest[d] \in Forward => doc[d].status = "PROCESSING"
    /\ ingest[d] \in {"upsert", "save", "ingested"} => chunks[d] = "all"
    /\ ingest[d] \in {"save", "ingested"} => vectors[d]
    /\ ingest[d] = "ingested" => doc[d].status = "READY"

\* What an ingest has not stored yet.
NotYet(d) == ingest[d] \in {"new", "embed", "chunks", "clean only chunks"} => ~vectors[d]

\* Something of its ingest has failed; no more than once.
Hurt(d) == mishaps[d] >= 1
Spared(d) == mishaps[d] <= 1

\* A document that is still there has been through its catch block for a reason,
\* and if that is all that happened the block has done its work.
CleanSoFar(d) == doc[d].status # "none" =>
  /\ ingest[d] \in Catch \cup {"failed", "died"} => Hurt(d)
  /\ Spared(d) =>
       /\ ingest[d] \in {"clean vectors", "clean vectors, dims set"} => chunks[d] = "none"
       /\ ingest[d] \in {"fail", "fail, dims set", "failed"} => chunks[d] = "none" /\ ~vectors[d]
       /\ ingest[d] = "failed" => doc[d].status = "FAILED"
       /\ ingest[d] = "died" => doc[d].status = "PROCESSING"
       /\ ingest[d] = "ingested" => doc[d].status = "READY"

\* What the deletion of a document that was READY has removed.
RemovedSoFar(d) ==
  sawReady[d] =>
    /\ ingest[d] \in CatchDims \cup Ends /\ sawDims[d]
    /\ deletion[d] \in {"chunks", "document", "done"} => ~vectors[d]
    /\ deletion[d] \in {"document", "done"} => chunks[d] = "none"

DocumentInv(d) ==
  Finished(d) /\ StoredSoFar(d) /\ NotYet(d) /\ CleanSoFar(d) /\ RemovedSoFar(d)

KnowledgeInv == KnowledgeTypeOK /\ \A d \in Doc : DocumentInv(d)

\* A step that leaves document e alone.
LeftAlone(e) ==
  /\ doc'[e] = doc[e] /\ chunks'[e] = chunks[e] /\ vectors'[e] = vectors[e]
  /\ ingest'[e] = ingest[e] /\ deletion'[e] = deletion[e]
  /\ sawDims'[e] = sawDims[e] /\ sawReady'[e] = sawReady[e]
  /\ mishaps'[e] = mishaps[e]

\* A step of document d keeps the invariant of the others, so its own is left.
LEMMA OneDocument ==
  ASSUME KnowledgeInv, NEW d \in Doc, KnowledgeTypeOK', DocumentInv(d)',
         \A e \in Doc : e # d => LeftAlone(e)
  PROVE  KnowledgeInv'
<1> SUFFICES ASSUME NEW e \in Doc, e # d PROVE DocumentInv(e)'
  BY DEF KnowledgeInv
<1>1. LeftAlone(e) /\ DocumentInv(e)
  BY DEF KnowledgeInv
<1> QED BY <1>1
     DEF LeftAlone, DocumentInv, Finished, StoredSoFar, NotYet, CleanSoFar, RemovedSoFar,
             Hurt, Spared

\* The steps of an ingest.
LEMMA IngestKeeps ==
  ASSUME KnowledgeInv, NEW d \in Doc, IngestStep(d)
  PROVE  KnowledgeInv'
<1>0. KnowledgeTypeOK /\ DocumentInv(d)
  BY DEF KnowledgeInv
<1> DEFINE more == [mishaps EXCEPT ![d] = mishaps[d] + 1]
<1>m. /\ mishaps[d] \in Nat /\ more \in [Doc -> Nat] /\ more[d] = mishaps[d] + 1
      /\ \A e \in Doc : e # d => more[e] = mishaps[e]
  BY <1>0 DEF KnowledgeTypeOK
<1>h. mishaps' = more => Hurt(d)' /\ (Spared(d)' => Spared(d) /\ ~Hurt(d))
  BY <1>m DEF Hurt, Spared
<1>k. mishaps' = mishaps => (Hurt(d)' <=> Hurt(d)) /\ (Spared(d)' <=> Spared(d))
  BY DEF Hurt, Spared
<1> HIDE DEF more
<1>s. doc[d].status \in {"none", "PROCESSING", "READY", "FAILED"}
  BY <1>0 DEF KnowledgeTypeOK, DocRecord
<1> USE DEF Ingest, deletionVars, Works, IngestFails, Fails, Exists
<1>1. ASSUME NEW c \in Content, CreateDocument(d, c) PROVE KnowledgeInv'
  <2> DEFINE new == [status |-> "PROCESSING", content |-> c, dims |-> FALSE]
  <2>0. new \in DocRecord /\ new.status = "PROCESSING"
    BY DEF DocRecord
  <2>1. /\ doc' = [doc EXCEPT ![d] = new] /\ ingest' = [ingest EXCEPT ![d] = "embed"]
        /\ ingest[d] = "new"
        /\ UNCHANGED <<chunks, vectors, deletion, sawDims, sawReady, mishaps>>
    BY <1>0, <1>1, <2>0 DEF CreateDocument, more
  <2> HIDE DEF new
  <2>2. KnowledgeTypeOK'
    <3>1. ingest' \in [Doc -> IngestAt] /\ deletion' \in [Doc -> DeletionAt]
      BY <1>0, <2>1 DEF KnowledgeTypeOK, IngestAt, DeletionAt
    <3>2. mishaps' \in [Doc -> Nat]
      BY <1>0, <1>m, <2>1 DEF KnowledgeTypeOK
    <3>3. chunks' \in [Doc -> {"none", "some", "all"}]
      BY <1>0, <2>1 DEF KnowledgeTypeOK
    <3>4. doc' \in [Doc -> DocRecord] /\ vectors' \in [Doc -> BOOLEAN]
      BY <1>0, <2>1, <2>0 DEF KnowledgeTypeOK
    <3> QED BY <1>0, <2>1, <3>1, <3>2, <3>3, <3>4 DEF KnowledgeTypeOK
  <2>3. DocumentInv(d)'
    <3> USE <1>0, <1>h, <1>k, <1>s, <2>1, <2>0
        DEF KnowledgeTypeOK, DocumentInv, Forward, Catch, CatchDims, Ends
    <3>1. Finished(d)'
      BY DEF Finished, StoredSoFar
    <3>2. StoredSoFar(d)'
      BY DEF StoredSoFar
    <3>3. NotYet(d)'
      BY DEF NotYet
    <3>4. CleanSoFar(d)'
      BY DEF CleanSoFar, Finished, NotYet
    <3>5. RemovedSoFar(d)'
      BY DEF RemovedSoFar, Finished
    <3> QED BY <3>1, <3>2, <3>3, <3>4, <3>5
  <2>4. \A e \in Doc : e # d => LeftAlone(e)
    BY <1>0, <1>m, <2>1 DEF KnowledgeTypeOK, LeftAlone
  <2> QED BY <2>2, <2>3, <2>4, OneDocument
<1>2. CASE Embed(d) \/ EmbedFails(d) \/ IngestDies(d)
  <2>1. /\ \/ /\ ingest[d] = "embed" /\ ingest' = [ingest EXCEPT ![d] = "chunks"]
              /\ mishaps' = mishaps
           \/ /\ ingest[d] = "embed" /\ ingest' = [ingest EXCEPT ![d] = "clean only chunks"]
              /\ mishaps' = more
           \/ /\ ingest[d] \notin Ends \cup {"new"} /\ ingest' = [ingest EXCEPT ![d] = "died"]
              /\ mishaps' = more
        /\ UNCHANGED <<doc, chunks, vectors, deletion, sawDims, sawReady>>
    BY <1>0, <1>2 DEF Embed, EmbedFails, IngestDies, more
  <2>2. KnowledgeTypeOK'
    <3>1. ingest' \in [Doc -> IngestAt] /\ deletion' \in [Doc -> DeletionAt]
      BY <1>0, <2>1 DEF KnowledgeTypeOK, IngestAt, DeletionAt
    <3>2. mishaps' \in [Doc -> Nat]
      BY <1>0, <1>m, <2>1 DEF KnowledgeTypeOK
    <3>3. chunks' \in [Doc -> {"none", "some", "all"}]
      BY <1>0, <2>1 DEF KnowledgeTypeOK
    <3>4. doc' \in [Doc -> DocRecord] /\ vectors' \in [Doc -> BOOLEAN]
      BY <1>0, <2>1 DEF KnowledgeTypeOK
    <3> QED BY <1>0, <2>1, <3>1, <3>2, <3>3, <3>4 DEF KnowledgeTypeOK
  <2>3. DocumentInv(d)'
    <3> USE <1>0, <1>h, <1>k, <1>s, <2>1
        DEF KnowledgeTypeOK, DocumentInv, Forward, Catch, CatchDims, Ends
    <3>1. Finished(d)'
      BY DEF Finished, StoredSoFar
    <3>2. StoredSoFar(d)'
      BY DEF StoredSoFar
    <3>3. NotYet(d)'
      BY DEF NotYet
    <3>4. CleanSoFar(d)'
      BY DEF CleanSoFar, Finished, NotYet
    <3>5. RemovedSoFar(d)'
      BY DEF RemovedSoFar, Finished
    <3> QED BY <3>1, <3>2, <3>3, <3>4, <3>5
  <2>4. \A e \in Doc : e # d => LeftAlone(e)
    BY <1>0, <1>m, <2>1 DEF KnowledgeTypeOK, LeftAlone
  <2> QED BY <2>2, <2>3, <2>4, OneDocument
<1>3. CASE InsertChunks(d) \/ InsertChunksFails(d)
  <2>1. /\ ingest[d] = "chunks"
        /\ \/ /\ chunks' = [chunks EXCEPT ![d] = "all"] /\ mishaps' = mishaps
              /\ ingest' = [ingest EXCEPT ![d] = "upsert"]
           \/ /\ \E part \in {"none", "some", "all"} : chunks' = [chunks EXCEPT ![d] = part]
              /\ mishaps' = more
              /\ ingest' = [ingest EXCEPT ![d] = "clean chunks"]
        /\ UNCHANGED <<doc, vectors, deletion, sawDims, sawReady>>
    BY <1>0, <1>3 DEF InsertChunks, InsertChunksFails, PartOf, more
  <2>2. KnowledgeTypeOK'
    <3>1. ingest' \in [Doc -> IngestAt] /\ deletion' \in [Doc -> DeletionAt]
      BY <1>0, <2>1 DEF KnowledgeTypeOK, IngestAt, DeletionAt
    <3>2. mishaps' \in [Doc -> Nat]
      BY <1>0, <1>m, <2>1 DEF KnowledgeTypeOK
    <3>3. chunks' \in [Doc -> {"none", "some", "all"}]
      BY <1>0, <2>1 DEF KnowledgeTypeOK
    <3>4. doc' \in [Doc -> DocRecord] /\ vectors' \in [Doc -> BOOLEAN]
      BY <1>0, <2>1 DEF KnowledgeTypeOK
    <3> QED BY <1>0, <2>1, <3>1, <3>2, <3>3, <3>4 DEF KnowledgeTypeOK
  <2>3. DocumentInv(d)'
    <3> USE <1>0, <1>h, <1>k, <1>s, <2>1
        DEF KnowledgeTypeOK, DocumentInv, Forward, Catch, CatchDims, Ends
    <3>1. Finished(d)'
      BY DEF Finished, StoredSoFar
    <3>2. StoredSoFar(d)'
      BY DEF StoredSoFar
    <3>3. NotYet(d)'
      BY DEF NotYet
    <3>4. CleanSoFar(d)'
      BY DEF CleanSoFar, Finished, NotYet
    <3>5. RemovedSoFar(d)'
      BY DEF RemovedSoFar, Finished
    <3> QED BY <3>1, <3>2, <3>3, <3>4, <3>5
  <2>4. \A e \in Doc : e # d => LeftAlone(e)
    BY <1>0, <1>m, <2>1 DEF KnowledgeTypeOK, LeftAlone
  <2> QED BY <2>2, <2>3, <2>4, OneDocument
<1>4. CASE Upsert(d) \/ UpsertFails(d)
  <2>1. /\ ingest[d] = "upsert"
        /\ \/ /\ vectors' = [vectors EXCEPT ![d] = TRUE] /\ mishaps' = mishaps
              /\ ingest' = [ingest EXCEPT ![d] = "save"]
           \/ /\ \E stored \in BOOLEAN : vectors' = [vectors EXCEPT ![d] = stored]
              /\ mishaps' = more
              /\ ingest' = [ingest EXCEPT ![d] = "clean chunks"]
        /\ UNCHANGED <<doc, chunks, deletion, sawDims, sawReady>>
    BY <1>0, <1>4 DEF Upsert, UpsertFails, more
  <2>2. KnowledgeTypeOK'
    <3>1. ingest' \in [Doc -> IngestAt] /\ deletion' \in [Doc -> DeletionAt]
      BY <1>0, <2>1 DEF KnowledgeTypeOK, IngestAt, DeletionAt
    <3>2. mishaps' \in [Doc -> Nat]
      BY <1>0, <1>m, <2>1 DEF KnowledgeTypeOK
    <3>3. chunks' \in [Doc -> {"none", "some", "all"}]
      BY <1>0, <2>1 DEF KnowledgeTypeOK
    <3>4. doc' \in [Doc -> DocRecord] /\ vectors' \in [Doc -> BOOLEAN]
      BY <1>0, <2>1 DEF KnowledgeTypeOK
    <3> QED BY <1>0, <2>1, <3>1, <3>2, <3>3, <3>4 DEF KnowledgeTypeOK
  <2>3. DocumentInv(d)'
    <3> USE <1>0, <1>h, <1>k, <1>s, <2>1
        DEF KnowledgeTypeOK, DocumentInv, Forward, Catch, CatchDims, Ends
    <3>1. Finished(d)'
      BY DEF Finished, StoredSoFar
    <3>2. StoredSoFar(d)'
      BY DEF StoredSoFar
    <3>3. NotYet(d)'
      BY DEF NotYet
    <3>4. CleanSoFar(d)'
      BY DEF CleanSoFar, Finished, NotYet
    <3>5. RemovedSoFar(d)'
      BY DEF RemovedSoFar, Finished
    <3> QED BY <3>1, <3>2, <3>3, <3>4, <3>5
  <2>4. \A e \in Doc : e # d => LeftAlone(e)
    BY <1>0, <1>m, <2>1 DEF KnowledgeTypeOK, LeftAlone
  <2> QED BY <2>2, <2>3, <2>4, OneDocument
<1>5. CASE SaveReady(d) \/ SaveReadyFails(d)
  <2> DEFINE new == [doc[d] EXCEPT !.status = "READY", !.dims = TRUE]
  <2>0. new \in DocRecord /\ new.status = "READY" /\ new.dims
    BY <1>0 DEF KnowledgeTypeOK, DocRecord
  <2>1. /\ ingest[d] = "save"
        /\ \/ /\ doc[d].status # "none" /\ doc' = [doc EXCEPT ![d] = new] /\ mishaps' = mishaps
              /\ ingest' = [ingest EXCEPT ![d] = "ingested"]
           \/ /\ doc[d].status # "none" /\ doc' \in {doc, [doc EXCEPT ![d] = new]}
              /\ mishaps' = more
              /\ ingest' = [ingest EXCEPT ![d] = "clean chunks, dims set"]
           \/ /\ doc[d].status = "none" /\ UNCHANGED <<doc, mishaps>>
              /\ ingest' = [ingest EXCEPT ![d] = "clean chunks, dims set"]
        /\ UNCHANGED <<chunks, vectors, deletion, sawDims, sawReady>>
    BY <1>0, <1>5, <2>0 DEF SaveReady, SaveReadyFails, StoreReady, KnowledgeTypeOK, DocRecord, more
  <2> HIDE DEF new
  <2>2. KnowledgeTypeOK'
    <3>1. ingest' \in [Doc -> IngestAt] /\ deletion' \in [Doc -> DeletionAt]
      BY <1>0, <2>1 DEF KnowledgeTypeOK, IngestAt, DeletionAt
    <3>2. mishaps' \in [Doc -> Nat]
      BY <1>0, <1>m, <2>1 DEF KnowledgeTypeOK
    <3>3. chunks' \in [Doc -> {"none", "some", "all"}]
      BY <1>0, <2>1 DEF KnowledgeTypeOK
    <3>4. doc' \in [Doc -> DocRecord] /\ vectors' \in [Doc -> BOOLEAN]
      BY <1>0, <2>1, <2>0 DEF KnowledgeTypeOK
    <3> QED BY <1>0, <2>1, <3>1, <3>2, <3>3, <3>4 DEF KnowledgeTypeOK
  <2>3. DocumentInv(d)'
    <3> USE <1>0, <1>h, <1>k, <1>s, <2>1, <2>0
        DEF KnowledgeTypeOK, DocumentInv, Forward, Catch, CatchDims, Ends
    <3>1. Finished(d)'
      BY DEF Finished, StoredSoFar
    <3>2. StoredSoFar(d)'
      BY DEF StoredSoFar
    <3>3. NotYet(d)'
      BY DEF NotYet
    <3>4. CleanSoFar(d)'
      BY DEF CleanSoFar, Finished, NotYet
    <3>5. RemovedSoFar(d)'
      BY DEF RemovedSoFar, Finished
    <3> QED BY <3>1, <3>2, <3>3, <3>4, <3>5
  <2>4. \A e \in Doc : e # d => LeftAlone(e)
    BY <1>0, <1>m, <2>1 DEF KnowledgeTypeOK, LeftAlone
  <2> QED BY <2>2, <2>3, <2>4, OneDocument
<1>6. CASE CleanChunks(d)
  <2>1. /\ \/ chunks' = [chunks EXCEPT ![d] = "none"] /\ mishaps' = mishaps
           \/ /\ \E part \in {"none", "some", "all"} :
                   (chunks[d] = "none" => part = "none") /\ chunks' = [chunks EXCEPT ![d] = part]
              /\ mishaps' = more
        /\ \/ ingest[d] = "clean only chunks" /\ ingest' = [ingest EXCEPT ![d] = "fail"]
           \/ ingest[d] = "clean chunks" /\ ingest' = [ingest EXCEPT ![d] = "clean vectors"]
           \/ /\ ingest[d] = "clean chunks, dims set"
              /\ ingest' = [ingest EXCEPT ![d] = "clean vectors, dims set"]
        /\ UNCHANGED <<doc, vectors, deletion, sawDims, sawReady>>
    BY <1>0, <1>6 DEF CleanChunks, Cleaning, PartOf, KnowledgeTypeOK, more
  <2>2. KnowledgeTypeOK'
    <3>1. ingest' \in [Doc -> IngestAt] /\ deletion' \in [Doc -> DeletionAt]
      BY <1>0, <2>1 DEF KnowledgeTypeOK, IngestAt, DeletionAt
    <3>2. mishaps' \in [Doc -> Nat]
      BY <1>0, <1>m, <2>1 DEF KnowledgeTypeOK
    <3>3. chunks' \in [Doc -> {"none", "some", "all"}]
      BY <1>0, <2>1 DEF KnowledgeTypeOK
    <3>4. doc' \in [Doc -> DocRecord] /\ vectors' \in [Doc -> BOOLEAN]
      BY <1>0, <2>1 DEF KnowledgeTypeOK
    <3> QED BY <1>0, <2>1, <3>1, <3>2, <3>3, <3>4 DEF KnowledgeTypeOK
  <2>3. DocumentInv(d)'
    <3> USE <1>0, <1>h, <1>k, <1>s, <2>1
        DEF KnowledgeTypeOK, DocumentInv, Forward, Catch, CatchDims, Ends
    <3>1. Finished(d)'
      BY DEF Finished, StoredSoFar
    <3>2. StoredSoFar(d)'
      BY DEF StoredSoFar
    <3>3. NotYet(d)'
      BY DEF NotYet
    <3>4. CleanSoFar(d)'
      BY DEF CleanSoFar, Finished, NotYet
    <3>5. RemovedSoFar(d)'
      BY DEF RemovedSoFar, Finished
    <3> QED BY <3>1, <3>2, <3>3, <3>4, <3>5
  <2>4. \A e \in Doc : e # d => LeftAlone(e)
    BY <1>0, <1>m, <2>1 DEF KnowledgeTypeOK, LeftAlone
  <2> QED BY <2>2, <2>3, <2>4, OneDocument
<1>7. CASE CleanVectors(d)
  <2>1. /\ \/ vectors' = [vectors EXCEPT ![d] = FALSE] /\ mishaps' = mishaps
           \/ /\ vectors' \in {vectors, [vectors EXCEPT ![d] = FALSE]}
              /\ mishaps' = more
        /\ \/ ingest[d] = "clean vectors" /\ ingest' = [ingest EXCEPT ![d] = "fail"]
           \/ /\ ingest[d] = "clean vectors, dims set"
              /\ ingest' = [ingest EXCEPT ![d] = "fail, dims set"]
        /\ UNCHANGED <<doc, chunks, deletion, sawDims, sawReady>>
    BY <1>0, <1>7 DEF CleanVectors, more
  <2>2. KnowledgeTypeOK'
    <3>1. ingest' \in [Doc -> IngestAt] /\ deletion' \in [Doc -> DeletionAt]
      BY <1>0, <2>1 DEF KnowledgeTypeOK, IngestAt, DeletionAt
    <3>2. mishaps' \in [Doc -> Nat]
      BY <1>0, <1>m, <2>1 DEF KnowledgeTypeOK
    <3>3. chunks' \in [Doc -> {"none", "some", "all"}]
      BY <1>0, <2>1 DEF KnowledgeTypeOK
    <3>4. doc' \in [Doc -> DocRecord] /\ vectors' \in [Doc -> BOOLEAN]
      BY <1>0, <2>1 DEF KnowledgeTypeOK
    <3> QED BY <1>0, <2>1, <3>1, <3>2, <3>3, <3>4 DEF KnowledgeTypeOK
  <2>3. DocumentInv(d)'
    <3> USE <1>0, <1>h, <1>k, <1>s, <2>1
        DEF KnowledgeTypeOK, DocumentInv, Forward, Catch, CatchDims, Ends
    <3>1. Finished(d)'
      BY DEF Finished, StoredSoFar
    <3>2. StoredSoFar(d)'
      BY DEF StoredSoFar
    <3>3. NotYet(d)'
      BY DEF NotYet
    <3>4. CleanSoFar(d)'
      BY DEF CleanSoFar, Finished, NotYet
    <3>5. RemovedSoFar(d)'
      BY DEF RemovedSoFar, Finished
    <3> QED BY <3>1, <3>2, <3>3, <3>4, <3>5
  <2>4. \A e \in Doc : e # d => LeftAlone(e)
    BY <1>0, <1>m, <2>1 DEF KnowledgeTypeOK, LeftAlone
  <2> QED BY <2>2, <2>3, <2>4, OneDocument
<1>8. CASE SaveFailed(d)
  <2> DEFINE new == [doc[d] EXCEPT !.status = "FAILED", !.dims = ingest[d] = "fail, dims set"]
  <2>0. new \in DocRecord /\ new.status = "FAILED"
    BY <1>0 DEF KnowledgeTypeOK, DocRecord
  <2>1. /\ ingest[d] \in {"fail", "fail, dims set"} /\ ingest' = [ingest EXCEPT ![d] = "failed"]
        /\ \/ /\ doc[d].status # "none" /\ doc' = [doc EXCEPT ![d] = new]
              /\ mishaps' = mishaps \/ mishaps' = more
           \/ doc[d].status = "none" /\ UNCHANGED <<doc, mishaps>>
           \/ doc' = doc /\ mishaps' = more
        /\ UNCHANGED <<chunks, vectors, deletion, sawDims, sawReady>>
    BY <1>0, <1>8, <2>0 DEF SaveFailed, KnowledgeTypeOK, DocRecord, more
  <2> HIDE DEF new
  <2>2. KnowledgeTypeOK'
    <3>1. ingest' \in [Doc -> IngestAt] /\ deletion' \in [Doc -> DeletionAt]
      BY <1>0, <2>1 DEF KnowledgeTypeOK, IngestAt, DeletionAt
    <3>2. mishaps' \in [Doc -> Nat]
      BY <1>0, <1>m, <2>1 DEF KnowledgeTypeOK
    <3>3. chunks' \in [Doc -> {"none", "some", "all"}]
      BY <1>0, <2>1 DEF KnowledgeTypeOK
    <3>4. doc' \in [Doc -> DocRecord] /\ vectors' \in [Doc -> BOOLEAN]
      BY <1>0, <2>1, <2>0 DEF KnowledgeTypeOK
    <3> QED BY <1>0, <2>1, <3>1, <3>2, <3>3, <3>4 DEF KnowledgeTypeOK
  <2>3. DocumentInv(d)'
    <3> USE <1>0, <1>h, <1>k, <1>s, <2>1, <2>0
        DEF KnowledgeTypeOK, DocumentInv, Forward, Catch, CatchDims, Ends
    <3>1. Finished(d)'
      BY DEF Finished, StoredSoFar
    <3>2. StoredSoFar(d)'
      BY DEF StoredSoFar
    <3>3. NotYet(d)'
      BY DEF NotYet
    <3>4. CleanSoFar(d)'
      BY DEF CleanSoFar, Finished, NotYet
    <3>5. RemovedSoFar(d)'
      BY DEF RemovedSoFar, Finished
    <3> QED BY <3>1, <3>2, <3>3, <3>4, <3>5
  <2>4. \A e \in Doc : e # d => LeftAlone(e)
    BY <1>0, <1>m, <2>1 DEF KnowledgeTypeOK, LeftAlone
  <2> QED BY <2>2, <2>3, <2>4, OneDocument
<1> QED BY <1>1, <1>2, <1>3, <1>4, <1>5, <1>6, <1>7, <1>8 DEF IngestStep

\* The steps of a deletion.
LEMMA DeletionKeeps ==
  ASSUME KnowledgeInv, NEW d \in Doc, DeleteStep(d)
  PROVE  KnowledgeInv'
<1>0. KnowledgeTypeOK /\ DocumentInv(d)
  BY DEF KnowledgeInv
<1> USE DEF Deletion
<1>1. CASE DeleteRead(d)
  <2>0. doc[d].dims \in BOOLEAN /\ (doc[d].status = "READY") \in BOOLEAN
    BY <1>0 DEF KnowledgeTypeOK, DocRecord
  <2>1. /\ deletion[d] \in {"none", "failed"}
        /\ sawDims' = [sawDims EXCEPT ![d] = doc[d].dims]
        /\ sawReady' = [sawReady EXCEPT ![d] = (doc[d].status = "READY")]
        /\ deletion' = [deletion EXCEPT ![d] = "vectors"]
        /\ UNCHANGED <<doc, chunks, vectors, ingest, mishaps>>
    BY <1>0, <1>1, <2>0 DEF DeleteRead
  <2>2. KnowledgeTypeOK'
    <3>1. ingest' \in [Doc -> IngestAt] /\ deletion' \in [Doc -> DeletionAt]
      BY <1>0, <2>1 DEF KnowledgeTypeOK, IngestAt, DeletionAt
    <3>2. mishaps' \in [Doc -> Nat]
      BY <1>0, <2>1 DEF KnowledgeTypeOK
    <3>3. chunks' \in [Doc -> {"none", "some", "all"}]
      BY <1>0, <2>1 DEF KnowledgeTypeOK
    <3>4. doc' \in [Doc -> DocRecord] /\ vectors' \in [Doc -> BOOLEAN]
      BY <1>0, <2>1, <2>0 DEF KnowledgeTypeOK
    <3> QED BY <1>0, <2>0, <2>1, <3>1, <3>2, <3>3, <3>4 DEF KnowledgeTypeOK
  <2>3. DocumentInv(d)'
    <3> USE <1>0, <2>1, <2>0
        DEF KnowledgeTypeOK, DocumentInv, Forward, Catch, CatchDims, Ends
    <3>1. Finished(d)'
      BY DEF Finished, StoredSoFar
    <3>2. StoredSoFar(d)'
      BY DEF StoredSoFar
    <3>3. NotYet(d)'
      BY DEF NotYet
    <3>4. CleanSoFar(d)'
      BY DEF CleanSoFar, Finished, NotYet, Hurt, Spared
    <3>5. RemovedSoFar(d)'
      BY DEF RemovedSoFar, Finished
    <3> QED BY <3>1, <3>2, <3>3, <3>4, <3>5
  <2>4. \A e \in Doc : e # d => LeftAlone(e)
    BY <1>0, <2>1 DEF KnowledgeTypeOK, LeftAlone
  <2> QED BY <2>2, <2>3, <2>4, OneDocument
<1>2. CASE DeleteVectors(d)
  <2>1. /\ deletion[d] = "vectors" /\ deletion' = [deletion EXCEPT ![d] = "chunks"]
        /\ vectors' = [vectors EXCEPT ![d] = vectors[d] /\ ~sawDims[d]]
        /\ UNCHANGED <<doc, chunks, ingest, sawDims, sawReady, mishaps>>
    BY <1>0, <1>2 DEF DeleteVectors, HasVectors
  <2>v. vectors' \in [Doc -> BOOLEAN] /\ (vectors'[d] <=> vectors[d] /\ ~sawDims[d])
    BY <1>0, <2>1 DEF KnowledgeTypeOK
  <2>2. KnowledgeTypeOK'
    <3>1. ingest' \in [Doc -> IngestAt] /\ deletion' \in [Doc -> DeletionAt]
      BY <1>0, <2>1 DEF KnowledgeTypeOK, IngestAt, DeletionAt
    <3>2. mishaps' \in [Doc -> Nat]
      BY <1>0, <2>1 DEF KnowledgeTypeOK
    <3>3. chunks' \in [Doc -> {"none", "some", "all"}]
      BY <1>0, <2>1 DEF KnowledgeTypeOK
    <3>4. doc' \in [Doc -> DocRecord] /\ vectors' \in [Doc -> BOOLEAN]
      BY <1>0, <2>1, <2>v DEF KnowledgeTypeOK
    <3> QED BY <1>0, <2>1, <3>1, <3>2, <3>3, <3>4 DEF KnowledgeTypeOK
  <2>3. DocumentInv(d)'
    <3> USE <1>0, <2>1, <2>v DEF KnowledgeTypeOK, DocumentInv, Forward, Catch, CatchDims, Ends
    <3>1. Finished(d)'
      BY DEF Finished, StoredSoFar
    <3>2. StoredSoFar(d)'
      BY DEF StoredSoFar
    <3>3. NotYet(d)'
      BY DEF NotYet
    <3>4. CleanSoFar(d)'
      BY DEF CleanSoFar, Finished, NotYet, Hurt, Spared
    <3>5. RemovedSoFar(d)'
      BY DEF RemovedSoFar, Finished
    <3> QED BY <3>1, <3>2, <3>3, <3>4, <3>5
  <2>4. \A e \in Doc : e # d => LeftAlone(e)
    BY <1>0, <2>1 DEF KnowledgeTypeOK, LeftAlone
  <2> QED BY <2>2, <2>3, <2>4, OneDocument
<1>3. CASE DeleteChunks(d)
  <2>1. /\ deletion[d] = "chunks" /\ chunks' = [chunks EXCEPT ![d] = "none"]
        /\ deletion' = [deletion EXCEPT ![d] = "document"]
        /\ UNCHANGED <<doc, vectors, ingest, sawDims, sawReady, mishaps>>
    BY <1>0, <1>3 DEF DeleteChunks
  <2>2. KnowledgeTypeOK'
    <3>1. ingest' \in [Doc -> IngestAt] /\ deletion' \in [Doc -> DeletionAt]
      BY <1>0, <2>1 DEF KnowledgeTypeOK, IngestAt, DeletionAt
    <3>2. mishaps' \in [Doc -> Nat]
      BY <1>0, <2>1 DEF KnowledgeTypeOK
    <3>3. chunks' \in [Doc -> {"none", "some", "all"}]
      BY <1>0, <2>1 DEF KnowledgeTypeOK
    <3>4. doc' \in [Doc -> DocRecord] /\ vectors' \in [Doc -> BOOLEAN]
      BY <1>0, <2>1 DEF KnowledgeTypeOK
    <3> QED BY <1>0, <2>1, <3>1, <3>2, <3>3, <3>4 DEF KnowledgeTypeOK
  <2>3. DocumentInv(d)'
    <3> USE <1>0, <2>1
        DEF KnowledgeTypeOK, DocumentInv, Forward, Catch, CatchDims, Ends
    <3>1. Finished(d)'
      BY DEF Finished, StoredSoFar
    <3>2. StoredSoFar(d)'
      BY DEF StoredSoFar
    <3>3. NotYet(d)'
      BY DEF NotYet
    <3>4. CleanSoFar(d)'
      BY DEF CleanSoFar, Finished, NotYet, Hurt, Spared
    <3>5. RemovedSoFar(d)'
      BY DEF RemovedSoFar, Finished
    <3> QED BY <3>1, <3>2, <3>3, <3>4, <3>5
  <2>4. \A e \in Doc : e # d => LeftAlone(e)
    BY <1>0, <2>1 DEF KnowledgeTypeOK, LeftAlone
  <2> QED BY <2>2, <2>3, <2>4, OneDocument
<1>4. CASE DeleteDocument(d)
  <2>0. NoDoc \in DocRecord /\ NoDoc.status = "none"
    BY DEF NoDoc, DocRecord
  <2>1. /\ deletion[d] = "document" /\ doc' = [doc EXCEPT ![d] = NoDoc]
        /\ deletion' = [deletion EXCEPT ![d] = "done"]
        /\ UNCHANGED <<chunks, vectors, ingest, sawDims, sawReady, mishaps>>
    BY <1>0, <1>4, <2>0 DEF DeleteDocument
  <2>2. KnowledgeTypeOK'
    <3>1. ingest' \in [Doc -> IngestAt] /\ deletion' \in [Doc -> DeletionAt]
      BY <1>0, <2>1 DEF KnowledgeTypeOK, IngestAt, DeletionAt
    <3>2. mishaps' \in [Doc -> Nat]
      BY <1>0, <2>1 DEF KnowledgeTypeOK
    <3>3. chunks' \in [Doc -> {"none", "some", "all"}]
      BY <1>0, <2>1 DEF KnowledgeTypeOK
    <3>4. doc' \in [Doc -> DocRecord] /\ vectors' \in [Doc -> BOOLEAN]
      BY <1>0, <2>1, <2>0 DEF KnowledgeTypeOK
    <3> QED BY <1>0, <2>1, <3>1, <3>2, <3>3, <3>4 DEF KnowledgeTypeOK
  <2>3. DocumentInv(d)'
    <3> USE <1>0, <2>1, <2>0
        DEF KnowledgeTypeOK, DocumentInv, Forward, Catch, CatchDims, Ends
    <3>1. Finished(d)'
      BY DEF Finished, StoredSoFar
    <3>2. StoredSoFar(d)'
      BY DEF StoredSoFar
    <3>3. NotYet(d)'
      BY DEF NotYet
    <3>4. CleanSoFar(d)'
      BY DEF CleanSoFar, Finished, NotYet, Hurt, Spared
    <3>5. RemovedSoFar(d)'
      BY DEF RemovedSoFar, Finished
    <3> QED BY <3>1, <3>2, <3>3, <3>4, <3>5
  <2>4. \A e \in Doc : e # d => LeftAlone(e)
    BY <1>0, <2>1 DEF KnowledgeTypeOK, LeftAlone
  <2> QED BY <2>2, <2>3, <2>4, OneDocument
<1>5. CASE DeleteFails(d)
  <2>0. NoDoc \in DocRecord /\ NoDoc.status = "none"
    BY DEF NoDoc, DocRecord
  <2>1. /\ \/ /\ deletion[d] = "vectors" /\ UNCHANGED <<doc, chunks>>
              /\ vectors' \in {vectors, [vectors EXCEPT ![d] = vectors[d] /\ ~sawDims[d]]}
           \/ /\ deletion[d] = "chunks" /\ UNCHANGED <<doc, vectors>>
              /\ \E part \in {"none", "some", "all"} :
                   (chunks[d] = "none" => part = "none") /\ chunks' = [chunks EXCEPT ![d] = part]
           \/ /\ deletion[d] = "document" /\ UNCHANGED <<chunks, vectors>>
              /\ doc' \in {doc, [doc EXCEPT ![d] = NoDoc]}
        /\ deletion' = [deletion EXCEPT ![d] = "failed"]
        /\ UNCHANGED <<ingest, sawDims, sawReady, mishaps>>
    BY <1>0, <1>5, <2>0 DEF DeleteFails, HasVectors, PartOf, KnowledgeTypeOK
  <2>v. vectors' \in [Doc -> BOOLEAN] /\ (vectors'[d] => vectors[d])
    BY <1>0, <2>1 DEF KnowledgeTypeOK
  <2>2. KnowledgeTypeOK'
    <3>1. ingest' \in [Doc -> IngestAt] /\ deletion' \in [Doc -> DeletionAt]
      BY <1>0, <2>1 DEF KnowledgeTypeOK, IngestAt, DeletionAt
    <3>2. mishaps' \in [Doc -> Nat]
      BY <1>0, <2>1 DEF KnowledgeTypeOK
    <3>3. chunks' \in [Doc -> {"none", "some", "all"}]
      BY <1>0, <2>1 DEF KnowledgeTypeOK
    <3>4. doc' \in [Doc -> DocRecord] /\ vectors' \in [Doc -> BOOLEAN]
      BY <1>0, <2>1, <2>0, <2>v DEF KnowledgeTypeOK
    <3> QED BY <1>0, <2>1, <3>1, <3>2, <3>3, <3>4 DEF KnowledgeTypeOK
  <2>3. DocumentInv(d)'
    <3> USE <1>0, <2>1, <2>0, <2>v DEF KnowledgeTypeOK, DocumentInv, Forward, Catch, CatchDims, Ends
    <3>1. Finished(d)'
      BY DEF Finished, StoredSoFar
    <3>2. StoredSoFar(d)'
      BY DEF StoredSoFar
    <3>3. NotYet(d)'
      BY DEF NotYet
    <3>4. CleanSoFar(d)'
      BY DEF CleanSoFar, Finished, NotYet, Hurt, Spared
    <3>5. RemovedSoFar(d)'
      BY DEF RemovedSoFar, Finished
    <3> QED BY <3>1, <3>2, <3>3, <3>4, <3>5
  <2>4. \A e \in Doc : e # d => LeftAlone(e)
    BY <1>0, <2>1 DEF KnowledgeTypeOK, LeftAlone
  <2> QED BY <2>2, <2>3, <2>4, OneDocument
<1> QED BY <1>1, <1>2, <1>3, <1>4, <1>5 DEF DeleteStep

\* The inductive invariant of the documents holds throughout.
LEMMA KnowledgeInvariant == KnowledgeSpec => []KnowledgeInv
<1>1. KnowledgeInit => KnowledgeInv
  <2> SUFFICES ASSUME KnowledgeInit PROVE KnowledgeInv
    OBVIOUS
  <2>1. NoDoc \in DocRecord /\ NoDoc.status = "none"
    BY DEF NoDoc, DocRecord
  <2>2. KnowledgeTypeOK
    BY <2>1 DEF KnowledgeInit, KnowledgeTypeOK, IngestAt, DeletionAt
  <2>3. ASSUME NEW d \in Doc PROVE DocumentInv(d)
    <3>1. /\ doc[d].status = "none" /\ ingest[d] = "new" /\ deletion[d] = "none"
          /\ ~vectors[d] /\ ~sawReady[d]
      BY <2>1 DEF KnowledgeInit
    <3> QED BY <3>1 DEF DocumentInv, Finished, StoredSoFar, NotYet, CleanSoFar, RemovedSoFar,
                       Forward, Catch, CatchDims
  <2> QED BY <2>2, <2>3 DEF KnowledgeInv
<1>2. KnowledgeInv /\ [KnowledgeNext]_knowledgeVars => KnowledgeInv'
  <2>1. KnowledgeInv /\ KnowledgeNext => KnowledgeInv'
    BY IngestKeeps, DeletionKeeps DEF KnowledgeNext
  <2>2. ASSUME KnowledgeInv, UNCHANGED knowledgeVars PROVE KnowledgeInv'
    <3>1. KnowledgeTypeOK'
      BY <2>2 DEF knowledgeVars, KnowledgeInv, KnowledgeTypeOK
    <3>2. ASSUME NEW d \in Doc PROVE DocumentInv(d)'
      <4>1. LeftAlone(d) /\ DocumentInv(d)
        BY <2>2 DEF knowledgeVars, LeftAlone, KnowledgeInv
      <4> QED BY <4>1
           DEF LeftAlone, DocumentInv, Finished, StoredSoFar, NotYet, CleanSoFar, RemovedSoFar,
             Hurt, Spared
    <3> QED BY <3>1, <3>2 DEF KnowledgeInv
  <2> QED BY <2>1, <2>2
<1> QED BY <1>1, <1>2, PTL DEF KnowledgeSpec

\* An answered ingest has left its document READY and whole, and one of which no
\* more than one call failed, or that died once, a status that is true of what
\* MongoDB and Qdrant hold, whether or not what failed was carried out, whatever
\* happens to other documents and however a deletion runs beside it (pipeline.js).
THEOREM StatusIsTrueTheorem == KnowledgeSpec => []StatusIsTrue
<1>1. KnowledgeInv => StatusIsTrue
  BY DEF KnowledgeInv, KnowledgeTypeOK, DocumentInv, Finished, StoredSoFar, CleanSoFar,
         StatusIsTrue, Ends, Catch, CatchDims, Spared
<1> QED BY <1>1, KnowledgeInvariant, PTL

\* The deletion of a READY document leaves nothing of it, however often it was
\* interrupted and asked for again (deleteDocument).
THEOREM DeleteIsCompleteTheorem == KnowledgeSpec => []DeleteIsComplete
<1>1. KnowledgeInv => DeleteIsComplete
  BY DEF KnowledgeInv, DocumentInv, RemovedSoFar, DeleteIsComplete
<1> QED BY <1>1, KnowledgeInvariant, PTL
-----------------------------------------------------------------------------
(* The rate limiter. The sorted set of a bucket holds the requests it let  *)
(* pass in the window that ends now, and perhaps older ones: neither its   *)
(* trimming nor the expiry of its key loses one that counts.               *)

Entry == [at : Nat, id : Nat]
Refusal429 == [bucket : Bucket, at : Nat, seconds : Nat]

LimiterTypeOK ==
  /\ clock \in Nat
  /\ log \in [Bucket -> SUBSET Entry]
  /\ expiresAt \in [Bucket -> Nat]
  /\ ahead \in [Request -> Seq(Bucket)]
  /\ refusal \in [Request -> {NoRefusal} \cup Refusal429]
  /\ passed \in [Bucket -> SUBSET Entry]

\* The members of P in the window of length w that ends at t.
Within(P, w, t) == {m \in P : m.at > t - w /\ m.at <= t}

\* What the sorted set and its expiry know of the requests let pass.
BucketRight(b) ==
  /\ IsFiniteSet(passed[b]) /\ log[b] \subseteq passed[b]
  /\ \A m \in passed[b] :
       /\ m.at <= clock /\ m.id < Cardinality(passed[b])
       /\ m.at + Window[b] <= expiresAt[b]
       /\ m.at > clock - Window[b] => m \in log[b]

WindowsRight(b) ==
  \A t \in 0 .. clock : Cardinality(Within(passed[b], Window[b], t)) <= Limit[b]

\* A refusal f was made with a full window, and names when its oldest leaves.
Justified(f) ==
  LET W == Within(passed[f.bucket], Window[f.bucket], f.at) IN
  /\ f.at <= clock /\ Cardinality(W) = Limit[f.bucket]
  /\ \E o \in W : /\ \A m \in W : o.at <= m.at
                  /\ f.seconds = Seconds(o.at + Window[f.bucket] - f.at)

LimiterInv ==
  /\ LimiterTypeOK
  /\ \A b \in Bucket : BucketRight(b) /\ WindowsRight(b)
  /\ \A r \in Request, f \in Refusal429 \ {NoRefusal} : refusal[r] = f => Justified(f)

\* Rounding up to seconds, at least one.
LEMMA RoundsUp ==
  ASSUME NEW ticks \in Nat \ {0}
  PROVE  /\ Seconds(ticks) \in Nat \ {0} /\ Seconds(ticks) * Second >= ticks
         /\ Seconds(ticks) > 1 => (Seconds(ticks) - 1) * Second < ticks
<1>0. Second \in Nat \ {0}
  BY LimiterAssumption
<1>1. CASE ticks < Second
  <2>1. Seconds(ticks) = 1
    BY <1>1 DEF Seconds
  <2> QED BY <1>0, <1>1, <2>1
<1>2. CASE ~(ticks < Second)
  <2> DEFINE a == ticks + Second - 1
             q == a \div Second
  <2>1. Seconds(ticks) = q
    BY <1>2 DEF Seconds
  <2>2. a \in Nat
    BY <1>0
  <2>3. ASSUME NEW n \in Nat, NEW d \in Nat \ {0}
        PROVE  (n \div d) \in Nat /\ d * (n \div d) <= n /\ n < d * (n \div d) + d
    OBVIOUS
  <2>4. q \in Nat /\ Second * q <= a /\ a < Second * q + Second
    <3> HIDE DEF a
    <3> QED BY <1>0, <2>2, <2>3
  <2> HIDE DEF q
  <2>5. ticks <= Second * q /\ Second * q < ticks + Second
    BY <1>0, <2>4
  <2>6. q # 0
    <3>1. Second * 0 = 0
      BY <1>0
    <3> QED BY <2>5, <3>1
  <2>7. q * Second = Second * q /\ (q - 1) * Second = Second * q - Second
    BY <1>0, <2>4
  <2>8. Second * q \in Nat
    BY <1>0, <2>4
  <2>9. q * Second >= ticks /\ (q - 1) * Second < ticks
    BY <1>0, <2>5, <2>7, <2>8
  <2> QED BY <2>1, <2>4, <2>6, <2>9
<1> QED BY <1>1, <1>2

\* What the Lua script counts is what was let pass in the window that ends now.
LEMMA CountsTheWindow ==
  ASSUME LimiterTypeOK, NEW b \in Bucket, BucketRight(b)
  PROVE  /\ InWindow(b) = Within(passed[b], Window[b], clock)
         /\ IsFiniteSet(InWindow(b)) /\ Cardinality(InWindow(b)) \in Nat
<1>0. /\ clock \in Nat /\ Window[b] \in Nat \ {0} /\ expiresAt[b] \in Nat
      /\ \A m \in passed[b] : m.at \in Nat
  BY LimiterAssumption DEF LimiterTypeOK, Entry
<1>1. InWindow(b) = Within(passed[b], Window[b], clock)
  <2>1. CASE clock >= expiresAt[b]
    <3>1. InWindow(b) = {}
      BY <2>1 DEF InWindow
    <3>2. \A m \in passed[b] : ~(m.at > clock - Window[b])
      BY <1>0, <2>1 DEF BucketRight
    <3> QED BY <3>1, <3>2 DEF Within
  <2>2. CASE ~(clock >= expiresAt[b])
    <3>1. InWindow(b) = {m \in log[b] : m.at > clock - Window[b]}
      BY <2>2 DEF InWindow
    <3> QED BY <3>1 DEF Within, BucketRight
  <2> QED BY <2>1, <2>2
<1>2. InWindow(b) \in SUBSET passed[b]
  BY <1>1 DEF Within
<1>3. IsFiniteSet(InWindow(b))
  BY <1>2, FS_Subset DEF BucketRight
<1> QED BY <1>1, <1>3, FS_CardinalityType

\* A window's requests are counted later too, until the first of them leaves.
LEMMA StillThere ==
  ASSUME NEW b \in Bucket, NEW t \in Nat, NEW e \in Nat, t <= e,
         Window[b] \in Nat, \A m \in passed[b] : m.at \in Nat,
         \A m \in Within(passed[b], Window[b], t) : m.at > e - Window[b]
  PROVE  PassedIn(b, e, t) = Within(passed[b], Window[b], t)
<1>1. ASSUME NEW m \in passed[b]
      PROVE  (m.at > e - Window[b] /\ m.at <= e /\ m.at <= t)
               <=> (m.at > t - Window[b] /\ m.at <= t)
  <2>1. m.at \in Nat /\ (m.at > t - Window[b] /\ m.at <= t => m.at > e - Window[b])
    BY DEF Within
  <2> QED BY <2>1
<1> QED BY <1>1 DEF PassedIn, Within

\* A refusal stays justified while the requests of its window stay the same.
LEMMA JustifiedKept ==
  ASSUME NEW f \in Refusal429, Justified(f), clock \in Nat, clock' \in Nat, clock <= clock',
         Within(passed'[f.bucket], Window[f.bucket], f.at)
           = Within(passed[f.bucket], Window[f.bucket], f.at)
  PROVE  Justified(f)'
<1>1. f.at \in Nat /\ f.at <= clock
  BY DEF Refusal429, Justified
<1>2. f.at <= clock'
  BY <1>1
<1> QED BY <1>2 DEF Justified, Seconds

\* A step that leaves the buckets alone and refuses nobody.
LEMMA QuietLimiter ==
  ASSUME LimiterInv, LimiterTypeOK', UNCHANGED <<clock, log, expiresAt, passed>>,
         \A r \in Request : refusal'[r] \in {NoRefusal, refusal[r]}
  PROVE  LimiterInv'
<1>1. \A b \in Bucket : BucketRight(b)' /\ WindowsRight(b)'
  BY DEF LimiterInv, BucketRight, WindowsRight
<1>2. \A f \in Refusal429 : Justified(f) => Justified(f)'
  BY DEF Justified
<1>3. \A r \in Request, f \in Refusal429 \ {NoRefusal} : refusal'[r] = f => refusal[r] = f
  OBVIOUS
<1>4. \A r \in Request, f \in Refusal429 \ {NoRefusal} : refusal'[r] = f => Justified(f)'
  BY <1>2, <1>3 DEF LimiterInv
<1> QED BY <1>1, <1>4 DEF LimiterInv

\* Redis' clock goes on: the window that ends now has lost its oldest requests.
LEMMA TimePassesLimiter == ASSUME LimiterInv, TimePasses PROVE LimiterInv'
<1>0. LimiterTypeOK /\ MaxTime \in Nat
  BY LimiterAssumption DEF LimiterInv
<1>1. clock \in Nat /\ clock' = clock + 1 /\ UNCHANGED <<log, expiresAt, ahead, refusal, passed>>
  BY <1>0 DEF TimePasses, LimiterTypeOK
<1>2. LimiterTypeOK'
  BY <1>0, <1>1 DEF LimiterTypeOK
<1>3. ASSUME NEW b \in Bucket PROVE BucketRight(b)' /\ WindowsRight(b)'
  <2>0. BucketRight(b) /\ WindowsRight(b)
    BY DEF LimiterInv
  <2>1. Window[b] \in Nat \ {0} /\ \A m \in passed[b] : m.at \in Nat
    BY <1>0, LimiterAssumption DEF LimiterTypeOK, Entry
  <2>2. BucketRight(b)'
    BY <1>1, <2>0, <2>1 DEF BucketRight
  <2>3. ASSUME NEW t \in 0 .. clock + 1
        PROVE  Cardinality(Within(passed[b], Window[b], t)) <= Limit[b]
    <3>1. CASE t \in 0 .. clock
      BY <2>0, <3>1 DEF WindowsRight
    <3>2. CASE t = clock + 1
      <4> DEFINE now == Within(passed[b], Window[b], clock)
                 next == Within(passed[b], Window[b], clock + 1)
      <4>1. next \in SUBSET now /\ now \in SUBSET passed[b]
        BY <1>1, <2>0, <2>1 DEF Within, BucketRight
      <4>2. IsFiniteSet(now)
        BY <2>0, <4>1, FS_Subset DEF BucketRight
      <4>3. /\ Cardinality(next) <= Cardinality(now)
            /\ Cardinality(next) \in Nat /\ Cardinality(now) \in Nat
        BY <4>1, <4>2, FS_Subset, FS_CardinalityType
      <4>4. Cardinality(now) <= Limit[b]
        BY <1>1, <2>0 DEF WindowsRight
      <4>5. Limit[b] \in Nat
        BY LimiterAssumption
      <4> HIDE DEF now, next
      <4>6. Cardinality(next) <= Limit[b]
        BY <4>3, <4>4, <4>5
      <4> QED BY <3>2, <4>6 DEF next
    <3> QED BY <1>1, <3>1, <3>2
  <2> QED BY <1>1, <2>2, <2>3 DEF WindowsRight
<1>4. ASSUME NEW r \in Request, NEW f \in Refusal429 \ {NoRefusal}, refusal'[r] = f
      PROVE  Justified(f)'
  <2>1. Justified(f)
    BY <1>1, <1>4 DEF LimiterInv
  <2>2. clock' \in Nat /\ clock <= clock'
    BY <1>1
  <2> QED BY <1>1, <2>1, <2>2, JustifiedKept
<1> QED BY <1>2, <1>3, <1>4 DEF LimiterInv
\* A request is let pass and recorded.
LEMMA AdmitLimiter == ASSUME LimiterInv, NEW r \in Request, Admit(r) PROVE LimiterInv'
<1>0. LimiterTypeOK
  BY DEF LimiterInv
<1>a. ahead[r] \in Seq(Bucket) /\ ahead[r] # <<>>
  BY <1>0 DEF Admit, LimiterTypeOK
<1>b. PICK b \in Bucket : b = Head(ahead[r])
  BY <1>a
<1>c. PICK m0 : m0 = Member(b)
  OBVIOUS
<1>d. PICK P : P = passed[b]
  OBVIOUS
<1>1. b \in Bucket /\ Tail(ahead[r]) \in Seq(Bucket)
  BY <1>a
<1>2. /\ Cardinality(InWindow(b)) < Limit[b]
      /\ log' = [log EXCEPT ![b] = InWindow(b) \cup {m0}]
      /\ expiresAt' = [expiresAt EXCEPT ![b] = clock + Window[b]]
      /\ passed' = [passed EXCEPT ![b] = P \cup {m0}]
      /\ ahead' = [ahead EXCEPT ![r] = Tail(ahead[r])]
      /\ UNCHANGED <<clock, refusal>>
  BY <1>b, <1>c, <1>d DEF Admit, Expiry, Proceed
<1>3. /\ clock \in Nat /\ Window[b] \in Nat \ {0} /\ Limit[b] \in Nat
      /\ P \in SUBSET Entry /\ \A m \in P : m.at \in Nat /\ m.id \in Nat
  BY <1>0, <1>1, <1>d, LimiterAssumption DEF LimiterTypeOK, Entry
<1>4. BucketRight(b) /\ WindowsRight(b)
  BY <1>1 DEF LimiterInv
<1>5. m0 \in Entry /\ m0.at = clock /\ m0.id = Cardinality(P) /\ Cardinality(P) \in Nat
  <2>1. Cardinality(P) \in Nat
    BY <1>4, <1>d, FS_CardinalityType DEF BucketRight
  <2> QED BY <1>3, <1>c, <1>d, <2>1 DEF Member, Entry
<1>6. m0 \notin P
  BY <1>3, <1>4, <1>5, <1>d DEF BucketRight
<1>7. /\ InWindow(b) = Within(P, Window[b], clock)
      /\ IsFiniteSet(InWindow(b)) /\ Cardinality(InWindow(b)) \in Nat
  BY <1>0, <1>1, <1>4, <1>d, CountsTheWindow
<1>8. IsFiniteSet(P \cup {m0}) /\ Cardinality(P \cup {m0}) = Cardinality(P) + 1
  BY <1>4, <1>6, <1>d, FS_AddElement DEF BucketRight
<1>9. \A t \in Nat : t < clock => Within(P \cup {m0}, Window[b], t) = Within(P, Window[b], t)
  BY <1>3, <1>5 DEF Within
<1>10. Within(P \cup {m0}, Window[b], clock) = InWindow(b) \cup {m0}
  <2>1. m0.at > clock - Window[b] /\ m0.at <= clock
    BY <1>3, <1>5
  <2> QED BY <1>7, <2>1 DEF Within
<1>11. Cardinality(InWindow(b) \cup {m0}) = Cardinality(InWindow(b)) + 1
  <2>1. m0 \notin InWindow(b)
    BY <1>6, <1>7 DEF Within
  <2> QED BY <1>7, <2>1, FS_AddElement
<1>12. LimiterTypeOK'
  <2>1. InWindow(b) \cup {m0} \in SUBSET Entry /\ P \cup {m0} \in SUBSET Entry
    BY <1>3, <1>5, <1>7 DEF Within
  <2>2. clock + Window[b] \in Nat
    BY <1>3
  <2> QED BY <1>0, <1>1, <1>2, <2>1, <2>2 DEF LimiterTypeOK
<1>13. \A c \in Bucket : c # b =>
         log'[c] = log[c] /\ expiresAt'[c] = expiresAt[c] /\ passed'[c] = passed[c]
  BY <1>0, <1>2 DEF LimiterTypeOK
<1>14. /\ log'[b] = InWindow(b) \cup {m0} /\ expiresAt'[b] = clock + Window[b]
       /\ passed'[b] = P \cup {m0}
  BY <1>0, <1>1, <1>2 DEF LimiterTypeOK
<1>15. BucketRight(b)'
  <2>1. \A m \in P : m.at <= clock /\ m.id < Cardinality(P)
    BY <1>4, <1>d DEF BucketRight
  <2>2. \A m \in P \cup {m0} : /\ m.at <= clock /\ m.id < Cardinality(P) + 1
                               /\ m.at + Window[b] <= clock + Window[b]
    BY <1>3, <1>5, <2>1
  <2>3. \A m \in P \cup {m0} : m.at > clock - Window[b] => m \in InWindow(b) \cup {m0}
    BY <1>7, <2>1 DEF Within
  <2>4. InWindow(b) \cup {m0} \subseteq P \cup {m0}
    BY <1>7 DEF Within
  <2> QED BY <1>2, <1>8, <1>14, <2>2, <2>3, <2>4 DEF BucketRight
<1>16. WindowsRight(b)'
  <2> SUFFICES ASSUME NEW t \in 0 .. clock
               PROVE  Cardinality(Within(P \cup {m0}, Window[b], t)) <= Limit[b]
    BY <1>2, <1>14 DEF WindowsRight
  <2>1. CASE t < clock
    <3>0. t \in Nat
      BY <1>3
    <3>1. Within(P \cup {m0}, Window[b], t) = Within(P, Window[b], t)
      BY <1>9, <2>1, <3>0
    <3>2. Cardinality(Within(passed[b], Window[b], t)) <= Limit[b]
      BY <1>4 DEF WindowsRight
    <3> QED BY <1>d, <3>1, <3>2, Zenon
  <2>2. CASE t = clock
    <3>1. Cardinality(InWindow(b) \cup {m0}) <= Limit[b]
      BY <1>2, <1>3, <1>7, <1>11
    <3> QED BY <1>10, <2>2, <3>1
  <2> QED BY <1>3, <2>1, <2>2
<1>17. ASSUME NEW c \in Bucket PROVE BucketRight(c)' /\ WindowsRight(c)'
  <2>1. CASE c = b
    BY <1>15, <1>16, <2>1
  <2>2. CASE c # b
    <3>1. BucketRight(c) /\ WindowsRight(c)
      BY DEF LimiterInv
    <3> QED BY <1>2, <1>13, <2>2, <3>1 DEF BucketRight, WindowsRight
  <2> QED BY <2>1, <2>2
<1>18. ASSUME NEW q \in Request, NEW f \in Refusal429 \ {NoRefusal}, refusal'[q] = f
       PROVE  Justified(f)'
  <2>1. Justified(f) /\ f.bucket \in Bucket /\ f.at \in Nat
    BY <1>2, <1>18 DEF LimiterInv, Refusal429
  <2>2. /\ f.at <= clock
        /\ Cardinality(Within(passed[f.bucket], Window[f.bucket], f.at)) = Limit[f.bucket]
    BY <2>1 DEF Justified
  <2>3. CASE f.bucket # b
    <3>1. passed'[f.bucket] = passed[f.bucket]
      BY <1>13, <2>1, <2>3
    <3>2. clock' \in Nat /\ clock <= clock'
      BY <1>2, <1>3
    <3> QED BY <1>3, <2>1, <3>1, <3>2, JustifiedKept
  <2>4. CASE f.bucket = b
    <3>1. f.at # clock
      BY <1>2, <1>3, <1>7, <1>d, <2>2, <2>4
    <3>2. f.at < clock
      BY <1>3, <2>1, <2>2, <3>1
    <3>3. Within(passed'[f.bucket], Window[f.bucket], f.at)
            = Within(passed[f.bucket], Window[f.bucket], f.at)
      BY <1>9, <1>14, <1>d, <2>1, <2>4, <3>2
    <3>4. clock' \in Nat /\ clock <= clock'
      BY <1>2, <1>3
    <3> QED BY <1>3, <2>1, <3>3, <3>4, JustifiedKept
  <2> QED BY <2>3, <2>4
<1> QED BY <1>12, <1>17, <1>18 DEF LimiterInv

\* A request is refused with the time at which the oldest leaves the window.
LEMMA RefuseLimiter == ASSUME LimiterInv, NEW r \in Request, Refuse(r) PROVE LimiterInv'
<1>0. LimiterTypeOK
  BY DEF LimiterInv
<1> DEFINE b == Head(ahead[r])
           f == [bucket |-> b, at |-> clock, seconds |-> Seconds(Oldest(b) + Window[b] - clock)]
<1>1. b \in Bucket
  <2>1. ahead[r] \in Seq(Bucket) /\ ahead[r] # <<>>
    BY <1>0 DEF Refuse, LimiterTypeOK
  <2> QED BY <2>1
<1>2. /\ Cardinality(InWindow(b)) >= Limit[b]
      /\ log' = [log EXCEPT ![b] = InWindow(b)]
      /\ refusal' = [refusal EXCEPT ![r] = f]
      /\ ahead' = [ahead EXCEPT ![r] = <<>>]
      /\ UNCHANGED <<clock, expiresAt, passed>>
  BY DEF Refuse, Stop
<1>3. /\ clock \in Nat /\ Window[b] \in Nat \ {0} /\ Limit[b] \in Nat \ {0}
      /\ \A m \in passed[b] : m \in Entry /\ m.at \in Nat
  BY <1>0, <1>1, LimiterAssumption DEF LimiterTypeOK, Entry
<1>4. BucketRight(b) /\ WindowsRight(b)
  BY <1>1 DEF LimiterInv
<1>5. /\ InWindow(b) = Within(passed[b], Window[b], clock)
      /\ IsFiniteSet(InWindow(b)) /\ Cardinality(InWindow(b)) \in Nat
  BY <1>0, <1>1, <1>4, CountsTheWindow
<1> HIDE DEF b
<1>6. Cardinality(InWindow(b)) = Limit[b]
  <2>1. clock \in 0 .. clock
    BY <1>3
  <2>2. Cardinality(InWindow(b)) <= Limit[b]
    BY <1>4, <1>5, <2>1 DEF WindowsRight
  <2> QED BY <1>2, <1>3, <1>5, <2>2
<1>7. PICK o \in InWindow(b) : o.at = Oldest(b) /\ \A m \in InWindow(b) : o.at <= m.at
  <2> DEFINE T == {m.at : m \in InWindow(b)}
  <2>1. T \subseteq Nat
    BY <1>3, <1>5 DEF Within
  <2>2. InWindow(b) # {}
    BY <1>3, <1>6, FS_EmptySet
  <2>3. T # {}
    BY <2>2
  <2>4. Oldest(b) = Min(T)
    BY DEF Oldest
  <2>5. Min(T) \in T /\ \A n \in T : Min(T) <= n
    <3> HIDE DEF T
    <3>1. \E m \in T : \A n \in T : m <= n
      BY <2>1, <2>3, LeastNumber
    <3> QED BY <3>1 DEF Min
  <2> QED BY <2>4, <2>5
<1>8. /\ o.at \in Nat /\ o.at > clock - Window[b] /\ o.at <= clock
      /\ o.at + Window[b] - clock \in Nat \ {0}
  BY <1>3, <1>5, <1>7 DEF Within
<1>9. Seconds(Oldest(b) + Window[b] - clock) \in Nat
  BY <1>7, <1>8, RoundsUp
<1>10. f \in Refusal429 /\ f.bucket = b /\ f.at = clock
       /\ f.seconds = Seconds(o.at + Window[b] - clock)
  BY <1>1, <1>3, <1>7, <1>9 DEF Refusal429
<1> HIDE DEF f
<1>11. LimiterTypeOK'
  <2>1. InWindow(b) \in SUBSET Entry
    BY <1>3, <1>5 DEF Within
  <2>2. <<>> \in Seq(Bucket)
    OBVIOUS
  <2> QED BY <1>0, <1>1, <1>2, <1>10, <2>1, <2>2 DEF LimiterTypeOK
<1>12. ASSUME NEW c \in Bucket PROVE BucketRight(c)' /\ WindowsRight(c)'
  <2>1. BucketRight(c) /\ WindowsRight(c)
    BY DEF LimiterInv
  <2>2. log'[c] = IF c = b THEN InWindow(b) ELSE log[c]
    BY <1>0, <1>1, <1>2 DEF LimiterTypeOK
  <2>3. CASE c = b
    <3>1. \A m \in passed[b] : m.at > clock - Window[b] => m \in InWindow(b)
      BY <1>4, <1>5 DEF BucketRight, Within
    <3>2. InWindow(b) \subseteq passed[b]
      BY <1>5 DEF Within
    <3> QED BY <1>2, <2>1, <2>2, <2>3, <3>1, <3>2 DEF BucketRight, WindowsRight
  <2>4. CASE c # b
    BY <1>2, <2>1, <2>2, <2>4 DEF BucketRight, WindowsRight
  <2> QED BY <2>3, <2>4
<1>13. ASSUME NEW q \in Request, NEW g \in Refusal429 \ {NoRefusal}, refusal'[q] = g
       PROVE  Justified(g)'
  <2>1. refusal'[q] = IF q = r THEN f ELSE refusal[q]
    BY <1>0, <1>2 DEF LimiterTypeOK
  <2>2. CASE q = r
    <3>1. g.bucket = b /\ g.at = clock /\ g.seconds = Seconds(o.at + Window[b] - clock)
      BY <1>10, <1>13, <2>1, <2>2
    <3>2. Justified(g)
      BY <1>3, <1>5, <1>6, <1>7, <3>1 DEF Justified
    <3> QED BY <1>2, <1>3, <3>2, JustifiedKept
  <2>3. CASE q # r
    <3>1. Justified(g)
      BY <1>13, <2>1, <2>3 DEF LimiterInv
    <3> QED BY <1>2, <1>3, <3>1, JustifiedKept
  <2> QED BY <2>2, <2>3
<1> QED BY <1>11, <1>12, <1>13 DEF LimiterInv

\* The steps that leave the buckets alone.
LEMMA OtherLimiter ==
  ASSUME LimiterInv,
         \/ \E r \in Request : Unavailable(r) \/ \E route \in Routes : Arrive(r, route)
         \/ Outage \/ BackUp \/ UNCHANGED limiterVars
  PROVE  LimiterInv'
<1>0. LimiterTypeOK
  BY DEF LimiterInv
<1>1. ASSUME NEW r \in Request, Unavailable(r) PROVE LimiterInv'
  <2>1. /\ UNCHANGED <<clock, log, expiresAt, passed, refusal>>
        /\ \/ ahead' = [ahead EXCEPT ![r] = <<>>]
           \/ ahead' = [ahead EXCEPT ![r] = Tail(ahead[r])]
    BY <1>1 DEF Unavailable, Stop, Proceed
  <2>2. <<>> \in Seq(Bucket) /\ Tail(ahead[r]) \in Seq(Bucket)
    <3>1. ahead[r] \in Seq(Bucket) /\ ahead[r] # <<>>
      BY <1>0, <1>1 DEF Unavailable, LimiterTypeOK
    <3> QED BY <3>1
  <2>3. LimiterTypeOK'
    BY <1>0, <2>1, <2>2 DEF LimiterTypeOK
  <2> QED BY <2>1, <2>3, QuietLimiter
<1>2. ASSUME NEW r \in Request, NEW route \in Routes, Arrive(r, route) PROVE LimiterInv'
  <2>1. /\ UNCHANGED <<clock, log, expiresAt, passed>> /\ route \in Seq(Bucket)
        /\ ahead' = [ahead EXCEPT ![r] = route]
        /\ refusal' = [refusal EXCEPT ![r] = NoRefusal]
    BY <1>2, LimiterAssumption DEF Arrive
  <2>2. LimiterTypeOK'
    BY <1>0, <2>1 DEF LimiterTypeOK
  <2>3. \A q \in Request : refusal'[q] \in {NoRefusal, refusal[q]}
    BY <1>0, <2>1 DEF LimiterTypeOK
  <2> QED BY <2>1, <2>2, <2>3, QuietLimiter
<1>3. CASE Outage \/ BackUp \/ UNCHANGED limiterVars
  <2>1. UNCHANGED <<clock, log, expiresAt, ahead, refusal, passed>>
    BY <1>3 DEF Outage, BackUp, limiterVars
  <2>2. LimiterTypeOK'
    BY <1>0, <2>1 DEF LimiterTypeOK
  <2> QED BY <2>1, <2>2, QuietLimiter
<1> QED BY <1>1, <1>2, <1>3

\* The inductive invariant of the limiter holds throughout.
LEMMA LimiterInvariant == LimiterSpec => []LimiterInv
<1>1. LimiterInit => LimiterInv
  <2> SUFFICES ASSUME LimiterInit PROVE LimiterInv
    OBVIOUS
  <2>1. <<>> \in Seq(Bucket)
    OBVIOUS
  <2>2. LimiterTypeOK
    BY <2>1 DEF LimiterInit, LimiterTypeOK
  <2>3. ASSUME NEW b \in Bucket PROVE BucketRight(b) /\ WindowsRight(b)
    <3>1. passed[b] = {} /\ log[b] = {}
      BY DEF LimiterInit
    <3>2. \A t \in 0 .. clock : Within(passed[b], Window[b], t) = {}
      BY <3>1 DEF Within
    <3>3. Limit[b] \in Nat /\ IsFiniteSet({}) /\ Cardinality({}) = 0
      BY LimiterAssumption, FS_EmptySet
    <3>4. 0 <= Limit[b]
      BY <3>3
    <3> QED BY <3>1, <3>2, <3>3, <3>4 DEF BucketRight, WindowsRight
  <2> QED BY <2>2, <2>3 DEF LimiterInv, LimiterInit
<1>2. LimiterInv /\ [LimiterNext]_limiterVars => LimiterInv'
  BY AdmitLimiter, RefuseLimiter, OtherLimiter, TimePassesLimiter DEF LimiterNext
<1> QED BY <1>1, <1>2, PTL DEF LimiterSpec

\* A bucket that fails closed lets nobody pass while Redis cannot be reached.
ClosedIsClosed == \A b \in Bucket : FailClosed[b] => b \notin unseen

\* Only an outage lets requests pass unseen, and only at buckets that fail open.
LEMMA ClosedStaysClosed == LimiterSpec => []ClosedIsClosed
<1>1. LimiterInit => ClosedIsClosed
  BY DEF LimiterInit, ClosedIsClosed
<1>2. ASSUME ClosedIsClosed, [LimiterNext]_limiterVars PROVE ClosedIsClosed'
  <2>1. ASSUME NEW r \in Request, Unavailable(r) PROVE ClosedIsClosed'
    BY <1>2, <2>1 DEF Unavailable, ClosedIsClosed
  <2>2. CASE UNCHANGED unseen
    BY <1>2, <2>2 DEF ClosedIsClosed
  <2> QED BY <1>2, <2>1, <2>2 DEF LimiterNext, limiterVars, Arrive, Admit, Refuse, TimePasses,
                                Outage, BackUp
<1> QED BY <1>1, <1>2, PTL DEF LimiterSpec

\* "A sliding window never exceeds `limit` in ANY window-sized period", for any
\* limits, windows, routes, outages and requests (the Lua script SLIDING_WINDOW),
\* and where the limiter fails closed that is all that ever pass.
THEOREM WithinAnyWindowTheorem == LimiterSpec => []WithinAnyWindow
<1>1. LimiterInv /\ ClosedIsClosed => WithinAnyWindow
  <2> SUFFICES ASSUME LimiterInv, NEW b \in Bucket, NEW t \in 0 .. clock
               PROVE  Cardinality(PassedIn(b, t, t)) <= Limit[b]
    BY DEF WithinAnyWindow, ClosedIsClosed
  <2>1. PassedIn(b, t, t) = Within(passed[b], Window[b], t)
    BY DEF PassedIn, Within
  <2> QED BY <2>1 DEF LimiterInv, WindowsRight
<1> QED BY <1>1, LimiterInvariant, ClosedStaysClosed, PTL

\* Retry-After is the least number of whole seconds, and at least one, after
\* which the bucket has room again.
THEOREM RetryAfterExactTheorem == LimiterSpec => []RetryAfterExact
<1>1. LimiterInv => RetryAfterExact
  <2> SUFFICES ASSUME LimiterInv, NEW r \in Request, refusal[r] # NoRefusal
               PROVE  LET b == refusal[r].bucket
                          t == refusal[r].at
                          count(s) == Cardinality(PassedIn(b, t + s * Second, t))
                      IN  /\ count(refusal[r].seconds) < Limit[b]
                          /\ refusal[r].seconds > 1 =>
                               count(refusal[r].seconds - 1) >= Limit[b]
    BY DEF RetryAfterExact
  <2> DEFINE f == refusal[r]
             b == f.bucket
             t == f.at
             s == f.seconds
             W == Within(passed[b], Window[b], t)
             C(n) == PassedIn(b, t + n * Second, t)
  <2>1. f \in Refusal429 /\ Justified(f)
    BY DEF LimiterInv, LimiterTypeOK
  <2>2. PICK o \in W : (\A m \in W : o.at <= m.at) /\ s = Seconds(o.at + Window[b] - t)
    BY <2>1 DEF Justified
  <2>3. Cardinality(W) = Limit[b]
    BY <2>1 DEF Justified
  <2>4. /\ b \in Bucket /\ t \in Nat /\ Window[b] \in Nat \ {0} /\ Second \in Nat \ {0}
        /\ Limit[b] \in Nat /\ \A m \in passed[b] : m.at \in Nat
    BY <2>1, LimiterAssumption DEF LimiterInv, LimiterTypeOK, Refusal429, Entry
  <2>5. IsFiniteSet(W)
    <3>1. W \in SUBSET passed[b] /\ IsFiniteSet(passed[b])
      BY <2>4 DEF Within, LimiterInv, BucketRight
    <3> QED BY <3>1, FS_Subset
  <2> HIDE DEF f, b, t, s
  <2>6. o.at \in Nat /\ o.at > t - Window[b] /\ o.at + Window[b] - t \in Nat \ {0}
    BY <2>2, <2>4 DEF Within
  <2>7. /\ s \in Nat \ {0} /\ s * Second >= o.at + Window[b] - t
        /\ s > 1 => (s - 1) * Second < o.at + Window[b] - t
    BY <2>2, <2>6, RoundsUp
  <2>8. ASSUME NEW n \in Nat PROVE n * Second \in Nat
    BY <2>4
  <2>9. Cardinality(C(s)) < Limit[b]
    <3>1. s * Second \in Nat
      BY <2>7, <2>8
    <3>2. C(s) \in SUBSET W /\ o \notin C(s)
      BY <2>4, <2>6, <2>7, <3>1 DEF PassedIn, Within
    <3> HIDE DEF W, C
    <3>3. /\ Cardinality(C(s)) <= Cardinality(W) /\ Cardinality(C(s)) # Cardinality(W)
          /\ Cardinality(C(s)) \in Nat
      BY <2>2, <2>5, <3>2, FS_Subset, FS_CardinalityType
    <3> QED BY <2>3, <2>4, <3>3
  <2>10. ASSUME s > 1 PROVE Cardinality(C(s - 1)) >= Limit[b]
    <3>1. (s - 1) * Second \in Nat /\ (s - 1) * Second < o.at + Window[b] - t
      BY <2>7, <2>8, <2>10
    <3> DEFINE k == (s - 1) * Second
    <3>2. C(s - 1) = PassedIn(b, t + k, t)
      OBVIOUS
    <3>3. k \in Nat /\ k < o.at + Window[b] - t
      BY <3>1
    <3> HIDE DEF C, k
    <3>4. C(s - 1) = W
      <4>1. PICK e \in Nat : e = t + k /\ t <= e
        BY <2>4, <3>3
      <4>2. \A m \in W : m \in passed[b] /\ o.at <= m.at
        BY <2>2 DEF Within
      <4>3. ASSUME NEW m \in W PROVE m.at > e - Window[b]
        <5>1. m.at \in Nat /\ o.at <= m.at
          BY <2>4, <4>2
        <5> QED BY <2>4, <2>6, <3>3, <4>1, <5>1
      <4>4. Window[b] \in Nat
        BY <2>4
      <4>5. PassedIn(b, e, t) = W
        BY <2>4, <4>1, <4>3, <4>4, StillThere, Zenon
      <4> QED BY <3>2, <4>1, <4>5
    <3> HIDE DEF W
    <3> QED BY <2>3, <2>4, <3>4
  <2> QED BY <2>9, <2>10 DEF f, b, t, s
<1> QED BY <1>1, LimiterInvariant, PTL

-----------------------------------------------------------------------------
(* DAG validation. No induction over the graph is needed. A set of tasks   *)
(* is acyclic if each of its parts has a task that waits for no other of   *)
(* it (AcyclicOn); such a set stays acyclic when tasks join that depend on *)
(* members only (AcyclicGrows). Kahn's algorithm grows the set of the      *)
(* emitted tasks that way, a wave at a time, and the search the set of the *)
(* BLACK ones, a task at a time. What Kahn leaves over has no such task,   *)
(* so it is no part of the BLACK ones and the search finds a GREY one.     *)

\* What the structural checks establish.
WellFormed ==
  /\ \A i, j \in DOMAIN tasks : tasks[i].key = tasks[j].key => i = j
  /\ \A i \in DOMAIN tasks : /\ Repeated(tasks[i].dependsOn) = {}
                             /\ ToSet(tasks[i].dependsOn) \subseteq Keys
                             /\ tasks[i].key \notin ToSet(tasks[i].dependsOn)

Task == [key : TaskKey, dependsOn : Seq(TaskKey)]

DagTypeOK ==
  /\ tasks \in Seq(Task)
  /\ phase \in {"check", "kahn", "search", "valid", "invalid"}
  /\ levels \in Seq(SUBSET Keys)
  /\ path \in Seq(Keys)
  /\ black \subseteq Keys

AcyclicOn(B) == \A S \in SUBSET B : S # {} => \E k \in S : Deps(k) \cap S = {}

Closed(B) == \A k \in B : Deps(k) \subseteq B

\* The places of k's dependencies that are not emitted yet.
Waiting(k) == {j \in DOMAIN DependsOnOf(k) : DependsOnOf(k)[j] \notin Emitted}

LevelsSoFar ==
  \A n \in DOMAIN levels : \A k \in levels[n] :
    /\ \A m \in DOMAIN levels : k \in levels[m] => m = n
    /\ \A d \in Deps(k) : \E m \in 1 .. n - 1 : d \in levels[m]
    /\ n > 1 => \E d \in Deps(k) : d \in levels[n - 1]

KahnInv ==
  /\ WellFormed
  /\ inDegree = [k \in Keys |-> Cardinality(Waiting(k))]
  /\ wave = {k \in Unprocessed : Deps(k) \subseteq Emitted}
  /\ levels # <<>> => \A k \in wave : Deps(k) \cap levels[Len(levels)] # {}
  /\ LevelsSoFar
  /\ AcyclicOn(Emitted)

PathOK ==
  /\ \A i, j \in DOMAIN path : path[i] = path[j] => i = j
  /\ \A i \in DOMAIN path : path[i] \notin black
  /\ \A i \in 1 .. Len(path) - 1 : path[i + 1] \in Deps(path[i])

\* The dependencies looked at are BLACK or the next on the path.
LookedAt ==
  /\ left \in [Keys -> SUBSET Keys]
  /\ \A k \in Keys : left[k] \subseteq Deps(k)
  /\ \A k \in Keys \ black : (\A i \in DOMAIN path : path[i] # k) => left[k] = Deps(k)
  /\ \A i \in DOMAIN path : \A d \in Deps(path[i]) \ left[path[i]] :
       d \in black \/ (i < Len(path) /\ d = path[i + 1])

SearchInv ==
  /\ wave = {} /\ Unprocessed # {}
  /\ Closed(black) /\ AcyclicOn(black)
  /\ PathOK /\ LookedAt

DagInv ==
  /\ DagTypeOK
  /\ phase = "check" => levels = <<>>
  /\ phase \in {"check", "kahn"} => path = <<>> /\ black = {}
  /\ phase \in {"kahn", "search", "valid"} => KahnInv
  /\ phase = "search" => SearchInv
  /\ phase = "valid" => Unprocessed = {}
  /\ phase = "invalid" => ~IsDag
  /\ phase # "invalid" => cycle = <<>>
  /\ CycleIsReal

-----------------------------------------------------------------------------

\* Tasks that depend on members only keep a closed set acyclic.
LEMMA AcyclicGrows ==
  ASSUME NEW B, NEW W, Closed(B), AcyclicOn(B), W \cap B = {}, \A k \in W : Deps(k) \subseteq B
  PROVE  Closed(B \cup W) /\ AcyclicOn(B \cup W)
<1>1. Closed(B \cup W)
  BY DEF Closed
<1>2. ASSUME NEW S \in SUBSET (B \cup W), S # {}
      PROVE  \E k \in S : Deps(k) \cap S = {}
  <2>1. CASE S \cap B = {}
    BY <1>2, <2>1
  <2>2. CASE S \cap B # {}
    <3>1. PICK k \in S \cap B : Deps(k) \cap (S \cap B) = {}
      BY <2>2 DEF AcyclicOn
    <3> QED BY <3>1 DEF Closed
  <2> QED BY <2>1, <2>2
<1> QED BY <1>1, <1>2 DEF AcyclicOn

\* The dependencies of a task.
LEMMA DepsOfTask ==
  ASSUME tasks \in Seq(Task)
  PROVE  \A k \in Keys : \E i \in DOMAIN tasks :
           /\ tasks[i].key = k /\ DependsOnOf(k) = tasks[i].dependsOn
           /\ DependsOnOf(k) \in Seq(TaskKey)
           /\ DOMAIN DependsOnOf(k) = 1 .. Len(DependsOnOf(k)) /\ Len(DependsOnOf(k)) \in Nat
<1> SUFFICES ASSUME NEW k \in Keys
             PROVE  \E i \in DOMAIN tasks :
                      /\ tasks[i].key = k /\ DependsOnOf(k) = tasks[i].dependsOn
                      /\ DependsOnOf(k) \in Seq(TaskKey)
                      /\ DOMAIN DependsOnOf(k) = 1 .. Len(DependsOnOf(k))
                      /\ Len(DependsOnOf(k)) \in Nat
  OBVIOUS
<1> DEFINE i == CHOOSE i \in DOMAIN tasks : tasks[i].key = k
<1>1. i \in DOMAIN tasks /\ tasks[i].key = k
  BY DEF Keys
<1>2. tasks[i] \in Task
  BY <1>1
<1>3. DependsOnOf(k) = tasks[i].dependsOn
  BY DEF DependsOnOf
<1>4. DependsOnOf(k) \in Seq(TaskKey)
  BY <1>2, <1>3 DEF Task
<1> HIDE DEF i
<1> QED BY <1>1, <1>3, <1>4

\* A well-formed definition is a graph without loops of length one.
LEMMA DepsKnown ==
  ASSUME tasks \in Seq(Task), WellFormed
  PROVE  /\ \A k \in Keys : Deps(k) \subseteq Keys /\ k \notin Deps(k)
         /\ \A i \in DOMAIN tasks : tasks[i].key \in Keys
                                    /\ Deps(tasks[i].key) = ToSet(tasks[i].dependsOn)
<1>1. \A i \in DOMAIN tasks : tasks[i].key \in Keys
  BY DEF Keys
<1>2. \A i \in DOMAIN tasks : DependsOnOf(tasks[i].key) = tasks[i].dependsOn
  BY <1>1, DepsOfTask DEF WellFormed
<1>3. \A k \in Keys : \E i \in DOMAIN tasks : k = tasks[i].key
  BY DEF Keys
<1> QED BY <1>1, <1>2, <1>3 DEF Deps, WellFormed

\* What depends on the definition alone does not change.
LEMMA SameGraph ==
  ASSUME UNCHANGED tasks
  PROVE  /\ Keys' = Keys /\ WellFormed' = WellFormed /\ IsDag' = IsDag
         /\ \A k : Deps(k)' = Deps(k) /\ DependsOnOf(k)' = DependsOnOf(k)
<1>1. Keys' = Keys
  BY DEF Keys
<1> QED BY <1>1 DEF WellFormed, IsDag, Deps, DependsOnOf

\* No structural error: the definition is well-formed.
LEMMA NoErrors ==
  ASSUME tasks \in Seq(Task)
  PROVE  StructuralErrors = {} <=> WellFormed
<1> DEFINE keys == [i \in DOMAIN tasks |-> tasks[i].key]
<1>1. Len(tasks) \in Nat /\ DOMAIN tasks = 1 .. Len(tasks)
  OBVIOUS
<1>2. Repeated(keys) = {} <=>
        \A i, j \in DOMAIN tasks : tasks[i].key = tasks[j].key => i = j
  <2>1. ASSUME Repeated(keys) = {}, NEW i \in DOMAIN tasks, NEW j \in DOMAIN tasks,
               tasks[i].key = tasks[j].key, i # j
        PROVE  FALSE
    <3>1. i < j \/ j < i
      BY <1>1, <2>1
    <3>2. ASSUME NEW a \in DOMAIN tasks, NEW b \in DOMAIN tasks, a < b,
                 tasks[a].key = tasks[b].key
          PROVE  keys[b] \in Repeated(keys)
      <4>1. a \in 1 .. b - 1 /\ keys[a] = keys[b] /\ b \in DOMAIN keys
        BY <1>1, <3>2
      <4> HIDE DEF keys
      <4> QED BY <4>1 DEF Repeated
    <3> QED BY <2>1, <3>1, <3>2
  <2>2. ASSUME \A i, j \in DOMAIN tasks : tasks[i].key = tasks[j].key => i = j
        PROVE  Repeated(keys) = {}
    <3>1. \A b \in DOMAIN keys : \A a \in 1 .. b - 1 : keys[a] # keys[b]
      BY <1>1, <2>2
    <3> HIDE DEF keys
    <3> QED BY <3>1 DEF Repeated
  <2> QED BY <2>1, <2>2
<1>3. KeyErrors = {} <=> Repeated(keys) = {}
  BY DEF KeyErrors
<1>4. ASSUME NEW i \in DOMAIN tasks
      PROVE  EdgeErrors(tasks[i]) = {} <=>
               /\ Repeated(tasks[i].dependsOn) = {}
               /\ ToSet(tasks[i].dependsOn) \subseteq Keys
               /\ tasks[i].key \notin ToSet(tasks[i].dependsOn)
  BY DEF EdgeErrors
<1>5. StructuralErrors = {} <=>
        KeyErrors = {} /\ \A i \in DOMAIN tasks : EdgeErrors(tasks[i]) = {}
  BY DEF StructuralErrors
<1> HIDE DEF keys
<1> QED BY <1>2, <1>3, <1>4, <1>5 DEF WellFormed

\* A DAG is well-formed.
LEMMA DagWellFormed == ASSUME IsDag PROVE WellFormed
<1>1. ASSUME NEW i \in DOMAIN tasks PROVE tasks[i].key \notin ToSet(tasks[i].dependsOn)
  <2>1. {i} \in SUBSET DOMAIN tasks /\ {i} # {}
    OBVIOUS
  <2>2. \E a \in {i} : \A b \in {i} : tasks[b].key \notin ToSet(tasks[a].dependsOn)
    BY <2>1 DEF IsDag
  <2> QED BY <2>2
<1> QED BY <1>1 DEF IsDag, WellFormed

\* A well-formed definition is a DAG exactly if its keys are acyclic.
LEMMA DagAcyclic ==
  ASSUME tasks \in Seq(Task), WellFormed
  PROVE  IsDag <=> AcyclicOn(Keys)
<1>0. /\ \A k \in Keys : Deps(k) \subseteq Keys
      /\ \A i \in DOMAIN tasks : tasks[i].key \in Keys
                                 /\ Deps(tasks[i].key) = ToSet(tasks[i].dependsOn)
  BY DepsKnown
<1>1. ASSUME AcyclicOn(Keys), NEW S \in SUBSET DOMAIN tasks, S # {}
      PROVE  \E i \in S : \A j \in S : tasks[j].key \notin ToSet(tasks[i].dependsOn)
  <2> DEFINE K == {tasks[i].key : i \in S}
  <2>1. K \in SUBSET Keys /\ K # {}
    BY <1>0, <1>1
  <2>2. PICK k \in K : Deps(k) \cap K = {}
    BY <1>1, <2>1 DEF AcyclicOn
  <2> QED BY <1>0, <2>2
<1>2. ASSUME IsDag, NEW K \in SUBSET Keys, K # {}
      PROVE  \E k \in K : Deps(k) \cap K = {}
  <2> DEFINE S == {i \in DOMAIN tasks : tasks[i].key \in K}
  <2>1. S \in SUBSET DOMAIN tasks /\ S # {}
    BY <1>2 DEF Keys
  <2>2. PICK i \in S : \A j \in S : tasks[j].key \notin ToSet(tasks[i].dependsOn)
    BY <1>2, <2>1 DEF IsDag
  <2>3. \A k \in K : \E j \in S : k = tasks[j].key
    BY DEF Keys
  <2>4. Deps(tasks[i].key) \cap K = {}
    BY <1>0, <2>2, <2>3
  <2> QED BY <2>4
<1>3. AcyclicOn(Keys) => IsDag
  BY <1>1 DEF IsDag, WellFormed
<1>4. IsDag => AcyclicOn(Keys)
  BY <1>2 DEF AcyclicOn
<1> QED BY <1>3, <1>4

\* The definition is submitted.
LEMMA DagInitially == ASSUME DagInit PROVE DagInv
<1>1. DagTypeOK
  <2>1. tasks \in Seq(Task) /\ phase = "check"
    BY DefinitionAssumption DEF DagInit, Task
  <2>2. levels = <<>> /\ path = <<>> /\ black = {}
    BY DEF DagInit
  <2> QED BY <2>1, <2>2 DEF DagTypeOK
<1> QED BY <1>1 DEF DagInit, DagInv, CycleIsReal

\* How many dependencies a task waits for.
LEMMA WaitingCount ==
  ASSUME tasks \in Seq(Task), NEW k \in Keys
  PROVE  IsFiniteSet(Waiting(k)) /\ Cardinality(Waiting(k)) \in Nat
         /\ (Cardinality(Waiting(k)) = 0 <=> Deps(k) \subseteq Emitted)
<1>1. DOMAIN DependsOnOf(k) = 1 .. Len(DependsOnOf(k)) /\ Len(DependsOnOf(k)) \in Nat
  BY DepsOfTask
<1>2. IsFiniteSet(1 .. Len(DependsOnOf(k)))
  BY <1>1, FS_Interval
<1>3. IsFiniteSet(Waiting(k))
  <2>1. Waiting(k) \subseteq 1 .. Len(DependsOnOf(k))
    BY <1>1 DEF Waiting
  <2> QED BY <1>2, <2>1, FS_Subset
<1>4. Cardinality(Waiting(k)) \in Nat /\ (Cardinality(Waiting(k)) = 0 <=> Waiting(k) = {})
  BY <1>3, FS_CardinalityType, FS_EmptySet
<1>5. Waiting(k) = {} <=> Deps(k) \subseteq Emitted
  BY DEF Waiting, Deps, ToSet
<1> QED BY <1>3, <1>4, <1>5

\* The structural checks.
LEMMA CheckStructureOK == ASSUME DagInv, CheckStructure PROVE DagInv'
<1>0. /\ tasks \in Seq(Task) /\ tasks' = tasks /\ levels = <<>> /\ levels' = levels
      /\ path = <<>> /\ path' = path /\ black = {} /\ black' = black
      /\ cycle = <<>> /\ cycle' = cycle
  BY DEF DagInv, DagTypeOK, CheckStructure
<1>1. /\ Keys' = Keys /\ WellFormed' = WellFormed /\ IsDag' = IsDag
      /\ \A k : Deps(k)' = Deps(k) /\ DependsOnOf(k)' = DependsOnOf(k)
  BY <1>0, SameGraph
<1>2. phase' \in {"kahn", "invalid"}
  BY DEF CheckStructure
<1>3. DagTypeOK'
  BY <1>0, <1>1, <1>2 DEF DagInv, DagTypeOK
<1>4. CycleIsReal'
  BY <1>0 DEF CycleIsReal
<1>5. phase' = "invalid" => ~IsDag'
  BY <1>0, <1>1, NoErrors, DagWellFormed DEF CheckStructure
<1>6. ASSUME phase' = "kahn" PROVE KahnInv'
  <2>1. WellFormed
    BY <1>0, <1>6, NoErrors DEF CheckStructure
  <2>2. Emitted = {} /\ Emitted' = {} /\ Unprocessed' = Keys
    BY <1>0, <1>1 DEF Emitted, Unprocessed
  <2>3. \A k \in Keys : Waiting(k)' = DOMAIN DependsOnOf(k) /\ Waiting(k) = DOMAIN DependsOnOf(k)
    BY <1>1, <2>2 DEF Waiting
  <2>4. ASSUME NEW k \in Keys PROVE Len(DependsOnOf(k)) = Cardinality(Waiting(k)')
    <3>1. Waiting(k)' = 1 .. Len(DependsOnOf(k)) /\ Len(DependsOnOf(k)) \in Nat
      BY <1>0, <2>3, DepsOfTask
    <3>2. \A n \in Nat : Cardinality(1 .. n) = n
      BY FS_Interval
    <3> QED BY <3>1, <3>2
  <2>5. inDegree' = [k \in Keys |-> Cardinality(Waiting(k)')]
    BY <1>6, <2>4 DEF CheckStructure
  <2>6. \A k \in Keys : Len(DependsOnOf(k)) = 0 <=> Deps(k) \subseteq Emitted
    BY <1>0, <2>3, <2>4, WaitingCount
  <2>7. wave' = {k \in Unprocessed' : Deps(k)' \subseteq Emitted'}
    BY <1>1, <1>6, <2>2, <2>6 DEF CheckStructure
  <2>8. LevelsSoFar' /\ AcyclicOn(Emitted)'
    BY <1>0, <2>2 DEF LevelsSoFar, AcyclicOn
  <2> QED BY <1>0, <1>1, <2>1, <2>5, <2>7, <2>8 DEF KahnInv
<1> QED BY <1>0, <1>2, <1>3, <1>4, <1>5, <1>6 DEF DagInv

\* What is emitted when a wave joins the levels.
LEMMA EmittedGrows ==
  ASSUME DagTypeOK, levels' = Append(levels, wave), wave \subseteq Keys
  PROVE  Emitted' = Emitted \cup wave
<1>1. /\ Len(levels) \in Nat
      /\ DOMAIN levels = 1 .. Len(levels) /\ DOMAIN levels' = 1 .. Len(levels) + 1
      /\ \A n \in 1 .. Len(levels) : levels'[n] = levels[n]
      /\ levels'[Len(levels) + 1] = wave
  BY DEF DagTypeOK
<1>2. ASSUME NEW k \in Emitted' PROVE k \in Emitted \cup wave
  <2>1. PICK n \in 1 .. Len(levels) + 1 : k \in levels'[n]
    BY <1>1 DEF Emitted
  <2>2. n = Len(levels) + 1 \/ n \in 1 .. Len(levels)
    BY <1>1
  <2> QED BY <1>1, <2>1, <2>2 DEF Emitted
<1>3. ASSUME NEW k \in Emitted PROVE k \in Emitted'
  <2>1. PICK n \in 1 .. Len(levels) : k \in levels[n]
    BY <1>1 DEF Emitted
  <2>2. n \in DOMAIN levels' /\ k \in levels'[n]
    BY <1>1, <2>1
  <2> QED BY <2>2 DEF Emitted
<1>4. ASSUME NEW k \in wave PROVE k \in Emitted'
  <2>1. Len(levels) + 1 \in DOMAIN levels' /\ k \in levels'[Len(levels) + 1]
    BY <1>1
  <2> QED BY <2>1 DEF Emitted
<1> QED BY <1>2, <1>3, <1>4

\* The dependencies of what is emitted are emitted.
LEMMA EmittedClosed ==
  ASSUME DagTypeOK, KahnInv
  PROVE  Closed(Emitted) /\ wave \subseteq Keys /\ wave \cap Emitted = {}
         /\ \A k \in wave : Deps(k) \subseteq Emitted
<1>1. wave \subseteq Keys /\ wave \cap Emitted = {} /\ \A k \in wave : Deps(k) \subseteq Emitted
  BY DEF KahnInv, Unprocessed
<1>2. ASSUME NEW n \in DOMAIN levels, NEW k \in levels[n], NEW d \in Deps(k)
      PROVE  d \in Emitted
  <2>1. PICK m \in 1 .. n - 1 : d \in levels[m]
    BY <1>2 DEF KahnInv, LevelsSoFar
  <2>2. DOMAIN levels = 1 .. Len(levels) /\ Len(levels) \in Nat
    BY DEF DagTypeOK
  <2>3. m \in DOMAIN levels
    BY <2>1, <2>2
  <2> QED BY <2>1, <2>3 DEF Emitted
<1> QED BY <1>1, <1>2 DEF Closed, Emitted

\* What a wave does to the number of dependencies that c waits for.
LEMMA FewerToWaitFor ==
  ASSUME DagTypeOK, KahnInv, NEW c \in Keys,
         UNCHANGED tasks, Emitted' = Emitted \cup wave
  PROVE  /\ Decrements(c) \in Nat
         /\ Cardinality(Waiting(c)') = Cardinality(Waiting(c)) - Decrements(c)
         /\ Decrements(c) > 0 <=> Deps(c) \cap wave # {}
         /\ Cardinality(Waiting(c)') = 0 <=> Deps(c) \subseteq Emitted'
<1> DEFINE D == {j \in DOMAIN DependsOnOf(c) : DependsOnOf(c)[j] \in wave}
<1>1. DependsOnOf(c)' = DependsOnOf(c)
  BY SameGraph
<1>2. wave \cap Emitted = {}
  BY EmittedClosed
<1>3. Waiting(c)' = Waiting(c) \ D /\ D \subseteq Waiting(c)
  BY <1>1, <1>2 DEF Waiting
<1>4. IsFiniteSet(Waiting(c))
  BY WaitingCount DEF DagTypeOK
<1>5. IsFiniteSet(D) /\ Waiting(c) \cap D = D
  BY <1>3, <1>4, FS_Subset
<1>6. Cardinality(Waiting(c) \ D) = Cardinality(Waiting(c)) - Cardinality(D)
  BY <1>4, <1>5, FS_Difference
<1>7. Cardinality(D) \in Nat /\ (Cardinality(D) = 0 <=> D = {})
  BY <1>5, FS_CardinalityType, FS_EmptySet
<1>8. D = {} <=> Deps(c) \cap wave = {}
  BY DEF Deps, ToSet
<1>9. Decrements(c) = Cardinality(D)
  BY DEF Decrements
<1>10. Cardinality(Waiting(c)') = 0 <=> Waiting(c)' = {}
  BY <1>3, <1>4, FS_Subset, FS_EmptySet
<1>11. Waiting(c)' = {} <=> Deps(c) \subseteq Emitted'
  BY <1>1 DEF Waiting, Deps, ToSet
<1> HIDE DEF D
<1>12. Cardinality(D) > 0 <=> Deps(c) \cap wave # {}
  BY <1>7, <1>8
<1> QED BY <1>3, <1>6, <1>7, <1>9, <1>10, <1>11, <1>12

\* A wave of Kahn's algorithm.
LEMMA NextWaveOK == ASSUME DagInv, NextWave PROVE DagInv'
<1>0. /\ DagTypeOK /\ KahnInv /\ phase = "kahn" /\ phase' = phase
      /\ tasks' = tasks /\ path' = path /\ black' = black /\ cycle' = cycle
      /\ path = <<>> /\ black = {} /\ cycle = <<>>
      /\ levels' = Append(levels, wave)
  BY DEF DagInv, NextWave
<1>1. /\ Keys' = Keys /\ WellFormed' = WellFormed
      /\ \A k : Deps(k)' = Deps(k) /\ DependsOnOf(k)' = DependsOnOf(k)
  BY <1>0, SameGraph
<1>2. /\ Closed(Emitted) /\ wave \subseteq Keys /\ wave \cap Emitted = {}
      /\ \A k \in wave : Deps(k) \subseteq Emitted
  BY <1>0, EmittedClosed
<1>3. Emitted' = Emitted \cup wave
  BY <1>0, <1>2, EmittedGrows
<1>4. \A c \in Keys :
        /\ Decrements(c) \in Nat
        /\ Cardinality(Waiting(c)') = inDegree[c] - Decrements(c)
        /\ inDegree[c] = Cardinality(Waiting(c)) /\ inDegree[c] \in Nat
        /\ Decrements(c) > 0 <=> Deps(c) \cap wave # {}
  BY <1>0, <1>3, FewerToWaitFor, WaitingCount DEF KahnInv, DagTypeOK
<1>5. DagTypeOK'
  BY <1>0, <1>1, <1>2 DEF DagTypeOK
<1>6. WellFormed'
  BY <1>0, <1>1 DEF KahnInv
<1>7. inDegree' = [c \in Keys |-> Cardinality(Waiting(c)')]
  BY <1>4 DEF NextWave
<1>8. \A c \in Keys : Cardinality(Waiting(c)') = 0 <=> Deps(c) \subseteq Emitted'
  BY <1>0, <1>3, FewerToWaitFor
<1>9. wave' = {c \in Keys : Deps(c) \cap wave # {} /\ Deps(c) \subseteq Emitted'}
  BY <1>4, <1>8 DEF NextWave
<1>10. wave' = {c \in Unprocessed' : Deps(c)' \subseteq Emitted'}
  <2>1. ASSUME NEW c \in Keys, Deps(c) \cap wave # {} PROVE c \notin Emitted'
    BY <1>2, <1>3, <2>1 DEF Closed
  <2>2. ASSUME NEW c \in Keys, c \notin Emitted', Deps(c) \subseteq Emitted'
        PROVE  Deps(c) \cap wave # {}
    BY <1>0, <1>3, <2>2 DEF KahnInv, Unprocessed
  <2> QED BY <1>1, <1>9, <2>1, <2>2 DEF Unprocessed
<1>11. /\ Len(levels) \in Nat /\ Len(levels') = Len(levels) + 1
       /\ DOMAIN levels = 1 .. Len(levels) /\ DOMAIN levels' = 1 .. Len(levels) + 1
       /\ \A n \in 1 .. Len(levels) : levels'[n] = levels[n]
       /\ levels'[Len(levels) + 1] = wave
  BY <1>0 DEF DagTypeOK
<1>12. \A c \in wave' : Deps(c)' \cap levels'[Len(levels')] # {}
  BY <1>1, <1>9, <1>11
<1>13. LevelsSoFar'
  <2> SUFFICES ASSUME NEW n \in 1 .. Len(levels) + 1, NEW k \in levels'[n]
               PROVE  /\ \A m \in 1 .. Len(levels) + 1 : k \in levels'[m] => m = n
                      /\ \A d \in Deps(k) : \E m \in 1 .. n - 1 : d \in levels'[m]
                      /\ n > 1 => \E d \in Deps(k) : d \in levels'[n - 1]
    BY <1>1, <1>11 DEF LevelsSoFar
  <2>0. \A m \in 1 .. Len(levels) : levels[m] \subseteq Emitted
    BY <1>11 DEF Emitted
  <2>1. CASE n = Len(levels) + 1
    <3>1. k \in wave
      BY <1>11, <2>1
    <3>2. \A m \in 1 .. Len(levels) + 1 : m = n \/ m \in 1 .. Len(levels)
      BY <1>11, <2>1
    <3>3. \A m \in 1 .. Len(levels) : k \notin levels'[m]
      BY <1>2, <1>11, <2>0, <3>1
    <3>4. ASSUME NEW d \in Deps(k) PROVE \E m \in 1 .. n - 1 : d \in levels'[m]
      <4>1. d \in Emitted
        BY <1>2, <3>1
      <4>2. PICK m \in 1 .. Len(levels) : d \in levels[m]
        BY <1>11, <4>1 DEF Emitted
      <4>3. m \in 1 .. n - 1 /\ d \in levels'[m]
        BY <1>11, <2>1, <4>2
      <4> QED BY <4>3
    <3>5. ASSUME n > 1 PROVE \E d \in Deps(k) : d \in levels'[n - 1]
      <4>1. levels # <<>> /\ n - 1 = Len(levels) /\ Len(levels) \in 1 .. Len(levels)
        BY <1>11, <2>1, <3>5
      <4>2. Deps(k) \cap levels[Len(levels)] # {}
        BY <1>0, <3>1, <4>1 DEF KahnInv
      <4> QED BY <1>11, <4>1, <4>2
    <3> QED BY <3>2, <3>3, <3>4, <3>5
  <2>2. CASE n \in 1 .. Len(levels)
    <3>1. k \in levels[n]
      BY <1>11, <2>2
    <3>2. /\ \A m \in 1 .. Len(levels) : k \in levels[m] => m = n
          /\ \A d \in Deps(k) : \E m \in 1 .. n - 1 : d \in levels[m]
          /\ n > 1 => \E d \in Deps(k) : d \in levels[n - 1]
      BY <1>0, <1>11, <2>2, <3>1 DEF KahnInv, LevelsSoFar
    <3>3. k \notin wave
      BY <1>2, <2>0, <2>2, <3>1
    <3>4. \A m \in 1 .. Len(levels) + 1 : k \in levels'[m] => m = n
      <4>1. \A m \in 1 .. Len(levels) + 1 : m = Len(levels) + 1 \/ m \in 1 .. Len(levels)
        BY <1>11
      <4> QED BY <1>11, <3>2, <3>3, <4>1
    <3>5. \A m \in 1 .. n - 1 : m \in 1 .. Len(levels)
      BY <1>11, <2>2
    <3>6. n > 1 => n - 1 \in 1 .. Len(levels)
      BY <1>11, <2>2
    <3> QED BY <1>11, <3>2, <3>4, <3>5, <3>6
  <2> QED BY <1>11, <2>1, <2>2
<1>14. AcyclicOn(Emitted)'
  <2>1. AcyclicOn(Emitted \cup wave)
    BY <1>0, <1>2, AcyclicGrows DEF KahnInv
  <2> QED BY <1>1, <1>3, <2>1 DEF AcyclicOn
<1>15. KahnInv'
  BY <1>1, <1>6, <1>7, <1>10, <1>12, <1>13, <1>14 DEF KahnInv
<1>16. CycleIsReal'
  BY <1>0 DEF CycleIsReal
<1> QED BY <1>0, <1>5, <1>15, <1>16 DEF DagInv

\* A step that is none of Kahn's.
LEMMA KahnKept ==
  ASSUME KahnInv, UNCHANGED <<tasks, inDegree, wave, levels>>
  PROVE  KahnInv' /\ Unprocessed' = Unprocessed
<1>1. /\ Keys' = Keys /\ WellFormed' = WellFormed
      /\ \A k : Deps(k)' = Deps(k) /\ DependsOnOf(k)' = DependsOnOf(k)
  BY SameGraph
<1>2. Emitted' = Emitted /\ Unprocessed' = Unprocessed
  BY <1>1 DEF Emitted, Unprocessed
<1>3. \A k : Waiting(k)' = Waiting(k)
  BY <1>1, <1>2 DEF Waiting
<1>4. LevelsSoFar'
  BY <1>1 DEF LevelsSoFar, KahnInv
<1>5. AcyclicOn(Emitted)'
  BY <1>1, <1>2 DEF AcyclicOn, KahnInv
<1> QED BY <1>1, <1>2, <1>3, <1>4, <1>5 DEF KahnInv

\* Kahn's algorithm ends: all tasks are emitted, or some wait for each other.
LEMMA KahnEndsOK == ASSUME DagInv, KahnEnds PROVE DagInv'
<1>0. /\ DagTypeOK /\ KahnInv /\ wave = {} /\ wave' = wave
      /\ tasks' = tasks /\ levels' = levels /\ path' = path /\ black' = black
      /\ path = <<>> /\ black = {} /\ cycle = <<>> /\ cycle' = cycle
      /\ inDegree' = inDegree /\ phase' \in {"valid", "search"}
  BY DEF DagInv, KahnEnds
<1>1. Keys' = Keys /\ \A k : Deps(k)' = Deps(k)
  BY <1>0, SameGraph
<1>2. KahnInv' /\ Unprocessed' = Unprocessed
  BY <1>0, KahnKept
<1>3. DagTypeOK'
  BY <1>0, <1>1 DEF DagTypeOK
<1>4. CycleIsReal'
  BY <1>0 DEF CycleIsReal
<1>5. phase' = "valid" => Unprocessed = {}
  BY DEF KahnEnds
<1>6. ASSUME phase' = "search" PROVE SearchInv'
  <2>1. Unprocessed # {} /\ left' = [k \in Keys |-> Deps(k)]
    BY <1>6 DEF KahnEnds
  <2>2. \A k \in Keys : Deps(k) \subseteq Keys
    BY <1>0, DepsKnown DEF DagTypeOK, KahnInv
  <2>3. Closed(black)' /\ AcyclicOn(black)'
    BY <1>0 DEF Closed, AcyclicOn
  <2>4. PathOK'
    BY <1>0 DEF PathOK
  <2>5. LookedAt'
    BY <1>0, <1>1, <2>1, <2>2 DEF LookedAt
  <2> QED BY <1>0, <1>2, <2>1, <2>3, <2>4, <2>5 DEF SearchInv
<1> QED BY <1>0, <1>2, <1>3, <1>4, <1>5, <1>6 DEF DagInv

\* What Kahn leaves over is cyclic: each of its tasks waits for another.
LEMMA LeftoversWait ==
  ASSUME DagInv, phase = "search"
  PROVE  /\ \A k \in Unprocessed : Deps(k) \cap Unprocessed # {}
         /\ ~IsDag /\ ~(Unprocessed \subseteq black)
<1>1. DagTypeOK /\ KahnInv /\ SearchInv
  BY DEF DagInv
<1>2. \A k \in Keys : Deps(k) \subseteq Keys
  BY <1>1, DepsKnown DEF DagTypeOK, KahnInv
<1>3. ASSUME NEW k \in Unprocessed PROVE Deps(k) \cap Unprocessed # {}
  BY <1>1, <1>2 DEF KahnInv, SearchInv, Unprocessed
<1>4. ASSUME NEW B, AcyclicOn(B), Unprocessed \subseteq B PROVE FALSE
  <2>1. Unprocessed \in SUBSET B /\ Unprocessed # {}
    BY <1>1, <1>4 DEF SearchInv
  <2> QED BY <1>3, <1>4, <2>1 DEF AcyclicOn
<1>5. ~IsDag
  <2>1. Unprocessed \subseteq Keys
    BY DEF Unprocessed
  <2> QED BY <1>1, <1>4, <2>1, DagAcyclic DEF DagTypeOK, KahnInv
<1> QED BY <1>1, <1>3, <1>4, <1>5 DEF SearchInv

\* A candidate is taken up.
LEMMA VisitOK == ASSUME DagInv, NEW k \in Keys, Visit(k) PROVE DagInv'
<1>0. /\ DagTypeOK /\ KahnInv /\ SearchInv /\ phase = "search" /\ phase' = phase
      /\ UNCHANGED <<tasks, inDegree, wave, levels, black, left, cycle>>
      /\ path = <<>> /\ path' = <<k>> /\ k \notin black /\ cycle = <<>>
  BY DEF DagInv, Visit
<1>1. Keys' = Keys /\ \A d : Deps(d)' = Deps(d)
  BY <1>0, SameGraph
<1>2. KahnInv' /\ Unprocessed' = Unprocessed
  BY <1>0, KahnKept
<1>3. DagTypeOK'
  BY <1>0, <1>1 DEF DagTypeOK
<1>4. CycleIsReal'
  BY <1>0 DEF CycleIsReal
<1>5. Closed(black)' /\ AcyclicOn(black)'
  BY <1>0, <1>1 DEF Closed, AcyclicOn, SearchInv
<1>6. DOMAIN path = {} /\ DOMAIN path' = {1} /\ path'[1] = k /\ Len(path') = 1
  BY <1>0
<1>7. PathOK'
  BY <1>0, <1>6 DEF PathOK
<1>8. left[k] = Deps(k)
  BY <1>0, <1>6 DEF SearchInv, LookedAt
<1>9. LookedAt'
  BY <1>0, <1>1, <1>6, <1>8 DEF SearchInv, LookedAt
<1>10. SearchInv'
  BY <1>0, <1>2, <1>5, <1>7, <1>9 DEF SearchInv
<1> QED BY <1>0, <1>2, <1>3, <1>4, <1>10 DEF DagInv

\* The task on top of the path.
LEMMA TopOfPath ==
  ASSUME path \in Seq(Keys), path # <<>>
  PROVE  /\ Len(path) \in Nat /\ Len(path) # 0 /\ DOMAIN path = 1 .. Len(path)
         /\ Len(path) \in DOMAIN path /\ Top = path[Len(path)] /\ Top \in Keys
<1>1. Len(path) \in Nat /\ Len(path) # 0 /\ DOMAIN path = 1 .. Len(path)
  OBVIOUS
<1>2. Len(path) \in DOMAIN path
  BY <1>1
<1> QED BY <1>1, <1>2 DEF Top

\* The places of a path of n tasks: below its last one, and with one more.
LEMMA PathPlaces ==
  \A n \in Nat :
    /\ \A i \in 1 .. n : i # n =>
         i \in Nat /\ 1 <= i /\ i < n /\ i \in 1 .. n - 1 /\ i + 1 \in 1 .. n
    /\ \A i \in 1 .. n - 1 :
         i \in 1 .. n /\ i # n /\ (i + 1 = n \/ (i < n - 1 /\ i + 1 \in 1 .. n - 1))
    /\ \A i \in 1 .. n + 1 : i = n + 1 \/ i \in 1 .. n
    /\ \A i \in 1 .. n : i = n \/ i \in 1 .. n - 1
OBVIOUS

\* A task is left: all its dependencies are BLACK, and so is it now.
LEMMA LeaveOK == ASSUME DagInv, Leave PROVE DagInv'
<1>0. /\ DagTypeOK /\ KahnInv /\ SearchInv /\ phase = "search" /\ phase' = phase
      /\ UNCHANGED <<tasks, inDegree, wave, levels, left, cycle>>
      /\ path # <<>> /\ path' = Front(path) /\ black' = black \cup {Top}
      /\ left[Top] = {} /\ cycle = <<>>
  BY DEF DagInv, Leave
<1>1. Keys' = Keys /\ \A d : Deps(d)' = Deps(d)
  BY <1>0, SameGraph
<1>2. KahnInv' /\ Unprocessed' = Unprocessed
  BY <1>0, KahnKept
<1>3. /\ path \in Seq(Keys) /\ Len(path) \in Nat /\ Len(path) # 0
      /\ DOMAIN path = 1 .. Len(path)
      /\ Len(path) \in DOMAIN path /\ Top = path[Len(path)] /\ Top \in Keys
  BY <1>0, TopOfPath DEF DagTypeOK
<1>4. /\ path' \in Seq(Keys) /\ Len(path') = Len(path) - 1
      /\ DOMAIN path' = 1 .. Len(path) - 1
      /\ \A i \in 1 .. Len(path) - 1 : path'[i] = path[i]
  BY <1>0, <1>3 DEF Front
<1>5. \A i \in 1 .. Len(path) - 1 : i \in DOMAIN path /\ i # Len(path)
  BY <1>3, PathPlaces, Zenon
<1>6. DagTypeOK'
  BY <1>0, <1>1, <1>3, <1>4 DEF DagTypeOK
<1>7. Deps(Top) \subseteq black
  BY <1>0, <1>3 DEF SearchInv, LookedAt
<1>8. Top \notin black
  BY <1>0, <1>3 DEF SearchInv, PathOK
<1>9. Closed(black)' /\ AcyclicOn(black)'
  <2>1. Closed(black \cup {Top}) /\ AcyclicOn(black \cup {Top})
    BY <1>0, <1>7, <1>8, AcyclicGrows DEF SearchInv
  <2> QED BY <1>0, <1>1, <2>1 DEF Closed, AcyclicOn
<1>10. PathOK'
  <2>1. \A i, j \in DOMAIN path' : path'[i] = path'[j] => i = j
    BY <1>0, <1>4, <1>5 DEF SearchInv, PathOK
  <2>2. \A i \in DOMAIN path' : path'[i] \notin black'
    BY <1>0, <1>3, <1>4, <1>5 DEF SearchInv, PathOK
  <2>3. \A i \in 1 .. Len(path') - 1 : (path[i + 1] \in Deps(path[i]))'
    <3> SUFFICES ASSUME NEW i \in 1 .. Len(path') - 1 PROVE path'[i + 1] \in Deps(path'[i])
      BY <1>1
    <3>1. i \in 1 .. Len(path) - 1 /\ i + 1 \in 1 .. Len(path) - 1
      BY <1>3, <1>4
    <3> QED BY <1>0, <1>4, <3>1 DEF SearchInv, PathOK
  <2> QED BY <2>1, <2>2, <2>3 DEF PathOK
<1>11. LookedAt'
  <2>1. /\ left \in [Keys -> SUBSET Keys]
        /\ \A k \in Keys : left[k] \subseteq Deps(k)
        /\ \A k \in Keys \ black : (\A i \in DOMAIN path : path[i] # k) => left[k] = Deps(k)
        /\ \A i \in DOMAIN path : \A d \in Deps(path[i]) \ left[path[i]] :
             d \in black \/ (i < Len(path) /\ d = path[i + 1])
    BY <1>0 DEF SearchInv, LookedAt
  <2>2. ASSUME NEW k \in Keys \ black', \A i \in DOMAIN path' : path'[i] # k
        PROVE  left[k] = Deps(k)
    <3>1. \A i \in DOMAIN path : i = Len(path) \/ i \in 1 .. Len(path) - 1
      BY <1>3, PathPlaces, Zenon
    <3>2. \A i \in DOMAIN path : path[i] # k
      BY <1>0, <1>3, <1>4, <2>2, <3>1
    <3> QED BY <1>0, <2>1, <2>2, <3>2
  <2>3. ASSUME NEW i \in 1 .. Len(path) - 1, NEW d \in Deps(path[i]) \ left[path[i]]
        PROVE  d \in black' \/ (i < Len(path) - 1 /\ d = path'[i + 1])
    <3>1. d \in black \/ d = path[i + 1]
      BY <1>5, <2>1, <2>3
    <3>2. i + 1 = Len(path) \/ (i < Len(path) - 1 /\ i + 1 \in 1 .. Len(path) - 1)
      BY <1>3, PathPlaces, Zenon
    <3> QED BY <1>0, <1>3, <1>4, <3>1, <3>2
  <2> QED BY <1>0, <1>1, <1>4, <2>1, <2>2, <2>3 DEF LookedAt
<1>12. SearchInv'
  BY <1>0, <1>2, <1>9, <1>10, <1>11 DEF SearchInv
<1>13. CycleIsReal'
  BY <1>0 DEF CycleIsReal
<1> QED BY <1>0, <1>2, <1>6, <1>12, <1>13 DEF DagInv

\* The end of a path from its place m on, closed and reversed.
LEMMA ClosedPath ==
  ASSUME NEW K, NEW p \in Seq(K), NEW m \in 1 .. Len(p),
         NEW c, c = Reverse(Append(SubSeq(p, m, Len(p)), p[m]))
  PROVE  /\ Len(c) = Len(p) - m + 2
         /\ c[1] = p[m]
         /\ \A i \in 2 .. Len(p) - m + 2 : c[i] = p[Len(p) + 2 - i]
<1> DEFINE s == SubSeq(p, m, Len(p))
           a == Append(s, p[m])
<1>0. Len(p) \in Nat /\ m \in Nat /\ m >= 1 /\ m <= Len(p) /\ p[m] \in K
  OBVIOUS
<1>1. /\ s \in Seq(K) /\ Len(s) = Len(p) - m + 1
      /\ \A i \in 1 .. Len(p) - m + 1 : s[i] = p[m + i - 1]
  BY <1>0
<1> HIDE DEF s
<1>2. /\ a \in Seq(K) /\ Len(a) = Len(p) - m + 2
      /\ \A i \in 1 .. Len(p) - m + 1 : a[i] = s[i]
      /\ a[Len(p) - m + 2] = p[m]
  <2>1. /\ a \in Seq(K) /\ Len(a) = Len(s) + 1 /\ a[Len(s) + 1] = p[m]
        /\ \A i \in 1 .. Len(s) : a[i] = s[i]
    <3>1. s \in Seq(K) /\ p[m] \in K
      BY <1>0, <1>1
    <3>2. \A q \in Seq(K), e \in K :
            /\ Append(q, e) \in Seq(K) /\ Len(Append(q, e)) = Len(q) + 1
            /\ Append(q, e)[Len(q) + 1] = e
            /\ \A i \in 1 .. Len(q) : Append(q, e)[i] = q[i]
      BY OneMore
    <3> QED BY <3>1, <3>2, Zenon
  <2> HIDE DEF a
  <2>2. Len(s) + 1 = Len(p) - m + 2
    BY <1>0, <1>1
  <2> QED BY <1>1, <2>1, <2>2
<1>3. c = Reverse(a)
  BY DEF s
<1> HIDE DEF a
<1>4. c = [i \in 1 .. Len(p) - m + 2 |-> a[(Len(p) - m + 2 - i) + 1]]
  <2>1. c = [i \in 1 .. Len(a) |-> a[(Len(a) - i) + 1]]
    BY <1>3, Zenon DEF Reverse
  <2>2. Len(a) = Len(p) - m + 2
    BY <1>2
  <2> QED BY <2>1, <2>2
<1>5. Len(c) = Len(p) - m + 2
  BY <1>0, <1>4
<1>6. c[1] = p[m]
  BY <1>0, <1>2, <1>4
<1>7. ASSUME NEW i \in 2 .. Len(p) - m + 2 PROVE c[i] = p[Len(p) + 2 - i]
  <2> DEFINE j == (Len(p) - m + 2 - i) + 1
  <2>1. i \in 1 .. Len(p) - m + 2 /\ j \in 1 .. Len(p) - m + 1 /\ m + j - 1 = Len(p) + 2 - i
    BY <1>0, <1>7
  <2>2. c[i] = a[j] /\ a[j] = s[j] /\ s[j] = p[m + j - 1]
    BY <1>1, <1>2, <1>4, <2>1
  <2> QED BY <2>1, <2>2
<1> QED BY <1>5, <1>6, <1>7

\* The cycle that is named is one.
LEMMA NamedCycle ==
  ASSUME DagInv, phase = "search", path # <<>>, NEW d \in Deps(Top), d \in ToSet(path),
         UNCHANGED tasks, cycle' = CycleFrom(d)
  PROVE  CycleIsReal'
<1>0. /\ DagTypeOK /\ KahnInv /\ PathOK /\ path \in Seq(Keys)
  BY DEF DagInv, SearchInv, DagTypeOK
<1>1. /\ Len(path) \in Nat /\ DOMAIN path = 1 .. Len(path)
      /\ Len(path) \in DOMAIN path /\ Top = path[Len(path)] /\ Top \in Keys
  BY <1>0, TopOfPath
<1> DEFINE m == CHOOSE i \in DOMAIN path : path[i] = d
<1>2. m \in 1 .. Len(path) /\ path[m] = d
  BY <1>1 DEF ToSet
<1>3. cycle' = Reverse(Append(SubSeq(path, m, Len(path)), path[m]))
  BY <1>2 DEF CycleFrom
<1> HIDE DEF m
<1>4. /\ Len(cycle') = Len(path) - m + 2
      /\ cycle'[1] = path[m]
      /\ \A i \in 2 .. Len(path) - m + 2 : cycle'[i] = path[Len(path) + 2 - i]
  BY <1>0, <1>2, <1>3, ClosedPath
<1>5. m # Len(path)
  BY <1>0, <1>1, <1>2, DepsKnown DEF DagTypeOK, KahnInv
<1>6. m < Len(path) /\ m >= 1 /\ m \in Nat
  BY <1>1, <1>2, <1>5, PathPlaces
<1>7. Len(cycle') > 2 /\ cycle'[1] = cycle'[Len(cycle')]
  <2>1. Len(path) - m + 2 \in 2 .. Len(path) - m + 2 /\ Len(path) + 2 - (Len(path) - m + 2) = m
    BY <1>1, <1>6
  <2>2. cycle'[Len(path) - m + 2] = path[m]
    BY <1>4, <2>1
  <2>3. Len(path) - m + 2 > 2
    BY <1>1, <1>6
  <2> QED BY <1>4, <2>2, <2>3
\* the place on the path of the i-th task of the cycle
<1> DEFINE at(i) == IF i = 1 THEN m ELSE Len(path) + 2 - i
<1>8. \A i \in 1 .. Len(cycle') - 1 : at(i) \in DOMAIN path /\ cycle'[i] = path[at(i)]
  <2>1. ASSUME NEW i \in 1 .. Len(path) - m + 1
        PROVE  at(i) \in 1 .. Len(path) /\ (i = 1 \/ i \in 2 .. Len(path) - m + 2)
    BY <1>1, <1>6
  <2>2. Len(cycle') - 1 = Len(path) - m + 1
    BY <1>1, <1>4, <1>6
  <2> QED BY <1>1, <1>4, <2>1, <2>2
<1>9. \A i, j \in 1 .. Len(cycle') - 1 : at(i) = at(j) => i = j
  BY <1>1, <1>4, <1>6
<1>10. \A i, j \in 1 .. Len(cycle') - 1 : cycle'[i] = cycle'[j] => i = j
  <2> HIDE DEF at
  <2> QED BY <1>0, <1>8, <1>9 DEF PathOK
<1>11. ASSUME NEW i \in 1 .. Len(cycle') - 1 PROVE cycle'[i] \in Deps(cycle'[i + 1])
  <2>1. CASE i = 1
    <3>1. 2 \in 2 .. Len(path) - m + 2 /\ Len(path) + 2 - 2 = Len(path)
      BY <1>1, <1>6
    <3>2. cycle'[2] = path[Len(path)]
      BY <1>4, <3>1
    <3> QED BY <1>1, <1>2, <1>4, <2>1, <3>2
  <2>2. CASE i # 1
    <3>1. /\ i \in 2 .. Len(path) - m + 2 /\ i + 1 \in 2 .. Len(path) - m + 2
          /\ Len(path) + 2 - (i + 1) \in 1 .. Len(path) - 1
          /\ Len(path) + 2 - i = Len(path) + 2 - (i + 1) + 1
      BY <1>1, <1>4, <1>6, <1>11, <2>2
    <3>2. path[Len(path) + 2 - (i + 1) + 1] \in Deps(path[Len(path) + 2 - (i + 1)])
      BY <1>0, <3>1 DEF PathOK
    <3> QED BY <1>4, <3>1, <3>2
  <2> QED BY <2>1, <2>2
<1>12. \A k : Deps(k)' = Deps(k)
  BY SameGraph
<1> HIDE DEF at
<1> QED BY <1>7, <1>10, <1>11, <1>12 DEF CycleIsReal

\* A dependency of the task on top is looked at.
LEMMA LookAtOK == ASSUME DagInv, NEW d \in Keys, LookAt(d) PROVE DagInv'
<1>0. /\ DagTypeOK /\ KahnInv /\ SearchInv /\ phase = "search"
      /\ UNCHANGED <<tasks, inDegree, wave, levels, black>>
      /\ path # <<>> /\ d \in left[Top] /\ cycle = <<>>
      /\ left' = [left EXCEPT ![Top] = @ \ {d}]
  BY DEF DagInv, LookAt
<1>1. Keys' = Keys /\ IsDag' = IsDag /\ \A k : Deps(k)' = Deps(k)
  BY <1>0, SameGraph
<1>2. KahnInv' /\ Unprocessed' = Unprocessed
  BY <1>0, KahnKept
<1>3. /\ path \in Seq(Keys) /\ Len(path) \in Nat /\ DOMAIN path = 1 .. Len(path)
      /\ Len(path) \in DOMAIN path /\ Top = path[Len(path)] /\ Top \in Keys
  BY <1>0, TopOfPath DEF DagTypeOK
<1>4. /\ left \in [Keys -> SUBSET Keys]
      /\ \A k \in Keys : left[k] \subseteq Deps(k)
      /\ \A k \in Keys \ black : (\A i \in DOMAIN path : path[i] # k) => left[k] = Deps(k)
      /\ \A i \in DOMAIN path : \A e \in Deps(path[i]) \ left[path[i]] :
           e \in black \/ (i < Len(path) /\ e = path[i + 1])
  BY <1>0 DEF SearchInv, LookedAt
<1>5. d \in Deps(Top)
  BY <1>0, <1>3, <1>4
<1>6. CASE d \in ToSet(path)
  <2>1. phase' = "invalid" /\ cycle' = CycleFrom(d) /\ path' = path
    BY <1>6 DEF LookAt
  <2>2. ~IsDag'
    BY <1>0, <1>1, LeftoversWait
  <2>3. CycleIsReal'
    BY <1>0, <1>5, <1>6, <2>1, NamedCycle
  <2>4. DagTypeOK'
    BY <1>0, <1>1, <2>1 DEF DagTypeOK
  <2> QED BY <2>1, <2>2, <2>3, <2>4 DEF DagInv
<1>7. CASE d \notin ToSet(path)
  <2>0. phase' = phase /\ cycle' = cycle
        /\ path' = IF d \in black THEN path ELSE Append(path, d)
    BY <1>7 DEF LookAt
  <2>1. \A i \in DOMAIN path : path[i] # d
    BY <1>7 DEF ToSet
  <2>2. Closed(black)' /\ AcyclicOn(black)'
    BY <1>0, <1>1 DEF Closed, AcyclicOn, SearchInv
  <2>3. CycleIsReal'
    BY <1>0, <2>0 DEF CycleIsReal
  <2>4. /\ left' \in [Keys -> SUBSET Keys]
        /\ left'[Top] = left[Top] \ {d}
        /\ \A k \in Keys : k # Top => left'[k] = left[k]
        /\ \A k \in Keys : left'[k] \subseteq Deps(k)
    BY <1>0, <1>3, <1>4
  <2>5. DagTypeOK' /\ PathOK' /\ LookedAt'
    <3>1. CASE d \in black
      <4>1. path' = path
        BY <2>0, <3>1
      <4>2. DagTypeOK' /\ PathOK'
        BY <1>0, <1>1, <2>0, <4>1 DEF DagTypeOK, PathOK, SearchInv
      <4>3. ASSUME NEW k \in Keys \ black, \A i \in DOMAIN path : path[i] # k
            PROVE  left'[k] = Deps(k)
        BY <1>3, <1>4, <2>4, <4>3
      <4>4. ASSUME NEW i \in DOMAIN path, NEW e \in Deps(path[i]) \ left'[path[i]]
            PROVE  e \in black \/ (i < Len(path) /\ e = path[i + 1])
        <5>1. path[i] \in Keys
          BY <1>3
        <5>2. e = d \/ e \in Deps(path[i]) \ left[path[i]]
          BY <2>4, <4>4, <5>1
        <5> QED BY <1>4, <3>1, <5>2
      <4> QED BY <1>0, <1>1, <2>4, <4>1, <4>2, <4>3, <4>4 DEF LookedAt
    <3>2. CASE d \notin black
      <4>1. /\ path' \in Seq(Keys) /\ Len(path') = Len(path) + 1
            /\ DOMAIN path' = 1 .. Len(path) + 1
            /\ \A i \in 1 .. Len(path) : path'[i] = path[i]
            /\ path'[Len(path) + 1] = d
        BY <1>3, <2>0, <3>2
      <4>2. DagTypeOK'
        BY <1>0, <1>1, <2>0, <4>1 DEF DagTypeOK
      <4>3. \A i \in 1 .. Len(path) + 1 : i = Len(path) + 1 \/ i \in 1 .. Len(path)
        BY <1>3, PathPlaces, Zenon
      <4>4. PathOK'
        <5>1. \A i, j \in DOMAIN path' : path'[i] = path'[j] => i = j
          BY <1>0, <1>3, <2>1, <4>1, <4>3 DEF SearchInv, PathOK
        <5>2. \A i \in DOMAIN path' : path'[i] \notin black
          BY <1>0, <1>3, <3>2, <4>1, <4>3 DEF SearchInv, PathOK
        <5>3. ASSUME NEW i \in 1 .. Len(path) PROVE path'[i + 1] \in Deps(path'[i])
          <6>1. CASE i = Len(path)
            BY <1>3, <1>5, <4>1, <6>1
          <6>2. CASE i # Len(path)
            <7>1. i \in 1 .. Len(path) - 1 /\ i + 1 \in 1 .. Len(path)
              BY <1>3, <6>2, PathPlaces, Zenon
            <7> QED BY <1>0, <4>1, <7>1 DEF SearchInv, PathOK
          <6> QED BY <6>1, <6>2
        <5>4. Len(path') - 1 = Len(path)
          BY <1>3, <4>1
        <5> QED BY <1>0, <1>1, <5>1, <5>2, <5>3, <5>4 DEF PathOK
      <4>5. ASSUME NEW k \in Keys \ black, \A i \in DOMAIN path' : path'[i] # k
            PROVE  left'[k] = Deps(k)
        <5>1. \A i \in DOMAIN path : i \in DOMAIN path' /\ path[i] # k
          BY <1>3, <4>1, <4>5
        <5> QED BY <1>3, <1>4, <2>4, <5>1
      <4>6. ASSUME NEW i \in 1 .. Len(path) + 1, NEW e \in Deps(path'[i]) \ left'[path'[i]]
            PROVE  e \in black \/ (i < Len(path) + 1 /\ e = path'[i + 1])
        <5>1. CASE i = Len(path) + 1
          <6>1. path'[i] = d /\ d # Top
            BY <1>3, <2>1, <4>1, <5>1
          <6>2. left'[d] = Deps(d)
            BY <1>4, <2>1, <2>4, <3>2, <6>1
          <6> QED BY <4>6, <6>1, <6>2
        <5>2. CASE i = Len(path)
          <6>1. path'[i] = Top /\ path'[i + 1] = d /\ i < Len(path) + 1
            BY <1>3, <4>1, <5>2
          <6>2. e = d \/ e \in Deps(Top) \ left[Top]
            BY <2>4, <4>6, <6>1
          <6>3. e = d \/ e \in black
            BY <1>3, <1>4, <6>2
          <6> QED BY <6>1, <6>3
        <5>3. CASE i \in 1 .. Len(path) - 1
          <6>1. /\ i \in DOMAIN path /\ i + 1 \in 1 .. Len(path) /\ i < Len(path) + 1
                /\ i # Len(path)
            BY <1>3, <5>3
          <6>2. path'[i] = path[i] /\ path'[i + 1] = path[i + 1] /\ path[i] \in Keys
            BY <1>3, <4>1, <6>1
          <6>3. path[i] # Top
            BY <1>0, <1>3, <6>1 DEF SearchInv, PathOK
          <6>4. e \in Deps(path[i]) \ left[path[i]]
            BY <2>4, <4>6, <6>2, <6>3
          <6> QED BY <1>4, <6>1, <6>2, <6>4
        <5>4. i = Len(path) + 1 \/ i = Len(path) \/ i \in 1 .. Len(path) - 1
          BY <1>3, PathPlaces, Zenon
        <5> QED BY <5>1, <5>2, <5>3, <5>4
      <4> QED BY <1>0, <1>1, <2>4, <4>1, <4>2, <4>4, <4>5, <4>6 DEF LookedAt
    <3> QED BY <3>1, <3>2
  <2>6. SearchInv'
    BY <1>0, <1>2, <2>2, <2>5 DEF SearchInv
  <2> QED BY <1>0, <1>2, <2>0, <2>3, <2>5, <2>6 DEF DagInv
<1> QED BY <1>6, <1>7

\* Every step of validateDag keeps the invariant.
LEMMA DagStep == ASSUME DagInv, [DagNext]_dagVars PROVE DagInv'
<1>1. CASE CheckStructure
  BY <1>1, CheckStructureOK
<1>2. CASE NextWave
  BY <1>2, NextWaveOK
<1>3. CASE KahnEnds
  BY <1>3, KahnEndsOK
<1>4. CASE \E k \in Keys : Visit(k) \/ LookAt(k)
  BY <1>4, VisitOK, LookAtOK
<1>5. CASE Leave
  BY <1>5, LeaveOK
<1>6. CASE UNCHANGED dagVars
  <2>1. UNCHANGED <<tasks, phase, inDegree, wave, levels, path, black, left, cycle>>
    BY <1>6 DEF dagVars
  <2>2. /\ Keys' = Keys /\ IsDag' = IsDag /\ \A k : Deps(k)' = Deps(k)
    BY <2>1, SameGraph
  <2>3. KahnInv => KahnInv' /\ Unprocessed' = Unprocessed
    BY <2>1, KahnKept
  <2>4. Unprocessed' = Unprocessed
    BY <2>1, <2>2 DEF Unprocessed, Emitted
  <2>5. SearchInv => SearchInv'
    BY <2>1, <2>2, <2>4 DEF SearchInv, Closed, AcyclicOn, PathOK, LookedAt
  <2>6. DagTypeOK' /\ CycleIsReal'
    BY <2>1, <2>2 DEF DagInv, DagTypeOK, CycleIsReal
  <2> QED BY <2>1, <2>2, <2>3, <2>4, <2>5, <2>6 DEF DagInv
<1> QED BY <1>1, <1>2, <1>3, <1>4, <1>5, <1>6 DEF DagNext

\* The invariant says that what validateDag reports is right.
LEMMA DagInvRight == ASSUME DagInv PROVE ValidationRight
<1>1. ASSUME phase = "valid" PROVE IsDag /\ Emitted = Keys /\ LevelsSoFar
  <2>1. DagTypeOK /\ KahnInv /\ Unprocessed = {}
    BY <1>1 DEF DagInv
  <2>2. Emitted \subseteq Keys
    BY <2>1 DEF DagTypeOK, Emitted
  <2>3. Emitted = Keys
    BY <2>1, <2>2 DEF Unprocessed
  <2> QED BY <2>1, <2>3, DagAcyclic DEF KahnInv, DagTypeOK
<1>2. VerdictRight
  BY <1>1 DEF VerdictRight, DagInv
<1>3. LevelsAreEarliest
  BY <1>1 DEF LevelsAreEarliest, LevelsSoFar
<1>4. SearchGoesOn
  BY LeftoversWait DEF SearchGoesOn
<1> QED BY <1>2, <1>3, <1>4 DEF ValidationRight, DagInv

\* What validateDag says is true of every definition, of any size: it accepts
\* exactly the DAGs, with the levels of a topological order of least depth,
\* and names a real cycle of any other well-formed one; findCycle never comes
\* to its fallback (dag.js:35-106,128-216).
THEOREM ValidationRightTheorem == DagSpec => []ValidationRight
<1>1. DagInit => DagInv
  BY DagInitially
<1>2. DagInv /\ [DagNext]_dagVars => DagInv'
  BY DagStep
<1>3. DagInv => ValidationRight
  BY DagInvRight
<1> QED BY <1>1, <1>2, <1>3, PTL DEF DagSpec

\* A sequence without repetitions has as many elements as places.
LEMMA UnrepeatedCount ==
  ASSUME NEW T, NEW s \in Seq(T), \A i, j \in DOMAIN s : s[i] = s[j] => i = j
  PROVE  IsFiniteSet(ToSet(s)) /\ Cardinality(ToSet(s)) = Len(s)
<1>1. Len(s) \in Nat /\ DOMAIN s = 1 .. Len(s) /\ s = [i \in 1 .. Len(s) |-> s[i]]
  OBVIOUS
<1>2. ToSet(s) = {s[i] : i \in 1 .. Len(s)}
  BY <1>1 DEF ToSet
<1>3. s \in [1 .. Len(s) -> ToSet(s)]
  BY <1>1, <1>2
<1>4. s \in Bijection(1 .. Len(s), ToSet(s))
  <2>1. \A e \in ToSet(s) : \E i \in 1 .. Len(s) : s[i] = e
    BY <1>2
  <2> QED BY <1>1, <1>3, <2>1 DEF Bijection, Injection, Surjection, IsInjective
<1>5. IsFiniteSet(1 .. Len(s)) /\ Cardinality(1 .. Len(s)) = Len(s)
  <2>1. \A n \in Nat : IsFiniteSet(1 .. n) /\ Cardinality(1 .. n) = n
    BY FS_Interval
  <2> QED BY <1>1, <2>1
<1>6. ExistsBijection(1 .. Len(s), ToSet(s))
  BY <1>4 DEF ExistsBijection
<1> QED BY <1>5, <1>6, FS_Bijection

\* The graph of a definition, as the engine takes it.
Graph == [k \in Keys |-> Deps(k)]

\* TaskAssumption and DagAssumption of Engine, of the tasks Keys and the
\* dependencies Graph; and the lengths that startExecution counts with
\* (engine.js:382,400) are the cardinalities of Engine's Init.
FitsEngine ==
  /\ IsFiniteSet(Keys) /\ (tasks # <<>> => Keys # {})
  /\ Graph \in [Keys -> SUBSET Keys]
  /\ \A S \in SUBSET Keys : S # {} => \E k \in S : Graph[k] \cap S = {}
  /\ Len(tasks) = Cardinality(Keys)
  /\ \A k \in Keys : Len(DependsOnOf(k)) = Cardinality(Graph[k])

\* What validateDag accepts is what the theorems about Engine assume: a finite
\* acyclic graph, whose dependency lists are as long as the sets they name, so
\* that remainingDeps and pendingTasks start out right.
THEOREM AcceptedFitsEngine == DagSpec => [](phase = "valid" => FitsEngine)
<1>1. ASSUME DagInv, phase = "valid" PROVE FitsEngine
  <2>1. tasks \in Seq(Task) /\ WellFormed /\ IsDag
    BY <1>1, DagInvRight DEF DagInv, DagTypeOK, KahnInv, ValidationRight, VerdictRight
  <2>2. Len(tasks) \in Nat /\ DOMAIN tasks = 1 .. Len(tasks)
    BY <2>1
  <2>3. \A i \in DOMAIN tasks : tasks[i].key \in TaskKey
    <3>1. \A i \in DOMAIN tasks : tasks[i] \in Task
      BY <2>1
    <3> QED BY <3>1 DEF Task
  <2>4. Len(tasks) = Cardinality(Keys) /\ IsFiniteSet(Keys)
    <3> DEFINE keys == [i \in 1 .. Len(tasks) |-> tasks[i].key]
    <3>1. keys \in Seq(TaskKey) /\ Len(keys) = Len(tasks) /\ DOMAIN keys = DOMAIN tasks
      BY <2>2, <2>3
    <3>2. ToSet(keys) = Keys
      BY <2>2 DEF ToSet, Keys
    <3>3. \A i, j \in DOMAIN keys : keys[i] = keys[j] => i = j
      BY <2>1, <2>2 DEF WellFormed
    <3> HIDE DEF keys
    <3> QED BY <3>1, <3>2, <3>3, UnrepeatedCount
  <2>5. tasks # <<>> => Keys # {}
    <3>1. tasks # <<>> => 1 \in DOMAIN tasks
      BY <2>1, <2>2
    <3> QED BY <3>1 DEF Keys
  <2>6. Graph \in [Keys -> SUBSET Keys] /\ \A k \in Keys : Graph[k] = Deps(k)
    BY <2>1, DepsKnown DEF Graph
  <2>7. \A S \in SUBSET Keys : S # {} => \E k \in S : Graph[k] \cap S = {}
    <3>1. AcyclicOn(Keys)
      BY <2>1, DagAcyclic
    <3> QED BY <2>6, <3>1 DEF AcyclicOn
  <2>8. ASSUME NEW k \in Keys PROVE Len(DependsOnOf(k)) = Cardinality(Deps(k))
    <3> DEFINE s == DependsOnOf(k)
    <3>1. /\ s \in Seq(TaskKey) /\ Repeated(s) = {}
          /\ DOMAIN s = 1 .. Len(s) /\ Len(s) \in Nat
      BY <2>1, DepsOfTask DEF WellFormed
    <3> HIDE DEF s
    <3>2. ASSUME NEW i \in DOMAIN s, NEW j \in DOMAIN s, i < j PROVE s[i] # s[j]
      <4>1. i \in 1 .. j - 1
        BY <3>1, <3>2
      <4> QED BY <3>1, <4>1 DEF Repeated
    <3>3. \A i, j \in DOMAIN s : s[i] = s[j] => i = j
      <4>1. \A i, j \in DOMAIN s : i = j \/ i < j \/ j < i
        BY <3>1
      <4> QED BY <3>2, <4>1
    <3>4. Cardinality(ToSet(s)) = Len(s)
      BY <3>1, <3>3, UnrepeatedCount
    <3> QED BY <3>4 DEF s, Deps
  <2> QED BY <2>4, <2>5, <2>6, <2>7, <2>8 DEF FitsEngine
<1>2. DagInv => (phase = "valid" => FitsEngine)
  BY <1>1
<1> QED BY <1>2, DagInitially, DagStep, PTL DEF DagSpec
=============================================================================
