------------------------------ MODULE Accounts ------------------------------
(***************************************************************************)
(* Accounts and tokens (services/auth.service.js, auth/tokens.js,          *)
(* middleware/authenticate.js): registration, login, refresh, logout and   *)
(* changes of role. Tokens are stateless: a pair, once signed, exists for  *)
(* good, and what it is worth is decided by its claims, the clock and, for *)
(* a refresh token, the user's tokenVersion. Between the read of a user    *)
(* and the use of what was read other requests run.                        *)
(*                                                                         *)
(* Passwords, signatures and secrets are abstracted to whether a check     *)
(* succeeds; a pair stands for the access and the refresh token signed     *)
(* together.                                                               *)
(***************************************************************************)
EXTENDS Integers, FiniteSets

CONSTANTS
  User,        \* ids; each has its own email
  Admins,      \* the ones the create-admin script made
  Session,     \* concurrent requests
  AccessTtl, RefreshTtl,
  MaxTicks,    \* bound: ticks of the clock
  MaxVersion,  \* bound: tokenVersion
  MaxPairs     \* bound: token pairs signed

ASSUME AccountsAssumption ==
  /\ Admins \subseteq User /\ Admins # {}
  /\ {AccessTtl, RefreshTtl, MaxTicks, MaxVersion, MaxPairs} \subseteq Nat

Role == {"admin", "operator", "viewer"}

VARIABLES
  time,      \* the clock that tokens are signed and verified with
  account,   \* user -> [exists, role, tokenVersion]
  pairs,     \* the token pairs signed: [sub, role, tv, at, login]
  request    \* per session: what it does and what it has read

accountVars == <<time, account, pairs, request>>

Idle == [op |-> "idle"]

AccountsInit ==
  /\ time = 0
  /\ account = [u \in User |-> [exists |-> u \in Admins, tokenVersion |-> 0,
                                role |-> IF u \in Admins THEN "admin" ELSE "viewer"]]
  /\ pairs = {}
  /\ request = [s \in Session |-> Idle]

-----------------------------------------------------------------------------
(* auth/tokens.js and auth/permissions.js.                                 *)

VerifyAccess(p) == time < p.at + AccessTtl
VerifyRefresh(p) == time < p.at + RefreshTtl

MayManageUsers(role) == role = "admin"

\* issueTokens(user): both tokens from the document that was read. login is
\* history: the version at the login that the pair descends from.
IssueTokens(u, doc, login) ==
  /\ Cardinality(pairs) < MaxPairs
  /\ pairs' = pairs \cup
       {[sub |-> u, role |-> doc.role, tv |-> doc.tokenVersion, at |-> time, login |-> login]}

Done(s) == request' = [request EXCEPT ![s] = Idle]

-----------------------------------------------------------------------------

\* User.create: the unique index decides; a second registration changes
\* nothing. The role is the schema's default.
Register(u) ==
  /\ ~account[u].exists
  /\ account' = [account EXCEPT ![u] = [exists |-> TRUE, role |-> "viewer", tokenVersion |-> 0]]
  /\ UNCHANGED <<time, pairs, request>>

\* login: findOne, then a bcrypt comparison that takes its time.
LoginRead(s, u) ==
  /\ request[s] = Idle /\ account[u].exists
  /\ request' = [request EXCEPT ![s] = [op |-> "login", sub |-> u, doc |-> account[u]]]
  /\ UNCHANGED <<time, account, pairs>>

LoginIssue(s) ==
  /\ request[s].op = "login"
  /\ IssueTokens(request[s].sub, request[s].doc, request[s].doc.tokenVersion)
  /\ Done(s)
  /\ UNCHANGED <<time, account>>

\* refresh: the signature and the expiry are checked, then the user is read.
RefreshRead(s, p) ==
  /\ request[s] = Idle /\ VerifyRefresh(p)
  /\ request' = [request EXCEPT ![s] = [op |-> "refresh", pair |-> p, doc |-> account[p.sub]]]
  /\ UNCHANGED <<time, account, pairs>>

\* Mutant: the version of the token is not looked at.
HonoursAny(p, doc) == doc.exists

Honours(p, doc) == doc.exists /\ doc.tokenVersion = p.tv

RefreshIssue(s) ==
  /\ request[s].op = "refresh"
  /\ Honours(request[s].pair, request[s].doc)
  /\ IssueTokens(request[s].pair.sub, request[s].doc, request[s].pair.login)
  /\ Done(s)
  /\ UNCHANGED <<time, account>>

\* A wrong password, TOKEN_REVOKED, SELF_ROLE_CHANGE, a client that hangs up.
Refused(s) ==
  /\ request[s] # Idle
  /\ \/ request[s].op = "login"
     \/ request[s].op = "refresh" /\ ~Honours(request[s].pair, request[s].doc)
     \/ request[s].op = "act"
  /\ Done(s)
  /\ UNCHANGED <<time, account, pairs>>

\* authenticate: without a look at the database. The rate limiter is next.
Authenticate(s, p) ==
  /\ request[s] = Idle /\ VerifyAccess(p)
  /\ request' = [request EXCEPT ![s] = [op |-> "act", id |-> p.sub, role |-> p.role]]
  /\ UNCHANGED <<time, account, pairs>>

LogoutAll(s) ==
  /\ request[s].op = "act"
  /\ account[request[s].id].tokenVersion < MaxVersion
  /\ account' = [account EXCEPT ![request[s].id].tokenVersion = @ + 1]
  /\ Done(s)
  /\ UNCHANGED <<time, pairs>>

\* $set role, $inc tokenVersion: one update.
WithRole(doc, role) ==
  [exists |-> doc.exists, role |-> role, tokenVersion |-> doc.tokenVersion + 1]

\* By the token's role, which the database may have changed since.
MayChange(s, target) ==
  MayManageUsers(request[s].role) /\ target # request[s].id

ChangeRole(s, target, role) ==
  /\ request[s].op = "act"
  /\ MayChange(s, target) /\ account[target].exists
  /\ account[target].tokenVersion < MaxVersion
  /\ account' = [account EXCEPT ![target] = WithRole(@, role)]
  /\ Done(s)
  /\ UNCHANGED <<time, pairs>>

ClockTicks ==
  /\ time < MaxTicks
  /\ time' = time + 1
  /\ UNCHANGED <<account, pairs, request>>

AccountsNext ==
  \/ \E u \in User : Register(u)
  \/ \E s \in Session :
       \/ \E u \in User : LoginRead(s, u)
       \/ \E p \in pairs : RefreshRead(s, p) \/ Authenticate(s, p)
       \/ \E u \in User, role \in Role : ChangeRole(s, u, role)
       \/ LoginIssue(s) \/ RefreshIssue(s) \/ Refused(s) \/ LogoutAll(s)
  \/ ClockTicks

AccountsSpec == AccountsInit /\ [][AccountsNext]_accountVars

-----------------------------------------------------------------------------
(* Properties.                                                             *)

\* A refresh token that would still be honoured descends from a login since
\* the user's last logout or change of role, and carries the user's current
\* role: no chain of refreshes, however it interleaves with them, outlives
\* "Revokes ALL refresh tokens of the user (every device)" or keeps "tokens
\* that carry the OLD role" (auth.service.js:80, 95-96).
RevocationIsFinal ==
  \A p \in pairs : p.tv = account[p.sub].tokenVersion =>
    p.login = p.tv /\ p.role = account[p.sub].role

\* A change of a role does not end up "leaving the system with no admin at all"
\* (auth.service.js:99-100): nobody changes their own, but a role is checked by
\* the token, and two admins may each demote the other.
AdminRemains == \E u \in User : account[u].exists /\ account[u].role = "admin"
=============================================================================
