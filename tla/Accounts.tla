------------------------------ MODULE Accounts ------------------------------
(***************************************************************************)
(* Organizations' users, their sessions and API keys (auth_service.go,     *)
(* org_service.go, v1/auth.go, v1/orgs.go, middleware/auth.go).            *)
(*                                                                         *)
(* A login or a refresh signs a pair of tokens that carry the role the     *)
(* user's row had when it was read; nobody looks at the row again while    *)
(* the access token lives.  A logout puts the refresh token on a list in   *)
(* Redis until the token would have expired.  Registration creates the     *)
(* organization, then its owner, then logs in, without a transaction.      *)
(*                                                                         *)
(* An organization is its slug, a user stands for its e-mail address as    *)
(* well, and a pair for the ids in its two tokens.  Passwords, signatures  *)
(* and hashes are taken to do what they are for.  The Mutant... operators  *)
(* are slips that break a property; no specification uses them.            *)
(***************************************************************************)
EXTENDS Integers

CONSTANTS Handlers,    \* concurrent requests
          Orgs,        \* slugs of organizations
          Users,       \* ids of user rows
          Pairs,       \* token pairs
          Keys,        \* API keys
          Roles,       \* the roles in the requests
          AccessTTL,   \* lifetime of an access token
          RefreshTTL,  \* lifetime of a refresh token
          MaxTime,     \* bound on the clock
          None

UserRow == [org : Orgs, role : Roles, active : BOOLEAN]
KeyRow == [org : Orgs, revoked : BOOLEAN]

\* The claims of both tokens, when they were signed and, for the properties,
\* when the user's row was read.
Pair == [user : Users, org : Orgs, role : Roles, at : Nat, read : Nat]

ASSUME AccountsAssumption ==
  /\ Roles \subseteq {"owner", "admin", "editor", "viewer"} /\ "owner" \in Roles
  /\ AccessTTL \in Nat /\ RefreshTTL \in Nat /\ MaxTime \in Nat
  /\ None \notin Users \cup UserRow \cup KeyRow \cup Pair

VARIABLES orgs,     \* the slugs in the organizations table
          users,    \* the users table: None where an id has no row
          keys,     \* the api_keys table
          pairs,    \* the token pairs handed out
          revoked,  \* until when Redis lists a pair as revoked, 0 if it never did
          changed,  \* for the properties: when a user's row was last written or deleted
          now,      \* the clock
          job       \* what each request is about to do

vars == <<orgs, users, keys, pairs, revoked, changed, now, job>>

-----------------------------------------------------------------------------
Idle == [op |-> "idle"]

Founding   == [op : {"found"}, org : Orgs]
LoggingIn  == [op : {"login"}, user : Users]
Refreshing == [op : {"check", "reload"}, pair : Pairs, listed : BOOLEAN]
Issuing    == [op : {"issue"}, user : Users, org : Orgs, role : Roles, read : Nat]
Authed     == [op : {"authed"}, org : Orgs, user : Users \cup {None}, admin : BOOLEAN]
Touching   == [op : {"touch"}, key : Keys, org : Orgs]
LoggingOut == [op : {"revoke"}, pair : Pairs, ttl : Nat]
Writing    == [op : {"write"}, org : Orgs, user : Users, role : Roles, active : BOOLEAN]
Dropping   == [op : {"drop"}, org : Orgs, user : Users]

Goto(h, j) == job' = [job EXCEPT ![h] = j]

Issued == {p \in Pairs : pairs[p] # None}

\* Requests that hold the id of a user, and those that run for organization o.
About(h, u) == job[h] \in LoggingIn \cup Issuing \cup Authed \cup Writing \cup Dropping
                 /\ job[h].user = u
For(h, o) ==
  \/ job[h] \in Founding \cup Issuing \cup Authed \cup Touching \cup Writing \cup Dropping
       /\ job[h].org = o
  \/ job[h] \in LoggingIn /\ users[job[h].user] # None /\ users[job[h].user].org = o

\* An id that a row, a token or a request mentions; uuid.New() finds another.
Known(u) == \/ users[u] # None
            \/ \E p \in Issued : pairs[p].user = u
            \/ \E h \in Handlers : About(h, u)

Init ==
  /\ orgs = {}
  /\ users = [u \in Users |-> None]
  /\ keys = [k \in Keys |-> None]
  /\ pairs = [p \in Pairs |-> None]
  /\ revoked = [p \in Pairs |-> 0]
  /\ changed = [u \in Users |-> 0]
  /\ now = 0
  /\ job = [h \in Handlers |-> Idle]

-----------------------------------------------------------------------------
InsertUser(u, row) == users' = [users EXCEPT ![u] = row]

\* A row with a new id; the CHECK on its column allows every role there is.
CreateUser(o, r) ==
  \E u \in Users : ~Known(u) /\ InsertUser(u, [org |-> o, role |-> r, active |-> TRUE])

\* A slug that is taken is no error: the registration goes on with its row.
MutantRegister(h, o) ==
  /\ job[h] = Idle
  /\ orgs' = orgs \cup {o}
  /\ Goto(h, [op |-> "found", org |-> o])
  /\ UNCHANGED <<users, keys, pairs, revoked, changed, now>>

\* CreateOrg, under UNIQUE(slug).
Register(h, o) ==
  /\ job[h] = Idle
  /\ o \notin orgs
  /\ orgs' = orgs \cup {o}
  /\ Goto(h, [op |-> "found", org |-> o])
  /\ UNCHANGED <<users, keys, pairs, revoked, changed, now>>

\* The owner is created and then logs in like anybody else.
RegisterOwner(h) ==
  /\ job[h] \in Founding
  /\ CreateUser(job[h].org, "owner")
  /\ \E u \in Users : users[u] # users'[u] /\ Goto(h, [op |-> "login", user |-> u])
  /\ UNCHANGED <<orgs, keys, pairs, revoked, changed, now>>

Login(h, u) ==
  /\ job[h] = Idle
  /\ users[u] # None
  /\ Goto(h, [op |-> "login", user |-> u])
  /\ UNCHANGED <<orgs, users, keys, pairs, revoked, changed, now>>

\* The row as a request read it: what generateTokenPair signs.
SignFor(h, u) ==
  /\ users[u] # None
  /\ Goto(h, [op |-> "issue", user |-> u, org |-> users[u].org,
              role |-> users[u].role, read |-> now])

LoginWithOrgID(h) ==
  /\ job[h] \in LoggingIn
  /\ users[job[h].user] # None => users[job[h].user].active
  /\ SignFor(h, job[h].user)
  /\ UNCHANGED <<orgs, users, keys, pairs, revoked, changed, now>>

generateTokenPair(h) ==
  /\ job[h] \in Issuing
  /\ \E p \in Pairs \ Issued :
       pairs' = [pairs EXCEPT ![p] =
         [user |-> job[h].user, org |-> job[h].org, role |-> job[h].role,
          at |-> now, read |-> job[h].read]]
  /\ Goto(h, Idle)
  /\ UNCHANGED <<orgs, users, keys, revoked, changed, now>>

-----------------------------------------------------------------------------
\* parseToken: signed here and not expired.
Valid(p, ttl) == p \in Issued /\ now < pairs[p].at + ttl

\* "listed", for the properties: the token was on the list before this request
\* began, and Redis has not failed to answer it.
Refresh(h, p) ==
  /\ job[h] = Idle
  /\ Valid(p, RefreshTTL)
  /\ Goto(h, [op |-> "check", pair |-> p, listed |-> revoked[p] > 0])
  /\ UNCHANGED <<orgs, users, keys, pairs, revoked, changed, now>>

\* Redis answers, and the token is not on its list or no longer on it.
NotRevoked(h) ==
  /\ job[h] \in Refreshing /\ job[h].op = "check"
  /\ revoked[job[h].pair] <= now
  /\ Goto(h, [op |-> "reload", pair |-> job[h].pair, listed |-> job[h].listed])
  /\ UNCHANGED <<orgs, users, keys, pairs, revoked, changed, now>>

\* Redis does not answer: the error is dropped and "revoked" is false.
Unanswered(h) ==
  /\ job[h] \in Refreshing /\ job[h].op = "check"
  /\ Goto(h, [op |-> "reload", pair |-> job[h].pair, listed |-> FALSE])
  /\ UNCHANGED <<orgs, users, keys, pairs, revoked, changed, now>>

\* The new pair carries the claims of the old one.
MutantRefreshToken(h) ==
  /\ job[h] \in Refreshing /\ job[h].op = "reload"
  /\ LET c == pairs[job[h].pair]
     IN  Goto(h, [op |-> "issue", user |-> c.user, org |-> c.org, role |-> c.role,
                  read |-> now])
  /\ UNCHANGED <<orgs, users, keys, pairs, revoked, changed, now>>

\* The user is read again; "active" is not looked at.
RefreshToken(h) ==
  /\ job[h] \in Refreshing /\ job[h].op = "reload"
  /\ SignFor(h, pairs[job[h].pair].user)
  /\ UNCHANGED <<orgs, users, keys, pairs, revoked, changed, now>>

-----------------------------------------------------------------------------
\* The roles the routes that need one ask for.
Admins == {"owner", "admin"}

\* What is asked of a request before those: a key passes whatever it is for.
RequireRole(h) == job[h] \in Authed /\ job[h].admin

\* RequireAuth with an access token.
ValidateAccessToken(h, p) ==
  /\ job[h] = Idle
  /\ Valid(p, AccessTTL)
  /\ Goto(h, [op |-> "authed", org |-> pairs[p].org, user |-> pairs[p].user,
              admin |-> pairs[p].role \in Admins])
  /\ UNCHANGED <<orgs, users, keys, pairs, revoked, changed, now>>

\* RequireAuth with a key: the row found by its prefix must be live and hold its
\* hash.  Another key's row with the same prefix makes no transition: 401.
ValidateAPIKey(h, k) ==
  /\ job[h] = Idle
  /\ keys[k] # None /\ ~keys[k].revoked
  /\ Goto(h, [op |-> "touch", key |-> k, org |-> keys[k].org])
  /\ UNCHANGED <<orgs, users, keys, pairs, revoked, changed, now>>

\* The row is written back as it was when it was read.
MutantUpdateLastUsed(h) ==
  /\ job[h] \in Touching
  /\ keys' = [keys EXCEPT ![job[h].key].revoked = FALSE]
  /\ Goto(h, [op |-> "authed", org |-> job[h].org, user |-> None, admin |-> TRUE])
  /\ UNCHANGED <<orgs, users, pairs, revoked, changed, now>>

\* Only last_used_at is written, whether or not that works.
UpdateLastUsed(h) ==
  /\ job[h] \in Touching
  /\ Goto(h, [op |-> "authed", org |-> job[h].org, user |-> None, admin |-> TRUE])
  /\ UNCHANGED <<orgs, users, keys, pairs, revoked, changed, now>>

\* The revocation lasts as long as an access token.
MutantLogout(h, p) ==
  /\ job[h] \in Authed
  /\ Valid(p, RefreshTTL)
  /\ Goto(h, [op |-> "revoke", pair |-> p, ttl |-> AccessTTL])
  /\ UNCHANGED <<orgs, users, keys, pairs, revoked, changed, now>>

\* The expiry is not looked at, and the lifetime left is one short.
MutantLogoutExpired(h, p) ==
  /\ job[h] \in Authed
  /\ p \in Issued
  /\ Goto(h, [op |-> "revoke", pair |-> p, ttl |-> pairs[p].at + RefreshTTL - 1 - now])
  /\ UNCHANGED <<orgs, users, keys, pairs, revoked, changed, now>>

\* Anyone authenticated may log any refresh token out.
Logout(h, p) ==
  /\ job[h] \in Authed
  /\ Valid(p, RefreshTTL)
  /\ Goto(h, [op |-> "revoke", pair |-> p, ttl |-> pairs[p].at + RefreshTTL - now])
  /\ UNCHANGED <<orgs, users, keys, pairs, revoked, changed, now>>

\* Set with the remaining lifetime; if it fails the client is told the same.
Revoke(h) ==
  /\ job[h] \in LoggingOut
  /\ revoked' = [revoked EXCEPT ![job[h].pair] = now + job[h].ttl]
  /\ Goto(h, Idle)
  /\ UNCHANGED <<orgs, users, keys, pairs, changed, now>>

-----------------------------------------------------------------------------
AddUser(h, r) ==
  /\ RequireRole(h)
  /\ CreateUser(job[h].org, r)
  /\ Goto(h, Idle)
  /\ UNCHANGED <<orgs, keys, pairs, revoked, changed, now>>

\* The organization of the row is not compared with the requester's.
MutantGetUser(h, u) == users[u] # None

\* GetUser: the row must be there and belong to the requester.
GetUser(h, u) == users[u] # None /\ users[u].org = job[h].org

\* Role and active flag are each as read or as requested.
UpdateUser(h, u) ==
  /\ RequireRole(h)
  /\ GetUser(h, u)
  /\ \E r \in Roles, a \in BOOLEAN :
       Goto(h, [op |-> "write", org |-> job[h].org, user |-> u, role |-> r, active |-> a])
  /\ UNCHANGED <<orgs, users, keys, pairs, revoked, changed, now>>

\* The row is inserted again if it is gone.
MutantWriteUser(h) ==
  /\ job[h] \in Writing
  /\ LET u == job[h].user
     IN  /\ users' = [users EXCEPT ![u] =
              [org |-> job[h].org, role |-> job[h].role, active |-> job[h].active]]
         /\ changed' = [changed EXCEPT ![u] = now]
  /\ Goto(h, Idle)
  /\ UNCHANGED <<orgs, keys, pairs, revoked, now>>

\* UPDATE users ... WHERE id: role and active together; nothing without a row.
WriteUser(h) ==
  /\ job[h] \in Writing
  /\ LET u == job[h].user
     IN  /\ users' = [users EXCEPT ![u] =
              IF @ = None THEN None
              ELSE [org |-> @.org, role |-> job[h].role, active |-> job[h].active]]
         /\ changed' = [changed EXCEPT ![u] = now]
  /\ Goto(h, Idle)
  /\ UNCHANGED <<orgs, keys, pairs, revoked, now>>

DeleteUser(h, u) ==
  /\ RequireRole(h)
  /\ GetUser(h, u)
  /\ Goto(h, [op |-> "drop", org |-> job[h].org, user |-> u])
  /\ UNCHANGED <<orgs, users, keys, pairs, revoked, changed, now>>

DropUser(h) ==
  /\ job[h] \in Dropping
  /\ users' = [users EXCEPT ![job[h].user] = None]
  /\ changed' = [changed EXCEPT ![job[h].user] = now]
  /\ Goto(h, Idle)
  /\ UNCHANGED <<orgs, keys, pairs, revoked, now>>

\* INSERT INTO api_keys, under REFERENCES users(id).
InsertKey(k, row, u) ==
  /\ u # None => users[u] # None
  /\ keys' = [keys EXCEPT ![k] = row]

\* Any role may; the key belongs to the user in the claims, if there is one.
CreateAPIKey(h, k) ==
  /\ job[h] \in Authed
  /\ keys[k] = None
  /\ InsertKey(k, [org |-> job[h].org, revoked |-> FALSE], job[h].user)
  /\ Goto(h, Idle)
  /\ UNCHANGED <<orgs, users, pairs, revoked, changed, now>>

\* UPDATE api_keys ... WHERE id.
RevokeKey(k) == keys[k] # None /\ keys' = [keys EXCEPT ![k].revoked = TRUE]

\* Whichever organization asks, and in any role.
RevokeAPIKey(h, k) ==
  /\ job[h] \in Authed
  /\ RevokeKey(k)
  /\ Goto(h, Idle)
  /\ UNCHANGED <<orgs, users, pairs, revoked, changed, now>>

\* A check refuses, a statement fails, the process exits.
Abandon(h) ==
  /\ job[h] # Idle
  /\ Goto(h, Idle)
  /\ UNCHANGED <<orgs, users, keys, pairs, revoked, changed, now>>

Tick ==
  /\ now < MaxTime
  /\ now' = now + 1
  /\ UNCHANGED <<orgs, users, keys, pairs, revoked, changed, job>>

Next ==
  \/ \E h \in Handlers :
       \/ \E o \in Orgs : Register(h, o)
       \/ RegisterOwner(h)
       \/ \E u \in Users : Login(h, u)
       \/ LoginWithOrgID(h)
       \/ generateTokenPair(h)
       \/ \E p \in Pairs : Refresh(h, p)
       \/ NotRevoked(h)
       \/ Unanswered(h)
       \/ RefreshToken(h)
       \/ \E p \in Pairs : ValidateAccessToken(h, p)
       \/ \E k \in Keys : ValidateAPIKey(h, k)
       \/ UpdateLastUsed(h)
       \/ \E p \in Pairs : Logout(h, p)
       \/ Revoke(h)
       \/ \E r \in Roles : AddUser(h, r)
       \/ \E u \in Users : UpdateUser(h, u)
       \/ WriteUser(h)
       \/ \E u \in Users : DeleteUser(h, u)
       \/ DropUser(h)
       \/ \E k \in Keys : CreateAPIKey(h, k)
       \/ \E k \in Keys : RevokeAPIKey(h, k)
       \/ Abandon(h)
  \/ Tick

Spec == Init /\ [][Next]_vars

-----------------------------------------------------------------------------
Job == {Idle} \cup Founding \cup LoggingIn \cup Refreshing \cup Issuing \cup Authed
         \cup Touching \cup LoggingOut \cup Writing \cup Dropping

TypeOK ==
  /\ orgs \subseteq Orgs
  /\ users \in [Users -> UserRow \cup {None}]
  /\ keys \in [Keys -> KeyRow \cup {None}]
  /\ pairs \in [Pairs -> Pair \cup {None}]
  /\ revoked \in [Pairs -> Nat]
  /\ changed \in [Users -> Nat]
  /\ now \in Nat
  /\ job \in [Handlers -> Job]

\* The row of the user still gives what these claims say.
Current(c) ==
  /\ users[c.user] # None
  /\ users[c.user].org = c.org /\ users[c.user].role = c.role

(***************************************************************************)
(* A demotion or a deletion reaches every token: claims that were read     *)
(* from the row after it was last written agree with it, so what disagrees *)
(* is older and cannot be renewed as it is (auth_service.go:83-88).        *)
(***************************************************************************)
ClaimsFollowRow ==
  /\ \A p \in Issued : pairs[p].read > changed[pairs[p].user] => Current(pairs[p])
  /\ \A h \in Handlers :
       job[h] \in Issuing /\ job[h].read > changed[job[h].user] => Current(job[h])

(***************************************************************************)
(* A refresh that began when its token was on the list of revoked ones,    *)
(* and to which Redis answered, goes on only if the token has expired      *)
(* since it was parsed: the entry outlives the token                       *)
(* (auth_service.go:70-101).                                               *)
(***************************************************************************)
RevokedIsRefused ==
  \A h \in Handlers :
    job[h] \in Refreshing /\ job[h].op = "reload" /\ job[h].listed
      => ~Valid(job[h].pair, RefreshTTL)

(***************************************************************************)
(* The owner a registration is about to create comes into an organization  *)
(* that nobody else has entered: no user, token, key or other request      *)
(* belongs to it (v1/auth.go:41-54).                                       *)
(***************************************************************************)
FoundedEmpty ==
  \A h \in Handlers : job[h] \in Founding =>
    /\ \A u \in Users : users[u] # None => users[u].org # job[h].org
    /\ \A k \in Keys : keys[k] # None => keys[k].org # job[h].org
    /\ \A p \in Issued : pairs[p].org # job[h].org
    /\ \A g \in Handlers \ {h} : ~For(g, job[h].org)

\* Requests about a user run for the organization the user is in, if any.
RequestsStayHome ==
  \A h \in Handlers :
    job[h] \in Writing \cup Dropping /\ users[job[h].user] # None
      => users[job[h].user].org = job[h].org

\* An organization without a user, a live key, a live access token or a request.
Stranded(o) ==
  /\ o \in orgs
  /\ \A u \in Users : users[u] # None => users[u].org # o
  /\ \A k \in Keys : keys[k] # None /\ keys[k].org = o => keys[k].revoked
  /\ \A p \in Issued : pairs[p].org = o => ~Valid(p, AccessTTL)
  /\ \A h \in Handlers : ~For(h, o)

(***************************************************************************)
(* A slug is taken for good: an organization whose registration broke off  *)
(* before it had its owner, or which lost its last user and key, is never  *)
(* entered again, by a second registration either (v1/auth.go:32-57).      *)
(***************************************************************************)
StrandedForGood == [][\A o \in Orgs : Stranded(o) => Stranded(o)']_vars

(***************************************************************************)
(* What was ended stays ended, whatever requests that read it before still *)
(* write: a deleted user does not come back, a revoked key is not revived  *)
(* (user_repository.go:54-65, 115-123).                                    *)
(***************************************************************************)
EndingsAreFinal ==
  [][/\ \A u \in Users : Known(u) /\ users[u] = None => users'[u] = None
     /\ \A k \in Keys : keys[k] # None /\ keys[k].revoked => keys'[k].revoked]_vars
=============================================================================
