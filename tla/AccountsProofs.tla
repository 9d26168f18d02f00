--------------------------- MODULE AccountsProofs ---------------------------
(***************************************************************************)
(* What holds of organizations, users, sessions and keys for any number of *)
(* requests, users, tokens and keys, and for every token lifetime.         *)
(***************************************************************************)
EXTENDS Accounts, TLAPS

\* What a request is about to do says which fields its record has.
LEMMA JobFields ==
  ASSUME NEW j
  PROVE  /\ j \in Founding => j.op = "found" /\ j.org \in Orgs
         /\ j \in LoggingIn => j.op = "login" /\ j.user \in Users
         /\ j \in Refreshing => /\ j.op \in {"check", "reload"}
                                /\ j.pair \in Pairs /\ j.listed \in BOOLEAN
         /\ j \in Issuing => /\ j.op = "issue" /\ j.user \in Users /\ j.org \in Orgs
                             /\ j.role \in Roles /\ j.read \in Nat
         /\ j \in Authed => /\ j.op = "authed" /\ j.org \in Orgs
                            /\ j.user \in Users \cup {None} /\ j.admin \in BOOLEAN
         /\ j \in Touching => j.op = "touch" /\ j.key \in Keys /\ j.org \in Orgs
         /\ j \in LoggingOut => j.op = "revoke" /\ j.pair \in Pairs /\ j.ttl \in Nat
         /\ j \in Writing => /\ j.op = "write" /\ j.org \in Orgs /\ j.user \in Users
                             /\ j.role \in Roles /\ j.active \in BOOLEAN
         /\ j \in Dropping => j.op = "drop" /\ j.org \in Orgs /\ j.user \in Users
         /\ j = Idle => j.op = "idle"
BY DEF Founding, LoggingIn, Refreshing, Issuing, Authed, Touching, LoggingOut, Writing,
       Dropping, Idle

LEMMA RowFields ==
  ASSUME TypeOK
  PROVE  /\ \A u \in Users : users[u] # None =>
              /\ users[u] \in UserRow /\ users[u].org \in Orgs
              /\ users[u].role \in Roles /\ users[u].active \in BOOLEAN
         /\ \A k \in Keys : keys[k] # None =>
              keys[k] \in KeyRow /\ keys[k].org \in Orgs /\ keys[k].revoked \in BOOLEAN
         /\ \A p \in Pairs : p \in Issued =>
              /\ pairs[p] \in Pair /\ pairs[p].user \in Users /\ pairs[p].org \in Orgs
              /\ pairs[p].role \in Roles /\ pairs[p].at \in Nat /\ pairs[p].read \in Nat
BY DEF TypeOK, UserRow, KeyRow, Pair, Issued

LEMMA GotoType ==
  ASSUME TypeOK, NEW h \in Handlers, NEW j \in Job, Goto(h, j)
  PROVE  job' \in [Handlers -> Job]
BY DEF TypeOK, Goto

\* The steps of one request.
Step(h) ==
  \/ \E o \in Orgs : Register(h, o)
  \/ RegisterOwner(h)
  \/ \E u \in Users : Login(h, u)
  \/ LoginWithOrgID(h)
  \/ generateTokenPair(h)
  \/ \E p \in Pairs : Refresh(h, p)
  \/ NotRevoked(h)
  \/ Unanswered(h)
  \/ RefreshToken(h)
  \/ \E p \in Pairs : ValidateAccessToken(h, p)
  \/ \E k \in Keys : ValidateAPIKey(h, k)
  \/ UpdateLastUsed(h)
  \/ \E p \in Pairs : Logout(h, p)
  \/ Revoke(h)
  \/ \E r \in Roles : AddUser(h, r)
  \/ \E u \in Users : UpdateUser(h, u)
  \/ WriteUser(h)
  \/ \E u \in Users : DeleteUser(h, u)
  \/ DropUser(h)
  \/ \E k \in Keys : CreateAPIKey(h, k)
  \/ \E k \in Keys : RevokeAPIKey(h, k)
  \/ Abandon(h)

LEMMA NextIsStep == Next <=> (\E h \in Handlers : Step(h)) \/ Tick
BY DEF Next, Step

-----------------------------------------------------------------------------
(***************************************************************************)
(* Type correctness.                                                       *)
(***************************************************************************)
LEMMA SignForType ==
  ASSUME TypeOK, NEW h \in Handlers, NEW u \in Users, SignFor(h, u)
  PROVE  job' \in [Handlers -> Job]
<1>1. users[u] \in UserRow /\ users[u].org \in Orgs /\ users[u].role \in Roles /\ now \in Nat
  BY RowFields DEF SignFor, TypeOK
<1>2. [op |-> "issue", user |-> u, org |-> users[u].org, role |-> users[u].role, read |-> now]
        \in Job
  BY <1>1 DEF Issuing, Job
<1> QED
  BY <1>2, GotoType DEF SignFor

LEMMA CreateUserType ==
  ASSUME TypeOK, NEW o \in Orgs, NEW r \in Roles, CreateUser(o, r)
  PROVE  users' \in [Users -> UserRow \cup {None}]
<1>1. [org |-> o, role |-> r, active |-> TRUE] \in UserRow
  BY DEF UserRow
<1> QED
  BY <1>1 DEF CreateUser, InsertUser, TypeOK

\* A token that a request works on has been handed out: without it a refresh
\* could read the claims of no token.
HeldAreIssued ==
  \A h \in Handlers : job[h] \in Refreshing \cup LoggingOut => job[h].pair \in Issued

LEMMA TypeStep ==
  ASSUME AccountsAssumption, TypeOK, HeldAreIssued, [Next]_vars
  PROVE  TypeOK'
<1>1. ASSUME NEW h \in Handlers, NEW o \in Orgs, Register(h, o) PROVE TypeOK'
  <2>1. [op |-> "found", org |-> o] \in Job
    BY DEF Founding, Job
  <2> QED
    BY <1>1, <2>1, GotoType DEF Register, TypeOK
<1>2. ASSUME NEW h \in Handlers, RegisterOwner(h) PROVE TypeOK'
  <2>1. job[h].org \in Orgs /\ "owner" \in Roles
    BY <1>2, JobFields DEF RegisterOwner, AccountsAssumption
  <2>2. PICK u \in Users : Goto(h, [op |-> "login", user |-> u])
    BY <1>2 DEF RegisterOwner
  <2>3. [op |-> "login", user |-> u] \in Job
    BY DEF LoggingIn, Job
  <2>4. users' \in [Users -> UserRow \cup {None}]
    BY <1>2, <2>1, CreateUserType DEF RegisterOwner
  <2> QED
    BY <1>2, <2>2, <2>3, <2>4, GotoType DEF RegisterOwner, TypeOK
<1>3. ASSUME NEW h \in Handlers, NEW u \in Users, Login(h, u) PROVE TypeOK'
  <2>1. [op |-> "login", user |-> u] \in Job
    BY DEF LoggingIn, Job
  <2> QED
    BY <1>3, <2>1, GotoType DEF Login, TypeOK
<1>4. ASSUME NEW h \in Handlers, LoginWithOrgID(h) PROVE TypeOK'
  <2>1. job' \in [Handlers -> Job]
    BY <1>4, JobFields, SignForType DEF LoginWithOrgID
  <2> QED
    BY <1>4, <2>1 DEF LoginWithOrgID, TypeOK
<1>5. ASSUME NEW h \in Handlers, generateTokenPair(h) PROVE TypeOK'
  <2>1. [user |-> job[h].user, org |-> job[h].org, role |-> job[h].role,
         at |-> now, read |-> job[h].read] \in Pair
    BY <1>5, JobFields DEF generateTokenPair, Pair, TypeOK
  <2>2. pairs' \in [Pairs -> Pair \cup {None}]
    BY <1>5, <2>1 DEF generateTokenPair, TypeOK
  <2>3. job' \in [Handlers -> Job]
    BY <1>5, GotoType DEF generateTokenPair, Job
  <2> QED
    BY <1>5, <2>2, <2>3 DEF generateTokenPair, TypeOK
<1>6. ASSUME NEW h \in Handlers, NEW p \in Pairs, Refresh(h, p) PROVE TypeOK'
  <2>1. [op |-> "check", pair |-> p, listed |-> revoked[p] > 0] \in Job
    BY DEF Refreshing, Job, TypeOK
  <2> QED
    BY <1>6, <2>1, GotoType DEF Refresh, TypeOK
<1>7. ASSUME NEW h \in Handlers, NotRevoked(h) \/ Unanswered(h) PROVE TypeOK'
  <2>1. job[h].pair \in Pairs /\ job[h].listed \in BOOLEAN
    BY <1>7, JobFields DEF NotRevoked, Unanswered
  <2>2. \A l \in BOOLEAN : [op |-> "reload", pair |-> job[h].pair, listed |-> l] \in Job
    BY <2>1 DEF Refreshing, Job
  <2>3. PICK l \in BOOLEAN : Goto(h, [op |-> "reload", pair |-> job[h].pair, listed |-> l])
    BY <1>7, <2>1 DEF NotRevoked, Unanswered
  <2> QED
    BY <1>7, <2>2, <2>3, GotoType DEF NotRevoked, Unanswered, TypeOK
<1>8. ASSUME NEW h \in Handlers, RefreshToken(h) PROVE TypeOK'
  <2>1. job[h].pair \in Pairs
    BY <1>8, JobFields DEF RefreshToken
  <2>2. job[h].pair \in Issued
    BY <1>8 DEF RefreshToken, HeldAreIssued
  <2>3. job' \in [Handlers -> Job]
    BY <1>8, <2>1, <2>2, RowFields, SignForType DEF RefreshToken
  <2> QED
    BY <1>8, <2>3 DEF RefreshToken, TypeOK
<1>9. ASSUME NEW h \in Handlers, NEW p \in Pairs, ValidateAccessToken(h, p) PROVE TypeOK'
  <2>1. pairs[p].org \in Orgs /\ pairs[p].user \in Users
    BY <1>9, RowFields DEF ValidateAccessToken, Valid
  <2>2. [op |-> "authed", org |-> pairs[p].org, user |-> pairs[p].user,
         admin |-> pairs[p].role \in Admins] \in Job
    BY <2>1 DEF Authed, Job
  <2> QED
    BY <1>9, <2>2, GotoType DEF ValidateAccessToken, TypeOK
<1>10. ASSUME NEW h \in Handlers, NEW k \in Keys, ValidateAPIKey(h, k) PROVE TypeOK'
  <2>1. keys[k].org \in Orgs
    BY <1>10, RowFields DEF ValidateAPIKey
  <2>2. [op |-> "touch", key |-> k, org |-> keys[k].org] \in Job
    BY <2>1 DEF Touching, Job
  <2> QED
    BY <1>10, <2>2, GotoType DEF ValidateAPIKey, TypeOK
<1>11. ASSUME NEW h \in Handlers, UpdateLastUsed(h) PROVE TypeOK'
  <2>1. job[h].org \in Orgs
    BY <1>11, JobFields DEF UpdateLastUsed
  <2>2. [op |-> "authed", org |-> job[h].org, user |-> None, admin |-> TRUE] \in Job
    BY <2>1 DEF Authed, Job
  <2> QED
    BY <1>11, <2>2, GotoType DEF UpdateLastUsed, TypeOK
<1>12. ASSUME NEW h \in Handlers, NEW p \in Pairs, Logout(h, p) PROVE TypeOK'
  <2>1. pairs[p].at + RefreshTTL - now \in Nat
    BY <1>12, RowFields DEF Logout, Valid, TypeOK, AccountsAssumption
  <2>2. [op |-> "revoke", pair |-> p, ttl |-> pairs[p].at + RefreshTTL - now] \in Job
    BY <2>1 DEF LoggingOut, Job
  <2> QED
    BY <1>12, <2>2, GotoType DEF Logout, TypeOK
<1>13. ASSUME NEW h \in Handlers, Revoke(h) PROVE TypeOK'
  <2>1. job[h].ttl \in Nat /\ job[h].pair \in Pairs
    BY <1>13, JobFields DEF Revoke
  <2>2. revoked' \in [Pairs -> Nat]
    BY <1>13, <2>1 DEF Revoke, TypeOK
  <2> QED
    BY <1>13, <2>2, GotoType DEF Revoke, TypeOK, Job
<1>14. ASSUME NEW h \in Handlers, NEW r \in Roles, AddUser(h, r) PROVE TypeOK'
  <2>1. job[h].org \in Orgs
    BY <1>14, JobFields DEF AddUser, RequireRole
  <2>2. users' \in [Users -> UserRow \cup {None}]
    BY <1>14, <2>1, CreateUserType DEF AddUser
  <2> QED
    BY <1>14, <2>2, GotoType DEF AddUser, TypeOK, Job
<1>15. ASSUME NEW h \in Handlers, NEW u \in Users, UpdateUser(h, u) PROVE TypeOK'
  <2>1. job[h].org \in Orgs
    BY <1>15, JobFields DEF UpdateUser, RequireRole
  <2>2. PICK r \in Roles, a \in BOOLEAN :
          Goto(h, [op |-> "write", org |-> job[h].org, user |-> u, role |-> r, active |-> a])
    BY <1>15 DEF UpdateUser
  <2>3. [op |-> "write", org |-> job[h].org, user |-> u, role |-> r, active |-> a] \in Job
    BY <2>1 DEF Writing, Job
  <2> QED
    BY <1>15, <2>2, <2>3, GotoType DEF UpdateUser, TypeOK
<1>16. ASSUME NEW h \in Handlers, WriteUser(h) PROVE TypeOK'
  <2>1. job[h].user \in Users /\ job[h].role \in Roles /\ job[h].active \in BOOLEAN
    BY <1>16, JobFields DEF WriteUser
  <2>2. users[job[h].user] # None =>
          [org |-> users[job[h].user].org, role |-> job[h].role, active |-> job[h].active]
            \in UserRow
    BY <2>1, RowFields DEF UserRow
  <2>3. users' \in [Users -> UserRow \cup {None}]
    BY <1>16, <2>1, <2>2 DEF WriteUser, TypeOK
  <2>4. changed' \in [Users -> Nat]
    BY <1>16, <2>1 DEF WriteUser, TypeOK
  <2> QED
    BY <1>16, <2>3, <2>4, GotoType DEF WriteUser, TypeOK, Job
<1>17. ASSUME NEW h \in Handlers, NEW u \in Users, DeleteUser(h, u) PROVE TypeOK'
  <2>1. job[h].org \in Orgs
    BY <1>17, JobFields DEF DeleteUser, RequireRole
  <2>2. [op |-> "drop", org |-> job[h].org, user |-> u] \in Job
    BY <2>1 DEF Dropping, Job
  <2> QED
    BY <1>17, <2>2, GotoType DEF DeleteUser, TypeOK
<1>18. ASSUME NEW h \in Handlers, DropUser(h) PROVE TypeOK'
  <2>1. users' \in [Users -> UserRow \cup {None}] /\ changed' \in [Users -> Nat]
    BY <1>18 DEF DropUser, TypeOK
  <2> QED
    BY <1>18, <2>1, GotoType DEF DropUser, TypeOK, Job
<1>19. ASSUME NEW h \in Handlers, NEW k \in Keys, CreateAPIKey(h, k) PROVE TypeOK'
  <2>1. [org |-> job[h].org, revoked |-> FALSE] \in KeyRow
    BY <1>19, JobFields DEF CreateAPIKey, KeyRow
  <2>2. keys' \in [Keys -> KeyRow \cup {None}]
    BY <1>19, <2>1 DEF CreateAPIKey, InsertKey, TypeOK
  <2> QED
    BY <1>19, <2>2, GotoType DEF CreateAPIKey, TypeOK, Job
<1>20. ASSUME NEW h \in Handlers, NEW k \in Keys, RevokeAPIKey(h, k) PROVE TypeOK'
  <2>1. keys[k] \in KeyRow
    BY <1>20, RowFields DEF RevokeAPIKey, RevokeKey
  <2>2. [keys[k] EXCEPT !.revoked = TRUE] \in KeyRow
    BY <2>1 DEF KeyRow
  <2>3. keys' \in [Keys -> KeyRow \cup {None}]
    BY <1>20, <2>2 DEF RevokeAPIKey, RevokeKey, TypeOK
  <2> QED
    BY <1>20, <2>3, GotoType DEF RevokeAPIKey, TypeOK, Job
<1>21. ASSUME NEW h \in Handlers, Abandon(h) PROVE TypeOK'
  BY <1>21, GotoType DEF Abandon, TypeOK, Job
<1>22. CASE Tick
  BY <1>22 DEF Tick, TypeOK
<1>23. CASE UNCHANGED vars
  BY <1>23 DEF vars, TypeOK
<1> QED
  BY <1>1, <1>2, <1>3, <1>4, <1>5, <1>6, <1>7, <1>8, <1>9, <1>10, <1>11, <1>12, <1>13, <1>14,
     <1>15, <1>16, <1>17, <1>18, <1>19, <1>20, <1>21, <1>22, <1>23, NextIsStep DEF Step

-----------------------------------------------------------------------------
(***************************************************************************)
(* What a step of a request does to the tables, to the tokens and to what  *)
(* the request is about to do next.                                        *)
(***************************************************************************)

\* A user row is left alone, inserted under an id nobody knows for somebody in
\* the requester's organization, written in its organization, or is gone.
LEMMA UserStep ==
  ASSUME AccountsAssumption, TypeOK, NEW h \in Handlers, Step(h), NEW u \in Users
  PROVE  \/ users'[u] = users[u] /\ changed'[u] \in {changed[u], now}
         \/ /\ users[u] = None /\ ~Known(u) /\ changed'[u] = changed[u]
            /\ job[h] \in Founding \cup Authed
            /\ users'[u] # None /\ users'[u].org = job[h].org
         \/ /\ users[u] # None /\ users'[u] # None
            /\ users'[u].org = users[u].org /\ changed'[u] = now
         \/ users'[u] = None /\ changed'[u] = now
<1> DEFINE Done == \/ users'[u] = users[u] /\ changed'[u] \in {changed[u], now}
                   \/ /\ users[u] = None /\ ~Known(u) /\ changed'[u] = changed[u]
                      /\ job[h] \in Founding \cup Authed
                      /\ users'[u] # None /\ users'[u].org = job[h].org
                   \/ /\ users[u] # None /\ users'[u] # None
                      /\ users'[u].org = users[u].org /\ changed'[u] = now
                   \/ users'[u] = None /\ changed'[u] = now
<1>1. ASSUME NEW o \in Orgs, NEW r \in Roles, CreateUser(o, r), UNCHANGED changed,
             job[h] \in Founding \cup Authed, job[h].org = o
      PROVE  Done
  <2>1. PICK v \in Users : ~Known(v) /\ InsertUser(v, [org |-> o, role |-> r, active |-> TRUE])
    BY <1>1 DEF CreateUser
  <2>2. CASE u = v
    <3>1. users'[u] = [org |-> o, role |-> r, active |-> TRUE]
      BY <2>1, <2>2 DEF InsertUser, TypeOK
    <3>2. [org |-> o, role |-> r, active |-> TRUE] \in UserRow
      BY DEF UserRow
    <3>3. users[u] = None
      BY <2>1, <2>2 DEF Known
    <3> QED
      BY <1>1, <2>1, <2>2, <3>1, <3>2, <3>3 DEF AccountsAssumption
  <2>3. CASE u # v
    BY <1>1, <2>1, <2>3 DEF InsertUser, TypeOK
  <2> QED
    BY <2>2, <2>3
<1>2. CASE RegisterOwner(h)
  <2>1. job[h].org \in Orgs /\ "owner" \in Roles
    BY <1>2, JobFields DEF RegisterOwner, AccountsAssumption
  <2> QED
    BY <1>1, <1>2, <2>1 DEF RegisterOwner
<1>3. ASSUME NEW r \in Roles, AddUser(h, r) PROVE Done
  <2>1. job[h].org \in Orgs
    BY <1>3, JobFields DEF AddUser, RequireRole
  <2> QED
    BY <1>1, <1>3, <2>1 DEF AddUser, RequireRole
<1>4. CASE WriteUser(h)
  <2>1. job[h].user \in Users /\ job[h].role \in Roles /\ job[h].active \in BOOLEAN
    BY <1>4, JobFields DEF WriteUser
  <2>2. CASE u = job[h].user
    <3>1. CASE users[u] = None
      BY <1>4, <2>2, <3>1 DEF WriteUser, TypeOK
    <3>2. CASE users[u] # None
      <4>1. users'[u] = [org |-> users[u].org, role |-> job[h].role, active |-> job[h].active]
        BY <1>4, <2>2, <3>2 DEF WriteUser, TypeOK
      <4>2. users'[u] \in UserRow
        BY <2>1, <3>2, <4>1, RowFields DEF UserRow
      <4>3. users'[u] # None /\ users'[u].org = users[u].org
        BY <4>1, <4>2 DEF AccountsAssumption
      <4> QED
        BY <1>4, <2>2, <3>2, <4>3 DEF WriteUser, TypeOK
    <3> QED
      BY <3>1, <3>2
  <2>3. CASE u # job[h].user
    BY <1>4, <2>1, <2>3 DEF WriteUser, TypeOK
  <2> QED
    BY <2>2, <2>3
<1>5. CASE DropUser(h)
  BY <1>5, JobFields DEF DropUser, TypeOK
<1>6. CASE UNCHANGED <<users, changed>>
  BY <1>6
<1>7. \/ RegisterOwner(h) \/ WriteUser(h) \/ DropUser(h) \/ UNCHANGED <<users, changed>>
      \/ \E r \in Roles : AddUser(h, r)
  BY DEF Step, Register, Login, LoginWithOrgID, generateTokenPair, Refresh, NotRevoked, Unanswered,
      RefreshToken, ValidateAccessToken, ValidateAPIKey, UpdateLastUsed, Logout, Revoke,
      UpdateUser, DeleteUser, CreateAPIKey, RevokeAPIKey, Abandon
<1> QED
  BY <1>2, <1>3, <1>4, <1>5, <1>6, <1>7

\* A key is left alone, created in the requester's organization, or revoked.
LEMMA KeyStep ==
  ASSUME AccountsAssumption, TypeOK, NEW h \in Handlers, Step(h), NEW k \in Keys
  PROVE  \/ keys'[k] = keys[k]
         \/ keys[k] = None /\ job[h] \in Authed /\ keys'[k].org = job[h].org
         \/ /\ keys[k] # None /\ keys'[k] # None
            /\ keys'[k].org = keys[k].org /\ keys'[k].revoked
<1>1. ASSUME NEW c \in Keys, CreateAPIKey(h, c)
      PROVE  \/ keys'[k] = keys[k]
             \/ keys[k] = None /\ job[h] \in Authed /\ keys'[k].org = job[h].org
  BY <1>1 DEF CreateAPIKey, InsertKey, TypeOK
<1>2. ASSUME NEW c \in Keys, RevokeAPIKey(h, c)
      PROVE  \/ keys'[k] = keys[k]
             \/ /\ keys[k] # None /\ keys'[k] # None
                /\ keys'[k].org = keys[k].org /\ keys'[k].revoked
  <2>1. CASE k = c
    <3>1. keys[k] \in KeyRow /\ keys[k] # None
      BY <1>2, <2>1, RowFields DEF RevokeAPIKey, RevokeKey
    <3>2. keys'[k] = [keys[k] EXCEPT !.revoked = TRUE]
      BY <1>2, <2>1 DEF RevokeAPIKey, RevokeKey, TypeOK
    <3>3. /\ [keys[k] EXCEPT !.revoked = TRUE] \in KeyRow
          /\ [keys[k] EXCEPT !.revoked = TRUE].org = keys[k].org
          /\ [keys[k] EXCEPT !.revoked = TRUE].revoked
      BY <3>1 DEF KeyRow
    <3> QED
      BY <3>1, <3>2, <3>3 DEF AccountsAssumption
  <2>2. CASE k # c
    BY <1>2, <2>2 DEF RevokeAPIKey, RevokeKey, TypeOK
  <2> QED
    BY <2>1, <2>2
<1> QED
  BY <1>1, <1>2
  DEF Step, Register, RegisterOwner, Login, LoginWithOrgID, generateTokenPair, Refresh, NotRevoked,
      Unanswered, RefreshToken, ValidateAccessToken, ValidateAPIKey, UpdateLastUsed, Logout,
      Revoke, AddUser, UpdateUser, WriteUser, DeleteUser, DropUser, Abandon

\* A pair that was handed out never changes; a new one has the claims that the
\* request read.
LEMMA PairStep ==
  ASSUME AccountsAssumption, TypeOK, NEW h \in Handlers, Step(h), NEW p \in Pairs
  PROVE  \/ pairs'[p] = pairs[p]
         \/ /\ p \notin Issued /\ job[h] \in Issuing /\ pairs'[p] # None
            /\ pairs'[p].user = job[h].user /\ pairs'[p].org = job[h].org
            /\ pairs'[p].role = job[h].role /\ pairs'[p].read = job[h].read
            /\ pairs'[p].at = now
<1>1. CASE generateTokenPair(h)
  <2>1. PICK q \in Pairs \ Issued :
          pairs' = [pairs EXCEPT ![q] =
            [user |-> job[h].user, org |-> job[h].org, role |-> job[h].role,
             at |-> now, read |-> job[h].read]]
    BY <1>1 DEF generateTokenPair
  <2>2. [user |-> job[h].user, org |-> job[h].org, role |-> job[h].role,
         at |-> now, read |-> job[h].read] \in Pair
    BY <1>1, JobFields DEF generateTokenPair, Pair, TypeOK
  <2> QED
    BY <1>1, <2>1, <2>2 DEF generateTokenPair, TypeOK, AccountsAssumption
<1>2. CASE UNCHANGED pairs
  BY <1>2
<1>3. generateTokenPair(h) \/ UNCHANGED pairs
  BY DEF Step, Register, RegisterOwner, Login, LoginWithOrgID, Refresh, NotRevoked,
      Unanswered, RefreshToken, ValidateAccessToken, ValidateAPIKey, UpdateLastUsed, Logout,
      Revoke, AddUser, UpdateUser, WriteUser, DeleteUser, DropUser, CreateAPIKey, RevokeAPIKey,
      Abandon
<1> QED
  BY <1>1, <1>2, <1>3

LEMMA IssuedStay ==
  ASSUME AccountsAssumption, TypeOK, NEW h \in Handlers, Step(h)
  PROVE  \A p \in Issued : p \in Issued' /\ pairs'[p] = pairs[p]
BY PairStep DEF Issued

\* Other requests stand where they stood; the requester comes to what it does next
\* from what it read in this step, or did before.
Came(h) ==
  /\ \A g \in Handlers \ {h} : job'[g] = job[g]
  /\ job'[h] \in Founding => Register(h, job'[h].org)
  /\ job'[h] \in LoggingIn => LET u == job'[h].user IN
       \/ users[u] # None /\ users'[u] = users[u]
       \/ users[u] = None /\ users'[u] # None
  /\ job'[h] \in Refreshing => LET p == job'[h].pair IN
       \/ p \in Issued /\ job'[h].op = "check" /\ job'[h].listed = (revoked[p] > 0)
       \/ /\ job[h] \in Refreshing /\ job[h].pair = p /\ job'[h].op = "reload"
          /\ job'[h].listed => job[h].listed /\ revoked[p] <= now
  /\ job'[h] \in Issuing => LET u == job'[h].user IN
       /\ users[u] # None /\ users'[u] = users[u] /\ job'[h].read = now
       /\ job'[h].org = users[u].org /\ job'[h].role = users[u].role
  /\ job'[h] \in Authed =>
       \/ \E p \in Issued : Valid(p, AccessTTL) /\ job'[h].org = pairs[p].org
       \/ job[h] \in Touching /\ job'[h].org = job[h].org
  /\ job'[h] \in Touching => \E k \in Keys :
       keys[k] # None /\ ~keys[k].revoked /\ job'[h].org = keys[k].org
  /\ job'[h] \in LoggingOut => LET p == job'[h].pair IN
       /\ p \in Issued /\ revoked' = revoked
       /\ now + job'[h].ttl = pairs[p].at + RefreshTTL
  /\ job'[h] \in Writing \cup Dropping => LET u == job'[h].user IN
       /\ job[h] \in Authed /\ job'[h].org = job[h].org
       /\ users'[u] = users[u] /\ users[u] # None /\ users[u].org = job[h].org

LEMMA JobStep ==
  ASSUME AccountsAssumption, TypeOK, HeldAreIssued, NEW h \in Handlers, Step(h)
  PROVE  Came(h)
<1> USE DEF Came
<1>0. ASSUME NEW j, Goto(h, j)
      PROVE  job'[h] = j /\ \A g \in Handlers \ {h} : job'[g] = job[g]
  BY <1>0 DEF Goto, TypeOK
<1>1. ASSUME Goto(h, Idle) PROVE Came(h)
  BY <1>0, <1>1, JobFields DEF Idle
<1>2. ASSUME NEW o \in Orgs, Register(h, o) PROVE Came(h)
  <2>1. job'[h] = [op |-> "found", org |-> o] /\ \A g \in Handlers \ {h} : job'[g] = job[g]
    BY <1>0, <1>2 DEF Register
  <2> QED
    BY <1>2, <2>1, JobFields DEF Register
<1>3. ASSUME RegisterOwner(h) PROVE Came(h)
  <2>1. PICK u \in Users : users[u] # users'[u] /\ Goto(h, [op |-> "login", user |-> u])
    BY <1>3 DEF RegisterOwner
  <2>2. job'[h] = [op |-> "login", user |-> u] /\ \A g \in Handlers \ {h} : job'[g] = job[g]
    BY <1>0, <2>1
  <2>3. PICK v \in Users :
          ~Known(v) /\ InsertUser(v, [org |-> job[h].org, role |-> "owner", active |-> TRUE])
    BY <1>3 DEF RegisterOwner, CreateUser
  <2>4. [org |-> job[h].org, role |-> "owner", active |-> TRUE] \in UserRow
    BY <1>3, JobFields DEF RegisterOwner, UserRow, AccountsAssumption
  <2>5. users[u] = None /\ users'[u] # None
    BY <2>1, <2>3, <2>4 DEF InsertUser, Known, TypeOK, AccountsAssumption
  <2> QED
    BY <2>2, <2>5, JobFields
<1>4. ASSUME NEW u \in Users, Login(h, u) PROVE Came(h)
  <2>1. job'[h] = [op |-> "login", user |-> u] /\ \A g \in Handlers \ {h} : job'[g] = job[g]
    BY <1>0, <1>4 DEF Login
  <2> QED
    BY <1>4, <2>1, JobFields DEF Login
<1>5. ASSUME NEW u \in Users, SignFor(h, u), UNCHANGED users PROVE Came(h)
  <2>1. /\ job'[h] = [op |-> "issue", user |-> u, org |-> users[u].org,
                      role |-> users[u].role, read |-> now]
        /\ \A g \in Handlers \ {h} : job'[g] = job[g]
    BY <1>0, <1>5 DEF SignFor
  <2> QED
    BY <1>5, <2>1, JobFields DEF SignFor
<1>6. ASSUME NEW p \in Pairs, Refresh(h, p) PROVE Came(h)
  <2>1. /\ job'[h] = [op |-> "check", pair |-> p, listed |-> revoked[p] > 0]
        /\ \A g \in Handlers \ {h} : job'[g] = job[g]
    BY <1>0, <1>6 DEF Refresh
  <2> QED
    BY <1>6, <2>1, JobFields DEF Refresh, Valid
<1>7. ASSUME NotRevoked(h) \/ Unanswered(h) PROVE Came(h)
  <2>1. PICK l \in {job[h].listed, FALSE} :
          /\ Goto(h, [op |-> "reload", pair |-> job[h].pair, listed |-> l])
          /\ l => job[h].listed /\ revoked[job[h].pair] <= now
    BY <1>7 DEF NotRevoked, Unanswered
  <2>2. /\ job'[h] = [op |-> "reload", pair |-> job[h].pair, listed |-> l]
        /\ \A g \in Handlers \ {h} : job'[g] = job[g]
    BY <1>0, <2>1
  <2> QED
    BY <1>7, <2>1, <2>2, JobFields DEF NotRevoked, Unanswered
<1>8. ASSUME NEW p \in Pairs, ValidateAccessToken(h, p) PROVE Came(h)
  <2>1. /\ job'[h] = [op |-> "authed", org |-> pairs[p].org, user |-> pairs[p].user,
                      admin |-> pairs[p].role \in Admins]
        /\ \A g \in Handlers \ {h} : job'[g] = job[g]
    BY <1>0, <1>8 DEF ValidateAccessToken
  <2> QED
    BY <1>8, <2>1, JobFields DEF ValidateAccessToken, Valid
<1>9. ASSUME NEW k \in Keys, ValidateAPIKey(h, k) PROVE Came(h)
  <2>1. /\ job'[h] = [op |-> "touch", key |-> k, org |-> keys[k].org]
        /\ \A g \in Handlers \ {h} : job'[g] = job[g]
    BY <1>0, <1>9 DEF ValidateAPIKey
  <2> QED
    BY <1>9, <2>1, JobFields DEF ValidateAPIKey
<1>10. ASSUME UpdateLastUsed(h) PROVE Came(h)
  <2>1. /\ job'[h] = [op |-> "authed", org |-> job[h].org, user |-> None, admin |-> TRUE]
        /\ \A g \in Handlers \ {h} : job'[g] = job[g]
    BY <1>0, <1>10 DEF UpdateLastUsed
  <2> QED
    BY <1>10, <2>1, JobFields DEF UpdateLastUsed
<1>11. ASSUME NEW p \in Pairs, Logout(h, p) PROVE Came(h)
  <2>1. /\ job'[h] = [op |-> "revoke", pair |-> p, ttl |-> pairs[p].at + RefreshTTL - now]
        /\ \A g \in Handlers \ {h} : job'[g] = job[g]
    BY <1>0, <1>11 DEF Logout
  <2>2. now + job'[h].ttl = pairs[p].at + RefreshTTL
    BY <1>11, <2>1, RowFields DEF Logout, Valid, TypeOK, AccountsAssumption
  <2> QED
    BY <1>11, <2>1, <2>2, JobFields DEF Logout, Valid
<1>12. ASSUME NEW u \in Users, UpdateUser(h, u) PROVE Came(h)
  <2>1. PICK r \in Roles, a \in BOOLEAN :
          Goto(h, [op |-> "write", org |-> job[h].org, user |-> u, role |-> r, active |-> a])
    BY <1>12 DEF UpdateUser
  <2>2. /\ job'[h] = [op |-> "write", org |-> job[h].org, user |-> u, role |-> r, active |-> a]
        /\ \A g \in Handlers \ {h} : job'[g] = job[g]
    BY <1>0, <2>1
  <2> QED
    BY <1>12, <2>2, JobFields DEF UpdateUser, RequireRole, GetUser
<1>13. ASSUME NEW u \in Users, DeleteUser(h, u) PROVE Came(h)
  <2>1. /\ job'[h] = [op |-> "drop", org |-> job[h].org, user |-> u]
        /\ \A g \in Handlers \ {h} : job'[g] = job[g]
    BY <1>0, <1>13 DEF DeleteUser
  <2> QED
    BY <1>13, <2>1, JobFields DEF DeleteUser, RequireRole, GetUser
<1>14. ASSUME LoginWithOrgID(h) PROVE Came(h)
  BY <1>5, <1>14, JobFields DEF LoginWithOrgID
<1>15. ASSUME RefreshToken(h) PROVE Came(h)
  <2>1. pairs[job[h].pair].user \in Users
    BY <1>15, JobFields, RowFields DEF RefreshToken, HeldAreIssued
  <2> QED
    BY <1>5, <1>15, <2>1 DEF RefreshToken
<1> QED
  BY <1>1, <1>2, <1>3, <1>4, <1>6, <1>7, <1>8, <1>9, <1>10, <1>11, <1>12, <1>13, <1>14, <1>15
  DEF Step, generateTokenPair, Revoke, AddUser, WriteUser, DropUser, CreateAPIKey, RevokeAPIKey,
      Abandon

-----------------------------------------------------------------------------
LEMMA HeldStep ==
  ASSUME AccountsAssumption, TypeOK, HeldAreIssued, [Next]_vars
  PROVE  HeldAreIssued'
<1>1. ASSUME NEW h \in Handlers, Step(h) PROVE HeldAreIssued'
  <2> SUFFICES ASSUME NEW g \in Handlers, job'[g] \in Refreshing \cup LoggingOut
               PROVE  job'[g].pair \in Issued'
    BY DEF HeldAreIssued
  <2>1. \A p \in Issued : p \in Issued'
    BY <1>1, IssuedStay
  <2>2. Came(h)
    BY <1>1, JobStep
  <2>3. job'[g].pair \in Issued
    BY <2>2 DEF Came, HeldAreIssued
  <2> QED
    BY <2>1, <2>3
<1>2. CASE Tick
  BY <1>2 DEF Tick, HeldAreIssued, Issued
<1>3. CASE UNCHANGED vars
  BY <1>3 DEF vars, HeldAreIssued, Issued
<1> QED
  BY <1>1, <1>2, <1>3, NextIsStep

(***************************************************************************)
(* Every row, token and request is of an organization that was registered, *)
(* so that one about to be registered has none.                            *)
(***************************************************************************)
OfOrg(h) ==
  job[h] \in Founding \cup Issuing \cup Authed \cup Touching \cup Writing \cup Dropping

OrgsExist ==
  /\ \A u \in Users : users[u] # None => users[u].org \in orgs
  /\ \A k \in Keys : keys[k] # None => keys[k].org \in orgs
  /\ \A p \in Issued : pairs[p].org \in orgs
  /\ \A h \in Handlers : OfOrg(h) => job[h].org \in orgs

LEMMA OrgsStay ==
  ASSUME NEW h \in Handlers, Step(h) PROVE orgs \subseteq orgs'
BY DEF Step, Register, RegisterOwner, Login, LoginWithOrgID, generateTokenPair, Refresh, NotRevoked,
   Unanswered, RefreshToken, ValidateAccessToken, ValidateAPIKey, UpdateLastUsed, Logout,
   Revoke, AddUser, UpdateUser, WriteUser, DeleteUser, DropUser, CreateAPIKey, RevokeAPIKey, Abandon

LEMMA OrgsStep ==
  ASSUME AccountsAssumption, TypeOK, HeldAreIssued, OrgsExist, [Next]_vars
  PROVE  OrgsExist'
<1>1. ASSUME NEW h \in Handlers, Step(h) PROVE OrgsExist'
  <2>0. orgs \subseteq orgs' /\ (OfOrg(h) => job[h].org \in orgs')
    BY <1>1, OrgsStay DEF OrgsExist
  <2>1. ASSUME NEW u \in Users, users'[u] # None PROVE users'[u].org \in orgs'
    BY <1>1, <2>0, <2>1, UserStep DEF OrgsExist, OfOrg
  <2>2. ASSUME NEW k \in Keys, keys'[k] # None PROVE keys'[k].org \in orgs'
    <3>1. \/ keys'[k] = keys[k]
          \/ job[h] \in Authed /\ keys'[k].org = job[h].org
          \/ keys[k] # None /\ keys'[k].org = keys[k].org
      BY <1>1, KeyStep
    <3> QED
      BY <2>0, <2>2, <3>1 DEF OrgsExist, OfOrg
  <2>3. ASSUME NEW p \in Pairs, pairs'[p] # None PROVE pairs'[p].org \in orgs'
    <3>1. pairs'[p] = pairs[p] \/ (job[h] \in Issuing /\ pairs'[p].org = job[h].org)
      BY <1>1, PairStep
    <3> QED
      BY <2>0, <2>3, <3>1 DEF OrgsExist, OfOrg, Issued
  <2>4. ASSUME NEW g \in Handlers, OfOrg(g)' PROVE job'[g].org \in orgs'
    <3>1. Came(h)
      BY <1>1, JobStep
    <3>2. CASE g # h
      BY <2>0, <2>4, <3>1, <3>2 DEF Came, OrgsExist, OfOrg
    <3>3. CASE g = h
      <4>1. job'[h] \in Issuing => job'[h].user \in Users
        BY JobFields
      <4> QED
        BY <2>0, <2>4, <3>1, <3>3, <4>1 DEF Came, OrgsExist, OfOrg, Register
    <3> QED
      BY <3>2, <3>3
  <2> QED
    BY <2>1, <2>2, <2>3, <2>4 DEF OrgsExist, Issued
<1>2. CASE Tick
  BY <1>2 DEF Tick, OrgsExist, OfOrg, Issued
<1>3. CASE UNCHANGED vars
  BY <1>3 DEF vars, OrgsExist, OfOrg, Issued
<1> QED
  BY <1>1, <1>2, <1>3, NextIsStep

-----------------------------------------------------------------------------
(***************************************************************************)
(* Claims.  A write is later than every read there has been, so it makes   *)
(* all claims about its user old; and an id that a token or a request      *)
(* names is not given to anybody else.                                     *)
(***************************************************************************)
ReadsArePast ==
  /\ \A p \in Issued : pairs[p].read <= now
  /\ \A h \in Handlers : job[h] \in Issuing => job[h].read <= now

\* What a step does to the clock and to the list.
LEMMA ClockStep ==
  ASSUME NEW h \in Handlers, Step(h)
  PROVE  now' = now /\ (revoked' = revoked \/ Revoke(h))
BY DEF Step, Register, RegisterOwner, Login, LoginWithOrgID, generateTokenPair, Refresh, NotRevoked,
   Unanswered, RefreshToken, ValidateAccessToken, ValidateAPIKey, UpdateLastUsed, Logout,
   Revoke, AddUser, UpdateUser, WriteUser, DeleteUser, DropUser, CreateAPIKey, RevokeAPIKey, Abandon

LEMMA ReadsStep ==
  ASSUME AccountsAssumption, TypeOK, HeldAreIssued, ReadsArePast, [Next]_vars
  PROVE  ReadsArePast'
<1>0. now \in Nat
  BY DEF TypeOK
<1>1. ASSUME NEW h \in Handlers, Step(h) PROVE ReadsArePast'
  <2>1. now' = now
    BY <1>1, ClockStep
  <2>2. ASSUME NEW p \in Pairs, pairs'[p] # None PROVE pairs'[p].read <= now
    BY <1>1, <2>2, PairStep DEF ReadsArePast, Issued
  <2>3. ASSUME NEW g \in Handlers, job'[g] \in Issuing PROVE job'[g].read <= now
    <3>1. Came(h)
      BY <1>1, JobStep
    <3> QED
      BY <1>0, <2>3, <3>1 DEF Came, ReadsArePast
  <2> QED
    BY <2>1, <2>2, <2>3 DEF ReadsArePast, Issued
<1>2. CASE Tick
  <2>1. now' = now + 1 /\ pairs' = pairs /\ job' = job
    BY <1>2 DEF Tick
  <2>2. \A p \in Issued : pairs[p].read \in Nat
    BY RowFields DEF Issued
  <2>3. \A h \in Handlers : job[h] \in Issuing => job[h].read \in Nat
    BY JobFields
  <2> QED
    BY <1>0, <2>1, <2>2, <2>3 DEF ReadsArePast, Issued
<1>3. CASE UNCHANGED vars
  BY <1>3 DEF vars, ReadsArePast, Issued
<1> QED
  BY <1>1, <1>2, <1>3, NextIsStep

\* Claims about a user that somebody holds: a write makes them old, nobody gets
\* the id, and otherwise the row is as it was.
LEMMA ClaimsStay ==
  ASSUME AccountsAssumption, TypeOK, NEW h \in Handlers, Step(h),
         NEW u \in Users, Known(u), NEW read \in Nat, read <= now, read > changed'[u]
  PROVE  users'[u] = users[u] /\ read > changed[u]
<1>1. now \in Nat /\ changed[u] \in Nat
  BY DEF TypeOK
<1>2. changed'[u] # now
  BY <1>1
<1> QED
  BY <1>1, <1>2, UserStep

LEMMA ClaimsStep ==
  ASSUME AccountsAssumption, TypeOK, HeldAreIssued, ReadsArePast, ClaimsFollowRow, [Next]_vars
  PROVE  ClaimsFollowRow'
<1>1. ASSUME NEW h \in Handlers, Step(h) PROVE ClaimsFollowRow'
  <2>1. ASSUME NEW g \in Handlers, job[g] \in Issuing, job[g].read > changed'[job[g].user]
        PROVE  users'[job[g].user] = users[job[g].user] /\ Current(job[g])
    <3>1. job[g].user \in Users /\ job[g].read \in Nat /\ job[g].read <= now
      BY <2>1, JobFields DEF ReadsArePast
    <3>2. Known(job[g].user)
      BY <2>1 DEF Known, About
    <3>3. /\ users'[job[g].user] = users[job[g].user]
          /\ job[g].read > changed[job[g].user]
      BY <1>1, <2>1, <3>1, <3>2, ClaimsStay
    <3> QED
      BY <2>1, <3>3 DEF ClaimsFollowRow
  <2>2. ASSUME NEW p \in Pairs, pairs'[p] # None, pairs'[p].read > changed'[pairs'[p].user]
        PROVE  Current(pairs[p])'
    <3>1. CASE pairs'[p] = pairs[p]
      <4>1. p \in Issued
        BY <2>2, <3>1 DEF Issued
      <4>2. pairs[p].user \in Users /\ pairs[p].read \in Nat /\ pairs[p].read <= now
        BY <4>1, RowFields DEF ReadsArePast
      <4>3. Known(pairs[p].user)
        BY <4>1 DEF Known
      <4>4. /\ users'[pairs[p].user] = users[pairs[p].user]
            /\ pairs[p].read > changed[pairs[p].user]
        BY <1>1, <2>2, <3>1, <4>2, <4>3, ClaimsStay
      <4>5. Current(pairs[p])
        BY <4>1, <4>4 DEF ClaimsFollowRow
      <4> QED
        BY <3>1, <4>4, <4>5 DEF Current
    <3>2. CASE pairs'[p] # pairs[p]
      <4>1. /\ job[h] \in Issuing /\ pairs'[p].user = job[h].user /\ pairs'[p].org = job[h].org
            /\ pairs'[p].role = job[h].role /\ pairs'[p].read = job[h].read
        BY <1>1, <3>2, PairStep
      <4>2. users'[job[h].user] = users[job[h].user] /\ Current(job[h])
        BY <2>1, <2>2, <4>1
      <4> QED
        BY <4>1, <4>2 DEF Current
    <3> QED
      BY <3>1, <3>2
  <2>3. ASSUME NEW g \in Handlers, job'[g] \in Issuing, job'[g].read > changed'[job'[g].user]
        PROVE  Current(job[g])'
    <3>1. Came(h)
      BY <1>1, JobStep
    <3>2. CASE g = h
      BY <2>3, <3>1, <3>2 DEF Came, Current
    <3>3. CASE g # h
      <4>1. job'[g] = job[g]
        BY <3>1, <3>3 DEF Came
      <4> QED
        BY <2>1, <2>3, <4>1 DEF Current
    <3> QED
      BY <3>2, <3>3
  <2> QED
    BY <2>2, <2>3 DEF ClaimsFollowRow, Issued
<1>2. CASE Tick
  BY <1>2 DEF Tick, ClaimsFollowRow, Current, Issued
<1>3. CASE UNCHANGED vars
  BY <1>3 DEF vars, ClaimsFollowRow, Current, Issued
<1> QED
  BY <1>1, <1>2, <1>3, NextIsStep

LEMMA HomeStep ==
  ASSUME AccountsAssumption, TypeOK, HeldAreIssued, RequestsStayHome, [Next]_vars
  PROVE  RequestsStayHome'
<1>1. ASSUME NEW h \in Handlers, Step(h) PROVE RequestsStayHome'
  <2> SUFFICES ASSUME NEW g \in Handlers, job'[g] \in Writing \cup Dropping,
                      users'[job'[g].user] # None
               PROVE  users'[job'[g].user].org = job'[g].org
    BY DEF RequestsStayHome
  <2>1. Came(h)
    BY <1>1, JobStep
  <2>2. CASE g = h
    BY <2>1, <2>2 DEF Came
  <2>3. CASE g # h
    <3>1. job'[g] = job[g]
      BY <2>1, <2>3 DEF Came
    <3>2. job[g].user \in Users /\ Known(job[g].user)
      BY <3>1, JobFields DEF Known, About
    <3>3. /\ users[job[g].user] # None
          /\ users'[job[g].user].org = users[job[g].user].org
      BY <1>1, <3>1, <3>2, UserStep
    <3> QED
      BY <3>1, <3>3 DEF RequestsStayHome
  <2> QED
    BY <2>2, <2>3
<1>2. CASE Tick
  BY <1>2 DEF Tick, RequestsStayHome
<1>3. CASE UNCHANGED vars
  BY <1>3 DEF vars, RequestsStayHome
<1> QED
  BY <1>1, <1>2, <1>3, NextIsStep

-----------------------------------------------------------------------------
(***************************************************************************)
(* Revocation.  An entry of the list, and what a logout is about to enter, *)
(* lasts at least as long as its token; a refresh that is "listed" is one  *)
(* of such a token.                                                        *)
(***************************************************************************)
LoggedOut(p) == p \in Issued /\ revoked[p] >= pairs[p].at + RefreshTTL

EntriesOutlive ==
  /\ \A p \in Pairs : revoked[p] > 0 => LoggedOut(p)
  /\ \A h \in Handlers :
       /\ job[h] \in Refreshing /\ job[h].listed => LoggedOut(job[h].pair)
       /\ job[h] \in LoggingOut =>
            now + job[h].ttl >= pairs[job[h].pair].at + RefreshTTL

LEMMA LoggedOutStep ==
  ASSUME AccountsAssumption, TypeOK, HeldAreIssued, EntriesOutlive, NEW h \in Handlers, Step(h),
         NEW p \in Pairs, LoggedOut(p) \/ revoked'[p] > 0
  PROVE  LoggedOut(p)'
<1>1. CASE revoked'[p] = revoked[p]
  <2>1. LoggedOut(p)
    BY <1>1 DEF EntriesOutlive
  <2>2. p \in Issued' /\ pairs'[p] = pairs[p]
    BY <2>1, IssuedStay DEF LoggedOut
  <2> QED
    BY <1>1, <2>1, <2>2 DEF LoggedOut
<1>2. CASE revoked'[p] # revoked[p]
  <2>1. Revoke(h)
    BY <1>2, ClockStep
  <2>2. job[h] \in LoggingOut /\ job[h].pair = p /\ revoked'[p] = now + job[h].ttl
    BY <1>2, <2>1, JobFields DEF Revoke, TypeOK
  <2>3. p \in Issued /\ now + job[h].ttl >= pairs[p].at + RefreshTTL
    BY <2>2 DEF HeldAreIssued, EntriesOutlive
  <2>4. p \in Issued' /\ pairs'[p] = pairs[p]
    BY <2>3, IssuedStay
  <2> QED
    BY <2>2, <2>3, <2>4 DEF LoggedOut
<1> QED
  BY <1>1, <1>2

LEMMA EntriesStep ==
  ASSUME AccountsAssumption, TypeOK, HeldAreIssued, EntriesOutlive, [Next]_vars
  PROVE  EntriesOutlive'
<1>0. now \in Nat /\ RefreshTTL \in Nat
  BY DEF TypeOK, AccountsAssumption
<1>1. ASSUME NEW h \in Handlers, Step(h) PROVE EntriesOutlive'
  <2>1. \A p \in Pairs : LoggedOut(p) \/ revoked'[p] > 0 => LoggedOut(p)'
    BY <1>1, LoggedOutStep
  <2>2. Came(h) /\ now' = now
    BY <1>1, JobStep, ClockStep
  <2>3. ASSUME NEW g \in Handlers, job'[g] \in Refreshing, job'[g].listed
        PROVE  LoggedOut(job[g].pair)'
    <3>1. job'[g].pair \in Pairs
      BY <2>3, JobFields
    <3>2. LoggedOut(job'[g].pair)
      BY <2>2, <2>3, <3>1 DEF Came, EntriesOutlive
    <3>3. PICK p \in Pairs : p = job'[g].pair
      BY <3>1
    <3>4. LoggedOut(p)'
      BY <2>1, <3>2, <3>3
    <3> QED
      BY <3>3, <3>4 DEF LoggedOut
  <2>4. ASSUME NEW g \in Handlers, job'[g] \in LoggingOut
        PROVE  now' + job'[g].ttl >= pairs'[job'[g].pair].at + RefreshTTL
    <3>1. job'[g].pair \in Issued
      BY <2>2, <2>4 DEF Came, HeldAreIssued
    <3>2. pairs'[job'[g].pair] = pairs[job'[g].pair]
      BY <1>1, <3>1, IssuedStay
    <3>3. now + job'[g].ttl >= pairs[job'[g].pair].at + RefreshTTL
      <4>1. job'[g].ttl \in Nat /\ pairs[job'[g].pair].at \in Nat
        BY <2>4, <3>1, JobFields, RowFields DEF Issued
      <4> QED
        BY <1>0, <2>2, <2>4, <4>1 DEF Came, EntriesOutlive
    <3> QED
      BY <2>2, <3>2, <3>3
  <2> QED
    BY <2>1, <2>3, <2>4 DEF EntriesOutlive
<1>2. CASE Tick
  <2>1. /\ now' = now + 1 /\ pairs' = pairs /\ job' = job /\ revoked' = revoked
        /\ \A p \in Pairs : LoggedOut(p)' <=> LoggedOut(p)
    BY <1>2 DEF Tick, LoggedOut, Issued
  <2>2. ASSUME NEW h \in Handlers, job[h] \in LoggingOut
        PROVE  now' + job[h].ttl >= pairs[job[h].pair].at + RefreshTTL
    <3>1. job[h].ttl \in Nat /\ pairs[job[h].pair].at \in Nat
      BY <2>2, JobFields, RowFields DEF HeldAreIssued
    <3>2. now + job[h].ttl >= pairs[job[h].pair].at + RefreshTTL
      BY <2>2 DEF EntriesOutlive
    <3> QED
      BY <1>0, <2>1, <3>1, <3>2
  <2>3. \A h \in Handlers : job[h] \in Refreshing => job[h].pair \in Pairs
    BY JobFields
  <2> QED
    BY <2>1, <2>2, <2>3 DEF EntriesOutlive
<1>3. CASE UNCHANGED vars
  BY <1>3 DEF vars, EntriesOutlive, LoggedOut, Issued
<1> QED
  BY <1>1, <1>2, <1>3, NextIsStep

LEMMA RevokedStep ==
  ASSUME AccountsAssumption, TypeOK, HeldAreIssued, EntriesOutlive, RevokedIsRefused, [Next]_vars
  PROVE  RevokedIsRefused'
<1>0. now \in Nat /\ RefreshTTL \in Nat
  BY DEF TypeOK, AccountsAssumption
<1>1. ASSUME NEW h \in Handlers, Step(h) PROVE RevokedIsRefused'
  <2> SUFFICES ASSUME NEW g \in Handlers, job'[g] \in Refreshing, job'[g].op = "reload",
                      job'[g].listed
               PROVE  ~Valid(job[g].pair, RefreshTTL)'
    BY DEF RevokedIsRefused
  <2> DEFINE p == job'[g].pair
  <2>1. Came(h) /\ now' = now
    BY <1>1, JobStep, ClockStep
  <2>2. job[g] \in Refreshing /\ job[g].pair = p /\ job[g].listed /\ p \in Issued
    BY <2>1 DEF Came, HeldAreIssued
  <2>3. pairs'[p] = pairs[p] /\ pairs[p].at \in Nat
    BY <1>1, <2>2, IssuedStay, RowFields DEF Issued
  <2>4. now >= pairs[p].at + RefreshTTL
    <3>1. CASE g = h
      <4>1. revoked[p] <= now /\ LoggedOut(p)
        BY <2>1, <2>2, <3>1 DEF Came, EntriesOutlive
      <4>2. revoked[p] \in Nat
        BY <2>2 DEF TypeOK, Issued
      <4> QED
        BY <1>0, <2>3, <4>1, <4>2 DEF LoggedOut
    <3>2. CASE g # h
      <4>1. ~Valid(p, RefreshTTL)
        BY <2>1, <2>2, <3>2 DEF Came, RevokedIsRefused
      <4> QED
        BY <1>0, <2>2, <2>3, <4>1 DEF Valid
    <3> QED
      BY <3>1, <3>2
  <2> QED
    BY <1>0, <2>1, <2>3, <2>4 DEF Valid
<1>2. CASE Tick
  <2>1. now' = now + 1 /\ pairs' = pairs /\ job' = job
    BY <1>2 DEF Tick
  <2> SUFFICES ASSUME NEW g \in Handlers, job[g] \in Refreshing, job[g].op = "reload",
                      job[g].listed
               PROVE  ~Valid(job[g].pair, RefreshTTL)'
    BY <2>1 DEF RevokedIsRefused, Valid, Issued
  <2>2. job[g].pair \in Issued /\ ~Valid(job[g].pair, RefreshTTL)
    BY DEF HeldAreIssued, RevokedIsRefused
  <2>3. pairs[job[g].pair].at \in Nat
    BY <2>2, RowFields DEF Issued
  <2> QED
    BY <1>0, <2>1, <2>2, <2>3 DEF Valid
<1>3. CASE UNCHANGED vars
  BY <1>3 DEF vars, RevokedIsRefused, Valid, Issued
<1> QED
  BY <1>1, <1>2, <1>3, NextIsStep

-----------------------------------------------------------------------------
(***************************************************************************)
(* Nobody enters.  An organization without users and live credentials has  *)
(* no way in but a request that already runs for it.                       *)
(***************************************************************************)
Quiet(o) ==
  /\ \A u \in Users : users[u] # None => users[u].org # o
  /\ \A k \in Keys : keys[k] # None /\ keys[k].org = o => keys[k].revoked
  /\ \A p \in Issued : pairs[p].org = o => ~Valid(p, AccessTTL)

LEMMA NobodyEnters ==
  ASSUME AccountsAssumption, TypeOK, HeldAreIssued, NEW h \in Handlers, Step(h),
         NEW o \in orgs, Quiet(o), ~For(h, o)
  PROVE  /\ Quiet(o)'
         /\ \A k \in Keys : keys'[k] # None /\ keys'[k].org = o => keys[k] # None /\ keys[k].org = o
         /\ \A p \in Issued' : pairs'[p].org = o => p \in Issued /\ pairs[p].org = o
         /\ ~For(h, o)'
         /\ \A g \in Handlers \ {h} : For(g, o)' => For(g, o)
<1>0. Came(h) /\ now' = now
  BY JobStep, ClockStep
<1>1. ASSUME NEW u \in Users, users'[u] # None PROVE users'[u].org # o
  <2>1. \/ users'[u] = users[u]
        \/ job[h] \in Founding \cup Authed /\ users'[u].org = job[h].org
        \/ users[u] # None /\ users'[u].org = users[u].org
    BY <1>1, UserStep
  <2> QED
    BY <1>1, <2>1 DEF Quiet, For
<1>2. ASSUME NEW k \in Keys, keys'[k] # None, keys'[k].org = o
      PROVE  keys[k] # None /\ keys[k].org = o /\ keys'[k].revoked
  <2>1. job[h] \in Authed => job[h].org # o
    BY DEF For
  <2> QED
    BY <1>2, <2>1, KeyStep DEF Quiet
<1>3. ASSUME NEW p \in Pairs, pairs'[p] # None, pairs'[p].org = o
      PROVE  p \in Issued /\ pairs'[p] = pairs[p]
  <2>1. job[h] \in Issuing => job[h].org # o
    BY DEF For
  <2> QED
    BY <1>3, <2>1, PairStep DEF Issued
<1>4. Quiet(o)'
  <2>1. ASSUME NEW p \in Pairs, pairs'[p] # None, pairs'[p].org = o
        PROVE  ~Valid(p, AccessTTL)'
    BY <1>0, <1>3, <2>1 DEF Quiet, Valid
  <2> QED
    BY <1>1, <1>2, <2>1 DEF Quiet, Issued
<1>5. ASSUME NEW g \in Handlers, job'[g] \in LoggingIn
      PROVE  ~(users'[job'[g].user] # None /\ users'[job'[g].user].org = o)
  BY <1>1, <1>5, JobFields
<1>6. ~For(h, o)'
  <2>1. job'[h] \in Founding => job'[h].org # o
    BY <1>0 DEF Came, Register
  <2>2. job'[h] \in Issuing => job'[h].org # o
    BY <1>0, JobFields DEF Came, Quiet
  <2>3. job'[h] \in Authed => job'[h].org # o
    BY <1>0 DEF Came, Quiet, For
  <2>4. job'[h] \in Touching => job'[h].org # o
    BY <1>0 DEF Came, Quiet
  <2>5. job'[h] \in Writing \cup Dropping => job'[h].org # o
    BY <1>0 DEF Came, For
  <2> QED
    BY <1>5, <2>1, <2>2, <2>3, <2>4, <2>5 DEF For
<1>7. ASSUME NEW g \in Handlers \ {h}, For(g, o)' PROVE For(g, o)
  <2>1. job'[g] = job[g]
    BY <1>0 DEF Came
  <2> QED
    BY <1>5, <1>7, <2>1 DEF For
<1> QED
  BY <1>2, <1>3, <1>4, <1>6, <1>7 DEF Issued

LEMMA FoundedStep ==
  ASSUME AccountsAssumption, TypeOK, HeldAreIssued, OrgsExist, FoundedEmpty, [Next]_vars
  PROVE  FoundedEmpty'
<1>1. ASSUME NEW h \in Handlers, Step(h) PROVE FoundedEmpty'
  <2> SUFFICES ASSUME NEW f \in Handlers, job'[f] \in Founding, NEW o, o = job'[f].org
               PROVE  /\ \A u \in Users : users'[u] # None => users'[u].org # o
                      /\ \A k \in Keys : keys'[k] # None => keys'[k].org # o
                      /\ \A p \in Issued' : pairs'[p].org # o
                      /\ \A g \in Handlers \ {f} : ~For(g, o)'
    BY DEF FoundedEmpty, For
  <2>1. Came(h)
    BY <1>1, JobStep
  <2>2. CASE f = h
    <3>1. /\ o \notin orgs
          /\ UNCHANGED <<users, keys, pairs>>
          /\ \A g \in Handlers \ {h} : job'[g] = job[g]
      BY <2>1, <2>2 DEF Came, Register
    <3>2. \A g \in Handlers : job[g] \in LoggingIn => job[g].user \in Users
      BY JobFields
    <3>3. \A g \in Handlers : ~For(g, o)
      BY <3>1, <3>2 DEF OrgsExist, OfOrg, For
    <3>4. \A g \in Handlers \ {f} : ~For(g, o)'
      BY <2>2, <3>1, <3>3 DEF For
    <3> QED
      BY <3>1, <3>4 DEF OrgsExist, Issued
  <2>3. CASE f # h
    <3>1. job[f] \in Founding /\ o = job[f].org
      BY <2>1, <2>3 DEF Came
    <3>2. o \in orgs
      BY <3>1 DEF OrgsExist, OfOrg
    <3>3. /\ Quiet(o) /\ \A g \in Handlers \ {f} : ~For(g, o)
          /\ \A k \in Keys : keys[k] # None => keys[k].org # o
          /\ \A p \in Issued : pairs[p].org # o
      BY <3>1 DEF FoundedEmpty, Quiet
    <3>4. /\ Quiet(o)'
          /\ \A k \in Keys : keys'[k] # None => keys'[k].org # o
          /\ \A p \in Issued' : pairs'[p].org # o
          /\ ~For(h, o)'
          /\ \A g \in Handlers \ {h} : For(g, o)' => For(g, o)
      BY <1>1, <2>3, <3>2, <3>3, NobodyEnters
    <3> QED
      BY <3>3, <3>4 DEF Quiet
  <2> QED
    BY <2>2, <2>3
<1>2. CASE Tick
  BY <1>2 DEF Tick, FoundedEmpty, For, Issued
<1>3. CASE UNCHANGED vars
  BY <1>3 DEF vars, FoundedEmpty, For, Issued
<1> QED
  BY <1>1, <1>2, <1>3, NextIsStep

LEMMA StrandedStep ==
  ASSUME AccountsAssumption, TypeOK, HeldAreIssued, [Next]_vars, NEW o \in Orgs, Stranded(o)
  PROVE  Stranded(o)'
<1>1. ASSUME NEW h \in Handlers, Step(h) PROVE Stranded(o)'
  <2>1. o \in orgs /\ Quiet(o) /\ \A g \in Handlers : ~For(g, o)
    BY DEF Stranded, Quiet
  <2>2. /\ Quiet(o)' /\ ~For(h, o)'
        /\ \A g \in Handlers \ {h} : For(g, o)' => For(g, o)
    BY <1>1, <2>1, NobodyEnters
  <2>3. o \in orgs'
    BY <1>1, <2>1, OrgsStay
  <2> QED
    BY <2>1, <2>2, <2>3 DEF Stranded, Quiet
<1>2. CASE Tick
  <2>1. now' = now + 1 /\ UNCHANGED <<orgs, users, keys, pairs, job>> /\ now \in Nat
    BY <1>2 DEF Tick, TypeOK
  <2>2. \A p \in Issued : pairs[p].at \in Nat /\ AccessTTL \in Nat
    BY RowFields DEF Issued, AccountsAssumption
  <2> QED
    BY <2>1, <2>2 DEF Stranded, For, Valid, Issued
<1>3. CASE UNCHANGED vars
  BY <1>3 DEF vars, Stranded, For, Valid, Issued
<1> QED
  BY <1>1, <1>2, <1>3, NextIsStep

-----------------------------------------------------------------------------
(***************************************************************************)
(* The invariant, and the theorems.                                        *)
(***************************************************************************)
AccountsInv ==
  /\ TypeOK
  /\ HeldAreIssued
  /\ OrgsExist
  /\ ReadsArePast
  /\ ClaimsFollowRow
  /\ EntriesOutlive
  /\ RevokedIsRefused
  /\ FoundedEmpty
  /\ RequestsStayHome

LEMMA AccountsInit == AccountsAssumption /\ Init => AccountsInv
<1> SUFFICES ASSUME AccountsAssumption, Init PROVE AccountsInv
  OBVIOUS
<1>1. TypeOK
  BY DEF Init, TypeOK, Job
<1>2. \A h \in Handlers : job[h] = Idle
  BY DEF Init
<1>3. \A h \in Handlers :
        job[h] \notin Founding \cup LoggingIn \cup Refreshing \cup Issuing \cup Authed
                     \cup Touching \cup LoggingOut \cup Writing \cup Dropping
  BY <1>2, JobFields
<1>4. /\ \A u \in Users : users[u] = None
      /\ \A k \in Keys : keys[k] = None
      /\ Issued = {} /\ \A p \in Pairs : revoked[p] = 0
  BY DEF Init, Issued
<1> QED
  BY <1>1, <1>3, <1>4
  DEF AccountsInv, HeldAreIssued, OrgsExist, OfOrg, ReadsArePast, ClaimsFollowRow, EntriesOutlive,
      RevokedIsRefused, FoundedEmpty, RequestsStayHome

LEMMA AccountsInvStep == AccountsAssumption /\ AccountsInv /\ [Next]_vars => AccountsInv'
BY TypeStep, HeldStep, OrgsStep, ReadsStep, ClaimsStep, EntriesStep, RevokedStep, FoundedStep,
   HomeStep DEF AccountsInv

LEMMA AccountsAlways == Spec => []AccountsInv
<1>1. Init => AccountsInv
  BY AccountsAssumption, AccountsInit
<1>2. AccountsInv /\ [Next]_vars => AccountsInv'
  BY AccountsAssumption, AccountsInvStep
<1> QED
  BY <1>1, <1>2, PTL DEF Spec

(***************************************************************************)
(* Type correctness: the requests never hold anything but what the code's  *)
(* variables can (auth_service.go, org_service.go).                        *)
(***************************************************************************)
THEOREM AccountsTypes == Spec => []TypeOK
<1>1. AccountsInv => TypeOK
  BY DEF AccountsInv
<1> QED
  BY <1>1, AccountsAlways, PTL

(***************************************************************************)
(* Claims that were read after the last write of their user's row agree    *)
(* with the row, however long requests take between reading and signing    *)
(* (auth_service.go:55-89, 182-223).                                       *)
(***************************************************************************)
THEOREM AccountsClaims == Spec => []ClaimsFollowRow
<1>1. AccountsInv => ClaimsFollowRow
  BY DEF AccountsInv
<1> QED
  BY <1>1, AccountsAlways, PTL

(***************************************************************************)
(* For every lifetime of the tokens: a refresh of a token on the list goes *)
(* on only if the token expired meanwhile (auth_service.go:70-102).        *)
(***************************************************************************)
THEOREM AccountsRevoked == Spec => []RevokedIsRefused
<1>1. AccountsInv => RevokedIsRefused
  BY DEF AccountsInv
<1> QED
  BY <1>1, AccountsAlways, PTL

(***************************************************************************)
(* The owner of a new organization is the first in it, whoever registers,  *)
(* logs in or adds users at the same time (v1/auth.go:41-62).              *)
(***************************************************************************)
THEOREM AccountsFounded == Spec => []FoundedEmpty
<1>1. AccountsInv => FoundedEmpty
  BY DEF AccountsInv
<1> QED
  BY <1>1, AccountsAlways, PTL

(***************************************************************************)
(* A check of a user's organization still holds at the statement that      *)
(* names the user by id only (org_service.go:100-135).                     *)
(***************************************************************************)
THEOREM AccountsStayHome == Spec => []RequestsStayHome
<1>1. AccountsInv => RequestsStayHome
  BY DEF AccountsInv
<1> QED
  BY <1>1, AccountsAlways, PTL

(***************************************************************************)
(* An organization without users, live keys, live access tokens and        *)
(* requests is never entered again (v1/auth.go:32-57).                     *)
(***************************************************************************)
THEOREM AccountsStranded == Spec => StrandedForGood
<1>1. AccountsInv /\ [Next]_vars => [\A o \in Orgs : Stranded(o) => Stranded(o)']_vars
  BY AccountsAssumption, StrandedStep DEF AccountsInv
<1> QED
  BY <1>1, AccountsAlways, PTL DEF Spec, StrandedForGood

(***************************************************************************)
(* No request, however old what it read, brings a deleted user back or     *)
(* revives a revoked key (user_repository.go:54-65, 115-123).              *)
(***************************************************************************)
THEOREM AccountsEndings == Spec => EndingsAreFinal
<1>1. AccountsInv /\ [Next]_vars =>
        [/\ \A u \in Users : Known(u) /\ users[u] = None => users'[u] = None
         /\ \A k \in Keys : keys[k] # None /\ keys[k].revoked => keys'[k].revoked]_vars
  <2> SUFFICES ASSUME TypeOK, Next
               PROVE  /\ \A u \in Users : Known(u) /\ users[u] = None => users'[u] = None
                      /\ \A k \in Keys : keys[k] # None /\ keys[k].revoked => keys'[k].revoked
    BY DEF AccountsInv
  <2>1. ASSUME NEW h \in Handlers, Step(h), NEW u \in Users, Known(u), users[u] = None
        PROVE  users'[u] = None
    BY <2>1, AccountsAssumption, UserStep
  <2>2. ASSUME NEW h \in Handlers, Step(h), NEW k \in Keys, keys[k] # None, keys[k].revoked
        PROVE  keys'[k].revoked
    BY <2>2, AccountsAssumption, KeyStep
  <2>3. CASE Tick
    BY <2>3 DEF Tick
  <2> QED
    BY <2>1, <2>2, <2>3, NextIsStep
<1> QED
  BY <1>1, AccountsAlways, PTL DEF Spec, EndingsAreFinal
=============================================================================
