----------------------------- MODULE MCAccounts -----------------------------
(***************************************************************************)
(* Two requests, two organizations, two users, two token pairs (a login's  *)
(* and what a refresh makes of it) and one key.  The clock shows 0, 1, 2:  *)
(* an access token lives for one unit, a refresh token for two, so that a  *)
(* token can expire between two steps of the request that carries it.  At  *)
(* most MaxRows rows and tokens are there at a time.                       *)
(***************************************************************************)
EXTENDS Accounts, FiniteSets, TLC

MaxRows == 4

\* Nothing could follow on a token signed at the last instant of the clock, which
\* is there for tokens to expire in: only requests about tokens go on in it.
Small ==
  /\ Cardinality(orgs) + Cardinality({u \in Users : users[u] # None}) + Cardinality(Issued)
       + Cardinality({k \in Keys : keys[k] # None}) <= MaxRows
  /\ \A p \in Issued : pairs[p].at < MaxTime
  /\ now = MaxTime => \A h \in Handlers :
       job[h] \in {Idle} \cup Refreshing \cup Issuing \cup Authed \cup LoggingOut

Symmetry == Permutations(Handlers) \cup Permutations(Orgs) \cup Permutations(Users)
              \cup Permutations(Pairs) \cup Permutations(Keys)
=============================================================================
