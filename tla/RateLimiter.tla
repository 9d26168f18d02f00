----------------------------- MODULE RateLimiter -----------------------------
(***************************************************************************)
(* The sliding window of one client (internal/infrastructure/redis/        *)
(* rate_limiter.go, internal/infrastructure/http/middleware/rate_limit.go).*)
(*                                                                         *)
(* Allow reads the clock and sends a pipeline: drop what left the window,  *)
(* count the rest, add this request, set the key's lifetime.  A pipeline   *)
(* is no transaction: Redis may execute other requests' commands between   *)
(* any two of these, and a request may wait long after it read the clock.  *)
(*                                                                         *)
(* A request stands for its member of the sorted set, whose score is the   *)
(* time the request read; members are told apart by nanoseconds, so no two *)
(* requests share one.  All processes read one clock.  The Mutant...       *)
(* operators are slips that break a property; no specification uses them.  *)
(***************************************************************************)
EXTENDS Integers, FiniteSets

CONSTANTS MaxRequests,    \* bound on the number of requests of the client
          Limit,          \* requests allowed in a window
          Window,         \* its length
          MaxConcurrent,  \* how many requests of the client are handled at once
          MaxTime,        \* bound on the clock
          None

Time == 0..MaxTime

\* Requests are numbered in the order in which they read the clock.
Requests == 1..MaxRequests

ASSUME RateAssumption ==
  /\ Limit \in Nat \ {0} /\ Window \in Nat \ {0}
  /\ MaxConcurrent \in Nat \ {0} /\ MaxTime \in Nat /\ MaxRequests \in Nat
  /\ None \notin Int

VARIABLES now,     \* the clock
          phase,   \* the command each request is about to execute, or its answer
          at,      \* the time each request read
          zset,    \* the members of the sorted set
          ttl,     \* when the key expires: None without key or lifetime
          passed,  \* the requests that counted fewer than Limit
          lost     \* history: those that the key took with it, its lifetime not yet renewed

vars == <<now, phase, at, zset, ttl, passed, lost>>

Running == {"trim", "count", "add", "expire", "oldest"}

InFlight == {r \in Requests : phase[r] \in Running}

\* Whether a request lies in the window that ends at time t.
InWindow(r, t) == t - Window < at[r] /\ at[r] <= t

Init ==
  /\ now = 0
  /\ phase = [r \in Requests |-> "new"]
  /\ at = [r \in Requests |-> 0]
  /\ zset = {} /\ ttl = None /\ passed = {} /\ lost = {}

Goto(r, p) == phase' = [phase EXCEPT ![r] = p]

\* The middleware calls Allow, which reads the clock.
Begin(r) ==
  /\ phase[r] = "new" /\ \A q \in 1..(r - 1) : phase[q] # "new"
  /\ Cardinality(InFlight) < MaxConcurrent
  /\ at' = [at EXCEPT ![r] = now]
  /\ Goto(r, "trim")
  /\ UNCHANGED <<now, zset, ttl, passed, lost>>

\* Nothing is dropped.
MutantTrim(r) ==
  /\ phase[r] = "trim"
  /\ Goto(r, "count")
  /\ UNCHANGED <<now, at, zset, ttl, passed, lost>>

\* ZREMRANGEBYSCORE 0 .. now - window; a sorted set that is empty has no key.
Trim(r) ==
  /\ phase[r] = "trim"
  /\ zset' = {q \in zset : at[q] > at[r] - Window}
  /\ ttl' = IF zset' = {} THEN None ELSE ttl
  /\ Goto(r, "count")
  /\ UNCHANGED <<now, at, passed, lost>>

\* Every request passes.
MutantCount(r) ==
  /\ phase[r] = "count"
  /\ passed' = passed \cup {r}
  /\ Goto(r, "add")
  /\ UNCHANGED <<now, at, zset, ttl, lost>>

\* ZCARD, and the comparison with the limit that follows from it.
Count(r) ==
  /\ phase[r] = "count"
  /\ passed' = IF Cardinality(zset) < Limit THEN passed \cup {r} ELSE passed
  /\ Goto(r, "add")
  /\ UNCHANGED <<now, at, zset, ttl, lost>>

\* ZADD: refused requests are added as well.
Add(r) ==
  /\ phase[r] = "add"
  /\ zset' = zset \cup {r}
  /\ Goto(r, "expire")
  /\ UNCHANGED <<now, at, ttl, passed, lost>>

\* The key lives as long as the window.
MutantExpire(r) ==
  /\ phase[r] = "expire"
  /\ ttl' = IF zset = {} THEN ttl ELSE now + Window
  /\ Goto(r, IF r \in passed THEN "allowed" ELSE "oldest") \/ Goto(r, "unlimited")
  /\ UNCHANGED <<now, at, zset, passed, lost>>

\* EXPIRE window + 1s, if the key is there; then the reply is looked at,
\* or lost.
Expire(r) ==
  /\ phase[r] = "expire"
  /\ ttl' = IF zset = {} THEN ttl ELSE now + Window + 1
  /\ Goto(r, IF r \in passed THEN "allowed" ELSE "oldest") \/ Goto(r, "unlimited")
  /\ UNCHANGED <<now, at, zset, passed, lost>>

\* ZRANGE 0 0, for the answer's retryAfter only.
ReadOldest(r) ==
  /\ phase[r] = "oldest"
  /\ Goto(r, "refused")
  /\ UNCHANGED <<now, at, zset, ttl, passed, lost>>

\* The pipeline returns an error: the middleware lets the request through.
\* Some of its commands may have been executed; those on their way to Redis
\* are the steps the request still takes, it counts as in flight until then.
Fail(r) ==
  /\ phase[r] \in Running \ {"oldest"}
  /\ Goto(r, "unlimited")
  /\ UNCHANGED <<now, at, zset, ttl, passed, lost>>

\* The clock reaches the end of the key's lifetime: Redis drops the key.
KeyExpires ==
  /\ now < MaxTime /\ ttl = now + 1
  /\ now' = now + 1
  /\ zset' = {} /\ ttl' = None
  /\ lost' = lost \cup {r \in zset : phase[r] = "expire"}
  /\ UNCHANGED <<phase, at, passed>>

Tick ==
  /\ now < MaxTime /\ ttl # now + 1
  /\ now' = now + 1
  /\ UNCHANGED <<phase, at, zset, ttl, passed, lost>>

Next ==
  \/ \E r \in Requests :
       \/ Begin(r) \/ Trim(r) \/ Count(r) \/ Add(r)
       \/ Expire(r) \/ ReadOldest(r) \/ Fail(r)
  \/ KeyExpires
  \/ Tick

Spec == Init /\ [][Next]_vars

-----------------------------------------------------------------------------
TypeOK ==
  /\ now \in Time
  /\ phase \in [Requests -> Running \cup {"new", "allowed", "refused", "unlimited"}]
  /\ at \in [Requests -> Time]
  /\ zset \subseteq Requests
  /\ ttl \in (0..(MaxTime + Window + 1)) \cup {None}
  /\ passed \subseteq Requests /\ lost \subseteq Requests

\* The requests the limiter lets through, or is about to, in a window.
Admitted(t) == {r \in passed : phase[r] # "unlimited" /\ InWindow(r, t)}

\* Requests that may still count and pass in a window that ended at time t.
Late(t) == {r \in Requests : phase[r] \in {"trim", "count"} /\ at[r] <= t}

\* A clock no request is ahead of, a key that went when it was due.
ClockInv ==
  /\ \A r \in Requests : at[r] <= now
  /\ ttl # None => now < ttl
  /\ Cardinality(InFlight) <= MaxConcurrent
  /\ \A r \in passed : phase[r] \in {"add", "expire", "allowed", "unlimited"}

\* The member of a request that passed is there until its window is over,
\* and the key outlives it.
Kept(r) ==
  /\ phase[r] \in {"expire", "allowed"} =>
       r \in zset \/ r \in lost \/ at[r] + Window <= now
  /\ phase[r] = "allowed" /\ r \in zset => ttl # None /\ at[r] + Window < ttl

KeptInv == \A r \in passed : Kept(r)

\* Until a window is over, those in flight come on top of the limit; then
\* also those that have read the clock.
AdmitBound(t) ==
  /\ now <= t => Cardinality(Admitted(t) \ lost) <= Limit + MaxConcurrent - 1
  /\ now > t => Cardinality((Admitted(t) \ lost) \cup Late(t)) <= Limit + 2 * MaxConcurrent - 1

AdmitInv == \A t \in Time : AdmitBound(t)

\* Who was added began, and is not before its ZADD.
MemberInv == \A q \in zset : phase[q] \notin {"new", "trim", "count", "add"}

\* Once r dropped what left its window, only those that are to be added can
\* bring in an older member.
MembersToBe == zset \cup {q \in Requests : phase[q] \in {"trim", "count", "add"}}

Older(r) == {q \in MembersToBe : at[q] <= at[r] - Window}

OlderInv ==
  \A r \in Requests : phase[r] = "count" => Cardinality(Older(r)) <= MaxConcurrent - 1

\* A request whose EXPIRE was executed.
Renewed(q) == phase[q] \in {"allowed", "oldest", "refused"}

\* If the key is about to go, a request that dropped what left its window
\* just now found a member that did not renew the lifetime.
Overdue(q) == phase[q] = "unlimited" \/ (phase[q] = "expire" /\ at[q] < now)

LifetimeInv ==
  /\ \A q \in zset : Renewed(q) => ttl # None /\ at[q] + Window < ttl
  /\ \A r \in Requests :
       phase[r] \in {"count", "add", "expire"} /\ at[r] = now /\ ttl = now + 1
         => \E q \in zset : Overdue(q) /\ now - Window < at[q]

(***************************************************************************)
(* The inductive invariant.                                                *)
(***************************************************************************)
RateInv ==
  TypeOK /\ ClockInv /\ KeptInv /\ AdmitInv /\ MemberInv /\ OlderInv /\ LifetimeInv

(***************************************************************************)
(* No window admits more than Limit requests and two for each that can be  *)
(* in flight, less one: those that counted before the others were added,   *)
(* and those that read the clock and counted when the window was over      *)
(* (rate_limiter.go:27-41).  Left out are those that the key took with it  *)
(* when it expired between their ZADD and EXPIRE.                          *)
(***************************************************************************)
WindowBound ==
  \A t \in Time : Cardinality(Admitted(t) \ lost) <= Limit + 2 * MaxConcurrent - 1

(***************************************************************************)
(* The key takes a request with it only if some request has been in flight *)
(* for more than the second that EXPIRE adds to the window, or one failed  *)
(* between its ZADD and EXPIRE (rate_limiter.go:32).                       *)
(***************************************************************************)
LostIsSlow ==
  [][lost' # lost =>
       \E q \in zset : phase[q] = "unlimited" \/ (phase[q] = "expire" /\ at[q] + 1 < now')]_vars

(***************************************************************************)
(* A request is refused only if its window is busy: at least Limit others  *)
(* began after the start of it, less the ones in flight when it began,     *)
(* which may have been added late (rate_limiter.go:28-41).                 *)
(***************************************************************************)
RefusedIsBusy ==
  [][\A r \in Requests :
       phase[r] = "count" /\ phase'[r] = "add" /\ r \notin passed'
         => Cardinality({q \in Requests \ {r} :
                           phase[q] # "new" /\ at[q] > at[r] - Window})
              >= Limit - (MaxConcurrent - 1)]_vars
=============================================================================
