-------------------------- MODULE RateLimiterProofs --------------------------
(***************************************************************************)
(* How many requests a window admits, for every limit, window and number   *)
(* of requests, however their pipelines interleave.                        *)
(***************************************************************************)
EXTENDS RateLimiter, FiniteSetTheorems, TLAPS

\* Sets of requests are finite; a part of one is no larger.
LEMMA RequestSets ==
  ASSUME RateAssumption, NEW S \in SUBSET Requests
  PROVE  /\ IsFiniteSet(S) /\ Cardinality(S) \in Nat
         /\ \A T \in SUBSET S : Cardinality(T) <= Cardinality(S)
<1>1. IsFiniteSet(Requests)
  <2>1. MaxRequests \in Int /\ 1 \in Int
    BY DEF RateAssumption
  <2> QED
    BY <2>1, FS_Interval DEF Requests
<1>2. IsFiniteSet(S)
  BY <1>1, FS_Subset
<1> QED
  BY <1>2, FS_Subset, FS_CardinalityType

\* Two sets of requests together.
LEMMA RequestUnion ==
  ASSUME RateAssumption, NEW S \in SUBSET Requests, NEW T \in SUBSET Requests
  PROVE  Cardinality(S \cup T) <= Cardinality(S) + Cardinality(T)
<1>1. IsFiniteSet(S) /\ IsFiniteSet(T) /\ Cardinality(S) \in Nat /\ Cardinality(T) \in Nat
  BY RequestSets
<1>2. Cardinality(S \cup T) = Cardinality(S) + Cardinality(T) - Cardinality(S \cap T)
  BY <1>1, FS_Union
<1>3. S \cap T \in SUBSET Requests
  OBVIOUS
<1>4. Cardinality(S \cap T) \in Nat
  BY <1>3, RequestSets
<1> QED
  BY <1>1, <1>2, <1>4

\* One more request, and one less.
LEMMA RequestElement ==
  ASSUME RateAssumption, NEW S \in SUBSET Requests, NEW r \in Requests
  PROVE  /\ Cardinality(S \cup {r}) <= Cardinality(S) + 1
         /\ r \in S => Cardinality(S \ {r}) = Cardinality(S) - 1
<1>1. IsFiniteSet(S) /\ Cardinality(S) \in Nat
  BY RequestSets
<1>2. r \notin S => Cardinality(S \cup {r}) = Cardinality(S) + 1
  BY <1>1, FS_AddElement
<1>3. r \in S => S \cup {r} = S
  OBVIOUS
<1>4. r \in S => Cardinality(S \ {r}) = Cardinality(S) - 1
  BY <1>1, FS_RemoveElement
<1> QED
  BY <1>1, <1>2, <1>3, <1>4

\* What a step of a request does to the phases.
LEMMA GotoStep ==
  ASSUME TypeOK, NEW r \in Requests, NEW p, Goto(r, p)
  PROVE  /\ phase'[r] = p
         /\ \A q \in Requests \ {r} : phase'[q] = phase[q]
         /\ \A q \in Requests : phase'[q] = IF q = r THEN p ELSE phase[q]
BY DEF TypeOK, Goto

LEMMA TypeStep == RateAssumption /\ TypeOK /\ ClockInv /\ [Next]_vars => TypeOK'
<1> SUFFICES ASSUME RateAssumption, TypeOK, ClockInv, [Next]_vars PROVE TypeOK'
  OBVIOUS
<1>0. /\ Window \in Nat /\ MaxTime \in Nat
      /\ now \in 0..MaxTime
      /\ now + Window + 1 \in 0..(MaxTime + Window + 1)
  BY DEF RateAssumption, TypeOK, Time
<1> USE DEF TypeOK, Running, Goto
<1>1. ASSUME NEW r \in Requests, Begin(r) PROVE TypeOK'
  BY <1>1 DEF Begin
<1>2. ASSUME NEW r \in Requests, Trim(r) PROVE TypeOK'
  BY <1>2 DEF Trim
<1>3. ASSUME NEW r \in Requests, Count(r) PROVE TypeOK'
  BY <1>3 DEF Count
<1>4. ASSUME NEW r \in Requests, Add(r) PROVE TypeOK'
  BY <1>4 DEF Add
<1>5. ASSUME NEW r \in Requests, Expire(r) PROVE TypeOK'
  <2>1. ttl' \in (0..(MaxTime + Window + 1)) \cup {None}
    BY <1>0, <1>5 DEF Expire
  <2>2. phase' \in [Requests -> Running \cup {"new", "allowed", "refused", "unlimited"}]
    BY <1>5 DEF Expire
  <2> QED
    BY <1>5, <2>1, <2>2 DEF Expire
<1>6. ASSUME NEW r \in Requests, ReadOldest(r) PROVE TypeOK'
  BY <1>6 DEF ReadOldest
<1>7. ASSUME NEW r \in Requests, Fail(r) PROVE TypeOK'
  BY <1>7 DEF Fail
<1>8. CASE KeyExpires
  BY <1>0, <1>8 DEF KeyExpires, Time
<1>9. CASE Tick
  BY <1>0, <1>9 DEF Tick, Time
<1>10. CASE UNCHANGED vars
  BY <1>10 DEF vars
<1> QED
  BY <1>1, <1>2, <1>3, <1>4, <1>5, <1>6, <1>7, <1>8, <1>9, <1>10 DEF Next

\* A request that goes on, or finishes, makes nobody else run.
LEMMA InFlightStep ==
  ASSUME RateAssumption, TypeOK, Cardinality(InFlight) <= MaxConcurrent,
         \A q \in Requests : phase'[q] \in Running => phase[q] \in Running
  PROVE  Cardinality(InFlight)' <= MaxConcurrent
<1>1. InFlight' \subseteq InFlight /\ InFlight \in SUBSET Requests
  BY DEF InFlight
<1>2. Cardinality(InFlight') <= Cardinality(InFlight)
  BY <1>1, RequestSets
<1>3. InFlight' \in SUBSET Requests
  BY <1>1
<1>4. Cardinality(InFlight) \in Nat /\ Cardinality(InFlight') \in Nat
  BY <1>1, <1>3, RequestSets
<1> QED
  BY <1>2, <1>4 DEF RateAssumption

LEMMA ClockStep == RateAssumption /\ TypeOK /\ ClockInv /\ [Next]_vars => ClockInv'
<1> SUFFICES ASSUME RateAssumption, TypeOK, ClockInv, [Next]_vars PROVE ClockInv'
  OBVIOUS
<1>0. /\ Window \in Nat /\ now \in Int /\ MaxConcurrent \in Nat
      /\ \A r \in Requests : at[r] \in Int
      /\ ttl # None => ttl \in Int
  BY DEF RateAssumption, TypeOK, Time
<1>1. ASSUME NEW r \in Requests, Begin(r) PROVE ClockInv'
  <2>1. Goto(r, "trim") /\ phase[r] = "new" /\ at' = [at EXCEPT ![r] = now]
        /\ UNCHANGED <<now, ttl, passed>> /\ Cardinality(InFlight) < MaxConcurrent
    BY <1>1 DEF Begin
  <2>2. InFlight' = InFlight \cup {r} /\ InFlight \in SUBSET Requests
    BY <2>1, GotoStep DEF InFlight, Running
  <2>3. Cardinality(InFlight') <= Cardinality(InFlight) + 1 /\ InFlight' \in SUBSET Requests
    BY <2>2, RequestElement
  <2>4. Cardinality(InFlight) \in Nat /\ Cardinality(InFlight') \in Nat
    BY <2>2, <2>3, RequestSets
  <2>5. Cardinality(InFlight') <= MaxConcurrent
    BY <1>0, <2>1, <2>3, <2>4
  <2>6. \A q \in Requests : at'[q] <= now'
    BY <1>0, <2>1 DEF ClockInv, TypeOK
  <2>7. \A q \in passed' : phase'[q] \in {"add", "expire", "allowed", "unlimited"}
    BY <2>1, GotoStep DEF ClockInv, TypeOK
  <2> QED
    BY <2>1, <2>5, <2>6, <2>7 DEF ClockInv
<1>2. ASSUME NEW r \in Requests, NEW p, Goto(r, p), phase[r] \in Running,
             UNCHANGED <<now, at>>, ttl' # None => now < ttl',
             passed' \subseteq passed \cup {r},
             r \in passed' => p \in {"add", "expire", "allowed", "unlimited"}
      PROVE  ClockInv'
  <2>1. Cardinality(InFlight)' <= MaxConcurrent
    BY <1>2, GotoStep, InFlightStep DEF ClockInv
  <2>2. \A q \in passed' : phase'[q] \in {"add", "expire", "allowed", "unlimited"}
    BY <1>2, GotoStep DEF ClockInv, TypeOK
  <2> QED
    BY <1>2, <2>1, <2>2 DEF ClockInv
<1>3. ASSUME NEW r \in Requests, Trim(r) PROVE ClockInv'
  <2>1. r \notin passed'
    BY <1>3 DEF Trim, ClockInv
  <2>2. Goto(r, "count") /\ phase[r] \in Running /\ passed' = passed
    BY <1>3 DEF Trim, Running
  <2>3. ttl' # None => now < ttl'
    BY <1>3 DEF Trim, ClockInv
  <2> QED
    BY <1>2, <1>3, <2>1, <2>2, <2>3 DEF Trim
<1>4. ASSUME NEW r \in Requests, Count(r) PROVE ClockInv'
  <2>1. Goto(r, "add") /\ phase[r] \in Running /\ passed' \subseteq passed \cup {r}
    BY <1>4 DEF Count, Running
  <2>2. ttl' # None => now < ttl'
    BY <1>4 DEF Count, ClockInv
  <2> QED
    BY <1>2, <1>4, <2>1, <2>2 DEF Count
<1>5. ASSUME NEW r \in Requests, Add(r) PROVE ClockInv'
  <2>1. Goto(r, "expire") /\ phase[r] \in Running /\ passed' = passed
    BY <1>5 DEF Add, Running
  <2>2. ttl' # None => now < ttl'
    BY <1>5 DEF Add, ClockInv
  <2> QED
    BY <1>2, <1>5, <2>1, <2>2 DEF Add
<1>6. ASSUME NEW r \in Requests, Expire(r) PROVE ClockInv'
  <2>1. PICK p \in {IF r \in passed THEN "allowed" ELSE "oldest", "unlimited"} : Goto(r, p)
    BY <1>6 DEF Expire
  <2>2. phase[r] \in Running /\ passed' = passed /\ UNCHANGED <<now, at>>
    BY <1>6 DEF Expire, Running
  <2>3. ttl' # None => now < ttl'
    BY <1>0, <1>6 DEF Expire, ClockInv
  <2>4. r \in passed' => p \in {"add", "expire", "allowed", "unlimited"}
    BY <2>1, <2>2
  <2> QED
    BY <1>2, <2>1, <2>2, <2>3, <2>4
<1>7. ASSUME NEW r \in Requests, ReadOldest(r) PROVE ClockInv'
  <2>1. Goto(r, "refused") /\ phase[r] \in Running /\ passed' = passed
    BY <1>7 DEF ReadOldest, Running
  <2>2. r \notin passed'
    BY <1>7 DEF ReadOldest, ClockInv
  <2>3. ttl' # None => now < ttl'
    BY <1>7 DEF ReadOldest, ClockInv
  <2> QED
    BY <1>2, <1>7, <2>1, <2>2, <2>3 DEF ReadOldest
<1>8. ASSUME NEW r \in Requests, Fail(r) PROVE ClockInv'
  <2>1. Goto(r, "unlimited") /\ phase[r] \in Running /\ passed' = passed
    BY <1>8 DEF Fail
  <2>2. ttl' # None => now < ttl'
    BY <1>8 DEF Fail, ClockInv
  <2> QED
    BY <1>2, <1>8, <2>1, <2>2 DEF Fail
<1>9. ASSUME UNCHANGED <<phase, at, passed>>, now <= now', now' \in Int,
             ttl' # None => now' < ttl'
      PROVE  ClockInv'
  <2>1. Cardinality(InFlight)' <= MaxConcurrent
    BY <1>9, InFlightStep DEF ClockInv
  <2> QED
    BY <1>0, <1>9, <2>1 DEF ClockInv
<1>10. CASE KeyExpires
  BY <1>0, <1>9, <1>10 DEF KeyExpires
<1>11. CASE Tick
  <2>1. ttl' # None => now' < ttl'
    BY <1>0, <1>11 DEF Tick, ClockInv
  <2> QED
    BY <1>0, <1>9, <1>11, <2>1 DEF Tick
<1>12. CASE UNCHANGED vars
  BY <1>0, <1>9, <1>12 DEF vars, ClockInv
<1> QED
  BY <1>1, <1>3, <1>4, <1>5, <1>6, <1>7, <1>8, <1>10, <1>11, <1>12 DEF Next

\* A member is dropped only when its window is over, or with the key.
LEMMA KeptStep ==
  RateAssumption /\ TypeOK /\ ClockInv /\ KeptInv /\ [Next]_vars => KeptInv'
<1> SUFFICES ASSUME RateAssumption, TypeOK, ClockInv, KeptInv, [Next]_vars,
                    NEW q \in passed'
             PROVE  Kept(q)'
  BY DEF KeptInv
<1>0. /\ Window \in Nat /\ now \in Int
      /\ \A r \in Requests : at[r] \in Int /\ at[r] <= now
      /\ ttl # None => ttl \in Int
      /\ None \notin Int
      /\ passed \subseteq Requests
  BY DEF RateAssumption, TypeOK, Time, ClockInv
<1>k. q \in passed => Kept(q)
  BY DEF KeptInv
<1>1. ASSUME NEW r \in Requests, Begin(r) PROVE Kept(q)'
  <2>1. q \in passed /\ q \in Requests /\ q # r
    BY <1>0, <1>1 DEF Begin, ClockInv
  <2>2. phase'[q] = phase[q] /\ at'[q] = at[q]
    BY <1>1, <2>1, GotoStep DEF Begin, TypeOK
  <2> QED
    BY <1>1, <1>k, <2>1, <2>2 DEF Begin, Kept
<1>2. ASSUME NEW r \in Requests, Trim(r) PROVE Kept(q)'
  <2>1. q \in passed /\ q \in Requests /\ q # r
    BY <1>0, <1>2 DEF Trim, ClockInv
  <2>2. phase'[q] = phase[q] /\ at'[q] = at[q] /\ now' = now /\ lost' = lost
    BY <1>2, <2>1, GotoStep DEF Trim
  <2>3. q \in zset => q \in zset' \/ at[q] + Window <= now
    BY <1>0, <1>2, <2>1 DEF Trim
  <2>4. q \in zset' => q \in zset /\ ttl' = ttl
    BY <1>2 DEF Trim
  <2> QED
    BY <1>k, <2>1, <2>2, <2>3, <2>4 DEF Kept
<1>3. ASSUME NEW r \in Requests, Count(r) PROVE Kept(q)'
  <2>1. CASE q = r
    <3>1. phase'[q] = "add"
      BY <1>3, <2>1, GotoStep DEF Count
    <3> QED
      BY <3>1 DEF Kept
  <2>2. CASE q # r
    <3>1. q \in passed /\ q \in Requests
      BY <1>0, <1>3, <2>2 DEF Count
    <3>2. phase'[q] = phase[q]
      BY <1>3, <2>2, <3>1, GotoStep DEF Count
    <3> QED
      BY <1>3, <1>k, <3>1, <3>2 DEF Count, Kept
  <2> QED
    BY <2>1, <2>2
<1>4. ASSUME NEW r \in Requests, Add(r) PROVE Kept(q)'
  <2>1. q \in passed /\ q \in Requests
    BY <1>0, <1>4 DEF Add
  <2>2. CASE q = r
    <3>1. phase'[q] = "expire" /\ q \in zset'
      BY <1>4, <2>2, GotoStep DEF Add
    <3> QED
      BY <3>1 DEF Kept
  <2>3. CASE q # r
    <3>1. phase'[q] = phase[q] /\ (q \in zset' <=> q \in zset)
      BY <1>4, <2>1, <2>3, GotoStep DEF Add
    <3> QED
      BY <1>4, <1>k, <2>1, <3>1 DEF Add, Kept
  <2> QED
    BY <2>2, <2>3
<1>5. ASSUME NEW r \in Requests, Expire(r) PROVE Kept(q)'
  <2>1. q \in passed /\ q \in Requests /\ UNCHANGED <<now, at, zset, lost>>
    BY <1>0, <1>5 DEF Expire
  <2>2. q \in zset => ttl' # None /\ at[q] + Window < ttl'
    BY <1>0, <1>5, <2>1 DEF Expire
  <2>3. phase'[q] \in {"expire", "allowed"} => phase[q] \in {"expire", "allowed"}
    BY <1>5, <2>1, GotoStep DEF Expire
  <2> QED
    BY <1>k, <2>1, <2>2, <2>3 DEF Kept
<1>6. ASSUME NEW r \in Requests, ReadOldest(r) \/ Fail(r) PROVE Kept(q)'
  <2>1. q \in passed /\ q \in Requests /\ UNCHANGED <<now, at, zset, ttl, lost>>
    BY <1>0, <1>6 DEF ReadOldest, Fail
  <2>2. phase'[q] \in {"expire", "allowed"} => phase'[q] = phase[q]
    BY <1>6, <2>1, GotoStep DEF ReadOldest, Fail
  <2> QED
    BY <1>k, <2>1, <2>2 DEF Kept
<1>7. CASE KeyExpires
  <2>1. q \in passed /\ q \in Requests /\ UNCHANGED <<at, phase>> /\ zset' = {}
        /\ now' = now + 1 /\ ttl = now'
    BY <1>0, <1>7 DEF KeyExpires
  <2>2. phase[q] = "expire" /\ q \in zset => q \in lost'
    BY <1>7 DEF KeyExpires
  <2>3. phase[q] = "allowed" /\ q \in zset => at[q] + Window <= now'
    BY <1>0, <1>7, <1>k, <2>1 DEF Kept
  <2>4. q \in lost => q \in lost'
    BY <1>7 DEF KeyExpires
  <2>5. at[q] + Window <= now => at[q] + Window <= now'
    BY <1>0, <2>1
  <2> QED
    BY <1>k, <2>1, <2>2, <2>3, <2>4, <2>5 DEF Kept
<1>8. CASE Tick
  <2>1. q \in passed /\ q \in Requests /\ UNCHANGED <<at, phase, zset, ttl, lost>>
        /\ now' = now + 1
    BY <1>0, <1>8 DEF Tick
  <2>2. at[q] + Window <= now => at[q] + Window <= now + 1
    BY <1>0, <2>1
  <2> QED
    BY <1>k, <2>1, <2>2 DEF Kept
<1>9. CASE UNCHANGED vars
  BY <1>9, <1>k DEF vars, Kept
<1> QED
  BY <1>1, <1>2, <1>3, <1>4, <1>5, <1>6, <1>7, <1>8, <1>9 DEF Next

\* What the invariant counts are sets of requests.
LEMMA AdmittedSets ==
  ASSUME RateAssumption, TypeOK, NEW t \in Time
  PROVE  /\ Admitted(t) \ lost \in SUBSET Requests
         /\ (Admitted(t) \ lost) \cup Late(t) \in SUBSET Requests
         /\ InFlight \in SUBSET Requests
         /\ Cardinality(Admitted(t) \ lost) \in Nat
         /\ Cardinality((Admitted(t) \ lost) \cup Late(t)) \in Nat
         /\ Cardinality(InFlight) \in Nat
<1>1. /\ Admitted(t) \ lost \in SUBSET Requests
      /\ (Admitted(t) \ lost) \cup Late(t) \in SUBSET Requests
      /\ InFlight \in SUBSET Requests
  BY DEF TypeOK, Admitted, Late, InFlight
<1> QED
  BY <1>1, RequestSets

\* A step that adds nothing to what is counted keeps the bound.
LEMMA AdmitShrinks ==
  ASSUME RateAssumption, TypeOK, NEW t \in Time, AdmitBound(t), now' = now,
         now <= t => (Admitted(t) \ lost)' \subseteq Admitted(t) \ lost,
         now > t => ((Admitted(t) \ lost) \cup Late(t))' \subseteq (Admitted(t) \ lost) \cup Late(t)
  PROVE  AdmitBound(t)'
<1>0. Limit \in Nat /\ MaxConcurrent \in Nat
  BY DEF RateAssumption
<1>1. CASE now <= t
  <2>1. Cardinality((Admitted(t) \ lost)') <= Cardinality(Admitted(t) \ lost)
    BY <1>1, AdmittedSets, RequestSets
  <2>2. (Admitted(t) \ lost)' \in SUBSET Requests
    BY <1>1, AdmittedSets
  <2>3. Cardinality((Admitted(t) \ lost)') \in Nat /\ Cardinality(Admitted(t) \ lost) \in Nat
    BY <2>2, RequestSets, AdmittedSets
  <2>4. Cardinality(Admitted(t) \ lost)' <= Limit + MaxConcurrent - 1
    BY <1>0, <1>1, <2>1, <2>3 DEF AdmitBound
  <2>5. ~ (now' > t)
    BY <1>1 DEF TypeOK, Time
  <2> QED
    BY <2>4, <2>5 DEF AdmitBound
<1>2. CASE now > t
  <2>1. Cardinality(((Admitted(t) \ lost) \cup Late(t))') <= Cardinality((Admitted(t) \ lost) \cup Late(t))
    BY <1>2, AdmittedSets, RequestSets
  <2>2. ((Admitted(t) \ lost) \cup Late(t))' \in SUBSET Requests
    BY <1>2, AdmittedSets
  <2>3. /\ Cardinality(((Admitted(t) \ lost) \cup Late(t))') \in Nat
        /\ Cardinality((Admitted(t) \ lost) \cup Late(t)) \in Nat
    BY <2>2, RequestSets, AdmittedSets
  <2>4. Cardinality((Admitted(t) \ lost) \cup Late(t))' <= Limit + 2 * MaxConcurrent - 1
    BY <1>0, <1>2, <2>1, <2>3 DEF AdmitBound
  <2>5. ~ (now' <= t)
    BY <1>2 DEF TypeOK, Time
  <2> QED
    BY <2>4, <2>5 DEF AdmitBound
<1> QED
  BY <1>1, <1>2 DEF TypeOK, Time

\* Before a window is over, who passed in it is in the sorted set or in
\* flight.  So a request that counts fewer than Limit members may pass.
LEMMA CountStep ==
  ASSUME RateAssumption, TypeOK, ClockInv, KeptInv, NEW t \in Time, now <= t,
         AdmitBound(t), NEW r \in Requests, Count(r)
  PROVE  Cardinality(Admitted(t) \ lost)' <= Limit + MaxConcurrent - 1
<1>0. /\ Limit \in Nat /\ MaxConcurrent \in Nat /\ Window \in Nat
      /\ now \in Int /\ t \in Int /\ \A q \in Requests : at[q] \in Int
  BY DEF RateAssumption, TypeOK, Time
<1>1. /\ Goto(r, "add") /\ phase[r] = "count" /\ UNCHANGED <<now, at, lost>>
      /\ passed' = IF Cardinality(zset) < Limit THEN passed \cup {r} ELSE passed
  BY DEF Count
<1>2. \A q \in Requests : phase'[q] = IF q = r THEN "add" ELSE phase[q]
  BY <1>1, GotoStep
<1>3. r \notin passed /\ r \in InFlight
  BY <1>1 DEF ClockInv, InFlight, Running
<1>4. CASE Cardinality(zset) < Limit
  <2>1. (Admitted(t) \ lost)' \subseteq (Admitted(t) \ lost) \cup {r}
    BY <1>1, <1>2 DEF Admitted, InWindow, TypeOK
  <2>2. Admitted(t) \ lost \subseteq zset \cup (InFlight \ {r})
    <3> SUFFICES ASSUME NEW q \in Admitted(t), q \notin lost, q \notin zset
                 PROVE  q \in InFlight \ {r}
      OBVIOUS
    <3>1. q \in Requests /\ q \in passed /\ q # r /\ phase[q] # "unlimited"
      BY <1>3 DEF Admitted, TypeOK
    <3>2. at[q] + Window > now
      BY <1>0, <3>1 DEF Admitted, InWindow
    <3>3. phase[q] \notin {"expire", "allowed"}
      BY <1>0, <3>1, <3>2 DEF KeptInv, Kept
    <3>4. phase[q] = "add"
      BY <3>1, <3>3 DEF ClockInv
    <3> QED
      BY <3>1, <3>4 DEF InFlight, Running
  <2>3. /\ zset \in SUBSET Requests /\ InFlight \in SUBSET Requests
        /\ InFlight \ {r} \in SUBSET Requests
        /\ zset \cup (InFlight \ {r}) \in SUBSET Requests
        /\ Admitted(t) \ lost \in SUBSET Requests
    BY AdmittedSets DEF TypeOK
  <2>4. Cardinality(InFlight \ {r}) = Cardinality(InFlight) - 1
    BY <1>3, <2>3, RequestElement
  <2>5. Cardinality(zset \cup (InFlight \ {r})) <= Cardinality(zset) + Cardinality(InFlight \ {r})
    BY <2>3, RequestUnion
  <2>6. Cardinality(Admitted(t) \ lost) <= Cardinality(zset \cup (InFlight \ {r}))
    BY <2>2, <2>3, RequestSets
  <2>7. /\ Cardinality(zset) \in Nat /\ Cardinality(InFlight) \in Nat
        /\ Cardinality(zset \cup (InFlight \ {r})) \in Nat
        /\ Cardinality(Admitted(t) \ lost) \in Nat
    BY <2>3, RequestSets
  <2>8. Cardinality(Admitted(t) \ lost) <= Limit + MaxConcurrent - 2
    <3>1. Cardinality(InFlight) <= MaxConcurrent
      BY DEF ClockInv
    <3> QED
      BY <1>0, <1>4, <2>4, <2>5, <2>6, <2>7, <3>1
  <2>9. /\ (Admitted(t) \ lost) \cup {r} \in SUBSET Requests
        /\ Cardinality((Admitted(t) \ lost) \cup {r}) <= Cardinality(Admitted(t) \ lost) + 1
    BY <2>3, RequestElement
  <2>10. Cardinality((Admitted(t) \ lost)') <= Cardinality((Admitted(t) \ lost) \cup {r})
    BY <2>1, <2>9, RequestSets
  <2>11. (Admitted(t) \ lost)' \in SUBSET Requests
    BY <2>1, <2>9
  <2>12. /\ Cardinality((Admitted(t) \ lost)') \in Nat
         /\ Cardinality((Admitted(t) \ lost) \cup {r}) \in Nat
    BY <2>9, <2>11, RequestSets
  <2> QED
    BY <1>0, <2>7, <2>8, <2>9, <2>10, <2>12
<1>5. CASE ~ (Cardinality(zset) < Limit)
  <2>1. (Admitted(t) \ lost)' \subseteq Admitted(t) \ lost
    BY <1>1, <1>2, <1>3, <1>5 DEF Admitted, InWindow, TypeOK
  <2>2. Cardinality((Admitted(t) \ lost)') <= Cardinality(Admitted(t) \ lost)
    BY <2>1, AdmittedSets, RequestSets
  <2>3. (Admitted(t) \ lost)' \in SUBSET Requests
    BY <2>1, AdmittedSets
  <2>4. Cardinality((Admitted(t) \ lost)') \in Nat /\ Cardinality(Admitted(t) \ lost) \in Nat
    BY <2>3, RequestSets, AdmittedSets
  <2> QED
    BY <1>0, <2>2, <2>4 DEF AdmitBound
<1> QED
  BY <1>4, <1>5

\* When a window is over, those that read the clock in it and may still pass
\* are in flight.
LEMMA TickStep ==
  ASSUME RateAssumption, TypeOK, ClockInv, AdmitInv, NEW t \in Time,
         now' = now + 1, UNCHANGED <<phase, at, passed>>, lost \subseteq lost'
  PROVE  AdmitBound(t)'
<1>0. /\ Limit \in Nat /\ MaxConcurrent \in Nat
      /\ now \in Int /\ t \in Int /\ AdmitBound(t)
  BY DEF RateAssumption, TypeOK, Time, AdmitInv
<1>1. /\ Admitted(t)' = Admitted(t) /\ Late(t)' = Late(t)
      /\ (Admitted(t) \ lost)' \subseteq Admitted(t) \ lost
      /\ ((Admitted(t) \ lost) \cup Late(t))' \subseteq (Admitted(t) \ lost) \cup Late(t)
  BY DEF Admitted, InWindow, Late
<1>s. /\ Cardinality((Admitted(t) \ lost)') <= Cardinality(Admitted(t) \ lost)
      /\ Cardinality(((Admitted(t) \ lost) \cup Late(t))') <= Cardinality((Admitted(t) \ lost) \cup Late(t))
  BY <1>1, AdmittedSets, RequestSets
<1>n. /\ Cardinality((Admitted(t) \ lost)') \in Nat
      /\ Cardinality(((Admitted(t) \ lost) \cup Late(t))') \in Nat
      /\ Cardinality(Admitted(t) \ lost) \in Nat
      /\ Cardinality((Admitted(t) \ lost) \cup Late(t)) \in Nat
  <2>1. /\ (Admitted(t) \ lost)' \in SUBSET Requests
        /\ ((Admitted(t) \ lost) \cup Late(t))' \in SUBSET Requests
    BY <1>1, AdmittedSets
  <2> QED
    BY <2>1, AdmittedSets, RequestSets
<1>2. CASE now' <= t
  <2>1. now <= t /\ ~ (now' > t)
    BY <1>0, <1>2
  <2>2. Cardinality(Admitted(t) \ lost)' <= Limit + MaxConcurrent - 1
    BY <1>0, <1>s, <1>n, <2>1 DEF AdmitBound
  <2> QED
    BY <2>1, <2>2 DEF AdmitBound
<1>4. CASE now > t
  <2>1. ~ (now' <= t)
    BY <1>0, <1>4
  <2>2. Cardinality((Admitted(t) \ lost) \cup Late(t))' <= Limit + 2 * MaxConcurrent - 1
    BY <1>0, <1>s, <1>n, <1>4 DEF AdmitBound
  <2> QED
    BY <2>1, <2>2 DEF AdmitBound
<1>3. CASE now <= t /\ now' > t
  <2>1. Cardinality(Admitted(t) \ lost) <= Limit + MaxConcurrent - 1
    BY <1>0, <1>3 DEF AdmitBound
  <2>2. Late(t) \subseteq InFlight /\ InFlight \in SUBSET Requests
    BY DEF Late, InFlight, Running
  <2>3. Cardinality(Late(t)) <= Cardinality(InFlight) /\ Late(t) \in SUBSET Requests
    BY <2>2, RequestSets
  <2>4. Cardinality((Admitted(t) \ lost) \cup Late(t))
          <= Cardinality(Admitted(t) \ lost) + Cardinality(Late(t))
    BY <2>3, AdmittedSets, RequestUnion
  <2>5. Cardinality(Late(t)) \in Nat
    BY <2>3, RequestSets
  <2>6. /\ Cardinality(Admitted(t) \ lost) \in Nat
        /\ Cardinality((Admitted(t) \ lost) \cup Late(t)) \in Nat
        /\ Cardinality(InFlight) \in Nat /\ Cardinality(InFlight) <= MaxConcurrent
    BY AdmittedSets DEF ClockInv
  <2>7. Cardinality((Admitted(t) \ lost) \cup Late(t)) <= Limit + 2 * MaxConcurrent - 1
    BY <1>0, <2>1, <2>3, <2>4, <2>5, <2>6
  <2>8. Cardinality((Admitted(t) \ lost) \cup Late(t))' <= Limit + 2 * MaxConcurrent - 1
    BY <1>0, <1>s, <1>n, <2>7
  <2>9. ~ (now' <= t)
    BY <1>0, <1>3
  <2> QED
    BY <2>8, <2>9 DEF AdmitBound
<1> QED
  BY <1>0, <1>2, <1>3, <1>4

LEMMA AdmitStep ==
  RateAssumption /\ TypeOK /\ ClockInv /\ KeptInv /\ AdmitInv /\ [Next]_vars => AdmitInv'
<1> SUFFICES ASSUME RateAssumption, TypeOK, ClockInv, KeptInv, AdmitInv, [Next]_vars,
                    NEW t \in Time
             PROVE  AdmitBound(t)'
  BY DEF AdmitInv, Time
<1>0. /\ Window \in Nat /\ now \in Int /\ t \in Int
      /\ \A q \in Requests : at[q] \in Int
      /\ passed \subseteq Requests /\ AdmitBound(t)
  BY DEF RateAssumption, TypeOK, Time, AdmitInv
<1>1. ASSUME NEW r \in Requests, Begin(r) PROVE AdmitBound(t)'
  <2>1. /\ Goto(r, "trim") /\ at' = [at EXCEPT ![r] = now] /\ r \notin passed
        /\ UNCHANGED <<now, passed, lost>>
    BY <1>1 DEF Begin, ClockInv
  <2>2. \A q \in Requests \ {r} : phase'[q] = phase[q] /\ at'[q] = at[q]
    BY <2>1, GotoStep DEF TypeOK
  <2>3. at'[r] = now
    BY <2>1 DEF TypeOK
  <2>4. (Admitted(t) \ lost)' \subseteq Admitted(t) \ lost
    BY <1>0, <2>1, <2>2 DEF Admitted, InWindow
  <2>5. now > t => Late(t)' \subseteq Late(t)
    BY <1>0, <2>1, <2>2, <2>3 DEF Late
  <2> QED
    BY <1>0, <2>1, <2>4, <2>5, AdmitShrinks
<1>2. ASSUME NEW r \in Requests, NEW p, Goto(r, p), UNCHANGED <<now, at, passed, lost>>,
             phase[r] \in Running,
             p \in {"trim", "count"} => phase[r] \in {"trim", "count"}
      PROVE  AdmitBound(t)'
  <2>1. \A q \in Requests : phase'[q] = IF q = r THEN p ELSE phase[q]
    BY <1>2, GotoStep
  <2>2. (Admitted(t) \ lost)' \subseteq Admitted(t) \ lost
    BY <1>0, <1>2, <2>1 DEF Admitted, InWindow, Running
  <2>3. Late(t)' \subseteq Late(t)
    BY <1>2, <2>1 DEF Late
  <2> QED
    BY <1>0, <1>2, <2>2, <2>3, AdmitShrinks
<1>3. ASSUME NEW r \in Requests, Trim(r) PROVE AdmitBound(t)'
  BY <1>2, <1>3 DEF Trim, Running
<1>4. ASSUME NEW r \in Requests, Count(r) PROVE AdmitBound(t)'
  <2>1. /\ Goto(r, "add") /\ phase[r] = "count" /\ UNCHANGED <<now, at, lost>>
        /\ passed' \subseteq passed \cup {r}
    BY <1>4 DEF Count
  <2>2. \A q \in Requests : phase'[q] = IF q = r THEN "add" ELSE phase[q]
    BY <2>1, GotoStep
  <2>3. CASE now <= t
    <3>1. Cardinality(Admitted(t) \ lost)' <= Limit + MaxConcurrent - 1
      BY <1>0, <1>4, <2>3, CountStep
    <3> QED
      BY <1>0, <2>1, <2>3, <3>1 DEF AdmitBound
  <2>4. CASE now > t
    <3>1. (Admitted(t) \ lost)' \subseteq (Admitted(t) \ lost) \cup Late(t)
      <4> SUFFICES ASSUME NEW q \in Admitted(t)', q \notin lost'
                   PROVE  q \in (Admitted(t) \ lost) \cup Late(t)
        OBVIOUS
      <4>1. q \in passed' /\ InWindow(q, t) /\ q \in Requests
        BY <1>0, <2>1 DEF Admitted, InWindow
      <4>2. CASE q = r
        BY <1>0, <2>1, <4>1, <4>2 DEF Late, InWindow
      <4>3. CASE q # r
        BY <2>1, <2>2, <4>1, <4>3 DEF Admitted
      <4> QED
        BY <4>2, <4>3
    <3>2. Late(t)' \subseteq Late(t)
      BY <2>1, <2>2 DEF Late
    <3>3. ((Admitted(t) \ lost) \cup Late(t))' \subseteq (Admitted(t) \ lost) \cup Late(t)
      BY <3>1, <3>2
    <3> QED
      BY <1>0, <2>1, <2>4, <3>3, AdmitShrinks
  <2> QED
    BY <1>0, <2>3, <2>4
<1>5. ASSUME NEW r \in Requests, Add(r) PROVE AdmitBound(t)'
  BY <1>2, <1>5 DEF Add, Running
<1>6. ASSUME NEW r \in Requests, Expire(r) PROVE AdmitBound(t)'
  <2>1. PICK p \in {IF r \in passed THEN "allowed" ELSE "oldest", "unlimited"} : Goto(r, p)
    BY <1>6 DEF Expire
  <2> QED
    BY <1>2, <1>6, <2>1 DEF Expire, Running
<1>7. ASSUME NEW r \in Requests, ReadOldest(r) PROVE AdmitBound(t)'
  BY <1>2, <1>7 DEF ReadOldest, Running
<1>8. ASSUME NEW r \in Requests, Fail(r) PROVE AdmitBound(t)'
  BY <1>2, <1>8 DEF Fail, Running
<1>9. CASE KeyExpires
  BY <1>9, TickStep DEF KeyExpires
<1>10. CASE Tick
  BY <1>10, TickStep DEF Tick
<1>11. CASE UNCHANGED vars
  <2>1. UNCHANGED <<now, phase, at, passed, lost>>
    BY <1>11 DEF vars
  <2>2. (Admitted(t) \ lost)' = Admitted(t) \ lost /\ Late(t)' = Late(t)
    BY <2>1 DEF Admitted, InWindow, Late
  <2> QED
    BY <1>0, <2>1, <2>2, AdmitShrinks
<1> QED
  BY <1>1, <1>3, <1>4, <1>5, <1>6, <1>7, <1>8, <1>9, <1>10, <1>11 DEF Next

LEMMA MemberStep == TypeOK /\ MemberInv /\ [Next]_vars => MemberInv'
<1> SUFFICES ASSUME TypeOK, MemberInv, [Next]_vars PROVE MemberInv'
  OBVIOUS
<1>1. ASSUME NEW r \in Requests, NEW p, Goto(r, p), zset' \subseteq zset \cup {r},
             r \in zset' => p \notin {"new", "trim", "count", "add"}
      PROVE  MemberInv'
  BY <1>1, GotoStep DEF MemberInv, TypeOK
<1>2. ASSUME NEW r \in Requests, Begin(r) PROVE MemberInv'
  BY <1>1, <1>2 DEF Begin, MemberInv
<1>3. ASSUME NEW r \in Requests, Trim(r) PROVE MemberInv'
  BY <1>1, <1>3 DEF Trim, MemberInv
<1>4. ASSUME NEW r \in Requests, Count(r) PROVE MemberInv'
  BY <1>1, <1>4 DEF Count, MemberInv
<1>5. ASSUME NEW r \in Requests, Add(r) PROVE MemberInv'
  BY <1>1, <1>5 DEF Add
<1>6. ASSUME NEW r \in Requests, Expire(r) PROVE MemberInv'
  <2>1. PICK p \in {IF r \in passed THEN "allowed" ELSE "oldest", "unlimited"} : Goto(r, p)
    BY <1>6 DEF Expire
  <2> QED
    BY <1>1, <1>6, <2>1 DEF Expire
<1>7. ASSUME NEW r \in Requests, ReadOldest(r) PROVE MemberInv'
  BY <1>1, <1>7 DEF ReadOldest
<1>8. ASSUME NEW r \in Requests, Fail(r) PROVE MemberInv'
  BY <1>1, <1>8 DEF Fail
<1>9. CASE KeyExpires \/ Tick \/ UNCHANGED vars
  BY <1>9 DEF KeyExpires, Tick, vars, MemberInv
<1> QED
  BY <1>2, <1>3, <1>4, <1>5, <1>6, <1>7, <1>8, <1>9 DEF Next

\* Who drops what left its window leaves no older member behind.
LEMMA TrimLeavesNoneOlder ==
  ASSUME RateAssumption, TypeOK, ClockInv, NEW r \in Requests, Trim(r)
  PROVE  Cardinality(Older(r)') <= MaxConcurrent - 1
<1>0. /\ Window \in Nat \ {0} /\ MaxConcurrent \in Nat
      /\ \A q \in Requests : at[q] \in Int
  BY DEF RateAssumption, TypeOK, Time
<1>1. /\ Goto(r, "count") /\ phase[r] = "trim" /\ at' = at
      /\ zset' = {q \in zset : at[q] > at[r] - Window}
      /\ zset \subseteq Requests
  BY DEF Trim, TypeOK
<1>2. Older(r)' \subseteq InFlight \ {r}
  <2> SUFFICES ASSUME NEW q \in Older(r)' PROVE q \in InFlight \ {r}
    OBVIOUS
  <2>1. q \in MembersToBe' /\ at[q] <= at[r] - Window
    BY <1>1 DEF Older
  <2>2. q \in Requests /\ q # r /\ q \notin zset'
    BY <1>0, <1>1, <2>1 DEF MembersToBe
  <2>3. phase'[q] \in {"trim", "count", "add"}
    BY <2>1, <2>2 DEF MembersToBe
  <2> QED
    BY <1>1, <2>2, <2>3, GotoStep DEF InFlight, Running
<1>3. InFlight \ {r} \in SUBSET Requests /\ InFlight \in SUBSET Requests /\ r \in InFlight
  BY <1>1 DEF InFlight, Running
<1>4. Cardinality(InFlight \ {r}) = Cardinality(InFlight) - 1
  BY <1>3, RequestElement
<1>5. Cardinality(Older(r)') <= Cardinality(InFlight \ {r})
  BY <1>2, <1>3, RequestSets
<1>6. Older(r)' \in SUBSET Requests
  BY <1>2, <1>3
<1>7. Cardinality(Older(r)') \in Nat /\ Cardinality(InFlight) \in Nat
  BY <1>3, <1>6, RequestSets
<1>8. Cardinality(InFlight) <= MaxConcurrent
  BY DEF ClockInv
<1> QED
  BY <1>0, <1>4, <1>5, <1>7, <1>8

LEMMA OlderStep ==
  RateAssumption /\ TypeOK /\ ClockInv /\ MemberInv /\ OlderInv /\ [Next]_vars => OlderInv'
<1> SUFFICES ASSUME RateAssumption, TypeOK, ClockInv, MemberInv, OlderInv, [Next]_vars,
                    NEW c \in Requests, phase'[c] = "count"
             PROVE  Cardinality(Older(c)') <= MaxConcurrent - 1
  BY DEF OlderInv
<1>0. /\ Window \in Nat \ {0} /\ MaxConcurrent \in Nat /\ now \in Int
      /\ \A q \in Requests : at[q] \in Int /\ at[q] <= now
      /\ MembersToBe \in SUBSET Requests
  BY DEF RateAssumption, TypeOK, Time, ClockInv, MembersToBe
<1> DEFINE Goal == Cardinality(Older(c)') <= MaxConcurrent - 1
<1>1. ASSUME phase[c] = "count", Older(c)' \subseteq Older(c) PROVE Goal
  <2>1. Older(c) \in SUBSET Requests /\ Older(c)' \in SUBSET Requests
    BY <1>0, <1>1 DEF Older
  <2>2. Cardinality(Older(c)') <= Cardinality(Older(c))
    BY <1>1, <2>1, RequestSets
  <2>3. Cardinality(Older(c)') \in Nat /\ Cardinality(Older(c)) \in Nat
    BY <2>1, RequestSets
  <2>4. Cardinality(Older(c)) <= MaxConcurrent - 1
    BY <1>1 DEF OlderInv
  <2> QED
    BY <1>0, <2>2, <2>3, <2>4
<1>2. ASSUME NEW r \in Requests, NEW p, Goto(r, p), at' = at, zset' \subseteq MembersToBe,
             r \in MembersToBe \/ p \notin {"trim", "count", "add"}, p = "count" => r # c
      PROVE  Goal
  <2>1. phase[c] = "count"
    BY <1>2, GotoStep
  <2>2. MembersToBe' \subseteq MembersToBe
    <3> SUFFICES ASSUME NEW q \in Requests, phase'[q] \in {"trim", "count", "add"}
                 PROVE  q \in MembersToBe
      BY <1>2 DEF MembersToBe
    <3> QED
      BY <1>2, GotoStep DEF MembersToBe
  <2> QED
    BY <1>1, <1>2, <2>1, <2>2 DEF Older
<1>3. ASSUME NEW r \in Requests, Begin(r) PROVE Goal
  <2>1. Goto(r, "trim") /\ at' = [at EXCEPT ![r] = now] /\ zset' = zset /\ phase[r] = "new"
    BY <1>3 DEF Begin
  <2>2. c # r /\ phase[c] = "count" /\ at'[c] = at[c] /\ at'[r] = now
    BY <2>1, GotoStep DEF TypeOK
  <2>3. Older(c)' \subseteq Older(c)
    <3> SUFFICES ASSUME NEW q \in Older(c)' PROVE q \in Older(c)
      OBVIOUS
    <3>1. q \in MembersToBe' /\ at'[q] <= at[c] - Window
      BY <2>2 DEF Older
    <3>2. q # r
      BY <1>0, <2>2, <3>1
    <3>3. q \in Requests /\ at'[q] = at[q] /\ phase'[q] = phase[q]
      BY <2>1, <3>1, <3>2, GotoStep DEF MembersToBe, TypeOK
    <3>4. q \in MembersToBe
      BY <2>1, <3>1, <3>3 DEF MembersToBe
    <3> QED
      BY <3>1, <3>3, <3>4 DEF Older
  <2> QED
    BY <1>1, <2>2, <2>3
<1>4. ASSUME NEW r \in Requests, Trim(r) PROVE Goal
  <2>1. CASE r = c
    BY <1>4, <2>1, TrimLeavesNoneOlder
  <2>2. CASE r # c
    BY <1>2, <1>4, <2>2 DEF Trim, MembersToBe
  <2> QED
    BY <2>1, <2>2
<1>5. ASSUME NEW r \in Requests, Count(r) PROVE Goal
  BY <1>2, <1>5 DEF Count, MembersToBe
<1>6. ASSUME NEW r \in Requests, Add(r) PROVE Goal
  BY <1>2, <1>6 DEF Add, MembersToBe
<1>7. ASSUME NEW r \in Requests, Expire(r) PROVE Goal
  <2>1. PICK p \in {IF r \in passed THEN "allowed" ELSE "oldest", "unlimited"} : Goto(r, p)
    BY <1>7 DEF Expire
  <2> QED
    BY <1>2, <1>7, <2>1 DEF Expire, MembersToBe
<1>8. ASSUME NEW r \in Requests, ReadOldest(r) PROVE Goal
  BY <1>2, <1>8 DEF ReadOldest, MembersToBe
<1>9. ASSUME NEW r \in Requests, Fail(r) PROVE Goal
  BY <1>2, <1>9 DEF Fail, MembersToBe
<1>10. CASE KeyExpires \/ Tick \/ UNCHANGED vars
  <2>1. UNCHANGED <<phase, at>> /\ zset' \subseteq zset
    BY <1>10 DEF KeyExpires, Tick, vars
  <2> QED
    BY <1>1, <2>1 DEF Older, MembersToBe
<1> QED
  BY <1>3, <1>4, <1>5, <1>6, <1>7, <1>8, <1>9, <1>10 DEF Next

\* Who drops what left its window just now, and leaves a key that is about
\* to go, leaves a member that did not renew it.
LEMMA TrimLeavesOverdue ==
  ASSUME RateAssumption, TypeOK, ClockInv, MemberInv, LifetimeInv,
         NEW r \in Requests, Trim(r), at[r] = now, ttl' = now + 1
  PROVE  \E q \in zset' : Overdue(q) /\ q # r /\ now - Window < at[q]
<1>0. /\ Window \in Nat \ {0} /\ now \in Int /\ None \notin Int
      /\ \A q \in Requests : at[q] \in Int /\ at[q] <= now
      /\ zset \subseteq Requests
  BY DEF RateAssumption, TypeOK, Time, ClockInv
<1>1. /\ phase[r] = "trim" /\ zset' = {q \in zset : at[q] > now - Window}
      /\ zset' # {} /\ ttl = now + 1
  BY <1>0 DEF Trim
<1>2. PICK m \in zset' : m \in zset /\ now - Window < at[m] /\ m \in Requests
  BY <1>0, <1>1
<1>3. m # r /\ phase[m] \notin {"new", "trim", "count", "add"}
  BY <1>1, <1>2 DEF MemberInv
<1>4. ~ Renewed(m)
  BY <1>0, <1>1, <1>2 DEF LifetimeInv
<1>5. phase[m] \in {"expire", "unlimited"}
  BY <1>2, <1>3, <1>4 DEF Renewed, TypeOK, Running
<1>6. CASE Overdue(m)
  BY <1>2, <1>3, <1>6
<1>7. CASE ~ Overdue(m)
  <2>1. phase[m] = "expire" /\ at[m] = now
    BY <1>0, <1>2, <1>5, <1>7 DEF Overdue
  <2>2. PICK q \in zset : Overdue(q) /\ now - Window < at[q]
    BY <1>1, <1>2, <2>1 DEF LifetimeInv
  <2>3. q \in zset' /\ q # r
    BY <1>0, <1>1, <2>2 DEF MemberInv
  <2> QED
    BY <2>2, <2>3
<1> QED
  BY <1>6, <1>7

LEMMA LifetimeStep ==
  RateAssumption /\ TypeOK /\ ClockInv /\ MemberInv /\ LifetimeInv /\ [Next]_vars => LifetimeInv'
<1> SUFFICES ASSUME RateAssumption, TypeOK, ClockInv, MemberInv, LifetimeInv, [Next]_vars
             PROVE  LifetimeInv'
  OBVIOUS
<1>0. /\ Window \in Nat \ {0} /\ now \in Int /\ None \notin Int
      /\ \A q \in Requests : at[q] \in Int /\ at[q] <= now
      /\ zset \subseteq Requests
  BY DEF RateAssumption, TypeOK, Time, ClockInv
<1>p. ASSUME \A q \in zset' : Renewed(q)' => ttl' # None /\ at'[q] + Window < ttl',
             \A r \in Requests :
               phase'[r] \in {"count", "add", "expire"} /\ at'[r] = now' /\ ttl' = now' + 1
                 => \E q \in zset' : Overdue(q)' /\ now' - Window < at'[q]
      PROVE  LifetimeInv'
  BY <1>p DEF LifetimeInv
<1>1. ASSUME NEW r \in Requests, NEW p, Goto(r, p), UNCHANGED <<now, at, ttl>>,
             zset \subseteq zset', zset' \subseteq zset \cup {r},
             p \in {"count", "add", "expire"} => phase[r] \in {"count", "add", "expire"},
             p \in {"allowed", "oldest", "refused"} /\ r \in zset' => r \in zset /\ Renewed(r),
             Overdue(r) => p = "unlimited"
      PROVE  LifetimeInv'
  <2>1. \A q \in zset' : Renewed(q)' => ttl' # None /\ at'[q] + Window < ttl'
    <3> SUFFICES ASSUME NEW q \in zset', Renewed(q)'
                 PROVE  ttl # None /\ at[q] + Window < ttl
      BY <1>1
    <3>1. q \in zset /\ Renewed(q)
      BY <1>0, <1>1, GotoStep DEF Renewed
    <3> QED
      BY <3>1 DEF LifetimeInv
  <2>2. ASSUME NEW c \in Requests, phase'[c] \in {"count", "add", "expire"}, at'[c] = now', ttl' = now' + 1
        PROVE  \E q \in zset' : Overdue(q)' /\ now' - Window < at'[q]
    <3>1. phase[c] \in {"count", "add", "expire"}
      BY <1>1, <2>2, GotoStep
    <3>2. PICK q \in zset : Overdue(q) /\ now - Window < at[q]
      BY <1>1, <2>2, <3>1 DEF LifetimeInv
    <3>3. Overdue(q)'
      BY <1>0, <1>1, <3>2, GotoStep DEF Overdue
    <3> QED
      BY <1>1, <3>2, <3>3
  <2> QED
    BY <1>p, <2>1, <2>2
<1>2. ASSUME NEW r \in Requests, Begin(r) PROVE LifetimeInv'
  <2>1. /\ Goto(r, "trim") /\ r \notin zset /\ UNCHANGED <<now, zset, ttl>>
        /\ \A q \in Requests \ {r} : at'[q] = at[q]
    BY <1>2 DEF Begin, MemberInv, TypeOK
  <2>2. \A q \in zset' : Renewed(q)' => ttl' # None /\ at'[q] + Window < ttl'
    BY <1>0, <2>1, GotoStep DEF LifetimeInv, Renewed
  <2>3. ASSUME NEW c \in Requests, phase'[c] \in {"count", "add", "expire"}, at'[c] = now', ttl' = now' + 1
        PROVE  \E q \in zset' : Overdue(q)' /\ now' - Window < at'[q]
    <3>1. c # r /\ phase[c] \in {"count", "add", "expire"} /\ at[c] = now /\ ttl = now + 1
      BY <2>1, <2>3, GotoStep
    <3>2. PICK q \in zset : Overdue(q) /\ now - Window < at[q]
      BY <3>1 DEF LifetimeInv
    <3>3. q \in Requests \ {r}
      BY <1>0, <2>1, <3>2
    <3>4. Overdue(q)' /\ now' - Window < at'[q]
      BY <2>1, <3>2, <3>3, GotoStep DEF Overdue
    <3> QED
      BY <2>1, <3>2, <3>4
  <2> QED
    BY <1>p, <2>2, <2>3
<1>3. ASSUME NEW r \in Requests, Trim(r) PROVE LifetimeInv'
  <2>1. /\ Goto(r, "count") /\ r \notin zset /\ UNCHANGED <<now, at>>
        /\ zset' = {q \in zset : at[q] > at[r] - Window}
        /\ zset' # {} => ttl' = ttl
        /\ zset' = {} => ttl' = None
    BY <1>3 DEF Trim, MemberInv
  <2>2. \A q \in zset' : Renewed(q)' => ttl' # None /\ at'[q] + Window < ttl'
    BY <1>0, <2>1, GotoStep DEF LifetimeInv, Renewed
  <2>3. ASSUME NEW c \in Requests, phase'[c] \in {"count", "add", "expire"}, at'[c] = now', ttl' = now' + 1
        PROVE  \E q \in zset' : Overdue(q)' /\ now' - Window < at'[q]
    <3>1. PICK q \in zset' : Overdue(q) /\ q # r /\ now - Window < at[q]
      <4>1. CASE c = r
        BY <1>3, <2>1, <2>3, <4>1, TrimLeavesOverdue
      <4>2. CASE c # r
        <5>1. phase[c] \in {"count", "add", "expire"} /\ at[c] = now /\ ttl' = now + 1
          BY <2>1, <2>3, <4>2, GotoStep
        <5>2. ttl = now + 1
          BY <1>0, <2>1, <5>1
        <5>3. PICK q \in zset : Overdue(q) /\ now - Window < at[q]
          BY <5>1, <5>2 DEF LifetimeInv
        <5>4. q \in zset' /\ q # r
          BY <1>0, <2>1, <5>3
        <5> QED
          BY <5>3, <5>4
      <4> QED
        BY <4>1, <4>2
    <3>2. q \in Requests /\ phase'[q] = phase[q]
      BY <1>0, <2>1, <3>1, GotoStep
    <3>3. Overdue(q)'
      BY <2>1, <3>1, <3>2 DEF Overdue
    <3> QED
      BY <2>1, <3>1, <3>3
  <2> QED
    BY <1>p, <2>2, <2>3
<1>4. ASSUME NEW r \in Requests, Count(r) PROVE LifetimeInv'
  BY <1>1, <1>4 DEF Count, Overdue
<1>5. ASSUME NEW r \in Requests, Add(r) PROVE LifetimeInv'
  BY <1>1, <1>5 DEF Add, Overdue
<1>6. ASSUME NEW r \in Requests, Expire(r) PROVE LifetimeInv'
  <2>1. PICK p \in {IF r \in passed THEN "allowed" ELSE "oldest", "unlimited"} : Goto(r, p)
    BY <1>6 DEF Expire
  <2>2. UNCHANGED <<now, at, zset>> /\ ttl' = IF zset = {} THEN ttl ELSE now + Window + 1
    BY <1>6 DEF Expire
  <2>3. \A q \in zset' : Renewed(q)' => ttl' # None /\ at'[q] + Window < ttl'
    BY <1>0, <2>2
  <2>4. ASSUME NEW c \in Requests, phase'[c] \in {"count", "add", "expire"}, at'[c] = now', ttl' = now' + 1
        PROVE  \E q \in zset' : Overdue(q)' /\ now' - Window < at'[q]
    <3>1. zset = {} /\ ttl = now + 1 /\ at[c] = now
      BY <1>0, <2>2, <2>4
    <3>2. phase[c] \in {"count", "add", "expire"}
      BY <2>1, <2>4, GotoStep
    <3> QED
      BY <3>1, <3>2 DEF LifetimeInv
  <2> QED
    BY <1>p, <2>3, <2>4
<1>7. ASSUME NEW r \in Requests, ReadOldest(r) PROVE LifetimeInv'
  BY <1>1, <1>7 DEF ReadOldest, Overdue, Renewed
<1>8. ASSUME NEW r \in Requests, Fail(r) PROVE LifetimeInv'
  BY <1>1, <1>8 DEF Fail
<1>9. CASE KeyExpires
  BY <1>0, <1>9, <1>p DEF KeyExpires
<1>10. CASE Tick
  <2>1. UNCHANGED <<phase, at, zset, ttl>> /\ now' = now + 1
    BY <1>10 DEF Tick
  <2>2. \A q \in zset' : Renewed(q)' => ttl' # None /\ at'[q] + Window < ttl'
    BY <2>1 DEF Renewed, LifetimeInv
  <2>3. \A r \in Requests : at'[r] # now'
    BY <1>0, <2>1
  <2> QED
    BY <1>p, <2>2, <2>3
<1>11. CASE UNCHANGED vars
  BY <1>11 DEF vars, LifetimeInv, Renewed, Overdue
<1> QED
  BY <1>2, <1>3, <1>4, <1>5, <1>6, <1>7, <1>8, <1>9, <1>10, <1>11 DEF Next

LEMMA RateInit == RateAssumption /\ Init => RateInv
<1> SUFFICES ASSUME RateAssumption, Init PROVE RateInv
  OBVIOUS
<1>0. Limit \in Nat \ {0} /\ Window \in Nat \ {0} /\ MaxConcurrent \in Nat \ {0} /\ MaxTime \in Nat
  BY DEF RateAssumption
<1>1. TypeOK
  BY <1>0 DEF Init, TypeOK, Time
<1>2. InFlight = {} /\ passed = {}
  BY DEF Init, InFlight, Running
<1>3. ClockInv
  BY <1>0, <1>2, FS_EmptySet DEF Init, ClockInv
<1>4. KeptInv
  BY <1>2 DEF KeptInv
<1>5. AdmitInv
  <2> SUFFICES ASSUME NEW t \in Time PROVE AdmitBound(t)
    BY DEF AdmitInv
  <2>1. Admitted(t) \ lost = {}
    BY <1>2 DEF Admitted
  <2>2. Cardinality(Admitted(t) \ lost) = 0
    BY <2>1, FS_EmptySet
  <2>3. ~ (now > t)
    BY <1>0 DEF Init, Time
  <2>4. 0 <= Limit + MaxConcurrent - 1
    BY <1>0
  <2> QED
    BY <2>2, <2>3, <2>4 DEF AdmitBound
<1>6. MemberInv /\ OlderInv /\ LifetimeInv
  BY DEF Init, MemberInv, OlderInv, LifetimeInv
<1> QED
  BY <1>1, <1>3, <1>4, <1>5, <1>6 DEF RateInv

\* The invariant that the bound rests on holds in every reachable state.
LEMMA RateInvariant == Spec => []RateInv
<1>1. Init => RateInv
  BY RateAssumption, RateInit
<1>2. RateInv /\ [Next]_vars => RateInv'
  BY RateAssumption, TypeStep, ClockStep, KeptStep, AdmitStep, MemberStep, OlderStep, LifetimeStep
     DEF RateInv
<1> QED
  BY <1>1, <1>2, PTL DEF Spec

LEMMA RateInvImpliesBound == RateAssumption /\ RateInv => WindowBound
<1> SUFFICES ASSUME RateAssumption, RateInv, NEW t \in Time
             PROVE  Cardinality(Admitted(t) \ lost) <= Limit + 2 * MaxConcurrent - 1
  BY DEF WindowBound
<1>1. /\ TypeOK /\ AdmitBound(t) /\ now \in Int /\ t \in Int
      /\ Limit \in Nat /\ MaxConcurrent \in Nat \ {0}
  BY DEF RateInv, TypeOK, Time, AdmitInv, RateAssumption
<1>2. /\ Cardinality(Admitted(t) \ lost) \in Nat
      /\ Cardinality((Admitted(t) \ lost) \cup Late(t)) \in Nat
      /\ Cardinality(Admitted(t) \ lost) <= Cardinality((Admitted(t) \ lost) \cup Late(t))
  BY <1>1, AdmittedSets, RequestSets
<1>3. CASE now <= t
  BY <1>1, <1>2, <1>3 DEF AdmitBound
<1>4. CASE now > t
  BY <1>1, <1>2, <1>4 DEF AdmitBound
<1> QED
  BY <1>1, <1>3, <1>4

(***************************************************************************)
(* For every limit, window and number of requests at once, no window lets  *)
(* through more than the limit and two for each request that can be in     *)
(* flight, less one (rate_limiter.go:27-41).                               *)
(***************************************************************************)
THEOREM RateWindowBound == Spec => []WindowBound
<1>1. RateInv => WindowBound
  BY RateAssumption, RateInvImpliesBound
<1> QED
  BY <1>1, RateInvariant, PTL

(***************************************************************************)
(* A member leaves the sorted set only when its window is over; the key    *)
(* outlives the members whose requests were let through                    *)
(* (rate_limiter.go:28-32).                                                *)
(***************************************************************************)
THEOREM RateKept == Spec => []KeptInv
<1>1. RateInv => KeptInv
  BY DEF RateInv
<1> QED
  BY <1>1, RateInvariant, PTL

(***************************************************************************)
(* The key takes requests with it only if a member of it was slow, or      *)
(* failed (rate_limiter.go:32).                                            *)
(***************************************************************************)
THEOREM RateLostIsSlow == Spec => LostIsSlow
<1>1. RateInv /\ [Next]_vars =>
        [lost' # lost =>
           \E q \in zset : phase[q] = "unlimited" \/ (phase[q] = "expire" /\ at[q] + 1 < now')]_vars
  <2> SUFFICES ASSUME RateInv, Next, lost' # lost
               PROVE  \E q \in zset : phase[q] = "unlimited" \/ (phase[q] = "expire" /\ at[q] + 1 < now')
    OBVIOUS
  <2>1. KeyExpires
    BY DEF Next, Begin, Trim, Count, Add, Expire, ReadOldest, Fail, Tick
  <2>2. ttl = now + 1 /\ now' = now + 1
    BY <2>1 DEF KeyExpires
  <2>3. PICK r \in zset : phase[r] = "expire"
    BY <2>1 DEF KeyExpires
  <2>4. /\ now \in Int /\ zset \subseteq Requests
        /\ \A q \in Requests : at[q] \in Int /\ at[q] <= now
    BY DEF RateInv, TypeOK, Time, ClockInv
  <2>5. CASE at[r] < now
    BY <2>2, <2>3, <2>4, <2>5
  <2>6. CASE at[r] = now
    <3>1. PICK q \in zset : Overdue(q)
      BY <2>2, <2>3, <2>4, <2>6 DEF RateInv, LifetimeInv
    <3> QED
      BY <2>2, <2>4, <3>1 DEF Overdue
  <2> QED
    BY <2>3, <2>4, <2>5, <2>6
<1> QED
  BY <1>1, RateInvariant, PTL DEF Spec, LostIsSlow

LEMMA RefusalCounts ==
  ASSUME RateAssumption, RateInv, NEW r \in Requests, Count(r), r \notin passed'
  PROVE  Cardinality({q \in Requests \ {r} : phase[q] # "new" /\ at[q] > at[r] - Window})
           >= Limit - (MaxConcurrent - 1)
<1> DEFINE Busy == {q \in Requests \ {r} : phase[q] # "new" /\ at[q] > at[r] - Window}
<1>0. /\ Limit \in Nat /\ MaxConcurrent \in Nat /\ Window \in Nat
      /\ \A q \in Requests : at[q] \in Int
      /\ zset \in SUBSET Requests /\ MembersToBe \in SUBSET Requests
      /\ phase[r] = "count"
  BY DEF RateAssumption, RateInv, TypeOK, Time, MembersToBe, Count
<1>1. ~ (Cardinality(zset) < Limit)
  BY DEF Count
<1>2. zset \subseteq Busy \cup Older(r)
  BY <1>0 DEF RateInv, MemberInv, Older, MembersToBe
<1>3. Busy \in SUBSET Requests /\ Older(r) \in SUBSET Requests /\ Busy \cup Older(r) \in SUBSET Requests
  BY <1>0 DEF Older
<1> HIDE DEF Busy
<1>4. Cardinality(zset) <= Cardinality(Busy \cup Older(r))
  BY <1>2, <1>3, RequestSets
<1>5. Cardinality(Busy \cup Older(r)) <= Cardinality(Busy) + Cardinality(Older(r))
  BY <1>3, RequestUnion
<1>6. Cardinality(Older(r)) <= MaxConcurrent - 1
  BY <1>0 DEF RateInv, OlderInv
<1>7. /\ Cardinality(zset) \in Nat /\ Cardinality(Busy) \in Nat
      /\ Cardinality(Older(r)) \in Nat /\ Cardinality(Busy \cup Older(r)) \in Nat
  BY <1>0, <1>3, RequestSets
<1>8. Cardinality(Busy) >= Limit - (MaxConcurrent - 1)
  BY <1>0, <1>1, <1>4, <1>5, <1>6, <1>7
<1> QED
  BY <1>8 DEF Busy

(***************************************************************************)
(* Nobody is refused whose window is not busy (rate_limiter.go:28-41).     *)
(***************************************************************************)
THEOREM RateRefusedIsBusy == Spec => RefusedIsBusy
<1>1. RateInv /\ [Next]_vars =>
        [\A r \in Requests :
           phase[r] = "count" /\ phase'[r] = "add" /\ r \notin passed'
             => Cardinality({q \in Requests \ {r} : phase[q] # "new" /\ at[q] > at[r] - Window})
                  >= Limit - (MaxConcurrent - 1)]_vars
  <2> SUFFICES ASSUME RateInv, Next, NEW r \in Requests,
                      phase[r] = "count", phase'[r] = "add", r \notin passed'
               PROVE  Cardinality({q \in Requests \ {r} : phase[q] # "new" /\ at[q] > at[r] - Window})
                        >= Limit - (MaxConcurrent - 1)
    OBVIOUS
  <2>0. TypeOK
    BY DEF RateInv
  <2>1. ASSUME NEW c \in Requests, NEW p, Goto(c, p), c # r \/ p # "add" PROVE FALSE
    BY <2>0, <2>1, GotoStep
  <2>2. ~ (KeyExpires \/ Tick)
    BY DEF KeyExpires, Tick
  <2>3. PICK c \in Requests : Begin(c) \/ Trim(c) \/ Count(c) \/ Add(c) \/ Expire(c) \/ ReadOldest(c) \/ Fail(c)
    BY <2>2 DEF Next
  <2>4. ~ (Begin(c) \/ Trim(c) \/ Add(c) \/ ReadOldest(c) \/ Fail(c))
    BY <2>1 DEF Begin, Trim, Add, ReadOldest, Fail
  <2>5. ~ Expire(c)
    BY <2>1 DEF Expire
  <2>6. Count(c) /\ c = r
    BY <2>1, <2>3, <2>4, <2>5 DEF Count
  <2> QED
    BY <2>6, RateAssumption, RefusalCounts
<1> QED
  BY <1>1, RateInvariant, PTL DEF Spec, RefusedIsBusy
=============================================================================
