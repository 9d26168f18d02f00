------------------------ MODULE DomainResolutionProofs ------------------------
(***************************************************************************)
(* For any number of requests, domains, records and organizations, no      *)
(* request is attributed to an organization that never proved its control  *)
(* of the domain.  The invariant follows the proof through the places that *)
(* hold it: the DNS, the request that looked there, the row, the cache.    *)
(***************************************************************************)
EXTENDS DomainResolution, TLAPS

Jobs == {Idle} \cup Administering \cup Looking \cup Resolving

LEMMA JobShape ==
  ASSUME TypeOK, NEW h \in Handlers
  PROVE  /\ job[h].pc \in {"lookup", "verify", "cacheVerified", "uncache", "delete"} =>
              job[h] \in Administering
         /\ job[h].pc \in {"cached", "row"} => job[h] \in Looking
         /\ job[h].pc \in {"warm", "resolved"} => job[h] \in Resolving
BY DEF TypeOK, Idle, Administering, Looking, Resolving

LEMMA ClaimType ==
  ASSUME NEW r \in DomainRecord
  PROVE  /\ ClaimOf(r) \in Claim
         /\ ClaimOf(r).id = r.id /\ ClaimOf(r).name = r.name /\ ClaimOf(r).org = r.org
BY DEF DomainRecord, Claim, ClaimOf

LEMMA GotoType ==
  ASSUME TypeOK, NEW h \in Handlers, NEW pc, Goto(h, pc),
         [job[h] EXCEPT !.pc = pc] \in Jobs
  PROVE  /\ job' \in [Handlers -> Jobs] /\ job'[h] = [job[h] EXCEPT !.pc = pc]
         /\ \A g \in Handlers : g # h => job'[g] = job[g]
<1>1. job' = [job EXCEPT ![h] = [job[h] EXCEPT !.pc = pc]]
  BY DEF Goto
<1> QED
  BY <1>1 DEF TypeOK, Jobs

-----------------------------------------------------------------------------
LEMMA TypeInit == Init => TypeOK
BY DEF Init, TypeOK

LEMMA BeginType ==
  ASSUME TypeOK, NEW h \in Handlers, Begin(h)
  PROVE  TypeOK'
<1>1. ASSUME NEW r \in domains, BeginVerify(h, r) \/ BeginRemove(h, r) PROVE TypeOK'
  <2>1. ClaimOf(r) \in Claim
    BY ClaimType DEF TypeOK
  <2>2. \A pc \in {"lookup", "uncache"} : [pc |-> pc, dr |-> ClaimOf(r)] \in Administering
    BY <2>1 DEF Administering
  <2> QED
    BY <1>1, <2>2 DEF BeginVerify, BeginRemove, TypeOK
<1>2. ASSUME NEW n \in Names, BeginResolve(h, n) PROVE TypeOK'
  <2>1. [pc |-> "cached", name |-> n] \in Looking
    BY DEF Looking
  <2> QED
    BY <1>2, <2>1 DEF BeginResolve, TypeOK
<1> QED
  BY <1>1, <1>2 DEF Begin

LEMMA ContinueType ==
  ASSUME TypeOK, NEW h \in Handlers, Continue(h)
  PROVE  TypeOK'
<1> USE DEF Jobs
<1>1. CASE verifyDNSChallenge(h) \/ MarkVerified(h) \/ Uncache(h)
  <2>1. job[h] \in Administering
    BY <1>1, JobShape DEF verifyDNSChallenge, MarkVerified, Uncache
  <2>2. \A pc \in {"verify", "cacheVerified", "delete"} :
           [job[h] EXCEPT !.pc = pc] \in Administering
    BY <2>1 DEF Administering
  <2>3. \E pc \in {"verify", "cacheVerified", "delete"} : Goto(h, pc)
    BY <1>1 DEF verifyDNSChallenge, MarkVerified, Uncache
  <2>4. job' \in [Handlers -> Jobs]
    BY <2>2, <2>3, GotoType
  <2>5. \A r \in DomainRecord : [r EXCEPT !.verified = TRUE] \in DomainRecord
    BY DEF DomainRecord
  <2>6. domains' \subseteq DomainRecord
    BY <1>1, <2>5 DEF verifyDNSChallenge, MarkVerified, Uncache, TypeOK
  <2>7. cache' \in [Names -> Orgs \cup {None}]
    BY <1>1 DEF verifyDNSChallenge, MarkVerified, Uncache, Write, TypeOK
  <2> QED
    BY <1>1, <2>4, <2>6, <2>7 DEF verifyDNSChallenge, MarkVerified, Uncache, TypeOK
<1>2. CASE CacheVerified(h)
  <2>1. job[h].dr.org \in Orgs
    BY <1>2, JobShape DEF CacheVerified, Administering, Claim
  <2> QED
    BY <1>2, <2>1 DEF CacheVerified, Write, TypeOK
<1>3. CASE DeleteDomain(h)
  BY <1>3 DEF DeleteDomain, TypeOK
<1>4. CASE CacheHit(h)
  <2>1. job[h].name \in Names
    BY <1>4, JobShape DEF CacheHit, Looking
  <2>2. cache[job[h].name] \in Orgs
    BY <1>4, <2>1 DEF CacheHit, TypeOK
  <2>3. [pc |-> "resolved", name |-> job[h].name, org |-> cache[job[h].name]] \in Resolving
    BY <2>1, <2>2 DEF Resolving
  <2> QED
    BY <1>4, <2>3 DEF CacheHit, TypeOK
<1>5. CASE CacheMiss(h)
  <2>1. job[h] \in Looking
    BY <1>5, JobShape DEF CacheMiss
  <2>2. [job[h] EXCEPT !.pc = "row"] \in Looking
    BY <2>1 DEF Looking
  <2>3. job' \in [Handlers -> Jobs]
    BY <1>5, <2>2, GotoType DEF CacheMiss
  <2> QED
    BY <1>5, <2>3 DEF CacheMiss, TypeOK
<1>6. CASE ReadRow(h)
  <2>1. PICK r \in domains :
           job' = [job EXCEPT ![h] = [pc |-> "warm", name |-> r.name, org |-> r.org]]
    BY <1>6 DEF ReadRow
  <2>2. [pc |-> "warm", name |-> r.name, org |-> r.org] \in Resolving
    BY DEF TypeOK, DomainRecord, Resolving
  <2> QED
    BY <1>6, <2>1, <2>2 DEF ReadRow, TypeOK
<1>7. CASE Warm(h)
  <2>1. job[h] \in Resolving
    BY <1>7, JobShape DEF Warm
  <2>2. [job[h] EXCEPT !.pc = "resolved"] \in Resolving /\ job[h].org \in Orgs
    BY <2>1 DEF Resolving
  <2>3. job' \in [Handlers -> Jobs]
    BY <1>7, <2>2, GotoType DEF Warm
  <2>4. cache' \in [Names -> Orgs \cup {None}]
    BY <1>7, <2>2 DEF Warm, Write, TypeOK
  <2> QED
    BY <1>7, <2>3, <2>4 DEF Warm, TypeOK
<1>8. CASE Finish(h) \/ Abandon(h)
  BY <1>8 DEF Finish, Abandon, TypeOK
<1> QED
  BY <1>1, <1>2, <1>3, <1>4, <1>5, <1>6, <1>7, <1>8 DEF Continue

LEMMA TypeStep == TypeOK /\ [Next]_vars => TypeOK'
<1> SUFFICES ASSUME TypeOK, [Next]_vars PROVE TypeOK'
  OBVIOUS
<1>1. ASSUME NEW i \in Ids, NEW n \in Names, NEW o \in Orgs, AddDomain(i, n, o)
      PROVE  TypeOK'
  <2>1. [id |-> i, name |-> n, org |-> o, verified |-> FALSE] \in DomainRecord
    BY DEF DomainRecord
  <2>2. [id |-> i, name |-> n, org |-> o] \in Claim
    BY DEF Claim
  <2> QED
    BY <1>1, <2>1, <2>2 DEF AddDomain, TypeOK
<1>2. ASSUME NEW c \in claims, PublishTXT(c) PROVE TypeOK'
  BY <1>2 DEF PublishTXT, TypeOK, Claim
<1>3. ASSUME NEW i \in txt, WithdrawTXT(i) PROVE TypeOK'
  BY <1>3 DEF WithdrawTXT, TypeOK
<1>4. ASSUME NEW n \in Names, Expire(n) PROVE TypeOK'
  BY <1>4 DEF Expire, TypeOK
<1>5. CASE UNCHANGED vars
  BY <1>5 DEF vars, TypeOK
<1> QED
  BY <1>1, <1>2, <1>3, <1>4, <1>5, BeginType, ContinueType DEF Next

-----------------------------------------------------------------------------
\* A proof, once given, stays given.
LEMMA ProvenStays ==
  ASSUME claims \subseteq claims', published \subseteq published',
         NEW n, NEW o, Proven(n, o)
  PROVE  Proven(n, o)'
BY DEF Proven

LEMMA HistoryGrows ==
  ASSUME [Next]_vars
  PROVE  claims \subseteq claims' /\ published \subseteq published'
BY DEF Next, Begin, Continue, BeginVerify, BeginRemove, BeginResolve, verifyDNSChallenge,
       MarkVerified, CacheVerified, Uncache, DeleteDomain, CacheHit, CacheMiss, ReadRow, Warm,
       Finish, Abandon, AddDomain, PublishTXT, WithdrawTXT, Expire, vars

\* A verified row, a cached organization and a request that passed the DNS
\* lookup are each enough for the organization to have proved itself.
LEMMA RowProves ==
  ASSUME ProvenInv, NEW r \in domains, r.verified
  PROVE  Proven(r.name, r.org)
<1>1. r \in DomainRecord /\ ClaimOf(r) \in claims /\ r.id \in published
  BY DEF ProvenInv, TypeOK, RecordsAreClaims, VerifiedIsPublished
<1> QED
  BY <1>1, ClaimType DEF Proven

LEMMA LookupProves ==
  ASSUME ProvenInv, NEW h \in Handlers, job[h].pc \in {"verify", "cacheVerified"}
  PROVE  Proven(job[h].dr.name, job[h].dr.org) /\ job[h].dr.id \in published
BY DEF ProvenInv, JobsAreProven, Proven

\* What one request's step must establish for all of them.
JobProven(h) ==
  /\ job[h].pc \in {"warm", "resolved"} => Proven(job[h].name, job[h].org)
  /\ job[h].pc \in {"lookup", "verify", "cacheVerified"} => job[h].dr \in claims
  /\ job[h].pc \in {"verify", "cacheVerified"} => job[h].dr.id \in published

LEMMA OthersStay ==
  ASSUME JobsAreProven, claims \subseteq claims', published \subseteq published',
         NEW g \in Handlers, job'[g] = job[g]
  PROVE  JobProven(g)'
BY ProvenStays DEF JobsAreProven, JobProven

LEMMA JobsProven ==
  ASSUME TypeOK, TypeOK', ProvenInv, [Next]_vars, NEW h \in Handlers,
         Begin(h) \/ Continue(h)
  PROVE  JobsAreProven'
<1>1. claims \subseteq claims' /\ published \subseteq published'
  BY HistoryGrows
<1>2. \A g \in Handlers : g # h => job'[g] = job[g]
  BY DEF TypeOK, Begin, Continue, BeginVerify, BeginRemove, BeginResolve, verifyDNSChallenge,
         MarkVerified, CacheVerified, Uncache, DeleteDomain, CacheHit, CacheMiss, ReadRow,
         Warm, Finish, Abandon, Goto
<1>3. JobProven(h)'
  <2>1. CASE \E r \in domains : BeginVerify(h, r)
    <3>1. PICK r \in domains : BeginVerify(h, r)
      BY <2>1
    <3>2. job'[h] = [pc |-> "lookup", dr |-> ClaimOf(r)]
      BY <3>1 DEF BeginVerify, TypeOK
    <3> QED
      BY <1>1, <3>2 DEF JobProven, ProvenInv, RecordsAreClaims
  <2>2. CASE \E r \in domains : BeginRemove(h, r)
    <3>1. job'[h].pc = "uncache"
      BY <2>2 DEF BeginRemove, TypeOK
    <3> QED
      BY <3>1 DEF JobProven
  <2>3. CASE \E n \in Names : BeginResolve(h, n)
    <3>1. job'[h].pc = "cached"
      BY <2>3 DEF BeginResolve, TypeOK
    <3> QED
      BY <3>1 DEF JobProven
  <2>4. CASE verifyDNSChallenge(h)
    <3>1. job[h] \in Administering /\ job[h].dr.id \in published /\ job[h].dr \in claims
      BY <2>4, JobShape DEF verifyDNSChallenge, ProvenInv, JobsAreProven
    <3>2. job'[h].pc = "verify" /\ job'[h].dr = job[h].dr
      BY <2>4, <3>1 DEF verifyDNSChallenge, Goto, TypeOK, Administering
    <3> QED
      BY <1>1, <3>1, <3>2 DEF JobProven
  <2>5. CASE MarkVerified(h)
    <3>1. job[h] \in Administering /\ job[h].dr.id \in published /\ job[h].dr \in claims
      BY <2>5, JobShape DEF MarkVerified, ProvenInv, JobsAreProven
    <3>2. job'[h].pc = "cacheVerified" /\ job'[h].dr = job[h].dr
      BY <2>5, <3>1 DEF MarkVerified, Goto, TypeOK, Administering
    <3> QED
      BY <1>1, <3>1, <3>2 DEF JobProven
  <2>6. CASE Uncache(h)
    <3>1. job[h] \in Administering
      BY <2>6, JobShape DEF Uncache
    <3>2. job'[h].pc = "delete"
      BY <2>6, <3>1 DEF Uncache, Goto, TypeOK, Administering
    <3> QED
      BY <3>2 DEF JobProven
  <2>7. CASE CacheVerified(h) \/ DeleteDomain(h) \/ Finish(h) \/ Abandon(h)
    <3>1. job'[h].pc = "idle"
      BY <2>7 DEF CacheVerified, DeleteDomain, Finish, Abandon, TypeOK, Idle
    <3> QED
      BY <3>1 DEF JobProven
  <2>8. CASE CacheHit(h)
    <3>1. job[h].name \in Names /\ cache[job[h].name] # None
      BY <2>8, JobShape DEF CacheHit, Looking
    <3>2. Proven(job[h].name, cache[job[h].name])
      BY <3>1 DEF ProvenInv, CachedIsProven
    <3>3. job'[h] = [pc |-> "resolved", name |-> job[h].name, org |-> cache[job[h].name]]
      BY <2>8 DEF CacheHit, TypeOK
    <3> QED
      BY <1>1, <3>2, <3>3, ProvenStays DEF JobProven
  <2>9. CASE CacheMiss(h)
    <3>1. job[h] \in Looking
      BY <2>9, JobShape DEF CacheMiss
    <3>2. job'[h].pc = "row"
      BY <2>9, <3>1 DEF CacheMiss, Goto, TypeOK, Looking
    <3> QED
      BY <3>2 DEF JobProven
  <2>10. CASE ReadRow(h)
    <3>1. PICK r \in domains :
             /\ r.verified
             /\ job' = [job EXCEPT ![h] = [pc |-> "warm", name |-> r.name, org |-> r.org]]
      BY <2>10 DEF ReadRow
    <3>2. job'[h] = [pc |-> "warm", name |-> r.name, org |-> r.org]
      BY <3>1 DEF TypeOK
    <3>3. Proven(r.name, r.org)
      BY <3>1, RowProves
    <3> QED
      BY <1>1, <3>2, <3>3, ProvenStays DEF JobProven
  <2>11. CASE Warm(h)
    <3>1. job[h] \in Resolving /\ Proven(job[h].name, job[h].org)
      BY <2>11, JobShape DEF Warm, ProvenInv, JobsAreProven
    <3>2. /\ job'[h].pc = "resolved"
          /\ job'[h].name = job[h].name /\ job'[h].org = job[h].org
      BY <2>11, <3>1 DEF Warm, Goto, TypeOK, Resolving
    <3> QED
      BY <1>1, <3>1, <3>2, ProvenStays DEF JobProven
  <2> QED
    BY <2>1, <2>2, <2>3, <2>4, <2>5, <2>6, <2>7, <2>8, <2>9, <2>10, <2>11 DEF Begin, Continue
<1>4. \A g \in Handlers : JobProven(g)'
  BY <1>1, <1>2, <1>3, OthersStay DEF ProvenInv
<1> QED
  BY <1>4 DEF JobsAreProven, JobProven

-----------------------------------------------------------------------------
LEMMA ProvenInit == Init => ProvenInv
BY TypeInit DEF Init, ProvenInv, RecordsAreClaims, VerifiedIsPublished, CachedIsProven,
                JobsAreProven, Idle

LEMMA ProvenStep == ProvenInv /\ [Next]_vars => ProvenInv'
<1> SUFFICES ASSUME ProvenInv, [Next]_vars PROVE ProvenInv'
  OBVIOUS
<1>1. TypeOK /\ TypeOK'
  BY TypeStep DEF ProvenInv
<1>2. claims \subseteq claims' /\ published \subseteq published'
  BY HistoryGrows
<1>3. txt' \subseteq published'
  BY <1>2 DEF ProvenInv, Next, Begin, Continue, BeginVerify, BeginRemove, BeginResolve,
       verifyDNSChallenge, MarkVerified, CacheVerified, Uncache, DeleteDomain, CacheHit,
       CacheMiss, ReadRow, Warm, Finish, Abandon, AddDomain, PublishTXT, WithdrawTXT, Expire,
       vars
\* Rows change when one is added, verified or deleted.
<1>4. RecordsAreClaims' /\ VerifiedIsPublished'
  <2>1. ASSUME domains' \subseteq domains PROVE RecordsAreClaims' /\ VerifiedIsPublished'
    BY <1>2, <2>1 DEF ProvenInv, RecordsAreClaims, VerifiedIsPublished, ClaimOf
  <2>2. ASSUME NEW i \in Ids, NEW n \in Names, NEW o \in Orgs, AddDomain(i, n, o)
        PROVE  RecordsAreClaims' /\ VerifiedIsPublished'
    BY <2>2 DEF AddDomain, ProvenInv, RecordsAreClaims, VerifiedIsPublished, ClaimOf
  <2>3. ASSUME NEW h \in Handlers, MarkVerified(h)
        PROVE  RecordsAreClaims' /\ VerifiedIsPublished'
    <3>1. job[h].dr.id \in published
      BY <2>3, LookupProves DEF MarkVerified
    <3>2. ASSUME NEW q \in domains'
          PROVE  ClaimOf(q) \in claims /\ (q.verified => q.id \in published)
      <4>1. PICK r \in domains :
               q = IF r.id = job[h].dr.id THEN [r EXCEPT !.verified = TRUE] ELSE r
        BY <2>3, <3>2 DEF MarkVerified
      <4>2. r \in DomainRecord
        BY <1>1 DEF TypeOK
      <4>3. q.id = r.id /\ q.name = r.name /\ q.org = r.org
        BY <4>1, <4>2 DEF DomainRecord
      <4>4. ClaimOf(q) = ClaimOf(r)
        BY <4>3 DEF ClaimOf
      <4>5. q.verified => q.id \in published
        BY <3>1, <4>1, <4>3 DEF ProvenInv, VerifiedIsPublished
      <4> QED
        BY <4>4, <4>5 DEF ProvenInv, RecordsAreClaims
    <3> QED
      BY <1>2, <3>2 DEF RecordsAreClaims, VerifiedIsPublished, ClaimOf
  <2> QED
    BY <2>1, <2>2, <2>3
    DEF Next, Begin, Continue, BeginVerify, BeginRemove, BeginResolve, verifyDNSChallenge,
        CacheVerified, Uncache, DeleteDomain, CacheHit, CacheMiss, ReadRow, Warm, Finish,
        Abandon, PublishTXT, WithdrawTXT, Expire, vars
\* The cache is filled by verification and by resolution only.
<1>5. CachedIsProven'
  <2> SUFFICES ASSUME NEW n \in Names, cache'[n] # None PROVE Proven(n, cache[n])'
    BY DEF CachedIsProven
  <2>1. CASE cache'[n] = cache[n]
    BY <1>2, <2>1, ProvenStays DEF ProvenInv, CachedIsProven
  <2>2. ASSUME NEW h \in Handlers, CacheVerified(h), cache'[n] # cache[n]
        PROVE  Proven(n, cache[n])'
    <3>1. n = job[h].dr.name /\ cache'[n] = job[h].dr.org
      BY <1>1, <2>2 DEF CacheVerified, Write, TypeOK
    <3>2. Proven(job[h].dr.name, job[h].dr.org)
      BY <2>2, LookupProves DEF CacheVerified
    <3> QED
      BY <1>2, <3>1, <3>2, ProvenStays
  <2>3. ASSUME NEW h \in Handlers, Warm(h), cache'[n] # cache[n] PROVE Proven(n, cache[n])'
    <3>1. n = job[h].name /\ cache'[n] = job[h].org
      BY <1>1, <2>3 DEF Warm, Write, TypeOK
    <3>2. Proven(job[h].name, job[h].org)
      BY <2>3 DEF Warm, ProvenInv, JobsAreProven
    <3> QED
      BY <1>2, <3>1, <3>2, ProvenStays
  <2>4. ASSUME NEW h \in Handlers, Uncache(h) PROVE cache'[n] = cache[n]
    BY <1>1, <2>4 DEF Uncache, Write, TypeOK
  <2>5. ASSUME NEW m \in Names, Expire(m) PROVE cache'[n] = cache[n]
    BY <1>1, <2>5 DEF Expire, TypeOK
  <2> QED
    BY <2>1, <2>2, <2>3, <2>4, <2>5
    DEF Next, Begin, Continue, BeginVerify, BeginRemove, BeginResolve, verifyDNSChallenge,
        MarkVerified, DeleteDomain, CacheHit, CacheMiss, ReadRow, Finish,
        Abandon, AddDomain, PublishTXT, WithdrawTXT, vars
<1>6. JobsAreProven'
  <2>1. ASSUME UNCHANGED job PROVE JobsAreProven'
    <3>1. \A g \in Handlers : JobProven(g)'
      BY <1>2, <2>1, OthersStay DEF ProvenInv
    <3> QED
      BY <3>1 DEF JobsAreProven, JobProven
  <2> QED
    BY <1>1, <2>1, JobsProven DEF Next, AddDomain, PublishTXT, WithdrawTXT, Expire, vars
<1> QED
  BY <1>1, <1>3, <1>4, <1>5, <1>6 DEF ProvenInv

(***************************************************************************)
(* Rows, cache and requests always have a published challenge behind them. *)
(***************************************************************************)
THEOREM DomainProofs == Spec => []ProvenInv
<1>1. Init => ProvenInv
  BY ProvenInit
<1>2. ProvenInv /\ [Next]_vars => ProvenInv'
  BY ProvenStep
<1> QED
  BY <1>1, <1>2, PTL DEF Spec

(***************************************************************************)
(* No request is attributed to an organization that has not proved its     *)
(* control of the domain.                                                  *)
(***************************************************************************)
THEOREM DomainAttribution == Spec => []ResolvedIsProven
<1>1. ProvenInv => ResolvedIsProven
  BY DEF ProvenInv, JobsAreProven, ResolvedIsProven
<1> QED
  BY <1>1, DomainProofs, PTL
=============================================================================
