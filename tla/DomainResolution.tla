--------------------------- MODULE DomainResolution ---------------------------
(***************************************************************************)
(* Custom domains (domain_service.go): an organization adds a domain,      *)
(* proves with a TXT record that it controls it, and may remove it; every  *)
(* request is mapped from its Host to an organization through a Redis      *)
(* entry that lives 24 hours, filled by verification and by resolution.    *)
(*                                                                         *)
(* The domains table, the DNS and Redis are separate: each call is an      *)
(* action, and Abandon is any error return and any crash.                  *)
(* Operators named Mutant... are slips that no specification uses: each,   *)
(* put in the place of the definition after it, breaks a property.         *)
(***************************************************************************)
EXTENDS Naturals, FiniteSets

CONSTANTS Handlers,    \* request goroutines
          Names,       \* domain names
          Orgs,
          Ids,         \* domain record ids, each with a challenge token of its own
          CacheFails,  \* BOOLEAN: may Redis refuse a write?
          None

ASSUME DomainAssumption == CacheFails \in BOOLEAN /\ None \notin Orgs

VARIABLES domains,    \* rows of the domains table
          claims,     \* every record ever created
          txt,        \* records whose token is in the DNS, as "dam-verify=<token>"
          published,  \* records whose token ever was
          cache,      \* Redis: domain name to organization
          job         \* where each request stands

vars == <<domains, claims, txt, published, cache, job>>

Claim == [id : Ids, name : Names, org : Orgs]
DomainRecord == [id : Ids, name : Names, org : Orgs, verified : BOOLEAN]

Idle == [pc |-> "idle"]
Administering == [pc : {"lookup", "verify", "cacheVerified", "uncache", "delete"}, dr : Claim]
Looking == [pc : {"cached", "row"}, name : Names]
Resolving == [pc : {"warm", "resolved"}, name : Names, org : Orgs]

TypeOK ==
  /\ domains \subseteq DomainRecord
  /\ claims \subseteq Claim
  /\ txt \subseteq Ids
  /\ published \subseteq Ids
  /\ cache \in [Names -> Orgs \cup {None}]
  /\ job \in [Handlers -> {Idle} \cup Administering \cup Looking \cup Resolving]

Init ==
  /\ domains = {}
  /\ claims = {}
  /\ txt = {}
  /\ published = {}
  /\ cache = [n \in Names |-> None]
  /\ job = [h \in Handlers |-> Idle]

-----------------------------------------------------------------------------
Goto(h, pc) == job' = [job EXCEPT ![h].pc = pc]

\* Redis SET or DEL, whose error is ignored.
Write(n, value) ==
  \/ cache' = [cache EXCEPT ![n] = value]
  \/ CacheFails /\ UNCHANGED cache

ClaimOf(r) == [id |-> r.id, name |-> r.name, org |-> r.org]

-----------------------------------------------------------------------------
\* The look for a duplicate only chooses the error: UNIQUE(domain) decides.
AddDomain(i, n, o) ==
  /\ \A c \in claims : c.id # i
  /\ \A r \in domains : r.name # n
  /\ domains' = domains \cup {[id |-> i, name |-> n, org |-> o, verified |-> FALSE]}
  /\ claims' = claims \cup {[id |-> i, name |-> n, org |-> o]}
  /\ UNCHANGED <<txt, published, cache, job>>

\* Who controls a domain's DNS adds and removes TXT records at will.
PublishTXT(c) ==
  /\ c.id \notin txt
  /\ txt' = txt \cup {c.id}
  /\ published' = published \cup {c.id}
  /\ UNCHANGED <<domains, claims, cache, job>>

WithdrawTXT(i) ==
  /\ txt' = txt \ {i}
  /\ UNCHANGED <<domains, claims, published, cache, job>>

-----------------------------------------------------------------------------
\* POST /domains/:id/verify, by the organization of the record.
BeginVerify(h, r) ==
  /\ job[h] = Idle
  /\ job' = [job EXCEPT ![h] = [pc |-> "lookup", dr |-> ClaimOf(r)]]
  /\ UNCHANGED <<domains, claims, txt, published, cache>>

verifyDNSChallenge(h) ==
  /\ job[h].pc = "lookup"
  /\ job[h].dr.id \in txt
  /\ Goto(h, "verify")
  /\ UNCHANGED <<domains, claims, txt, published, cache>>

\* The row is found by its name, whoever's it now is.
MutantMarkVerified(h) ==
  /\ job[h].pc = "verify"
  /\ domains' = {IF r.name = job[h].dr.name THEN [r EXCEPT !.verified = TRUE] ELSE r :
                   r \in domains}
  /\ Goto(h, "cacheVerified")
  /\ UNCHANGED <<claims, txt, published, cache>>

\* UPDATE ... WHERE id: no row, and no error, if it was removed meanwhile.
MarkVerified(h) ==
  /\ job[h].pc = "verify"
  /\ domains' = {IF r.id = job[h].dr.id THEN [r EXCEPT !.verified = TRUE] ELSE r :
                   r \in domains}
  /\ Goto(h, "cacheVerified")
  /\ UNCHANGED <<claims, txt, published, cache>>

CacheVerified(h) ==
  /\ job[h].pc = "cacheVerified"
  /\ Write(job[h].dr.name, job[h].dr.org)
  /\ job' = [job EXCEPT ![h] = Idle]
  /\ UNCHANGED <<domains, claims, txt, published>>

-----------------------------------------------------------------------------
\* DELETE /domains/:id: the row is read ...
BeginRemove(h, r) ==
  /\ job[h] = Idle
  /\ job' = [job EXCEPT ![h] = [pc |-> "uncache", dr |-> ClaimOf(r)]]
  /\ UNCHANGED <<domains, claims, txt, published, cache>>

\* ... its name removed from the cache, and only then the row deleted.
Uncache(h) ==
  /\ job[h].pc = "uncache"
  /\ Write(job[h].dr.name, None)
  /\ Goto(h, "delete")
  /\ UNCHANGED <<domains, claims, txt, published>>

DeleteDomain(h) ==
  /\ job[h].pc = "delete"
  /\ domains' = {r \in domains : r.id # job[h].dr.id}
  /\ job' = [job EXCEPT ![h] = Idle]
  /\ UNCHANGED <<claims, txt, published, cache>>

-----------------------------------------------------------------------------
\* Every request with a Host: Redis first ...
BeginResolve(h, n) ==
  /\ job[h] = Idle
  /\ job' = [job EXCEPT ![h] = [pc |-> "cached", name |-> n]]
  /\ UNCHANGED <<domains, claims, txt, published, cache>>

\* A hit renews the entry.
MutantCacheHit(h) ==
  /\ job[h].pc = "cached"
  /\ cache[job[h].name] # None
  /\ job' = [job EXCEPT ![h] = [pc |-> "warm", name |-> @.name, org |-> cache[@.name]]]
  /\ UNCHANGED <<domains, claims, txt, published, cache>>

CacheHit(h) ==
  /\ job[h].pc = "cached"
  /\ cache[job[h].name] # None
  /\ job' = [job EXCEPT ![h] = [pc |-> "resolved", name |-> @.name, org |-> cache[@.name]]]
  /\ UNCHANGED <<domains, claims, txt, published, cache>>

CacheMiss(h) ==
  /\ job[h].pc = "cached"
  /\ cache[job[h].name] = None \/ CacheFails
  /\ Goto(h, "row")
  /\ UNCHANGED <<domains, claims, txt, published, cache>>

\* ... then the table, for a verified record ...
ReadRow(h) ==
  /\ job[h].pc = "row"
  /\ \E r \in domains :
       /\ r.name = job[h].name /\ r.verified
       /\ job' = [job EXCEPT ![h] = [pc |-> "warm", name |-> r.name, org |-> r.org]]
  /\ UNCHANGED <<domains, claims, txt, published, cache>>

\* ... whose organization is remembered and returned.
Warm(h) ==
  /\ job[h].pc = "warm"
  /\ Write(job[h].name, job[h].org)
  /\ Goto(h, "resolved")
  /\ UNCHANGED <<domains, claims, txt, published>>

Finish(h) ==
  /\ job[h].pc = "resolved"
  /\ job' = [job EXCEPT ![h] = Idle]
  /\ UNCHANGED <<domains, claims, txt, published, cache>>

Abandon(h) ==
  /\ job[h].pc \notin {"idle", "resolved"}
  /\ job' = [job EXCEPT ![h] = Idle]
  /\ UNCHANGED <<domains, claims, txt, published, cache>>

\* The entry's 24 hours are over.
Expire(n) ==
  /\ cache[n] # None
  /\ cache' = [cache EXCEPT ![n] = None]
  /\ UNCHANGED <<domains, claims, txt, published, job>>

-----------------------------------------------------------------------------
Begin(h) ==
  \/ \E r \in domains : BeginVerify(h, r) \/ BeginRemove(h, r)
  \/ \E n \in Names : BeginResolve(h, n)

Continue(h) ==
  \/ verifyDNSChallenge(h) \/ MarkVerified(h) \/ CacheVerified(h)
  \/ Uncache(h) \/ DeleteDomain(h)
  \/ CacheHit(h) \/ CacheMiss(h) \/ ReadRow(h) \/ Warm(h) \/ Finish(h)
  \/ Abandon(h)

Next ==
  \/ \E h \in Handlers : Begin(h) \/ Continue(h)
  \/ \E i \in Ids, n \in Names, o \in Orgs : AddDomain(i, n, o)
  \/ \E c \in claims : PublishTXT(c)
  \/ \E i \in txt : WithdrawTXT(i)
  \/ \E n \in Names : Expire(n)

Spec == Init /\ [][Next]_vars

\* A request that has begun goes on or fails (every call returns), and Redis
\* honours the lifetime every Set gives its entry.
FairSpec ==
  /\ Spec
  /\ \A h \in Handlers : WF_vars(Continue(h))
  /\ \A n \in Names : WF_vars(Expire(n))

-----------------------------------------------------------------------------
\* o has, at some time, had its challenge for n in n's DNS.
Proven(n, o) == \E c \in claims : c.name = n /\ c.org = o /\ c.id \in published

Owns(n, o) == \E r \in domains : r.name = n /\ r.org = o /\ r.verified

(***************************************************************************)
(* A request is attributed to an organization only if that organization    *)
(* has proved that it controls the domain, whatever was added, verified,   *)
(* removed and added again by others while the request was resolved        *)
(* (domain_service.go:78-106, 122-149).                                    *)
(***************************************************************************)
ResolvedIsProven ==
  \A h \in Handlers : job[h].pc = "resolved" => Proven(job[h].name, job[h].org)

(***************************************************************************)
(* What that rests on: a verified record, a cached organization and a      *)
(* verification past its DNS lookup all have a published challenge behind  *)
(* them.                                                                   *)
(***************************************************************************)
RecordsAreClaims == \A r \in domains : ClaimOf(r) \in claims
VerifiedIsPublished == \A r \in domains : r.verified => r.id \in published
CachedIsProven == \A n \in Names : cache[n] # None => Proven(n, cache[n])
JobsAreProven ==
  \A h \in Handlers :
    /\ job[h].pc \in {"warm", "resolved"} => Proven(job[h].name, job[h].org)
    /\ job[h].pc \in {"lookup", "verify", "cacheVerified"} => job[h].dr \in claims
    /\ job[h].pc \in {"verify", "cacheVerified"} => job[h].dr.id \in published

ProvenInv ==
  /\ TypeOK
  /\ RecordsAreClaims
  /\ txt \subseteq published
  /\ VerifiedIsPublished
  /\ CachedIsProven
  /\ JobsAreProven

(***************************************************************************)
(* A stale entry does not outlive its lifetime: once an organization has   *)
(* lost a domain for good, its entry is gone for good                      *)
(* (domain_service.go:103, 147: every entry has 24 hours, no hit extends   *)
(* them).                                                                  *)
(***************************************************************************)
StaleEntriesGo ==
  \A n \in Names, o \in Orgs : <>[](~Owns(n, o)) => <>[](cache[n] # o)
=============================================================================
