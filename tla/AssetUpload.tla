----------------------------- MODULE AssetUpload -----------------------------
(***************************************************************************)
(* The upload path of the asset service (asset_service.go: Upload and      *)
(* BulkUpload) and the organization update it races with (org_service.go:  *)
(* UpdateOrg).                                                             *)
(*                                                                         *)
(* One upload makes four calls to three stores that share no transaction:  *)
(* it reads the organization and checks the quota, puts the object in the  *)
(* bucket, inserts the asset row, adds the bytes to the usage counter and  *)
(* publishes an event.  Each call is an action; other requests run between *)
(* two of them, every call may fail, and a call that fails may have taken  *)
(* effect (its reply was lost).  Crash drops a request where it stands.    *)
(*                                                                         *)
(* Operators named Mutant... are slips a change to the code might make;    *)
(* no specification uses them.  Put in the place of the definition after   *)
(* them, each breaks a property, which shows that the property can fail.   *)
(***************************************************************************)
EXTENDS Integers, FiniteSets, FiniteSetsExt

CONSTANTS Handlers,     \* request goroutines of the server processes
          Orgs, Assets, \* ids; an asset's storage key contains its id
          Sizes,        \* file sizes clients send
          BodyLimit,    \* fiber's BodyLimit: no file is larger
          Quota,        \* StorageQuotaBytes, which no operation changes
          FileLimits,   \* values of Settings.MaxFileSizeBytes (0: no limit)
          MaxFiles,     \* bound: files in one bulk request
          None          \* no admission, for the ledger

ASSUME UploadAssumption ==
  /\ IsFiniteSet(Handlers) /\ Handlers # {}
  /\ BodyLimit \in Nat
  /\ Sizes \subseteq 0 .. BodyLimit
  /\ Quota \in [Orgs -> Nat]
  /\ FileLimits \subseteq Nat /\ FileLimits # {}
  /\ MaxFiles \in Nat
  /\ None \notin [org : Orgs, size : Sizes]

VARIABLES org,      \* organizations: usage counter and file size limit
          rows,     \* assets table
          objects,  \* the bucket: ids of the assets whose object is stored
          events,   \* ids announced by an asset.created event
          result,   \* what Upload returned for each asset id
          job       \* where each request stands

vars == <<org, rows, objects, events, result, job>>

OrgRow == [used : Nat, limit : Nat]
AssetRow == [id : Assets, org : Orgs, size : Sizes]

\* Between the quota check and the usage update an upload holds its file.
Holding == {"store", "insert", "count"}

Idle == [pc |-> "idle"]
Checking == [pc : {"check"}, org : Orgs, left : 1 .. MaxFiles]
Uploading == [pc : Holding \cup {"cleanup", "announce"}, org : Orgs,
              left : 1 .. MaxFiles, asset : Assets, size : Sizes]
Configuring == [pc : {"configure"}, org : Orgs, seen : OrgRow]

TypeOK ==
  /\ org \in [Orgs -> OrgRow]
  /\ rows \subseteq AssetRow
  /\ objects \subseteq Assets
  /\ events \subseteq Assets
  /\ result \in [Assets -> {"none", "ok", "error"}]
  /\ job \in [Handlers -> {Idle} \cup Checking \cup Uploading \cup Configuring]

Init ==
  /\ \E l \in FileLimits : org = [o \in Orgs |-> [used |-> 0, limit |-> l]]
  /\ rows = {}
  /\ objects = {}
  /\ events = {}
  /\ result = [a \in Assets |-> "none"]
  /\ job = [h \in Handlers |-> Idle]

-----------------------------------------------------------------------------
Uses(h, a) == job[h].pc \in Holding \cup {"cleanup", "announce"} /\ job[h].asset = a

\* uuid.New(): an id no row, object or running request has.
Fresh(a) ==
  /\ result[a] = "none"
  /\ a \notin objects
  /\ \A r \in rows : r.id # a
  /\ \A h \in Handlers : ~Uses(h, a)

RowOf(h) == [id |-> job[h].asset, org |-> job[h].org, size |-> job[h].size]

Goto(h, pc) == job' = [job EXCEPT ![h].pc = pc]

\* Upload returns for one file; BulkUpload goes on with the next, if any.
NextFile(h) ==
  job' = [job EXCEPT ![h] =
            IF @.left = 1 THEN Idle
            ELSE [pc |-> "check", org |-> @.org, left |-> @.left - 1]]

Return(h, answer) ==
  /\ result' = [result EXCEPT ![job[h].asset] = answer]
  /\ NextFile(h)

-----------------------------------------------------------------------------
\* POST /assets (one file) or POST /assets/bulk (n files, one after another).
BeginUpload(h, o, n) ==
  /\ job[h] = Idle
  /\ job' = [job EXCEPT ![h] = [pc |-> "check", org |-> o, left |-> n]]
  /\ UNCHANGED <<org, rows, objects, events, result>>

\* The quota is compared with what is used, without the file.
MutantAdmit(h, a, s) ==
  /\ job[h].pc = "check"
  /\ Fresh(a)
  /\ LET o == job[h].org IN
       /\ org[o].used < Quota[o]
       /\ job' = [job EXCEPT ![h] = [pc |-> "store", org |-> o, left |-> @.left,
                                     asset |-> a, size |-> s]]
  /\ UNCHANGED <<org, rows, objects, events, result>>

\* The organization is read; the file passes the quota and the size limit.
Admit(h, a, s) ==
  /\ job[h].pc = "check"
  /\ Fresh(a)
  /\ LET o == job[h].org IN
       /\ org[o].used + s <= Quota[o]
       /\ org[o].limit = 0 \/ s <= org[o].limit
       /\ job' = [job EXCEPT ![h] = [pc |-> "store", org |-> o, left |-> @.left,
                                     asset |-> a, size |-> s]]
  /\ UNCHANGED <<org, rows, objects, events, result>>

\* Quota exceeded, file too large, organization or body unreadable.
Refuse(h) ==
  /\ job[h].pc = "check"
  /\ NextFile(h)
  /\ UNCHANGED <<org, rows, objects, events, result>>

StoreObject(h) ==
  /\ job[h].pc = "store"
  /\ objects' = objects \cup {job[h].asset}
  /\ Goto(h, "insert")
  /\ UNCHANGED <<org, rows, events, result>>

\* The error is ignored, as ServeStyled ignores it.
MutantStoreFails(h) ==
  /\ job[h].pc = "store"
  /\ Goto(h, "insert")
  /\ UNCHANGED <<org, rows, objects, events, result>>

StoreFails(h) ==
  /\ job[h].pc = "store"
  /\ objects' \in {objects, objects \cup {job[h].asset}}
  /\ Return(h, "error")
  /\ UNCHANGED <<org, rows, events>>

InsertRow(h) ==
  /\ job[h].pc = "insert"
  /\ rows' = rows \cup {RowOf(h)}
  /\ Goto(h, "count")
  /\ UNCHANGED <<org, objects, events, result>>

InsertFails(h) ==
  /\ job[h].pc = "insert"
  /\ rows' \in {rows, rows \cup {RowOf(h)}}
  /\ Goto(h, "cleanup")
  /\ UNCHANGED <<org, objects, events, result>>

\* Best-effort deletion of the object, whose own failure is ignored.
Cleanup(h) ==
  /\ job[h].pc = "cleanup"
  /\ objects' \in {objects, objects \ {job[h].asset}}
  /\ Return(h, "error")
  /\ UNCHANGED <<org, rows, events>>

\* UPDATE ... SET storage_used_bytes = storage_used_bytes + size.
CountBytes(h) ==
  /\ job[h].pc = "count"
  /\ org' = [org EXCEPT ![job[h].org].used = @ + job[h].size]
  /\ Goto(h, "announce")
  /\ UNCHANGED <<rows, objects, events, result>>

\* A usage update whose reply was lost is tried again.
MutantCountFails(h) ==
  /\ job[h].pc = "count"
  /\ org' = [org EXCEPT ![job[h].org].used = @ + job[h].size]
  /\ UNCHANGED <<rows, objects, events, result, job>>

\* The same call failing without effect; its error is ignored.
CountFails(h) ==
  /\ job[h].pc = "count"
  /\ Goto(h, "announce")
  /\ UNCHANGED <<org, rows, objects, events, result>>

\* asset.created is published, or is lost; Upload returns the asset.
Announce(h) ==
  /\ job[h].pc = "announce"
  /\ events' \in {events, events \cup {job[h].asset}}
  /\ Return(h, "ok")
  /\ UNCHANGED <<org, rows, objects>>

-----------------------------------------------------------------------------
\* PUT /orgs/me reads the row ...
BeginUpdateOrg(h, o) ==
  /\ job[h] = Idle
  /\ job' = [job EXCEPT ![h] = [pc |-> "configure", org |-> o, seen |-> org[o]]]
  /\ UNCHANGED <<org, rows, objects, events, result>>

\* The whole row is written back, the counter with it.
MutantUpdateOrg(h) ==
  /\ job[h].pc = "configure"
  /\ \E l \in FileLimits :
       org' = [org EXCEPT ![job[h].org] = [job[h].seen EXCEPT !.limit = l]]
  /\ job' = [job EXCEPT ![h] = Idle]
  /\ UNCHANGED <<rows, objects, events, result>>

\* ... and writes it back with the settings of the request, or with those it
\* read; the usage counter is not among the columns written.
UpdateOrg(h) ==
  /\ job[h].pc = "configure"
  /\ \E l \in FileLimits \cup {job[h].seen.limit} :
       org' = [org EXCEPT ![job[h].org].limit = l]
  /\ job' = [job EXCEPT ![h] = Idle]
  /\ UNCHANGED <<rows, objects, events, result>>

\* A deferred deletion of the object runs on every early exit.
MutantCrash(h) ==
  /\ job[h] # Idle
  /\ objects' = objects \ {a \in Assets : Uses(h, a)}
  /\ job' = [job EXCEPT ![h] = Idle]
  /\ UNCHANGED <<org, rows, events, result>>

\* The process dies, or shuts down without waiting, or the write fails.
Crash(h) ==
  /\ job[h] # Idle
  /\ job' = [job EXCEPT ![h] = Idle]
  /\ UNCHANGED <<org, rows, objects, events, result>>

Next ==
  \E h \in Handlers :
    \/ \E o \in Orgs, n \in 1 .. MaxFiles : BeginUpload(h, o, n)
    \/ \E a \in Assets, s \in Sizes : Admit(h, a, s)
    \/ Refuse(h)
    \/ StoreObject(h) \/ StoreFails(h)
    \/ InsertRow(h) \/ InsertFails(h) \/ Cleanup(h)
    \/ CountBytes(h) \/ CountFails(h)
    \/ Announce(h)
    \/ \E o \in Orgs : BeginUpdateOrg(h, o)
    \/ UpdateOrg(h)
    \/ Crash(h)

Spec == Init /\ [][Next]_vars

-----------------------------------------------------------------------------
RowIds == {r.id : r \in rows}

(***************************************************************************)
(* An upload that returned its asset left both halves of it: the row and   *)
(* the object (asset_service.go:99-129), whatever other requests did.      *)
(***************************************************************************)
AcknowledgedIsStored ==
  \A a \in Assets : result[a] = "ok" => a \in RowIds /\ a \in objects

(***************************************************************************)
(* A row whose object is gone is only left by an upload that returned an   *)
(* error: its insert took effect, its reply was lost, and the best-effort  *)
(* cleanup deleted the object (asset_service.go:125-129).  No crash and no *)
(* other failure leaves one.                                               *)
(***************************************************************************)
RowsAreBacked ==
  \A r \in rows : r.id \notin objects => result[r.id] = "error"

(***************************************************************************)
(* The usage counter of an organization never exceeds the bytes of its     *)
(* rows: failures make it count too little, never too much                 *)
(* (asset_service.go:132 runs only after the insert succeeded).            *)
(***************************************************************************)
NeverOvercounted ==
  \A o \in Orgs :
    org[o].used <= MapThenSumSet(LAMBDA r : r.size, {r \in rows : r.org = o})

(***************************************************************************)
(* An asset.created event names an asset that has a row                    *)
(* (asset_service.go:125, 134-138).                                        *)
(***************************************************************************)
AnnouncedExists == events \subseteq RowIds

(***************************************************************************)
(* The strengthening that makes the two storage invariants inductive: an   *)
(* asset belongs to one request at a time, has returned nothing while it   *)
(* does, and has exactly the halves the request's phase says.              *)
(***************************************************************************)
OwnedByOne ==
  \A g, h \in Handlers : \A a \in Assets : Uses(g, a) /\ Uses(h, a) => g = h

PhaseMatchesStores ==
  \A h \in Handlers : \A a \in Assets : Uses(h, a) =>
    /\ result[a] = "none"
    /\ job[h].pc # "store" => a \in objects
    /\ job[h].pc \in {"store", "insert"} => a \notin RowIds
    /\ job[h].pc \in {"count", "announce"} => a \in RowIds

StorageInv ==
  /\ TypeOK
  /\ AcknowledgedIsStored
  /\ RowsAreBacked
  /\ AnnouncedExists
  /\ OwnedByOne
  /\ PhaseMatchesStores

(***************************************************************************)
(* No step takes bytes off a counter: an organization update built from a  *)
(* stale read does not undo the increments made since                      *)
(* (org_service.go:53-69, org_repository.go:75-86).                        *)
(***************************************************************************)
UsageNeverLost == [][\A o \in Orgs : org'[o].used >= org[o].used]_vars

(***************************************************************************)
(* What "Check quota" (asset_service.go:65) and the API's "Storage quota   *)
(* exceeded" (openapi.yaml:733) say: usage stays within the quota.  It     *)
(* holds for one request at a time and fails for two.                      *)
(***************************************************************************)
QuotaRespected == \A o \in Orgs : org[o].used <= Quota[o]

(***************************************************************************)
(* The upload path implements the quota ledger: a file is pending from the *)
(* moment it passes the check until its bytes are counted or dropped.      *)
(***************************************************************************)
usedBytes == [o \in Orgs |-> org[o].used]
pendingFiles ==
  [h \in Handlers |-> IF job[h].pc \in Holding
                      THEN [org |-> job[h].org, size |-> job[h].size]
                      ELSE None]

Ledger == INSTANCE QuotaLedger WITH
            Clients <- Handlers, MaxSize <- BodyLimit,
            used <- usedBytes, pending <- pendingFiles

ImplementsLedger == Ledger!Spec
BoundedOvershoot == Ledger!BoundedOvershoot
=============================================================================
