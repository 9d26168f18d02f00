-------------------------- MODULE AssetUploadProofs --------------------------
(***************************************************************************)
(* What holds of the upload path for any number of requests, assets and    *)
(* organizations: type correctness, the two-store invariants, the bytes    *)
(* the counter has against the bytes of the rows, and the implementation   *)
(* of the quota ledger, with the bound it gives.                           *)
(***************************************************************************)
EXTENDS AssetUpload, FiniteSetTheorems, TLAPS

\* A request's phase determines the shape of its record.
LEMMA JobShape ==
  ASSUME TypeOK, NEW h \in Handlers
  PROVE  /\ job[h].pc = "idle" => job[h] = Idle
         /\ job[h].pc = "check" => job[h] \in Checking
         /\ job[h].pc \in Holding \cup {"cleanup", "announce"} => job[h] \in Uploading
         /\ job[h].pc = "configure" => job[h] \in Configuring
BY DEF TypeOK, Idle, Checking, Uploading, Configuring, Holding

LEMMA CheckingFields ==
  ASSUME NEW j \in Checking
  PROVE  j.org \in Orgs /\ j.left \in 1 .. MaxFiles
BY DEF Checking

LEMMA UploadingFields ==
  ASSUME NEW j \in Uploading
  PROVE  /\ j.pc \in Holding \cup {"cleanup", "announce"}
         /\ j.org \in Orgs /\ j.left \in 1 .. MaxFiles
         /\ j.asset \in Assets /\ j.size \in Sizes
BY DEF Uploading

\* Moving an upload to another phase keeps its record's shape.
LEMMA GotoType ==
  ASSUME TypeOK, NEW h \in Handlers, job[h] \in Uploading,
         NEW pc \in Holding \cup {"cleanup", "announce"}, Goto(h, pc)
  PROVE  job' \in [Handlers -> {Idle} \cup Checking \cup Uploading \cup Configuring]
<1>1. [job[h] EXCEPT !.pc = pc] \in Uploading
  BY DEF Uploading
<1> QED
  BY <1>1 DEF TypeOK, Goto

LEMMA NextFileType ==
  ASSUME TypeOK, NEW h \in Handlers, job[h] \in Checking \cup Uploading,
         UploadAssumption, NextFile(h)
  PROVE  job' \in [Handlers -> {Idle} \cup Checking \cup Uploading \cup Configuring]
<1>1. job[h].org \in Orgs /\ job[h].left \in 1 .. MaxFiles /\ MaxFiles \in Nat
  BY CheckingFields, UploadingFields DEF UploadAssumption
<1>2. job[h].left # 1 =>
        [pc |-> "check", org |-> job[h].org, left |-> job[h].left - 1] \in Checking
  BY <1>1 DEF Checking
<1> QED
  BY <1>2 DEF TypeOK, NextFile

LEMMA RowOfType ==
  ASSUME NEW h \in Handlers, job[h] \in Uploading
  PROVE  RowOf(h) \in AssetRow /\ RowOf(h).id = job[h].asset
BY UploadingFields DEF RowOf, AssetRow

LEMMA TypeInit == UploadAssumption /\ Init => TypeOK
BY DEF UploadAssumption, Init, TypeOK, OrgRow

LEMMA TypeStep == UploadAssumption /\ TypeOK /\ [Next]_vars => TypeOK'
<1> SUFFICES ASSUME UploadAssumption, TypeOK, [Next]_vars PROVE TypeOK'
  OBVIOUS
<1> DEFINE Jobs == {Idle} \cup Checking \cup Uploading \cup Configuring
<1>0. Sizes \subseteq Nat /\ FileLimits \subseteq Nat
  BY DEF UploadAssumption
<1>1. ASSUME NEW h \in Handlers, NEW o \in Orgs, NEW n \in 1 .. MaxFiles, BeginUpload(h, o, n)
      PROVE  TypeOK'
  <2>1. [pc |-> "check", org |-> o, left |-> n] \in Checking
    BY DEF Checking
  <2> QED
    BY <1>1, <2>1 DEF BeginUpload, TypeOK
<1>2. ASSUME NEW h \in Handlers, NEW a \in Assets, NEW s \in Sizes, Admit(h, a, s)
      PROVE  TypeOK'
  <2>1. job[h].org \in Orgs /\ job[h].left \in 1 .. MaxFiles
    BY <1>2, JobShape, CheckingFields DEF Admit
  <2>2. [pc |-> "store", org |-> job[h].org, left |-> job[h].left, asset |-> a, size |-> s]
          \in Uploading
    BY <2>1 DEF Uploading, Holding
  <2> QED
    BY <1>2, <2>2 DEF Admit, TypeOK
<1>3. ASSUME NEW h \in Handlers, Refuse(h) PROVE TypeOK'
  <2>1. job' \in [Handlers -> Jobs]
    BY <1>3, JobShape, NextFileType DEF Refuse
  <2> QED
    BY <1>3, <2>1 DEF Refuse, TypeOK
<1>4. ASSUME NEW h \in Handlers, StoreObject(h) PROVE TypeOK'
  <2>1. job[h] \in Uploading
    BY <1>4, JobShape DEF StoreObject, Holding
  <2>2. job' \in [Handlers -> Jobs]
    BY <1>4, <2>1, GotoType DEF StoreObject, Holding
  <2> QED
    BY <1>4, <2>1, <2>2, UploadingFields DEF StoreObject, TypeOK
<1>5. ASSUME NEW h \in Handlers, StoreFails(h) PROVE TypeOK'
  <2>1. job[h] \in Uploading
    BY <1>5, JobShape DEF StoreFails, Holding
  <2>2. job' \in [Handlers -> Jobs]
    BY <1>5, <2>1, NextFileType DEF StoreFails, Return
  <2>3. result' \in [Assets -> {"none", "ok", "error"}]
    BY <1>5 DEF StoreFails, Return, TypeOK
  <2> QED
    BY <1>5, <2>1, <2>2, <2>3, UploadingFields DEF StoreFails, TypeOK
<1>6. ASSUME NEW h \in Handlers, InsertRow(h) \/ InsertFails(h) PROVE TypeOK'
  <2>1. job[h] \in Uploading
    BY <1>6, JobShape DEF InsertRow, InsertFails, Holding
  <2>2. job' \in [Handlers -> Jobs]
    BY <1>6, <2>1, GotoType DEF InsertRow, InsertFails, Holding
  <2>3. rows' \subseteq AssetRow
    BY <1>6, <2>1, RowOfType DEF InsertRow, InsertFails, TypeOK
  <2> QED
    BY <1>6, <2>2, <2>3 DEF InsertRow, InsertFails, TypeOK
<1>7. ASSUME NEW h \in Handlers, Cleanup(h) PROVE TypeOK'
  <2>1. job[h] \in Uploading
    BY <1>7, JobShape DEF Cleanup
  <2>2. job' \in [Handlers -> Jobs]
    BY <1>7, <2>1, NextFileType DEF Cleanup, Return
  <2>3. result' \in [Assets -> {"none", "ok", "error"}]
    BY <1>7 DEF Cleanup, Return, TypeOK
  <2> QED
    BY <1>7, <2>2, <2>3 DEF Cleanup, TypeOK
<1>8. ASSUME NEW h \in Handlers, CountBytes(h) \/ CountFails(h) PROVE TypeOK'
  <2>1. job[h] \in Uploading
    BY <1>8, JobShape DEF CountBytes, CountFails, Holding
  <2>2. job' \in [Handlers -> Jobs]
    BY <1>8, <2>1, GotoType DEF CountBytes, CountFails
  <2>3. job[h].size \in Nat /\ job[h].org \in Orgs
    BY <1>0, <2>1, UploadingFields
  <2>4. org' \in [Orgs -> OrgRow]
    BY <1>8, <2>3 DEF CountBytes, CountFails, TypeOK, OrgRow
  <2> QED
    BY <1>8, <2>2, <2>4 DEF CountBytes, CountFails, TypeOK
<1>9. ASSUME NEW h \in Handlers, Announce(h) PROVE TypeOK'
  <2>1. job[h] \in Uploading
    BY <1>9, JobShape DEF Announce
  <2>2. job' \in [Handlers -> Jobs]
    BY <1>9, <2>1, NextFileType DEF Announce, Return
  <2>3. result' \in [Assets -> {"none", "ok", "error"}]
    BY <1>9 DEF Announce, Return, TypeOK
  <2> QED
    BY <1>9, <2>1, <2>2, <2>3, UploadingFields DEF Announce, TypeOK
<1>10. ASSUME NEW h \in Handlers, NEW o \in Orgs, BeginUpdateOrg(h, o) PROVE TypeOK'
  <2>1. [pc |-> "configure", org |-> o, seen |-> org[o]] \in Configuring
    BY DEF Configuring, TypeOK
  <2> QED
    BY <1>10, <2>1 DEF BeginUpdateOrg, TypeOK
<1>11. ASSUME NEW h \in Handlers, UpdateOrg(h) PROVE TypeOK'
  <2>1. job[h] \in Configuring
    BY <1>11, JobShape DEF UpdateOrg
  <2>2. job[h].seen.limit \in Nat
    BY <2>1 DEF Configuring, OrgRow
  <2>3. PICK l \in FileLimits \cup {job[h].seen.limit} :
          org' = [org EXCEPT ![job[h].org].limit = l]
    BY <1>11 DEF UpdateOrg
  <2>4. l \in Nat
    BY <1>0, <2>2, <2>3
  <2>5. org' \in [Orgs -> OrgRow]
    BY <2>3, <2>4 DEF TypeOK, OrgRow
  <2> QED
    BY <1>11, <2>5 DEF UpdateOrg, TypeOK
<1>12. ASSUME NEW h \in Handlers, Crash(h) PROVE TypeOK'
  BY <1>12 DEF Crash, TypeOK
<1>13. CASE UNCHANGED vars
  BY <1>13 DEF vars, TypeOK
<1> QED
  BY <1>1, <1>2, <1>3, <1>4, <1>5, <1>6, <1>7, <1>8, <1>9, <1>10, <1>11, <1>12, <1>13
  DEF Next

(***************************************************************************)
(* Every state of the upload path is well typed.                           *)
(***************************************************************************)
THEOREM UploadTypes == Spec => []TypeOK
<1>1. Init => TypeOK
  BY UploadAssumption, TypeInit
<1>2. TypeOK /\ [Next]_vars => TypeOK'
  BY UploadAssumption, TypeStep
<1> QED
  BY <1>1, <1>2, PTL DEF Spec

-----------------------------------------------------------------------------
\* Who uses which asset, before and after a request moves on.
LEMMA GotoUses ==
  ASSUME TypeOK, NEW h \in Handlers, job[h] \in Uploading,
         NEW pc \in Holding \cup {"cleanup", "announce"}, Goto(h, pc)
  PROVE  /\ job'[h].pc = pc
         /\ \A g \in Handlers : g # h => job'[g] = job[g]
         /\ \A g \in Handlers, b \in Assets : Uses(g, b)' <=> Uses(g, b)
         /\ Uses(h, job[h].asset)
<1>1. /\ job'[h].pc = pc /\ job'[h].asset = job[h].asset
      /\ \A g \in Handlers : g # h => job'[g] = job[g]
  BY DEF TypeOK, Goto, Uploading
<1>2. job[h].pc \in Holding \cup {"cleanup", "announce"}
  BY UploadingFields
<1> QED
  BY <1>1, <1>2 DEF Uses

LEMMA NextFileUses ==
  ASSUME TypeOK, NEW h \in Handlers, NextFile(h)
  PROVE  /\ \A b \in Assets : ~Uses(h, b)'
         /\ \A g \in Handlers : g # h => job'[g] = job[g]
<1>1. job'[h].pc \in {"idle", "check"}
  BY DEF TypeOK, NextFile, Idle
<1> QED
  BY <1>1 DEF TypeOK, NextFile, Uses, Holding

\* A request that only lets go of its asset keeps the ownership invariants.
LEMMA LettingGo ==
  ASSUME NEW h \in Handlers, OwnedByOne, PhaseMatchesStores,
         \A b \in Assets : ~Uses(h, b)',
         \A g \in Handlers : g # h => job'[g] = job[g],
         \A g \in Handlers, b \in Assets : g # h /\ Uses(g, b) =>
           /\ result'[b] = result[b]
           /\ b \in objects <=> b \in objects'
           /\ b \in RowIds <=> b \in RowIds'
  PROVE  OwnedByOne' /\ PhaseMatchesStores'
<1>1. \A g \in Handlers, b \in Assets : Uses(g, b)' => g # h /\ Uses(g, b)
  BY DEF Uses
<1>2. OwnedByOne'
  BY <1>1 DEF OwnedByOne
<1>3. PhaseMatchesStores'
  BY <1>1 DEF PhaseMatchesStores
<1> QED
  BY <1>2, <1>3

LEMMA StorageInit == UploadAssumption /\ Init => StorageInv
<1> SUFFICES ASSUME UploadAssumption, Init PROVE StorageInv
  OBVIOUS
<1>1. TypeOK
  BY TypeInit
<1>2. \A h \in Handlers, a \in Assets : ~Uses(h, a)
  BY DEF Init, Uses, Idle, Holding
<1>3. AcknowledgedIsStored /\ RowsAreBacked /\ AnnouncedExists
  BY DEF Init, AcknowledgedIsStored, RowsAreBacked, AnnouncedExists
<1> QED
  BY <1>1, <1>2, <1>3 DEF StorageInv, OwnedByOne, PhaseMatchesStores

LEMMA StorageStep == UploadAssumption /\ StorageInv /\ [Next]_vars => StorageInv'
<1> SUFFICES ASSUME UploadAssumption, StorageInv, [Next]_vars PROVE StorageInv'
  OBVIOUS
<1>0. /\ TypeOK /\ AcknowledgedIsStored /\ RowsAreBacked /\ AnnouncedExists
      /\ OwnedByOne /\ PhaseMatchesStores /\ TypeOK'
  BY TypeStep DEF StorageInv
<1> DEFINE Stores == AcknowledgedIsStored' /\ RowsAreBacked' /\ AnnouncedExists'
           Owners == OwnedByOne' /\ PhaseMatchesStores'
<1> SUFFICES Stores /\ Owners
  BY <1>0 DEF StorageInv
\* Steps that leave the stores and the results alone.
<1>q. ASSUME UNCHANGED <<rows, objects, events, result>> PROVE Stores /\ RowIds' = RowIds
  BY <1>0, <1>q DEF AcknowledgedIsStored, RowsAreBacked, AnnouncedExists, RowIds
<1>1. ASSUME NEW h \in Handlers, NEW o \in Orgs, NEW n \in 1 .. MaxFiles, BeginUpload(h, o, n)
      PROVE  Stores /\ Owners
  <2>1. /\ \A b \in Assets : ~Uses(h, b)'
        /\ \A g \in Handlers : g # h => job'[g] = job[g]
    BY <1>0, <1>1 DEF BeginUpload, TypeOK, Uses, Holding
  <2> QED
    BY <1>0, <1>1, <1>q, <2>1, LettingGo DEF BeginUpload
<1>2. ASSUME NEW h \in Handlers, NEW a \in Assets, NEW s \in Sizes, Admit(h, a, s)
      PROVE  Stores /\ Owners
  <2>1. /\ job'[h].pc = "store" /\ job'[h].asset = a
        /\ \A g \in Handlers : g # h => job'[g] = job[g]
    BY <1>0, <1>2 DEF Admit, TypeOK
  <2>2. /\ result'[a] = "none" /\ a \notin RowIds'
        /\ \A g \in Handlers : ~Uses(g, a)
    BY <1>2 DEF Admit, Fresh, RowIds
  <2>3. \A g \in Handlers, b \in Assets :
          Uses(g, b)' <=> (g = h /\ b = a) \/ (g # h /\ Uses(g, b))
    BY <2>1 DEF Uses, Holding
  <2>4. OwnedByOne'
    BY <1>0, <2>2, <2>3 DEF OwnedByOne
  <2>5. UNCHANGED <<rows, objects, events, result>>
    BY <1>2 DEF Admit
  <2>6. PhaseMatchesStores'
    BY <1>0, <1>q, <2>1, <2>2, <2>3, <2>5 DEF PhaseMatchesStores
  <2> QED
    BY <1>q, <2>4, <2>5, <2>6
<1>3. ASSUME NEW h \in Handlers, Refuse(h) PROVE Stores /\ Owners
  BY <1>0, <1>3, <1>q, NextFileUses, LettingGo DEF Refuse
<1>4. ASSUME NEW h \in Handlers, StoreObject(h) PROVE Stores /\ Owners
  <2>1. job[h] \in Uploading /\ "insert" \in Holding
    BY <1>0, <1>4, JobShape DEF StoreObject, Holding
  <2>2. /\ job'[h].pc = "insert"
        /\ \A g \in Handlers : g # h => job'[g] = job[g]
        /\ \A g \in Handlers, b \in Assets : Uses(g, b)' <=> Uses(g, b)
        /\ Uses(h, job[h].asset)
    BY <1>0, <1>4, <2>1, GotoUses DEF StoreObject
  <2>3. \A b \in Assets : Uses(h, b) => b = job[h].asset
    BY DEF Uses
  <2>4. /\ RowIds' = RowIds /\ rows' = rows /\ result' = result /\ events' = events
        /\ objects' = objects \cup {job[h].asset} /\ job[h].pc = "store"
    BY <1>4 DEF StoreObject, RowIds
  <2>5. Stores
    BY <1>0, <2>4 DEF AcknowledgedIsStored, RowsAreBacked, AnnouncedExists
  <2>6. OwnedByOne'
    BY <1>0, <2>2 DEF OwnedByOne
  <2>7. PhaseMatchesStores'
    BY <1>0, <2>2, <2>3, <2>4 DEF PhaseMatchesStores
  <2> QED
    BY <2>5, <2>6, <2>7
<1>5. ASSUME NEW h \in Handlers, StoreFails(h) PROVE Stores /\ Owners
  <2>1. job[h] \in Uploading /\ job[h].asset \in Assets /\ Uses(h, job[h].asset)
    BY <1>0, <1>5, JobShape, UploadingFields DEF StoreFails, Holding, Uses
  <2>2. /\ RowIds' = RowIds /\ rows' = rows /\ events' = events /\ NextFile(h)
        /\ result' = [result EXCEPT ![job[h].asset] = "error"]
        /\ objects' \in {objects, objects \cup {job[h].asset}}
    BY <1>5 DEF StoreFails, Return, RowIds
  <2>3. \A b \in Assets : b # job[h].asset => result'[b] = result[b] /\ (b \in objects' <=> b \in objects)
    BY <1>0, <2>2 DEF TypeOK
  <2>4. result'[job[h].asset] = "error"
    BY <1>0, <2>1, <2>2 DEF TypeOK
  <2>5. Stores
    BY <1>0, <2>1, <2>2, <2>3, <2>4
    DEF AcknowledgedIsStored, RowsAreBacked, AnnouncedExists, TypeOK, AssetRow
  <2>6. \A g \in Handlers, b \in Assets : g # h /\ Uses(g, b) => b # job[h].asset
    BY <1>0, <2>1 DEF OwnedByOne
  <2>7. Owners
    BY <1>0, <2>2, <2>3, <2>6, NextFileUses, LettingGo
  <2> QED
    BY <2>5, <2>7
<1>6. ASSUME NEW h \in Handlers, InsertRow(h) \/ InsertFails(h) PROVE Stores /\ Owners
  <2>1. job[h] \in Uploading /\ "count" \in Holding /\ job[h].pc = "insert"
    BY <1>0, <1>6, JobShape DEF InsertRow, InsertFails, Holding
  <2>2. PICK pc \in {"count", "cleanup"} :
          /\ Goto(h, pc)
          /\ rows' \in {rows, rows \cup {RowOf(h)}}
          /\ pc = "count" => rows' = rows \cup {RowOf(h)}
    BY <1>6 DEF InsertRow, InsertFails
  <2>3. /\ job'[h].pc = pc
        /\ \A g \in Handlers : g # h => job'[g] = job[g]
        /\ \A g \in Handlers, b \in Assets : Uses(g, b)' <=> Uses(g, b)
        /\ Uses(h, job[h].asset)
    BY <1>0, <2>1, <2>2, GotoUses
  <2>4. /\ objects' = objects /\ events' = events /\ result' = result
        /\ RowOf(h).id = job[h].asset /\ job[h].asset \in Assets
    BY <1>6, <2>1, RowOfType, UploadingFields DEF InsertRow, InsertFails
  <2>5. /\ RowIds \subseteq RowIds' /\ RowIds' \subseteq RowIds \cup {job[h].asset}
        /\ pc = "count" => job[h].asset \in RowIds'
    BY <2>2, <2>4 DEF RowIds
  <2>6. job[h].asset \in objects
    BY <1>0, <2>1, <2>3, <2>4 DEF PhaseMatchesStores
  <2>7. Stores
    BY <1>0, <2>2, <2>4, <2>5, <2>6 DEF AcknowledgedIsStored, RowsAreBacked, AnnouncedExists
  <2>8. OwnedByOne'
    BY <1>0, <2>3 DEF OwnedByOne
  <2>9. \A g \in Handlers, b \in Assets : Uses(g, b) => (g = h <=> b = job[h].asset)
    BY <1>0, <2>3, <2>4 DEF OwnedByOne, Uses
  <2>10. PhaseMatchesStores'
    BY <1>0, <2>1, <2>2, <2>3, <2>4, <2>5, <2>6, <2>9 DEF PhaseMatchesStores
  <2> QED
    BY <2>7, <2>8, <2>10
<1>7. ASSUME NEW h \in Handlers, Cleanup(h) PROVE Stores /\ Owners
  <2>1. job[h] \in Uploading /\ job[h].asset \in Assets /\ Uses(h, job[h].asset)
    BY <1>0, <1>7, JobShape, UploadingFields DEF Cleanup, Uses
  <2>2. /\ RowIds' = RowIds /\ rows' = rows /\ events' = events /\ NextFile(h)
        /\ result' = [result EXCEPT ![job[h].asset] = "error"]
        /\ objects' \in {objects, objects \ {job[h].asset}}
    BY <1>7 DEF Cleanup, Return, RowIds
  <2>3. \A b \in Assets : b # job[h].asset => result'[b] = result[b] /\ (b \in objects' <=> b \in objects)
    BY <1>0, <2>2 DEF TypeOK
  <2>4. result'[job[h].asset] = "error"
    BY <1>0, <2>1, <2>2 DEF TypeOK
  <2>5. Stores
    BY <1>0, <2>1, <2>2, <2>3, <2>4
    DEF AcknowledgedIsStored, RowsAreBacked, AnnouncedExists, TypeOK, AssetRow
  <2>6. \A g \in Handlers, b \in Assets : g # h /\ Uses(g, b) => b # job[h].asset
    BY <1>0, <2>1 DEF OwnedByOne
  <2>7. Owners
    BY <1>0, <2>2, <2>3, <2>6, NextFileUses, LettingGo
  <2> QED
    BY <2>5, <2>7
<1>8. ASSUME NEW h \in Handlers, CountBytes(h) \/ CountFails(h) PROVE Stores /\ Owners
  <2>1. job[h] \in Uploading /\ job[h].pc = "count" /\ Goto(h, "announce")
    BY <1>0, <1>8, JobShape DEF CountBytes, CountFails, Holding
  <2>2. /\ job'[h].pc = "announce"
        /\ \A g \in Handlers : g # h => job'[g] = job[g]
        /\ \A g \in Handlers, b \in Assets : Uses(g, b)' <=> Uses(g, b)
    BY <1>0, <2>1, GotoUses
  <2>3. UNCHANGED <<rows, objects, events, result>>
    BY <1>8 DEF CountBytes, CountFails
  <2>4. OwnedByOne'
    BY <1>0, <2>2 DEF OwnedByOne
  <2>5. PhaseMatchesStores'
    BY <1>0, <1>q, <2>1, <2>2, <2>3 DEF PhaseMatchesStores
  <2> QED
    BY <1>q, <2>3, <2>4, <2>5
<1>9. ASSUME NEW h \in Handlers, Announce(h) PROVE Stores /\ Owners
  <2>1. job[h] \in Uploading /\ job[h].asset \in Assets /\ Uses(h, job[h].asset)
        /\ job[h].pc = "announce"
    BY <1>0, <1>9, JobShape, UploadingFields DEF Announce, Uses
  <2>2. /\ RowIds' = RowIds /\ rows' = rows /\ objects' = objects /\ NextFile(h)
        /\ result' = [result EXCEPT ![job[h].asset] = "ok"]
        /\ events' \in {events, events \cup {job[h].asset}}
    BY <1>9 DEF Announce, Return, RowIds
  <2>3. job[h].asset \in objects /\ job[h].asset \in RowIds
    BY <1>0, <2>1 DEF PhaseMatchesStores
  <2>4. /\ result'[job[h].asset] = "ok"
        /\ \A b \in Assets : b # job[h].asset => result'[b] = result[b]
    BY <1>0, <2>1, <2>2 DEF TypeOK
  <2>5. Stores
    BY <1>0, <2>1, <2>2, <2>3, <2>4
    DEF AcknowledgedIsStored, RowsAreBacked, AnnouncedExists, TypeOK, AssetRow
  <2>6. \A g \in Handlers, b \in Assets : g # h /\ Uses(g, b) => b # job[h].asset
    BY <1>0, <2>1 DEF OwnedByOne
  <2>7. Owners
    BY <1>0, <2>2, <2>4, <2>6, NextFileUses, LettingGo
  <2> QED
    BY <2>5, <2>7
<1>10. ASSUME NEW h \in Handlers,
              (\E o \in Orgs : BeginUpdateOrg(h, o)) \/ UpdateOrg(h) \/ Crash(h)
       PROVE  Stores /\ Owners
  <2>1. job'[h].pc \in {"idle", "configure"} /\ \A g \in Handlers : g # h => job'[g] = job[g]
    BY <1>0, <1>10 DEF BeginUpdateOrg, UpdateOrg, Crash, TypeOK, Idle
  <2>2. \A b \in Assets : ~Uses(h, b)'
    BY <2>1 DEF Uses, Holding
  <2>3. UNCHANGED <<rows, objects, events, result>>
    BY <1>10 DEF BeginUpdateOrg, UpdateOrg, Crash
  <2> QED
    BY <1>0, <1>q, <2>1, <2>2, <2>3, LettingGo
<1>11. CASE UNCHANGED vars
  <2>1. Stores /\ RowIds' = RowIds
    BY <1>11, <1>q DEF vars
  <2> QED
    BY <1>0, <1>11, <2>1 DEF vars, OwnedByOne, PhaseMatchesStores, Uses
<1> QED
  BY <1>1, <1>2, <1>3, <1>4, <1>5, <1>6, <1>7, <1>8, <1>9, <1>10, <1>11 DEF Next

LEMMA StorageAlways == Spec => []StorageInv
<1>1. Init => StorageInv
  BY UploadAssumption, StorageInit
<1>2. StorageInv /\ [Next]_vars => StorageInv'
  BY UploadAssumption, StorageStep
<1> QED
  BY <1>1, <1>2, PTL DEF Spec

(***************************************************************************)
(* An acknowledged upload has its row and its object, and only what has a  *)
(* row is announced, however many requests run and wherever they fail      *)
(* (asset_service.go:99-138).                                              *)
(***************************************************************************)
THEOREM UploadStorage == Spec => [](AcknowledgedIsStored /\ AnnouncedExists)
<1>1. StorageInv => AcknowledgedIsStored /\ AnnouncedExists
  BY DEF StorageInv
<1> QED
  BY <1>1, StorageAlways, PTL

(***************************************************************************)
(* A row without an object was left by an upload that returned an error:   *)
(* no crash leaves one (asset_service.go:125-129).                         *)
(***************************************************************************)
THEOREM UploadRowsBacked == Spec => []RowsAreBacked
<1>1. StorageInv => RowsAreBacked
  BY DEF StorageInv
<1> QED
  BY <1>1, StorageAlways, PTL

-----------------------------------------------------------------------------
(***************************************************************************)
(* Implementation of the quota ledger.                                     *)
(***************************************************************************)
LEMMA LedgerConstants == Ledger!LedgerAssumption
BY UploadAssumption DEF UploadAssumption, Ledger!LedgerAssumption, IsFiniteSet, Ledger!IsFiniteSet

\* A step that changes no counter and no holding request is a stutter.
LEMMA LedgerStutter ==
  ASSUME TypeOK, NEW h \in Handlers, usedBytes' = usedBytes,
         \A g \in Handlers : g # h => job'[g] = job[g],
         \/ job[h].pc \notin Holding /\ job'[h].pc \notin Holding
         \/ /\ job[h].pc \in Holding /\ job'[h].pc \in Holding
            /\ job'[h].org = job[h].org /\ job'[h].size = job[h].size
  PROVE  UNCHANGED Ledger!vars
<1>1. pendingFiles' = pendingFiles
  BY DEF pendingFiles
<1> QED
  BY <1>1 DEF Ledger!vars

\* A holding request that lets go without counting drops its admission.
LEMMA LedgerDrop ==
  ASSUME UploadAssumption, TypeOK, NEW h \in Handlers, usedBytes' = usedBytes,
         job[h].pc \in Holding, job'[h].pc \notin Holding,
         \A g \in Handlers : g # h => job'[g] = job[g]
  PROVE  Ledger!Drop(h)
<1>1. job[h] \in Uploading
  BY JobShape
<1>2. pendingFiles[h] # None
  BY <1>1, UploadingFields DEF pendingFiles, UploadAssumption
<1>3. pendingFiles' = [pendingFiles EXCEPT ![h] = None]
  BY DEF pendingFiles
<1> QED
  BY <1>2, <1>3 DEF Ledger!Drop

LEMMA LedgerStep == UploadAssumption /\ TypeOK /\ [Next]_vars => [Ledger!Next]_(Ledger!vars)
<1> SUFFICES ASSUME UploadAssumption, TypeOK, [Next]_vars
             PROVE  Ledger!Next \/ UNCHANGED Ledger!vars
  OBVIOUS
<1> DEFINE Simulated == Ledger!Next \/ UNCHANGED Ledger!vars
<1>d. ASSUME NEW h \in Handlers, Ledger!Drop(h) PROVE Simulated
  BY <1>d DEF Ledger!Next
<1>1. ASSUME NEW h \in Handlers, NEW o \in Orgs, NEW n \in 1 .. MaxFiles, BeginUpload(h, o, n)
      PROVE  Simulated
  <2>1. /\ job[h].pc \notin Holding /\ job'[h].pc \notin Holding /\ usedBytes' = usedBytes
        /\ \A g \in Handlers : g # h => job'[g] = job[g]
    BY <1>1 DEF BeginUpload, TypeOK, Idle, Holding, usedBytes
  <2> QED
    BY <2>1, LedgerStutter
<1>2. ASSUME NEW h \in Handlers, NEW a \in Assets, NEW s \in Sizes, Admit(h, a, s)
      PROVE  Simulated
  <2>1. job[h].org \in Orgs
    BY <1>2, JobShape, CheckingFields DEF Admit
  <2>2. pendingFiles[h] = None
    BY <1>2 DEF Admit, pendingFiles, Holding
  <2>3. usedBytes[job[h].org] + s <= Quota[job[h].org] /\ usedBytes' = usedBytes
    BY <1>2, <2>1 DEF Admit, usedBytes
  <2>4. /\ job'[h].pc \in Holding /\ job'[h].org = job[h].org /\ job'[h].size = s
        /\ \A g \in Handlers : g # h => job'[g] = job[g]
    BY <1>2 DEF Admit, TypeOK, Holding
  <2>5. pendingFiles' = [pendingFiles EXCEPT ![h] = [org |-> job[h].org, size |-> s]]
    BY <2>4 DEF pendingFiles
  <2>6. Ledger!Admit(h, job[h].org, s)
    BY <2>2, <2>3, <2>5 DEF Ledger!Admit
  <2> QED
    BY <2>1, <2>6 DEF Ledger!Next
<1>3. ASSUME NEW h \in Handlers, Refuse(h) \/ Cleanup(h) \/ Announce(h)
      PROVE  Simulated
  <2>1. /\ job[h].pc \notin Holding /\ NextFile(h) /\ usedBytes' = usedBytes
    BY <1>3 DEF Refuse, Cleanup, Announce, Return, Holding, usedBytes
  <2>2. job'[h].pc \notin Holding /\ \A g \in Handlers : g # h => job'[g] = job[g]
    BY <2>1 DEF NextFile, TypeOK, Idle, Holding
  <2> QED
    BY <2>1, <2>2, LedgerStutter
<1>4. ASSUME NEW h \in Handlers, StoreObject(h) \/ InsertRow(h)
      PROVE  Simulated
  <2>1. job[h] \in Uploading /\ job[h].pc \in Holding
    BY <1>4, JobShape DEF StoreObject, InsertRow, Holding
  <2>2. usedBytes' = usedBytes /\ \E pc \in Holding : Goto(h, pc)
    BY <1>4 DEF StoreObject, InsertRow, Holding, usedBytes
  <2>3. /\ job'[h].pc \in Holding
        /\ job'[h].org = job[h].org /\ job'[h].size = job[h].size
        /\ \A g \in Handlers : g # h => job'[g] = job[g]
    BY <2>1, <2>2 DEF Goto, TypeOK, Uploading
  <2> QED
    BY <2>1, <2>2, <2>3, LedgerStutter
<1>5. ASSUME NEW h \in Handlers, StoreFails(h) \/ InsertFails(h) \/ CountFails(h)
      PROVE  Simulated
  <2>1. job[h].pc \in Holding /\ job[h] \in Uploading /\ usedBytes' = usedBytes
    BY <1>5, JobShape DEF StoreFails, InsertFails, CountFails, Holding, usedBytes
  <2>2. NextFile(h) \/ Goto(h, "cleanup") \/ Goto(h, "announce")
    BY <1>5 DEF StoreFails, InsertFails, CountFails, Return
  <2>3. job'[h].pc \notin Holding /\ \A g \in Handlers : g # h => job'[g] = job[g]
    BY <2>1, <2>2 DEF NextFile, Goto, TypeOK, Idle, Holding, Uploading
  <2> QED
    BY <1>d, <2>1, <2>3, LedgerDrop
<1>6. ASSUME NEW h \in Handlers, CountBytes(h) PROVE Simulated
  <2>1. job[h].pc = "count" /\ job[h] \in Uploading
    BY <1>6, JobShape DEF CountBytes, Holding
  <2>2. job[h].org \in Orgs /\ job[h].size \in Sizes
    BY <2>1, UploadingFields
  <2>3. pendingFiles[h] = [org |-> job[h].org, size |-> job[h].size]
    BY <2>1 DEF pendingFiles, Holding
  <2>4. pendingFiles[h] # None
    BY <2>2, <2>3 DEF UploadAssumption
  <2>5. job'[h].pc \notin Holding /\ \A g \in Handlers : g # h => job'[g] = job[g]
    BY <1>6, <2>1 DEF CountBytes, Goto, TypeOK, Holding, Uploading
  <2>6. pendingFiles' = [pendingFiles EXCEPT ![h] = None]
    BY <2>5 DEF pendingFiles
  <2>7. usedBytes' = [usedBytes EXCEPT ![job[h].org] = @ + job[h].size]
    BY <1>6, <2>2 DEF CountBytes, usedBytes, TypeOK, OrgRow
  <2>8. Ledger!Count(h)
    BY <2>3, <2>4, <2>6, <2>7 DEF Ledger!Count
  <2> QED
    BY <2>8 DEF Ledger!Next
<1>7. ASSUME NEW h \in Handlers, (\E o \in Orgs : BeginUpdateOrg(h, o)) \/ UpdateOrg(h)
      PROVE  Simulated
  <2>1. /\ job[h].pc \notin Holding /\ job'[h].pc \notin Holding
        /\ \A g \in Handlers : g # h => job'[g] = job[g]
    BY <1>7 DEF BeginUpdateOrg, UpdateOrg, TypeOK, Idle, Holding
  <2>2. ASSUME NEW o \in Orgs PROVE org'[o].used = org[o].used
    <3>1. CASE UpdateOrg(h)
      <4>1. PICK l \in FileLimits \cup {job[h].seen.limit} :
              org' = [org EXCEPT ![job[h].org].limit = l]
        BY <3>1 DEF UpdateOrg
      <4>2. org[o] \in OrgRow /\ org'[o] \in {org[o], [org[o] EXCEPT !.limit = l]}
        BY <4>1 DEF TypeOK
      <4> QED
        BY <4>2 DEF OrgRow
    <3> QED
      BY <1>7, <3>1 DEF BeginUpdateOrg
  <2>3. usedBytes' = usedBytes
    BY <2>2 DEF usedBytes
  <2> QED
    BY <2>1, <2>3, LedgerStutter
<1>8. ASSUME NEW h \in Handlers, Crash(h) PROVE Simulated
  <2>1. /\ job'[h].pc \notin Holding /\ usedBytes' = usedBytes
        /\ \A g \in Handlers : g # h => job'[g] = job[g]
    BY <1>8 DEF Crash, TypeOK, Idle, Holding, usedBytes
  <2>2. CASE job[h].pc \in Holding
    BY <1>d, <2>1, <2>2, LedgerDrop
  <2>3. CASE job[h].pc \notin Holding
    BY <2>1, <2>3, LedgerStutter
  <2> QED
    BY <2>2, <2>3
<1>9. CASE UNCHANGED vars
  BY <1>9 DEF vars, usedBytes, pendingFiles, Ledger!vars
<1> QED
  BY <1>1, <1>2, <1>3, <1>4, <1>5, <1>6, <1>7, <1>8, <1>9 DEF Next

(***************************************************************************)
(* The upload path implements the quota ledger.                            *)
(***************************************************************************)
THEOREM UploadImplementsLedger == Spec => ImplementsLedger
<1>1. Init => Ledger!Init
  BY DEF Init, Idle, Holding, usedBytes, pendingFiles, Ledger!Init
<1>2. TypeOK /\ [Next]_vars => [Ledger!Next]_(Ledger!vars)
  BY UploadAssumption, LedgerStep
<1> QED
  BY <1>1, <1>2, UploadTypes, PTL DEF Spec, ImplementsLedger, Ledger!Spec

\* What the arguments need of a set of clients and its size.
LEMMA ClientSets ==
  ASSUME Ledger!LedgerAssumption, NEW S \in SUBSET Handlers
  PROVE  /\ IsFiniteSet(S)
         /\ Cardinality(S) \in Nat
         /\ Cardinality(Handlers) \in Nat
         /\ Cardinality(S) <= Cardinality(Handlers)
         /\ Cardinality(Handlers) >= 1
         /\ S # {} => Cardinality(S) >= 1
<1>1. IsFiniteSet(Handlers) /\ Handlers # {}
  BY DEF Ledger!LedgerAssumption, IsFiniteSet, Ledger!IsFiniteSet
<1>2. IsFiniteSet(S) /\ Cardinality(S) <= Cardinality(Handlers)
  BY <1>1, FS_Subset
<1>3. Cardinality(S) \in Nat /\ Cardinality(Handlers) \in Nat
  BY <1>1, <1>2, FS_CardinalityType
<1>4. Cardinality(Handlers) # 0 /\ (S # {} => Cardinality(S) # 0)
  BY <1>1, <1>2, FS_EmptySet
<1> QED
  BY <1>2, <1>3, <1>4

\* k files of at most m bytes: one more file is m more bytes.
LEMMA TimesStep ==
  ASSUME NEW k \in Int, NEW m \in Nat
  PROVE  k * m \in Int /\ (k - 1) * m \in Int /\ k * m = (k - 1) * m + m
  BY SMT

LEMMA TimesMonotone ==
  ASSUME NEW j \in Int, NEW k \in Int, NEW m \in Nat, j <= k
  PROVE  j * m <= k * m
  BY SMT

LEMMA LedgerTypeStep == Ledger!LedgerAssumption /\ Ledger!TypeOK /\ [Ledger!Next]_(Ledger!vars) => Ledger!TypeOK'
<1> SUFFICES ASSUME Ledger!LedgerAssumption, Ledger!TypeOK, [Ledger!Next]_(Ledger!vars) PROVE Ledger!TypeOK'
  OBVIOUS
<1>0. Sizes \subseteq Nat
  BY DEF Ledger!LedgerAssumption
<1> USE DEF Ledger!TypeOK, Ledger!Admission
<1>1. ASSUME NEW c \in Handlers, NEW o \in Orgs, NEW s \in Sizes, Ledger!Admit(c, o, s)
      PROVE  Ledger!TypeOK'
  BY <1>1 DEF Ledger!Admit
<1>2. ASSUME NEW c \in Handlers, Ledger!Count(c) PROVE Ledger!TypeOK'
  <2>1. pendingFiles[c] \in [org : Orgs, size : Sizes]
    BY <1>2 DEF Ledger!Count
  <2>2. pendingFiles[c].org \in Orgs /\ pendingFiles[c].size \in Sizes
    BY <2>1
  <2>3. pendingFiles[c].size \in Nat
    BY <1>0, <2>2
  <2>4. usedBytes' \in [Orgs -> Nat]
    BY <1>2, <2>2, <2>3 DEF Ledger!Count
  <2> QED
    BY <1>2, <2>4 DEF Ledger!Count
<1>3. ASSUME NEW c \in Handlers, Ledger!Drop(c) PROVE Ledger!TypeOK'
  BY <1>3 DEF Ledger!Drop
<1>4. CASE UNCHANGED Ledger!vars
  BY <1>4 DEF Ledger!vars
<1> QED
  BY <1>1, <1>2, <1>3, <1>4 DEF Ledger!Next

-----------------------------------------------------------------------------
\* The bound for one organization, and its strengthening.
Limit(o) == Quota[o] + (Cardinality(Handlers) - 1) * BodyLimit

Bounded(o) == usedBytes[o] <= Limit(o)

Room(o) ==
  Ledger!Outstanding(o) # {} =>
    \E c \in Ledger!Outstanding(o) :
      usedBytes[o] + pendingFiles[c].size + (Cardinality(Ledger!Outstanding(o)) - 1) * BodyLimit <= Limit(o)

LEMMA LimitIsInt ==
  ASSUME Ledger!LedgerAssumption, NEW o \in Orgs
  PROVE  Limit(o) \in Int /\ Limit(o) >= Quota[o]
<1>1. Cardinality(Handlers) - 1 \in Nat
  BY ClientSets, Handlers \in SUBSET Handlers
<1>2. BodyLimit \in Nat /\ Quota[o] \in Nat
  BY DEF Ledger!LedgerAssumption
<1>3. 0 * BodyLimit <= (Cardinality(Handlers) - 1) * BodyLimit
  BY <1>1, <1>2, TimesMonotone
<1>4. (Cardinality(Handlers) - 1) * BodyLimit \in Int
  BY <1>1, <1>2, TimesStep
<1> QED
  BY <1>2, <1>3, <1>4 DEF Limit

\* An outstanding client's admission is one of the organization's.
LEMMA OutstandingSizes ==
  ASSUME Ledger!LedgerAssumption, Ledger!TypeOK, NEW o \in Orgs, NEW c \in Ledger!Outstanding(o)
  PROVE  c \in Handlers /\ pendingFiles[c].size \in 0 .. BodyLimit
<1>1. c \in Handlers /\ pendingFiles[c] \in [org : Orgs, size : Sizes]
  BY DEF Ledger!Outstanding, Ledger!TypeOK, Ledger!Admission
<1>2. pendingFiles[c].size \in Sizes
  BY <1>1
<1> QED
  BY <1>1, <1>2 DEF Ledger!LedgerAssumption

\* An organization that a step does not touch keeps its bound and its room.
LEMMA Untouched ==
  ASSUME NEW o \in Orgs, Bounded(o), Room(o),
         usedBytes'[o] = usedBytes[o], Ledger!Outstanding(o)' = Ledger!Outstanding(o),
         \A c \in Ledger!Outstanding(o) : pendingFiles'[c] = pendingFiles[c]
  PROVE  Bounded(o)' /\ Room(o)'
  BY DEF Bounded, Room, Limit

LEMMA AdmitStep ==
  ASSUME Ledger!LedgerAssumption, Ledger!TypeOK, Ledger!TypeOK',
         \A o \in Orgs : Bounded(o) /\ Room(o),
         NEW c \in Handlers, NEW p \in Orgs, NEW s \in Sizes, Ledger!Admit(c, p, s)
  PROVE  \A o \in Orgs : Bounded(o)' /\ Room(o)'
<1> SUFFICES ASSUME NEW o \in Orgs PROVE Bounded(o)' /\ Room(o)'
  OBVIOUS
<1>1. CASE o # p
  <2>1. Ledger!Outstanding(o)' = Ledger!Outstanding(o) /\ \A d \in Ledger!Outstanding(o) : pendingFiles'[d] = pendingFiles[d]
    BY <1>1 DEF Ledger!Admit, Ledger!Outstanding, Ledger!TypeOK
  <2> QED
    BY <2>1, Untouched DEF Ledger!Admit
<1>2. CASE o = p
  <2> DEFINE K == Ledger!Outstanding(o)'
  <2>1. K \in SUBSET Handlers /\ c \in K /\ pendingFiles'[c].size = s
    BY <1>2 DEF Ledger!Admit, Ledger!Outstanding, Ledger!TypeOK, Ledger!LedgerAssumption, Ledger!Admission
  <2>2. Cardinality(K) \in Nat /\ Cardinality(Handlers) \in Nat
        /\ Cardinality(K) <= Cardinality(Handlers)
    BY <2>1, ClientSets
  <2>3. BodyLimit \in Nat /\ s \in Nat /\ Quota[o] \in Nat /\ usedBytes[o] \in Nat
    BY DEF Ledger!LedgerAssumption, Ledger!TypeOK
  <2>4. (Cardinality(K) - 1) * BodyLimit <= (Cardinality(Handlers) - 1) * BodyLimit
    BY <2>2, <2>3, TimesMonotone
  <2>5. /\ (Cardinality(K) - 1) * BodyLimit \in Int
        /\ (Cardinality(Handlers) - 1) * BodyLimit \in Int
    BY <2>2, <2>3, TimesStep
  <2>6. usedBytes[o] + s <= Quota[o] /\ usedBytes' = usedBytes
    BY <1>2 DEF Ledger!Admit
  <2>7. usedBytes'[o] + pendingFiles'[c].size + (Cardinality(K) - 1) * BodyLimit <= Limit(o)
    BY <2>1, <2>3, <2>4, <2>5, <2>6 DEF Limit
  <2>8. Room(o)'
    BY <2>1, <2>7 DEF Room, Limit
  <2>9. Bounded(o)'
    BY <2>6 DEF Bounded, Limit
  <2> QED
    BY <2>8, <2>9
<1> QED
  BY <1>1, <1>2

\* A client of o leaves the ledger: its bytes are counted (b = its size) or
\* dropped (b = 0).  Either way the others still have room.
LEMMA LeaveStep ==
  ASSUME Ledger!LedgerAssumption, Ledger!TypeOK, NEW o \in Orgs, Room(o),
         NEW c \in Ledger!Outstanding(o), NEW b \in Nat, b <= pendingFiles[c].size,
         usedBytes'[o] = usedBytes[o] + b, pendingFiles' = [pendingFiles EXCEPT ![c] = None]
  PROVE  Bounded(o)' /\ Room(o)'
<1> DEFINE K == Ledger!Outstanding(o)
           k == Cardinality(K)
<1>1. Ledger!Outstanding(o)' = K \ {c} /\ \A d \in K \ {c} : pendingFiles'[d] = pendingFiles[d]
  BY DEF Ledger!Outstanding, Ledger!TypeOK
<1>2. PICK g \in K : usedBytes[o] + pendingFiles[g].size + (k - 1) * BodyLimit <= Limit(o)
  BY DEF Room
<1>3. K \in SUBSET Handlers /\ K # {}
  BY DEF Ledger!Outstanding
<1>4. k \in Nat /\ k >= 1 /\ IsFiniteSet(K)
  BY <1>3, ClientSets
<1>5. Cardinality(Ledger!Outstanding(o)') = k - 1
  BY <1>1, <1>4, FS_RemoveElement
<1>6. /\ BodyLimit \in Nat /\ usedBytes[o] \in Nat /\ Limit(o) \in Int
      /\ \A d \in K : pendingFiles[d].size \in 0 .. BodyLimit
  BY LimitIsInt, OutstandingSizes DEF Ledger!LedgerAssumption, Ledger!TypeOK
<1>7. /\ (k - 1) * BodyLimit = (k - 2) * BodyLimit + BodyLimit
      /\ (k - 1) * BodyLimit \in Int /\ (k - 2) * BodyLimit \in Int
  BY <1>4, <1>6, TimesStep, k - 1 \in Int, (k - 1) - 1 = k - 2
<1>8. (k - 1) * BodyLimit >= 0
  BY <1>4, <1>6, TimesMonotone, 0 * BodyLimit <= (k - 1) * BodyLimit
<1>9. pendingFiles[g].size \in 0 .. BodyLimit /\ pendingFiles[c].size \in 0 .. BodyLimit
  BY <1>2, <1>6
\* The client left with room besides c, if any.
<1>10. ASSUME NEW d \in K \ {c}, d = g \/ g = c
       PROVE  usedBytes'[o] + pendingFiles[d].size + (k - 2) * BodyLimit <= Limit(o)
  <2>1. pendingFiles[d].size \in 0 .. BodyLimit
    BY <1>6
  <2> QED
    BY <1>2, <1>6, <1>7, <1>9, <1>10, <2>1
<1>11. Room(o)'
  <2>1. ASSUME NEW d \in K \ {c}, d = g \/ g = c PROVE Room(o)'
    <3>1. (k - 1) - 1 = k - 2
      BY <1>4
    <3> QED
      BY <1>1, <1>5, <1>10, <2>1, <3>1 DEF Room, Limit
  <2>2. CASE g = c
    <3>1. CASE K \ {c} = {}
      BY <1>1, <3>1 DEF Room
    <3>2. CASE K \ {c} # {}
      BY <2>1, <2>2, <3>2
    <3> QED
      BY <3>1, <3>2
  <2>3. CASE g # c
    BY <1>2, <2>1, <2>3
  <2> QED
    BY <2>2, <2>3
<1>12. usedBytes'[o] <= Limit(o)
  <2>1. CASE g = c
    BY <1>2, <1>6, <1>7, <1>8, <1>9, <2>1
  <2>2. CASE g # c
    <3>1. 2 <= k
      <4>1. Cardinality(K \ {c}) \in Nat /\ (K \ {c}) # {}
        BY <1>2, <1>3, <2>2, ClientSets, K \ {c} \in SUBSET Handlers
      <4>2. Cardinality(K \ {c}) >= 1
        BY <1>3, <4>1, ClientSets, K \ {c} \in SUBSET Handlers
      <4> QED
        BY <1>1, <1>4, <1>5, <4>2
    <3>2. 0 * BodyLimit <= (k - 2) * BodyLimit
      BY <1>4, <1>6, <3>1, TimesMonotone
    <3> QED
      BY <1>2, <1>6, <1>7, <1>9, <3>2
  <2> QED
    BY <2>1, <2>2
<1> QED
  BY <1>11, <1>12 DEF Bounded, Limit

-----------------------------------------------------------------------------
LEMMA LedgerInvParts ==
  Ledger!LedgerInv <=> Ledger!TypeOK /\ \A o \in Orgs : Bounded(o) /\ Room(o)
BY DEF Ledger!LedgerInv, Ledger!BoundedOvershoot, Ledger!RoomForOutstanding, Bounded, Room, Limit,
       Cardinality, Ledger!Cardinality

LEMMA LedgerInvInit == Ledger!LedgerAssumption /\ Ledger!Init => Ledger!LedgerInv
<1> SUFFICES ASSUME Ledger!LedgerAssumption, Ledger!Init PROVE Ledger!LedgerInv
  OBVIOUS
<1>1. Ledger!TypeOK
  BY DEF Ledger!Init, Ledger!TypeOK
<1>2. ASSUME NEW o \in Orgs PROVE Bounded(o) /\ Room(o)
  <2>1. usedBytes[o] = 0 /\ Quota[o] \in Nat /\ Ledger!Outstanding(o) = {}
    BY DEF Ledger!Init, Ledger!Outstanding, Ledger!LedgerAssumption
  <2> QED
    BY <2>1, LimitIsInt DEF Bounded, Room
<1> QED
  BY <1>1, <1>2, LedgerInvParts

LEMMA LedgerInvStep == Ledger!LedgerAssumption /\ Ledger!LedgerInv /\ [Ledger!Next]_(Ledger!vars) => Ledger!LedgerInv'
<1> SUFFICES ASSUME Ledger!LedgerAssumption, Ledger!LedgerInv, [Ledger!Next]_(Ledger!vars) PROVE Ledger!LedgerInv'
  OBVIOUS
<1>1. Ledger!TypeOK /\ \A o \in Orgs : Bounded(o) /\ Room(o)
  BY LedgerInvParts
<1>2. Ledger!TypeOK'
  BY <1>1, LedgerTypeStep
<1>3. \A o \in Orgs : Bounded(o)' /\ Room(o)'
  <2>1. ASSUME NEW c \in Handlers, NEW p \in Orgs, NEW s \in Sizes, Ledger!Admit(c, p, s)
        PROVE  \A o \in Orgs : Bounded(o)' /\ Room(o)'
    BY <1>1, <1>2, <2>1, AdmitStep
  <2>2. ASSUME NEW c \in Handlers, Ledger!Count(c) \/ Ledger!Drop(c)
        PROVE  \A o \in Orgs : Bounded(o)' /\ Room(o)'
    <3> SUFFICES ASSUME NEW o \in Orgs PROVE Bounded(o)' /\ Room(o)'
      OBVIOUS
    <3>1. CASE c \notin Ledger!Outstanding(o)
      <4>1. Ledger!Outstanding(o)' = Ledger!Outstanding(o) /\ \A d \in Ledger!Outstanding(o) : pendingFiles'[d] = pendingFiles[d]
        BY <1>1, <2>2, <3>1 DEF Ledger!Count, Ledger!Drop, Ledger!Outstanding, Ledger!TypeOK
      <4>2. usedBytes'[o] = usedBytes[o]
        BY <1>1, <2>2, <3>1 DEF Ledger!Count, Ledger!Drop, Ledger!Outstanding, Ledger!TypeOK
      <4> QED
        BY <1>1, <4>1, <4>2, Untouched
    <3>2. CASE c \in Ledger!Outstanding(o)
      <4>1. pendingFiles[c].size \in 0 .. BodyLimit /\ BodyLimit \in Nat /\ usedBytes[o] \in Nat
        BY <1>1, <3>2, OutstandingSizes DEF Ledger!LedgerAssumption, Ledger!TypeOK
      <4>2. PICK b \in {0, pendingFiles[c].size} : usedBytes'[o] = usedBytes[o] + b
        BY <1>1, <2>2, <3>2, <4>1 DEF Ledger!Count, Ledger!Drop, Ledger!Outstanding, Ledger!TypeOK
      <4>3. b \in Nat /\ b <= pendingFiles[c].size
        BY <4>1, <4>2
      <4>4. pendingFiles' = [pendingFiles EXCEPT ![c] = None]
        BY <2>2 DEF Ledger!Count, Ledger!Drop
      <4> QED
        BY <1>1, <3>2, <4>2, <4>3, <4>4, LeaveStep
    <3> QED
      BY <3>1, <3>2
  <2>3. CASE UNCHANGED Ledger!vars
    <3> SUFFICES ASSUME NEW o \in Orgs PROVE Bounded(o)' /\ Room(o)'
      OBVIOUS
    <3>1. Ledger!Outstanding(o)' = Ledger!Outstanding(o)
      BY <2>3 DEF Ledger!vars, Ledger!Outstanding
    <3> QED
      BY <1>1, <2>3, <3>1, Untouched DEF Ledger!vars
  <2> QED
    BY <2>1, <2>2, <2>3 DEF Ledger!Next
<1>4. (Ledger!LedgerInv <=> Ledger!TypeOK /\ \A o \in Orgs : Bounded(o) /\ Room(o))'
  BY LedgerInvParts, PTL
<1> QED
  BY <1>2, <1>3, <1>4

(***************************************************************************)
(* For every number of clients, every set of sizes and every quota, no     *)
(* counter of the ledger that uploads keep ever passes its quota by more   *)
(* than one maximal file for each other client.                            *)
(***************************************************************************)
THEOREM LedgerBound == Ledger!Spec => []Ledger!LedgerInv
<1>1. Ledger!Init => Ledger!LedgerInv
  BY LedgerConstants, LedgerInvInit
<1>2. Ledger!LedgerInv /\ [Ledger!Next]_(Ledger!vars) => Ledger!LedgerInv'
  BY LedgerConstants, LedgerInvStep
<1> QED
  BY <1>1, <1>2, PTL DEF Ledger!Spec

(***************************************************************************)
(* Hence usage never passes the quota by more than one maximal file for    *)
(* each other concurrent request, for any number of them.                  *)
(***************************************************************************)
THEOREM UploadBoundedOvershoot == Spec => []BoundedOvershoot
<1>1. Ledger!LedgerInv => BoundedOvershoot
  BY DEF Ledger!LedgerInv, BoundedOvershoot
<1> QED
  BY <1>1, UploadImplementsLedger, LedgerBound, PTL DEF ImplementsLedger

(***************************************************************************)
(* No step takes bytes off a usage counter, organization updates built     *)
(* from a stale read included: what a counter does is what the ledger's    *)
(* counter does, and that one only grows.                                  *)
(***************************************************************************)
THEOREM UploadUsageNeverLost == Spec => UsageNeverLost
<1>1. TypeOK /\ [Next]_vars => [\A o \in Orgs : org'[o].used >= org[o].used]_vars
  <2> SUFFICES ASSUME TypeOK, [Next]_vars, NEW o \in Orgs PROVE org'[o].used >= org[o].used
    BY DEF vars
  <2>1. usedBytes \in [Orgs -> Nat]
    BY DEF usedBytes, TypeOK, OrgRow
  <2>2. [Ledger!Next]_(Ledger!vars)
    BY UploadAssumption, LedgerStep
  <2>3. CASE usedBytes' = usedBytes
    BY <2>1, <2>3 DEF usedBytes
  <2>4. CASE \E h \in Handlers : Ledger!Count(h)
    <3>1. PICK h \in Handlers : Ledger!Count(h)
      BY <2>4
    <3>2. pendingFiles[h].size \in Nat
      <4>1. pendingFiles[h] # None
        BY <3>1 DEF Ledger!Count
      <4>2. job[h] \in Uploading /\ pendingFiles[h].size = job[h].size
        BY <4>1, JobShape DEF pendingFiles
      <4>3. job[h].size \in Sizes /\ Sizes \subseteq Nat
        BY <4>2, UploadingFields, UploadAssumption DEF UploadAssumption
      <4> QED
        BY <4>2, <4>3
    <3>3. usedBytes'[o] >= usedBytes[o]
      BY <2>1, <3>1, <3>2 DEF Ledger!Count
    <3> QED
      BY <3>3 DEF usedBytes
  <2> QED
    BY <2>2, <2>3, <2>4 DEF Ledger!Next, Ledger!Admit, Ledger!Drop, Ledger!vars
<1> QED
  BY <1>1, UploadTypes, PTL DEF Spec, UsageNeverLost

-----------------------------------------------------------------------------
(***************************************************************************)
(* The bytes of a set of rows, as NeverOvercounted sums them.  The sum is  *)
(* a recursive function on the subsets of the set; what follows unfolds it *)
(* and finds that no order of the elements matters.                        *)
(***************************************************************************)
BytesOf(S) == MapThenSumSet(LAMBDA r : r.size, S)
Pick(s) == CHOOSE x \in s : TRUE
IsSum(g, S) ==
  g = [s \in SUBSET S |-> IF s = {} THEN 0 ELSE Pick(s).size + g[s \ {Pick(s)}]]
SumOn(S) == CHOOSE g : IsSum(g, S)

LEMMA BytesOfIsSum ==
  ASSUME NEW S
  PROVE  BytesOf(S) = SumOn(S)[S]
BY DEF BytesOf, MapThenSumSet, MapThenFoldSet, SumOn, IsSum, Pick

\* A set of subsets of a finite set that is not empty has a smallest element:
\* what fails of some subset fails of one whose own subsets it holds of.
LEMMA Smallest ==
  ASSUME NEW S, IsFiniteSet(S), NEW T, T \subseteq SUBSET S, T # {}
  PROVE  \E s \in T : \A t \in T : t \subseteq s => t = s
<1>1. IsWellFoundedOn(StrictSubsetOrdering(S), SUBSET S)
  BY FS_StrictSubsetOrderingWellFounded, FS_FiniteSubsetsOfFinite
<1>2. PICK s \in T : \A t \in T : <<t, s>> \notin StrictSubsetOrdering(S)
  BY <1>1, WFMin
<1> QED
  BY <1>2 DEF StrictSubsetOrdering

LEMMA Picked ==
  ASSUME NEW s, s # {}
  PROVE  Pick(s) \in s
BY DEF Pick

\* There is at most one sum ...
LEMMA SumsAgree ==
  ASSUME NEW S, IsFiniteSet(S), NEW f, NEW g, IsSum(f, S), IsSum(g, S)
  PROVE  f = g
<1> DEFINE Differ == {s \in SUBSET S : f[s] # g[s]}
<1>1. ASSUME Differ # {} PROVE FALSE
  <2>0. \E s \in Differ : \A t \in Differ : t \subseteq s => t = s
    <3>1. Differ \subseteq SUBSET S
      OBVIOUS
    <3> HIDE DEF Differ
    <3> QED
      BY <1>1, <3>1, Smallest
  <2>1. PICK s \in Differ : \A t \in Differ : t \subseteq s => t = s
    BY <2>0
  <2>2. /\ f[s] = IF s = {} THEN 0 ELSE Pick(s).size + f[s \ {Pick(s)}]
        /\ g[s] = IF s = {} THEN 0 ELSE Pick(s).size + g[s \ {Pick(s)}]
    BY DEF IsSum
  <2>3. s # {} => f[s \ {Pick(s)}] = g[s \ {Pick(s)}]
    BY <2>1, Picked
  <2> QED
    BY <2>2, <2>3
<1>2. \A s \in SUBSET S : f[s] = g[s]
  BY <1>1
<1>3. f = [s \in SUBSET S |-> f[s]] /\ g = [s \in SUBSET S |-> g[s]]
  BY DEF IsSum
<1> QED
  BY <1>2, <1>3

\* ... on a subset it is the same ...
LEMMA SumsRestrict ==
  ASSUME NEW S, NEW g, IsSum(g, S), NEW T \in SUBSET S
  PROVE  IsSum([s \in SUBSET T |-> g[s]], T)
<1> DEFINE r == [s \in SUBSET T |-> g[s]]
<1>1. ASSUME NEW s \in SUBSET T
      PROVE  r[s] = IF s = {} THEN 0 ELSE Pick(s).size + r[s \ {Pick(s)}]
  <2>1. s \in SUBSET S /\ s \ {Pick(s)} \in SUBSET T
    OBVIOUS
  <2>2. g[s] = IF s = {} THEN 0 ELSE Pick(s).size + g[s \ {Pick(s)}]
    BY <2>1 DEF IsSum
  <2> QED
    BY <2>1, <2>2
<1>2. r = [s \in SUBSET T |-> IF s = {} THEN 0 ELSE Pick(s).size + r[s \ {Pick(s)}]]
  BY <1>1
<1> QED
  BY <1>2 DEF IsSum

\* ... and there is one.
LEMMA SumExists ==
  ASSUME NEW S, IsFiniteSet(S)
  PROVE  \E g : IsSum(g, S)
<1> DEFINE Sumless == {s \in SUBSET S : ~ \E g : IsSum(g, s)}
<1>1. ASSUME Sumless # {} PROVE FALSE
  <2>0. \E s \in Sumless : \A t \in Sumless : t \subseteq s => t = s
    <3>1. Sumless \subseteq SUBSET S
      OBVIOUS
    <3> HIDE DEF Sumless
    <3> QED
      BY <1>1, <3>1, Smallest
  <2>1. PICK T \in Sumless : \A t \in Sumless : t \subseteq T => t = T
    BY <2>0
  <2>2. \A s \in SUBSET T : s # T => IsSum(SumOn(s), s)
    <3> SUFFICES ASSUME NEW s \in SUBSET T, s # T PROVE IsSum(SumOn(s), s)
      OBVIOUS
    <3>1. \E g : IsSum(g, s)
      BY <2>1
    <3> QED
      BY <3>1 DEF SumOn
  <2>3. IsFiniteSet(T)
    BY FS_Subset
  <2> DEFINE F(s) == IF s = {} THEN 0 ELSE Pick(s).size + SumOn(s \ {Pick(s)})[s \ {Pick(s)}]
  <2> DEFINE G == [s \in SUBSET T |-> F(s)]
  <2>4. ASSUME NEW s \in SUBSET T, s # T PROVE SumOn(s)[s] = F(s)
    <3>1. SumOn(s)[s] = IF s = {} THEN 0 ELSE Pick(s).size + SumOn(s)[s \ {Pick(s)}]
      BY <2>2, <2>4 DEF IsSum
    <3>2. ASSUME s # {} PROVE SumOn(s)[s \ {Pick(s)}] = SumOn(s \ {Pick(s)})[s \ {Pick(s)}]
      <4> DEFINE t == s \ {Pick(s)}
      <4>1. t \in SUBSET s /\ t \in SUBSET T /\ t # T /\ IsFiniteSet(t)
        BY <2>3, <2>4, <3>2, Picked, FS_Subset
      <4>2. IsSum([u \in SUBSET t |-> SumOn(s)[u]], t)
        BY <2>2, <2>4, <4>1, SumsRestrict
      <4>3. IsSum(SumOn(t), t)
        BY <2>2, <4>1
      <4>4. [u \in SUBSET t |-> SumOn(s)[u]] = SumOn(t)
        BY <4>1, <4>2, <4>3, SumsAgree
      <4>5. t \in SUBSET t
        OBVIOUS
      <4> HIDE DEF t
      <4>6. [u \in SUBSET t |-> SumOn(s)[u]][t] = SumOn(s)[t]
        BY <4>5
      <4>7. SumOn(s)[t] = SumOn(t)[t]
        BY <4>4, <4>6
      <4> QED
        BY <4>7 DEF t
    <3> QED
      BY <3>1, <3>2
  <2>5. ASSUME NEW s \in SUBSET T
        PROVE  F(s) = IF s = {} THEN 0 ELSE Pick(s).size + G[s \ {Pick(s)}]
    <3>1. CASE s = {}
      BY <3>1
    <3>2. CASE s # {}
      <4> DEFINE t == s \ {Pick(s)}
      <4>1. t \in SUBSET T /\ t # T
        BY <3>2, Picked
      <4>2. G[t] = F(t) /\ SumOn(t)[t] = F(t)
        BY <4>1, <2>4
      <4>3. F(s) = Pick(s).size + SumOn(t)[t]
        BY <3>2
      <4> HIDE DEF F, G
      <4> QED
        BY <3>2, <4>2, <4>3
    <3> QED
      BY <3>1, <3>2
  <2>6. IsSum(G, T)
    <3>1. G = [s \in SUBSET T |-> IF s = {} THEN 0 ELSE Pick(s).size + G[s \ {Pick(s)}]]
      <4>1. \A s \in SUBSET T : F(s) = IF s = {} THEN 0 ELSE Pick(s).size + G[s \ {Pick(s)}]
        BY <2>5
      <4> HIDE DEF F
      <4> QED
        BY <4>1
    <3> HIDE DEF G
    <3> QED
      BY <3>1 DEF IsSum
  <2> QED
    BY <2>1, <2>6
<1> QED
  BY <1>1

\* The sum of the rows is that of one of them and that of the others ...
LEMMA BytesOfUnfolds ==
  ASSUME NEW S, IsFiniteSet(S)
  PROVE  BytesOf(S) = IF S = {} THEN 0 ELSE Pick(S).size + BytesOf(S \ {Pick(S)})
<1> DEFINE T == S \ {Pick(S)}
<1>1. IsSum(SumOn(S), S) /\ IsSum(SumOn(T), T) /\ IsFiniteSet(T)
  BY SumExists, FS_Subset DEF SumOn
<1>2. SumOn(S)[S] = IF S = {} THEN 0 ELSE Pick(S).size + SumOn(S)[T]
  BY <1>1 DEF IsSum
<1>3. IsSum([s \in SUBSET T |-> SumOn(S)[s]], T)
  <2>1. T \in SUBSET S
    OBVIOUS
  <2> HIDE DEF T
  <2> QED
    BY <1>1, <2>1, SumsRestrict
<1>4. [s \in SUBSET T |-> SumOn(S)[s]] = SumOn(T)
  BY <1>1, <1>3, SumsAgree
<1>5. T \in SUBSET T
  OBVIOUS
<1> HIDE DEF T
<1>6. [s \in SUBSET T |-> SumOn(S)[s]][T] = SumOn(S)[T]
  BY <1>5
<1>7. SumOn(S)[T] = SumOn(T)[T]
  BY <1>4, <1>6
<1>8. BytesOf(S) = SumOn(S)[S] /\ BytesOf(T) = SumOn(T)[T]
  BY BytesOfIsSum
<1>9. BytesOf(S) = IF S = {} THEN 0 ELSE Pick(S).size + BytesOf(T)
  BY <1>2, <1>7, <1>8
<1> QED
  BY <1>9 DEF T

LEMMA BytesOfType ==
  ASSUME NEW S, IsFiniteSet(S), \A r \in S : r.size \in Nat
  PROVE  BytesOf(S) \in Nat
<1> DEFINE Odd == {s \in SUBSET S : BytesOf(s) \notin Nat}
<1>1. ASSUME Odd # {} PROVE FALSE
  <2>0. \E s \in Odd : \A t \in Odd : t \subseteq s => t = s
    <3>1. Odd \subseteq SUBSET S
      OBVIOUS
    <3> HIDE DEF Odd
    <3> QED
      BY <1>1, <3>1, Smallest
  <2>1. PICK s \in Odd : \A t \in Odd : t \subseteq s => t = s
    BY <2>0
  <2>2. IsFiniteSet(s)
    BY FS_Subset
  <2>3. s # {} => BytesOf(s \ {Pick(s)}) \in Nat /\ Pick(s).size \in Nat
    BY <2>1, Picked
  <2>4. BytesOf(s) = IF s = {} THEN 0 ELSE Pick(s).size + BytesOf(s \ {Pick(s)})
    BY <2>2, BytesOfUnfolds
  <2>5. BytesOf(s) \in Nat
    BY <2>3, <2>4
  <2> QED
    BY <2>1, <2>5
<1> QED
  BY <1>1

\* ... whichever it is.
LEMMA BytesOfSplits ==
  ASSUME NEW S, IsFiniteSet(S), \A r \in S : r.size \in Nat
  PROVE  \A r \in S : BytesOf(S) = r.size + BytesOf(S \ {r})
<1> DEFINE Odd == {s \in SUBSET S : \E r \in s : BytesOf(s) # r.size + BytesOf(s \ {r})}
<1>1. ASSUME Odd # {} PROVE FALSE
  <2>0. \E s \in Odd : \A t \in Odd : t \subseteq s => t = s
    <3>1. Odd \subseteq SUBSET S
      OBVIOUS
    <3> HIDE DEF Odd
    <3> QED
      BY <1>1, <3>1, Smallest
  <2>1. PICK s \in Odd : \A t \in Odd : t \subseteq s => t = s
    BY <2>0
  <2>2. PICK r \in s : BytesOf(s) # r.size + BytesOf(s \ {r})
    BY <2>1
  <2> DEFINE p == Pick(s)
             rest == (s \ {p}) \ {r}
  <2>3. /\ p \in s /\ p.size \in Nat /\ r.size \in Nat /\ IsFiniteSet(s)
        /\ IsFiniteSet(rest) /\ BytesOf(rest) \in Nat
    <3>1. IsFiniteSet(s) /\ rest \in SUBSET s
      BY FS_Subset
    <3>2. IsFiniteSet(rest) /\ \A q \in rest : q.size \in Nat
      BY <3>1, FS_Subset
    <3> QED
      BY <3>1, <3>2, <2>2, Picked, BytesOfType
  <2>4. BytesOf(s) = p.size + BytesOf(s \ {p})
    BY <2>2, <2>3, BytesOfUnfolds
  <2>5. p # r
    BY <2>2, <2>4
  <2>6. s \ {p} \notin Odd /\ s \ {r} \notin Odd
    BY <2>1, <2>2, <2>3
  <2>7. BytesOf(s \ {p}) = r.size + BytesOf(rest)
    BY <2>2, <2>5, <2>6
  <2>8. BytesOf(s \ {r}) = p.size + BytesOf((s \ {r}) \ {p})
    BY <2>3, <2>5, <2>6
  <2>9. (s \ {r}) \ {p} = rest
    OBVIOUS
  <2>10. BytesOf(s \ {r}) = p.size + BytesOf(rest)
    BY <2>8, <2>9
  <2> HIDE DEF rest, p
  <2> QED
    BY <2>2, <2>3, <2>4, <2>7, <2>10
<1>2. S \notin Odd
  BY <1>1
<1> QED
  BY <1>2

\* One more row adds its size; more rows are no fewer bytes.
LEMMA BytesOfAdds ==
  ASSUME NEW S, IsFiniteSet(S), \A q \in S : q.size \in Nat, NEW r, r \notin S, r.size \in Nat
  PROVE  BytesOf(S \cup {r}) = BytesOf(S) + r.size
<1>1. IsFiniteSet(S \cup {r}) /\ (S \cup {r}) \ {r} = S /\ \A q \in S \cup {r} : q.size \in Nat
  BY FS_AddElement
<1>2. BytesOf(S \cup {r}) = r.size + BytesOf((S \cup {r}) \ {r})
  BY <1>1, BytesOfSplits
<1>3. BytesOf(S) \in Nat
  BY BytesOfType
<1> QED
  BY <1>1, <1>2, <1>3

LEMMA BytesOfGrows ==
  ASSUME NEW S, IsFiniteSet(S), \A r \in S : r.size \in Nat, NEW T \in SUBSET S
  PROVE  BytesOf(T) <= BytesOf(S)
<1> DEFINE Odd == {s \in SUBSET S : T \subseteq s /\ ~(BytesOf(T) <= BytesOf(s))}
<1>1. ASSUME Odd # {} PROVE FALSE
  <2>0. \E s \in Odd : \A t \in Odd : t \subseteq s => t = s
    <3>1. Odd \subseteq SUBSET S
      OBVIOUS
    <3> HIDE DEF Odd
    <3> QED
      BY <1>1, <3>1, Smallest
  <2>1. PICK s \in Odd : \A t \in Odd : t \subseteq s => t = s
    BY <2>0
  <2>2. IsFiniteSet(s) /\ (\A r \in s : r.size \in Nat) /\ IsFiniteSet(T)
    BY FS_Subset
  <2>3. BytesOf(s) \in Nat /\ BytesOf(T) \in Nat
    BY <2>2, BytesOfType
  <2>4. PICK r \in s : r \notin T
    <3>1. ~(BytesOf(T) <= BytesOf(s)) /\ T \subseteq s
      BY <2>1
    <3>2. T # s
      BY <2>3, <3>1
    <3> QED
      BY <3>1, <3>2
  <2>5. BytesOf(s) = r.size + BytesOf(s \ {r})
    BY <2>2, BytesOfSplits
  <2>6. BytesOf(T) <= BytesOf(s \ {r})
    BY <2>1, <2>4
  <2>7. BytesOf(s \ {r}) \in Nat /\ r.size \in Nat
    <3>1. IsFiniteSet(s \ {r})
      BY <2>2, FS_Subset
    <3> QED
      BY <3>1, <2>2, BytesOfType
  <2> QED
    BY <2>1, <2>3, <2>5, <2>6, <2>7
<1>2. S \notin Odd
  BY <1>1
<1> QED
  BY <1>2

-----------------------------------------------------------------------------
(***************************************************************************)
(* NeverOvercounted is not inductive: the bytes of a row may be counted    *)
(* only while its request has not counted them yet.  So what is counted is *)
(* compared with the rows whose requests are past that point, or died      *)
(* before it.                                                              *)
(***************************************************************************)
Accounted(o) ==
  {r \in rows : r.org = o /\ \A h \in Handlers : job[h].pc = "count" => job[h].asset # r.id}

CountsHaveRows == \A h \in Handlers : job[h].pc = "count" => RowOf(h) \in rows
CountedAreRows == \A o \in Orgs : org[o].used <= BytesOf(Accounted(o))

CountedInv == StorageInv /\ IsFiniteSet(rows) /\ CountsHaveRows /\ CountedAreRows

LEMMA SizesAreNat == Sizes \subseteq Nat
BY UploadAssumption DEF UploadAssumption

LEMMA SetsOfRows ==
  ASSUME UploadAssumption, TypeOK, IsFiniteSet(rows), NEW S \in SUBSET rows
  PROVE  IsFiniteSet(S) /\ \A r \in S : r.size \in Nat
<1>1. IsFiniteSet(S)
  BY FS_Subset
<1>2. ASSUME NEW r \in S PROVE r.size \in Nat
  <2>1. r.size \in Sizes
    BY DEF TypeOK, AssetRow
  <2> QED
    BY <2>1, SizesAreNat
<1> QED
  BY <1>1, <1>2

\* A step that counts nothing, and brings no request to the count of a row that is there.
LEMMA NothingCounted ==
  ASSUME UploadAssumption, CountedInv, TypeOK', IsFiniteSet(rows'), rows \subseteq rows',
         \A o \in Orgs : org'[o].used = org[o].used,
         \A h \in Handlers : job'[h].pc = "count" =>
           job'[h] = job[h] \/ job'[h].asset \notin RowIds
  PROVE  CountedAreRows'
<1> SUFFICES ASSUME NEW o \in Orgs PROVE org'[o].used <= BytesOf(Accounted(o)')
  BY DEF CountedAreRows
<1>1. Accounted(o) \subseteq Accounted(o)'
  BY DEF Accounted, RowIds
<1>2. Accounted(o)' \subseteq rows' /\ Accounted(o) \subseteq rows
  BY DEF Accounted
<1>3. IsFiniteSet(Accounted(o)') /\ \A r \in Accounted(o)' : r.size \in Nat
  <2>1. IsFiniteSet(Accounted(o)')
    BY <1>2, FS_Subset
  <2>2. ASSUME NEW r \in Accounted(o)' PROVE r.size \in Nat
    <3>1. r.size \in Sizes
      BY <1>2 DEF TypeOK, AssetRow
    <3> QED
      BY <3>1, SizesAreNat
  <2> QED
    BY <2>1, <2>2
<1>4. IsFiniteSet(Accounted(o)) /\ \A r \in Accounted(o) : r.size \in Nat
  BY <1>1, <1>3, FS_Subset
<1>5. BytesOf(Accounted(o)) <= BytesOf(Accounted(o)')
  BY <1>1, <1>3, BytesOfGrows
<1>6. BytesOf(Accounted(o)) \in Nat /\ BytesOf(Accounted(o)') \in Nat
  BY <1>3, <1>4, BytesOfType
<1>7. org[o].used \in Nat /\ org[o].used <= BytesOf(Accounted(o))
  BY DEF CountedInv, StorageInv, TypeOK, OrgRow, CountedAreRows
<1> QED
  BY <1>5, <1>6, <1>7

\* Counting: the request's row joins the accounted ones with its bytes.
LEMMA CountStep ==
  ASSUME UploadAssumption, CountedInv, NEW h \in Handlers, CountBytes(h)
  PROVE  CountsHaveRows' /\ CountedAreRows'
<1>0. /\ TypeOK /\ OwnedByOne /\ PhaseMatchesStores
      /\ IsFiniteSet(rows) /\ CountsHaveRows /\ CountedAreRows
  BY DEF CountedInv, StorageInv
<1> DEFINE r == RowOf(h)
<1>1. /\ job[h] \in Uploading /\ job[h].pc = "count" /\ rows' = rows
      /\ Goto(h, "announce") /\ org' = [org EXCEPT ![job[h].org].used = @ + job[h].size]
  BY <1>0, JobShape DEF CountBytes, Holding
<1>2. /\ r \in rows /\ r.id = job[h].asset /\ r.org = job[h].org /\ r.size = job[h].size
      /\ r.id \in Assets /\ r.org \in Orgs /\ r.size \in Nat
  BY <1>0, <1>1, UploadingFields DEF CountsHaveRows, RowOf, UploadAssumption
<1>3. job'[h].pc = "announce" /\ \A g \in Handlers : g # h => job'[g] = job[g]
  BY <1>0, <1>1, GotoUses DEF Holding
<1>4. \A g \in Handlers : job'[g].pc = "count" => g # h /\ job[g].pc = "count" /\ job'[g] = job[g]
  BY <1>3
<1>5. \A g \in Handlers : g # h /\ job[g].pc = "count" => job[g].asset # r.id
  BY <1>0, <1>1, <1>2 DEF OwnedByOne, Uses, Holding
<1>7. CountsHaveRows'
  BY <1>0, <1>1, <1>4 DEF CountsHaveRows, RowOf
<1>8. ASSUME NEW o \in Orgs PROVE org'[o].used <= BytesOf(Accounted(o)')
  <2>1. IsFiniteSet(Accounted(o)) /\ \A q \in Accounted(o) : q.size \in Nat
    BY <1>0, SetsOfRows DEF Accounted
  <2>2. org[o].used \in Nat /\ org[o].used <= BytesOf(Accounted(o)) /\ BytesOf(Accounted(o)) \in Nat
    BY <1>0, <2>1, BytesOfType DEF TypeOK, OrgRow, CountedAreRows
  <2> DEFINE after == Accounted(o)'
  <2>9. IsFiniteSet(after) /\ \A q \in after : q.size \in Nat
    <3>1. after \in SUBSET rows
      BY <1>1 DEF Accounted
    <3> QED
      BY <1>0, <3>1, SetsOfRows
  <2>3. CASE o = r.org
    <3>1. r \notin Accounted(o)
      BY <1>1, <1>2 DEF Accounted
    <3>2. Accounted(o) \cup {r} \subseteq Accounted(o)'
      BY <1>1, <1>2, <1>4, <1>5, <2>3 DEF Accounted
    <3>3. BytesOf(Accounted(o) \cup {r}) = BytesOf(Accounted(o)) + r.size
      BY <1>2, <2>1, <3>1, BytesOfAdds
    <3>4. org'[o].used = org[o].used + r.size
      BY <1>0, <1>1, <1>2, <2>3 DEF TypeOK, OrgRow
    <3>5. BytesOf(Accounted(o) \cup {r}) <= BytesOf(after)
      BY <2>9, <3>2, BytesOfGrows
    <3>6. BytesOf(after) \in Nat
      BY <2>9, BytesOfType
    <3> QED
      BY <1>2, <2>2, <3>3, <3>4, <3>5, <3>6
  <2>4. CASE o # r.org
    <3>1. Accounted(o) \subseteq Accounted(o)'
      BY <1>1, <1>4 DEF Accounted
    <3>2. org'[o].used = org[o].used
      BY <1>0, <1>1, <1>2, <2>4 DEF TypeOK, OrgRow
    <3>3. BytesOf(Accounted(o)) <= BytesOf(after) /\ BytesOf(after) \in Nat
      BY <2>9, <3>1, BytesOfGrows, BytesOfType
    <3> QED
      BY <2>2, <3>2, <3>3
  <2> QED
    BY <2>3, <2>4
<1>9. CountedAreRows'
  BY <1>8 DEF CountedAreRows
<1> QED
  BY <1>7, <1>9

LEMMA CountedStep == UploadAssumption /\ CountedInv /\ [Next]_vars => CountedInv'
<1> SUFFICES ASSUME UploadAssumption, CountedInv, [Next]_vars PROVE CountedInv'
  OBVIOUS
<1>0. /\ StorageInv /\ TypeOK /\ PhaseMatchesStores
      /\ IsFiniteSet(rows) /\ CountsHaveRows /\ CountedAreRows
  BY DEF CountedInv, StorageInv
<1>1. StorageInv' /\ TypeOK'
  BY <1>0, StorageStep DEF StorageInv
<1>2. ASSUME NEW h \in Handlers, CountBytes(h)
      PROVE  IsFiniteSet(rows') /\ CountsHaveRows' /\ CountedAreRows'
  BY <1>0, <1>2, CountStep DEF CountBytes
<1>3. ASSUME NEW h \in Handlers, InsertRow(h)
      PROVE  IsFiniteSet(rows') /\ CountsHaveRows' /\ CountedAreRows'
  <2>1. job[h] \in Uploading /\ Goto(h, "count") /\ rows' = rows \cup {RowOf(h)} /\ org' = org
    BY <1>0, <1>3, JobShape DEF InsertRow, Holding
  <2>2. /\ job'[h] = [job[h] EXCEPT !.pc = "count"]
        /\ \A g \in Handlers : g # h => job'[g] = job[g]
    BY <1>0, <2>1 DEF Goto, TypeOK
  <2>3. RowOf(h)' = RowOf(h) /\ job'[h].asset = job[h].asset
    BY <2>1, <2>2 DEF RowOf, Uploading
  <2>4. job[h].asset \notin RowIds
    BY <1>0, <1>3, <2>1, UploadingFields DEF InsertRow, PhaseMatchesStores, Uses, Holding
  <2>5. IsFiniteSet(rows')
    BY <1>0, <2>1, FS_AddElement
  <2>6. CountsHaveRows'
    BY <1>0, <2>1, <2>2, <2>3 DEF CountsHaveRows, RowOf
  <2>7. CountedAreRows'
    BY <1>1, <2>1, <2>2, <2>3, <2>4, <2>5, NothingCounted
  <2> QED
    BY <2>5, <2>6, <2>7
\* No other step changes a counter or brings a request to the count.
<1>4. ASSUME NEW h \in Handlers, rows' \in {rows, rows \cup {RowOf(h)}},
             \A o \in Orgs : org'[o].used = org[o].used,
             \A g \in Handlers : job'[g].pc = "count" => job'[g] = job[g]
      PROVE  IsFiniteSet(rows') /\ CountsHaveRows' /\ CountedAreRows'
  <2>1. IsFiniteSet(rows') /\ rows \subseteq rows'
    BY <1>0, <1>4, FS_AddElement
  <2>2. CountsHaveRows'
    BY <1>0, <1>4 DEF CountsHaveRows, RowOf
  <2>3. CountedAreRows'
    BY <1>1, <1>4, <2>1, NothingCounted
  <2> QED
    BY <2>1, <2>2, <2>3
<1>5. ASSUME NEW h \in Handlers, NextFile(h) \/ \E pc \in Holding \cup {"cleanup", "announce"} :
                                                 pc # "count" /\ Goto(h, pc)
      PROVE  \A g \in Handlers : job'[g].pc = "count" => job'[g] = job[g]
  BY <1>0, <1>5 DEF NextFile, Goto, Idle, TypeOK, Checking, Uploading, Configuring, Holding
<1>6. ASSUME NEW h \in Handlers,
             \/ Refuse(h) \/ StoreObject(h) \/ StoreFails(h) \/ InsertFails(h) \/ Cleanup(h)
             \/ CountFails(h) \/ Announce(h)
      PROVE  IsFiniteSet(rows') /\ CountsHaveRows' /\ CountedAreRows'
  <2>1. rows' \in {rows, rows \cup {RowOf(h)}} /\ org' = org
    BY <1>6 DEF Refuse, StoreObject, StoreFails, InsertFails, Cleanup, CountFails, Announce
  <2>2. NextFile(h) \/ \E pc \in Holding \cup {"cleanup", "announce"} : pc # "count" /\ Goto(h, pc)
    BY <1>6 DEF Refuse, StoreObject, StoreFails, InsertFails, Cleanup, CountFails, Announce,
                Return, Holding
  <2> QED
    BY <1>4, <1>5, <2>1, <2>2
<1>7. ASSUME NEW h \in Handlers,
             \/ \E o \in Orgs, n \in 1 .. MaxFiles : BeginUpload(h, o, n)
             \/ \E a \in Assets, s \in Sizes : Admit(h, a, s)
             \/ \E o \in Orgs : BeginUpdateOrg(h, o)
             \/ UpdateOrg(h) \/ Crash(h)
      PROVE  IsFiniteSet(rows') /\ CountsHaveRows' /\ CountedAreRows'
  <2>1. rows' = rows /\ \A o \in Orgs : org'[o].used = org[o].used
    <3>1. CASE UpdateOrg(h)
      <4>1. PICK l \in FileLimits \cup {job[h].seen.limit} :
              org' = [org EXCEPT ![job[h].org].limit = l]
        BY <3>1 DEF UpdateOrg
      <4> QED
        BY <1>0, <3>1, <4>1 DEF UpdateOrg, TypeOK, OrgRow
    <3>2. CASE ~UpdateOrg(h)
      BY <1>7, <3>2 DEF BeginUpload, Admit, BeginUpdateOrg, Crash
    <3> QED
      BY <3>1, <3>2
  <2>2. job'[h].pc # "count" /\ \A g \in Handlers : g # h => job'[g] = job[g]
    BY <1>0, <1>7 DEF BeginUpload, Admit, BeginUpdateOrg, UpdateOrg, Crash, TypeOK, Idle
  <2> QED
    BY <1>4, <2>1, <2>2
<1>8. ASSUME UNCHANGED vars PROVE IsFiniteSet(rows') /\ CountsHaveRows' /\ CountedAreRows'
  <2>1. Handlers # {}
    BY DEF UploadAssumption
  <2> QED
    BY <1>4, <1>8, <2>1 DEF vars
<1>9. IsFiniteSet(rows') /\ CountsHaveRows' /\ CountedAreRows'
  BY <1>2, <1>3, <1>6, <1>7, <1>8 DEF Next
<1> QED
  BY <1>1, <1>9 DEF CountedInv

(***************************************************************************)
(* A usage counter never exceeds the bytes of the organization's rows,     *)
(* whatever fails, is retried or dies: bytes are counted once, for a row   *)
(* that was inserted, and no row goes (asset_service.go:125-132).          *)
(***************************************************************************)
THEOREM UploadNeverOvercounts == Spec => []NeverOvercounted
<1>1. Init => CountedInv
  <2> SUFFICES ASSUME Init PROVE CountedInv
    OBVIOUS
  <2>1. StorageInv /\ IsFiniteSet(rows) /\ CountsHaveRows
    BY UploadAssumption, StorageInit, FS_EmptySet DEF Init, CountsHaveRows, Idle
  <2>2. ASSUME NEW o \in Orgs PROVE org[o].used <= BytesOf(Accounted(o))
    <3>1. Accounted(o) = {} /\ org[o].used = 0
      BY DEF Init, Accounted
    <3>2. BytesOf({}) = 0
      BY FS_EmptySet, BytesOfUnfolds
    <3> QED
      BY <3>1, <3>2
  <2> QED
    BY <2>1, <2>2 DEF CountedInv, CountedAreRows
<1>2. CountedInv /\ [Next]_vars => CountedInv'
  BY UploadAssumption, CountedStep
<1>3. CountedInv => NeverOvercounted
  <2> SUFFICES ASSUME CountedInv, NEW o \in Orgs
               PROVE  org[o].used <= BytesOf({r \in rows : r.org = o})
    BY DEF NeverOvercounted, BytesOf
  <2> DEFINE owned == {r \in rows : r.org = o}
  <2>1. owned \in SUBSET rows /\ Accounted(o) \in SUBSET owned
    BY DEF Accounted
  <2>2. IsFiniteSet(owned) /\ \A r \in owned : r.size \in Nat
    BY <2>1, UploadAssumption, SetsOfRows DEF CountedInv, StorageInv
  <2>3. BytesOf(Accounted(o)) <= BytesOf(owned) /\ BytesOf(owned) \in Nat
    BY <2>1, <2>2, BytesOfGrows, BytesOfType
  <2>4. BytesOf(Accounted(o)) \in Nat
    <3>1. IsFiniteSet(Accounted(o)) /\ \A r \in Accounted(o) : r.size \in Nat
      BY <2>1, <2>2, FS_Subset
    <3> QED
      BY <3>1, BytesOfType
  <2>5. org[o].used \in Nat /\ org[o].used <= BytesOf(Accounted(o))
    BY DEF CountedInv, StorageInv, TypeOK, OrgRow, CountedAreRows
  <2> HIDE DEF owned
  <2>6. org[o].used <= BytesOf(owned)
    BY <2>3, <2>4, <2>5
  <2> QED
    BY <2>6 DEF owned
<1> QED
  BY <1>1, <1>2, <1>3, PTL DEF Spec
=============================================================================
