------------------------- MODULE AssetLibraryProofs -------------------------
(***************************************************************************)
(* The folder table stays a forest with nested paths, which the tree       *)
(* builder shows whole, assets stay filed in folders that exist, and       *)
(* deletions stay, for any number of requests, organizations, folders and  *)
(* assets.  A walk through a listing of the assets is whole, shows nothing *)
(* twice and announces its total, whatever changes underneath; and what    *)
(* the requests on folders and assets do is nothing else than the changes  *)
(* AssetListing takes into account.                                        *)
(***************************************************************************)
EXTENDS FolderListing, FiniteSetTheorems, SequenceTheorems, TLAPS

\* The fields of what a request is about to write.
LEMMA JobFields ==
  ASSUME NEW j \in Job
  PROVE  /\ j \in Creating => /\ j.op = "create" /\ j.org \in Orgs /\ j.path \in Path
                              /\ j.parent \in FolderIds \cup {None}
         /\ j \in Renaming => j.op = "rename" /\ j.id \in FolderIds
         /\ j \in Dropping => j.op = "drop" /\ j.id \in FolderIds
         /\ j \in Filing => /\ j.op \in {"edit", "move"} /\ j.asset \in Assets
                            /\ j.folder \in FolderIds \cup {None}
         /\ j \in Removing => j.op \in {"remove", "updated", "deleted"} /\ j.asset \in Assets
BY DEF Creating, Renaming, Dropping, Filing, Removing

LEMMA IdleIsNoWrite ==
  Idle \notin Creating \cup Renaming \cup Dropping \cup Filing \cup Removing
BY DEF Idle, Creating, Renaming, Dropping, Filing, Removing

LEMMA FolderFields ==
  ASSUME TypeOK, NEW i \in Live
  PROVE  /\ i \in FolderIds /\ folders[i] \in FolderRow
         /\ folders[i].org \in Orgs /\ folders[i].path \in Path
         /\ folders[i].parent \in FolderIds \cup {None}
BY DEF TypeOK, Live, FolderRow

LEMMA TypeInit == Init => TypeOK
BY DEF Init, TypeOK, AssetRow, Job

LEMMA TypeStep == TypeOK /\ [Next]_vars => TypeOK'
<1> SUFFICES ASSUME TypeOK, [Next]_vars PROVE TypeOK'
  OBVIOUS
<1>1. /\ folders \in [FolderIds -> FolderRow \cup {None}]
      /\ assets \in [Assets -> AssetRow]
      /\ events \subseteq {"updated", "deleted"} \X Assets
      /\ job \in [Handlers -> Job]
  BY DEF TypeOK
<1>2. ASSUME NEW h \in Handlers, NEW j \in Job, Goto(h, j) PROVE job' \in [Handlers -> Job]
  BY <1>1, <1>2 DEF Goto
<1>3. Idle \in Job
  BY DEF Job
<1>4. ASSUME NEW h \in Handlers, NEW o \in Orgs, NEW s \in Slugs, BeginCreate(h, o, s)
      PROVE  TypeOK'
  <2>1. <<s>> \in Path
    BY DEF Path
  <2>2. ASSUME NEW p \in FolderIds, GetFolder(o, p) PROVE Append(folders[p].path, s) \in Path
    <3>1. folders[p].path \in Seq(Slugs)
      BY <2>2, FolderFields DEF GetFolder, Path
    <3> QED
      BY <3>1 DEF Path
  <2>3. PICK j \in Creating : Goto(h, j)
    BY <1>4, <2>1, <2>2 DEF BeginCreate, Creating
  <2> QED
    BY <1>1, <1>2, <1>4, <2>3 DEF BeginCreate, TypeOK, Job
<1>5. ASSUME NEW h \in Handlers, InsertFolder(h) PROVE TypeOK'
  <2>1. [org |-> job[h].org, parent |-> job[h].parent, path |-> job[h].path] \in FolderRow
    BY <1>1, <1>5, JobFields DEF InsertFolder, FolderRow
  <2>2. folders' \in [FolderIds -> FolderRow \cup {None}]
    BY <1>1, <1>5, <2>1 DEF InsertFolder
  <2> QED
    BY <1>1, <1>2, <1>3, <1>5, <2>2 DEF InsertFolder, TypeOK
<1>6. ASSUME NEW h \in Handlers, NEW o \in Orgs, NEW i \in FolderIds,
             BeginRename(h, o, i) \/ BeginDrop(h, o, i)
      PROVE  TypeOK'
  <2>1. PICK j \in Renaming \cup Dropping : Goto(h, j)
    BY <1>6 DEF BeginRename, BeginDrop, Renaming, Dropping
  <2> QED
    BY <1>1, <1>2, <1>6, <2>1 DEF BeginRename, BeginDrop, TypeOK, Job
<1>7. ASSUME NEW h \in Handlers, WriteFolder(h) \/ Abandon(h) PROVE TypeOK'
  BY <1>1, <1>2, <1>3, <1>7 DEF WriteFolder, Abandon, TypeOK
<1>8. ASSUME NEW h \in Handlers, DropFolder(h) PROVE TypeOK'
  <2>1. folders' \in [FolderIds -> FolderRow \cup {None}]
    BY <1>1, <1>8 DEF DropFolder
  <2>2. \A a \in Assets : [assets[a] EXCEPT !.folder = None] \in AssetRow
    BY <1>1 DEF AssetRow
  <2>3. assets' \in [Assets -> AssetRow]
    BY <1>1, <1>8, <2>2 DEF DropFolder
  <2> QED
    BY <1>1, <1>2, <1>3, <1>8, <2>1, <2>3 DEF DropFolder, TypeOK
<1>9. ASSUME NEW h \in Handlers, NEW o \in Orgs, NEW a \in Assets,
             \/ BeginEdit(h, o, a) \/ BeginRemove(h, o, a)
             \/ \E i \in FolderIds \cup {None} : BeginMove(h, o, a, i)
      PROVE  TypeOK'
  <2>1. assets[a].folder \in FolderIds \cup {None}
    BY <1>1 DEF AssetRow
  <2>2. PICK j \in Filing \cup Removing : Goto(h, j)
    BY <1>9, <2>1 DEF BeginEdit, BeginRemove, BeginMove, Filing, Removing
  <2> QED
    BY <1>1, <1>2, <1>9, <2>2 DEF BeginEdit, BeginRemove, BeginMove, TypeOK, Job
<1>10. ASSUME NEW h \in Handlers, WriteAsset(h) PROVE TypeOK'
  <2>1. job[h].asset \in Assets /\ job[h].folder \in FolderIds \cup {None}
    BY <1>1, <1>10, JobFields DEF WriteAsset
  <2>2. [assets[job[h].asset] EXCEPT !.folder = job[h].folder] \in AssetRow
    BY <1>1, <2>1 DEF AssetRow
  <2>3. assets' \in [Assets -> AssetRow]
    BY <1>1, <1>10, <2>1, <2>2 DEF WriteAsset
  <2>4. PICK j \in Job : Goto(h, j)
    BY <1>3, <1>10, <2>1 DEF WriteAsset, Removing, Job
  <2> QED
    BY <1>1, <1>2, <1>10, <2>3, <2>4 DEF WriteAsset, TypeOK
<1>11. ASSUME NEW h \in Handlers, SoftDelete(h) PROVE TypeOK'
  <2>1. job[h].asset \in Assets
    BY <1>1, <1>11, JobFields DEF SoftDelete
  <2>2. [assets[job[h].asset] EXCEPT !.deleted = TRUE] \in AssetRow
    BY <1>1, <2>1 DEF AssetRow
  <2>3. assets' \in [Assets -> AssetRow]
    BY <1>1, <1>11, <2>1, <2>2 DEF SoftDelete
  <2>4. [op |-> "deleted", asset |-> job[h].asset] \in Job
    BY <2>1 DEF Removing, Job
  <2> QED
    BY <1>1, <1>2, <1>11, <2>3, <2>4 DEF SoftDelete, TypeOK
<1>12. ASSUME NEW h \in Handlers, Publish(h) PROVE TypeOK'
  <2>1. <<job[h].op, job[h].asset>> \in {"updated", "deleted"} \X Assets
    BY <1>1, <1>12, JobFields DEF Publish
  <2> QED
    BY <1>1, <1>2, <1>3, <1>12, <2>1 DEF Publish, TypeOK
<1>13. CASE UNCHANGED vars
  BY <1>1, <1>13 DEF vars, TypeOK
<1> QED
  BY <1>4, <1>5, <1>6, <1>7, <1>8, <1>9, <1>10, <1>11, <1>12, <1>13 DEF Next

(***************************************************************************)
(* Every variable keeps its type.                                          *)
(***************************************************************************)
THEOREM LibraryTypes == Spec => []TypeOK
BY TypeInit, TypeStep, PTL DEF Spec

-----------------------------------------------------------------------------
\* The cascade: the folder itself is gone, and the children of what is gone.
LEMMA SubtreeClosed ==
  ASSUME NEW i \in FolderIds
  PROVE  /\ i \in Subtree(i)
         /\ Subtree(i) \subseteq FolderIds
         /\ \A j \in Live : folders[j].parent \in Subtree(i) => j \in Subtree(i)
<1>1. i \in Subtree(i) /\ Subtree(i) \subseteq FolderIds
  BY DEF Subtree
<1>2. ASSUME NEW j \in Live, folders[j].parent \in Subtree(i) PROVE j \in Subtree(i)
  <2>1. j \in FolderIds
    BY DEF Live
  <2>2. ASSUME NEW S \in SUBSET FolderIds, i \in S,
               \A k \in Live : folders[k].parent \in S => k \in S
        PROVE  j \in S
    <3>1. folders[j].parent \in S
      BY <1>2, <2>2 DEF Subtree
    <3> QED
      BY <2>2, <3>1
  <2> QED
    BY <2>1, <2>2 DEF Subtree
<1> QED
  BY <1>1, <1>2

\* What the deletion leaves of the two tables.
LEMMA DropEffect ==
  ASSUME TypeOK, NEW h \in Handlers, DropFolder(h)
  PROVE  /\ Live' \subseteq Live
         /\ \A i \in Live' : folders'[i] = folders[i]
         /\ \A i \in Live' : folders[i].parent \in Live => folders[i].parent \in Live'
         /\ \A a \in Assets : assets[a].folder \in Live
              => assets'[a].folder \in Live' \cup {None}
         /\ \A a \in Assets : assets[a].folder = None => assets'[a].folder = None
         /\ \A a \in Assets : assets'[a].deleted = assets[a].deleted
<1> DEFINE gone == Subtree(job[h].id)
<1>1. job[h].id \in FolderIds
  BY JobFields DEF TypeOK, DropFolder
<1>2. /\ gone \subseteq FolderIds
      /\ \A j \in Live : folders[j].parent \in gone => j \in gone
  BY <1>1, SubtreeClosed
<1>3. folders' = [i \in FolderIds |-> IF i \in gone THEN None ELSE folders[i]]
  BY DEF DropFolder
<1>4. Live' = Live \ gone
  BY <1>3 DEF Live
<1>5. \A i \in Live' : folders'[i] = folders[i]
  BY <1>3, <1>4 DEF Live
<1>6. \A i \in Live' : folders[i].parent \in Live => folders[i].parent \in Live'
  BY <1>2, <1>4
<1>7. ASSUME NEW a \in Assets
      PROVE  /\ assets'[a].folder = IF assets[a].folder \in gone THEN None ELSE assets[a].folder
             /\ assets'[a].deleted = assets[a].deleted
  <2>1. assets[a] \in AssetRow
    BY DEF TypeOK
  <2>2. assets'[a] = IF assets[a].folder \in gone THEN [assets[a] EXCEPT !.folder = None]
                     ELSE assets[a]
    BY DEF DropFolder
  <2> QED
    BY <2>1, <2>2 DEF AssetRow
<1> QED
  BY <1>2, <1>4, <1>5, <1>6, <1>7, LibraryAssumption

\* A step that leaves the folder table alone and starts no creation.
LEMMA TreeKept ==
  ASSUME TreeInv, UNCHANGED folders,
         \A g \in Handlers : job'[g] \in Creating => job'[g] = job[g]
  PROVE  FoldersNest' /\ PathsUnique' /\ CreatesNest'
<1>1. Live' = Live
  BY DEF Live
<1>2. FoldersNest' /\ PathsUnique'
  BY <1>1 DEF TreeInv, FoldersNest, PathsUnique, References, Nests
<1>3. CreatesNest'
  <2> SUFFICES ASSUME NEW g \in Handlers, job'[g] \in Creating, References(job[g].parent)
               PROVE  Nests(job[g].org, job[g].parent, job[g].path)
    BY <1>1 DEF CreatesNest, References, Nests
  <2> QED
    BY DEF TreeInv, CreatesNest
<1> QED
  BY <1>2, <1>3

LEMMA CreateStep ==
  ASSUME TreeInv, TypeOK', NEW h \in Handlers, NEW o \in Orgs, NEW s \in Slugs, BeginCreate(h, o, s)
  PROVE  FoldersNest' /\ PathsUnique' /\ CreatesNest'
<1>1. TypeOK /\ UNCHANGED folders /\ Live' = Live
  BY DEF TreeInv, BeginCreate, Live
<1>2. FoldersNest' /\ PathsUnique'
  BY <1>1 DEF TreeInv, FoldersNest, PathsUnique, References, Nests
<1>3. Nests(job'[h].org, job'[h].parent, job'[h].path)
  <2>1. CASE Goto(h, [op |-> "create", org |-> o, parent |-> None, path |-> <<s>>])
    BY <1>1, <2>1 DEF Goto, TypeOK, Nests
  <2>2. CASE \E p \in FolderIds :
               /\ GetFolder(o, p)
               /\ Goto(h, [op |-> "create", org |-> o, parent |-> p,
                           path |-> Append(folders[p].path, s)])
    <3>1. PICK p \in FolderIds :
               /\ GetFolder(o, p)
               /\ Goto(h, [op |-> "create", org |-> o, parent |-> p,
                           path |-> Append(folders[p].path, s)])
      BY <2>2
    <3>2. p # None /\ folders[p].org = o
      BY <3>1, LibraryAssumption DEF GetFolder
    <3>3. job'[h].org = o /\ job'[h].parent = p /\ job'[h].path = Append(folders[p].path, s)
      BY <1>1, <3>1 DEF Goto, TypeOK
    <3> QED
      BY <3>2, <3>3 DEF Nests
  <2> QED
    BY <2>1, <2>2 DEF BeginCreate
<1>4. CreatesNest'
  <2> SUFFICES ASSUME NEW g \in Handlers, job'[g] \in Creating, References(job'[g].parent)
               PROVE  Nests(job'[g].org, job'[g].parent, job'[g].path)
    BY <1>1 DEF CreatesNest, References, Nests
  <2>1. CASE g = h
    BY <1>3, <2>1
  <2>2. CASE g # h
    <3>1. job'[g] = job[g]
      BY <1>1, <2>2 DEF BeginCreate, Goto, TypeOK
    <3> QED
      BY <3>1 DEF TreeInv, CreatesNest
  <2> QED
    BY <2>1, <2>2
<1> QED
  BY <1>2, <1>4

LEMMA InsertStep ==
  ASSUME TreeInv, NEW h \in Handlers, InsertFolder(h)
  PROVE  FoldersNest' /\ PathsUnique' /\ CreatesNest'
<1> DEFINE row == [org |-> job[h].org, parent |-> job[h].parent, path |-> job[h].path]
<1>1. TypeOK /\ job[h] \in Creating /\ References(job[h].parent)
  BY DEF TreeInv, InsertFolder
<1>2. PICK i \in FolderIds : Fresh(i) /\ folders' = [folders EXCEPT ![i] = row]
  BY DEF InsertFolder
<1>3. row \in FolderRow
  BY <1>1, JobFields DEF TypeOK, FolderRow
<1>4. /\ i \notin Live /\ Live' = Live \cup {i} /\ folders'[i] = row
      /\ \A k \in Live : folders'[k] = folders[k]
  BY <1>1, <1>2, <1>3, LibraryAssumption DEF Live, Fresh, TypeOK
<1>5. Nests(row.org, row.parent, row.path)
  BY <1>1 DEF TreeInv, CreatesNest
<1>6. FoldersNest'
  <2> SUFFICES ASSUME NEW k \in Live'
               PROVE  /\ folders'[k].parent = None \/ folders'[k].parent \in Live'
                      /\ IF folders'[k].parent = None THEN Len(folders'[k].path) = 1
                         ELSE /\ folders'[folders'[k].parent].org = folders'[k].org
                              /\ \E s \in Slugs : folders'[k].path
                                   = Append(folders'[folders'[k].parent].path, s)
    BY DEF FoldersNest, References, Nests
  <2>1. CASE k = i
    <3>1. /\ folders'[k].org = job[h].org /\ folders'[k].parent = job[h].parent
          /\ folders'[k].path = job[h].path
      BY <1>4, <2>1
    <3>2. CASE job[h].parent = None
      BY <1>5, <3>1, <3>2 DEF Nests
    <3>3. CASE job[h].parent \in Live /\ job[h].parent # None
      <4>1. folders'[job[h].parent] = folders[job[h].parent] /\ job[h].parent \in Live'
        BY <1>4, <3>3
      <4>2. /\ folders[job[h].parent].org = job[h].org
            /\ \E s \in Slugs : job[h].path = Append(folders[job[h].parent].path, s)
        BY <1>5, <3>3 DEF Nests
      <4> QED
        BY <3>1, <3>3, <4>1, <4>2
    <3> QED
      BY <1>1, <3>2, <3>3 DEF References
  <2>2. CASE k \in Live
    <3>1. References(folders[k].parent) /\ Nests(folders[k].org, folders[k].parent, folders[k].path)
      BY <2>2 DEF TreeInv, FoldersNest
    <3> QED
      BY <1>4, <2>2, <3>1 DEF References, Nests
  <2> QED
    BY <1>4, <2>1, <2>2
<1>7. PathsUnique'
  <2>1. \A k \in Live : folders[k].org = row.org => folders[k].path # row.path
    BY DEF InsertFolder
  <2> QED
    BY <1>4, <2>1 DEF TreeInv, PathsUnique
<1>8. CreatesNest'
  <2> SUFFICES ASSUME NEW g \in Handlers, job'[g] \in Creating,
                      job'[g].parent = None \/ job'[g].parent \in Live'
               PROVE  IF job'[g].parent = None THEN Len(job'[g].path) = 1
                      ELSE /\ folders'[job'[g].parent].org = job'[g].org
                           /\ \E s \in Slugs : job'[g].path
                                = Append(folders'[job'[g].parent].path, s)
    BY DEF CreatesNest, References, Nests
  <2>1. g # h
    BY <1>1, IdleIsNoWrite DEF InsertFolder, Goto, TypeOK
  <2>2. job'[g] = job[g]
    BY <1>1, <2>1 DEF InsertFolder, Goto, TypeOK
  <2>3. job[g].parent # i
    BY <1>2, <2>2 DEF Fresh
  <2>4. References(job[g].parent)
    BY <1>4, <2>2, <2>3 DEF References
  <2>5. Nests(job[g].org, job[g].parent, job[g].path)
    BY <2>2, <2>4 DEF TreeInv, CreatesNest
  <2> QED
    BY <1>4, <2>2, <2>4, <2>5 DEF References, Nests
<1> QED
  BY <1>6, <1>7, <1>8

LEMMA DropStep ==
  ASSUME TreeInv, NEW h \in Handlers, DropFolder(h)
  PROVE  FoldersNest' /\ PathsUnique' /\ CreatesNest'
<1>1. TypeOK
  BY DEF TreeInv
<1>2. /\ Live' \subseteq Live
      /\ \A i \in Live' : folders'[i] = folders[i]
      /\ \A i \in Live' : folders[i].parent \in Live => folders[i].parent \in Live'
  BY <1>1, DropEffect
<1>3. FoldersNest'
  <2> SUFFICES ASSUME NEW k \in Live'
               PROVE  /\ folders'[k].parent = None \/ folders'[k].parent \in Live'
                      /\ IF folders'[k].parent = None THEN Len(folders'[k].path) = 1
                         ELSE /\ folders'[folders'[k].parent].org = folders'[k].org
                              /\ \E s \in Slugs : folders'[k].path
                                   = Append(folders'[folders'[k].parent].path, s)
    BY DEF FoldersNest, References, Nests
  <2>1. /\ References(folders[k].parent)
        /\ Nests(folders[k].org, folders[k].parent, folders[k].path)
    BY <1>2 DEF TreeInv, FoldersNest
  <2> QED
    BY <1>2, <2>1 DEF References, Nests
<1>4. PathsUnique'
  BY <1>2 DEF TreeInv, PathsUnique
<1>5. CreatesNest'
  <2> SUFFICES ASSUME NEW g \in Handlers, job'[g] \in Creating,
                      job'[g].parent = None \/ job'[g].parent \in Live'
               PROVE  IF job'[g].parent = None THEN Len(job'[g].path) = 1
                      ELSE /\ folders'[job'[g].parent].org = job'[g].org
                           /\ \E s \in Slugs : job'[g].path
                                = Append(folders'[job'[g].parent].path, s)
    BY DEF CreatesNest, References, Nests
  <2>1. g # h
    BY <1>1, IdleIsNoWrite DEF DropFolder, Goto, TypeOK
  <2>2. job'[g] = job[g]
    BY <1>1, <2>1 DEF DropFolder, Goto, TypeOK
  <2>3. References(job[g].parent)
    BY <1>2, <2>2 DEF References
  <2>4. Nests(job[g].org, job[g].parent, job[g].path)
    BY <2>2, <2>3 DEF TreeInv, CreatesNest
  <2>5. CASE job[g].parent = None
    BY <2>2, <2>4, <2>5 DEF Nests
  <2>6. CASE job[g].parent # None
    <3>1. /\ folders'[job[g].parent].org = folders[job[g].parent].org
          /\ folders'[job[g].parent].path = folders[job[g].parent].path
      BY <1>2, <2>2, <2>6
    <3>2. /\ folders[job[g].parent].org = job[g].org
          /\ \E s \in Slugs : job[g].path = Append(folders[job[g].parent].path, s)
      BY <2>4, <2>6 DEF Nests
    <3> QED
      BY <2>2, <2>6, <3>1, <3>2
  <2> QED
    BY <2>5, <2>6
<1> QED
  BY <1>3, <1>4, <1>5

\* Every other step: the folder table stays, and no creation begins.
OtherStep ==
  \E h \in Handlers :
    \/ \E o \in Orgs, i \in FolderIds : BeginRename(h, o, i) \/ BeginDrop(h, o, i)
    \/ \E o \in Orgs, a \in Assets : BeginEdit(h, o, a) \/ BeginRemove(h, o, a)
    \/ \E o \in Orgs, a \in Assets, i \in FolderIds \cup {None} : BeginMove(h, o, a, i)
    \/ WriteFolder(h) \/ WriteAsset(h) \/ SoftDelete(h) \/ Publish(h) \/ Abandon(h)

LEMMA OtherStepCreatesNothing ==
  ASSUME TypeOK, OtherStep
  PROVE  /\ UNCHANGED folders
         /\ \A g \in Handlers : job'[g] \in Creating => job'[g] = job[g]
<1>1. PICK h \in Handlers :
        \/ \E o \in Orgs, i \in FolderIds : BeginRename(h, o, i) \/ BeginDrop(h, o, i)
        \/ \E o \in Orgs, a \in Assets : BeginEdit(h, o, a) \/ BeginRemove(h, o, a)
        \/ \E o \in Orgs, a \in Assets, i \in FolderIds \cup {None} : BeginMove(h, o, a, i)
        \/ WriteFolder(h) \/ WriteAsset(h) \/ SoftDelete(h) \/ Publish(h) \/ Abandon(h)
  BY DEF OtherStep
<1>2. UNCHANGED folders
  BY <1>1 DEF BeginRename, BeginDrop, BeginEdit, BeginMove, BeginRemove,
              WriteFolder, WriteAsset, SoftDelete, Publish, Abandon
<1>3. ASSUME NEW j, Goto(h, j), j \notin Creating
      PROVE  \A g \in Handlers : job'[g] \in Creating => job'[g] = job[g]
  BY <1>3 DEF Goto, TypeOK
<1>4. \A j : j.op # "create" => j \notin Creating
  BY DEF Creating
<1>5. ASSUME NEW i \in FolderIds, Goto(h, [op |-> "rename", id |-> i])
      PROVE  \A g \in Handlers : job'[g] \in Creating => job'[g] = job[g]
  BY <1>3, <1>4, <1>5
<1>6. ASSUME NEW i \in FolderIds, Goto(h, [op |-> "drop", id |-> i])
      PROVE  \A g \in Handlers : job'[g] \in Creating => job'[g] = job[g]
  BY <1>3, <1>4, <1>6
<1>7. ASSUME NEW op \in {"edit", "move"}, NEW a, NEW i,
             Goto(h, [op |-> op, asset |-> a, folder |-> i])
      PROVE  \A g \in Handlers : job'[g] \in Creating => job'[g] = job[g]
  BY <1>3, <1>4, <1>7
<1>8. ASSUME NEW op \in {"remove", "updated", "deleted"}, NEW a, Goto(h, [op |-> op, asset |-> a])
      PROVE  \A g \in Handlers : job'[g] \in Creating => job'[g] = job[g]
  BY <1>3, <1>4, <1>8
<1>9. ASSUME Goto(h, Idle)
      PROVE  \A g \in Handlers : job'[g] \in Creating => job'[g] = job[g]
  BY <1>3, <1>9, IdleIsNoWrite
<1> QED
  BY <1>1, <1>2, <1>5, <1>6, <1>7, <1>8, <1>9
  DEF BeginRename, BeginDrop, BeginEdit, BeginMove, BeginRemove,
      WriteFolder, WriteAsset, SoftDelete, Publish, Abandon

LEMMA TreeStep == TreeInv /\ [Next]_vars => TreeInv'
<1> SUFFICES ASSUME TreeInv, [Next]_vars PROVE TreeInv'
  OBVIOUS
<1>1. TypeOK /\ TypeOK'
  BY TypeStep DEF TreeInv
<1>2. ASSUME NEW h \in Handlers, NEW o \in Orgs, NEW s \in Slugs, BeginCreate(h, o, s)
      PROVE  TreeInv'
  BY <1>1, <1>2, CreateStep DEF TreeInv
<1>3. ASSUME NEW h \in Handlers, InsertFolder(h) PROVE TreeInv'
  BY <1>1, <1>3, InsertStep DEF TreeInv
<1>4. ASSUME NEW h \in Handlers, DropFolder(h) PROVE TreeInv'
  BY <1>1, <1>4, DropStep DEF TreeInv
<1>5. CASE OtherStep
  BY <1>1, <1>5, OtherStepCreatesNothing, TreeKept DEF TreeInv
<1>6. CASE UNCHANGED vars
  BY <1>1, <1>6, TreeKept DEF TreeInv, vars
<1> QED
  BY <1>2, <1>3, <1>4, <1>5, <1>6 DEF Next, OtherStep

(***************************************************************************)
(* The folder table is a forest: parents exist and are of the folder's     *)
(* organization, paths extend the parent's and are unique.                 *)
(***************************************************************************)
THEOREM LibraryTree == Spec => []TreeInv
<1>1. Init => TreeInv
  <2> SUFFICES ASSUME Init PROVE TreeInv
    OBVIOUS
  <2>1. Live = {}
    BY DEF Init, Live
  <2>2. \A h \in Handlers : job[h] \notin Creating
    BY IdleIsNoWrite DEF Init
  <2> QED
    BY <2>1, <2>2, TypeInit DEF TreeInv, FoldersNest, PathsUnique, CreatesNest
<1> QED
  BY <1>1, TreeStep, PTL DEF Spec

-----------------------------------------------------------------------------
LEMMA FiledStep == TypeOK /\ FiledInFolders /\ [Next]_vars => FiledInFolders'
<1> SUFFICES ASSUME TypeOK, FiledInFolders, [Next]_vars, NEW a \in Assets
             PROVE  assets'[a].folder = None \/ assets'[a].folder \in Live'
  BY DEF FiledInFolders, References
<1>1. assets[a] \in AssetRow /\ (assets[a].folder = None \/ assets[a].folder \in Live)
  BY DEF TypeOK, FiledInFolders, References
<1>2. ASSUME NEW h \in Handlers, InsertFolder(h) PROVE assets'[a].folder = None \/ assets'[a].folder \in Live'
  <2>1. \A i \in Live : i \in Live'
    <3>1. [org |-> job[h].org, parent |-> job[h].parent, path |-> job[h].path] # None
      BY <1>2, JobFields, LibraryAssumption DEF InsertFolder, TypeOK, FolderRow
    <3> QED
      BY <1>2, <3>1 DEF InsertFolder, Live, TypeOK
  <2> QED
    BY <1>1, <1>2, <2>1 DEF InsertFolder
<1>3. ASSUME NEW h \in Handlers, DropFolder(h) PROVE assets'[a].folder = None \/ assets'[a].folder \in Live'
  BY <1>1, <1>3, DropEffect
<1>4. ASSUME NEW h \in Handlers, WriteAsset(h) PROVE assets'[a].folder = None \/ assets'[a].folder \in Live'
  <2>1. Live' = Live
    BY <1>4 DEF WriteAsset, Live
  <2>2. CASE a = job[h].asset
    BY <1>1, <1>4, <2>1, <2>2 DEF WriteAsset, TypeOK, References, AssetRow
  <2>3. CASE a # job[h].asset
    BY <1>1, <1>4, <2>1, <2>3 DEF WriteAsset, TypeOK
  <2> QED
    BY <2>2, <2>3
<1>5. ASSUME NEW h \in Handlers, SoftDelete(h) PROVE assets'[a].folder = None \/ assets'[a].folder \in Live'
  <2>1. Live' = Live
    BY <1>5 DEF SoftDelete, Live
  <2>2. assets'[a].folder = assets[a].folder
    BY <1>1, <1>5 DEF SoftDelete, TypeOK, AssetRow
  <2> QED
    BY <1>1, <2>1, <2>2
<1>6. CASE UNCHANGED <<folders, assets>>
  BY <1>1, <1>6 DEF Live
<1> QED
  BY <1>2, <1>3, <1>4, <1>5, <1>6 DEF Next, vars, BeginCreate, BeginRename, WriteFolder,
     BeginDrop, BeginEdit, BeginMove, BeginRemove, Publish, Abandon

(***************************************************************************)
(* No asset is ever left in a folder that is gone.                         *)
(***************************************************************************)
THEOREM LibraryFiled == Spec => []FiledInFolders
<1>1. Init => FiledInFolders
  BY DEF Init, FiledInFolders, References
<1> QED
  BY <1>1, FiledStep, TypeInit, TypeStep, PTL DEF Spec

-----------------------------------------------------------------------------
\* A request about to announce a deletion has made it.
AnnouncedIsDone ==
  \A h \in Handlers :
    job[h] \in Removing /\ job[h].op = "deleted" => assets[job[h].asset].deleted

\* No step brings an asset back.
LEMMA DeletedStays ==
  TypeOK /\ [Next]_vars => \A a \in Assets : assets[a].deleted => assets'[a].deleted
<1> SUFFICES ASSUME TypeOK, [Next]_vars, NEW a \in Assets, assets[a].deleted
             PROVE  assets'[a].deleted
  OBVIOUS
<1>1. assets[a] \in AssetRow
  BY DEF TypeOK
<1>2. ASSUME NEW h \in Handlers, DropFolder(h) PROVE assets'[a].deleted
  BY <1>2, DropEffect
<1>3. ASSUME NEW h \in Handlers, WriteAsset(h) \/ SoftDelete(h) PROVE assets'[a].deleted
  BY <1>1, <1>3 DEF WriteAsset, SoftDelete, TypeOK, AssetRow
<1>4. CASE UNCHANGED assets
  BY <1>4
<1> QED
  BY <1>2, <1>3, <1>4 DEF Next, vars, BeginCreate, InsertFolder, BeginRename, WriteFolder,
     BeginDrop, BeginEdit, BeginMove, BeginRemove, Publish, Abandon

(***************************************************************************)
(* No request, however old what it read, undoes the deletion of an asset.  *)
(***************************************************************************)
THEOREM LibraryDeletionFinal == Spec => DeletionIsFinal
<1>1. TypeOK /\ [Next]_vars => [\A a \in Assets : assets[a].deleted => assets'[a].deleted]_vars
  BY DeletedStays
<1> QED
  BY <1>1, TypeInit, TypeStep, PTL DEF Spec, DeletionIsFinal

LEMMA AnnounceStep ==
  TypeOK /\ AnnouncedIsDone /\ DeletedEventsAreTrue /\ [Next]_vars
    => AnnouncedIsDone' /\ DeletedEventsAreTrue'
<1> SUFFICES ASSUME TypeOK, AnnouncedIsDone, DeletedEventsAreTrue, [Next]_vars
             PROVE  AnnouncedIsDone' /\ DeletedEventsAreTrue'
  OBVIOUS
<1>1. \A a \in Assets : assets[a].deleted => assets'[a].deleted
  BY DeletedStays
<1>2. TypeOK'
  BY TypeStep
<1>3. ASSUME NEW g \in Handlers, job'[g] \in Removing, job'[g].op = "deleted"
      PROVE  assets'[job'[g].asset].deleted
  <2>1. CASE job'[g] = job[g]
    <3>1. job[g].asset \in Assets
      BY <1>3, <2>1, JobFields DEF TypeOK
    <3> QED
      BY <1>1, <1>3, <2>1, <3>1 DEF AnnouncedIsDone
  <2>2. CASE SoftDelete(g)
    <3>1. job[g].asset \in Assets /\ assets[job[g].asset] \in AssetRow
      BY <2>2, JobFields DEF SoftDelete, TypeOK
    <3>2. job'[g].asset = job[g].asset
      BY <2>2 DEF SoftDelete, Goto, TypeOK
    <3> QED
      BY <2>2, <3>1, <3>2 DEF SoftDelete, TypeOK, AssetRow
  <2>3. ASSUME NEW h \in Handlers, NEW j, Goto(h, j), j.op # "deleted" \/ j \notin Removing
        PROVE  job'[g] = job[g]
    BY <1>3, <2>3 DEF Goto, TypeOK
  <2>4. ASSUME NEW h \in Handlers, SoftDelete(h) PROVE job'[g] = job[g] \/ SoftDelete(g)
    BY <2>4 DEF SoftDelete, Goto, TypeOK
  <2>5. ASSUME NEW h \in Handlers, NEW o \in Orgs, NEW s \in Slugs, BeginCreate(h, o, s)
        PROVE  job'[g] = job[g]
    BY <2>3, <2>5 DEF BeginCreate
  <2>6. ASSUME NEW h \in Handlers, Goto(h, Idle) PROVE job'[g] = job[g]
    BY <2>3, <2>6, IdleIsNoWrite
  <2>7. ASSUME NEW h \in Handlers, NEW o \in Orgs, NEW i \in FolderIds,
               BeginRename(h, o, i) \/ BeginDrop(h, o, i)
        PROVE  job'[g] = job[g]
    BY <2>3, <2>7 DEF BeginRename, BeginDrop
  <2>8. ASSUME NEW h \in Handlers, NEW o \in Orgs, NEW a \in Assets,
               \/ BeginEdit(h, o, a) \/ BeginRemove(h, o, a)
               \/ \E i \in FolderIds \cup {None} : BeginMove(h, o, a, i)
        PROVE  job'[g] = job[g]
    BY <2>3, <2>8 DEF BeginEdit, BeginMove, BeginRemove
  <2>9. ASSUME NEW h \in Handlers, WriteAsset(h) PROVE job'[g] = job[g]
    BY <2>3, <2>6, <2>9 DEF WriteAsset
  <2>10. ASSUME UNCHANGED vars PROVE job'[g] = job[g]
    BY <2>10 DEF vars
  <2> QED
    BY <2>1, <2>2, <2>4, <2>5, <2>6, <2>7, <2>8, <2>9, <2>10
    DEF Next, InsertFolder, WriteFolder, DropFolder, Publish, Abandon
<1>4. ASSUME NEW a \in Assets, <<"deleted", a>> \in events' PROVE assets'[a].deleted
  <2>1. CASE <<"deleted", a>> \in events
    BY <1>1, <2>1 DEF DeletedEventsAreTrue
  <2>2. CASE \E h \in Handlers : Publish(h) /\ job[h].op = "deleted" /\ job[h].asset = a
    <3>1. assets[a].deleted
      BY <2>2 DEF Publish, AnnouncedIsDone
    <3> QED
      BY <1>1, <3>1
  <2>3. CASE UNCHANGED events
    BY <1>4, <2>1, <2>3
  <2>4. ASSUME NEW h \in Handlers, Publish(h) PROVE assets'[a].deleted
    BY <1>4, <2>1, <2>2, <2>4 DEF Publish
  <2> QED
    BY <2>3, <2>4 DEF Next, vars, BeginCreate, InsertFolder, BeginRename, WriteFolder,
       BeginDrop, DropFolder, BeginEdit, BeginMove, BeginRemove, WriteAsset, SoftDelete, Abandon
<1> QED
  BY <1>3, <1>4 DEF AnnouncedIsDone, DeletedEventsAreTrue

(***************************************************************************)
(* Subscribers that hear asset.deleted find the asset deleted.             *)
(***************************************************************************)
THEOREM LibraryDeletedEvents == Spec => []DeletedEventsAreTrue
<1>1. Init => AnnouncedIsDone /\ DeletedEventsAreTrue
  BY IdleIsNoWrite DEF Init, AnnouncedIsDone, DeletedEventsAreTrue
<1> QED
  BY <1>1, AnnounceStep, TypeInit, TypeStep, PTL DEF Spec

-----------------------------------------------------------------------------
(***************************************************************************)
(* The tree endpoint.  buildFolderTree is a function that calls itself; it *)
(* is a tree when it satisfies its own equation, which some function does  *)
(* whatever the table holds.  That it shows every folder of the            *)
(* organization, and no other, needs the table to be finite and nested.    *)
(***************************************************************************)
Children(o, q) == {i \in Live : folders[i].org = o /\ folders[i].parent = q}

Nodes == FolderIds \cup {None}

IsTree(b, o) ==
  b = [q \in Nodes |-> Children(o, q) \cup UNION {b[i] : i \in Children(o, q)}]

TreeOf(o) == CHOOSE b : IsTree(b, o)

LEMMA TreeIsBuilt ==
  ASSUME NEW o
  PROVE  buildFolderTree(o, None) = TreeOf(o)[None]
BY DEF buildFolderTree, TreeOf, IsTree, Children, Nodes

\* The sets of ids that hold the children of q and of their own members.
ClosedBelow(o, q) ==
  {S \in SUBSET FolderIds : Children(o, q) \subseteq S /\ \A j \in S : Children(o, j) \subseteq S}

LEMMA TreeExists ==
  ASSUME NEW o
  PROVE  IsTree(TreeOf(o), o)
<1> DEFINE B(q) == {i \in FolderIds : \A S \in ClosedBelow(o, q) : i \in S}
           C(q) == Children(o, q) \cup UNION {B(i) : i \in Children(o, q)}
<1>1. \A q : Children(o, q) \subseteq FolderIds
  BY DEF Children, Live
<1>2. ASSUME NEW q PROVE Children(o, q) \subseteq B(q)
  BY <1>1 DEF ClosedBelow
<1>3. ASSUME NEW q, NEW j \in B(q) PROVE Children(o, j) \subseteq B(q)
  BY <1>1 DEF ClosedBelow
<1>4. ASSUME NEW q, NEW i \in Children(o, q) PROVE B(i) \subseteq B(q)
  BY <1>4 DEF ClosedBelow
<1>5. ASSUME NEW q PROVE C(q) \subseteq B(q)
  BY <1>2, <1>4
<1>6. ASSUME NEW q PROVE B(q) \subseteq C(q)
  <2>1. C(q) \subseteq FolderIds
    BY <1>1
  <2>2. ASSUME NEW j \in C(q) PROVE Children(o, j) \subseteq C(q)
    <3>1. CASE j \in Children(o, q)
      BY <1>2, <3>1
    <3>2. CASE \E i \in Children(o, q) : j \in B(i)
      <4>1. PICK i \in Children(o, q) : j \in B(i)
        BY <3>2
      <4>2. Children(o, j) \subseteq B(i)
        BY <1>3, <4>1
      <4> QED
        BY <4>2
    <3> QED
      BY <3>1, <3>2
  <2>3. C(q) \in ClosedBelow(o, q)
    BY <2>1, <2>2 DEF ClosedBelow
  <2> QED
    BY <2>3
<1> DEFINE b == [q \in Nodes |-> B(q)]
<1>7. \A q \in Nodes : B(q) = Children(o, q) \cup UNION {b[i] : i \in Children(o, q)}
  <2> SUFFICES ASSUME NEW q \in Nodes
               PROVE  B(q) = Children(o, q) \cup UNION {b[i] : i \in Children(o, q)}
    OBVIOUS
  <2>1. \A i \in Children(o, q) : b[i] = B(i)
    BY <1>1 DEF Nodes
  <2>2. B(q) = C(q)
    BY <1>5, <1>6
  <2> HIDE DEF B, b
  <2> QED
    BY <2>1, <2>2
<1>8. IsTree(b, o)
  <2>1. b = [q \in Nodes |-> Children(o, q) \cup UNION {b[i] : i \in Children(o, q)}]
    <3> HIDE DEF B
    <3> QED
      BY <1>7
  <2> HIDE DEF b
  <2> QED
    BY <2>1 DEF IsTree
<1> HIDE DEF b
<1> QED
  BY <1>8 DEF TreeOf

\* What fails of some set of the finite S fails of one whose subsets it holds of.
LEMMA Smallest ==
  ASSUME NEW S, IsFiniteSet(S), NEW T, T \subseteq SUBSET S, T # {}
  PROVE  \E s \in T : \A t \in T : t \subseteq s => t = s
<1>1. IsWellFoundedOn(StrictSubsetOrdering(S), SUBSET S)
  BY FS_StrictSubsetOrderingWellFounded, FS_FiniteSubsetsOfFinite
<1>2. PICK s \in T : \A t \in T : <<t, s>> \notin StrictSubsetOrdering(S)
  BY <1>1, WFMin
<1> QED
  BY <1>2 DEF StrictSubsetOrdering

\* A child's path is longer than its parent's ...
Depth(i) == Len(folders[i].path)

LEMMA ChildrenAreDeeper ==
  ASSUME TypeOK, FoldersNest, NEW i \in Live, NEW p \in Live, folders[i].parent = p
  PROVE  Depth(i) = Depth(p) + 1 /\ folders[i].org = folders[p].org
<1>1. p # None
  BY LibraryAssumption DEF LibraryAssumption, Live
<1>2. /\ folders[p].org = folders[i].org
      /\ \E s \in Slugs : folders[i].path = Append(folders[p].path, s)
  BY <1>1 DEF FoldersNest, Nests
<1>3. folders[p].path \in Path
  BY FolderFields
<1> QED
  BY <1>2, <1>3 DEF Depth, Path

\* ... so nothing holds of a folder only because it holds of one below it ...
LEMMA NoEndlessDescent ==
  ASSUME TypeOK, FoldersNest, IsFiniteSet(Live), NEW Bad, Bad \subseteq Live,
         \A i \in Bad : \E j \in Bad : folders[j].parent = i
  PROVE  Bad = {}
<1> SUFFICES ASSUME Bad # {} PROVE FALSE
  OBVIOUS
<1> DEFINE From(i) == {j \in Bad : Depth(j) >= Depth(i)}
           T == {From(i) : i \in Bad}
<1>1. \A i \in Bad : Depth(i) \in Nat
  BY FolderFields DEF Depth, Path
<1>2. IsFiniteSet(Bad) /\ T # {} /\ T \subseteq SUBSET Bad
  <2>1. IsFiniteSet(Bad)
    BY FS_Subset
  <2>2. T # {}
    <3>1. PICK i \in Bad : TRUE
      OBVIOUS
    <3>2. From(i) \in T
      OBVIOUS
    <3> HIDE DEF T
    <3> QED
      BY <3>2
  <2>3. T \subseteq SUBSET Bad
    OBVIOUS
  <2> QED
    BY <2>1, <2>2, <2>3
<1>3. \E s \in T : \A t \in T : t \subseteq s => t = s
  <2> HIDE DEF T
  <2> QED
    BY <1>2, Smallest
<1>4. PICK i \in Bad : \A j \in Bad : From(j) \subseteq From(i) => From(j) = From(i)
  <2>1. PICK s \in T : \A t \in T : t \subseteq s => t = s
    BY <1>3
  <2>2. PICK k \in Bad : s = From(k)
    BY <2>1
  <2>3. \A j \in Bad : From(j) \in T
    OBVIOUS
  <2>4. \A j \in Bad : From(j) \subseteq From(k) => From(j) = From(k)
    <3> HIDE DEF T, From
    <3> QED
      BY <2>1, <2>2, <2>3
  <2> QED
    BY <2>4
<1>5. PICK j \in Bad : folders[j].parent = i
  OBVIOUS
<1>6. Depth(j) = Depth(i) + 1
  BY <1>5, ChildrenAreDeeper
<1>7. From(j) \subseteq From(i) /\ i \notin From(j) /\ i \in From(i)
  BY <1>1, <1>6
<1> QED
  BY <1>4, <1>7

\* ... or above it.
LEMMA NoEndlessAscent ==
  ASSUME TypeOK, FoldersNest, IsFiniteSet(Live), NEW Bad, Bad \subseteq Live,
         \A i \in Bad : folders[i].parent \in Bad
  PROVE  Bad = {}
<1> SUFFICES ASSUME Bad # {} PROVE FALSE
  OBVIOUS
<1> DEFINE UpTo(i) == {j \in Bad : Depth(j) <= Depth(i)}
           T == {UpTo(i) : i \in Bad}
<1>1. \A i \in Bad : Depth(i) \in Nat
  BY FolderFields DEF Depth, Path
<1>2. IsFiniteSet(Bad) /\ T # {} /\ T \subseteq SUBSET Bad
  <2>1. IsFiniteSet(Bad)
    BY FS_Subset
  <2>2. T # {}
    <3>1. PICK i \in Bad : TRUE
      OBVIOUS
    <3>2. UpTo(i) \in T
      OBVIOUS
    <3> HIDE DEF T
    <3> QED
      BY <3>2
  <2>3. T \subseteq SUBSET Bad
    OBVIOUS
  <2> QED
    BY <2>1, <2>2, <2>3
<1>3. \E s \in T : \A t \in T : t \subseteq s => t = s
  <2> HIDE DEF T
  <2> QED
    BY <1>2, Smallest
<1>4. PICK i \in Bad : \A j \in Bad : UpTo(j) \subseteq UpTo(i) => UpTo(j) = UpTo(i)
  <2>1. PICK s \in T : \A t \in T : t \subseteq s => t = s
    BY <1>3
  <2>2. PICK k \in Bad : s = UpTo(k)
    BY <2>1
  <2>3. \A j \in Bad : UpTo(j) \in T
    OBVIOUS
  <2>4. \A j \in Bad : UpTo(j) \subseteq UpTo(k) => UpTo(j) = UpTo(k)
    <3> HIDE DEF T, UpTo
    <3> QED
      BY <2>1, <2>2, <2>3
  <2> QED
    BY <2>4
<1> DEFINE p == folders[i].parent
<1>5. p \in Bad /\ Depth(i) = Depth(p) + 1
  BY ChildrenAreDeeper
<1>6. UpTo(p) \subseteq UpTo(i) /\ i \notin UpTo(p) /\ i \in UpTo(i)
  BY <1>1, <1>5
<1> QED
  BY <1>4, <1>5, <1>6

LEMMA TreeHoldsOrganization ==
  ASSUME TypeOK, FoldersNest, IsFiniteSet(Live), NEW o
  PROVE  TreeOf(o)[None] = {i \in Live : folders[i].org = o}
<1> DEFINE b == TreeOf(o)
           rows == {i \in Live : folders[i].org = o}
<1>1. ASSUME NEW q \in Nodes
      PROVE  b[q] = Children(o, q) \cup UNION {b[i] : i \in Children(o, q)}
  <2>1. IsTree(b, o)
    BY TreeExists
  <2> HIDE DEF b
  <2> QED
    BY <2>1 DEF IsTree
<1>2. \A q : Children(o, q) \subseteq rows /\ Children(o, q) \subseteq Nodes /\ rows \subseteq Live
  BY DEF Children, Live, Nodes
<1>3. \A q \in Live : q \in Nodes
  BY DEF Live, Nodes
<1> HIDE DEF b, rows
\* What a node shows are folders of the organization ...
<1>4. {q \in Live : ~(b[q] \subseteq rows)} = {}
  <2> DEFINE Bad == {q \in Live : ~(b[q] \subseteq rows)}
  <2>1. ASSUME NEW q \in Bad PROVE \E j \in Bad : folders[j].parent = q
    <3>1. PICK i \in Children(o, q) : ~(b[i] \subseteq rows)
      BY <1>1, <1>2, <1>3
    <3> QED
      BY <3>1 DEF Children
  <2>2. Bad \subseteq Live
    OBVIOUS
  <2> HIDE DEF Bad
  <2>3. Bad = {}
    BY <2>1, <2>2, NoEndlessDescent
  <2> QED
    BY <2>3 DEF Bad
<1>5. b[None] \subseteq rows
  <2>1. None \in Nodes
    BY DEF Nodes
  <2>2. \A i \in Children(o, None) : b[i] \subseteq rows
    BY <1>2, <1>4
  <2> QED
    BY <1>1, <1>2, <2>1, <2>2
\* ... with the children of all it shows ...
<1> DEFINE Whole(q) == \A i \in b[q] : Children(o, i) \subseteq b[q]
<1>6. ASSUME NEW q \in Nodes, \A i \in Children(o, q) : Whole(i) PROVE Whole(q)
  <2> SUFFICES ASSUME NEW j \in b[q] PROVE Children(o, j) \subseteq b[q]
    OBVIOUS
  <2>1. CASE j \in Children(o, q)
    <3>1. Children(o, j) \subseteq b[j]
      BY <1>1, <1>2, <2>1
    <3> QED
      BY <1>1, <2>1, <3>1
  <2>2. CASE \E i \in Children(o, q) : j \in b[i]
    <3>1. PICK i \in Children(o, q) : j \in b[i]
      BY <2>2
    <3>2. Children(o, j) \subseteq b[i]
      BY <1>6, <3>1
    <3> QED
      BY <1>1, <3>1, <3>2
  <2> QED
    BY <1>1, <2>1, <2>2
<1>7. {q \in Live : ~Whole(q)} = {}
  <2> DEFINE Bad == {q \in Live : ~Whole(q)}
  <2>1. ASSUME NEW q \in Bad PROVE \E j \in Bad : folders[j].parent = q
    <3> HIDE DEF Whole
    <3>1. PICK i \in Children(o, q) : ~Whole(i)
      BY <1>3, <1>6
    <3> QED
      BY <3>1 DEF Children
  <2>2. Bad \subseteq Live
    OBVIOUS
  <2> HIDE DEF Bad
  <2>3. Bad = {}
    BY <2>1, <2>2, NoEndlessDescent
  <2> QED
    BY <2>3 DEF Bad
<1>8. Whole(None) /\ Children(o, None) \subseteq b[None]
  <2>1. None \in Nodes
    BY DEF Nodes
  <2>2. \A i \in Children(o, None) : Whole(i)
    <3> HIDE DEF Whole
    <3> QED
      BY <1>2, <1>7
  <2>3. Whole(None)
    <3> HIDE DEF Whole
    <3> QED
      BY <1>6, <2>1, <2>2
  <2> QED
    BY <1>1, <2>1, <2>3
\* ... and from the top all of them are reached.
<1>9. {i \in rows : i \notin b[None]} = {}
  <2> DEFINE Bad == {i \in rows : i \notin b[None]}
  <2>1. ASSUME NEW i \in Bad PROVE folders[i].parent \in Bad
    <3>1. i \in Live /\ folders[i].org = o
      BY DEF rows
    <3>2. folders[i].parent # None
      <4>1. folders[i].parent = None => i \in Children(o, None)
        BY <3>1 DEF Children
      <4> QED
        BY <1>8, <4>1
    <3>3. folders[i].parent \in Live
      BY <3>1, <3>2 DEF FoldersNest, References
    <3>4. folders[folders[i].parent].org = o
      BY <3>1, <3>3, ChildrenAreDeeper
    <3>5. i \in Children(o, folders[i].parent)
      BY <3>1 DEF Children
    <3>6. folders[i].parent \notin b[None]
      BY <1>8, <3>5
    <3> QED
      BY <3>3, <3>4, <3>6 DEF rows
  <2>2. Bad \subseteq Live
    BY <1>2
  <2> HIDE DEF Bad
  <2>3. Bad = {}
    BY <2>1, <2>2, NoEndlessAscent
  <2> QED
    BY <2>3 DEF Bad
<1>10. b[None] = rows
  BY <1>5, <1>9
<1> QED
  BY <1>10 DEF b, rows

\* The table stays finite: a statement inserts one row.
TableIsFinite == IsFiniteSet(Live)

LEMMA FiniteStep == TreeInv /\ TableIsFinite /\ [Next]_vars => TableIsFinite'
<1> SUFFICES ASSUME TreeInv, IsFiniteSet(Live), [Next]_vars PROVE IsFiniteSet(Live')
  BY DEF TableIsFinite
<1>1. TypeOK
  BY DEF TreeInv
<1>2. ASSUME NEW i, Live' \subseteq Live \cup {i} PROVE IsFiniteSet(Live')
  BY <1>2, FS_AddElement, FS_Subset
<1>3. ASSUME NEW h \in Handlers, InsertFolder(h) PROVE IsFiniteSet(Live')
  <2>1. PICK i \in FolderIds : \A k \in FolderIds : k # i => folders'[k] = folders[k]
    BY <1>1, <1>3 DEF InsertFolder, TypeOK
  <2>2. Live' \subseteq Live \cup {i}
    BY <2>1 DEF Live
  <2> QED
    BY <1>2, <2>2
<1>4. ASSUME NEW h \in Handlers, DropFolder(h) PROVE IsFiniteSet(Live')
  BY <1>1, <1>4, DropEffect, FS_Subset
<1>5. ASSUME UNCHANGED folders PROVE IsFiniteSet(Live')
  <2>1. Live' = Live
    BY <1>5 DEF Live
  <2> QED
    BY <2>1
<1>6. ASSUME OtherStep PROVE UNCHANGED folders
  BY <1>1, <1>6, OtherStepCreatesNothing
<1> QED
  BY <1>3, <1>4, <1>5, <1>6 DEF Next, OtherStep, BeginCreate, vars

(***************************************************************************)
(* The "full folder tree" shows every folder of the organization, at any   *)
(* depth, and no other's: no interleaving of creations and cascading       *)
(* deletions leaves a folder that no root leads to                         *)
(* (folder_tag_collection_service.go:90-111).                              *)
(***************************************************************************)
THEOREM LibraryTreeShowsAll == Spec => []TreeShowsAll
<1>1. Init => TableIsFinite
  <2>1. Init => Live = {}
    BY DEF Init, Live
  <2> QED
    BY <2>1, FS_EmptySet DEF TableIsFinite
<1>2. TreeInv /\ TableIsFinite => TreeShowsAll
  BY TreeIsBuilt, TreeHoldsOrganization DEF TreeInv, TableIsFinite, TreeShowsAll
<1> QED
  BY <1>1, <1>2, FiniteStep, LibraryTree, PTL DEF Spec

-----------------------------------------------------------------------------
(***************************************************************************)
(* The rows of a page.                                                     *)
(***************************************************************************)
LEMMA IdsAreFinite ==
  ASSUME NEW S \in SUBSET Ids
  PROVE  IsFiniteSet(S) /\ Cardinality(S) \in Nat
<1>1. IsFiniteSet(Ids)
  BY ListingAssumption, FS_Interval DEF Ids
<1> QED
  BY <1>1, FS_Subset, FS_CardinalityType

\* What SetToSeqs lists is the set, each member once.
LEMMA SeqsOfSet ==
  ASSUME NEW S \in SUBSET Ids, NEW s \in SetToSeqs(S)
  PROVE  /\ s \in Seq(Ids) /\ s \in Seq(S)
         /\ Len(s) = Cardinality(S)
         /\ \A a \in S : \E i \in 1 .. Len(s) : s[i] = a
         /\ \A i, j \in 1 .. Len(s) : s[i] = s[j] => i = j
<1> DEFINE n == Cardinality(S)
<1>1. n \in Nat /\ IsFiniteSet(S)
  BY IdsAreFinite
<1>2. s \in [1 .. n -> S] /\ \A i, j \in 1 .. n : i # j => s[i] # s[j]
  BY DEF SetToSeqs
<1> HIDE DEF n
<1>3. s \in Injection(1 .. n, S)
  BY <1>2 DEF Injection, IsInjective
<1>4. IsFiniteSet(1 .. n) /\ Cardinality(1 .. n) = n
  BY <1>1, FS_Interval
<1>5. s \in Surjection(1 .. n, S)
  BY <1>1, <1>3, <1>4, FS_Injection DEF n
<1>6. s \in Seq(S) /\ Len(s) = n /\ s \in Seq(Ids)
  BY <1>1, <1>2
<1> QED
  BY <1>2, <1>5, <1>6 DEF Surjection, n

\* The first rows of a query's answer.
LEMMA FirstRows ==
  ASSUME NEW s \in Seq(Ids), NEW n \in Nat
  PROVE  /\ First(s, n) \in Seq(Ids)
         /\ Len(First(s, n)) = IF Len(s) < n THEN Len(s) ELSE n
         /\ \A i \in 1 .. Len(First(s, n)) : First(s, n)[i] = s[i]
<1> DEFINE k == IF Len(s) < n THEN Len(s) ELSE n
<1>1. k \in Nat /\ k <= Len(s)
  OBVIOUS
<1>2. \A i \in 1 .. k : s[i] \in Ids
  BY <1>1
<1>3. First(s, n) = SubSeq(s, 1, k)
  BY DEF First
<1> HIDE DEF k
<1>4. /\ SubSeq(s, 1, k) \in Seq(Ids)
      /\ Len(SubSeq(s, 1, k)) = IF 1 <= k THEN k - 1 + 1 ELSE 0
      /\ \A i \in 1 .. k - 1 + 1 : SubSeq(s, 1, k)[i] = s[1 + i - 1]
  BY <1>1, <1>2, SubSeqProperties
<1> QED
  BY <1>1, <1>3, <1>4 DEF k

\* The rows from an offset on.
LEMMA RestRows ==
  ASSUME NEW s \in Seq(Ids), NEW o \in Nat
  PROVE  LET rest == SubSeq(s, o + 1, Len(s))
         IN  /\ rest \in Seq(Ids)
             /\ Len(rest) = IF o < Len(s) THEN Len(s) - o ELSE 0
             /\ \A i \in 1 .. Len(rest) : rest[i] = s[o + i]
<1>1. \A i \in o + 1 .. Len(s) : s[i] \in Ids
  OBVIOUS
<1>2. /\ SubSeq(s, o + 1, Len(s)) \in Seq(Ids)
      /\ Len(SubSeq(s, o + 1, Len(s))) = IF o + 1 <= Len(s) THEN Len(s) - (o + 1) + 1 ELSE 0
      /\ \A i \in 1 .. Len(s) - (o + 1) + 1 : SubSeq(s, o + 1, Len(s))[i] = s[o + 1 + i - 1]
  BY <1>1, SubSeqProperties
<1> QED
  BY <1>2

\* A page of a collection: the rows after the offset, and few only at the end.
LEMMA CollectionRows ==
  ASSUME NEW s \in Seq(Ids), NEW o \in Nat, NEW n \in Nat
  PROVE  LET rows == First(SubSeq(s, o + 1, Len(s)), n)
         IN  /\ rows \in Seq(Ids)
             /\ \A a \in ToSet(rows) : \E i \in 1 .. Len(s) : o < i /\ i <= o + n /\ a = s[i]
             /\ \A i \in 1 .. Len(s) : o < i /\ i <= o + n => s[i] \in ToSet(rows)
             /\ Len(rows) < n => Len(s) < o + n
<1> DEFINE rest == SubSeq(s, o + 1, Len(s))
           rows == First(rest, n)
<1>1. /\ rest \in Seq(Ids)
      /\ Len(rest) = IF o < Len(s) THEN Len(s) - o ELSE 0
      /\ \A i \in 1 .. Len(rest) : rest[i] = s[o + i]
  BY RestRows
<1> HIDE DEF rest
<1>2. /\ rows \in Seq(Ids)
      /\ Len(rows) = IF Len(rest) < n THEN Len(rest) ELSE n
      /\ \A i \in 1 .. Len(rows) : rows[i] = rest[i]
  BY <1>1, FirstRows
<1> HIDE DEF rows
<1>3. ASSUME NEW a \in ToSet(rows)
      PROVE  \E i \in 1 .. Len(s) : o < i /\ i <= o + n /\ a = s[i]
  <2>1. PICK j \in 1 .. Len(rows) : a = rows[j]
    BY <1>2 DEF ToSet
  <2>2. o + j \in 1 .. Len(s) /\ o < o + j /\ o + j <= o + n /\ a = s[o + j]
    BY <1>1, <1>2, <2>1
  <2> QED
    BY <2>2
<1>4. ASSUME NEW i \in 1 .. Len(s), o < i, i <= o + n
      PROVE  s[i] \in ToSet(rows)
  <2>1. i - o \in 1 .. Len(rows) /\ rows[i - o] = s[i]
    BY <1>1, <1>2, <1>4
  <2> QED
    BY <1>2, <2>1 DEF ToSet
<1>5. Len(rows) < n => Len(s) < o + n
  BY <1>1, <1>2
<1> QED
  BY <1>2, <1>3, <1>4, <1>5 DEF rows, rest

\* A page by cursor: it holds what comes first, all of it if it is not full.
LEMMA SortedRows ==
  ASSUME NEW S \in SUBSET Ids, NEW s \in Sorted(S), NEW n \in Nat \ {0}
  PROVE  LET rows == First(s, n)
         IN  /\ rows \in Seq(Ids) /\ ToSet(rows) \subseteq S /\ Len(rows) <= n
             /\ Len(rows) < n => ToSet(rows) = S
             /\ Len(rows) = n =>
                  /\ Last(rows) \in S
                  /\ \A a \in ToSet(rows) : a = Last(rows) \/ Before(a, Last(rows))
                  /\ \A a \in S \ ToSet(rows) : Before(Last(rows), a)
<1> DEFINE rows == First(s, n)
<1>1. /\ s \in Seq(Ids) /\ s \in Seq(S)
      /\ \A a \in S : \E i \in 1 .. Len(s) : s[i] = a
      /\ \A i, j \in 1 .. Len(s) : i < j => Before(s[i], s[j])
  BY SeqsOfSet DEF Sorted
<1>2. /\ rows \in Seq(Ids)
      /\ Len(rows) = IF Len(s) < n THEN Len(s) ELSE n
      /\ \A i \in 1 .. Len(rows) : rows[i] = s[i]
  BY <1>1, FirstRows
<1> HIDE DEF rows
<1>3. ToSet(rows) \subseteq S
  <2>1. DOMAIN rows = 1 .. Len(rows) /\ Len(s) \in Nat
    BY <1>1, <1>2, LenProperties
  <2>2. \A i \in 1 .. Len(s) : s[i] \in S
    BY <1>1, ElementOfSeq
  <2>3. \A i \in 1 .. Len(rows) : rows[i] \in S
    BY <1>2, <2>1, <2>2
  <2> QED
    BY <2>1, <2>3 DEF ToSet
<1>4. ASSUME Len(rows) < n PROVE ToSet(rows) = S
  <2>1. Len(rows) = Len(s) /\ Len(s) \in Nat
    BY <1>1, <1>2, <1>4, LenProperties
  <2>2. \A a \in S : \E i \in 1 .. Len(rows) : rows[i] = a
    BY <1>1, <1>2, <2>1
  <2>3. DOMAIN rows = 1 .. Len(rows)
    BY <1>2, LenProperties
  <2> QED
    BY <1>3, <2>2, <2>3 DEF ToSet
<1>5. ASSUME Len(rows) = n
      PROVE  /\ Last(rows) \in S
             /\ \A a \in ToSet(rows) : a = Last(rows) \/ Before(a, Last(rows))
             /\ \A a \in S \ ToSet(rows) : Before(Last(rows), a)
  <2>1. n \in 1 .. Len(s) /\ Last(rows) = s[n]
    BY <1>2, <1>5 DEF Last
  <2>2. \A a \in ToSet(rows) : a = Last(rows) \/ Before(a, Last(rows))
    <3> TAKE a \in ToSet(rows)
    <3>1. PICK i \in 1 .. Len(rows) : a = rows[i]
      BY <1>2 DEF ToSet
    <3>2. a = s[i] /\ i \in 1 .. Len(s) /\ (i = n \/ i < n)
      BY <1>2, <1>5, <3>1
    <3> QED
      BY <1>1, <2>1, <3>2
  <2>3. \A a \in S \ ToSet(rows) : Before(Last(rows), a)
    <3> TAKE a \in S \ ToSet(rows)
    <3>1. PICK i \in 1 .. Len(s) : s[i] = a
      BY <1>1
    <3>2. ~(i <= n)
      <4>1. DOMAIN rows = 1 .. n
        BY <1>2, <1>5, LenProperties
      <4>2. i \notin 1 .. n
        BY <1>2, <1>5, <3>1, <4>1 DEF ToSet
      <4> QED
        BY <4>2
    <3>3. n < i
      BY <3>2
    <3> QED
      BY <1>1, <2>1, <3>1, <3>3
  <2> QED
    BY <1>1, <2>1, <2>2, <2>3
<1> QED
  BY <1>2, <1>3, <1>4, <1>5 DEF rows

-----------------------------------------------------------------------------
(***************************************************************************)
(* The state: types, what is selected, and what a walk has noted.          *)
(***************************************************************************)
Real(a) == table[a] # "none"

StateInv ==
  /\ ListingTypeOK
  /\ \A a \in selected : table[a] = "live"
  /\ walk.stage = "off" => walk = Off
  /\ walk.stage = "count" => walk.kind = "assets"
  /\ walk.steady \subseteq selected
  /\ walk.stage # "off" /\ ~walk.grew => walk.steady = selected

\* What the statements on the rows have in common.
RowStep ==
  /\ key' = key
  /\ table' \in [Ids -> {"none", "live", "deleted"}]
  /\ selected' \subseteq Ids /\ \A a \in selected' : table'[a] = "live"
  /\ \A a \in Ids : Real(a) => Real(a)'
  /\ ~Walking => walk' = Off
  /\ Walking => \E g, s \in BOOLEAN :
       /\ walk' = [walk EXCEPT !.steady = walk.steady \cap selected', !.grew = g, !.shrank = s]
       /\ ~g => ~walk.grew /\ selected' \subseteq selected
       /\ ~s => ~walk.shrank /\ selected \subseteq selected'

LEMMA RowsStep ==
  ASSUME StateInv,
         \/ \E a \in Ids : Upload(a) \/ DeleteAsset(a) \/ Enter(a)
         \/ \E S \in SUBSET Ids : Leave(S)
  PROVE  RowStep
<1>1. /\ walk \in Walk /\ selected \subseteq Ids /\ walk.steady \subseteq selected
      /\ table \in [Ids -> {"none", "live", "deleted"}]
      /\ \A a \in selected : table[a] = "live"
  BY DEF StateInv, ListingTypeOK
<1>2. walk.steady \in SUBSET Ids /\ walk.grew \in BOOLEAN /\ walk.shrank \in BOOLEAN
  BY <1>1 DEF Walk
<1>3. walk = [walk EXCEPT !.steady = walk.steady, !.grew = walk.grew, !.shrank = walk.shrank]
  BY <1>1 DEF Walk
<1>4. ASSUME NEW a \in Ids, Upload(a) PROVE RowStep
  <2>1. /\ key' = key /\ table' \in [Ids -> {"none", "live", "deleted"}]
        /\ selected' \subseteq Ids /\ \A b \in selected' : table'[b] = "live"
        /\ \A b \in Ids : Real(b) => Real(b)'
        /\ walk.steady \cap selected' = walk.steady
    BY <1>1, <1>4 DEF Upload, Real
  <2>2. CASE selected' = selected /\ Noted(walk)
    BY <1>2, <1>3, <2>1, <2>2 DEF RowStep, Noted
  <2>3. CASE selected' = selected \cup {a} /\ NoteEntry
    <3>1. Walking =>
            walk' = [walk EXCEPT !.steady = walk.steady, !.grew = TRUE, !.shrank = walk.shrank]
      BY <1>1, <2>3 DEF NoteEntry, Noted, Walk
    <3>2. ~Walking => walk' = Off
      BY <2>3 DEF NoteEntry, Noted
    <3> QED
      BY <1>2, <2>1, <2>3, <3>1, <3>2 DEF RowStep
  <2> QED
    BY <1>4, <2>2, <2>3 DEF Upload
<1>5. ASSUME NEW a \in Ids, Enter(a) PROVE RowStep
  <2>1. /\ key' = key /\ table' \in [Ids -> {"none", "live", "deleted"}]
        /\ selected' \subseteq Ids /\ \A b \in selected' : table'[b] = "live"
        /\ \A b \in Ids : Real(b) => Real(b)'
        /\ walk.steady \cap selected' = walk.steady
        /\ selected \subseteq selected'
    BY <1>1, <1>5 DEF Enter, Real
  <2>2. Walking =>
          walk' = [walk EXCEPT !.steady = walk.steady, !.grew = TRUE, !.shrank = walk.shrank]
    BY <1>1, <1>5 DEF Enter, NoteEntry, Noted, Walk
  <2>3. ~Walking => walk' = Off
    BY <1>5 DEF Enter, NoteEntry, Noted
  <2> QED
    BY <1>2, <2>1, <2>2, <2>3 DEF RowStep
<1>6. ASSUME NEW S, selected' = selected \ S, NoteExit(S), key' = key,
             table' \in [Ids -> {"none", "live", "deleted"}],
             \A b \in selected' : table'[b] = "live",
             \A b \in Ids : Real(b) => Real(b)'
      PROVE  RowStep
  <2>1. walk.steady \cap selected' = walk.steady \ S /\ selected' \subseteq selected
    BY <1>1, <1>6
  <2>2. Walking =>
          walk' = [walk EXCEPT !.steady = walk.steady \ S, !.grew = walk.grew, !.shrank = TRUE]
    BY <1>1, <1>6 DEF NoteExit, Noted, Walk
  <2>3. ~Walking => walk' = Off
    BY <1>6 DEF NoteExit, Noted
  <2> QED
    BY <1>1, <1>2, <1>6, <2>1, <2>2, <2>3 DEF RowStep
<1>7. ASSUME NEW S \in SUBSET Ids, Leave(S) PROVE RowStep
  BY <1>1, <1>6, <1>7 DEF Leave, Real
<1>8. ASSUME NEW a \in Ids, DeleteAsset(a) PROVE RowStep
  <2>1. /\ key' = key /\ table' \in [Ids -> {"none", "live", "deleted"}]
        /\ selected' = selected \ {a} /\ \A b \in selected' : table'[b] = "live"
        /\ \A b \in Ids : Real(b) => Real(b)'
    BY <1>1, <1>8 DEF DeleteAsset, Real
  <2>2. CASE a \in selected
    BY <1>6, <1>8, <2>1, <2>2 DEF DeleteAsset
  <2>3. CASE a \notin selected
    <3>1. selected' = selected /\ walk.steady \cap selected' = walk.steady /\ Noted(walk)
      BY <1>1, <1>8, <2>1, <2>3 DEF DeleteAsset
    <3> QED
      BY <1>1, <1>2, <1>3, <2>1, <3>1 DEF RowStep, Noted
  <2> QED
    BY <2>2, <2>3
<1> QED
  BY <1>4, <1>5, <1>7, <1>8

LEMMA OffType == Off \in Walk
<1>1. [a \in Ids |-> 0] \in [Ids -> 0 .. 2]
  OBVIOUS
<1> QED
  BY <1>1 DEF Off, Walk, Dirs

LEMMA OffFields ==
  /\ Off.stage = "off" /\ Off.steady = {} /\ Off.cursor = Null /\ Off.next = Null
  /\ Off.offset = 0 /\ Off.total = Null
  /\ \A a \in Ids : Off.seen[a] = 0 /\ ~(Off.seen[a] > 0)
BY DEF Off

LEMMA RowsState == StateInv /\ RowStep => StateInv'
<1> SUFFICES ASSUME StateInv, RowStep PROVE StateInv'
  OBVIOUS
<1>1. /\ walk \in Walk /\ key \in [Ids -> 1 .. MaxKey]
      /\ key' = key
      /\ table' \in [Ids -> {"none", "live", "deleted"}]
      /\ selected' \subseteq Ids /\ \A a \in selected' : table'[a] = "live"
      /\ \A a \in Ids : Real(a) => Real(a)'
  BY DEF StateInv, ListingTypeOK, RowStep
<1>2. CASE ~Walking
  <2>1. walk' = Off
    BY <1>2 DEF RowStep
  <2>2. ListingTypeOK'
    BY <1>1, <2>1, OffType DEF ListingTypeOK
  <2> QED
    BY <1>1, <2>1, <2>2, OffFields DEF StateInv
<1>3. CASE Walking
  <2>1. PICK g \in BOOLEAN, s \in BOOLEAN :
          /\ walk' = [walk EXCEPT !.steady = walk.steady \cap selected', !.grew = g, !.shrank = s]
          /\ ~g => ~walk.grew /\ selected' \subseteq selected
          /\ ~s => ~walk.shrank /\ selected \subseteq selected'
    BY <1>3 DEF RowStep
  <2>2. /\ walk' \in Walk /\ walk'.steady = walk.steady \cap selected' /\ walk'.grew = g
        /\ walk'.stage = walk.stage /\ walk'.kind = walk.kind /\ walk'.seen = walk.seen
        /\ walk'.cursor = walk.cursor /\ walk'.next = walk.next
    BY <1>1, <2>1 DEF Walk
  <2>3. walk'.stage # "off"
    BY <1>3, <2>2 DEF Walking
  <2>4. ~g => walk'.steady = selected'
    BY <1>3, <2>1, <2>2 DEF StateInv, Walking
  <2>5. ListingTypeOK'
    BY <1>1, <2>2 DEF ListingTypeOK
  <2> QED
    BY <1>1, <2>2, <2>3, <2>4, <2>5 DEF StateInv
<1> QED
  BY <1>2, <1>3

-----------------------------------------------------------------------------
(***************************************************************************)
(* What a page does, in sets.                                              *)
(***************************************************************************)
Marked(R) ==
  [a \in Ids |-> IF a \in R /\ walk.seen[a] < 2 THEN walk.seen[a] + 1 ELSE walk.seen[a]]

LEMMA MarkedSeen ==
  ASSUME walk \in Walk, NEW R
  PROVE  /\ Marked(R) \in [Ids -> 0 .. 2]
         /\ \A a \in Ids : walk.seen[a] > 0 \/ a \in R <=> Marked(R)[a] > 0
         /\ \A a \in Ids : walk.seen[a] = 0 => Marked(R)[a] <= 1
         /\ \A a \in Ids \ R : Marked(R)[a] = walk.seen[a]
<1>1. walk.seen \in [Ids -> 0 .. 2]
  BY DEF Walk
<1> QED
  BY <1>1 DEF Marked

\* A page by cursor.
Paged(R, next) ==
  /\ walk.stage = "page" /\ walk.kind = "assets"
  /\ R \subseteq Matching
  /\ walk' = [walk EXCEPT !.stage = "count", !.seen = Marked(R), !.next = next,
                          !.cursors = walk.cursors \cup ({next} \ {Null})]
  /\ next # Null => /\ next \in Matching
                    /\ \A a \in R : a = next \/ Before(a, next)
                    /\ \A a \in Matching \ R : Before(next, a)
  /\ next = Null /\ walk.limit > 0 => R = Matching
  /\ UNCHANGED <<key, table, selected>>

LEMMA ListPages ==
  ASSUME StateInv, List
  PROVE  \E R \in SUBSET Ids, next \in Ids \cup {Null} : Paged(R, next)
<1> DEFINE n == IF walk.limit > 0 THEN walk.limit ELSE DefaultLimit
<1>1. walk \in Walk /\ Matching \in SUBSET Ids /\ n \in Nat \ {0}
  <2>1. walk \in Walk /\ Matching \in SUBSET Ids
    BY DEF StateInv, ListingTypeOK, Matching
  <2>2. walk.limit \in Nat
    BY <2>1 DEF Walk
  <2>3. DefaultLimit \in Nat \ {0}
    BY ListingAssumption
  <2>4. n \in Nat \ {0}
    BY <2>2, <2>3
  <2> QED
    BY <2>1, <2>4
<1>2. PICK s \in Sorted(Matching) :
        walk' = [walk EXCEPT
          !.stage = "count",
          !.seen = Shown(First(s, n)),
          !.next = IF NextCursor(First(s, n)) = {} THEN Null ELSE Last(First(s, n)),
          !.cursors = walk.cursors \cup NextCursor(First(s, n))]
  BY DEF List, buildAssetQuery
<1> DEFINE rows == First(s, n)
           R == ToSet(rows)
           next == IF Len(rows) = walk.limit /\ walk.limit > 0 THEN Last(rows) ELSE Null
<1>3. /\ rows \in Seq(Ids) /\ R \subseteq Matching /\ Len(rows) <= n
      /\ Len(rows) < n => R = Matching
      /\ Len(rows) = n =>
           /\ Last(rows) \in Matching
           /\ \A a \in R : a = Last(rows) \/ Before(a, Last(rows))
           /\ \A a \in Matching \ R : Before(Last(rows), a)
  BY <1>1, SortedRows
<1>4. Shown(rows) = Marked(R)
  BY DEF Shown, Marked
<1> HIDE DEF rows, R
<1>5. Null \notin Ids
  BY ListingAssumption DEF Ids
<1>6. next # Null => next = Last(rows) /\ Len(rows) = n
  OBVIOUS
<1>7. next = Null /\ walk.limit > 0 => Len(rows) < n
  BY <1>1, <1>3, <1>5
<1>8. next \in Ids \cup {Null}
  BY <1>1, <1>3, <1>6
<1>9. walk' = [walk EXCEPT !.stage = "count", !.seen = Marked(R), !.next = next,
                           !.cursors = walk.cursors \cup ({next} \ {Null})]
  <2>1. CASE Len(rows) = walk.limit /\ walk.limit > 0
    <3>1. next = Last(rows) /\ next \in Ids
      BY <1>1, <1>3, <2>1
    <3>2. NextCursor(rows) = {next} \ {Null} /\ NextCursor(rows) # {}
      BY <1>5, <2>1, <3>1 DEF NextCursor
    <3> QED
      BY <1>2, <1>4, <3>1, <3>2 DEF rows
  <2>2. CASE ~(Len(rows) = walk.limit /\ walk.limit > 0)
    <3>1. next = Null /\ NextCursor(rows) = {} /\ {next} \ {Null} = {}
      BY <2>2 DEF NextCursor
    <3> QED
      BY <1>2, <1>4, <3>1 DEF rows
  <2> QED
    BY <2>1, <2>2
<1> HIDE DEF next, n
<1>10. Paged(R, next)
  BY <1>3, <1>6, <1>7, <1>9 DEF Paged, List
<1> QED
  BY <1>1, <1>3, <1>8, <1>10

\* How many of the collection come before an asset, if nothing ties.
Rank(a) == Cardinality({b \in selected : key[b] > key[a]})

LEMMA RankInOrder ==
  ASSUME StateInv, NoTies, NEW s \in Orders(selected), NEW i \in 1 .. Len(s)
  PROVE  Rank(s[i]) = i - 1
<1>1. /\ selected \in SUBSET Ids /\ key \in [Ids -> 1 .. MaxKey] /\ \A a \in selected : Real(a)
      /\ MaxKey \in Nat
  BY ListingAssumption DEF StateInv, ListingTypeOK, Real
<1>2. /\ s \in Seq(selected)
      /\ \A a \in selected : \E j \in 1 .. Len(s) : s[j] = a
      /\ \A j, k \in 1 .. Len(s) : s[j] = s[k] => j = k
      /\ \A j, k \in 1 .. Len(s) : j < k => key[s[j]] >= key[s[k]]
      /\ Len(s) \in Nat
  <2>1. s \in SetToSeqs(selected) /\ \A j, k \in DOMAIN s : j < k => key[s[j]] >= key[s[k]]
    BY DEF Orders
  <2>2. /\ s \in Seq(selected)
        /\ \A a \in selected : \E j \in 1 .. Len(s) : s[j] = a
        /\ \A j, k \in 1 .. Len(s) : s[j] = s[k] => j = k
    BY <1>1, <2>1, SeqsOfSet
  <2>3. Len(s) \in Nat /\ DOMAIN s = 1 .. Len(s)
    BY <2>2, LenProperties
  <2> QED
    BY <2>1, <2>2, <2>3
<1>3. \A j \in 1 .. Len(s) : s[j] \in selected /\ key[s[j]] \in Nat
  <2>1. \A j \in 1 .. Len(s) : s[j] \in selected
    BY <1>2, ElementOfSeq
  <2>2. \A a \in selected : key[a] \in Nat
    BY <1>1
  <2> QED
    BY <2>1, <2>2
<1>4. \A j, k \in 1 .. Len(s) : key[s[j]] = key[s[k]] => j = k
  <2>1. \A j \in 1 .. Len(s) : s[j] \in Ids /\ Real(s[j])
    BY <1>1, <1>3
  <2>2. \A a, b \in Ids : Real(a) /\ Real(b) /\ key[a] = key[b] => a = b
    BY DEF NoTies, Real
  <2> QED
    BY <1>2, <2>1, <2>2
<1> DEFINE T == {b \in selected : key[b] > key[s[i]]}
           f == [j \in 1 .. i - 1 |-> s[j]]
<1>5. \A j \in 1 .. Len(s) : s[j] \in T <=> j < i
  <2> TAKE j \in 1 .. Len(s)
  <2>1. CASE j < i
    <3>1. key[s[j]] >= key[s[i]] /\ key[s[j]] # key[s[i]]
      <4>1. key[s[j]] >= key[s[i]]
        BY <1>2, <2>1
      <4>2. j # i
        BY <1>2, <2>1
      <4> QED
        BY <1>4, <4>1, <4>2
    <3> QED
      BY <1>3, <2>1, <3>1
  <2>2. CASE j = i
    BY <1>3, <2>2
  <2>3. CASE i < j
    <3>1. key[s[i]] >= key[s[j]]
      BY <1>2, <2>3
    <3> QED
      BY <1>3, <2>3, <3>1
  <2> QED
    BY <1>2, <2>1, <2>2, <2>3
<1>6. T \subseteq selected
  OBVIOUS
<1> HIDE DEF T
<1>7. f \in Injection(1 .. i - 1, T)
  <2>1. \A j \in 1 .. i - 1 : j \in 1 .. Len(s) /\ j < i /\ f[j] = s[j]
    <3>1. Len(s) \in Nat /\ i \in Nat /\ i <= Len(s)
      BY <1>2
    <3>2. \A j \in 1 .. i - 1 : j \in 1 .. Len(s) /\ j < i
      BY <3>1
    <3> QED
      BY <3>2
  <2>2. f \in [1 .. i - 1 -> T]
    BY <1>5, <2>1
  <2>3. IsInjective(f)
    BY <1>2, <2>1 DEF IsInjective
  <2> QED
    BY <2>2, <2>3 DEF Injection
<1>8. f \in Surjection(1 .. i - 1, T)
  <2>1. \A b \in T : \E j \in 1 .. i - 1 : f[j] = b
    <3> TAKE b \in T
    <3>1. PICK j \in 1 .. Len(s) : s[j] = b
      BY <1>2, <1>6
    <3>2. j \in 1 .. i - 1
      <4>1. j < i
        BY <1>5, <3>1
      <4> QED
        BY <3>1, <4>1
    <3> QED
      BY <3>1, <3>2
  <2> QED
    BY <1>7, <2>1 DEF Surjection, Injection
<1>9. ExistsBijection(1 .. i - 1, T)
  BY <1>7, <1>8 DEF ExistsBijection, Bijection
<1>10. IsFiniteSet(1 .. i - 1) /\ Cardinality(1 .. i - 1) = i - 1
  <2>1. i \in Nat \ {0}
    BY <1>2
  <2> QED
    BY <2>1, FS_Interval
<1>11. Cardinality(T) = i - 1
  BY <1>9, <1>10, FS_Bijection
<1> QED
  BY <1>11 DEF Rank, T

\* A page by offset.
Offset(R, stage) ==
  /\ walk.stage = "page" /\ walk.kind = "collection"
  /\ R \subseteq selected
  /\ walk' = [walk EXCEPT !.seen = Marked(R), !.offset = walk.offset + walk.limit, !.stage = stage]
  /\ stage \in {"page", "ended"}
  /\ NoTies =>
       /\ \A a \in selected :
            a \in R <=> walk.offset <= Rank(a) /\ Rank(a) < walk.offset + walk.limit
       /\ stage = "ended" /\ walk.limit > 0 =>
            \A a \in selected : Rank(a) < walk.offset + walk.limit
  /\ UNCHANGED <<key, table, selected>>

LEMMA OffsetPages ==
  ASSUME StateInv, ListAssets
  PROVE  \E R \in SUBSET Ids, stage \in {"page", "ended"} : Offset(R, stage)
<1> DEFINE o == walk.offset
           n == walk.limit
<1>1. selected \in SUBSET Ids /\ walk \in Walk /\ o \in Nat /\ n \in Nat
  BY DEF StateInv, ListingTypeOK, Walk
<1>2. PICK s \in Orders(selected) :
        LET rows == First(SubSeq(s, o + 1, Len(s)), n)
        IN  walk' = [walk EXCEPT
                      !.seen = Shown(rows),
                      !.offset = walk.offset + walk.limit,
                      !.stage = IF Len(rows) < n \/ n = 0 THEN "ended" ELSE walk.stage]
  BY DEF ListAssets
<1>3. /\ s \in Seq(Ids) /\ s \in Seq(selected)
      /\ \A a \in selected : \E j \in 1 .. Len(s) : s[j] = a
  BY <1>1, SeqsOfSet DEF Orders
<1> DEFINE rows == First(SubSeq(s, o + 1, Len(s)), n)
           R == ToSet(rows)
           stage == IF Len(rows) < n \/ n = 0 THEN "ended" ELSE walk.stage
<1>4. /\ rows \in Seq(Ids)
      /\ \A a \in R : \E i \in 1 .. Len(s) : o < i /\ i <= o + n /\ a = s[i]
      /\ \A i \in 1 .. Len(s) : o < i /\ i <= o + n => s[i] \in R
      /\ Len(rows) < n => Len(s) < o + n
  BY <1>1, <1>3, CollectionRows
<1>5. walk' = [walk EXCEPT !.seen = Marked(R), !.offset = walk.offset + walk.limit, !.stage = stage]
  BY <1>2 DEF Shown, Marked
<1> HIDE DEF rows, R
<1>6. R \subseteq selected
  BY <1>3, <1>4
<1>7. walk.stage = "page" /\ walk.kind = "collection" /\ stage \in {"page", "ended"}
  BY DEF ListAssets
<1>8. ASSUME NoTies
      PROVE  /\ \A a \in selected : a \in R <=> o <= Rank(a) /\ Rank(a) < o + n
             /\ stage = "ended" /\ n > 0 => \A a \in selected : Rank(a) < o + n
  <2>1. ASSUME NEW a \in selected
        PROVE  /\ a \in R <=> o <= Rank(a) /\ Rank(a) < o + n
               /\ stage = "ended" /\ n > 0 => Rank(a) < o + n
    <3>1. PICK i \in 1 .. Len(s) : s[i] = a
      BY <1>3
    <3>2. Rank(a) = i - 1 /\ i \in Nat
      BY <1>3, <1>8, <3>1, RankInOrder
    <3>3. a \in R => o < i /\ i <= o + n
      <4> SUFFICES ASSUME a \in R PROVE o < i /\ i <= o + n
        OBVIOUS
      <4>1. PICK j \in 1 .. Len(s) : o < j /\ j <= o + n /\ a = s[j]
        BY <1>4
      <4>2. Rank(a) = j - 1 /\ j \in Nat
        BY <1>3, <1>8, <4>1, RankInOrder
      <4>3. i = j
        BY <3>2, <4>2
      <4> QED
        BY <4>1, <4>3
    <3>4. o < i /\ i <= o + n => a \in R
      BY <1>4, <3>1
    <3>5. stage = "ended" /\ n > 0 => i < o + n
      <4>1. stage = "ended" /\ n > 0 => Len(rows) < n
        BY <1>1, <1>7
      <4> QED
        <5>1. Len(s) \in Nat
          BY <1>3, LenProperties
        <5> QED
          BY <1>1, <1>4, <3>1, <4>1, <5>1
    <3> QED
      BY <1>1, <3>2, <3>3, <3>4, <3>5
  <2> QED
    BY <2>1
<1>9. UNCHANGED <<key, table, selected>>
  BY DEF ListAssets
<1> HIDE DEF stage
<1>10. Offset(R, stage)
  BY <1>5, <1>6, <1>7, <1>8, <1>9 DEF Offset
<1> QED
  BY <1>1, <1>6, <1>7, <1>10

-----------------------------------------------------------------------------
(***************************************************************************)
(* The client's steps, field by field.                                     *)
(***************************************************************************)
LEMMA BeginFields ==
  ASSUME StateInv, NEW kind \in {"assets", "collection"}, NEW dir \in Dirs, NEW limit \in Limits,
         Begin(kind, dir, limit)
  PROVE  /\ walk' \in Walk /\ walk'.stage = "page" /\ walk'.kind = kind
         /\ walk'.steady = selected /\ walk'.cursor = Null /\ walk'.next = Null
         /\ walk'.offset = 0 /\ walk'.total = Null
         /\ \A a \in Ids : walk'.seen[a] = 0
         /\ UNCHANGED <<key, table, selected>>
<1>1. Off \in Walk /\ selected \in SUBSET Ids /\ limit \in Nat
  BY OffType, ListingAssumption DEF StateInv, ListingTypeOK
<1>2. walk' = [Off EXCEPT !.stage = "page", !.kind = kind, !.dir = dir, !.limit = limit,
                          !.steady = selected]
      /\ UNCHANGED <<key, table, selected>>
  BY DEF Begin, Begun
<1> QED
  BY <1>1, <1>2, OffFields DEF Walk

LEMMA PagedFields ==
  ASSUME StateInv, NEW R \in SUBSET Ids, NEW next \in Ids \cup {Null}, Paged(R, next)
  PROVE  /\ walk' \in Walk /\ walk'.stage = "count" /\ walk'.kind = "assets"
         /\ walk'.dir = walk.dir /\ walk'.limit = walk.limit /\ walk'.steady = walk.steady
         /\ walk'.cursor = walk.cursor /\ walk'.next = next /\ walk'.seen = Marked(R)
         /\ walk'.grew = walk.grew /\ walk'.shrank = walk.shrank /\ walk'.total = walk.total
         /\ walk'.cursors = walk.cursors \cup ({next} \ {Null})
<1>1. walk \in Walk
  BY DEF StateInv, ListingTypeOK
<1>2. Marked(R) \in [Ids -> 0 .. 2]
  BY <1>1, MarkedSeen
<1> QED
  BY <1>1, <1>2 DEF Paged, Walk

LEMMA SearchFields ==
  ASSUME StateInv, Search
  PROVE  /\ walk' \in Walk /\ walk'.kind = walk.kind
         /\ walk'.dir = walk.dir /\ walk'.limit = walk.limit /\ walk'.steady = walk.steady
         /\ walk'.seen = walk.seen /\ walk'.grew = walk.grew /\ walk'.shrank = walk.shrank
         /\ walk.next = Null => walk'.stage = "ended" /\ walk'.cursor = walk.cursor
         /\ walk.next # Null => walk'.stage = "page" /\ walk'.cursor = walk.next
         /\ walk'.next = Null /\ walk'.cursors = walk.cursors
         /\ walk'.total \in {Null, walk.total, Cardinality(selected)}
<1>1. walk \in Walk /\ selected \in SUBSET Ids
  BY DEF StateInv, ListingTypeOK
<1>2. PICK total \in {Cardinality(Matching), Null} :
        Turn([walk EXCEPT !.total = IF walk.cursor = Null THEN total ELSE walk.total])
  BY DEF Search
<1> DEFINE t == IF walk.cursor = Null THEN total ELSE walk.total
<1>3. t \in {Null, walk.total, Cardinality(selected)}
  <2>1. walk.cursor = Null => Matching = selected
    BY DEF Matching, BeyondCursor
  <2> QED
    BY <1>2, <2>1
<1>4. walk.total \in Nat \cup {Null} /\ Cardinality(selected) \in Nat
  BY <1>1, IdsAreFinite DEF Walk
<1>5. t \in Nat \cup {Null}
  BY <1>3, <1>4
<1>6. Turn([walk EXCEPT !.total = t])
  BY <1>2
<1> HIDE DEF t
<1> DEFINE w == [walk EXCEPT !.total = t]
<1>7. /\ w \in Walk /\ w.total = t /\ w.kind = walk.kind /\ w.dir = walk.dir /\ w.limit = walk.limit
      /\ w.steady = walk.steady /\ w.seen = walk.seen /\ w.grew = walk.grew
      /\ w.shrank = walk.shrank /\ w.next = walk.next /\ w.cursor = walk.cursor
      /\ w.cursors = walk.cursors
  BY <1>1, <1>5 DEF Walk
<1> HIDE DEF w
<1>8. walk' = IF w.next = Null THEN [w EXCEPT !.stage = "ended"]
              ELSE [w EXCEPT !.stage = "page", !.cursor = w.next, !.next = Null]
  BY <1>6 DEF Turn, w
<1>9. CASE w.next = Null
  <2>1. walk' = [w EXCEPT !.stage = "ended"]
    BY <1>8, <1>9
  <2>2. /\ walk' \in Walk /\ walk'.stage = "ended" /\ walk'.kind = w.kind /\ walk'.dir = w.dir
        /\ walk'.limit = w.limit /\ walk'.steady = w.steady /\ walk'.seen = w.seen
        /\ walk'.grew = w.grew /\ walk'.shrank = w.shrank /\ walk'.next = w.next
        /\ walk'.cursor = w.cursor /\ walk'.total = w.total /\ walk'.cursors = w.cursors
    BY <1>7, <2>1 DEF Walk
  <2> QED
    BY <1>3, <1>7, <1>9, <2>2
<1>10. CASE w.next # Null
  <2>1. walk' = [w EXCEPT !.stage = "page", !.cursor = w.next, !.next = Null]
    BY <1>8, <1>10
  <2>2. /\ walk' \in Walk /\ walk'.stage = "page" /\ walk'.kind = w.kind /\ walk'.dir = w.dir
        /\ walk'.limit = w.limit /\ walk'.steady = w.steady /\ walk'.seen = w.seen
        /\ walk'.grew = w.grew /\ walk'.shrank = w.shrank /\ walk'.next = Null
        /\ walk'.cursor = w.next /\ walk'.total = w.total /\ walk'.cursors = w.cursors
    BY <1>7, <2>1 DEF Walk
  <2> QED
    BY <1>3, <1>7, <1>10, <2>2
<1> QED
  BY <1>9, <1>10

LEMMA OffsetFields ==
  ASSUME StateInv, NEW R \in SUBSET Ids, NEW stage \in {"page", "ended"}, Offset(R, stage)
  PROVE  /\ walk' \in Walk /\ walk'.stage = stage /\ walk'.kind = "collection"
         /\ walk'.dir = walk.dir /\ walk'.limit = walk.limit /\ walk'.steady = walk.steady
         /\ walk'.cursor = walk.cursor /\ walk'.next = walk.next /\ walk'.seen = Marked(R)
         /\ walk'.grew = walk.grew /\ walk'.shrank = walk.shrank /\ walk'.total = walk.total
         /\ walk'.offset = walk.offset + walk.limit
<1>1. walk \in Walk
  BY DEF StateInv, ListingTypeOK
<1>2. Marked(R) \in [Ids -> 0 .. 2] /\ walk.offset + walk.limit \in Nat
  BY <1>1, MarkedSeen DEF Walk
<1> QED
  BY <1>1, <1>2 DEF Offset, Walk

LEMMA ClientState ==
  ASSUME StateInv, Client
  PROVE  StateInv'
<1>1. /\ walk \in Walk /\ selected \in SUBSET Ids
      /\ UNCHANGED <<key, table, selected>>
  BY DEF StateInv, ListingTypeOK, Client, NextPage, Begin, List, Search, ListAssets, GiveUp
<1>2. ListingTypeOK' <=> walk' \in Walk
  BY <1>1 DEF StateInv, ListingTypeOK
<1>3. ASSUME NEW kind \in {"assets", "collection"}, NEW dir \in Dirs, NEW limit \in Limits,
             Begin(kind, dir, limit)
      PROVE  StateInv'
  <2>1. walk' \in Walk /\ walk'.stage = "page" /\ walk'.steady = selected
    BY <1>3, BeginFields
  <2> QED
    BY <1>1, <1>2, <2>1 DEF StateInv
<1>4. ASSUME List PROVE StateInv'
  <2>1. PICK R \in SUBSET Ids, next \in Ids \cup {Null} : Paged(R, next)
    BY <1>4, ListPages
  <2>2. /\ walk' \in Walk /\ walk'.stage = "count" /\ walk'.kind = "assets"
        /\ walk'.steady = walk.steady /\ walk'.grew = walk.grew
    BY <2>1, PagedFields
  <2>3. walk.stage = "page"
    BY <2>1 DEF Paged
  <2> QED
    BY <1>1, <1>2, <2>2, <2>3 DEF StateInv
<1>5. ASSUME Search PROVE StateInv'
  <2>1. /\ walk' \in Walk /\ walk'.kind = walk.kind
        /\ walk'.steady = walk.steady /\ walk'.grew = walk.grew
        /\ walk'.stage \in {"ended", "page"}
    BY <1>5, SearchFields
  <2>2. walk.stage = "count"
    BY <1>5 DEF Search
  <2> QED
    BY <1>1, <1>2, <2>1, <2>2 DEF StateInv
<1>6. ASSUME ListAssets PROVE StateInv'
  <2>1. PICK R \in SUBSET Ids, stage \in {"page", "ended"} : Offset(R, stage)
    BY <1>6, OffsetPages
  <2>2. /\ walk' \in Walk /\ walk'.stage = stage
        /\ walk'.steady = walk.steady /\ walk'.grew = walk.grew
    BY <2>1, OffsetFields
  <2>3. walk.stage = "page"
    BY <2>1 DEF Offset
  <2>4. walk'.stage # "off" /\ walk'.stage # "count"
    BY <2>2
  <2> QED
    BY <1>1, <1>2, <2>2, <2>3, <2>4 DEF StateInv
<1>7. ASSUME GiveUp PROVE StateInv'
  <2>1. walk' = Off
    BY <1>7 DEF GiveUp
  <2> QED
    BY <1>1, <1>2, <2>1, OffType, OffFields DEF StateInv
<1> QED
  BY <1>3, <1>4, <1>5, <1>6, <1>7 DEF Client, NextPage, Dirs

LEMMA InitState == InitListing => StateInv
<1> SUFFICES ASSUME InitListing PROVE StateInv
  OBVIOUS
<1>1. walk = Off
  BY DEF InitListing
<1>2. ListingTypeOK
  BY <1>1, OffType DEF InitListing, ListingTypeOK
<1> QED
  BY <1>1, <1>2, OffFields DEF InitListing, StateInv

LEMMA StateStep == StateInv /\ [NextListing]_listing => StateInv'
<1> SUFFICES ASSUME StateInv, [NextListing]_listing PROVE StateInv'
  OBVIOUS
<1>1. CASE \/ \E a \in Ids : Upload(a) \/ DeleteAsset(a) \/ Enter(a)
           \/ \E S \in SUBSET Ids : Leave(S)
  BY <1>1, RowsStep, RowsState
<1>2. CASE Client
  BY <1>2, ClientState
<1>3. CASE UNCHANGED listing
  BY <1>3 DEF listing, StateInv, ListingTypeOK, Real
<1> QED
  BY <1>1, <1>2, <1>3 DEF NextListing

-----------------------------------------------------------------------------
(***************************************************************************)
(* What a walk has not shown is beyond its cursor, or was passed over; what*)
(* it has shown is not beyond it, or comes back.                           *)
(***************************************************************************)
LEMMA BeyondOrder ==
  ASSUME NEW a \in Ids, NEW b \in Ids, NEW c \in Ids
  PROVE  ~Beyond(a, a) /\ (Beyond(a, b) /\ Beyond(b, c) => Beyond(a, c))
<1>1. a \in Int /\ b \in Int /\ c \in Int
  BY DEF Ids
<1> QED
  BY <1>1 DEF Beyond

AllSeen == \A a \in walk.steady : walk.seen[a] > 0

AllAccounted == \A a \in walk.steady : walk.seen[a] > 0 \/ PassedOver(a)

At(c) ==
  /\ \A a \in walk.steady : walk.seen[a] > 0 \/ PassedOver(a) \/ (c # Null => Beyond(c, a))
  /\ \A a \in Ids : walk.seen[a] > 0 => ComesBack(a) \/ (c # Null /\ ~Beyond(c, a))

CursorInv ==
  walk.kind = "assets" /\ walk.stage # "off" =>
    /\ \A a \in Ids : walk.seen[a] <= 1 \/ ComesBack(a)
    /\ walk.stage = "page" => At(walk.cursor)
    /\ walk.stage = "count" /\ walk.next # Null => At(walk.next)
    /\ walk.stage = "count" /\ walk.next = Null /\ walk.limit > 0 => AllAccounted
    /\ walk.stage = "ended" /\ walk.limit > 0 => AllAccounted

\* A cursor is never taken back.
LEMMA CursorsStay ==
  ASSUME key' = key, walk'.dir = walk.dir, walk.cursors \subseteq walk'.cursors
  PROVE  /\ \A a, c : Beyond(c, a)' <=> Beyond(c, a)
         /\ \A a, c : Before(c, a)' <=> Before(c, a)
         /\ \A a : PassedOver(a) => PassedOver(a)'
         /\ \A a : ComesBack(a) => ComesBack(a)'
<1>1. /\ \A a, c : Beyond(c, a)' <=> Beyond(c, a)
      /\ \A a, c : Before(c, a)' <=> Before(c, a)
  BY DEF Beyond, Before
<1> QED
  BY <1>1 DEF PassedOver, ComesBack

\* What there has been stays, so an order without ties had none before.
LEMMA TiesStay ==
  ASSUME key' = key, \A a \in Ids : Real(a) => Real(a)'
  PROVE  NoTies' => NoTies
BY DEF NoTies, Real

LEMMA RowsFields ==
  ASSUME StateInv, RowStep, Walking
  PROVE  /\ walk'.stage = walk.stage /\ walk'.kind = walk.kind /\ walk'.dir = walk.dir
         /\ walk'.limit = walk.limit /\ walk'.seen = walk.seen /\ walk'.total = walk.total
         /\ walk'.cursor = walk.cursor /\ walk'.next = walk.next /\ walk'.offset = walk.offset
         /\ walk'.cursors = walk.cursors
         /\ walk'.steady = walk.steady \cap selected'
         /\ ~walk'.grew => ~walk.grew /\ selected' \subseteq selected
         /\ ~walk'.shrank => ~walk.shrank /\ selected \subseteq selected'
<1>1. walk \in Walk
  BY DEF StateInv, ListingTypeOK
<1>2. PICK g \in BOOLEAN, s \in BOOLEAN :
        /\ walk' = [walk EXCEPT !.steady = walk.steady \cap selected', !.grew = g, !.shrank = s]
        /\ ~g => ~walk.grew /\ selected' \subseteq selected
        /\ ~s => ~walk.shrank /\ selected \subseteq selected'
  BY DEF RowStep
<1> QED
  BY <1>1, <1>2 DEF Walk

LEMMA RowsCursor == StateInv /\ CursorInv /\ RowStep => CursorInv'
<1> SUFFICES ASSUME StateInv, CursorInv, RowStep,
                    walk'.kind = "assets", walk'.stage # "off"
             PROVE  CursorInv'
  BY DEF CursorInv
<1>1. Walking
  BY OffFields DEF RowStep
<1>2. /\ walk'.stage = walk.stage /\ walk'.kind = walk.kind /\ walk'.dir = walk.dir
      /\ walk'.limit = walk.limit /\ walk'.seen = walk.seen
      /\ walk'.cursor = walk.cursor /\ walk'.next = walk.next
      /\ walk'.steady \subseteq walk.steady
      /\ walk'.cursors = walk.cursors /\ key' = key
  BY <1>1, RowsFields DEF RowStep
<1>3. /\ \A a, c : Beyond(c, a)' <=> Beyond(c, a)
      /\ \A a : PassedOver(a) => PassedOver(a)'
      /\ \A a : ComesBack(a) => ComesBack(a)'
  BY <1>2, CursorsStay
<1>4. AllAccounted => AllAccounted'
  BY <1>2, <1>3 DEF AllAccounted
<1>5. /\ At(walk.cursor) => At(walk.cursor)'
      /\ At(walk.next) => At(walk.next)'
  BY <1>2, <1>3 DEF At
<1> QED
  BY <1>2, <1>3, <1>4, <1>5 DEF CursorInv

LEMMA ListCursor ==
  ASSUME StateInv, CursorInv, NEW R \in SUBSET Ids, NEW next \in Ids \cup {Null}, Paged(R, next)
  PROVE  CursorInv'
<1>1. /\ walk'.stage = "count" /\ walk'.kind = "assets"
      /\ walk'.dir = walk.dir /\ walk'.limit = walk.limit /\ walk'.steady = walk.steady
      /\ walk'.next = next /\ walk'.seen = Marked(R)
      /\ walk'.cursors = walk.cursors \cup ({next} \ {Null})
  BY PagedFields
<1>2. /\ walk.stage = "page" /\ walk.kind = "assets" /\ R \subseteq Matching
      /\ next # Null => /\ next \in Matching
                        /\ \A a \in R : a = next \/ Before(a, next)
                        /\ \A a \in Matching \ R : Before(next, a)
      /\ next = Null /\ walk.limit > 0 => R = Matching
      /\ UNCHANGED <<key, table, selected>>
  BY DEF Paged
<1>3. /\ \A a, c : Beyond(c, a)' <=> Beyond(c, a)
      /\ \A a, c : Before(c, a)' <=> Before(c, a)
      /\ \A a : PassedOver(a) => PassedOver(a)'
      /\ \A a : ComesBack(a) => ComesBack(a)'
  BY <1>1, <1>2, CursorsStay
<1>4. (\A a \in Ids : walk.seen[a] <= 1 \/ ComesBack(a)) /\ At(walk.cursor)
  BY <1>2 DEF CursorInv
<1>5. /\ walk \in Walk /\ selected \in SUBSET Ids
      /\ walk.steady \subseteq selected /\ walk.seen \in [Ids -> 0 .. 2]
      /\ walk.cursor # Null => walk.cursor \in Ids
  BY DEF StateInv, ListingTypeOK, Walk
<1>6. \A a \in selected : a \in Matching <=> (walk.cursor # Null => Beyond(walk.cursor, a))
  BY DEF Matching, BeyondCursor
<1>7. Matching \subseteq selected
  BY DEF Matching
<1>8. \A a \in R : walk.seen[a] > 0 => ComesBack(a)
  BY <1>2, <1>4, <1>6, <1>7 DEF At
<1>9. ASSUME NEW a \in Ids PROVE Marked(R)[a] <= 1 \/ ComesBack(a)'
  <2>1. CASE a \in R /\ walk.seen[a] > 0
    BY <1>3, <1>8, <2>1
  <2>2. CASE a \in R /\ ~(walk.seen[a] > 0)
    <3>1. walk.seen[a] = 0
      BY <1>5, <2>2
    <3> QED
      BY <1>5, <3>1, MarkedSeen
  <2>3. CASE a \notin R
    BY <1>3, <1>4, <1>5, <2>3, MarkedSeen
  <2> QED
    BY <2>1, <2>2, <2>3
<1>10. \A a \in walk.steady : walk.seen[a] > 0 \/ PassedOver(a) \/ a \in Matching
  BY <1>4, <1>5, <1>6 DEF At
<1>11. ASSUME next = Null, walk.limit > 0 PROVE AllAccounted'
  BY <1>1, <1>2, <1>3, <1>5, <1>10, <1>11, MarkedSeen DEF AllAccounted
<1>12. ASSUME next # Null PROVE At(next)'
  <2>1. /\ next \in Ids /\ next \in walk'.cursors
        /\ \A a \in R : a = next \/ Before(a, next)
        /\ \A a \in Matching \ R : Before(next, a)
    BY <1>1, <1>2, <1>12
  <2>2. ASSUME NEW a \in walk.steady
        PROVE  Marked(R)[a] > 0 \/ PassedOver(a)' \/ Beyond(next, a)
    <3>1. CASE a \in Matching \ R
      BY <1>3, <2>1, <3>1 DEF PassedOver
    <3>2. CASE a \notin Matching \ R
      BY <1>3, <1>5, <1>10, <3>2, MarkedSeen
    <3> QED
      BY <3>1, <3>2
  <2>3. ASSUME NEW a \in Ids, Marked(R)[a] > 0
        PROVE  ComesBack(a)' \/ ~Beyond(next, a)
    <3>1. CASE a \in R
      BY <1>3, <2>1, <3>1, BeyondOrder DEF ComesBack
    <3>2. CASE walk.seen[a] > 0
      <4>1. CASE ComesBack(a)
        BY <1>3, <4>1
      <4>2. CASE ~ComesBack(a)
        <5>1. walk.cursor # Null /\ ~Beyond(walk.cursor, a) /\ Beyond(walk.cursor, next)
          BY <1>2, <1>4, <1>6, <1>7, <1>12, <3>2, <4>2 DEF At
        <5> QED
          BY <1>5, <2>1, <5>1, BeyondOrder
      <4> QED
        BY <4>1, <4>2
    <3> QED
      BY <1>5, <2>3, <3>1, <3>2, MarkedSeen
  <2> QED
    BY <1>1, <1>3, <1>12, <2>2, <2>3 DEF At
<1> QED
  BY <1>1, <1>9, <1>11, <1>12 DEF CursorInv

LEMMA ClientCursor ==
  ASSUME StateInv, CursorInv, Client
  PROVE  CursorInv'
<1>0. UNCHANGED <<key, table, selected>>
  BY DEF Client, NextPage, Begin, List, Search, ListAssets, GiveUp
<1>1. ASSUME NEW kind \in {"assets", "collection"}, NEW dir \in Dirs, NEW limit \in Limits,
             Begin(kind, dir, limit)
      PROVE  CursorInv'
  <2>1. /\ walk'.stage = "page" /\ walk'.cursor = Null
        /\ \A a \in Ids : walk'.seen[a] = 0
    BY <1>1, BeginFields
  <2>2. At(walk.cursor)'
    BY <2>1 DEF At
  <2> QED
    BY <2>1, <2>2 DEF CursorInv
<1>2. ASSUME List PROVE CursorInv'
  BY <1>2, ListPages, ListCursor
<1>3. ASSUME Search PROVE CursorInv'
  <2>1. /\ walk'.kind = walk.kind
        /\ walk'.dir = walk.dir /\ walk'.limit = walk.limit /\ walk'.steady = walk.steady
        /\ walk'.seen = walk.seen
        /\ walk.next = Null => walk'.stage = "ended" /\ walk'.cursor = walk.cursor
        /\ walk.next # Null => walk'.stage = "page" /\ walk'.cursor = walk.next
        /\ walk'.next = Null /\ walk'.cursors = walk.cursors
    BY <1>3, SearchFields
  <2>2. walk.stage = "count"
    BY <1>3 DEF Search
  <2> SUFFICES ASSUME walk'.kind = "assets" PROVE CursorInv'
    BY DEF CursorInv
  <2>3. /\ \A a, c : Beyond(c, a)' <=> Beyond(c, a)
        /\ \A a : PassedOver(a) => PassedOver(a)'
        /\ \A a : ComesBack(a) => ComesBack(a)'
    BY <1>0, <2>1, CursorsStay
  <2>4. /\ \A a \in Ids : walk.seen[a] <= 1 \/ ComesBack(a)
        /\ walk.next # Null => At(walk.next)
        /\ walk.next = Null /\ walk.limit > 0 => AllAccounted
    BY <2>1, <2>2 DEF CursorInv
  <2>5. CASE walk.next = Null
    <3>1. AllAccounted => AllAccounted'
      BY <2>1, <2>3 DEF AllAccounted
    <3> QED
      BY <2>1, <2>3, <2>4, <2>5, <3>1 DEF CursorInv
  <2>6. CASE walk.next # Null
    <3>1. At(walk.next) => At(walk.cursor)'
      BY <2>1, <2>3, <2>6 DEF At
    <3> QED
      BY <2>1, <2>3, <2>4, <2>6, <3>1 DEF CursorInv
  <2> QED
    BY <2>5, <2>6
<1>4. ASSUME ListAssets PROVE CursorInv'
  <2>1. walk'.kind = "collection"
    BY <1>4, OffsetPages, OffsetFields
  <2> QED
    BY <2>1 DEF CursorInv
<1>5. ASSUME GiveUp PROVE CursorInv'
  <2>1. walk'.stage = "off"
    BY <1>5, OffFields DEF GiveUp
  <2> QED
    BY <2>1 DEF CursorInv
<1> QED
  BY <1>1, <1>2, <1>3, <1>4, <1>5 DEF Client, NextPage, Dirs

-----------------------------------------------------------------------------
(***************************************************************************)
(* The total, and the pages by offset.                                     *)
(***************************************************************************)
TotalInv ==
  /\ walk.kind = "collection" => walk.total = Null
  /\ walk.stage # "off" /\ ~walk.grew /\ ~walk.shrank =>
       /\ \A a \in Ids : walk.seen[a] > 0 => a \in walk.steady
       /\ walk.total # Null => walk.total = Cardinality(walk.steady)

LEMMA RowsTotal == StateInv /\ TotalInv /\ RowStep => TotalInv'
<1> SUFFICES ASSUME StateInv, TotalInv, RowStep PROVE TotalInv'
  OBVIOUS
<1>1. CASE ~Walking
  BY <1>1, OffFields DEF RowStep, TotalInv
<1>2. CASE Walking
  <2>1. /\ walk'.stage = walk.stage /\ walk'.kind = walk.kind
        /\ walk'.seen = walk.seen /\ walk'.total = walk.total
        /\ walk'.steady = walk.steady \cap selected'
        /\ ~walk'.grew => ~walk.grew /\ selected' \subseteq selected
        /\ ~walk'.shrank => ~walk.shrank /\ selected \subseteq selected'
    BY <1>2, RowsFields
  <2>2. walk.steady \subseteq selected
    BY DEF StateInv
  <2>3. ~walk'.shrank => walk'.steady = walk.steady
    BY <2>1, <2>2
  <2> QED
    BY <2>1, <2>3 DEF TotalInv
<1> QED
  BY <1>1, <1>2

LEMMA ClientTotal ==
  ASSUME StateInv, TotalInv, Client
  PROVE  TotalInv'
<1>1. /\ walk \in Walk
      /\ walk.stage # "off" /\ ~walk.grew => walk.steady = selected
      /\ selected \in SUBSET Ids
  BY DEF StateInv, ListingTypeOK
<1>2. ASSUME NEW kind \in {"assets", "collection"}, NEW dir \in Dirs, NEW limit \in Limits,
             Begin(kind, dir, limit)
      PROVE  TotalInv'
  <2>1. walk'.total = Null /\ \A a \in Ids : ~(walk'.seen[a] > 0)
    BY <1>2, BeginFields
  <2> QED
    BY <2>1 DEF TotalInv
<1>3. ASSUME List PROVE TotalInv'
  <2>1. PICK R \in SUBSET Ids, next \in Ids \cup {Null} : Paged(R, next)
    BY <1>3, ListPages
  <2>2. /\ walk'.kind = "assets" /\ walk'.steady = walk.steady /\ walk'.seen = Marked(R)
        /\ walk'.grew = walk.grew /\ walk'.shrank = walk.shrank /\ walk'.total = walk.total
    BY <2>1, PagedFields
  <2>3. walk.stage = "page" /\ R \subseteq selected
    BY <2>1 DEF Paged, Matching
  <2>4. \A a \in Ids : Marked(R)[a] > 0 => walk.seen[a] > 0 \/ a \in R
    BY <1>1, MarkedSeen
  <2> QED
    BY <1>1, <2>2, <2>3, <2>4 DEF TotalInv
<1>4. ASSUME Search PROVE TotalInv'
  <2>1. /\ walk'.kind = walk.kind /\ walk'.steady = walk.steady
        /\ walk'.seen = walk.seen /\ walk'.grew = walk.grew /\ walk'.shrank = walk.shrank
        /\ walk'.total \in {Null, walk.total, Cardinality(selected)}
    BY <1>4, SearchFields
  <2>2. walk.stage = "count" /\ walk.kind = "assets"
    BY <1>4 DEF Search, StateInv
  <2> QED
    BY <1>1, <2>1, <2>2 DEF TotalInv
<1>5. ASSUME ListAssets PROVE TotalInv'
  <2>1. PICK R \in SUBSET Ids, stage \in {"page", "ended"} : Offset(R, stage)
    BY <1>5, OffsetPages
  <2>2. /\ walk'.kind = "collection" /\ walk'.steady = walk.steady /\ walk'.seen = Marked(R)
        /\ walk'.grew = walk.grew /\ walk'.shrank = walk.shrank /\ walk'.total = walk.total
    BY <2>1, OffsetFields
  <2>3. walk.stage = "page" /\ walk.kind = "collection" /\ R \subseteq selected
    BY <2>1 DEF Offset
  <2>4. \A a \in Ids : Marked(R)[a] > 0 => walk.seen[a] > 0 \/ a \in R
    BY <1>1, MarkedSeen
  <2> QED
    BY <1>1, <2>2, <2>3, <2>4 DEF TotalInv
<1>6. ASSUME GiveUp PROVE TotalInv'
  BY <1>6, OffFields DEF GiveUp, TotalInv
<1> QED
  BY <1>2, <1>3, <1>4, <1>5, <1>6 DEF Client, NextPage, Dirs

CollectionInv ==
  walk.kind = "collection" /\ walk.stage # "off" /\ NoTies =>
    /\ ~walk.shrank =>
         /\ walk.stage = "page" => \A a \in walk.steady : Rank(a) < walk.offset => walk.seen[a] > 0
         /\ walk.stage = "ended" /\ walk.limit > 0 => AllSeen
    /\ ~walk.grew =>
         /\ \A a \in Ids : walk.seen[a] <= 1
         /\ walk.stage = "page" => \A a \in selected : walk.seen[a] > 0 => Rank(a) < walk.offset

LEMMA RankGrows ==
  ASSUME key' = key, selected \in SUBSET Ids, selected' \in SUBSET Ids, NEW a \in Ids
  PROVE  /\ Rank(a) \in Nat /\ Rank(a)' \in Nat
         /\ selected \subseteq selected' => Rank(a) <= Rank(a)'
         /\ selected' \subseteq selected => Rank(a)' <= Rank(a)
<1> DEFINE S == {b \in selected : key[b] > key[a]}
           T == {b \in selected' : key[b] > key[a]}
<1>1. Rank(a) = Cardinality(S) /\ Rank(a)' = Cardinality(T)
  BY DEF Rank
<1>2. /\ S \in SUBSET Ids /\ T \in SUBSET Ids
      /\ selected \subseteq selected' => S \subseteq T
      /\ selected' \subseteq selected => T \subseteq S
  OBVIOUS
<1> HIDE DEF S, T
<1> QED
  BY <1>1, <1>2, IdsAreFinite, FS_Subset

LEMMA RowsCollection == StateInv /\ CollectionInv /\ RowStep => CollectionInv'
<1> SUFFICES ASSUME StateInv, CollectionInv, RowStep,
                    walk'.kind = "collection", walk'.stage # "off", NoTies'
             PROVE  CollectionInv'
  BY DEF CollectionInv
<1>1. Walking
  BY OffFields DEF RowStep
<1>2. /\ walk'.stage = walk.stage /\ walk'.kind = walk.kind
      /\ walk'.limit = walk.limit /\ walk'.seen = walk.seen /\ walk'.offset = walk.offset
      /\ walk'.steady = walk.steady \cap selected'
      /\ ~walk'.grew => ~walk.grew /\ selected' \subseteq selected
      /\ ~walk'.shrank => ~walk.shrank /\ selected \subseteq selected'
  BY <1>1, RowsFields
<1>3. NoTies
  BY TiesStay DEF RowStep
<1>4. /\ selected \in SUBSET Ids /\ selected' \in SUBSET Ids /\ walk.offset \in Nat
      /\ walk.steady \subseteq selected
      /\ walk.stage \in {"page", "count"} /\ walk.stage # "count"
  BY <1>1, <1>2 DEF StateInv, ListingTypeOK, Walk, RowStep, Walking
<1>5. \A a \in Ids :
        /\ Rank(a) \in Nat /\ Rank(a)' \in Nat
        /\ selected \subseteq selected' => Rank(a) <= Rank(a)'
        /\ selected' \subseteq selected => Rank(a)' <= Rank(a)
  BY <1>4, RankGrows DEF RowStep
<1>6. ASSUME ~walk'.shrank, NEW a \in walk'.steady, Rank(a)' < walk'.offset
      PROVE  walk'.seen[a] > 0
  <2>1. a \in walk.steady /\ Rank(a) < walk.offset
    BY <1>2, <1>4, <1>5, <1>6
  <2> QED
    BY <1>2, <1>3, <1>4, <1>6, <2>1 DEF CollectionInv
<1>7. ASSUME ~walk'.grew
      PROVE  /\ \A a \in Ids : walk'.seen[a] <= 1
             /\ \A a \in selected' : walk'.seen[a] > 0 => Rank(a)' < walk'.offset
  <2>1. /\ \A a \in Ids : walk.seen[a] <= 1
        /\ \A a \in selected : walk.seen[a] > 0 => Rank(a) < walk.offset
    BY <1>2, <1>3, <1>4, <1>7 DEF CollectionInv
  <2> QED
    BY <1>2, <1>4, <1>5, <1>7, <2>1
<1>8. walk'.stage # "ended"
  BY <1>2, <1>4
<1> QED
  BY <1>6, <1>7, <1>8 DEF CollectionInv

LEMMA OffsetCollection ==
  ASSUME StateInv, CollectionInv, NEW R \in SUBSET Ids, NEW stage \in {"page", "ended"},
         Offset(R, stage)
  PROVE  CollectionInv'
<1>1. /\ walk'.stage = stage /\ walk'.kind = "collection"
      /\ walk'.limit = walk.limit /\ walk'.steady = walk.steady
      /\ walk'.seen = Marked(R) /\ walk'.offset = walk.offset + walk.limit
      /\ walk'.grew = walk.grew /\ walk'.shrank = walk.shrank
  BY OffsetFields
<1>2. /\ walk.stage = "page" /\ walk.kind = "collection" /\ R \subseteq selected
      /\ UNCHANGED <<key, table, selected>>
  BY DEF Offset
<1> SUFFICES ASSUME NoTies' PROVE CollectionInv'
  BY DEF CollectionInv
<1>3. NoTies
  BY <1>2, TiesStay DEF Real
<1>4. /\ \A a \in selected :
            a \in R <=> walk.offset <= Rank(a) /\ Rank(a) < walk.offset + walk.limit
      /\ stage = "ended" /\ walk.limit > 0 =>
           \A a \in selected : Rank(a) < walk.offset + walk.limit
  BY <1>3 DEF Offset
<1>5. /\ walk \in Walk /\ selected \in SUBSET Ids /\ walk.steady \subseteq selected
      /\ walk.offset \in Nat /\ walk.limit \in Nat
  BY DEF StateInv, ListingTypeOK, Walk
<1>6. \A a \in Ids : Rank(a) \in Nat /\ Rank(a)' = Rank(a)
  BY <1>2, <1>5, RankGrows DEF Rank
<1>7. ASSUME ~walk.shrank, NEW a \in walk.steady, Rank(a) < walk.offset + walk.limit
      PROVE  Marked(R)[a] > 0
  <2>1. CASE Rank(a) < walk.offset
    <3>1. walk.seen[a] > 0
      BY <1>2, <1>3, <1>7, <2>1 DEF CollectionInv
    <3> QED
      BY <1>5, <3>1, MarkedSeen
  <2>2. CASE walk.offset <= Rank(a)
    BY <1>4, <1>5, <1>7, <2>2, MarkedSeen
  <2> QED
    BY <1>5, <1>6, <2>1, <2>2
<1>8. ASSUME ~walk.grew
      PROVE  /\ \A a \in Ids : Marked(R)[a] <= 1
             /\ \A a \in selected : Marked(R)[a] > 0 => Rank(a) < walk.offset + walk.limit
  <2>1. /\ \A a \in Ids : walk.seen[a] <= 1
        /\ \A a \in selected : walk.seen[a] > 0 => Rank(a) < walk.offset
    BY <1>2, <1>3, <1>8 DEF CollectionInv
  <2>2. \A a \in Ids : walk.seen[a] \in 0 .. 2
    BY <1>5 DEF Walk
  <2>3. \A a \in R : walk.seen[a] = 0
    BY <1>2, <1>4, <1>5, <1>6, <2>1, <2>2
  <2>4. \A a \in Ids : Marked(R)[a] <= 1
    BY <1>5, <2>1, <2>3, MarkedSeen
  <2>5. \A a \in selected : Marked(R)[a] > 0 => Rank(a) < walk.offset + walk.limit
    <3> TAKE a \in selected
    <3>1. Marked(R)[a] > 0 => walk.seen[a] > 0 \/ a \in R
      BY <1>5, MarkedSeen
    <3>2. Rank(a) \in Nat
      BY <1>5, <1>6
    <3> QED
      BY <1>4, <1>5, <2>1, <3>1, <3>2
  <2> QED
    BY <2>4, <2>5
<1>9. ASSUME ~walk'.shrank
      PROVE  /\ walk'.stage = "page" =>
                  \A a \in walk'.steady : Rank(a)' < walk'.offset => walk'.seen[a] > 0
             /\ walk'.stage = "ended" /\ walk'.limit > 0 => AllSeen'
  BY <1>1, <1>4, <1>5, <1>6, <1>7, <1>9 DEF AllSeen
<1>10. ASSUME ~walk'.grew
       PROVE  /\ \A a \in Ids : walk'.seen[a] <= 1
              /\ \A a \in selected' : walk'.seen[a] > 0 => Rank(a)' < walk'.offset
  BY <1>1, <1>2, <1>5, <1>6, <1>8, <1>10
<1> QED
  BY <1>9, <1>10 DEF CollectionInv

LEMMA ClientCollection ==
  ASSUME StateInv, CollectionInv, Client
  PROVE  CollectionInv'
<1>1. ASSUME NEW kind \in {"assets", "collection"}, NEW dir \in Dirs, NEW limit \in Limits,
             Begin(kind, dir, limit)
      PROVE  CollectionInv'
  <2>1. /\ walk'.stage = "page" /\ walk'.offset = 0
        /\ walk'.steady = selected /\ selected' = selected
        /\ \A a \in Ids : walk'.seen[a] = 0
        /\ key' = key
    BY <1>1, BeginFields
  <2>2. selected \in SUBSET Ids
    BY DEF StateInv, ListingTypeOK
  <2>3. \A a \in Ids : Rank(a)' \in Nat
    BY <2>1, <2>2, RankGrows
  <2> QED
    BY <2>1, <2>2, <2>3 DEF CollectionInv
<1>2. ASSUME List PROVE CollectionInv'
  <2>1. walk'.kind = "assets"
    BY <1>2, ListPages, PagedFields
  <2> QED
    BY <2>1 DEF CollectionInv
<1>3. ASSUME Search PROVE CollectionInv'
  <2>1. walk'.kind = "assets"
    BY <1>3, SearchFields DEF Search, StateInv
  <2> QED
    BY <2>1 DEF CollectionInv
<1>4. ASSUME ListAssets PROVE CollectionInv'
  BY <1>4, OffsetPages, OffsetCollection
<1>5. ASSUME GiveUp PROVE CollectionInv'
  <2>1. walk'.stage = "off"
    BY <1>5, OffFields DEF GiveUp
  <2> QED
    BY <2>1 DEF CollectionInv
<1> QED
  BY <1>1, <1>2, <1>3, <1>4, <1>5 DEF Client, NextPage, Dirs

-----------------------------------------------------------------------------
(***************************************************************************)
(* The invariant, and the theorems.                                        *)
(***************************************************************************)
ListingInv == StateInv /\ CursorInv /\ TotalInv /\ CollectionInv

LEMMA ListingInit == InitListing => ListingInv
<1> SUFFICES ASSUME InitListing PROVE ListingInv
  OBVIOUS
<1>1. walk.stage = "off" /\ walk.kind # "collection"
  BY DEF InitListing, Off
<1> QED
  BY <1>1, InitState DEF ListingInv, CursorInv, TotalInv, CollectionInv

LEMMA ListingStep == ListingInv /\ [NextListing]_listing => ListingInv'
<1> SUFFICES ASSUME ListingInv, [NextListing]_listing PROVE ListingInv'
  OBVIOUS
<1>1. CASE \/ \E a \in Ids : Upload(a) \/ DeleteAsset(a) \/ Enter(a)
           \/ \E S \in SUBSET Ids : Leave(S)
  BY <1>1, RowsStep, RowsState, RowsCursor, RowsTotal, RowsCollection DEF ListingInv
<1>2. CASE Client
  BY <1>2, ClientState, ClientCursor, ClientTotal, ClientCollection DEF ListingInv
<1>3. CASE UNCHANGED listing
  <2>1. StateInv'
    BY <1>3, StateStep DEF ListingInv
  <2>2. CursorInv' /\ TotalInv'
    BY <1>3 DEF listing, ListingInv, CursorInv, TotalInv, At, AllAccounted, PassedOver, ComesBack,
               Before, Beyond
  <2>3. CollectionInv'
    BY <1>3 DEF listing, ListingInv, CollectionInv, NoTies, Rank, AllSeen
  <2> QED
    BY <2>1, <2>2, <2>3 DEF ListingInv
<1> QED
  BY <1>1, <1>2, <1>3 DEF NextListing

LEMMA ListingHolds == SpecListing => []ListingInv
<1> QED
  BY ListingInit, ListingStep, PTL DEF SpecListing

\* Every variable of the listing keeps its type.
THEOREM ListingTypes == SpecListing => []ListingTypeOK
<1>1. ListingInv => ListingTypeOK
  BY DEF ListingInv, StateInv
<1> QED
  BY <1>1, ListingHolds, PTL

(***************************************************************************)
(* However many assets, page sizes and changes, and however ids and sort   *)
(* keys lie: a client that follows the cursors to the end misses none of   *)
(* what was listed all the while, but what a cursor it had passes over;    *)
(* one that counts its way through a collection that nothing leaves misses *)
(* nothing (asset_repository.go:126-128, 236-240).                         *)
(***************************************************************************)
THEOREM ListingNothingSkipped == SpecListing => []NothingSkipped
<1>1. ListingInv => NothingSkipped
  <2> SUFFICES ASSUME ListingInv, Ended, NEW a \in walk.steady
               PROVE  IF walk.kind = "collection"
                      THEN NoTies /\ ~walk.shrank => walk.seen[a] > 0
                      ELSE walk.seen[a] > 0 \/ PassedOver(a)
    BY DEF NothingSkipped
  <2>1. walk.stage = "ended" /\ walk.limit > 0
    BY DEF Ended
  <2>2. CASE walk.kind = "collection"
    BY <2>1, <2>2 DEF ListingInv, CollectionInv, AllSeen
  <2>3. CASE walk.kind = "assets"
    BY <2>1, <2>3 DEF ListingInv, CursorInv, AllAccounted
  <2> QED
    BY <2>2, <2>3 DEF ListingInv, StateInv, ListingTypeOK, Walk
<1> QED
  BY <1>1, ListingHolds, PTL

(***************************************************************************)
(* And it is shown nothing twice, but what comes back beyond a cursor it   *)
(* had; in a collection nothing if nothing enters it                       *)
(* (asset_repository.go:126-128, other_repositories.go:188-189).           *)
(***************************************************************************)
THEOREM ListingNothingRepeated == SpecListing => []NothingRepeated
<1>1. ListingInv => NothingRepeated
  <2> SUFFICES ASSUME ListingInv, NEW a \in Ids
               PROVE  IF walk.kind = "collection"
                      THEN NoTies /\ ~walk.grew => walk.seen[a] <= 1
                      ELSE walk.seen[a] <= 1 \/ ComesBack(a)
    BY DEF NothingRepeated
  <2>1. CASE walk.stage = "off"
    BY <2>1, OffFields DEF ListingInv, StateInv
  <2>2. CASE walk.stage # "off" /\ walk.kind = "collection"
    BY <2>2 DEF ListingInv, CollectionInv
  <2>3. CASE walk.stage # "off" /\ walk.kind = "assets"
    BY <2>3 DEF ListingInv, CursorInv
  <2> QED
    BY <2>1, <2>2, <2>3 DEF ListingInv, StateInv, ListingTypeOK, Walk
<1> QED
  BY <1>1, ListingHolds, PTL

(***************************************************************************)
(* If nothing comes or goes, the total of a search's first page is the     *)
(* number of assets the walk shows, and of those its cursors pass over     *)
(* (asset_repository.go:248-276).                                          *)
(***************************************************************************)
THEOREM ListingTotalIsShown == SpecListing => []TotalIsShown
<1>1. ListingInv => TotalIsShown
  <2> DEFINE S == {a \in Ids : walk.seen[a] > 0 \/ (a \in walk.steady /\ PassedOver(a))}
  <2> SUFFICES ASSUME ListingInv, Ended, walk.total # Null, ~walk.grew, ~walk.shrank
               PROVE  walk.total = Cardinality(S)
    BY DEF TotalIsShown
  <2>1. walk.stage = "ended" /\ walk.limit > 0 /\ walk.kind = "assets" /\ walk.steady \in SUBSET Ids
    BY DEF Ended, ListingInv, TotalInv, StateInv, ListingTypeOK, Walk
  <2>2. AllAccounted
    BY <2>1 DEF ListingInv, CursorInv
  <2>3. \A a \in Ids : walk.seen[a] > 0 => a \in walk.steady
    BY <2>1 DEF ListingInv, TotalInv
  <2>4. S = walk.steady
    BY <2>1, <2>2, <2>3 DEF AllAccounted
  <2> HIDE DEF S
  <2> QED
    BY <2>1, <2>4 DEF ListingInv, TotalInv
<1> QED
  BY <1>1, ListingHolds, PTL

-----------------------------------------------------------------------------
(***************************************************************************)
(* The requests of AssetLibrary, as a listing sees them.                   *)
(***************************************************************************)
LEMMA StutterListing ==
  ASSUME RowsNoted, UNCHANGED <<key, table, selected>>
  PROVE  UNCHANGED listing
BY DEF RowsNoted, listing

\* What the walk notes of a row that comes, and of rows that go.
LEMMA EnterListing ==
  ASSUME StateInv, RowsNoted, UNCHANGED <<key, table>>, NEW a \in Ids, table[a] = "live",
         a \notin selected, selected' = selected \cup {a}
  PROVE  Enter(a)
<1>1. /\ walk \in Walk /\ walk.steady \subseteq selected
      /\ walk.grew \in BOOLEAN /\ walk.shrank \in BOOLEAN
  BY DEF StateInv, ListingTypeOK, Walk
<1>2. /\ selected' # selected
      /\ walk.steady \cap selected' = walk.steady
      /\ (walk.grew \/ ~(selected' \subseteq selected)) = TRUE
      /\ (walk.shrank \/ ~(selected \subseteq selected')) = walk.shrank
  BY <1>1
<1>3. CASE Walking
  <2>1. walk' = [walk EXCEPT !.steady = walk.steady, !.grew = TRUE, !.shrank = walk.shrank]
    BY <1>2, <1>3 DEF RowsNoted
  <2>2. walk' = [walk EXCEPT !.grew = TRUE]
    BY <1>1, <2>1 DEF Walk
  <2> QED
    BY <1>3, <2>2 DEF Enter, NoteEntry, Noted
<1>4. CASE ~Walking
  BY <1>2, <1>4 DEF RowsNoted, Enter, NoteEntry, Noted
<1> QED
  BY <1>3, <1>4

LEMMA ExitNoted ==
  ASSUME StateInv, RowsNoted, NEW S, S # {}, S \subseteq selected, selected' = selected \ S
  PROVE  NoteExit(S)
<1>1. /\ walk \in Walk /\ walk.steady \subseteq selected
      /\ walk.grew \in BOOLEAN /\ walk.shrank \in BOOLEAN
  BY DEF StateInv, ListingTypeOK, Walk
<1>2. /\ selected' # selected
      /\ walk.steady \cap selected' = walk.steady \ S
      /\ (walk.grew \/ ~(selected' \subseteq selected)) = walk.grew
      /\ (walk.shrank \/ ~(selected \subseteq selected')) = TRUE
  BY <1>1
<1>3. CASE Walking
  <2>1. walk' = [walk EXCEPT !.steady = walk.steady \ S, !.grew = walk.grew, !.shrank = TRUE]
    BY <1>2, <1>3 DEF RowsNoted
  <2>2. walk' = [walk EXCEPT !.steady = walk.steady \ S, !.shrank = TRUE]
    BY <1>1, <2>1 DEF Walk
  <2> QED
    BY <1>3, <2>2 DEF NoteExit, Noted
<1>4. CASE ~Walking
  BY <1>2, <1>4 DEF RowsNoted, NoteExit, Noted
<1> QED
  BY <1>3, <1>4

LEMMA LeaveListing ==
  ASSUME StateInv, RowsNoted, UNCHANGED <<key, table>>, selected' \subseteq selected
  PROVE  [NextListing]_listing
<1>1. CASE selected' = selected
  BY <1>1, StutterListing
<1>2. CASE selected' # selected
  <2> DEFINE S == selected \ selected'
  <2>1. S # {} /\ S \subseteq selected /\ selected' = selected \ S
    BY <1>2
  <2>2. S \in SUBSET Ids
    BY DEF StateInv, ListingTypeOK
  <2> HIDE DEF S
  <2>3. Leave(S)
    BY <2>1, ExitNoted DEF Leave
  <2> QED
    BY <2>2, <2>3 DEF NextListing
<1> QED
  BY <1>1, <1>2

LEMMA DeleteListing ==
  ASSUME StateInv, RowsNoted, UNCHANGED key, NEW a \in Ids, table[a] = "live",
         table' = [table EXCEPT ![a] = "deleted"], selected' = selected \ {a}
  PROVE  DeleteAsset(a)
<1>1. CASE a \in selected
  <2>1. NoteExit({a})
    BY <1>1, ExitNoted
  <2> QED
    BY <1>1, <2>1 DEF DeleteAsset
<1>2. CASE a \notin selected
  <2>1. /\ walk \in Walk /\ walk.steady \subseteq selected
        /\ walk.grew \in BOOLEAN /\ walk.shrank \in BOOLEAN
    BY DEF StateInv, ListingTypeOK, Walk
  <2>2. table'[a] = "deleted"
    BY DEF StateInv, ListingTypeOK
  <2>3. /\ table' # table
        /\ walk.steady \cap selected' = walk.steady
        /\ (walk.grew \/ ~(selected' \subseteq selected)) = walk.grew
        /\ (walk.shrank \/ ~(selected \subseteq selected')) = walk.shrank
    BY <1>2, <2>1, <2>2
  <2>4. Noted(walk)
    <3>1. CASE Walking
      <4>1. walk' = [walk EXCEPT !.steady = walk.steady, !.grew = walk.grew, !.shrank = walk.shrank]
        BY <2>3, <3>1 DEF RowsNoted
      <4>2. walk' = walk
        BY <2>1, <4>1 DEF Walk
      <4> QED
        BY <3>1, <4>2 DEF Noted
    <3>2. CASE ~Walking
      BY <2>3, <3>2 DEF RowsNoted, Noted
    <3> QED
      BY <3>1, <3>2
  <2> QED
    BY <1>2, <2>4 DEF DeleteAsset
<1> QED
  BY <1>1, <1>2

\* What a request does to the assets table: nothing, or it files an asset, deletes
\* one, or empties folders.
LEMMA RequestRows ==
  ASSUME TypeOK, Next
  PROVE  \/ assets' = assets
         \/ \E a \in Assets, i \in FolderIds \cup {None} :
              assets' = [assets EXCEPT ![a].folder = i]
         \/ \E a \in Assets : assets' = [assets EXCEPT ![a].deleted = TRUE]
         \/ \E gone \in SUBSET FolderIds :
              assets' = [a \in Assets |->
                IF assets[a].folder \in gone THEN [assets[a] EXCEPT !.folder = None]
                ELSE assets[a]]
<1>1. PICK h \in Handlers :
        \/ \E o \in Orgs, s \in Slugs : BeginCreate(h, o, s)
        \/ InsertFolder(h)
        \/ \E o \in Orgs, i \in FolderIds : BeginRename(h, o, i)
        \/ WriteFolder(h)
        \/ \E o \in Orgs, i \in FolderIds : BeginDrop(h, o, i)
        \/ DropFolder(h)
        \/ \E o \in Orgs, a \in Assets : BeginEdit(h, o, a)
        \/ \E o \in Orgs, a \in Assets, i \in FolderIds \cup {None} : BeginMove(h, o, a, i)
        \/ \E o \in Orgs, a \in Assets : BeginRemove(h, o, a)
        \/ WriteAsset(h)
        \/ SoftDelete(h)
        \/ Publish(h)
        \/ Abandon(h)
  BY DEF Next
<1>2. job[h] \in Job
  BY DEF TypeOK
<1>3. CASE WriteAsset(h)
  <2>1. job[h].asset \in Assets /\ job[h].folder \in FolderIds \cup {None}
    BY <1>2, <1>3, JobFields DEF WriteAsset
  <2> QED
    BY <1>3, <2>1 DEF WriteAsset
<1>4. CASE SoftDelete(h)
  <2>1. job[h].asset \in Assets
    BY <1>2, <1>4, JobFields DEF SoftDelete
  <2> QED
    BY <1>4, <2>1 DEF SoftDelete
<1>5. CASE DropFolder(h)
  <2>1. Subtree(job[h].id) \in SUBSET FolderIds
    BY <1>2, <1>5, JobFields, SubtreeClosed DEF DropFolder
  <2>2. assets' = [a \in Assets |->
          IF assets[a].folder \in Subtree(job[h].id) THEN [assets[a] EXCEPT !.folder = None]
          ELSE assets[a]]
    BY <1>5 DEF DropFolder
  <2> QED
    BY <2>1, <2>2
<1> QED
  BY <1>1, <1>3, <1>4, <1>5 DEF BeginCreate, InsertFolder, BeginRename, WriteFolder, BeginDrop,
       BeginEdit, BeginMove, BeginRemove, Publish, Abandon

LEMMA RequestListing ==
  ASSUME SameAssets, TypeOK, StateInv, table = Stored, selected = Listed, Request
  PROVE  [NextListing]_listing
<1>1. /\ RowsNoted /\ key' = key /\ table' = Stored' /\ selected' = Listed'
      /\ Next
  BY DEF Request
<1>2. Ids = Assets
  BY DEF SameAssets
<1>3. \A a \in Assets : /\ assets[a] \in AssetRow
                        /\ assets[a].deleted \in BOOLEAN
                        /\ table[a] = IF assets[a].deleted THEN "deleted" ELSE "live"
                        /\ a \in selected <=> /\ assets[a].org = ListedOrg /\ ~assets[a].deleted
                                              /\ ListedFolder # None
                                                     => assets[a].folder = ListedFolder
  BY DEF TypeOK, AssetRow, Stored, Listed
<1>4. \A a \in Assets : a \in selected' <=>
        /\ assets'[a].org = ListedOrg /\ ~assets'[a].deleted
        /\ ListedFolder # None => assets'[a].folder = ListedFolder
  BY <1>1 DEF Listed
<1>5. /\ table' = [a \in Assets |-> IF assets'[a].deleted THEN "deleted" ELSE "live"]
      /\ table = [a \in Assets |-> IF assets[a].deleted THEN "deleted" ELSE "live"]
      /\ selected \in SUBSET Assets /\ selected' \in SUBSET Assets
  BY <1>1 DEF Stored, Listed
<1>6. assets \in [Assets -> AssetRow]
  BY DEF TypeOK
<1>7. CASE assets' = assets
  <2>1. table' = table /\ selected' = selected
    BY <1>3, <1>4, <1>5, <1>7
  <2> QED
    BY <1>1, <2>1, StutterListing
<1>8. ASSUME NEW a \in Assets, NEW i \in FolderIds \cup {None},
             assets' = [assets EXCEPT ![a].folder = i]
      PROVE  [NextListing]_listing
  <2>1. /\ assets'[a].org = assets[a].org /\ assets'[a].deleted = assets[a].deleted
        /\ assets'[a].folder = i
        /\ \A b \in Assets \ {a} : assets'[b] = assets[b]
    BY <1>3, <1>6, <1>8 DEF AssetRow
  <2>2. table' = table
    BY <1>5, <2>1
  <2>3. \A b \in Assets \ {a} : b \in selected' <=> b \in selected
    BY <1>3, <1>4, <2>1
  <2>4. CASE a \in selected' /\ a \notin selected
    <3>1. selected' = selected \cup {a}
      BY <1>5, <2>3, <2>4
    <3>2. table[a] = "live"
      BY <1>3, <1>4, <2>1, <2>4
    <3>3. Enter(a)
      BY <1>1, <1>2, <2>2, <2>4, <3>1, <3>2, EnterListing
    <3> QED
      BY <1>2, <3>3 DEF NextListing
  <2>5. CASE ~(a \in selected' /\ a \notin selected)
    <3>1. selected' \subseteq selected
      BY <1>5, <2>3, <2>5
    <3> QED
      BY <1>1, <2>2, <3>1, LeaveListing
  <2> QED
    BY <2>4, <2>5
<1>9. ASSUME NEW a \in Assets, assets' = [assets EXCEPT ![a].deleted = TRUE]
      PROVE  [NextListing]_listing
  <2>1. /\ assets'[a].deleted
        /\ \A b \in Assets \ {a} : assets'[b] = assets[b]
    BY <1>3, <1>6, <1>9 DEF AssetRow
  <2>2. selected' = selected \ {a}
    BY <1>3, <1>4, <1>5, <2>1
  <2>3. table' = [table EXCEPT ![a] = "deleted"]
    BY <1>5, <2>1
  <2>4. CASE assets[a].deleted
    <3>1. table' = table /\ selected' = selected
      BY <1>3, <1>5, <2>1, <2>2, <2>4
    <3> QED
      BY <1>1, <3>1, StutterListing
  <2>5. CASE ~assets[a].deleted
    <3>1. DeleteAsset(a)
      BY <1>1, <1>2, <1>3, <2>2, <2>3, <2>5, DeleteListing
    <3> QED
      BY <1>2, <3>1 DEF NextListing
  <2> QED
    BY <2>4, <2>5
<1>10. ASSUME NEW gone \in SUBSET FolderIds,
              assets' = [a \in Assets |->
                IF assets[a].folder \in gone THEN [assets[a] EXCEPT !.folder = None]
                ELSE assets[a]]
       PROVE  [NextListing]_listing
  <2>1. \A a \in Assets :
          /\ assets'[a].org = assets[a].org /\ assets'[a].deleted = assets[a].deleted
          /\ assets'[a].folder \in {None, assets[a].folder}
    <3> TAKE a \in Assets
    <3>1. assets[a] \in AssetRow
      BY <1>3
    <3>2. assets'[a] = IF assets[a].folder \in gone THEN [assets[a] EXCEPT !.folder = None]
                       ELSE assets[a]
      BY <1>10
    <3> QED
      BY <3>1, <3>2 DEF AssetRow
  <2>2. table' = table
    BY <1>5, <2>1
  <2>3. selected' \subseteq selected
    BY <1>3, <1>4, <1>5, <2>1
  <2> QED
    BY <1>1, <2>2, <2>3, LeaveListing
<1> QED
  BY <1>1, <1>7, <1>8, <1>9, <1>10, RequestRows

\* The listing shows what is stored.
ListedInv == TypeOK /\ table = Stored /\ selected = Listed /\ StateInv

LEMMA ListedInit == SameAssets /\ InitBoth => ListedInv /\ InitListing
BY TypeInit, InitState DEF InitBoth, ListedInv

LEMMA ListedStep ==
  ASSUME SameAssets, ListedInv, [NextBoth]_<<vars, listing>>
  PROVE  ListedInv' /\ [NextListing]_listing
<1>1. TypeOK /\ table = Stored /\ selected = Listed /\ StateInv
  BY DEF ListedInv
<1>2. CASE Request
  <2>1. [NextListing]_listing
    BY <1>1, <1>2, RequestListing
  <2>2. TypeOK'
    BY <1>1, <1>2, TypeStep DEF Request
  <2>3. table' = Stored' /\ selected' = Listed'
    BY <1>2 DEF Request
  <2>4. StateInv'
    BY <1>1, <2>1, StateStep
  <2> QED
    BY <2>1, <2>2, <2>3, <2>4 DEF ListedInv
<1>3. CASE Client /\ UNCHANGED vars
  <2>1. [NextListing]_listing
    BY <1>3 DEF NextListing
  <2>2. TypeOK'
    BY <1>1, <1>3, TypeStep
  <2>3. table' = table /\ selected' = selected
    <3>1. ASSUME NEW kind \in {"assets", "collection"}, NEW dir \in Dirs,
                 NEW limit \in Limits, Begin(kind, dir, limit)
          PROVE  table' = table /\ selected' = selected
      BY <3>1 DEF Begin
    <3>2. CASE List
      BY <3>2 DEF List
    <3>3. CASE Search
      BY <3>3 DEF Search
    <3>4. CASE ListAssets
      BY <3>4 DEF ListAssets
    <3>5. CASE GiveUp
      BY <3>5 DEF GiveUp
    <3> QED
      BY Zenon, <1>3, <3>1, <3>2, <3>3, <3>4, <3>5 DEF Client, NextPage,
           Dirs
  <2>4. table' = Stored' /\ selected' = Listed'
    BY <1>1, <1>3, <2>3 DEF vars, Stored, Listed
  <2>5. StateInv'
    BY <1>1, <2>1, StateStep
  <2> QED
    BY <2>1, <2>2, <2>4, <2>5 DEF ListedInv
<1>4. CASE UNCHANGED <<vars, listing>>
  <2>1. UNCHANGED listing /\ UNCHANGED vars /\ UNCHANGED <<table, selected>>
    BY <1>4 DEF listing, listing
  <2>2. TypeOK'
    BY <1>1, <2>1, TypeStep
  <2>3. table' = Stored' /\ selected' = Listed'
    BY <1>1, <2>1 DEF vars, Stored, Listed
  <2>4. StateInv'
    BY <1>1, <2>1, StateStep
  <2> QED
    BY <2>1, <2>2, <2>3, <2>4 DEF ListedInv
<1> QED
  BY <1>2, <1>3, <1>4 DEF NextBoth

(***************************************************************************)
(* Every request on folders and assets is, for the client that walks       *)
(* through a listing, a row that enters, rows that leave, an asset that is *)
(* deleted, or nothing: the folders and assets implement AssetListing.     *)
(***************************************************************************)
THEOREM LibraryImplementsListing ==
  ASSUME SameAssets
  PROVE  SpecBoth => ImplementsListing
<1>1. InitBoth => ListedInv /\ InitListing
  BY ListedInit
<1>2. ListedInv /\ [NextBoth]_<<vars, listing>> => ListedInv' /\ [NextListing]_listing
  BY ListedStep
<1> QED
  BY <1>1, <1>2, PTL DEF SpecBoth, ImplementsListing, SpecListing

(***************************************************************************)
(* Whatever moves, edits, deletions and folder cascades run in between, a  *)
(* client that walks a folder to the end has seen every asset that was in  *)
(* it all the while, and none twice, but for those that stand on the wrong *)
(* side of a cursor it had: only the cursors lose or repeat an asset.      *)
(***************************************************************************)
THEOREM LibraryWalksAreWhole ==
  ASSUME SameAssets
  PROVE  SpecBoth => [](NothingSkipped /\ NothingRepeated)
BY LibraryImplementsListing, ListingNothingSkipped, ListingNothingRepeated,
     PTL DEF ImplementsListing
=============================================================================
