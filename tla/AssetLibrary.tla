---------------------------- MODULE AssetLibrary ----------------------------
(***************************************************************************)
(* The folders of the organizations and the assets filed in them           *)
(* (folder_tag_collection_service.go:24-111, asset_service.go:163-227).    *)
(*                                                                         *)
(* Every request reads a row, checks it, and writes later.  What it wrote  *)
(* about may have gone by then: the foreign keys refuse an insert under a  *)
(* folder that was deleted, while an update by id of a row that was        *)
(* deleted changes nothing and succeeds.  An asset's row is written back   *)
(* with the folder that was read.                                          *)
(*                                                                         *)
(* A path is the sequence of its slugs: slugs contain no "/", so joining   *)
(* them loses nothing.  A folder's name, an asset's metadata and visibility *)
(* are left out, as nothing depends on them: a request that changes them   *)
(* matters here for the other columns it writes, or does not write.  The   *)
(* Mutant... operators are slips that break a property; no specification   *)
(* uses them.                                                              *)
(***************************************************************************)
EXTENDS Naturals, Sequences

CONSTANTS Handlers,    \* concurrent requests
          Orgs,
          FolderIds,   \* ids of folder rows
          Assets,      \* uploaded assets
          Slugs,       \* the slugs of the names in the requests
          None

Path == Seq(Slugs)

FolderRow == [org : Orgs, parent : FolderIds \cup {None}, path : Path]

AssetRow == [org : Orgs, folder : FolderIds \cup {None}, deleted : BOOLEAN]

ASSUME LibraryAssumption == None \notin FolderIds /\ None \notin FolderRow

VARIABLES folders,   \* the folders table: None where an id has no row
          assets,    \* the assets table
          events,    \* what the publisher was told: pairs of event type and asset
          job        \* what each request is about to write

vars == <<folders, assets, events, job>>

-----------------------------------------------------------------------------
Creating == [op : {"create"}, org : Orgs, parent : FolderIds \cup {None}, path : Path]
Renaming == [op : {"rename"}, id : FolderIds]
Dropping == [op : {"drop"}, id : FolderIds]
Filing   == [op : {"edit", "move"}, asset : Assets, folder : FolderIds \cup {None}]
Removing == [op : {"remove", "updated", "deleted"}, asset : Assets]

Idle == [op |-> "idle"]

Goto(h, j) == job' = [job EXCEPT ![h] = j]

\* The ids that have a row.
Live == {i \in FolderIds : folders[i] # None}

\* A foreign key to a folder: NULL, or the id of a row.
References(i) == i = None \/ i \in Live

\* GetFolder: the row must be there and belong to the requester.
GetFolder(o, i) == i \in Live /\ folders[i].org = o

\* GetAsset: soft-deleted assets are not found either.
GetAsset(o, a) == assets[a].org = o /\ ~assets[a].deleted

Init ==
  /\ folders = [i \in FolderIds |-> None]
  /\ \E owner \in [Assets -> Orgs] :
       assets = [a \in Assets |-> [org |-> owner[a], folder |-> None, deleted |-> FALSE]]
  /\ events = {}
  /\ job = [h \in Handlers |-> Idle]

-----------------------------------------------------------------------------
\* uuid.New(): an id no row and no request mentions is as good as a new one.
Fresh(i) ==
  /\ i \notin Live
  /\ \A a \in Assets : assets[a].folder # i
  /\ \A h \in Handlers :
       /\ job[h] \in Creating => job[h].parent # i
       /\ job[h] \in Renaming \cup Dropping => job[h].id # i
       /\ job[h] \in Filing => job[h].folder # i

\* The organization of the parent is not compared with the requester's.
MutantBeginCreate(h, o, s) ==
  /\ job[h] = Idle
  /\ \/ Goto(h, [op |-> "create", org |-> o, parent |-> None, path |-> <<s>>])
     \/ \E p \in Live :
          Goto(h, [op |-> "create", org |-> o, parent |-> p,
                   path |-> Append(folders[p].path, s)])
  /\ UNCHANGED <<folders, assets, events>>

BeginCreate(h, o, s) ==
  /\ job[h] = Idle
  /\ \/ Goto(h, [op |-> "create", org |-> o, parent |-> None, path |-> <<s>>])
     \/ \E p \in FolderIds :
          /\ GetFolder(o, p)
          /\ Goto(h, [op |-> "create", org |-> o, parent |-> p,
                      path |-> Append(folders[p].path, s)])
  /\ UNCHANGED <<folders, assets, events>>

\* The insert, under REFERENCES folders(id) and UNIQUE(org_id, path).
InsertFolder(h) ==
  /\ job[h] \in Creating
  /\ References(job[h].parent)
  /\ \A i \in Live : folders[i].org = job[h].org => folders[i].path # job[h].path
  /\ \E i \in FolderIds :
       /\ Fresh(i)
       /\ folders' = [folders EXCEPT ![i] =
            [org |-> job[h].org, parent |-> job[h].parent, path |-> job[h].path]]
  /\ Goto(h, Idle)
  /\ UNCHANGED <<assets, events>>

BeginRename(h, o, i) ==
  /\ job[h] = Idle
  /\ GetFolder(o, i)
  /\ Goto(h, [op |-> "rename", id |-> i])
  /\ UNCHANGED <<folders, assets, events>>

\* The last segment of the folder's own path follows its name.
MutantWriteFolder(h) ==
  /\ job[h] \in Renaming
  /\ job[h].id \in Live
  /\ \E s \in Slugs :
       folders' = [folders EXCEPT ![job[h].id].path[Len(folders[job[h].id].path)] = s]
  /\ Goto(h, Idle)
  /\ UNCHANGED <<assets, events>>

\* UPDATE ... SET name: with or without a row, the path stays what it was.
WriteFolder(h) ==
  /\ job[h] \in Renaming
  /\ Goto(h, Idle)
  /\ UNCHANGED <<folders, assets, events>>

BeginDrop(h, o, i) ==
  /\ job[h] = Idle
  /\ GetFolder(o, i)
  /\ Goto(h, [op |-> "drop", id |-> i])
  /\ UNCHANGED <<folders, assets, events>>

\* The folder and its children, and not what lies below them.
MutantSubtree(i) == {i} \cup {j \in Live : folders[j].parent = i}

\* What ON DELETE CASCADE deletes with i: the least set that holds i and the
\* children of its members.
Subtree(i) ==
  {k \in FolderIds :
     \A S \in SUBSET FolderIds :
       (i \in S /\ \A j \in Live : folders[j].parent \in S => j \in S) => k \in S}

\* The delete: one statement, with its cascade and ON DELETE SET NULL.
DropFolder(h) ==
  /\ job[h] \in Dropping
  /\ LET gone == Subtree(job[h].id)
     IN  /\ folders' = [i \in FolderIds |-> IF i \in gone THEN None ELSE folders[i]]
         /\ assets' = [a \in Assets |->
              IF assets[a].folder \in gone THEN [assets[a] EXCEPT !.folder = None]
              ELSE assets[a]]
  /\ Goto(h, Idle)
  /\ UNCHANGED events

-----------------------------------------------------------------------------
\* UpdateMetadata reads the whole row; its folder is written back.
BeginEdit(h, o, a) ==
  /\ job[h] = Idle
  /\ GetAsset(o, a)
  /\ Goto(h, [op |-> "edit", asset |-> a, folder |-> assets[a].folder])
  /\ UNCHANGED <<folders, assets, events>>

\* MoveAsset takes the target from the request as it is.
BeginMove(h, o, a, i) ==
  /\ job[h] = Idle
  /\ GetAsset(o, a)
  /\ Goto(h, [op |-> "move", asset |-> a, folder |-> i])
  /\ UNCHANGED <<folders, assets, events>>

BeginRemove(h, o, a) ==
  /\ job[h] = Idle
  /\ GetAsset(o, a)
  /\ Goto(h, [op |-> "remove", asset |-> a])
  /\ UNCHANGED <<folders, assets, events>>

\* All columns are written back as they were read, deleted_at with them.
MutantWriteAsset(h) ==
  /\ job[h] \in Filing
  /\ References(job[h].folder)
  /\ assets' = [assets EXCEPT ![job[h].asset].folder = job[h].folder,
                              ![job[h].asset].deleted = FALSE]
  /\ IF job[h].op = "edit" THEN Goto(h, [op |-> "updated", asset |-> job[h].asset])
     ELSE Goto(h, Idle)
  /\ UNCHANGED <<folders, events>>

\* No foreign key on folder_id.
MutantWriteUnchecked(h) ==
  /\ job[h] \in Filing
  /\ assets' = [assets EXCEPT ![job[h].asset].folder = job[h].folder]
  /\ IF job[h].op = "edit" THEN Goto(h, [op |-> "updated", asset |-> job[h].asset])
     ELSE Goto(h, Idle)
  /\ UNCHANGED <<folders, events>>

\* The updates of UpdateMetadata and MoveAsset, under REFERENCES folders(id).
\* They write by id, whether or not the asset was deleted meanwhile.
WriteAsset(h) ==
  /\ job[h] \in Filing
  /\ References(job[h].folder)
  /\ assets' = [assets EXCEPT ![job[h].asset].folder = job[h].folder]
  /\ \/ job[h].op = "edit" /\ Goto(h, [op |-> "updated", asset |-> job[h].asset])
     \/ job[h].op = "move" /\ Goto(h, Idle)
  /\ UNCHANGED <<folders, events>>

SoftDelete(h) ==
  /\ job[h] \in Removing /\ job[h].op = "remove"
  /\ assets' = [assets EXCEPT ![job[h].asset].deleted = TRUE]
  /\ Goto(h, [op |-> "deleted", asset |-> job[h].asset])
  /\ UNCHANGED <<folders, events>>

\* asset.updated or asset.deleted, once the row is written.
Publish(h) ==
  /\ job[h] \in Removing /\ job[h].op # "remove"
  /\ events' = events \cup {<<job[h].op, job[h].asset>>}
  /\ Goto(h, Idle)
  /\ UNCHANGED <<folders, assets>>

\* A statement is refused or fails, the event is lost, the process exits.
Abandon(h) ==
  /\ job[h] # Idle
  /\ Goto(h, Idle)
  /\ UNCHANGED <<folders, assets, events>>

Next ==
  \E h \in Handlers :
    \/ \E o \in Orgs, s \in Slugs : BeginCreate(h, o, s)
    \/ InsertFolder(h)
    \/ \E o \in Orgs, i \in FolderIds : BeginRename(h, o, i)
    \/ WriteFolder(h)
    \/ \E o \in Orgs, i \in FolderIds : BeginDrop(h, o, i)
    \/ DropFolder(h)
    \/ \E o \in Orgs, a \in Assets : BeginEdit(h, o, a)
    \/ \E o \in Orgs, a \in Assets, i \in FolderIds \cup {None} : BeginMove(h, o, a, i)
    \/ \E o \in Orgs, a \in Assets : BeginRemove(h, o, a)
    \/ WriteAsset(h)
    \/ SoftDelete(h)
    \/ Publish(h)
    \/ Abandon(h)

Spec == Init /\ [][Next]_vars

-----------------------------------------------------------------------------
Job == Creating \cup Renaming \cup Dropping \cup Filing \cup Removing \cup {Idle}

TypeOK ==
  /\ folders \in [FolderIds -> FolderRow \cup {None}]
  /\ assets \in [Assets -> AssetRow]
  /\ events \subseteq {"updated", "deleted"} \X Assets
  /\ job \in [Handlers -> Job]

\* A row of organization o under parent p with this path extends the parent's.
Nests(o, p, path) ==
  IF p = None THEN Len(path) = 1
  ELSE /\ folders[p].org = o
       /\ \E s \in Slugs : path = Append(folders[p].path, s)

(***************************************************************************)
(* Every folder lies in a folder of its own organization, and its path is  *)
(* that folder's path and one more slug, however creations, renames and    *)
(* cascading deletions interleave (folder_tag_collection_service.go:24-84).*)
(***************************************************************************)
FoldersNest ==
  \A i \in Live :
    /\ References(folders[i].parent)
    /\ Nests(folders[i].org, folders[i].parent, folders[i].path)

\* No two folders of an organization have one path.
PathsUnique ==
  \A i, j \in Live :
    folders[i].org = folders[j].org /\ folders[i].path = folders[j].path => i = j

\* A creation that has read its parent still fits it, if it is still there.
CreatesNest ==
  \A h \in Handlers :
    job[h] \in Creating /\ References(job[h].parent)
      => Nests(job[h].org, job[h].parent, job[h].path)

(***************************************************************************)
(* The inductive invariant of the folder table.                            *)
(***************************************************************************)
TreeInv == TypeOK /\ FoldersNest /\ PathsUnique /\ CreatesNest

(***************************************************************************)
(* An asset is in no folder or in one that exists, although an edit writes *)
(* back the folder it read before a deletion (asset_service.go:187-196).   *)
(***************************************************************************)
FiledInFolders == \A a \in Assets : References(assets[a].folder)

\* The ids buildFolderTree lists below p in organization o, level by level.
buildFolderTree(o, p) ==
  LET children(q) == {i \in Live : folders[i].org = o /\ folders[i].parent = q}
      below[q \in FolderIds \cup {None}] ==
        children(q) \cup UNION {below[i] : i \in children(q)}
  IN  below[p]

(***************************************************************************)
(* The "full folder tree" of an organization shows every folder it has:    *)
(* each can be reached from a root (folder_tag_collection_service.go:90).  *)
(***************************************************************************)
TreeShowsAll ==
  \A o \in Orgs : buildFolderTree(o, None) = {i \in Live : folders[i].org = o}

(***************************************************************************)
(* A soft-deleted asset stays deleted, whatever requests that read it      *)
(* before still write (asset_service.go:181-227).                          *)
(***************************************************************************)
DeletionIsFinal ==
  [][\A a \in Assets : assets[a].deleted => assets'[a].deleted]_vars

(***************************************************************************)
(* asset.deleted is only announced of an asset that is deleted             *)
(* (asset_service.go:211-217).                                             *)
(***************************************************************************)
DeletedEventsAreTrue ==
  \A a \in Assets : <<"deleted", a>> \in events => assets[a].deleted
=============================================================================
