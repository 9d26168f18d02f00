---------------------------- MODULE FolderListing ----------------------------
(***************************************************************************)
(* A client walks through the assets of an organization, or of one of its  *)
(* folders (GET /assets, GET /assets?folder_id=...), while the requests of *)
(* AssetLibrary move, edit and delete assets and delete folders.           *)
(*                                                                         *)
(* AssetListing knows nothing of folders: rows enter its listing and leave *)
(* it, one at a time or several together.  Here what enters and leaves is  *)
(* what the statements of AssetLibrary do to the rows that the listing's   *)
(* conditions select (asset_repository.go:174-187).                        *)
(***************************************************************************)
EXTENDS AssetLibrary, AssetListing

CONSTANTS ListedOrg,     \* the client's organization
          ListedFolder   \* the folder_id it asks for, None if it asks for none

\* The two modules speak of the same assets, whose ids have an order.
SameAssets == Assets = Ids

\* deleted_at of the rows.
Stored == [a \in Assets |-> IF assets[a].deleted THEN "deleted" ELSE "live"]

\* The conditions on org_id, deleted_at and folder_id.
Listed ==
  {a \in Assets : /\ assets[a].org = ListedOrg /\ ~assets[a].deleted
                  /\ ListedFolder # None => assets[a].folder = ListedFolder}

InitBoth ==
  /\ Init
  /\ table = Stored /\ selected = Listed
  /\ InitListing

\* What the properties of AssetListing ask of the past: which rows have been there
\* since the walk began, and whether any came or went.
RowsNoted ==
  walk' = IF table' = table /\ selected' = selected THEN walk
          ELSE IF Walking
          THEN [walk EXCEPT !.steady = @ \cap selected',
                            !.grew = @ \/ ~(selected' \subseteq selected),
                            !.shrank = @ \/ ~(selected \subseteq selected')]
          ELSE Off

Request ==
  /\ Next
  /\ table' = Stored' /\ selected' = Listed'
  /\ RowsNoted
  /\ UNCHANGED key

NextBoth ==
  \/ Request
  \/ Client /\ UNCHANGED vars

SpecBoth == InitBoth /\ [][NextBoth]_<<vars, listing>>

-----------------------------------------------------------------------------
(***************************************************************************)
(* Whatever the requests on assets and folders do, all the listing sees of *)
(* it is that a row enters, that one or more leave, and that a deleted row *)
(* does not come back: what is said of every walk holds of this one        *)
(* (asset_service.go:181-227, folder_tag_collection_service.go:76-84).     *)
(***************************************************************************)
ImplementsListing == SpecListing
=============================================================================
