------------------------------- MODULE Tagging -------------------------------
(***************************************************************************)
(* Tags, collections and what they are attached to                         *)
(* (folder_tag_collection_service.go:118-247, other_repositories.go,       *)
(* asset_repository.go:140-161, v1/tags.go, v1/collections.go).            *)
(*                                                                         *)
(* Every write reads the row it is about, compares the organization, and   *)
(* then runs statements that name it by id only, without a transaction:    *)
(* one per tag for a request that attaches or detaches several.  Foreign   *)
(* keys with ON DELETE CASCADE tie asset_tags and collection_assets to the *)
(* rows on both sides.                                                     *)
(*                                                                         *)
(* The tags of a request are a set: repeating one changes nothing, and any *)
(* order of the list is an order of choices.  Of an asset the organization *)
(* matters: its row stays when it is deleted, and is found here all the    *)
(* same.  Abandon is any other error return and any crash.  The Mutant...  *)
(* operators are slips that break a property; no specification uses them.  *)
(***************************************************************************)
EXTENDS Naturals

CONSTANTS Handlers,     \* concurrent requests
          Orgs,
          Assets,
          Tags,         \* ids of tags
          Slugs,        \* what slugify makes of tags' names
          Collections,  \* ids of collections
          Texts,        \* names and descriptions of collections
          None

Tag == [org : Orgs, slug : Slugs]
Collection == [org : Orgs, text : Texts]

ASSUME TaggingAssumption == None \notin Orgs \cup Tag \cup Collection

VARIABLES assets,       \* whose each asset is: None where an id has no row
          tags,         \* the tags table
          collections,  \* the collections table
          asset_tags,   \* pairs of an asset and a tag
          collection_assets,  \* pairs of a collection and an asset
          job           \* what each request is about to do

vars == <<assets, tags, collections, asset_tags, collection_assets, job>>

-----------------------------------------------------------------------------
Idle == [op |-> "idle"]

\* "others", for the properties: the tags that others have attached, detached
\* or deleted on the asset since the request read it.
Linking == [op : {"tag", "untag"}, org : Orgs, asset : Assets, asked : SUBSET Tags,
            todo : SUBSET Tags, others : SUBSET Tags]
OnTag   == [op : {"dropTag"}, org : Orgs, tag : Tags]
OnCollection == [op : {"drop", "write"}, org : Orgs, collection : Collections, text : Texts]
Filing  == [op : {"add", "remove"}, org : Orgs, collection : Collections, asset : Assets]

Goto(h, j) == job' = [job EXCEPT ![h] = j]

Init ==
  /\ assets = [a \in Assets |-> None]
  /\ tags = [t \in Tags |-> None]
  /\ collections = [c \in Collections |-> None]
  /\ asset_tags = {}
  /\ collection_assets = {}
  /\ job = [h \in Handlers |-> Idle]

\* uuid.New(): ids that no row and no request mentions.
FreshTag(t) ==
  /\ tags[t] = None
  /\ \A h \in Handlers :
       /\ job[h] \in OnTag => job[h].tag # t
       /\ job[h] \in Linking => t \notin job[h].asked
FreshCollection(c) ==
  /\ collections[c] = None
  /\ \A h \in Handlers : job[h] \in OnCollection \cup Filing => job[h].collection # c

-----------------------------------------------------------------------------
\* The asset service inserts a row.
Upload(a, o) ==
  /\ assets[a] = None
  /\ assets' = [assets EXCEPT ![a] = o]
  /\ UNCHANGED <<tags, collections, asset_tags, collection_assets, job>>

-----------------------------------------------------------------------------
\* INSERT under UNIQUE(org_id, slug): another tag of the organization with the
\* slug refuses.
InsertTag(t, row) ==
  /\ row \notin {tags[i] : i \in Tags}
  /\ tags' = [tags EXCEPT ![t] = row]

CreateTag(o, s) ==
  /\ \E t \in Tags : FreshTag(t) /\ InsertTag(t, [org |-> o, slug |-> s])
  /\ UNCHANGED <<assets, collections, asset_tags, collection_assets, job>>

\* The organization is not compared.
MutantOwnTag(o, t) == tags[t] # None

\* GetByID, and the comparison of the organization.
OwnTag(o, t) == tags[t] # None /\ tags[t].org = o

DeleteTag(h, o, t) ==
  /\ job[h] = Idle
  /\ OwnTag(o, t)
  /\ Goto(h, [op |-> "dropTag", org |-> o, tag |-> t])
  /\ UNCHANGED <<assets, tags, collections, asset_tags, collection_assets>>

\* For the properties: every other request about the links notes the change.
Noting(h, links) ==
  [g \in Handlers |->
     IF g # h /\ job[g] \in Linking
     THEN [job[g] EXCEPT !.others = @ \cup {t \in Tags : <<job[g].asset, t>> \in links}]
     ELSE job[g]]

\* Without ON DELETE CASCADE.
MutantDropTag(h) ==
  /\ job[h] \in OnTag
  /\ tags' = [tags EXCEPT ![job[h].tag] = None]
  /\ job' = [job EXCEPT ![h] = Idle]
  /\ UNCHANGED <<assets, collections, asset_tags, collection_assets>>

\* The delete cascades to asset_tags.
DropTag(h) ==
  /\ job[h] \in OnTag
  /\ tags' = [tags EXCEPT ![job[h].tag] = None]
  /\ LET gone == Assets \X {job[h].tag}
     IN  /\ asset_tags' = asset_tags \ gone
         /\ job' = [Noting(h, gone) EXCEPT ![h] = Idle]
  /\ UNCHANGED <<assets, collections, collection_assets>>

\* The asset is looked at, deleted or not; the tags are not.
TagAsset(h, op, o, a, ts) ==
  /\ job[h] = Idle
  /\ assets[a] = o
  /\ Goto(h, [op |-> op, org |-> o, asset |-> a, asked |-> ts, todo |-> ts, others |-> {}])
  /\ UNCHANGED <<assets, tags, collections, asset_tags, collection_assets>>

\* A tag that cannot be attached is passed over.
MutantAddTag(h, t) ==
  /\ job[h] \in Linking /\ job[h].op = "tag" /\ t \in job[h].todo
  /\ LET link == {<<job[h].asset, t>>}
     IN  /\ asset_tags' = asset_tags \cup IF tags[t] # None THEN link ELSE {}
         /\ job' = [Noting(h, link) EXCEPT ![h].todo = @ \ {t}]
  /\ UNCHANGED <<assets, tags, collections, collection_assets>>

\* INSERT ... ON CONFLICT DO NOTHING, under REFERENCES tags(id): the request
\* ends at the first tag that is not there.
AddTag(h, t) ==
  /\ job[h] \in Linking /\ job[h].op = "tag" /\ t \in job[h].todo
  /\ IF tags[t] # None
     THEN LET link == {<<job[h].asset, t>>}
          IN  /\ asset_tags' = asset_tags \cup link
              /\ job' = [Noting(h, link) EXCEPT ![h].todo = @ \ {t}]
     ELSE Goto(h, Idle) /\ UNCHANGED asset_tags
  /\ UNCHANGED <<assets, tags, collections, collection_assets>>

\* DELETE ... WHERE asset_id AND tag_id.
RemoveTag(h, t) ==
  /\ job[h] \in Linking /\ job[h].op = "untag" /\ t \in job[h].todo
  /\ LET link == {<<job[h].asset, t>>}
     IN  /\ asset_tags' = asset_tags \ link
         /\ job' = [Noting(h, link) EXCEPT ![h].todo = @ \ {t}]
  /\ UNCHANGED <<assets, tags, collections, collection_assets>>

\* Nothing is left to do: 204.
Answered(h) == job[h] \in Linking /\ job[h].todo = {}

Finish(h) ==
  /\ Answered(h)
  /\ Goto(h, Idle)
  /\ UNCHANGED <<assets, tags, collections, asset_tags, collection_assets>>

-----------------------------------------------------------------------------
InsertCollection(c, row) == collections' = [collections EXCEPT ![c] = row]

CreateCollection(o, x) ==
  /\ \E c \in Collections : FreshCollection(c) /\ InsertCollection(c, [org |-> o, text |-> x])
  /\ UNCHANGED <<assets, tags, asset_tags, collection_assets, job>>

GetCollection(o, c) == collections[c] # None /\ collections[c].org = o

UpdateCollection(h, o, c, x) ==
  /\ job[h] = Idle
  /\ GetCollection(o, c)
  /\ Goto(h, [op |-> "write", org |-> o, collection |-> c, text |-> x])
  /\ UNCHANGED <<assets, tags, collections, asset_tags, collection_assets>>

\* The row is inserted if it is not there.
MutantWriteCollection(h) ==
  /\ job[h] \in OnCollection /\ job[h].op = "write"
  /\ collections' = [collections EXCEPT ![job[h].collection] =
       [org |-> job[h].org, text |-> job[h].text]]
  /\ Goto(h, Idle)
  /\ UNCHANGED <<assets, tags, asset_tags, collection_assets>>

\* UPDATE ... WHERE id: nothing happens without a row.
WriteCollection(h) ==
  /\ job[h] \in OnCollection /\ job[h].op = "write"
  /\ collections' = [collections EXCEPT ![job[h].collection] =
       IF @ = None THEN None ELSE [@ EXCEPT !.text = job[h].text]]
  /\ Goto(h, Idle)
  /\ UNCHANGED <<assets, tags, asset_tags, collection_assets>>

DeleteCollection(h, o, c) ==
  /\ job[h] = Idle
  /\ GetCollection(o, c)
  /\ Goto(h, [op |-> "drop", org |-> o, collection |-> c, text |-> collections[c].text])
  /\ UNCHANGED <<assets, tags, collections, asset_tags, collection_assets>>

\* The delete cascades to collection_assets.
DropCollection(h) ==
  /\ job[h] \in OnCollection /\ job[h].op = "drop"
  /\ collections' = [collections EXCEPT ![job[h].collection] = None]
  /\ collection_assets' = collection_assets \ ({job[h].collection} \X Assets)
  /\ Goto(h, Idle)
  /\ UNCHANGED <<assets, tags, asset_tags>>

\* AddAsset and RemoveAsset read the collection; the asset is not looked at.
BeginFiling(h, op, o, c, a) ==
  /\ job[h] = Idle
  /\ GetCollection(o, c)
  /\ Goto(h, [op |-> op, org |-> o, collection |-> c, asset |-> a])
  /\ UNCHANGED <<assets, tags, collections, asset_tags, collection_assets>>

\* Without REFERENCES collections(id).
MutantAddAsset(h) ==
  /\ job[h] \in Filing /\ job[h].op = "add"
  /\ collection_assets' = collection_assets \cup {<<job[h].collection, job[h].asset>>}
  /\ Goto(h, Idle)
  /\ UNCHANGED <<assets, tags, collections, asset_tags>>

\* INSERT ... ON CONFLICT DO NOTHING, under references to both rows.
AddAsset(h) ==
  /\ job[h] \in Filing /\ job[h].op = "add"
  /\ collections[job[h].collection] # None /\ assets[job[h].asset] # None
  /\ collection_assets' = collection_assets \cup {<<job[h].collection, job[h].asset>>}
  /\ Goto(h, Idle)
  /\ UNCHANGED <<assets, tags, collections, asset_tags>>

RemoveAsset(h) ==
  /\ job[h] \in Filing /\ job[h].op = "remove"
  /\ collection_assets' = collection_assets \ {<<job[h].collection, job[h].asset>>}
  /\ Goto(h, Idle)
  /\ UNCHANGED <<assets, tags, collections, asset_tags>>

Abandon(h) ==
  /\ job[h] # Idle
  /\ Goto(h, Idle)
  /\ UNCHANGED <<assets, tags, collections, asset_tags, collection_assets>>

Next ==
  \/ \E a \in Assets, o \in Orgs : Upload(a, o)
  \/ \E o \in Orgs, s \in Slugs : CreateTag(o, s)
  \/ \E o \in Orgs, x \in Texts : CreateCollection(o, x)
  \/ \E h \in Handlers :
       \/ \E o \in Orgs, t \in Tags : DeleteTag(h, o, t)
       \/ DropTag(h)
       \/ \E op \in {"tag", "untag"}, o \in Orgs, a \in Assets, ts \in SUBSET Tags :
            TagAsset(h, op, o, a, ts)
       \/ \E t \in Tags : AddTag(h, t) \/ RemoveTag(h, t)
       \/ Finish(h)
       \/ \E o \in Orgs, c \in Collections, x \in Texts : UpdateCollection(h, o, c, x)
       \/ WriteCollection(h)
       \/ \E o \in Orgs, c \in Collections : DeleteCollection(h, o, c)
       \/ DropCollection(h)
       \/ \E op \in {"add", "remove"}, o \in Orgs, c \in Collections, a \in Assets :
            BeginFiling(h, op, o, c, a)
       \/ AddAsset(h)
       \/ RemoveAsset(h)
       \/ Abandon(h)

Spec == Init /\ [][Next]_vars

-----------------------------------------------------------------------------
TypeOK ==
  /\ assets \in [Assets -> Orgs \cup {None}]
  /\ tags \in [Tags -> Tag \cup {None}]
  /\ collections \in [Collections -> Collection \cup {None}]
  /\ asset_tags \subseteq Assets \X Tags
  /\ collection_assets \subseteq Collections \X Assets
  /\ job \in [Handlers -> {Idle} \cup Linking \cup OnTag \cup OnCollection \cup Filing]

(***************************************************************************)
(* Links tie rows that exist, although the request that inserts one read   *)
(* the asset or the collection in an earlier statement and never read the  *)
(* tag (folder_tag_collection_service.go:152-161, 235-240;                 *)
(* 000001_initial_schema.up.sql:147-151, 168-173).                         *)
(***************************************************************************)
LinksAreLive ==
  /\ \A l \in asset_tags : assets[l[1]] # None /\ tags[l[2]] # None
  /\ \A l \in collection_assets : collections[l[1]] # None /\ assets[l[2]] # None

(***************************************************************************)
(* A request that is answered with 204 has done all it was asked, although *)
(* it runs one statement per tag outside a transaction: what it was to     *)
(* attach is attached, what it was to detach is not, but for the tags that *)
(* others have changed on the asset meanwhile                              *)
(* (asset_repository.go:140-161).                                          *)
(***************************************************************************)
AnsweredIsDone ==
  \A h \in Handlers : Answered(h) =>
    \A t \in job[h].asked \ job[h].others :
      <<job[h].asset, t>> \in asset_tags <=> job[h].op = "tag"

(***************************************************************************)
(* What a request found in its organization when it checked is there still *)
(* or is gone when it writes, by id only: a tag or a collection is changed *)
(* by its own organization (folder_tag_collection_service.go:141-150,      *)
(* 209-247).                                                               *)
(***************************************************************************)
ChecksStillHold ==
  \A h \in Handlers :
    /\ job[h] \in OnTag /\ tags[job[h].tag] # None => tags[job[h].tag].org = job[h].org
    /\ job[h] \in OnCollection \cup Filing /\ collections[job[h].collection] # None
         => collections[job[h].collection].org = job[h].org

(***************************************************************************)
(* A collection that a request still holds, but another has deleted, does  *)
(* not come back with what the first one writes; nor does a tag            *)
(* (other_repositories.go:115-118, 147-158).                               *)
(***************************************************************************)
DeletedStaysGone ==
  [][\A h \in Handlers :
       /\ job[h] \in OnCollection \cup Filing /\ collections[job[h].collection] = None
            => collections'[job[h].collection] = None
       /\ job[h] \in OnTag /\ tags[job[h].tag] = None => tags'[job[h].tag] = None]_vars
=============================================================================
