---------------------------- MODULE AssetListing ----------------------------
(***************************************************************************)
(* Walking through a listing page by page while assets come and go         *)
(* (asset_repository.go:112-138, 174-276, v1/assets.go:144-187,            *)
(* v1/search.go, v1/collections.go:123-137, other_repositories.go:182-204).*)
(*                                                                         *)
(* Assets and search results are paged by a cursor, the id of the last row *)
(* of the page before, under an order that puts a column (created_at       *)
(* unless another is asked for) before the id.  A collection is paged by   *)
(* an offset into an order by creation time.                               *)
(*                                                                         *)
(* An asset's id is a number: ids are random, so their order says nothing  *)
(* of that of the sort keys, which are chosen at the start, as ranks.  One *)
(* listing is walked: what a filter or a collection selects is "selected". *)
(* updated_at, the one sort column that changes, is left out.  The         *)
(* Mutant... operators are slips that break a property; no specification   *)
(* uses them.                                                              *)
(***************************************************************************)
EXTENDS Integers, Sequences, FiniteSets, SequencesExt

CONSTANTS MaxAssets,     \* number of assets ever uploaded
          MaxKey,        \* sort keys are 1 .. MaxKey
          Limits,        \* what clients ask for; 0 stands for what is no page size
          DefaultLimit,  \* rows of a page if the client's limit is 0
          Null           \* no cursor, no total

Ids == 1 .. MaxAssets
Dirs == {"asc", "desc", ""}

ASSUME ListingAssumption ==
  /\ MaxAssets \in Nat /\ MaxKey \in Nat \ {0}
  /\ Limits \subseteq Nat /\ DefaultLimit \in Nat \ {0}
  /\ Null \notin Nat

VARIABLES key,       \* the value of the sort column each asset has or will have
          table,    \* the assets table: which rows are there, and which are deleted
          selected,  \* live rows that the filter or the collection selects
          walk       \* the client's way through the listing

listing == <<key, table, selected, walk>>

\* For the properties: how often each asset was shown, what has been there since
\* the walk began, whether the listing grew or shrank, the first page's total, and
\* the cursors the client has had.
Walk == [stage : {"off", "page", "count", "ended"}, kind : {"assets", "collection"},
         dir : Dirs, limit : Nat, cursor : Ids \cup {Null}, offset : Nat, next : Ids \cup {Null},
         seen : [Ids -> 0 .. 2], steady : SUBSET Ids, grew : BOOLEAN, shrank : BOOLEAN,
         total : Nat \cup {Null}, cursors : SUBSET Ids]

Off ==
  [stage |-> "off", kind |-> "assets", dir |-> "", limit |-> 0, cursor |-> Null, offset |-> 0,
   next |-> Null, seen |-> [a \in Ids |-> 0], steady |-> {}, grew |-> FALSE, shrank |-> FALSE,
   total |-> Null, cursors |-> {}]

Begun(kind, dir, limit) ==
  [Off EXCEPT !.stage = "page", !.kind = kind, !.dir = dir, !.limit = limit, !.steady = selected]

InitListing ==
  /\ key \in {k \in [Ids -> 1 .. MaxKey] : \E n \in 0 .. MaxKey : Range(k) = 1 .. n}
  /\ table \in [Ids -> {"none", "live"}]
  /\ selected \in SUBSET {a \in Ids : table[a] = "live"}
  /\ walk = Off

Walking == walk.stage \in {"page", "count"}

\* For the properties: what enters and leaves the listing during a walk.  A walk
\* that has ended is forgotten when a row next changes.
Noted(w) == walk' = IF Walking THEN w ELSE Off
NoteEntry == Noted([walk EXCEPT !.grew = TRUE])
NoteExit(S) == Noted([walk EXCEPT !.steady = @ \ S, !.shrank = TRUE])

-----------------------------------------------------------------------------
Upload(a) ==
  /\ table[a] = "none"
  /\ table' = [table EXCEPT ![a] = "live"]
  /\ \/ UNCHANGED selected /\ Noted(walk)
     \/ selected' = selected \cup {a} /\ NoteEntry
  /\ UNCHANGED key

DeleteAsset(a) ==
  /\ table[a] = "live"
  /\ table' = [table EXCEPT ![a] = "deleted"]
  /\ selected' = selected \ {a}
  /\ IF a \in selected THEN NoteExit({a}) ELSE Noted(walk)
  /\ UNCHANGED key

\* Added to the collection, or moved or edited so that the filter matches ...
Enter(a) ==
  /\ table[a] = "live" /\ a \notin selected
  /\ selected' = selected \cup {a}
  /\ NoteEntry
  /\ UNCHANGED <<key, table>>

\* ... or the reverse, for the assets of a deleted folder in one statement.
Leave(S) ==
  /\ S # {} /\ S \subseteq selected
  /\ selected' = selected \ S
  /\ NoteExit(S)
  /\ UNCHANGED <<key, table>>

-----------------------------------------------------------------------------
\* ORDER BY sort column, id: descending unless the client says "asc".
Before(a, b) ==
  IF walk.dir = "asc"
  THEN key[a] < key[b] \/ (key[a] = key[b] /\ a < b)
  ELSE key[a] > key[b] \/ (key[a] = key[b] /\ a > b)

\* The cursor is compared the way an explicit "desc" asks for and no other.
Beyond(c, a) == IF walk.dir = "desc" THEN a < c ELSE a > c

\* The row the cursor points to is shown again.
MutantBeyondCursor(a) == walk.cursor # Null => Beyond(walk.cursor, a) \/ a = walk.cursor

BeyondCursor(a) == walk.cursor # Null => Beyond(walk.cursor, a)

\* The WHERE clause that the page and the total share; deleted_at IS NULL and the
\* filter's other conditions make "selected".
Matching == {a \in selected : BeyondCursor(a)}

Sorted(S) == {s \in SetToSeqs(S) : \A i, j \in DOMAIN s : i < j => Before(s[i], s[j])}

First(seq, n) == SubSeq(seq, 1, IF Len(seq) < n THEN Len(seq) ELSE n)

\* LIMIT is one too many for the cursor.
MutantBuildAssetQuery ==
  {First(s, IF walk.limit > 0 THEN walk.limit + 1 ELSE DefaultLimit) : s \in Sorted(Matching)}

buildAssetQuery ==
  {First(s, IF walk.limit > 0 THEN walk.limit ELSE DefaultLimit) : s \in Sorted(Matching)}

\* Two stands for two or more.
Shown(rows) ==
  [a \in Ids |-> IF a \in ToSet(rows) /\ walk.seen[a] < 2 THEN walk.seen[a] + 1 ELSE walk.seen[a]]

Begin(kind, dir, limit) ==
  /\ walk.stage = "off"
  /\ walk' = Begun(kind, dir, limit)
  /\ UNCHANGED <<key, table, selected>>

\* The way on from a page: a client that got no cursor is done.
Turn(w) ==
  walk' = IF w.next = Null THEN [w EXCEPT !.stage = "ended"]
          ELSE [w EXCEPT !.stage = "page", !.cursor = w.next, !.next = Null]

\* The last row of a full page gives the cursor; a page of the default length
\* gives none.
NextCursor(rows) ==
  IF Len(rows) = walk.limit /\ walk.limit > 0 THEN {Last(rows)} ELSE {}

List ==
  /\ walk.stage = "page" /\ walk.kind = "assets"
  /\ \E rows \in buildAssetQuery :
       walk' = [walk EXCEPT
         !.stage = "count",
         !.seen = Shown(rows),
         !.next = IF NextCursor(rows) = {} THEN Null ELSE Last(rows),
         !.cursors = @ \cup NextCursor(rows)]
  /\ UNCHANGED <<key, table, selected>>

\* The total is counted beyond the page just read.
MutantSearch ==
  /\ walk.stage = "count"
  /\ LET rest == {a \in Matching : walk.next # Null => Beyond(walk.next, a)}
     IN  Turn([walk EXCEPT !.total = IF walk.cursor = Null THEN Cardinality(rest) ELSE @])
  /\ UNCHANGED <<key, table, selected>>

\* A search counts in a second statement, under the condition of its page.  Null
\* stands for the 0 it answers if that fails, and for the plain listing, which
\* does not count.  The properties look at the first page's total.
Search ==
  /\ walk.stage = "count"
  /\ \E total \in {Cardinality(Matching), Null} :
       Turn([walk EXCEPT !.total = IF walk.cursor = Null THEN total ELSE @])
  /\ UNCHANGED <<key, table, selected>>

\* ORDER BY created_at DESC, without the id: rows of one instant may change
\* places between two queries.
Orders(S) == {s \in SetToSeqs(S) :
                \A i, j \in DOMAIN s : i < j => key[s[i]] >= key[s[j]]}

\* The offset is that of the page before.
MutantListAssets ==
  /\ walk.stage = "page" /\ walk.kind = "collection"
  /\ \E order \in Orders(selected) :
       LET rows == First(SubSeq(order, walk.offset + 1, Len(order)), walk.limit)
       IN  walk' = [walk EXCEPT
                      !.seen = Shown(rows),
                      !.offset = @ + walk.limit + 1,
                      !.stage = IF Len(rows) < walk.limit \/ walk.limit = 0 THEN "ended" ELSE @]
  /\ UNCHANGED <<key, table, selected>>

\* Pages are counted down.
MutantListAssetsBack ==
  /\ walk.stage = "page" /\ walk.kind = "collection"
  /\ \E order \in Orders(selected) :
       LET rows == First(SubSeq(order, walk.offset + 1, Len(order)), walk.limit)
       IN  walk' = [walk EXCEPT !.seen = Shown(rows), !.offset = @ - walk.limit]
  /\ UNCHANGED <<key, table, selected>>

\* LIMIT and OFFSET; the client goes on until a page is short.
ListAssets ==
  /\ walk.stage = "page" /\ walk.kind = "collection"
  /\ \E order \in Orders(selected) :
       LET rows == First(SubSeq(order, walk.offset + 1, Len(order)), walk.limit)
       IN  walk' = [walk EXCEPT
                      !.seen = Shown(rows),
                      !.offset = @ + walk.limit,
                      !.stage = IF Len(rows) < walk.limit \/ walk.limit = 0 THEN "ended" ELSE @]
  /\ UNCHANGED <<key, table, selected>>

\* The client gives up, after an error or for its own reasons.
GiveUp ==
  /\ Walking
  /\ walk' = Off
  /\ UNCHANGED <<key, table, selected>>

NextPage == List \/ Search \/ ListAssets

Client ==
  \/ \E dir \in Dirs, limit \in Limits : Begin("assets", dir, limit)
  \/ \E limit \in Limits : Begin("collection", "", limit)
  \/ NextPage
  \/ GiveUp

NextListing ==
  \/ \E a \in Ids : Upload(a) \/ DeleteAsset(a) \/ Enter(a)
  \/ \E S \in SUBSET Ids : Leave(S)
  \/ Client

SpecListing == InitListing /\ [][NextListing]_listing

\* A client that has a cursor asks for the next page, and is answered.
FairListing == SpecListing /\ WF_listing(NextPage)

-----------------------------------------------------------------------------
ListingTypeOK ==
  /\ key \in [Ids -> 1 .. MaxKey]
  /\ table \in [Ids -> {"none", "live", "deleted"}]
  /\ selected \subseteq Ids
  /\ walk \in Walk

NoTies ==
  \A a, b \in Ids : table[a] # "none" /\ table[b] # "none" /\ key[a] = key[b] => a = b

Ended == walk.stage = "ended" /\ walk.limit > 0

\* The rows that stand at a place of the walk's order where ids do not: after the
\* last row of a page, but not beyond the cursor it gave ...
PassedOver(a) == \E c \in walk.cursors : Before(c, a) /\ ~Beyond(c, a)

\* ... or before the last row of a page, and yet beyond its cursor.
ComesBack(a) == \E c \in walk.cursors : Before(a, c) /\ Beyond(c, a)

(***************************************************************************)
(* A client that walks to the end has seen every asset that was in the     *)
(* listing all the while, whatever came and went around the cursor, but    *)
(* exactly those that a cursor it had passes over; and in a collection     *)
(* all of them, if nothing left it (asset_repository.go:126-128, 236-240,  *)
(* 268-275; other_repositories.go:188-189).                                *)
(***************************************************************************)
NothingSkipped ==
  Ended => \A a \in walk.steady :
    IF walk.kind = "collection"
    THEN NoTies /\ ~walk.shrank => walk.seen[a] > 0
    ELSE walk.seen[a] > 0 \/ PassedOver(a)

(***************************************************************************)
(* And it has seen nothing twice, a row that moved out of and back into    *)
(* the listing neither, but what comes back beyond a cursor it had; and in *)
(* a collection nothing, if nothing entered it.                            *)
(***************************************************************************)
NothingRepeated ==
  \A a \in Ids :
    IF walk.kind = "collection"
    THEN NoTies /\ ~walk.grew => walk.seen[a] <= 1
    ELSE walk.seen[a] <= 1 \/ ComesBack(a)

(***************************************************************************)
(* If the listing does not change, the total a search announces with its   *)
(* first page is the number of assets the walk will have shown and of      *)
(* those that its cursors will have passed over: the page and the count    *)
(* share their conditions (folder_tag_collection_service.go:265-275), so   *)
(* what is announced and never shown is what the cursors lose.             *)
(***************************************************************************)
TotalIsShown ==
  Ended /\ walk.total # Null /\ ~walk.grew /\ ~walk.shrank
    => walk.total = Cardinality({a \in Ids : walk.seen[a] > 0
                                             \/ (a \in walk.steady /\ PassedOver(a))})

(***************************************************************************)
(* What "List assets (cursor-paginated)" (openapi.yaml:647) promises: who  *)
(* follows the cursors to the end has seen all that stayed in the listing, *)
(* here if no two assets have the same sort key.  It fails: the cursor is  *)
(* an id, and the order is not that of the ids.                            *)
(***************************************************************************)
WalkIsComplete ==
  Ended /\ walk.kind = "assets" /\ NoTies => \A a \in walk.steady : walk.seen[a] > 0

(***************************************************************************)
(* Whatever the order, the keys and the changes underneath, a client that  *)
(* follows the cursors does not go round in circles                        *)
(* (asset_repository.go:125-128, 236-240).                                 *)
(***************************************************************************)
WalkEnds == Walking ~> ~Walking
=============================================================================
