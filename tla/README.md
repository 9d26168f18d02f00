# Verification of DAMSync

DAMSync is a multi-tenant digital asset management server written in Go:
organizations upload files, edit and organise them, and serve them, transformed
or not, from their own domains. State lives in PostgreSQL, an S3 bucket and
Redis; requests run concurrently in one or more server processes, and no
transaction spans two of the stores. This directory holds TLA+ models of the
parts where that matters, the TLC configurations that check them, and proofs
that TLAPS checks for all values of the constants.

All source paths below are relative to `src/`; services are in
`internal/application/services/`.

## Inventory

| Part | Source | State it keeps | Operations | What is hard | What makes it correct |
|---|---|---|---|---|---|
| Asset upload and quota | `asset_service.go`, `http/v1/assets.go`, `postgres/asset_repository.go`, `postgres/org_repository.go`, `storage/s3.go` | `assets` rows, objects in the bucket, `storage_used_bytes` | Upload, BulkUpload | check and count of the quota are apart; four calls to three stores; failures that took effect; process exit in between | acknowledged uploads are stored; the counter neither loses nor repeats bytes; overshoot is bounded |
| Organizations, users | `org_service.go`, `http/v1/orgs.go`, `http/v1/auth.go` | `organizations`, `users` | register, update org, user CRUD | read-modify-write of the row uploads count in; registration in two writes | settings updates do not touch the counter; a half-registered organization is never entered by anyone else |
| Styled delivery | `transform_service.go`, `http/serve/handler.go`, `http/v1/styles.go` | `image_styles`, `transform_cache`, transformed objects, Redis bytes | ServeStyled, style CRUD, import defaults | three caches with three keys, filled after the fact, never purged together; two content types and the encoder's choice | the bytes served are of the asset, style, format and parameters requested; their type is theirs where the style names its format properly |
| Custom domains | `domain_service.go`, `http/middleware/domain_resolver.go` | `domains`, Redis `domain_org:*` | add, verify, remove, resolve | DNS lookup between read and write; cache filled from stale reads | a request is attributed only to an organization that proved control |
| Asset editing | `asset_service.go:181-227` | `assets` rows | update metadata, move, soft-delete | whole-row write of a stale read | deletion is final; no folder that is gone comes back |
| Authentication | `auth_service.go`, `http/v1/auth.go`, `http/middleware/auth.go`, `postgres/user_repository.go` | Redis `revoked_token:*`, `api_keys` | login, refresh, logout, create, validate and revoke keys | claims outlive the row they were read from; revocation races refresh; Redis failures are dropped | claims that were read after a change agree with it; a revoked token is refused while it lives; a revoked key stays revoked |
| Folders | `folder_tag_collection_service.go:24-111`, `postgres/other_repositories.go` | `folders` with materialized paths | CRUD, tree | parents read before they are deleted; cascades; rename does not rewrite paths | parents, organizations and paths agree; the tree shows every folder |
| Tags, collections | `folder_tag_collection_service.go:113-254`, `postgres/other_repositories.go`, `http/v1/tags.go`, `http/v1/collections.go` | `tags`, `collections`, `asset_tags`, `collection_assets` | CRUD, tag, untag, add, remove | checks and writes are apart; one statement per tag, no transaction; the tag is never read | no link outlives its sides; an answered request is done; a checked organization still holds at the write |
| Listing, search | `postgres/asset_repository.go:112-276`, `http/v1/assets.go`, `http/v1/search.go` | none; the client's cursor | page by cursor, page by offset, count | cursor by id, order by a column; the listing changes between pages | every page advances; what a walk skips or repeats is what its cursors pass over or bring back, and nothing else |
| Webhooks | `webhook_service.go`, `http/v1/webhooks.go`, `postgres/other_repositories.go:405-522` | `webhooks`, `webhook_deliveries` | CRUD, test, dispatch, deliver | goroutines killed by shutdown; dropped errors; hooks deleted meanwhile | a record says only what happened; what stays pending was lost by an exit or a failed update |
| Rate limiter | `redis/rate_limiter.go`, `http/middleware/rate_limit.go` | Redis sorted sets | Allow | pipelines interleave; refusals are recorded | a bound on the requests a window lets through; nobody is refused whose window is not busy |
| Event publisher | `redis/event_publisher.go` | Redis stream | Publish | best effort | events name what exists |
| Server, config, audit, migrations, seed, scripts | `http/server.go`, `cmd/server`, `config`, `migrations`, `seed`, `scripts` | – | start-up, routing | shutdown does not wait for requests (`main.go:164-179`) | – |

How they interact: every HTTP request passes the domain resolver (Host to
organization), the API ones also the rate limiter and authentication; handlers
call one service; services call repositories, storage and cache through the
ports, publish events best-effort, and ignore the errors of most secondary
writes (`_ =`). Services share no memory: they meet in the three stores.

## What is modelled

### QuotaLedger (abstract)

What the quota check promises and nothing else. `used` is an organization's
counter, `pending` what each client was admitted for; `Admit` compares the
counter as it is with the quota, `Count` adds, `Drop` gives up. Nothing is
reserved between the two, so the promise is not "within the quota" but
`BoundedOvershoot`: at most one maximal file beyond the quota per *other*
client. With one client that is the quota itself.

### AssetUpload

`asset_service.go:49-161` and `org_service.go:53-69`, one action per call.

| State | In the code |
|---|---|
| `org` | `organizations`: `storage_used_bytes`, `settings.max_file_size_bytes` |
| `rows`, `objects` | `assets` table, bucket |
| `events` | ids in the `dam:events` stream |
| `result` | what Upload returned for an asset id |
| `job` | where each request goroutine stands, and its locals |

`Admit` covers the checks of lines 60-94 (the MIME filter, reading and EXIF
stripping only refuse or change the payload; refusals are `Refuse`).
`StoreFails` and `InsertFails` may have taken effect: an error reply does not
say that the write did not happen. `CountFails` is a lost count.
`Cleanup` is the best-effort deletion. `Crash` drops a request anywhere: the
process may exit while requests run, because `Listen` returns as soon as the
listener closes. `UpdateOrg` writes from a row read earlier, and changes no
quota because no request field does.
Assets are soft-deleted elsewhere; neither row nor object nor counter changes
then, so deletion is not part of this module.

### TransformServing

`transform_service.go:49-188` and 240-334. `styles`, `tc` and `objects`
are the style rows, the `transform_cache` rows and the transformed objects,
`redis` the cached bytes, `deleted` the soft-deleted assets. A request's `job`
holds the style parameters it read, as the Go locals do. `Params` stands for
everything the hash covers (operations, format, quality): of them `OutputFormat` is the
style's column, `OwnFormat` the last format its operations name, if any. Both are what
clients wrote, case included; `Lower` is the lower-case form, which the storage key and the
content types go by, and the encoder does not. So there are three formats: a hit is declared
as the `HitType`, from the style's row; a rendering as the `RenderedType`, from what
was asked of the encoder; and `Encoding` is what the encoder makes of it, JPEG for
whatever it does not know. Bytes are abstracted to what they were rendered from; a download is
complete or fails. Store failures are alternatives inside the action that makes
the call, because the code ignores them; `Abandon` is every error return and
every crash. `ImportDefaults` is one entry of the built-in list whose slug is
taken: the handler then updates the style that has it (a free slug is a
`CreateStyle`).

### DomainResolution

`domain_service.go`. `domains` are the rows, `cache` the Redis entries, `txt`
the DNS as it is. `claims` and `published` are history: which records ever
existed and which challenges were ever in the DNS, so that "has proved control"
does not depend on what the code remembers. `verifyDNSChallenge` reads the DNS
between the read of the row and its update.

### AssetLibrary

`folder_tag_collection_service.go:24-111` and `asset_service.go:163-227`. Every
operation is two actions: `Begin...` reads and checks, and keeps in `job` what
it is about to write; `InsertFolder`, `WriteFolder`, `DropFolder`, `WriteAsset`
and `SoftDelete` are the statements. In between anything may happen to the rows
it read. The schema is in the guards and effects of the statements: a foreign
key refuses an insert or an update (`References`), `UNIQUE(org_id, path)` an
insert, `ON DELETE CASCADE` is `Subtree`, the least set that holds the folder
and the children of its members, and `ON DELETE SET NULL` clears the assets. An
update by id of a row that is gone succeeds and does nothing. `Publish` comes
after the write and may be lost; `Abandon` is every error return and exit.

A path is the sequence of its slugs (slugs contain no `/`). Names, metadata and
visibility are left out: an edit matters for the folder it writes back. What
the model shows and no property speaks against: an edit undoes a move made since
it read the row; a rename leaves the paths as they were; and nothing compares
the organization of a move's target folder with the asset's, so no invariant
relates the two.

### RateLimiter

`redis/rate_limiter.go` and `middleware/rate_limit.go`, for one client. Each
command of the pipeline is an action (`Trim`, `Count`, `Add`, `Expire`): Redis
may execute those of other requests in between, and a request may stall after it
read the clock (`Begin`). `Count` also fixes the decision, which nothing later
changes; `Fail` and a lost reply let the request through. A request stands for
its member; `at` is its score. `KeyExpires` is the tick at which the key's
lifetime ends, `ttl` being `None` for a missing key. `lost` is a history
variable: members the key took with it before their own `EXPIRE`. A unit of time
is the second that is added to the window; all processes read one clock.
`MaxConcurrent` is whatever bounds the requests of one client in flight: the
code bounds them nowhere, so `WindowBound` says what that costs.
A request whose client connection gave up is in flight while its commands still are.

### Accounts

`auth_service.go`, `org_service.go` without `UpdateOrg`, and the handlers and the
middleware in front of them.

| State | In the code |
|---|---|
| `orgs`, `users`, `keys` | the tables; an organization is its slug, a user stands for its address too |
| `pairs` | the token pairs handed out: claims of both tokens and when they were signed |
| `revoked` | until when Redis holds `revoked_token:<id>` |
| `changed` | history: when a user's row was last written or deleted |
| `now` | the clock that expiry is measured with |
| `job` | what a request has read or been granted |

`Register` (the organization), `RegisterOwner` and the login that follows are the
three calls of the registration handler, which may stop between any two.
`Refresh` parses the token, `NotRevoked` or `Unanswered` is the look at Redis, whose
error the code drops, `RefreshToken` reads the user again, and
`generateTokenPair` signs what was read. Requests that need authentication start
with `ValidateAccessToken` or `ValidateAPIKey` and may then do anything their
role allows; a key passes every role check. Passwords, signatures and hashes
do what they are for.

`RevokedIsRefused` speaks of refreshes to which Redis answered, because the code
takes no answer for "not revoked"; and of tokens, not of the users behind them,
because a refresh does not look at the active flag.

### WebhookDelivery

`webhook_service.go:28-186` and `postgres/other_repositories.go:405-522`. A dispatch lists
the hooks that are on (`todo` is the loop's remainder); for each, `StartDelivery`
inserts the record, whether or not that works, and starts the goroutine, which
posts (`Post`), is answered or times out (`Answer`), and writes the record
(`UpdateDelivery`). `worker` is where each goroutine is, `records` the
table, `received` and `accepted` what the endpoint knows, `lost` the deliveries
whose goroutine an exit ended or whose update failed. What `net/http` sends again by
itself, to follow a redirect of kind 307 or 308, counts with the POST it follows. Deleting
a hook takes its records along. Nothing in the repository calls `DispatchEvent` yet; the module
says what will happen when something does.

### Tagging

`folder_tag_collection_service.go:118-247` and the statements below it. As in
AssetLibrary each operation is a read with its check and then the statement, by id
only. A request that attaches or detaches several tags runs one statement
(`AddTag`, `RemoveTag`) for each, in any order: the list's order is the client's.
Foreign keys refuse an insert and cascade a delete. `job`'s `others` is a history
field: which of the asset's tags others changed since.
Soft-deleted assets keep their rows, their links, and can be tagged: the lookup
by id does not filter them. Of an asset only its organization matters; neither
tags nor assets named beside a collection are compared with the organization.

### AssetListing

`postgres/asset_repository.go:112-138, 174-276`. `selected` is what the filter, or the
collection, selects of the live assets; `key` the value of the sort column, as a rank;
`walk` the client's way through: direction, limit, cursor, how often it
saw each asset. `buildAssetQuery` is the page, `Matching` the condition it shares
with the count, `Orders` the orders the database may return a collection in, whose
query does not order ties. Ids are random, so `key` is chosen freely at the start
and nothing relates the two. `cursors` is a history field: those the client has had.
Rows come and go
by `Upload`, `DeleteAsset`, `Enter` and `Leave`, which takes several at once, as the
deletion of a folder does; `Client` is the walk itself. A page is any of the sequences
its `ORDER BY` allows (`Sorted`); there is one if the order is total.

What the model shows: a cursor is an id, and the order is by another column; under the
default order (newest first, direction left out) it even asks for *greater* ids. Pages then
skip and repeat assets, as `listing_skips` finds. A row `PassedOver` stands after a cursor
in the order and not beyond it in the ids; a row that `ComesBack`, the other way round.
`NothingSkipped`, `NothingRepeated` and `TotalIsShown` hold for ids and keys in any
relation: a walk loses or repeats just those rows, and no change underneath adds to them. If
order and ids happen to agree there are none. `WalkEnds` holds in every case.

### FolderListing (composition)

AssetLibrary and AssetListing together, which is why AssetListing's variables and
specification have names of their own (`table`, `listing`, `SpecListing`). `table` and
`selected`, which AssetListing takes as given, become functions of AssetLibrary's `assets`: `Stored` is whether a row is deleted,
`Listed` the rows that the conditions on organization, `deleted_at` and folder select. A
step is a request of AssetLibrary or a step of the client. `ImplementsListing` says that all
the requests can do to a listing is what AssetListing lets happen to one. In particular
a row written back by a stale edit does not return from its deletion, and a
row whose folder is cleared by a cascade leaves one listing and enters none of a folder.
No run explores the composition: both of its parts have their own, and
that they fit is proved (`LibraryImplementsListing`).

## Runs

| Run | Instance | What it shows |
|---|---|---|
| `upload_race` | 2 requests, 3 assets, sizes 1, 2, quota 3, size limits 0 and 1, bulk of up to 2 | stored files, rows and counters agree; `UsageNeverLost`, `ImplementsLedger` |
| `quota_exceeded` | 2 requests, 2 files of 2 bytes, quota 3 | **violated**: usage exceeds the quota |
| `serve_updates` | 2 requests, 2 style ids, 2 slugs, 1 asset, 2 parameter sets: one plain, one whose three formats all differ | freshness, deletion, which content types are wrong, foreign key, styles kept apart |
| `stale_bytes` | 2 requests, 1 style; both parameter sets have one format | **violated**: old bytes under new parameters |
| `domain` | 2 requests, 2 organizations, 1 domain, 2 records, Redis may fail | attribution; stale entries go |
| `library` | 2 requests, 2 organizations, 3 folders, 1 asset, 2 slugs | the folder table is a forest the tree endpoint shows whole; filing; deletion is final |
| `rate_limit` | 6 requests, 2 at once, limit 2, window 1, clock to 2 | how many a window lets through, what the key's lifetime forgets, who is refused |
| `accounts` | 2 requests, 2 organizations, users and token pairs, 1 key, roles owner and viewer, access tokens live 1, refresh tokens 2, clock to 2, at most 4 rows and tokens at a time | registration, sessions, keys and user administration |
| `webhooks` | 1 request, 1 dispatch at a time, 2 hooks, 2 deliveries, 1 exit | records and their deliveries; every delivery settles or is lost |
| `tagging` | 2 requests, 2 organizations, 1 asset, 2 tags, 1 slug, 1 collection, 2 texts | links, answers, checks before writes by id |
| `listing` | 3 assets, sort keys 1 to 3 in every order and with ties, limits 1 and none, default page of 2 | what a walk shows, announces, and that it ends |
| `listing_skips` | 3 assets, sort keys 1 to 3, limit 1 | **violated**: an asset of an unchanged listing is on no page |

Bounds. Two requests are enough for every race here: each is between one request
that read and one that wrote. Three assets and a quota of 3 let one file fit,
two large ones not, and the boundary be hit exactly; a third file is needed to
exceed the proved bound when the check is broken. A style or record id is used
once, as UUIDs are, so their number bounds how often something can be deleted and
created again; `domain` uses two records for the one domain so that it changes
hands. Tags, collections and hooks, like folders, are created again under ids that
nothing mentions. Three folders make a chain with a grandchild, which a cascade must reach,
and folder ids are used again once nothing mentions them, so `library` creates
and deletes without end. A window with limit 2 and two requests at once may let
five through, so `rate_limit` has six; within its clock one window begins, ends,
and is over while requests that read the clock in it are still in flight. `accounts` has three instants: a token can expire between any two
steps of the request that carries it, and its entry in Redis can end in the middle of a
refresh; the last instant is there
for tokens to expire in, so `Small` cuts off what is signed in it and the requests about
other things. `tagging` has one asset because no statement relates two, two tags
because a request runs a statement per tag, one slug because that is what two tags
fight over. `listing` has a walk of up to three pages of one row and a last page
that is shorter than the default; the same three assets are enough for a row to be
passed over. `serve_updates` has a style that names its format properly and one that asks
for "PNG" with an operation's "WEBP", so that a wrong type is there to be seen; it allows
two live styles, then of plain parameters, and has one asset: that no key mixes assets is proved (`ServingNeverMixes`).

Where ids or the clock run out the system stops, which is why these runs do not check
deadlock: `serve_updates`, `stale_bytes`, `rate_limit`, `accounts`, `webhooks`, `tagging`,
`listing` and `listing_skips`. In `AssetUpload`, `DomainResolution` and `AssetLibrary` something can
always begin.

Symmetry is used only in runs that check no liveness. `p1` and `p2` are
interchangeable because they have the same formats.

Most type invariants, and the strengthenings the proofs
need, are not checked again by runs: they are theorems.

Each passing run's properties can fail: for each there is an operator
`Mutant...` beside the definition it would replace, the way a slip in the code
would, and `PROJECT.json` says which.

### Fairness

*Domains.* `FairSpec` assumes that a request that has begun continues or fails
(handlers call nothing that waits for another request; every call returns or
errors) and that Redis drops an entry when its lifetime is over: both `Set` calls
pass 24 hours and no hit extends it. Nothing is assumed of clients or of the DNS.
`StaleEntriesGo` then says that stale entries heal by themselves, which is what
bounds the harm of an entry that is written after the row is gone.

*Webhooks.* A delivery's goroutine goes on: nothing it does waits for another,
and the client's POST ends after ten seconds (`webhook_service.go:176`). Weak fairness
of each delivery's own steps; nothing is assumed of dispatches, requests or exits.
`Settles` then says that every delivery's record is settled, gone with its hook, or lost.

*Listing.* A client that holds a cursor asks for the next page (`NextPage`); the rest of
the system may do what it likes. `WalkEnds` would be refuted by a cursor
that stands still.

### What the violated runs say

* **quota_exceeded** – "Check quota" (`asset_service.go:65`, `openapi.yaml:733`)
  is a check, not a limit: concurrent uploads pass it together. By how much it
  can be exceeded is proved.
* **stale_bytes** – updating a style is to "Invalidate cached transforms"
  (`transform_service.go:96`), but the object's key has no parameters in it. A
  slow request of the old style overwrites the object that a row of the new one
  names, and the result is cached for a day. `ServingIsCurrent` proves that this
  is the only way: with a format per parameter set it cannot happen.
* **listing_skips** – `GET /assets` is to "List assets (cursor-paginated)"
  (`openapi.yaml:647`), but the next page is the rows whose *id* is beyond the last row's
  (`asset_repository.go:236-244`), and the order is by creation first
  (`asset_repository.go:272-275`). TLC shows two assets, of which the newer has the greater id: it is
  the first page, the second asks for ids greater still and is empty, and the older one is never
  shown, with nothing changed meanwhile. What else walks may lose is in `NothingSkipped`.

Two things the passing runs show besides. In `serve_updates` an image of the parameters
with three formats is declared as a type it is not of ("ServeStyled returns
the transformed image bytes and content type", `ports/inbound/services.go:156`);
`TypeMatchesBytes` says that this is the only kind of image it happens to. In
`domain`, `RemoveDomain` clears the cache *before* it deletes the row, so a
verification that is about to cache the domain, or a resolution that read the row, may
fill the entry again: a removed domain resolves until the entry expires.

## Proofs

| Module | Theorem | Statement |
|---|---|---|
| `AssetUploadProofs` | `UploadTypes`, `UploadStorage`, `UploadRowsBacked`, `UploadUsageNeverLost` | types, storage invariants, counters never decrease |
| | `UploadNeverOvercounts` | the counter against the sum of the rows |
| | `LedgerBound`, `UploadImplementsLedger`, `UploadBoundedOvershoot` | the ledger's bound, its refinement, and the bound of the uploads |
| `TransformServingProofs` | `ServingTypes`, `ServingNeverMixes`, `ServingIsCurrent`, `ServingSkipsDeleted`, `ServingRowsOwned`, `ServingTypeMatches` | the delivery invariants |
| `DomainResolutionProofs` | `DomainProofs`, `DomainAttribution` | attribution |
| `RateLimiterProofs` | `RateWindowBound`, `RateKept`, `RateLostIsSlow`, `RateRefusedIsBusy` | all properties of its run, and that members outlive their window |
| `AssetLibraryProofs` | `LibraryTypes`, `LibraryTree`, `LibraryFiled`, `LibraryDeletionFinal`, `LibraryDeletedEvents` | the folder forest, filing, deletion |
| | `LibraryTreeShowsAll` | the tree builder on that forest |
| | `ListingTypes`, `ListingNothingSkipped`, `ListingNothingRepeated`, `ListingTotalIsShown` | all invariants of AssetListing |
| | `LibraryImplementsListing`, `LibraryWalksAreWhole` | FolderListing refines AssetListing, and so its walks skip and repeat only what their cursors lose |
| `AccountsProofs` | `AccountsTypes`, `AccountsClaims`, `AccountsRevoked`, `AccountsFounded`, `AccountsStayHome`, `AccountsStranded`, `AccountsEndings` | all properties of its run |
| `WebhookDeliveryProofs` | `WebhookTypes`, `WebhookDelivered`, `WebhookPending`, `WebhookOutcomesFinal`, `WebhookRecordsHaveHooks` | what records say, and whose they are |
| `TaggingProofs` | `TaggingTypes`, `TaggingLinksLive`, `TaggingAnswered`, `TaggingChecksHold`, `TaggingDeletedStays` | all properties of its run |

The arguments:

* *Ledger.* The bound alone is not inductive: counting the last of several
  outstanding files must still fit. `RoomForOutstanding` says that with *k*
  clients outstanding, one of them still fits if the other *k* - 1 are counted at
  the maximal size: the one admitted last, which saw the counter before any of
  those were counted. Counting or dropping any client leaves a witness.
* *Upload.* `StorageInv` adds that an asset belongs to one request and that the
  phase of that request says which halves of it exist. The refinement maps a
  request that holds an admitted file to a pending client. The bound then
  follows from the ledger's theorem.
* *Counter.* `NeverOvercounted` compares the counter with a sum over rows, one of
  which is there before it is counted. `CountedInv` bounds the counter by the sum over
  the rows that no request is still about to count (`Accounted`): an insert leaves
  that set alone, a count adds one row and its size, a lost count only adds the row.
  The sum is a fold, defined by recursion over the set. `SumsAgree` and `SumExists`
  say that one function satisfies that recursion on the subsets of a finite set,
  whence `BytesOfUnfolds`; the induction is a smallest counterexample (`Smallest`: finite sets
  are well-founded under inclusion).
* *Delivery.* `KeyedInv`: whatever a cache holds under a key fits that key, and
  whatever a request carries fits the request. All three caches are written only
  by requests, and read only under their own key.
* *Types.* `ServingTypeMatches` has no hypothesis on the formats. A row's type is the output
  format of the parameters its style had, the bytes next to it may be of others; but they
  have the same `Extension`, because that is in the object's key, and the type of a hit is a
  function of it. `TypedInv` carries that through the row, the object, the cache and the
  answer. A rendering's type is of its own parameters. For plain ones both types are the encoding.
* *Deletion.* A request past the lookup had found its asset alive; deletions are
  final (`LookupsAreLive`).
* *Domains.* `ProvenInv` follows the proof from the DNS through the request that
  saw it, the row it updates by id, and the cache.

* *Library.* `FoldersNest` is not inductive alone: an insert writes what was
  read earlier. `CreatesNest` says of a creation in flight that it still fits its
  parent *if that is still there*, which the foreign key asks at the insert. It
  holds because no statement changes a folder's organization, parent or path, and
  because a fresh id is no one's parent. The cascade leaves no child behind
  (`SubtreeClosed`). The tree builder is a recursive function of the table, so it first has
  to be shown that some function satisfies its equation (`TreeExists`); a folder it
  missed would have a parent it missed, and so on for ever, which a finite table of nested
  paths does not allow (`NoEndlessAscent`). For the events, a request about to announce a deletion has
  made it (`AnnouncedIsDone`), and deletions stay.
* *Listing.* First what a page is, as a set (`SortedRows`, `CollectionRows`): by cursor, every
  row on it comes before every matching row that is not, and its last row comes last;
  by offset, the rows whose rank lies in the page's range, if nothing ties. `CursorInv`
  then says that an asset that has been there all the while and was not shown is beyond the
  cursor or passed over by one of those the client had (`AllAccounted`), and that what was shown
  is not beyond it or comes back. Both are kept because `cursors` only grows
  (`CursorsStay`) and ids are ordered totally (`BeyondOrder`).
  `CollectionInv` is about ranks and the offset: a row that leaves lowers ranks, which can
  only skip, one that enters raises them, which can only repeat; ties are asked about only
  at the end, but what there has been stays (`TiesStay`). `TotalInv`: a listing that did not
  change is what was there at the start. Search's total is of the first page, whose
  condition has no cursor.
* *Folders as listings.* What a request does to the assets table is one of four
  things (`RequestRows`); each is a step of AssetListing or none (`RequestListing`), given
  that what the walk notes as steady is in the listing (`StateInv`). Since
  the refinement carries the theorems over, a walk through a folder loses and repeats no more
  than its cursors do.
* *Rate.* `AdmitInv` splits at the end of a window. Until then everyone who
  passed in it is a member or in flight (`KeptInv`), so who counts fewer than the
  limit leaves at most *limit* + *n* - 1. When it ends, the *n* in flight that
  read the clock in it may still pass (`Late`); the union of both only shrinks.
  The bound is tight: one less is violated within the instance. `OlderInv` bounds
  the members that can turn up in the past of a request that trimmed by those in
  flight with it; `LifetimeInv` says that a key about to go, just trimmed, holds
  a member that did not renew it.
* *Webhooks.* `DeliveryFits` says of each delivery what the stage of its goroutine
  implies: nothing was posted before the stage "sent", an id without a goroutine has no
  record, a record is pending until the goroutine's last step. A record's hook cannot go
  without it (the cascade), nor be missing at the insert (the foreign key).
* *Tagging.* `DealtWith` is `AnsweredIsDone` before the end: the tags a request has
  dealt with are as it left them unless others changed them. `LinksAreLive` needs that
  assets never go (`AssetsFound`). The checks hold because ids are fresh and no
  statement moves a row to another organization (`RowChange`).
* *Accounts.* `AccountsInv` is proved one conjunct at a time, each against what a single
  request can do (`Step`). *Claims:* every read is stamped before any later write
  (`ReadsArePast`), and who writes a row stamps it, so claims newer than the stamp
  were read from the row as it is. *Revocation:* the entry of a logged-out token
  is kept for as long as the token may still be parsed (`EntriesOutlive`), so a request that
  began with the token on the list either sees the entry or carries an expired
  token. *Registration:* nobody belongs to an organization that is not registered
  (`OrgsExist`), so a fresh one is empty; and what comes into an organization comes from a
  user, a key, a token or a request that is in it already (`NobodyEnters`). That keeps the owner's organization
  empty until the owner is there, and a stranded one for ever.

Assumptions: only those on the constants in the modules (`...Assumption`), the
weakest that type-check; `QuotaLedger` names its own (`LedgerAssumption`), which
`LedgerConstants` derives from those of `AssetUpload`. `ServingIsCurrent` assumes that output
formats are distinct up to case, which is how `serve_updates` is instantiated. The two theorems on the composition have
`SameAssets` as a hypothesis: that AssetLibrary's assets are the numbered ones of AssetListing,
so that their ids have an order, which the rest of AssetLibrary does not need.

Only model-checked: liveness (`StaleEntriesGo`, `Settles`, `WalkEnds`), which is beyond the
provers. That a page exists at all, which is an existence by induction over the number
of rows, is seen in the runs: `WalkEnds` would fail if `List` could not be taken.

## Plan

What is left, in this order:

1. A composition of AssetLibrary and TransformServing, which each have their own
   soft deletion: what a deleted asset's requests still see end to end.
2. The worker that takes pending deliveries up, once the repository has one: the
   abstract specification it should implement is `Settles` without `lost`.

## Not modelled

Configuration, logging, CORS and headers, status codes
(stateless); image processing and the S3 and DNS clients (external: modelled by
their outcomes); password hashing, token signatures and URL signatures
(functions of their inputs); signed URLs and the direct file handler, which keep no state;
ServeAdHoc, which no route reaches; the audit middleware (built and dropped at
`main.go:149`); the subscription of webhooks to events (`main.go:131-132`, not
connected); organization deletion (no route); key scopes, which are compared with a
constant per route. Downloads that end early are not modelled: how much of a body
arrived is no state of the server. The hazards in `PROJECT.json`
without a property say why.
