--------------------------- MODULE TransformServing ---------------------------
(***************************************************************************)
(* Styled image delivery (transform_service.go): ServeStyled answers from  *)
(* three caches in turn, each keyed differently,                           *)
(*   - Redis,               by asset and hash of the style's parameters,   *)
(*   - transform_cache,     by asset and hash, a row naming an object of   *)
(*   - the object storage,  by style, asset and output FORMAT only,        *)
(* and fills all three after rendering, ignoring their failures, while     *)
(* styles are created, updated and deleted and assets are soft-deleted.    *)
(* One organization; a request for another's asset changes nothing.        *)
(*                                                                         *)
(* Every call is an action.  Abandon is any error return and any crash.    *)
(* Operators named Mutant... are slips that no specification uses: each,   *)
(* put in the place of the definition after it, breaks a property.         *)
(***************************************************************************)
EXTENDS Naturals, FiniteSets

CONSTANTS Handlers,      \* request goroutines
          Styles,        \* style ids
          Slugs,         \* style names in URLs
          Assets,
          Params,        \* what a style row can say: operations, format, quality
          Formats,       \* what clients write for a format: nothing checks it
          Unset,         \* ... and the empty string
          Lower,         \* strings.ToLower
          OutputFormat,  \* the output_format column of each Params
          OwnFormat,     \* the last format its operations name, or Unset
          None

ASSUME ServingAssumption ==
  /\ Unset \in Formats /\ Unset \notin {"jpeg", "png", "webp", "avif"}
  /\ Lower \in [Formats -> Formats]
  /\ OutputFormat \in [Params -> Formats]
  /\ OwnFormat \in [Params -> Formats]
  /\ None \notin [asset : Assets, style : Styles, params : Params]
  /\ None \notin {"jpeg", "png", "webp", "avif", "octet-stream"}

VARIABLES styles,    \* image_styles rows
          minted,    \* style ids ever used
          deleted,   \* soft-deleted assets
          tc,        \* transform_cache rows: <<asset, style, params>>
          objects,   \* transformed objects by storage key
          redis,     \* cached bytes by cache key
          job        \* where each request stands

vars == <<styles, minted, deleted, tc, objects, redis, job>>

StyleRow == [id : Styles, slug : Slugs, params : Params]

\* Transformed bytes: what they were rendered from.  Downloads are complete here;
\* the code takes one that ends early for complete (transform_service.go:144, 248).
Bytes == [asset : Assets, style : Styles, params : Params]

\* Content types, without their "image/" and "application/".
Types == {"jpeg", "png", "webp", "avif", "octet-stream"}

ServePhases == {"asset", "redis", "row", "fetch", "warm", "render", "store",
                "save", "cache", "served"}

Idle == [pc |-> "idle"]
\* live: the asset was not deleted when the request began.
Serving == [pc : ServePhases, asset : Assets, style : Styles, params : Params,
            live : BOOLEAN, bytes : Bytes \cup {None}, type : Types \cup {None}]
Updating == [pc : {"write"}, style : Styles, params : Params]
StyleOp == [pc : {"invalidate", "purge", "drop"}, style : Styles]

TypeOK ==
  /\ styles \subseteq StyleRow
  /\ minted \subseteq Styles
  /\ deleted \subseteq Assets
  /\ tc \subseteq Assets \X Styles \X Params
  /\ objects \in [Styles \X Assets \X Formats -> Bytes \cup {None}]
  /\ redis \in [Assets \X Styles \X Params -> Bytes \cup {None}]
  /\ job \in [Handlers -> {Idle} \cup Serving \cup Updating \cup StyleOp]

Init ==
  /\ styles = {}
  /\ minted = {}
  /\ deleted = {}
  /\ tc = {}
  /\ objects = [k \in Styles \X Assets \X Formats |-> None]
  /\ redis = [k \in Assets \X Styles \X Params |-> None]
  /\ job = [h \in Handlers |-> Idle]

-----------------------------------------------------------------------------
\* fmt.Sprintf("transform:%s:%s", asset.ID, hashStyleParams(style))
cacheKey(j) == <<j.asset, j.style, j.params>>

\* The format of the object's name and of its row.
Extension(p) == Lower[OutputFormat[p]]

\* The key leaves out the format, or the style.
MutantTransformKey(j) == <<j.style, j.asset, CHOOSE f \in Formats : TRUE>>
MutantTransformKeyStyle(j) == <<CHOOSE s \in Styles : TRUE, j.asset, Extension(j.params)>>

\* buildTransformKey: the parameters other than the format are not in it.
transformKey(j) == <<j.style, j.asset, Extension(j.params)>>

\* What the transformer is asked for.
reqFormat(p) == IF OwnFormat[p] = Unset THEN OutputFormat[p] ELSE OwnFormat[p]

formatToMIME(f) ==
  IF Lower[f] \in {"jpeg", "jpg"} THEN "jpeg"
  ELSE IF Lower[f] \in {"png", "webp", "avif"} THEN Lower[f] ELSE "octet-stream"

\* The encoder's choice heeds the case, and falls back to JPEG.
mapFormat(f) == IF f \in {"png", "webp", "avif"} THEN f ELSE "jpeg"

\* The two content types: of a cache hit, from the style's row ...
HitType(p) == formatToMIME(OutputFormat[p])

\* ... and of a fresh rendering, from what was asked for, not from what came out.
RenderedType(p) == IF reqFormat(p) = Unset THEN "jpeg" ELSE formatToMIME(reqFormat(p))

\* What came out.
Encoding(p) == mapFormat(reqFormat(p))

Goto(h, pc) == job' = [job EXCEPT ![h].pc = pc]

Answer(h, bytes, type) ==
  job' = [job EXCEPT ![h].pc = "served", ![h].bytes = bytes, ![h].type = type]

Hold(h, pc, bytes) == job' = [job EXCEPT ![h].pc = pc, ![h].bytes = bytes]

-----------------------------------------------------------------------------
\* GET /styles/:style/*: the style row is read by its slug ...
BeginServe(h, r, a) ==
  /\ job[h] = Idle
  /\ r \in styles
  /\ job' = [job EXCEPT ![h] = [pc |-> "asset", asset |-> a, style |-> r.id,
                                params |-> r.params, live |-> a \notin deleted,
                                bytes |-> None, type |-> None]]
  /\ UNCHANGED <<styles, minted, deleted, tc, objects, redis>>

\* Deleted assets are not filtered out.
MutantFindAsset(h) ==
  /\ job[h].pc = "asset"
  /\ Goto(h, "redis")
  /\ UNCHANGED <<styles, minted, deleted, tc, objects, redis>>

\* ... then the asset by its storage key, deleted ones filtered out.
FindAsset(h) ==
  /\ job[h].pc = "asset"
  /\ job[h].asset \notin deleted
  /\ Goto(h, "redis")
  /\ UNCHANGED <<styles, minted, deleted, tc, objects, redis>>

\* The cached bytes are taken for the default format.
MutantRedisHit(h) ==
  /\ job[h].pc = "redis"
  /\ redis[cacheKey(job[h])] # None
  /\ Answer(h, redis[cacheKey(job[h])], "jpeg")
  /\ UNCHANGED <<styles, minted, deleted, tc, objects, redis>>

RedisHit(h) ==
  /\ job[h].pc = "redis"
  /\ redis[cacheKey(job[h])] # None
  /\ Answer(h, redis[cacheKey(job[h])], HitType(job[h].params))
  /\ UNCHANGED <<styles, minted, deleted, tc, objects, redis>>

\* Nothing cached, or Redis does not answer.
RedisMiss(h) ==
  /\ job[h].pc = "redis"
  /\ Goto(h, "row")
  /\ UNCHANGED <<styles, minted, deleted, tc, objects, redis>>

RowHit(h) ==
  /\ job[h].pc = "row"
  /\ cacheKey(job[h]) \in tc
  /\ Goto(h, "fetch")
  /\ UNCHANGED <<styles, minted, deleted, tc, objects, redis>>

RowMiss(h) ==
  /\ job[h].pc = "row"
  /\ Goto(h, "render")
  /\ UNCHANGED <<styles, minted, deleted, tc, objects, redis>>

FetchHit(h) ==
  /\ job[h].pc = "fetch"
  /\ objects[transformKey(job[h])] # None
  /\ Hold(h, "warm", objects[transformKey(job[h])])
  /\ UNCHANGED <<styles, minted, deleted, tc, objects, redis>>

\* The object is missing or the download fails: fall through to rendering.
FetchMiss(h) ==
  /\ job[h].pc = "fetch"
  /\ Goto(h, "render")
  /\ UNCHANGED <<styles, minted, deleted, tc, objects, redis>>

\* SetBytes, whose failure is ignored.
Cached(h) == redis' \in {redis, [redis EXCEPT ![cacheKey(job[h])] = job[h].bytes]}

Warm(h) ==
  /\ job[h].pc = "warm"
  /\ Cached(h)
  /\ Answer(h, job[h].bytes, HitType(job[h].params))
  /\ UNCHANGED <<styles, minted, deleted, tc, objects>>

\* applyStyleTransform: the original is downloaded and transformed.
Render(h) ==
  /\ job[h].pc = "render"
  /\ Hold(h, "store", [asset |-> job[h].asset, style |-> job[h].style, params |-> job[h].params])
  /\ UNCHANGED <<styles, minted, deleted, tc, objects, redis>>

\* The upload's failure is ignored: the key keeps what it held.
Store(h) ==
  /\ job[h].pc = "store"
  /\ objects' \in {objects, [objects EXCEPT ![transformKey(job[h])] = job[h].bytes]}
  /\ Goto(h, "save")
  /\ UNCHANGED <<styles, minted, deleted, tc, redis>>

\* The row does not reference its style.
MutantSaveRow(h) ==
  /\ job[h].pc = "save"
  /\ tc' = tc \cup {cacheKey(job[h])}
  /\ Goto(h, "cache")
  /\ UNCHANGED <<styles, minted, deleted, objects, redis>>

\* The row references its style: the insert fails once the style is gone.
SaveRow(h) ==
  /\ job[h].pc = "save"
  /\ \/ UNCHANGED tc
     \/ /\ \E r \in styles : r.id = job[h].style
        /\ tc' = tc \cup {cacheKey(job[h])}
  /\ Goto(h, "cache")
  /\ UNCHANGED <<styles, minted, deleted, objects, redis>>

\* Redis is filled, the event published (best effort), the bytes returned.
CacheAndServe(h) ==
  /\ job[h].pc = "cache"
  /\ Cached(h)
  /\ Answer(h, job[h].bytes, RenderedType(job[h].params))
  /\ UNCHANGED <<styles, minted, deleted, tc, objects>>

Finish(h) ==
  /\ job[h].pc = "served"
  /\ job' = [job EXCEPT ![h] = Idle]
  /\ UNCHANGED <<styles, minted, deleted, tc, objects, redis>>

\* Any error return, and a crash of the process: the request ends here.
Abandon(h) ==
  /\ job[h].pc \notin {"idle", "served"}
  /\ job' = [job EXCEPT ![h] = Idle]
  /\ UNCHANGED <<styles, minted, deleted, tc, objects, redis>>

-----------------------------------------------------------------------------
\* POST /styles: uuid.New() and INSERT, UNIQUE(org_id, slug).
CreateStyle(s, slug, p) ==
  /\ s \notin minted
  /\ \A r \in styles : r.slug # slug
  /\ styles' = styles \cup {[id |-> s, slug |-> slug, params |-> p]}
  /\ minted' = minted \cup {s}
  /\ UNCHANGED <<deleted, tc, objects, redis, job>>

\* PUT /styles/:id reads the style.
BeginUpdate(h, r, p) ==
  /\ job[h] = Idle
  /\ r \in styles
  /\ job' = [job EXCEPT ![h] = [pc |-> "write", style |-> r.id, params |-> p]]
  /\ UNCHANGED <<styles, minted, deleted, tc, objects, redis>>

\* POST /styles/import-defaults does one or the other per entry: CreateStyle, or
\* where the slug is taken an update of the style that has it.
ImportDefaults(h, slug, p) == \E r \in styles : r.slug = slug /\ BeginUpdate(h, r, p)

\* An update writes the row (no row and no error if it was deleted since) ...
WriteStyle(h) ==
  /\ job[h].pc = "write"
  /\ styles' = {IF r.id = job[h].style THEN [r EXCEPT !.params = job[h].params] ELSE r :
                  r \in styles}
  /\ job' = [job EXCEPT ![h] = [pc |-> "invalidate", style |-> @.style]]
  /\ UNCHANGED <<minted, deleted, tc, objects, redis>>

RowsOf(s) == {k \in tc : k[2] = s}

\* ... and deletes its transform_cache rows, ignoring a failure.
Invalidate(h) ==
  /\ job[h].pc = "invalidate"
  /\ tc' \in {tc, tc \ RowsOf(job[h].style)}
  /\ job' = [job EXCEPT ![h] = Idle]
  /\ UNCHANGED <<styles, minted, deleted, objects, redis>>

\* DELETE /styles/:id reads the style, deletes its cache rows (ignoring a
\* failure), then the style, whose remaining cache rows cascade.
BeginDelete(h, r) ==
  /\ job[h] = Idle
  /\ r \in styles
  /\ job' = [job EXCEPT ![h] = [pc |-> "purge", style |-> r.id]]
  /\ UNCHANGED <<styles, minted, deleted, tc, objects, redis>>

PurgeRows(h) ==
  /\ job[h].pc = "purge"
  /\ tc' \in {tc, tc \ RowsOf(job[h].style)}
  /\ Goto(h, "drop")
  /\ UNCHANGED <<styles, minted, deleted, objects, redis>>

DropStyle(h) ==
  /\ job[h].pc = "drop"
  /\ styles' = {r \in styles : r.id # job[h].style}
  /\ tc' = tc \ RowsOf(job[h].style)
  /\ job' = [job EXCEPT ![h] = Idle]
  /\ UNCHANGED <<minted, deleted, objects, redis>>

\* DELETE /assets/:id sets deleted_at and nothing else: no cache is purged.
DeleteAsset(a) ==
  /\ a \notin deleted
  /\ deleted' = deleted \cup {a}
  /\ UNCHANGED <<styles, minted, tc, objects, redis, job>>

\* Redis drops an entry after 24 hours, or evicts it.
Expire(k) ==
  /\ redis[k] # None
  /\ redis' = [redis EXCEPT ![k] = None]
  /\ UNCHANGED <<styles, minted, deleted, tc, objects, job>>

-----------------------------------------------------------------------------
Serve(h) ==
  \/ \E r \in styles, a \in Assets : BeginServe(h, r, a)
  \/ FindAsset(h)
  \/ RedisHit(h) \/ RedisMiss(h)
  \/ RowHit(h) \/ RowMiss(h)
  \/ FetchHit(h) \/ FetchMiss(h) \/ Warm(h)
  \/ Render(h) \/ Store(h) \/ SaveRow(h) \/ CacheAndServe(h)
  \/ Finish(h)

Administer(h) ==
  \/ \E r \in styles, p \in Params : BeginUpdate(h, r, p)
  \/ \E slug \in Slugs, p \in Params : ImportDefaults(h, slug, p)
  \/ WriteStyle(h) \/ Invalidate(h)
  \/ \E r \in styles : BeginDelete(h, r)
  \/ PurgeRows(h) \/ DropStyle(h)

Next ==
  \/ \E h \in Handlers : Serve(h) \/ Administer(h) \/ Abandon(h)
  \/ \E s \in Styles, slug \in Slugs, p \in Params : CreateStyle(s, slug, p)
  \/ \E a \in Assets : DeleteAsset(a)
  \/ \E k \in DOMAIN redis : Expire(k)

Spec == Init /\ [][Next]_vars

-----------------------------------------------------------------------------
Served(h) == job[h].pc = "served"

(***************************************************************************)
(* A served image was rendered from the requested asset, for the style the *)
(* slug named, and from parameters with the output format that style had   *)
(* when the request read it, up to upper and lower case, whichever cache   *)
(* it came from: no key of the three mixes two assets, styles or formats   *)
(* (transform_service.go:127-128, 159, 295-319).                           *)
(***************************************************************************)
ServedIsRequested ==
  \A h \in Handlers : Served(h) =>
    /\ job[h].bytes.asset = job[h].asset
    /\ job[h].bytes.style = job[h].style
    /\ Extension(job[h].bytes.params) = Extension(job[h].params)

(***************************************************************************)
(* The served image was rendered from exactly the parameters the request   *)
(* read.  UpdateStyle's "Invalidate cached transforms for this style"      *)
(* (transform_service.go:96) is there for this.  It holds when no two of a *)
(* style's parameter sets have the same output format, whatever its case.  *)
(***************************************************************************)
ServedIsCurrent ==
  \A h \in Handlers : Served(h) => job[h].bytes.params = job[h].params

(***************************************************************************)
(* A request that begins after its asset was deleted is never served,      *)
(* although no cache is purged (asset_service.go:206-219,                  *)
(* transform_service.go:119).                                              *)
(***************************************************************************)
DeletedIsNotServed == \A h \in Handlers : Served(h) => job[h].live

\* A style that asks for one of the four formats, by its name, and whose operations
\* name no other.
Plain(p) ==
  /\ OutputFormat[p] \in {"jpeg", "png", "webp", "avif"}
  /\ Lower[OutputFormat[p]] = OutputFormat[p]
  /\ OwnFormat[p] \in {Unset, OutputFormat[p]}

(***************************************************************************)
(* "ServeStyled returns the transformed image bytes and content type"      *)
(* (services.go:156).  The type need not be that of the bytes: it comes    *)
(* from the row on a hit and from the request on a rendering, and neither  *)
(* is what the encoder made of it (transform_service.go:132, 151,          *)
(* 272; bimg.go:71-82, 105-118).  But only for bytes of parameters that    *)
(* are not plain, and only as those parameters name it: a change of the    *)
(* style gives no bytes the type of others, whichever cache they come from.*)
(***************************************************************************)
TypeMatchesBytes ==
  \A h \in Handlers : Served(h) =>
    LET p == job[h].bytes.params
    IN  \/ job[h].type = Encoding(p)
        \/ ~Plain(p) /\ job[h].type \in {HitType(p), RenderedType(p)}

(***************************************************************************)
(* transform_cache rows belong to styles that exist, although a request    *)
(* that read a style may insert one after the style was deleted            *)
(* (transform_service.go:105-110, 163; 000001_initial_schema.up.sql:196).  *)
(***************************************************************************)
NoOrphanRows == \A k \in tc : \E r \in styles : r.id = k[2]

-----------------------------------------------------------------------------
\* The bytes b are what a request for asset a and style s, with output
\* format f, may be given.
Fits(b, a, s, f) == b \in Bytes /\ b.asset = a /\ b.style = s /\ Extension(b.params) = f

\* The phases in which a request has its bytes in hand.
Carrying == {"warm", "store", "save", "cache", "served"}

(***************************************************************************)
(* The strengthening behind ServedIsRequested: every cache holds, under    *)
(* every key, only bytes that fit that key, and so does every request.     *)
(***************************************************************************)
ObjectsAreKeyed ==
  \A s \in Styles, a \in Assets, f \in Formats :
    objects[<<s, a, f>>] # None => Fits(objects[<<s, a, f>>], a, s, f)

RedisIsKeyed ==
  \A a \in Assets, s \in Styles, p \in Params :
    redis[<<a, s, p>>] # None => Fits(redis[<<a, s, p>>], a, s, Extension(p))

JobsAreKeyed ==
  \A h \in Handlers : job[h].pc \in Carrying =>
    Fits(job[h].bytes, job[h].asset, job[h].style, Extension(job[h].params))

KeyedInv == TypeOK /\ ObjectsAreKeyed /\ RedisIsKeyed /\ JobsAreKeyed

(***************************************************************************)
(* And behind DeletedIsNotServed: a request past the asset lookup began    *)
(* before the deletion, and one still at the lookup did so or will fail.   *)
(***************************************************************************)
LookupsAreLive ==
  \A h \in Handlers : job[h].pc \in ServePhases =>
    job[h].live \/ (job[h].pc = "asset" /\ job[h].asset \in deleted)
=============================================================================
