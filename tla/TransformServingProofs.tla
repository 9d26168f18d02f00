------------------------ MODULE TransformServingProofs ------------------------
(***************************************************************************)
(* What styled delivery guarantees for any number of requests, styles,     *)
(* assets and parameter sets: type correctness, that the caches never mix  *)
(* assets, styles or formats, and that a deleted asset is not served.      *)
(***************************************************************************)
EXTENDS TransformServing, TLAPS

Jobs == {Idle} \cup Serving \cup Updating \cup StyleOp

\* A request's phase determines the shape of its record.
LEMMA JobShape ==
  ASSUME TypeOK, NEW h \in Handlers
  PROVE  /\ job[h].pc \in ServePhases => job[h] \in Serving
         /\ job[h].pc = "write" => job[h] \in Updating
         /\ job[h].pc \in {"invalidate", "purge", "drop"} => job[h] \in StyleOp
BY DEF TypeOK, Idle, Serving, Updating, StyleOp, ServePhases

LEMMA ServingFields ==
  ASSUME NEW j \in Serving
  PROVE  /\ j.asset \in Assets /\ j.style \in Styles /\ j.params \in Params
         /\ j.bytes \in Bytes \cup {None} /\ j.pc \in ServePhases
         /\ cacheKey(j) \in Assets \X Styles \X Params
         /\ cacheKey(j) = <<j.asset, j.style, j.params>>
BY DEF Serving, cacheKey

LEMMA FormatTypes ==
  ASSUME ServingAssumption, NEW p \in Params
  PROVE  /\ Extension(p) \in Formats
         /\ HitType(p) \in Types /\ RenderedType(p) \in Types
BY DEF ServingAssumption, Extension, HitType, RenderedType, formatToMIME, Types

LEMMA KeyType ==
  ASSUME ServingAssumption, NEW j \in Serving
  PROVE  transformKey(j) \in Styles \X Assets \X Formats
BY ServingFields, FormatTypes DEF transformKey

\* A step of h keeps what the request was for, and every other handler's job.
Follows(h) ==
  /\ job'[h].asset = job[h].asset /\ job'[h].style = job[h].style
  /\ job'[h].params = job[h].params /\ job'[h].live = job[h].live
  /\ \A g \in Handlers : g # h => job'[g] = job[g]

\* The three ways a serving request moves on.
LEMMA GotoServing ==
  ASSUME TypeOK, NEW h \in Handlers, job[h] \in Serving, NEW pc \in ServePhases, Goto(h, pc)
  PROVE  /\ job' \in [Handlers -> Jobs] /\ Follows(h)
         /\ job'[h].pc = pc /\ job'[h].bytes = job[h].bytes
<1>1. [job[h] EXCEPT !.pc = pc] \in Serving
  BY DEF Serving
<1>2. job' = [job EXCEPT ![h] = [job[h] EXCEPT !.pc = pc]]
  BY DEF Goto
<1>3. job'[h] = [job[h] EXCEPT !.pc = pc]
  BY <1>2 DEF TypeOK
<1> QED
  BY <1>1, <1>2, <1>3 DEF TypeOK, Jobs, Follows, Serving

LEMMA HoldServing ==
  ASSUME TypeOK, NEW h \in Handlers, job[h] \in Serving, NEW pc \in ServePhases,
         NEW b \in Bytes, Hold(h, pc, b)
  PROVE  /\ job' \in [Handlers -> Jobs]
         /\ Follows(h) /\ job'[h].pc = pc /\ job'[h].bytes = b
<1>1. [job[h] EXCEPT !.pc = pc, !.bytes = b] \in Serving
  BY DEF Serving
<1>2. job' = [job EXCEPT ![h] = [job[h] EXCEPT !.pc = pc, !.bytes = b]]
  BY DEF Hold
<1>3. job'[h] = [job[h] EXCEPT !.pc = pc, !.bytes = b]
  BY <1>2 DEF TypeOK
<1> QED
  BY <1>1, <1>2, <1>3 DEF TypeOK, Jobs, Follows, Serving

LEMMA AnswerServing ==
  ASSUME TypeOK, NEW h \in Handlers, job[h] \in Serving,
         NEW b \in Bytes \cup {None}, NEW t \in Types, Answer(h, b, t)
  PROVE  /\ job' \in [Handlers -> Jobs]
         /\ Follows(h) /\ job'[h].pc = "served" /\ job'[h].bytes = b /\ job'[h].type = t
<1>1. [job[h] EXCEPT !.pc = "served", !.bytes = b, !.type = t] \in Serving
  BY DEF Serving, ServePhases
<1>2. job' = [job EXCEPT ![h] = [job[h] EXCEPT !.pc = "served", !.bytes = b, !.type = t]]
  BY DEF Answer
<1>3. job'[h] = [job[h] EXCEPT !.pc = "served", !.bytes = b, !.type = t]
  BY <1>2 DEF TypeOK
<1> QED
  BY <1>1, <1>2, <1>3 DEF TypeOK, Jobs, Follows, Serving

LEMMA CachedType ==
  ASSUME TypeOK, NEW h \in Handlers, job[h] \in Serving, Cached(h)
  PROVE  redis' \in [Assets \X Styles \X Params -> Bytes \cup {None}]
BY ServingFields DEF Cached, TypeOK

-----------------------------------------------------------------------------
LEMMA TypeInit == Init => TypeOK
BY DEF Init, TypeOK

LEMMA ServeType ==
  ASSUME ServingAssumption, TypeOK, NEW h \in Handlers, Serve(h)
  PROVE  TypeOK'
<1> USE DEF Jobs
<1>1. CASE \E r \in styles, a \in Assets : BeginServe(h, r, a)
  <2>1. PICK r \in styles, a \in Assets : BeginServe(h, r, a)
    BY <1>1
  <2>2. r.id \in Styles /\ r.params \in Params
    BY DEF TypeOK, StyleRow
  <2>3. [pc |-> "asset", asset |-> a, style |-> r.id, params |-> r.params,
         live |-> a \notin deleted, bytes |-> None, type |-> None] \in Serving
    BY <2>2 DEF Serving, ServePhases
  <2> QED
    BY <2>1, <2>3 DEF BeginServe, TypeOK
<1>2. CASE FindAsset(h) \/ RedisMiss(h) \/ RowHit(h) \/ RowMiss(h) \/ FetchMiss(h)
  <2>1. job[h] \in Serving /\ \E pc \in ServePhases : Goto(h, pc)
    BY <1>2, JobShape DEF FindAsset, RedisMiss, RowHit, RowMiss, FetchMiss, ServePhases
  <2>2. job' \in [Handlers -> Jobs]
    BY <2>1, GotoServing
  <2> QED
    BY <1>2, <2>2 DEF FindAsset, RedisMiss, RowHit, RowMiss, FetchMiss, TypeOK
<1>3. CASE RedisHit(h)
  <2>1. job[h] \in Serving
    BY <1>3, JobShape DEF RedisHit, ServePhases
  <2>2. redis[cacheKey(job[h])] \in Bytes \cup {None}
    BY <2>1, ServingFields DEF TypeOK
  <2>3. HitType(job[h].params) \in Types
    BY <2>1, ServingFields, FormatTypes
  <2>4. job' \in [Handlers -> Jobs]
    BY <1>3, <2>1, <2>2, <2>3, AnswerServing DEF RedisHit
  <2> QED
    BY <1>3, <2>4 DEF RedisHit, TypeOK
<1>4. CASE FetchHit(h)
  <2>1. job[h] \in Serving
    BY <1>4, JobShape DEF FetchHit, ServePhases
  <2>2. objects[transformKey(job[h])] \in Bytes
    BY <1>4, <2>1, KeyType DEF FetchHit, TypeOK
  <2>3. \E b \in Bytes : Hold(h, "warm", b)
    BY <1>4, <2>2 DEF FetchHit
  <2>4. job' \in [Handlers -> Jobs]
    BY <2>1, <2>3, HoldServing DEF ServePhases
  <2> QED
    BY <1>4, <2>4 DEF FetchHit, TypeOK
<1>5. CASE Render(h)
  <2>1. job[h] \in Serving
    BY <1>5, JobShape DEF Render, ServePhases
  <2>2. [asset |-> job[h].asset, style |-> job[h].style,
         params |-> job[h].params] \in Bytes
    BY <2>1, ServingFields DEF Bytes
  <2>3. \E b \in Bytes : Hold(h, "store", b)
    BY <1>5, <2>2 DEF Render
  <2>4. job' \in [Handlers -> Jobs]
    BY <2>1, <2>3, HoldServing DEF ServePhases
  <2> QED
    BY <1>5, <2>4 DEF Render, TypeOK
<1>6. CASE Warm(h) \/ CacheAndServe(h)
  <2>1. job[h] \in Serving /\ Cached(h)
    BY <1>6, JobShape DEF Warm, CacheAndServe, ServePhases
  <2>2. \E t \in Types : Answer(h, job[h].bytes, t)
    BY <1>6, <2>1, ServingFields, FormatTypes DEF Warm, CacheAndServe
  <2>3. job' \in [Handlers -> Jobs]
    BY <2>1, <2>2, ServingFields, AnswerServing
  <2> QED
    BY <1>6, <2>1, <2>3, CachedType DEF Warm, CacheAndServe, TypeOK
<1>7. CASE Store(h)
  <2>1. job[h] \in Serving /\ "save" \in ServePhases
    BY <1>7, JobShape DEF Store, ServePhases
  <2>2. job' \in [Handlers -> Jobs]
    BY <1>7, <2>1, GotoServing DEF Store
  <2>3. objects' \in [Styles \X Assets \X Formats -> Bytes \cup {None}]
    BY <1>7, <2>1, ServingFields, KeyType DEF Store, TypeOK
  <2> QED
    BY <1>7, <2>2, <2>3 DEF Store, TypeOK
<1>8. CASE SaveRow(h)
  <2>1. job[h] \in Serving /\ "cache" \in ServePhases
    BY <1>8, JobShape DEF SaveRow, ServePhases
  <2>2. job' \in [Handlers -> Jobs]
    BY <1>8, <2>1, GotoServing DEF SaveRow
  <2>3. tc' \subseteq Assets \X Styles \X Params
    BY <1>8, <2>1, ServingFields DEF SaveRow, TypeOK
  <2> QED
    BY <1>8, <2>2, <2>3 DEF SaveRow, TypeOK
<1>9. CASE Finish(h)
  BY <1>9 DEF Finish, TypeOK
<1> QED
  BY <1>1, <1>2, <1>3, <1>4, <1>5, <1>6, <1>7, <1>8, <1>9 DEF Serve

LEMMA AdministerType ==
  ASSUME TypeOK, NEW h \in Handlers, Administer(h)
  PROVE  TypeOK'
<1> USE DEF Jobs
<1>1. CASE \E r \in styles, p \in Params : BeginUpdate(h, r, p)
  <2>1. PICK r \in styles, p \in Params : BeginUpdate(h, r, p)
    BY <1>1
  <2>2. [pc |-> "write", style |-> r.id, params |-> p] \in Updating
    BY DEF TypeOK, StyleRow, Updating
  <2> QED
    BY <2>1, <2>2 DEF BeginUpdate, TypeOK
<1>2. CASE WriteStyle(h)
  <2>1. job[h].style \in Styles /\ job[h].params \in Params
    BY <1>2, JobShape DEF WriteStyle, Updating
  <2>2. [pc |-> "invalidate", style |-> job[h].style] \in StyleOp
    BY <2>1 DEF StyleOp
  <2>3. \A r \in StyleRow : [r EXCEPT !.params = job[h].params] \in StyleRow
    BY <2>1 DEF StyleRow
  <2>4. styles' \subseteq StyleRow
    BY <1>2, <2>3 DEF WriteStyle, TypeOK
  <2> QED
    BY <1>2, <2>2, <2>4 DEF WriteStyle, TypeOK
<1>3. CASE Invalidate(h)
  BY <1>3 DEF Invalidate, RowsOf, TypeOK
<1>4. CASE \E r \in styles : BeginDelete(h, r)
  <2>1. PICK r \in styles : BeginDelete(h, r)
    BY <1>4
  <2>2. [pc |-> "purge", style |-> r.id] \in StyleOp
    BY DEF TypeOK, StyleRow, StyleOp
  <2> QED
    BY <2>1, <2>2 DEF BeginDelete, TypeOK
<1>5. CASE PurgeRows(h)
  <2>1. [job[h] EXCEPT !.pc = "drop"] \in StyleOp
    BY <1>5, JobShape DEF PurgeRows, StyleOp
  <2> QED
    BY <1>5, <2>1 DEF PurgeRows, Goto, RowsOf, TypeOK
<1>6. CASE DropStyle(h)
  BY <1>6 DEF DropStyle, RowsOf, TypeOK
<1> QED
  BY <1>1, <1>2, <1>3, <1>4, <1>5, <1>6 DEF Administer, ImportDefaults

LEMMA TypeStep == ServingAssumption /\ TypeOK /\ [Next]_vars => TypeOK'
<1> SUFFICES ASSUME ServingAssumption, TypeOK, [Next]_vars PROVE TypeOK'
  OBVIOUS
<1>1. ASSUME NEW h \in Handlers, Abandon(h) PROVE TypeOK'
  BY <1>1 DEF Abandon, TypeOK
<1>2. ASSUME NEW s \in Styles, NEW slug \in Slugs, NEW p \in Params, CreateStyle(s, slug, p)
      PROVE  TypeOK'
  BY <1>2 DEF CreateStyle, TypeOK, StyleRow
<1>3. ASSUME NEW a \in Assets, DeleteAsset(a) PROVE TypeOK'
  BY <1>3 DEF DeleteAsset, TypeOK
<1>4. ASSUME NEW k \in DOMAIN redis, Expire(k) PROVE TypeOK'
  BY <1>4 DEF Expire, TypeOK
<1>5. CASE UNCHANGED vars
  BY <1>5 DEF vars, TypeOK
<1> QED
  BY <1>1, <1>2, <1>3, <1>4, <1>5, ServeType, AdministerType DEF Next

(***************************************************************************)
(* Every state of styled delivery is well typed.                           *)
(***************************************************************************)
THEOREM ServingTypes == Spec => []TypeOK
<1>1. Init => TypeOK
  BY TypeInit
<1>2. TypeOK /\ [Next]_vars => TypeOK'
  BY ServingAssumption, TypeStep
<1> QED
  BY <1>1, <1>2, PTL DEF Spec

-----------------------------------------------------------------------------
\* What a request reads from a keyed cache fits it ...
LEMMA ObjectsRead ==
  ASSUME ServingAssumption, ObjectsAreKeyed, NEW j \in Serving,
         objects[transformKey(j)] # None
  PROVE  Fits(objects[transformKey(j)], j.asset, j.style, Extension(j.params))
<1>1. j.style \in Styles /\ j.asset \in Assets /\ Extension(j.params) \in Formats
  BY ServingFields, FormatTypes
<1> QED
  BY <1>1 DEF ObjectsAreKeyed, transformKey

LEMMA RedisRead ==
  ASSUME RedisIsKeyed, NEW j \in Serving, redis[cacheKey(j)] # None
  PROVE  Fits(redis[cacheKey(j)], j.asset, j.style, Extension(j.params))
BY ServingFields DEF RedisIsKeyed, cacheKey

\* ... and what fits it leaves a cache keyed when written there.
LEMMA CachedKeyed ==
  ASSUME TypeOK, RedisIsKeyed, NEW h \in Handlers, job[h] \in Serving, Cached(h),
         Fits(job[h].bytes, job[h].asset, job[h].style, Extension(job[h].params))
  PROVE  RedisIsKeyed'
<1> SUFFICES ASSUME NEW a \in Assets, NEW s \in Styles, NEW p \in Params,
                    redis'[<<a, s, p>>] # None
             PROVE  Fits(redis'[<<a, s, p>>], a, s, Extension(p))
  BY DEF RedisIsKeyed, Fits
<1>1. CASE redis'[<<a, s, p>>] = redis[<<a, s, p>>]
  BY <1>1 DEF RedisIsKeyed
<1>2. CASE redis'[<<a, s, p>>] # redis[<<a, s, p>>]
  <2>1. <<a, s, p>> = cacheKey(job[h]) /\ redis'[<<a, s, p>>] = job[h].bytes
    BY <1>2 DEF Cached, TypeOK
  <2>2. a = job[h].asset /\ s = job[h].style /\ p = job[h].params
    BY <2>1 DEF cacheKey
  <2> QED
    BY <2>1, <2>2
<1> QED
  BY <1>1, <1>2

LEMMA StoredKeyed ==
  ASSUME TypeOK, ObjectsAreKeyed, NEW h \in Handlers, job[h] \in Serving,
         objects' \in {objects, [objects EXCEPT ![transformKey(job[h])] = job[h].bytes]},
         Fits(job[h].bytes, job[h].asset, job[h].style, Extension(job[h].params))
  PROVE  ObjectsAreKeyed'
<1> SUFFICES ASSUME NEW s \in Styles, NEW a \in Assets, NEW f \in Formats,
                    objects'[<<s, a, f>>] # None
             PROVE  Fits(objects'[<<s, a, f>>], a, s, f)
  BY DEF ObjectsAreKeyed, Fits
<1>1. CASE objects'[<<s, a, f>>] = objects[<<s, a, f>>]
  BY <1>1 DEF ObjectsAreKeyed
<1>2. CASE objects'[<<s, a, f>>] # objects[<<s, a, f>>]
  <2>1. <<s, a, f>> = transformKey(job[h]) /\ objects'[<<s, a, f>>] = job[h].bytes
    BY <1>2 DEF TypeOK
  <2>2. s = job[h].style /\ a = job[h].asset /\ f = Extension(job[h].params)
    BY <2>1 DEF transformKey
  <2> QED
    BY <2>1, <2>2
<1> QED
  BY <1>1, <1>2

\* A step of h keeps the requests keyed if it gives h bytes that fit, or none.
LEMMA JobsKeyed ==
  ASSUME JobsAreKeyed, NEW h \in Handlers,
         \A g \in Handlers : g # h => job'[g] = job[g],
         job'[h].pc \in Carrying =>
           Fits(job'[h].bytes, job'[h].asset, job'[h].style, Extension(job'[h].params))
  PROVE  JobsAreKeyed'
BY DEF JobsAreKeyed, Fits

\* The caches stay keyed while nobody writes them.
LEMMA CachesKeyed ==
  ASSUME ObjectsAreKeyed, RedisIsKeyed
  PROVE  /\ UNCHANGED objects => ObjectsAreKeyed'
         /\ UNCHANGED redis => RedisIsKeyed'
BY DEF ObjectsAreKeyed, RedisIsKeyed, Fits

-----------------------------------------------------------------------------
LEMMA KeyedInit == Init => KeyedInv
<1> SUFFICES ASSUME Init PROVE KeyedInv
  OBVIOUS
<1>1. TypeOK
  BY TypeInit
<1>2. ObjectsAreKeyed /\ RedisIsKeyed
  BY DEF Init, ObjectsAreKeyed, RedisIsKeyed
<1>3. JobsAreKeyed
  BY DEF Init, JobsAreKeyed, Idle, Carrying
<1> QED
  BY <1>1, <1>2, <1>3 DEF KeyedInv

KeyedParts == ObjectsAreKeyed /\ RedisIsKeyed /\ JobsAreKeyed

LEMMA ServeKeyed ==
  ASSUME ServingAssumption, KeyedInv, NEW h \in Handlers, Serve(h)
  PROVE  KeyedParts'
<1> USE DEF KeyedParts
<1>0. TypeOK /\ ObjectsAreKeyed /\ RedisIsKeyed /\ JobsAreKeyed
  BY DEF KeyedInv
<1>1. CASE \E r \in styles, a \in Assets : BeginServe(h, r, a)
  <2>1. job'[h].pc = "asset" /\ \A g \in Handlers : g # h => job'[g] = job[g]
    BY <1>0, <1>1 DEF BeginServe, TypeOK
  <2>2. JobsAreKeyed'
    BY <1>0, <2>1, JobsKeyed DEF Carrying
  <2> QED
    BY <1>0, <1>1, <2>2, CachesKeyed DEF BeginServe
<1>2. CASE FindAsset(h) \/ RedisMiss(h) \/ RowHit(h) \/ RowMiss(h) \/ FetchMiss(h)
  <2>1. job[h] \in Serving /\ \E pc \in ServePhases \ Carrying : Goto(h, pc)
    BY <1>0, <1>2, JobShape
    DEF FindAsset, RedisMiss, RowHit, RowMiss, FetchMiss, ServePhases, Carrying
  <2>2. PICK pc \in ServePhases \ Carrying : Goto(h, pc)
    BY <2>1
  <2>3. job'[h].pc \notin Carrying /\ Follows(h)
    BY <1>0, <2>1, <2>2, GotoServing
  <2>4. JobsAreKeyed'
    BY <1>0, <2>3, JobsKeyed DEF Follows
  <2> QED
    BY <1>0, <1>2, <2>4, CachesKeyed DEF FindAsset, RedisMiss, RowHit, RowMiss, FetchMiss
<1>3. CASE RedisHit(h)
  <2> DEFINE b == redis[cacheKey(job[h])]
  <2>1. job[h] \in Serving
    BY <1>0, <1>3, JobShape DEF RedisHit, ServePhases
  <2>2. Fits(b, job[h].asset, job[h].style, Extension(job[h].params))
    BY <1>0, <1>3, <2>1, RedisRead DEF RedisHit
  <2>3. b \in Bytes /\ Extension(job[h].params) \in Formats
    BY <2>1, <2>2, ServingFields, FormatTypes DEF Fits
  <2>4. Follows(h) /\ job'[h].bytes = b
    BY <1>0, <1>3, <2>1, <2>3, ServingFields, FormatTypes, AnswerServing DEF RedisHit
  <2>5. Fits(job'[h].bytes, job'[h].asset, job'[h].style, Extension(job'[h].params))
    BY <2>2, <2>4 DEF Follows
  <2>6. JobsAreKeyed'
    BY <1>0, <2>4, <2>5, JobsKeyed DEF Follows
  <2> QED
    BY <1>0, <1>3, <2>6, CachesKeyed DEF RedisHit
<1>4. CASE FetchHit(h)
  <2>1. job[h] \in Serving
    BY <1>0, <1>4, JobShape DEF FetchHit, ServePhases
  <2>2. Fits(objects[transformKey(job[h])], job[h].asset, job[h].style,
             Extension(job[h].params))
    BY <1>0, <1>4, <2>1, ObjectsRead DEF FetchHit
  <2> DEFINE b == objects[transformKey(job[h])]
  <2>3. Hold(h, "warm", b)
    BY <1>4 DEF FetchHit
  <2>4. Fits(b, job[h].asset, job[h].style, Extension(job[h].params))
    BY <2>2
  <2>5. b \in Bytes /\ "warm" \in ServePhases
    BY <2>4 DEF Fits, ServePhases
  <2>6. Follows(h) /\ job'[h].bytes = b
    BY <1>0, <2>1, <2>3, <2>5, HoldServing
  <2>7. Fits(job'[h].bytes, job'[h].asset, job'[h].style, Extension(job'[h].params))
    BY <2>4, <2>6 DEF Follows
  <2>8. JobsAreKeyed'
    BY <1>0, <2>6, <2>7, JobsKeyed DEF Follows
  <2> QED
    BY <1>0, <1>4, <2>8, CachesKeyed DEF FetchHit
<1>5. CASE Render(h)
  <2> DEFINE b == [asset |-> job[h].asset, style |-> job[h].style,
                   params |-> job[h].params]
  <2>1. job[h] \in Serving
    BY <1>0, <1>5, JobShape DEF Render, ServePhases
  <2>2. b \in Bytes
    BY <2>1, ServingFields DEF Bytes
  <2>3. Hold(h, "store", b)
    BY <1>5 DEF Render
  <2>4. Fits(b, job[h].asset, job[h].style, Extension(job[h].params))
    BY <2>2 DEF Fits
  <2>5. b \in Bytes /\ "store" \in ServePhases
    BY <2>4 DEF Fits, ServePhases
  <2>6. Follows(h) /\ job'[h].bytes = b
    BY <1>0, <2>1, <2>3, <2>5, HoldServing
  <2>7. Fits(job'[h].bytes, job'[h].asset, job'[h].style, Extension(job'[h].params))
    BY <2>4, <2>6 DEF Follows
  <2>8. JobsAreKeyed'
    BY <1>0, <2>6, <2>7, JobsKeyed DEF Follows
  <2> QED
    BY <1>0, <1>5, <2>8, CachesKeyed DEF Render
<1>6. CASE Warm(h) \/ CacheAndServe(h)
  <2>1. job[h] \in Serving /\ Cached(h)
    BY <1>0, <1>6, JobShape DEF Warm, CacheAndServe, ServePhases
  <2>2. Fits(job[h].bytes, job[h].asset, job[h].style, Extension(job[h].params))
    BY <1>0, <1>6 DEF Warm, CacheAndServe, JobsAreKeyed, Carrying
  <2>3. PICK t \in Types : Answer(h, job[h].bytes, t)
    BY <1>6, <2>1, ServingFields, FormatTypes DEF Warm, CacheAndServe
  <2>4. Follows(h) /\ job'[h].bytes = job[h].bytes
    BY <1>0, <2>1, <2>3, ServingFields, AnswerServing
  <2>5. Fits(job'[h].bytes, job'[h].asset, job'[h].style, Extension(job'[h].params))
    BY <2>2, <2>4 DEF Follows
  <2>6. JobsAreKeyed'
    BY <1>0, <2>4, <2>5, JobsKeyed DEF Follows
  <2>7. RedisIsKeyed'
    BY <1>0, <2>1, <2>2, CachedKeyed
  <2> QED
    BY <1>0, <1>6, <2>6, <2>7, CachesKeyed DEF Warm, CacheAndServe
<1>7. CASE Store(h) \/ SaveRow(h)
  <2>1. job[h] \in Serving
    BY <1>0, <1>7, JobShape DEF Store, SaveRow, ServePhases
  <2>2. Fits(job[h].bytes, job[h].asset, job[h].style, Extension(job[h].params))
    BY <1>0, <1>7 DEF Store, SaveRow, JobsAreKeyed, Carrying
  <2>3. PICK pc \in ServePhases : Goto(h, pc)
    BY <1>7 DEF Store, SaveRow, ServePhases
  <2>4. Follows(h) /\ job'[h].bytes = job[h].bytes
    BY <1>0, <2>1, <2>3, GotoServing
  <2>5. Fits(job'[h].bytes, job'[h].asset, job'[h].style, Extension(job'[h].params))
    BY <2>2, <2>4 DEF Follows
  <2>6. JobsAreKeyed'
    BY <1>0, <2>4, <2>5, JobsKeyed DEF Follows
  <2>7. ObjectsAreKeyed'
    BY <1>0, <1>7, <2>1, <2>2, StoredKeyed DEF Store, SaveRow
  <2> QED
    BY <1>0, <1>7, <2>6, <2>7, CachesKeyed DEF Store, SaveRow
<1>8. CASE Finish(h)
  <2>1. job'[h].pc = "idle" /\ \A g \in Handlers : g # h => job'[g] = job[g]
    BY <1>0, <1>8 DEF Finish, TypeOK, Idle
  <2>2. JobsAreKeyed'
    BY <1>0, <2>1, JobsKeyed DEF Carrying
  <2> QED
    BY <1>0, <1>8, <2>2, CachesKeyed DEF Finish
<1> QED
  BY <1>1, <1>2, <1>3, <1>4, <1>5, <1>6, <1>7, <1>8 DEF Serve

\* No administrative step touches the cached bytes or gives a request any.
LEMMA AdministerKeyed ==
  ASSUME KeyedInv, NEW h \in Handlers, Administer(h)
  PROVE  KeyedParts'
<1>1. TypeOK /\ ObjectsAreKeyed /\ RedisIsKeyed /\ JobsAreKeyed
  BY DEF KeyedInv
<1>2. UNCHANGED <<objects, redis>>
  BY DEF Administer, BeginUpdate, ImportDefaults, WriteStyle, Invalidate, BeginDelete, PurgeRows,
         DropStyle
<1>3. job'[h].pc \in {"write", "invalidate", "idle", "purge", "drop"}
  BY <1>1 DEF Administer, BeginUpdate, ImportDefaults, WriteStyle, Invalidate, BeginDelete,
              PurgeRows, DropStyle, Goto, TypeOK, Idle, Serving, Updating, StyleOp
<1>4. \A g \in Handlers : g # h => job'[g] = job[g]
  BY <1>1 DEF Administer, BeginUpdate, ImportDefaults, WriteStyle, Invalidate, BeginDelete,
              PurgeRows, DropStyle, Goto, TypeOK
<1>5. JobsAreKeyed'
  BY <1>1, <1>3, <1>4, JobsKeyed DEF Carrying
<1> QED
  BY <1>1, <1>2, <1>5, CachesKeyed DEF KeyedParts

LEMMA KeyedStep == ServingAssumption /\ KeyedInv /\ [Next]_vars => KeyedInv'
<1> SUFFICES ASSUME ServingAssumption, KeyedInv, [Next]_vars PROVE KeyedInv'
  OBVIOUS
<1>1. TypeOK /\ ObjectsAreKeyed /\ RedisIsKeyed /\ JobsAreKeyed
  BY DEF KeyedInv
<1>2. TypeOK'
  BY <1>1, TypeStep
<1>3. ASSUME NEW h \in Handlers, Abandon(h) PROVE KeyedParts'
  <2>1. job'[h].pc = "idle" /\ \A g \in Handlers : g # h => job'[g] = job[g]
    BY <1>1, <1>3 DEF Abandon, TypeOK, Idle
  <2>2. JobsAreKeyed'
    BY <1>1, <2>1, JobsKeyed DEF Carrying
  <2> QED
    BY <1>1, <1>3, <2>2, CachesKeyed DEF Abandon, KeyedParts
<1>4. ASSUME UNCHANGED <<objects, redis, job>> PROVE KeyedParts'
  BY <1>1, <1>4, CachesKeyed DEF KeyedParts, JobsAreKeyed, Fits
<1>5. ASSUME NEW k \in DOMAIN redis, Expire(k) PROVE KeyedParts'
  <2>1. RedisIsKeyed'
    BY <1>1, <1>5 DEF Expire, RedisIsKeyed, Fits, TypeOK
  <2>2. JobsAreKeyed'
    BY <1>1, <1>5 DEF Expire, JobsAreKeyed, Fits
  <2> QED
    BY <1>1, <1>5, <2>1, <2>2, CachesKeyed DEF Expire, KeyedParts
<1>6. KeyedParts'
  BY <1>3, <1>4, <1>5, ServeKeyed, AdministerKeyed DEF Next, vars, CreateStyle, DeleteAsset
<1> QED
  BY <1>2, <1>6 DEF KeyedInv, KeyedParts

LEMMA KeyedAlways == Spec => []KeyedInv
<1>1. Init => KeyedInv
  BY KeyedInit
<1>2. KeyedInv /\ [Next]_vars => KeyedInv'
  BY ServingAssumption, KeyedStep
<1> QED
  BY <1>1, <1>2, PTL DEF Spec

(***************************************************************************)
(* Whichever cache answers, a request is served bytes rendered from its    *)
(* asset, for its style, in its output format.                             *)
(***************************************************************************)
THEOREM ServingNeverMixes == Spec => []ServedIsRequested
<1>1. KeyedInv => ServedIsRequested
  BY DEF KeyedInv, JobsAreKeyed, ServedIsRequested, Served, Carrying, Fits
<1> QED
  BY <1>1, KeyedAlways, PTL

(***************************************************************************)
(* When no two parameter sets share an output format, upper or lower case, *)
(* the served bytes are of the very parameters the request read:           *)
(* format-only storage keys are all that can make an image stale.          *)
(***************************************************************************)
THEOREM ServingIsCurrent ==
  ASSUME \A p, q \in Params : Extension(p) = Extension(q) => p = q
  PROVE  Spec => []ServedIsCurrent
<1>1. KeyedInv => ServedIsCurrent
  <2> SUFFICES ASSUME KeyedInv, NEW h \in Handlers, Served(h)
               PROVE  job[h].bytes.params = job[h].params
    BY DEF ServedIsCurrent
  <2>1. Fits(job[h].bytes, job[h].asset, job[h].style, Extension(job[h].params))
    BY DEF KeyedInv, JobsAreKeyed, Served, Carrying
  <2>2. job[h] \in Serving
    BY JobShape DEF KeyedInv, Served, ServePhases
  <2>3. job[h].bytes.params \in Params /\ job[h].params \in Params
    BY <2>1, <2>2, ServingFields DEF Fits, Bytes
  <2> QED
    BY <2>1, <2>3 DEF Fits
<1> QED
  BY <1>1, KeyedAlways, PTL

-----------------------------------------------------------------------------
\* The type an answer names is that of the row (both cache hits), or what was
\* asked of the transformer, and then for bytes of the same parameters.
NamesType(j) ==
  j.type = HitType(j.params) \/ (j.type = RenderedType(j.params) /\ j.bytes.params = j.params)

\* The phases in which a request holds what it rendered itself.
Rendered == {"store", "save", "cache"}

Typed(j) ==
  /\ j.pc \in Rendered => j.bytes.params = j.params
  /\ j.pc = "served" => NamesType(j)

TypesAreOfStyle == \A h \in Handlers : Typed(job[h])

TypedInv == KeyedInv /\ TypesAreOfStyle

\* An answer is given on a cache hit or after rendering, and nowhere else.
LEMMA AnswersAreTyped ==
  ASSUME ServingAssumption, KeyedInv, NEW h \in Handlers, Typed(job[h]),
         Serve(h) \/ Administer(h) \/ Abandon(h)
  PROVE  /\ \A g \in Handlers : g # h => job'[g] = job[g]
         /\ job'[h].pc \in Rendered => job'[h].bytes.params = job'[h].params
         /\ job'[h].pc = "served" =>
              \/ job'[h].type = HitType(job'[h].params)
              \/ /\ job'[h].type = RenderedType(job'[h].params)
                 /\ job'[h].bytes.params = job'[h].params
<1>0. TypeOK /\ RedisIsKeyed /\ JobsAreKeyed
  BY DEF KeyedInv
<1>1. CASE RedisHit(h) \/ Warm(h)
  <2>1. job[h] \in Serving
    BY <1>0, <1>1, JobShape DEF RedisHit, Warm, ServePhases
  <2>2. redis[cacheKey(job[h])] \in Bytes \cup {None}
    BY <1>0, <2>1, ServingFields DEF TypeOK
  <2>3. PICK b \in Bytes \cup {None} : Answer(h, b, HitType(job[h].params))
    BY <1>1, <2>1, <2>2, ServingFields DEF RedisHit, Warm
  <2>4. HitType(job[h].params) \in Types
    BY <2>1, ServingFields, FormatTypes
  <2>5. /\ Follows(h) /\ job'[h].pc = "served"
        /\ job'[h].type = HitType(job[h].params)
    BY <1>0, <2>1, <2>3, <2>4, AnswerServing
  <2> QED
    BY <2>5 DEF Follows, Rendered
<1>2. CASE CacheAndServe(h)
  <2>1. job[h] \in Serving /\ job[h].bytes.params = job[h].params
    BY <1>0, <1>2, JobShape DEF CacheAndServe, ServePhases, Typed, Rendered
  <2>2. Answer(h, job[h].bytes, RenderedType(job[h].params))
    BY <1>2 DEF CacheAndServe
  <2>3. RenderedType(job[h].params) \in Types
    BY <2>1, ServingFields, FormatTypes
  <2>4. /\ Follows(h) /\ job'[h].pc = "served" /\ job'[h].bytes = job[h].bytes
        /\ job'[h].type = RenderedType(job[h].params)
    BY <1>0, <2>1, <2>2, <2>3, ServingFields, AnswerServing
  <2> QED
    BY <2>1, <2>4 DEF Follows, Rendered
<1>3. CASE Render(h)
  <2> DEFINE b == [asset |-> job[h].asset, style |-> job[h].style,
                   params |-> job[h].params]
  <2>1. job[h] \in Serving /\ "store" \in ServePhases
    BY <1>0, <1>3, JobShape DEF Render, ServePhases
  <2>2. b \in Bytes /\ b.params = job[h].params
    BY <2>1, ServingFields DEF Bytes
  <2>3. Hold(h, "store", b)
    BY <1>3 DEF Render
  <2> HIDE DEF b
  <2>4. Follows(h) /\ job'[h].pc = "store" /\ job'[h].bytes = b
    BY <1>0, <2>1, <2>2, <2>3, HoldServing
  <2> QED
    BY <2>2, <2>4 DEF Follows
<1>4. CASE Store(h) \/ SaveRow(h)
  <2>1. job[h] \in Serving /\ job[h].bytes.params = job[h].params
    BY <1>0, <1>4, JobShape DEF Store, SaveRow, ServePhases, Typed, Rendered
  <2>2. PICK pc \in ServePhases \ {"served"} : Goto(h, pc)
    BY <1>4 DEF Store, SaveRow, ServePhases
  <2>3. Follows(h) /\ job'[h].pc = pc /\ job'[h].bytes = job[h].bytes
    BY <1>0, <2>1, <2>2, GotoServing
  <2> QED
    BY <2>1, <2>2, <2>3 DEF Follows
<1>5. ASSUME Serve(h), ~(RedisHit(h) \/ Warm(h) \/ CacheAndServe(h)),
             ~(Render(h) \/ Store(h) \/ SaveRow(h))
      PROVE  /\ job'[h].pc \notin Rendered \cup {"served"}
             /\ \A g \in Handlers : g # h => job'[g] = job[g]
  BY <1>0, <1>5
  DEF Serve, BeginServe, FindAsset, RedisMiss, RowHit, RowMiss, FetchHit, FetchMiss, Finish,
      Goto, Hold, TypeOK, Idle, Serving, Updating, StyleOp, Rendered
<1>6. ASSUME Administer(h) \/ Abandon(h)
      PROVE  /\ job'[h].pc \notin Rendered \cup {"served"}
             /\ \A g \in Handlers : g # h => job'[g] = job[g]
  BY <1>0, <1>6
  DEF Administer, BeginUpdate, ImportDefaults, WriteStyle, Invalidate, BeginDelete, PurgeRows,
      DropStyle, Abandon, Goto, TypeOK, Idle, Serving, Updating, StyleOp, Rendered
<1> QED
  BY <1>1, <1>2, <1>3, <1>4, <1>5, <1>6

LEMMA TypedStep == ServingAssumption /\ TypedInv /\ [Next]_vars => TypedInv'
<1> SUFFICES ASSUME ServingAssumption, TypedInv, [Next]_vars PROVE TypedInv'
  OBVIOUS
<1>1. KeyedInv /\ TypesAreOfStyle /\ KeyedInv'
  BY KeyedStep DEF TypedInv
<1>2. ASSUME NEW h \in Handlers, Serve(h) \/ Administer(h) \/ Abandon(h)
      PROVE  TypesAreOfStyle'
  <2>1. Typed(job[h])
    BY <1>1 DEF TypesAreOfStyle
  <2> QED
    BY <1>1, <1>2, <2>1, AnswersAreTyped DEF TypesAreOfStyle, Typed, NamesType
<1>3. ASSUME UNCHANGED job PROVE TypesAreOfStyle'
  BY <1>1, <1>3 DEF TypesAreOfStyle
<1>4. TypesAreOfStyle'
  BY <1>2, <1>3 DEF Next, vars, CreateStyle, DeleteAsset, Expire
<1> QED
  BY <1>1, <1>4 DEF TypedInv

\* The row of a style names the format of the objects it shares a name with.
LEMMA ExtensionGivesType ==
  ASSUME NEW p, NEW q, Extension(p) = Extension(q)
  PROVE  HitType(p) = HitType(q)
BY DEF Extension, HitType, formatToMIME

LEMMA PlainType ==
  ASSUME ServingAssumption, NEW p \in Params, Plain(p)
  PROVE  HitType(p) = Encoding(p) /\ RenderedType(p) = Encoding(p)
<1>1. reqFormat(p) = OutputFormat[p]
  BY DEF Plain, reqFormat
<1>2. formatToMIME(OutputFormat[p]) = OutputFormat[p] /\ mapFormat(OutputFormat[p]) = OutputFormat[p]
  BY DEF Plain, formatToMIME, mapFormat
<1>3. OutputFormat[p] # Unset
  BY DEF Plain, ServingAssumption
<1> QED
  BY <1>1, <1>2, <1>3 DEF HitType, RenderedType, Encoding

(***************************************************************************)
(* Whatever clients write for formats, a content type that is not that of  *)
(* the bytes is one the bytes' own parameters named, and they were not     *)
(* plain: no cache gives an image the type of other parameters, because    *)
(* storage keys keep formats apart.                                        *)
(***************************************************************************)
THEOREM ServingTypeMatches == Spec => []TypeMatchesBytes
<1>1. Init => TypedInv
  BY KeyedInit DEF Init, TypedInv, TypesAreOfStyle, Typed, Rendered, Idle
<1>2. TypedInv /\ [Next]_vars => TypedInv'
  BY ServingAssumption, TypedStep
<1>3. TypedInv => TypeMatchesBytes
  <2> SUFFICES ASSUME TypedInv, NEW h \in Handlers, Served(h)
               PROVE  \/ job[h].type = Encoding(job[h].bytes.params)
                      \/ /\ ~Plain(job[h].bytes.params)
                         /\ job[h].type \in {HitType(job[h].bytes.params),
                                             RenderedType(job[h].bytes.params)}
    BY DEF TypeMatchesBytes
  <2>1. Fits(job[h].bytes, job[h].asset, job[h].style, Extension(job[h].params))
    BY DEF TypedInv, KeyedInv, JobsAreKeyed, Served, Carrying
  <2>2. job[h].bytes.params \in Params
    BY <2>1 DEF Fits, Bytes
  <2>3. HitType(job[h].bytes.params) = HitType(job[h].params)
    BY <2>1, ExtensionGivesType DEF Fits
  <2>4. job[h].type \in {HitType(job[h].bytes.params), RenderedType(job[h].bytes.params)}
    BY <2>3 DEF TypedInv, TypesAreOfStyle, Typed, NamesType, Served
  <2> QED
    BY <2>2, <2>4, PlainType, ServingAssumption
<1> QED
  BY <1>1, <1>2, <1>3, PTL DEF Spec

-----------------------------------------------------------------------------
LiveInv == TypeOK /\ LookupsAreLive

\* A step of h keeps every lookup live if it leaves h's own request so.
LEMMA LookupsLive ==
  ASSUME LookupsAreLive, NEW h \in Handlers, deleted \subseteq deleted',
         \A g \in Handlers : g # h => job'[g] = job[g],
         job'[h].pc \in ServePhases =>
           job'[h].live \/ (job'[h].pc = "asset" /\ job'[h].asset \in deleted')
  PROVE  LookupsAreLive'
BY DEF LookupsAreLive

\* Past the lookup a request only moves on, for the same asset.
LEMMA ServeFollows ==
  ASSUME ServingAssumption, TypeOK, NEW h \in Handlers, Serve(h)
  PROVE  \/ \E r \in styles, a \in Assets : BeginServe(h, r, a)
         \/ FindAsset(h) /\ Follows(h)
         \/ job[h].pc \in ServePhases \ {"asset"} /\ Follows(h)
         \/ Finish(h)
<1>1. ASSUME job[h] \in Serving,
             \E pc \in ServePhases : \/ Goto(h, pc)
                                     \/ \E b \in Bytes : Hold(h, pc, b)
             PROVE Follows(h)
  BY <1>1, GotoServing, HoldServing
<1>2. ASSUME job[h] \in Serving, \E b \in Bytes \cup {None}, t \in Types : Answer(h, b, t)
      PROVE  Follows(h)
  BY <1>2, AnswerServing
<1>3. CASE FindAsset(h) \/ RedisMiss(h) \/ RowHit(h) \/ RowMiss(h) \/ FetchMiss(h)
           \/ Store(h) \/ SaveRow(h)
  <2>1. /\ job[h].pc \in ServePhases
        /\ FindAsset(h) \/ job[h].pc # "asset"
        /\ \E pc \in ServePhases : Goto(h, pc)
    BY <1>3 DEF FindAsset, RedisMiss, RowHit, RowMiss, FetchMiss, Store, SaveRow, ServePhases
  <2> QED
    BY <1>1, <2>1, JobShape
<1>4. CASE FetchHit(h)
  <2>1. job[h].pc \in ServePhases \ {"asset"} /\ job[h] \in Serving
    BY <1>4, JobShape DEF FetchHit, ServePhases
  <2>2. objects[transformKey(job[h])] \in Bytes
    BY <1>4, <2>1, KeyType DEF FetchHit, TypeOK
  <2>3. \E b \in Bytes : Hold(h, "warm", b)
    BY <1>4, <2>2 DEF FetchHit
  <2> QED
    BY <1>1, <2>1, <2>3 DEF ServePhases
<1>5. CASE Render(h)
  <2>1. job[h].pc \in ServePhases \ {"asset"} /\ job[h] \in Serving
    BY <1>5, JobShape DEF Render, ServePhases
  <2>2. [asset |-> job[h].asset, style |-> job[h].style,
         params |-> job[h].params] \in Bytes
    BY <2>1, ServingFields DEF Bytes
  <2>3. \E b \in Bytes : Hold(h, "store", b)
    BY <1>5, <2>2 DEF Render
  <2> QED
    BY <1>1, <2>1, <2>3 DEF ServePhases
<1>6. CASE RedisHit(h) \/ Warm(h) \/ CacheAndServe(h)
  <2>1. job[h].pc \in ServePhases \ {"asset"} /\ job[h] \in Serving
    BY <1>6, JobShape DEF RedisHit, Warm, CacheAndServe, ServePhases
  <2>2. redis[cacheKey(job[h])] \in Bytes \cup {None}
    BY <2>1, ServingFields DEF TypeOK
  <2>3. \E b \in Bytes \cup {None}, t \in Types : Answer(h, b, t)
    BY <1>6, <2>1, <2>2, ServingFields, FormatTypes DEF RedisHit, Warm, CacheAndServe
  <2> QED
    BY <1>2, <2>1, <2>3
<1> QED
  BY <1>3, <1>4, <1>5, <1>6 DEF Serve

LEMMA LiveStep == ServingAssumption /\ LiveInv /\ [Next]_vars => LiveInv'
<1> SUFFICES ASSUME ServingAssumption, LiveInv, [Next]_vars PROVE LiveInv'
  OBVIOUS
<1>1. TypeOK /\ LookupsAreLive /\ TypeOK'
  BY TypeStep DEF LiveInv
<1>2. ASSUME NEW h \in Handlers, Serve(h) PROVE LookupsAreLive'
  <2>1. UNCHANGED deleted
    BY <1>2 DEF Serve, BeginServe, FindAsset, RedisHit, RedisMiss, RowHit, RowMiss, FetchHit,
                FetchMiss, Warm, Render, Store, SaveRow, CacheAndServe, Finish
  <2>2. CASE \E r \in styles, a \in Assets : BeginServe(h, r, a)
    <3>1. PICK r \in styles, a \in Assets : BeginServe(h, r, a)
      BY <2>2
    <3>2. /\ job'[h].pc = "asset" /\ job'[h].asset = a /\ job'[h].live = (a \notin deleted)
          /\ \A g \in Handlers : g # h => job'[g] = job[g]
      BY <1>1, <3>1 DEF BeginServe, TypeOK
    <3> QED
      BY <1>1, <2>1, <3>2, LookupsLive
  <2>3. CASE FindAsset(h) /\ Follows(h)
    BY <1>1, <2>1, <2>3, LookupsLive DEF FindAsset, Follows, LookupsAreLive, ServePhases
  <2>4. CASE job[h].pc \in ServePhases \ {"asset"} /\ Follows(h)
    BY <1>1, <2>1, <2>4, LookupsLive DEF Follows, LookupsAreLive
  <2>5. CASE Finish(h)
    <3>1. job'[h].pc = "idle" /\ \A g \in Handlers : g # h => job'[g] = job[g]
      BY <1>1, <2>5 DEF Finish, TypeOK, Idle
    <3> QED
      BY <1>1, <2>1, <3>1, LookupsLive DEF ServePhases
  <2> QED
    BY <1>1, <1>2, <2>2, <2>3, <2>4, <2>5, ServeFollows
<1>3. ASSUME NEW h \in Handlers, Administer(h) \/ Abandon(h) PROVE LookupsAreLive'
  <2>1. UNCHANGED deleted
    BY <1>3 DEF Administer, BeginUpdate, ImportDefaults, WriteStyle, Invalidate,
                BeginDelete, PurgeRows, DropStyle, Abandon
  <2>2. job'[h].pc \in {"write", "invalidate", "idle", "purge", "drop"}
    BY <1>1, <1>3 DEF Administer, BeginUpdate, ImportDefaults, WriteStyle, Invalidate,
                BeginDelete, PurgeRows, DropStyle, Abandon, Goto, TypeOK, Idle, Serving, Updating, StyleOp
  <2>3. \A g \in Handlers : g # h => job'[g] = job[g]
    BY <1>1, <1>3 DEF Administer, BeginUpdate, ImportDefaults, WriteStyle, Invalidate,
                BeginDelete, PurgeRows, DropStyle, Abandon, Goto, TypeOK
  <2> QED
    BY <1>1, <2>1, <2>2, <2>3, LookupsLive DEF ServePhases
<1>4. ASSUME NEW a \in Assets, DeleteAsset(a) PROVE LookupsAreLive'
  BY <1>1, <1>4 DEF DeleteAsset, LookupsAreLive
<1>5. ASSUME UNCHANGED <<deleted, job>> PROVE LookupsAreLive'
  BY <1>1, <1>5 DEF LookupsAreLive
<1>6. LookupsAreLive'
  BY <1>2, <1>3, <1>4, <1>5 DEF Next, vars, CreateStyle, Expire
<1> QED
  BY <1>1, <1>6 DEF LiveInv

(***************************************************************************)
(* No cache serves an asset to a request that began after its deletion.    *)
(***************************************************************************)
THEOREM ServingSkipsDeleted == Spec => []DeletedIsNotServed
<1>1. Init => LiveInv
  BY TypeInit DEF Init, LiveInv, LookupsAreLive, Idle, ServePhases
<1>2. LiveInv /\ [Next]_vars => LiveInv'
  BY ServingAssumption, LiveStep
<1>3. LiveInv => DeletedIsNotServed
  BY DEF LiveInv, LookupsAreLive, DeletedIsNotServed, Served, ServePhases
<1> QED
  BY <1>1, <1>2, <1>3, PTL DEF Spec

-----------------------------------------------------------------------------
RowsInv == TypeOK /\ NoOrphanRows

LEMMA RowsStep == ServingAssumption /\ RowsInv /\ [Next]_vars => RowsInv'
<1> SUFFICES ASSUME ServingAssumption, RowsInv, [Next]_vars PROVE RowsInv'
  OBVIOUS
<1>1. TypeOK /\ NoOrphanRows /\ TypeOK'
  BY TypeStep DEF RowsInv
\* Dropping rows, or adding styles, orphans none.
<1>2. ASSUME tc' \subseteq tc, styles \subseteq styles' PROVE NoOrphanRows'
  BY <1>2, <1>1 DEF NoOrphanRows
<1>3. ASSUME NEW h \in Handlers, SaveRow(h) PROVE NoOrphanRows'
  <2>1. cacheKey(job[h])[2] = job[h].style
    BY DEF cacheKey
  <2> QED
    BY <1>1, <1>3, <2>1 DEF SaveRow, NoOrphanRows
<1>4. ASSUME NEW h \in Handlers, WriteStyle(h) PROVE NoOrphanRows'
  <2>1. \A r \in styles : \E q \in styles' : q.id = r.id
    <3> SUFFICES ASSUME NEW r \in styles PROVE \E q \in styles' : q.id = r.id
      OBVIOUS
    <3>1. r \in StyleRow
      BY <1>1 DEF TypeOK
    <3>2. [r EXCEPT !.params = job[h].params].id = r.id
      BY <3>1 DEF StyleRow
    <3> QED
      BY <1>4, <3>2 DEF WriteStyle
  <2>2. UNCHANGED tc
    BY <1>4 DEF WriteStyle
  <2> SUFFICES ASSUME NEW k \in tc PROVE \E q \in styles' : q.id = k[2]
    BY <2>2 DEF NoOrphanRows
  <2>3. PICK r \in styles : r.id = k[2]
    BY <1>1 DEF NoOrphanRows
  <2> QED
    BY <2>1, <2>3
<1>5. ASSUME NEW h \in Handlers, DropStyle(h) PROVE NoOrphanRows'
  BY <1>1, <1>5 DEF DropStyle, RowsOf, NoOrphanRows
<1>6. NoOrphanRows'
  BY <1>2, <1>3, <1>4, <1>5
  DEF Next, Serve, Administer, BeginServe, FindAsset, RedisHit, RedisMiss, RowHit, RowMiss,
      FetchHit, FetchMiss, Warm, Render, Store, CacheAndServe, Finish, Abandon, CreateStyle,
      BeginUpdate, ImportDefaults, Invalidate, RowsOf, BeginDelete, PurgeRows, DeleteAsset,
      Expire, vars
<1> QED
  BY <1>1, <1>6 DEF RowsInv

(***************************************************************************)
(* Every row of transform_cache belongs to a style that exists.            *)
(***************************************************************************)
THEOREM ServingRowsOwned == Spec => []NoOrphanRows
<1>1. Init => RowsInv
  BY TypeInit DEF Init, RowsInv, NoOrphanRows
<1>2. RowsInv /\ [Next]_vars => RowsInv'
  BY ServingAssumption, RowsStep
<1>3. RowsInv => NoOrphanRows
  BY DEF RowsInv
<1> QED
  BY <1>1, <1>2, <1>3, PTL DEF Spec
=============================================================================
