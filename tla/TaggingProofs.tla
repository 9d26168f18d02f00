---------------------------- MODULE TaggingProofs ----------------------------
(***************************************************************************)
(* Links tie rows that exist, an answered request has done what it was     *)
(* asked, and what a request checked holds when it writes, for any number  *)
(* of requests, organizations, assets, tags and collections.               *)
(***************************************************************************)
EXTENDS Tagging, TLAPS

\* The fields of what a request is about to do, by its kind.
LEMMA JobFields ==
  ASSUME NEW j
  PROVE  /\ j \in Linking => /\ j.op \in {"tag", "untag"} /\ j.org \in Orgs /\ j.asset \in Assets
                             /\ j.asked \subseteq Tags /\ j.todo \subseteq Tags
                             /\ j.others \subseteq Tags
         /\ j \in OnTag => j.op = "dropTag" /\ j.org \in Orgs /\ j.tag \in Tags
         /\ j \in OnCollection => /\ j.op \in {"drop", "write"} /\ j.org \in Orgs
                                  /\ j.collection \in Collections /\ j.text \in Texts
         /\ j \in Filing => /\ j.op \in {"add", "remove"} /\ j.org \in Orgs
                            /\ j.collection \in Collections /\ j.asset \in Assets
         /\ j = Idle => j.op = "idle"
BY DEF Linking, OnTag, OnCollection, Filing, Idle

Job == {Idle} \cup Linking \cup OnTag \cup OnCollection \cup Filing

\* Two ways to change what a request about links has yet to do.
LEMMA LinkingFields ==
  ASSUME NEW j \in Linking, NEW S \in SUBSET Tags
  PROVE  /\ [j EXCEPT !.todo = S] \in Linking
         /\ [j EXCEPT !.others = S] \in Linking
         /\ [j EXCEPT !.todo = S].todo = S
         /\ [j EXCEPT !.todo = S].op = j.op
         /\ [j EXCEPT !.todo = S].asset = j.asset
         /\ [j EXCEPT !.todo = S].asked = j.asked
         /\ [j EXCEPT !.todo = S].others = j.others
         /\ [j EXCEPT !.others = S].others = S
         /\ [j EXCEPT !.others = S].op = j.op
         /\ [j EXCEPT !.others = S].asset = j.asset
         /\ [j EXCEPT !.others = S].asked = j.asked
         /\ [j EXCEPT !.others = S].todo = j.todo
BY DEF Linking

LEMMA NotingType ==
  ASSUME TypeOK, NEW h \in Handlers, NEW links
  PROVE  Noting(h, links) \in [Handlers -> Job]
<1> SUFFICES ASSUME NEW g \in Handlers, g # h, job[g] \in Linking
             PROVE  [job[g] EXCEPT !.others = @ \cup {t \in Tags : <<job[g].asset, t>> \in links}]
                      \in Linking
  BY DEF Noting, TypeOK, Job
<1>1. job[g].others \cup {t \in Tags : <<job[g].asset, t>> \in links} \in SUBSET Tags
  BY JobFields
<1> QED
  BY <1>1, LinkingFields

LEMMA TypeInit == Init => TypeOK
BY DEF Init, TypeOK

LEMMA TypeStep == TypeOK /\ [Next]_vars => TypeOK'
<1> SUFFICES ASSUME TypeOK, [Next]_vars PROVE TypeOK'
  OBVIOUS
<1>1. /\ assets \in [Assets -> Orgs \cup {None}]
      /\ tags \in [Tags -> Tag \cup {None}]
      /\ collections \in [Collections -> Collection \cup {None}]
      /\ asset_tags \subseteq Assets \X Tags
      /\ collection_assets \subseteq Collections \X Assets
      /\ job \in [Handlers -> Job]
  BY DEF TypeOK, Job
<1>2. ASSUME NEW h \in Handlers, NEW j \in Job, Goto(h, j) PROVE job' \in [Handlers -> Job]
  BY <1>1, <1>2 DEF Goto
<1>3. Idle \in Job
  BY DEF Job
<1>4. ASSUME NEW a \in Assets, NEW o \in Orgs, Upload(a, o) PROVE TypeOK'
  BY <1>1, <1>4 DEF Upload, TypeOK
<1>5. ASSUME NEW o \in Orgs, NEW s \in Slugs, CreateTag(o, s) PROVE TypeOK'
  <2>1. [org |-> o, slug |-> s] \in Tag
    BY DEF Tag
  <2> QED
    BY <1>1, <1>5, <2>1 DEF CreateTag, InsertTag, TypeOK
<1>6. ASSUME NEW o \in Orgs, NEW x \in Texts, CreateCollection(o, x) PROVE TypeOK'
  <2>1. [org |-> o, text |-> x] \in Collection
    BY DEF Collection
  <2> QED
    BY <1>1, <1>6, <2>1 DEF CreateCollection, InsertCollection, TypeOK
<1>7. ASSUME NEW h \in Handlers,
             \/ \E o \in Orgs, t \in Tags : DeleteTag(h, o, t)
             \/ \E op \in {"tag", "untag"}, o \in Orgs, a \in Assets, ts \in SUBSET Tags :
                  TagAsset(h, op, o, a, ts)
             \/ \E o \in Orgs, c \in Collections, x \in Texts : UpdateCollection(h, o, c, x)
             \/ \E op \in {"add", "remove"}, o \in Orgs, c \in Collections, a \in Assets :
                  BeginFiling(h, op, o, c, a)
      PROVE  TypeOK'
  <2>1. PICK j \in Job : Goto(h, j)
    BY <1>7 DEF DeleteTag, TagAsset, UpdateCollection, BeginFiling,
       Job, OnTag, Linking, OnCollection, Filing
  <2> QED
    BY <1>1, <1>2, <1>7, <2>1 DEF DeleteTag, TagAsset, UpdateCollection, BeginFiling, TypeOK, Job
<1>8. ASSUME NEW h \in Handlers, NEW o \in Orgs, NEW c \in Collections, DeleteCollection(h, o, c)
      PROVE  TypeOK'
  <2>1. collections[c].text \in Texts
    BY <1>1, <1>8 DEF DeleteCollection, GetCollection, Collection
  <2>2. [op |-> "drop", org |-> o, collection |-> c, text |-> collections[c].text] \in Job
    BY <2>1 DEF Job, OnCollection
  <2> QED
    BY <1>1, <1>2, <1>8, <2>2 DEF DeleteCollection, TypeOK, Job
<1>9. ASSUME NEW h \in Handlers, DropTag(h) PROVE TypeOK'
  <2> DEFINE gone == Assets \X {job[h].tag}
  <2>1. Noting(h, gone) \in [Handlers -> Job]
    BY NotingType
  <2>2. job' = [Noting(h, gone) EXCEPT ![h] = Idle]
    BY <1>9 DEF DropTag
  <2>3. job' \in [Handlers -> Job]
    BY <1>3, <2>1, <2>2
  <2>4. tags' \in [Tags -> Tag \cup {None}] /\ asset_tags' \subseteq Assets \X Tags
    BY <1>1, <1>9 DEF DropTag
  <2> QED
    BY <1>1, <1>9, <2>3, <2>4 DEF DropTag, TypeOK, Job
<1>10. ASSUME NEW h \in Handlers, NEW t \in Tags, AddTag(h, t) \/ RemoveTag(h, t) PROVE TypeOK'
  <2> DEFINE link == {<<job[h].asset, t>>}
  <2>1. job[h] \in Linking /\ job[h].asset \in Assets /\ job[h].todo \ {t} \in SUBSET Tags
    BY <1>10, JobFields DEF AddTag, RemoveTag
  <2>2. asset_tags' \subseteq Assets \X Tags
    BY <1>1, <1>10, <2>1 DEF AddTag, RemoveTag, Goto
  <2>3. ASSUME job' = [Noting(h, link) EXCEPT ![h].todo = @ \ {t}]
        PROVE  job' \in [Handlers -> Job]
    <3>1. Noting(h, link) \in [Handlers -> Job] /\ Noting(h, link)[h] = job[h]
      BY NotingType DEF Noting
    <3>2. [job[h] EXCEPT !.todo = job[h].todo \ {t}] \in Linking
      BY <2>1, LinkingFields
    <3>3. job' = [Noting(h, link) EXCEPT ![h] = [Noting(h, link)[h] EXCEPT !.todo = @ \ {t}]]
      BY <2>3
    <3>4. [Noting(h, link)[h] EXCEPT !.todo = @ \ {t}] \in Job
      BY <3>1, <3>2 DEF Job
    <3> QED
      BY <3>1, <3>3, <3>4
  <2>4. job' \in [Handlers -> Job]
    BY <1>2, <1>3, <1>10, <2>3 DEF AddTag, RemoveTag
  <2> QED
    BY <1>1, <1>10, <2>2, <2>4 DEF AddTag, RemoveTag, TypeOK, Job
<1>11. ASSUME NEW h \in Handlers, Finish(h) \/ Abandon(h) PROVE TypeOK'
  BY <1>1, <1>2, <1>3, <1>11 DEF Finish, Abandon, TypeOK, Job
<1>12. ASSUME NEW h \in Handlers, WriteCollection(h) PROVE TypeOK'
  <2>1. \A row \in Collection : [row EXCEPT !.text = job[h].text] \in Collection
    BY <1>12, JobFields DEF WriteCollection, Collection
  <2>2. collections' \in [Collections -> Collection \cup {None}]
    BY <1>1, <1>12, <2>1 DEF WriteCollection
  <2> QED
    BY <1>1, <1>2, <1>3, <1>12, <2>2 DEF WriteCollection, TypeOK, Job
<1>13. ASSUME NEW h \in Handlers, DropCollection(h) PROVE TypeOK'
  <2>1. /\ collections' \in [Collections -> Collection \cup {None}]
        /\ collection_assets' \subseteq Collections \X Assets
    BY <1>1, <1>13 DEF DropCollection
  <2> QED
    BY <1>1, <1>2, <1>3, <1>13, <2>1 DEF DropCollection, TypeOK, Job
<1>14. ASSUME NEW h \in Handlers, AddAsset(h) \/ RemoveAsset(h) PROVE TypeOK'
  <2>1. job[h].collection \in Collections /\ job[h].asset \in Assets
    BY <1>14, JobFields DEF AddAsset, RemoveAsset
  <2>2. collection_assets' \subseteq Collections \X Assets
    BY <1>1, <1>14, <2>1 DEF AddAsset, RemoveAsset
  <2> QED
    BY <1>1, <1>2, <1>3, <1>14, <2>2 DEF AddAsset, RemoveAsset, TypeOK, Job
<1>15. CASE UNCHANGED vars
  BY <1>1, <1>15 DEF vars, TypeOK, Job
<1> QED
  BY <1>4, <1>5, <1>6, <1>7, <1>8, <1>9, <1>10, <1>11, <1>12, <1>13, <1>14, <1>15 DEF Next

(***************************************************************************)
(* Every variable keeps its type.                                          *)
(***************************************************************************)
THEOREM TaggingTypes == Spec => []TypeOK
BY TypeInit, TypeStep, PTL DEF Spec

-----------------------------------------------------------------------------
\* What was read, and found, by a request that begins with j.
Begun(j) ==
  \/ j \in OnTag /\ OwnTag(j.org, j.tag)
  \/ j \in OnCollection \cup Filing /\ GetCollection(j.org, j.collection)
  \/ j \in Linking /\ assets[j.asset] = j.org /\ j.todo = j.asked

LEMMA NotingEffect ==
  ASSUME TypeOK, NEW h \in Handlers, NEW g \in Handlers, g # h, NEW links,
         NEW j, j = Noting(h, links)[g]
  PROVE  /\ job[g] \notin Linking => j = job[g]
         /\ job[g] \in Linking =>
              /\ j \in Linking /\ j.op = job[g].op /\ j.asset = job[g].asset
              /\ j.asked = job[g].asked /\ j.todo = job[g].todo
              /\ j.others = job[g].others \cup {t \in Tags : <<job[g].asset, t>> \in links}
<1>1. CASE job[g] \in Linking
  <2>1. job[g].others \cup {t \in Tags : <<job[g].asset, t>> \in links} \in SUBSET Tags
    BY <1>1, JobFields
  <2>2. j =
          [job[g] EXCEPT !.others = job[g].others \cup {t \in Tags : <<job[g].asset, t>> \in links}]
    BY <1>1 DEF Noting
  <2> QED
    BY <1>1, <2>1, <2>2 DEF Linking
<1>2. CASE job[g] \notin Linking
  BY <1>2 DEF Noting
<1> QED
  BY <1>1, <1>2

\* A request's own part of a step that changes links.
LEMMA LinkEffect ==
  ASSUME TypeOK, NEW h \in Handlers, NEW t \in Tags, job[h] \in Linking,
         job' = [Noting(h, {<<job[h].asset, t>>}) EXCEPT ![h].todo = @ \ {t}]
  PROVE  /\ job'[h] \in Linking /\ job'[h].op = job[h].op /\ job'[h].asset = job[h].asset
         /\ job'[h].asked = job[h].asked /\ job'[h].others = job[h].others
         /\ job'[h].todo = job[h].todo \ {t}
         /\ \A g \in Handlers \ {h} : job'[g] = Noting(h, {<<job[h].asset, t>>})[g]
<1> DEFINE noted == Noting(h, {<<job[h].asset, t>>})
<1>1. noted \in [Handlers -> Job]
  BY NotingType
<1>2. noted[h] = job[h]
  BY DEF Noting
<1>3. job' = [noted EXCEPT ![h] = [noted[h] EXCEPT !.todo = @ \ {t}]]
  OBVIOUS
<1>4. job'[h] = [job[h] EXCEPT !.todo = job[h].todo \ {t}]
  BY <1>1, <1>2, <1>3
<1>5. PICK S \in SUBSET Tags : S = job[h].todo \ {t}
  BY JobFields
<1>6. \A g \in Handlers \ {h} : job'[g] = noted[g]
  BY <1>1, <1>3
<1>7. job'[h] = [job[h] EXCEPT !.todo = S]
  BY <1>4, <1>5
<1>8. /\ job'[h] \in Linking /\ job'[h].op = job[h].op /\ job'[h].asset = job[h].asset
      /\ job'[h].asked = job[h].asked /\ job'[h].others = job[h].others /\ job'[h].todo = S
  <2>1. job[h] \in Linking
    OBVIOUS
  <2>2. ASSUME NEW j \in Linking, NEW k, k = [j EXCEPT !.todo = S]
        PROVE  /\ k \in Linking /\ k.op = j.op /\ k.asset = j.asset
               /\ k.asked = j.asked /\ k.others = j.others /\ k.todo = S
    BY <2>2 DEF Linking
  <2> QED
    BY <1>7, <2>1, <2>2
<1> QED
  BY <1>5, <1>6, <1>8

\* The steps that change what other requests have noted.
Relinking == \E h \in Handlers : DropTag(h) \/ \E i \in Tags : AddTag(h, i) \/ RemoveTag(h, i)

LEMMA JobChange ==
  ASSUME TypeOK, [Next]_vars, NEW g \in Handlers
  PROVE  \/ job'[g] \in {job[g], Idle}
         \/ /\ Relinking
            /\ job[g] \in Linking /\ job'[g] \in Linking /\ job'[g].asset = job[g].asset
         \/ /\ Begun(job'[g])
            /\ UNCHANGED <<assets, tags, collections, asset_tags, collection_assets>>
<1> DEFINE Goal == \/ job'[g] \in {job[g], Idle}
                   \/ /\ Relinking
                      /\ job[g] \in Linking /\ job'[g] \in Linking /\ job'[g].asset = job[g].asset
                   \/ /\ Begun(job'[g])
                      /\ UNCHANGED <<assets, tags, collections, asset_tags, collection_assets>>
<1> SUFFICES Goal
  OBVIOUS
<1>1. job \in [Handlers -> Job]
  BY DEF TypeOK, Job
<1>2. ASSUME NEW h \in Handlers, Goto(h, Idle) PROVE Goal
  BY <1>1, <1>2 DEF Goto
<1>3. ASSUME NEW h \in Handlers, NEW o \in Orgs, NEW i \in Tags, DeleteTag(h, o, i) PROVE Goal
  <2>1. [op |-> "dropTag", org |-> o, tag |-> i] \in OnTag
    BY DEF OnTag
  <2> QED
    BY <1>1, <1>3, <2>1 DEF DeleteTag, Goto, Begun
<1>4. ASSUME NEW h \in Handlers, NEW op \in {"tag", "untag"}, NEW o \in Orgs, NEW a \in Assets,
             NEW ts \in SUBSET Tags, TagAsset(h, op, o, a, ts)
      PROVE  Goal
  <2>1. [op |-> op, org |-> o, asset |-> a, asked |-> ts, todo |-> ts, others |-> {}] \in Linking
    BY DEF Linking
  <2> QED
    BY <1>1, <1>4, <2>1 DEF TagAsset, Goto, Begun
<1>5. ASSUME NEW h \in Handlers, NEW o \in Orgs, NEW c \in Collections, NEW x \in Texts,
             UpdateCollection(h, o, c, x)
      PROVE  Goal
  <2>1. [op |-> "write", org |-> o, collection |-> c, text |-> x] \in OnCollection
    BY DEF OnCollection
  <2> QED
    BY <1>1, <1>5, <2>1 DEF UpdateCollection, Goto, Begun
<1>6. ASSUME NEW h \in Handlers, NEW o \in Orgs, NEW c \in Collections, DeleteCollection(h, o, c)
      PROVE  Goal
  <2>1. collections[c].text \in Texts
    BY <1>6 DEF DeleteCollection, GetCollection, TypeOK, Collection
  <2>2. [op |-> "drop", org |-> o, collection |-> c, text |-> collections[c].text] \in OnCollection
    BY <2>1 DEF OnCollection
  <2> QED
    BY <1>1, <1>6, <2>2 DEF DeleteCollection, Goto, Begun
<1>7. ASSUME NEW h \in Handlers, NEW op \in {"add", "remove"}, NEW o \in Orgs,
             NEW c \in Collections, NEW a \in Assets, BeginFiling(h, op, o, c, a)
      PROVE  Goal
  <2>1. [op |-> op, org |-> o, collection |-> c, asset |-> a] \in Filing
    BY DEF Filing
  <2> QED
    BY <1>1, <1>7, <2>1 DEF BeginFiling, Goto, Begun
<1>8. ASSUME NEW h \in Handlers, DropTag(h) PROVE Goal
  <2> DEFINE gone == Assets \X {job[h].tag}
  <2>1. Noting(h, gone) \in [Handlers -> Job]
    BY NotingType
  <2>2. job' = [Noting(h, gone) EXCEPT ![h] = Idle]
    BY <1>8 DEF DropTag
  <2>3. job'[g] = IF g = h THEN Idle ELSE Noting(h, gone)[g]
    BY <2>1, <2>2
  <2> QED
    BY <1>8, <2>3, NotingEffect DEF Relinking
<1>9. ASSUME NEW h \in Handlers, NEW i \in Tags, AddTag(h, i) \/ RemoveTag(h, i) PROVE Goal
  <2>0. Relinking
    BY <1>9 DEF Relinking
  <2>1. ASSUME job' = [Noting(h, {<<job[h].asset, i>>}) EXCEPT ![h].todo = @ \ {i}] PROVE Goal
    <3>1. job[h] \in Linking
      BY <1>9 DEF AddTag, RemoveTag
    <3>2. CASE g = h
      BY <2>0, <2>1, <3>1, <3>2, LinkEffect
    <3>3. CASE g # h
      <4>1. job'[g] = Noting(h, {<<job[h].asset, i>>})[g]
        BY <2>1, <3>1, <3>3, LinkEffect
      <4> QED
        BY <2>0, <3>3, <4>1, NotingEffect
    <3> QED
      BY <3>2, <3>3
  <2> QED
    BY <1>2, <1>9, <2>1 DEF AddTag, RemoveTag
<1>10. CASE UNCHANGED job
  BY <1>10
<1> QED
  BY <1>2, <1>3, <1>4, <1>5, <1>6, <1>7, <1>8, <1>9, <1>10 DEF Next, vars, Upload, CreateTag,
     CreateCollection, Finish, WriteCollection, DropCollection, AddAsset, RemoveAsset, Abandon

\* Rows that appear have ids nobody holds; rows that stay keep their organization.
LEMMA RowChange ==
  ASSUME TypeOK, [Next]_vars
  PROVE  /\ \A a \in Assets : assets[a] # None => assets'[a] = assets[a]
         /\ \A i \in Tags : tags'[i] # None => tags'[i] = tags[i] \/ FreshTag(i)
         /\ \A c \in Collections : collections'[c] # None =>
              \/ FreshCollection(c)
              \/ collections[c] # None /\ collections'[c].org = collections[c].org
<1>1. /\ assets \in [Assets -> Orgs \cup {None}]
      /\ tags \in [Tags -> Tag \cup {None}]
      /\ collections \in [Collections -> Collection \cup {None}]
  BY DEF TypeOK
<1>2. \A a \in Assets : assets[a] # None => assets'[a] = assets[a]
  <2>1. ASSUME NEW b \in Assets, NEW o \in Orgs, Upload(b, o), NEW a \in Assets, assets[a] # None
        PROVE  assets'[a] = assets[a]
    BY <1>1, <2>1 DEF Upload
  <2> QED
    BY <2>1 DEF Next, vars, CreateTag, CreateCollection, DeleteTag, DropTag, TagAsset, AddTag,
       RemoveTag, Finish, UpdateCollection, WriteCollection, DeleteCollection, DropCollection,
       BeginFiling, AddAsset, RemoveAsset, Abandon
<1>3. ASSUME NEW i \in Tags, tags'[i] # None PROVE tags'[i] = tags[i] \/ FreshTag(i)
  <2>1. ASSUME NEW o \in Orgs, NEW s \in Slugs, CreateTag(o, s)
        PROVE  tags'[i] = tags[i] \/ FreshTag(i)
    BY <1>1, <2>1 DEF CreateTag, InsertTag
  <2>2. ASSUME NEW h \in Handlers, DropTag(h) PROVE tags'[i] = tags[i]
    BY <1>1, <1>3, <2>2 DEF DropTag
  <2>3. CASE UNCHANGED tags
    BY <2>3
  <2> QED
    BY <2>1, <2>2, <2>3 DEF Next, vars, Upload, CreateCollection, DeleteTag, TagAsset, AddTag,
       RemoveTag, Finish, UpdateCollection, WriteCollection, DeleteCollection, DropCollection,
       BeginFiling, AddAsset, RemoveAsset, Abandon
<1>4. ASSUME NEW c \in Collections, collections'[c] # None
      PROVE  \/ FreshCollection(c)
             \/ collections[c] # None /\ collections'[c].org = collections[c].org
  <2>1. ASSUME NEW o \in Orgs, NEW x \in Texts, CreateCollection(o, x)
        PROVE  FreshCollection(c) \/ collections'[c] = collections[c]
    BY <1>1, <2>1 DEF CreateCollection, InsertCollection
  <2>2. ASSUME NEW h \in Handlers, DropCollection(h) PROVE collections'[c] = collections[c]
    BY <1>1, <1>4, <2>2 DEF DropCollection
  <2>3. ASSUME NEW h \in Handlers, WriteCollection(h)
        PROVE  collections[c] # None /\ collections'[c].org = collections[c].org
    <3>1. \A row \in Collection : [row EXCEPT !.text = job[h].text].org = row.org
      BY DEF Collection
    <3> QED
      BY <1>1, <1>4, <2>3, <3>1 DEF WriteCollection
  <2>4. CASE UNCHANGED collections
    BY <1>4, <2>4
  <2> QED
    BY <1>4, <2>1, <2>2, <2>3, <2>4 DEF Next, vars, Upload, CreateTag, DeleteTag, DropTag,
       TagAsset, AddTag, RemoveTag, Finish, UpdateCollection, DeleteCollection,
       BeginFiling, AddAsset, RemoveAsset, Abandon
<1> QED
  BY <1>2, <1>3, <1>4

-----------------------------------------------------------------------------
LEMMA ChecksStep == TypeOK /\ ChecksStillHold /\ [Next]_vars => ChecksStillHold'
<1> SUFFICES ASSUME TypeOK, ChecksStillHold, [Next]_vars, NEW g \in Handlers
             PROVE  /\ job'[g] \in OnTag /\ tags'[job'[g].tag] # None
                         => tags'[job'[g].tag].org = job'[g].org
                    /\ job'[g] \in OnCollection \cup Filing /\ collections'[job'[g].collection] # None
                         => collections'[job'[g].collection].org = job'[g].org
  BY DEF ChecksStillHold
<1>1. CASE job'[g] = job[g]
  <2>1. ASSUME job[g] \in OnTag, tags'[job[g].tag] # None
        PROVE  tags'[job[g].tag].org = job[g].org
    <3>1. job[g].tag \in Tags /\ ~FreshTag(job[g].tag)
      BY <2>1, JobFields DEF FreshTag
    <3> QED
      BY <2>1, <3>1, RowChange DEF ChecksStillHold
  <2>2. ASSUME job[g] \in OnCollection \cup Filing, collections'[job[g].collection] # None
        PROVE  collections'[job[g].collection].org = job[g].org
    <3>1. job[g].collection \in Collections /\ ~FreshCollection(job[g].collection)
      BY <2>2, JobFields DEF FreshCollection
    <3> QED
      BY <2>2, <3>1, RowChange DEF ChecksStillHold
  <2> QED
    BY <1>1, <2>1, <2>2
<1>2. CASE job'[g] = Idle \/ job'[g] \in Linking
  BY <1>2, JobFields
<1>3. CASE Begun(job'[g]) /\ UNCHANGED <<assets, tags, collections, asset_tags, collection_assets>>
  BY <1>3, JobFields DEF Begun, OwnTag, GetCollection
<1> QED
  BY <1>1, <1>2, <1>3, JobChange

(***************************************************************************)
(* A request that writes by id writes to a row of the organization it      *)
(* checked, or to none.                                                    *)
(***************************************************************************)
THEOREM TaggingChecksHold == Spec => []ChecksStillHold
<1>1. Init => ChecksStillHold
  BY JobFields DEF Init, ChecksStillHold
<1> QED
  BY <1>1, TypeInit, TypeStep, ChecksStep, PTL DEF Spec

(***************************************************************************)
(* No request brings a deleted tag or collection back.                     *)
(***************************************************************************)
THEOREM TaggingDeletedStays == Spec => DeletedStaysGone
<1> DEFINE Stays ==
      \A h \in Handlers :
        /\ job[h] \in OnCollection \cup Filing /\ collections[job[h].collection] = None
             => collections'[job[h].collection] = None
        /\ job[h] \in OnTag /\ tags[job[h].tag] = None => tags'[job[h].tag] = None
<1>1. TypeOK /\ [Next]_vars => [Stays]_vars
  <2> SUFFICES ASSUME TypeOK, [Next]_vars, NEW h \in Handlers
               PROVE  /\ job[h] \in OnCollection \cup Filing /\ collections[job[h].collection] = None
                           => collections'[job[h].collection] = None
                      /\ job[h] \in OnTag /\ tags[job[h].tag] = None => tags'[job[h].tag] = None
    OBVIOUS
  <2>1. ASSUME job[h] \in OnCollection \cup Filing
        PROVE  job[h].collection \in Collections /\ ~FreshCollection(job[h].collection)
    BY <2>1, JobFields DEF FreshCollection
  <2>2. ASSUME job[h] \in OnTag PROVE job[h].tag \in Tags /\ ~FreshTag(job[h].tag)
    BY <2>2, JobFields DEF FreshTag
  <2> QED
    BY <2>1, <2>2, RowChange
<1> QED
  BY <1>1, TypeInit, TypeStep, PTL DEF Spec, DeletedStaysGone

-----------------------------------------------------------------------------
\* Assets do not go: one that a request found is there when it links it.
AssetsFound == \A h \in Handlers : job[h] \in Linking => assets[job[h].asset] # None

LinkInv == TypeOK /\ AssetsFound /\ LinksAreLive

LEMMA LinkInit == Init => LinkInv
BY TypeInit, JobFields DEF Init, LinkInv, AssetsFound, LinksAreLive

LEMMA FoundStep == TypeOK /\ AssetsFound /\ [Next]_vars => AssetsFound'
<1> SUFFICES ASSUME TypeOK, AssetsFound, [Next]_vars, NEW g \in Handlers, job'[g] \in Linking
             PROVE  assets'[job'[g].asset] # None
  BY DEF AssetsFound
<1>1. job'[g].asset \in Assets
  BY JobFields
<1>2. CASE job[g] \in Linking /\ job'[g].asset = job[g].asset
  BY <1>1, <1>2, RowChange DEF AssetsFound
<1>3. CASE Begun(job'[g]) /\ UNCHANGED <<assets, tags, collections, asset_tags, collection_assets>>
  <2>1. job'[g].org \in Orgs /\ assets[job'[g].asset] = job'[g].org
    BY <1>3, JobFields DEF Begun
  <2> QED
    BY <1>3, <2>1, TaggingAssumption
<1> QED
  BY <1>2, <1>3, JobChange, JobFields

LEMMA LinkStep == LinkInv /\ [Next]_vars => LinkInv'
<1> SUFFICES ASSUME LinkInv, [Next]_vars PROVE LinksAreLive'
  BY TypeStep, FoundStep DEF LinkInv
<1> USE DEF LinkInv
<1>1. /\ tags \in [Tags -> Tag \cup {None}]
      /\ collections \in [Collections -> Collection \cup {None}]
      /\ asset_tags \subseteq Assets \X Tags
      /\ collection_assets \subseteq Collections \X Assets
      /\ TypeOK'
  BY TypeStep DEF TypeOK
<1>2. \A row \in Tag \cup Collection : row # None
  BY TaggingAssumption
<1>3. \A a \in Assets : assets[a] # None => assets'[a] # None
  BY RowChange
<1>4. ASSUME NEW l \in asset_tags', l \in asset_tags => tags'[l[2]] # None,
             l \notin asset_tags => assets[l[1]] # None /\ tags'[l[2]] # None
      PROVE  assets'[l[1]] # None /\ tags'[l[2]] # None
  <2>1. l[1] \in Assets
    BY <1>1, <1>4 DEF TypeOK
  <2> QED
    BY <1>3, <1>4, <2>1 DEF LinksAreLive
<1>5. ASSUME NEW l \in asset_tags' PROVE assets'[l[1]] # None /\ tags'[l[2]] # None
  <2>0. /\ l[1] \in Assets /\ l[2] \in Tags /\ l = <<l[1], l[2]>>
        /\ l \in asset_tags => tags[l[2]] # None
    BY <1>1, <1>5 DEF TypeOK, LinksAreLive
  <2>1. ASSUME NEW o \in Orgs, NEW s \in Slugs, CreateTag(o, s) PROVE tags'[l[2]] # None
    <3>1. PICK i \in Tags : tags' = [tags EXCEPT ![i] = [org |-> o, slug |-> s]]
      BY <2>1 DEF CreateTag, InsertTag
    <3>2. [org |-> o, slug |-> s] # None
      BY <1>2 DEF Tag
    <3>3. l \in asset_tags
      BY <1>5, <2>1 DEF CreateTag
    <3> QED
      BY <1>1, <2>0, <3>1, <3>2, <3>3
  <2>2. ASSUME NEW h \in Handlers, DropTag(h) PROVE l \in asset_tags /\ tags'[l[2]] # None
    <3>1. l \in asset_tags /\ l \notin Assets \X {job[h].tag}
      BY <1>5, <2>2 DEF DropTag
    <3>2. l[2] # job[h].tag
      BY <2>0, <3>1
    <3> QED
      BY <1>1, <2>0, <2>2, <3>1, <3>2 DEF DropTag
  <2>3. ASSUME NEW h \in Handlers, NEW i \in Tags, AddTag(h, i)
        PROVE  /\ UNCHANGED tags
               /\ l \notin asset_tags => assets[l[1]] # None /\ tags[l[2]] # None
    <3>1. UNCHANGED tags /\ job[h] \in Linking
      BY <2>3 DEF AddTag
    <3>2. l \notin asset_tags => tags[i] # None /\ l = <<job[h].asset, i>>
      BY <1>5, <2>3 DEF AddTag
    <3> QED
      BY <3>1, <3>2 DEF AssetsFound
  <2>4. ASSUME NEW h \in Handlers, NEW i \in Tags, RemoveTag(h, i)
        PROVE  UNCHANGED tags /\ l \in asset_tags
    BY <1>5, <2>4 DEF RemoveTag
  <2>5. CASE UNCHANGED <<tags, asset_tags>>
    BY <1>4, <1>5, <2>0, <2>5
  <2>6. CASE \E o \in Orgs, s \in Slugs : CreateTag(o, s)
    BY <1>4, <1>5, <2>1, <2>6 DEF CreateTag
  <2>7. CASE \E h \in Handlers : DropTag(h)
    BY <1>4, <1>5, <2>2, <2>7
  <2>8. CASE \E h \in Handlers, i \in Tags : AddTag(h, i) \/ RemoveTag(h, i)
    BY <1>4, <1>5, <2>0, <2>3, <2>4, <2>8
  <2> QED
    BY <2>5, <2>6, <2>7, <2>8 DEF Next, vars, Upload, CreateCollection, DeleteTag, TagAsset,
       Finish, UpdateCollection, WriteCollection, DeleteCollection, DropCollection,
       BeginFiling, AddAsset, RemoveAsset, Abandon
<1>6. ASSUME NEW l \in collection_assets'
      PROVE  collections'[l[1]] # None /\ assets'[l[2]] # None
  <2>0. /\ l[1] \in Collections /\ l[2] \in Assets /\ l = <<l[1], l[2]>>
        /\ l \in collection_assets => collections[l[1]] # None /\ assets'[l[2]] # None
    BY <1>1, <1>3, <1>6 DEF TypeOK, LinksAreLive
  <2>1. ASSUME NEW o \in Orgs, NEW x \in Texts, CreateCollection(o, x)
        PROVE  l \in collection_assets /\ collections'[l[1]] # None
    <3>1. PICK c \in Collections : collections' = [collections EXCEPT ![c] = [org |-> o, text |-> x]]
      BY <2>1 DEF CreateCollection, InsertCollection
    <3>2. [org |-> o, text |-> x] # None
      BY <1>2 DEF Collection
    <3>3. l \in collection_assets
      BY <1>6, <2>1 DEF CreateCollection
    <3> QED
      BY <1>1, <2>0, <3>1, <3>2, <3>3
  <2>2. ASSUME NEW h \in Handlers, DropCollection(h)
        PROVE  l \in collection_assets /\ collections'[l[1]] # None
    <3>1. l \in collection_assets /\ l \notin {job[h].collection} \X Assets
      BY <1>6, <2>2 DEF DropCollection
    <3>2. l[1] # job[h].collection
      BY <2>0, <3>1
    <3> QED
      BY <1>1, <2>0, <2>2, <3>1, <3>2 DEF DropCollection
  <2>3. ASSUME NEW h \in Handlers, WriteCollection(h)
        PROVE  l \in collection_assets /\ collections'[l[1]] # None
    <3>1. \A row \in Collection : [row EXCEPT !.text = job[h].text] \in Collection
      BY <2>3, JobFields DEF WriteCollection, Collection
    <3>2. l \in collection_assets /\ collections[l[1]] \in Collection
      BY <1>1, <1>6, <2>0, <2>3 DEF WriteCollection
    <3> QED
      BY <1>1, <1>2, <2>0, <2>3, <3>1, <3>2 DEF WriteCollection
  <2>4. ASSUME NEW h \in Handlers, AddAsset(h) \/ RemoveAsset(h)
        PROVE  collections'[l[1]] # None /\ assets'[l[2]] # None
    <3>1. CASE l \in collection_assets
      BY <2>0, <2>4, <3>1 DEF AddAsset, RemoveAsset
    <3>2. CASE l \notin collection_assets
      BY <1>6, <2>4, <3>2 DEF AddAsset, RemoveAsset
    <3> QED
      BY <3>1, <3>2
  <2>5. CASE UNCHANGED <<collections, collection_assets>>
    BY <1>6, <2>0, <2>5
  <2> QED
    BY <2>0, <2>1, <2>2, <2>3, <2>4, <2>5 DEF Next, vars, Upload, CreateTag, DeleteTag, DropTag,
       TagAsset, AddTag, RemoveTag, Finish, UpdateCollection, DeleteCollection, BeginFiling,
       Abandon
<1> QED
  BY <1>5, <1>6 DEF LinksAreLive

(***************************************************************************)
(* No link outlives the rows it ties, whenever they were read.             *)
(***************************************************************************)
THEOREM TaggingLinksLive == Spec => []LinksAreLive
<1>1. LinkInv => LinksAreLive
  BY DEF LinkInv
<1> QED
  BY <1>1, LinkInit, LinkStep, PTL DEF Spec

-----------------------------------------------------------------------------
(***************************************************************************)
(* The strengthening of AnsweredIsDone: at any moment, the tags a request  *)
(* has dealt with are as it left them, or others have changed them since.  *)
(***************************************************************************)
DealtWith ==
  \A h \in Handlers : job[h] \in Linking =>
    \A t \in (job[h].asked \ job[h].todo) \ job[h].others :
      <<job[h].asset, t>> \in asset_tags <=> job[h].op = "tag"

LEMMA DealtStep == TypeOK /\ DealtWith /\ [Next]_vars => DealtWith'
<1> SUFFICES ASSUME TypeOK, DealtWith, [Next]_vars, NEW g \in Handlers, job'[g] \in Linking,
                    NEW t \in (job'[g].asked \ job'[g].todo) \ job'[g].others
             PROVE  <<job'[g].asset, t>> \in asset_tags' <=> job'[g].op = "tag"
  BY DEF DealtWith
<1> DEFINE Goal == <<job'[g].asset, t>> \in asset_tags' <=> job'[g].op = "tag"
<1>1. t \in Tags /\ job'[g].asset \in Assets
  BY JobFields
<1>2. CASE job'[g] = job[g] /\ UNCHANGED asset_tags
  BY <1>2 DEF DealtWith
<1>3. CASE Begun(job'[g])
  BY <1>3, JobFields DEF Begun
<1>4. ASSUME NEW h \in Handlers, g # h, NEW links, job'[g] = Noting(h, links)[g],
             asset_tags' \in {asset_tags \cup links, asset_tags \ links}
      PROVE  Goal
  <2>1. /\ job[g] \in Linking /\ job'[g].op = job[g].op /\ job'[g].asset = job[g].asset
        /\ job'[g].asked = job[g].asked /\ job'[g].todo = job[g].todo
        /\ job'[g].others = job[g].others \cup {i \in Tags : <<job[g].asset, i>> \in links}
    BY <1>4, NotingEffect
  <2>2. t \notin job[g].others /\ <<job[g].asset, t>> \notin links
    BY <1>1, <2>1
  <2>3. <<job[g].asset, t>> \in asset_tags <=> job[g].op = "tag"
    BY <2>1, <2>2 DEF DealtWith
  <2> QED
    BY <1>4, <2>1, <2>2, <2>3
<1>5. ASSUME NEW h \in Handlers, DropTag(h) PROVE Goal
  <2> DEFINE gone == Assets \X {job[h].tag}
  <2>1. Noting(h, gone) \in [Handlers -> Job]
    BY NotingType
  <2>2. job' = [Noting(h, gone) EXCEPT ![h] = Idle] /\ asset_tags' = asset_tags \ gone
    BY <1>5 DEF DropTag
  <2>3. job'[g] = IF g = h THEN Idle ELSE Noting(h, gone)[g]
    BY <2>1, <2>2
  <2>4. g # h
    BY <2>3, JobFields
  <2> QED
    BY <1>4, <2>2, <2>3, <2>4
<1>6. ASSUME NEW h \in Handlers, NEW i \in Tags, job[h] \in Linking,
             job' = [Noting(h, {<<job[h].asset, i>>}) EXCEPT ![h].todo = @ \ {i}],
             \/ job[h].op = "tag" /\ asset_tags' = asset_tags \cup {<<job[h].asset, i>>}
             \/ job[h].op = "untag" /\ asset_tags' = asset_tags \ {<<job[h].asset, i>>}
      PROVE  Goal
  <2> DEFINE link == {<<job[h].asset, i>>}
  <2>1. CASE g # h
    <3>1. job'[g] = Noting(h, link)[g]
      BY <1>6, <2>1, LinkEffect
    <3> QED
      BY <1>4, <1>6, <2>1, <3>1
  <2>2. CASE g = h
    <3>1. /\ job'[h].op = job[h].op /\ job'[h].asset = job[h].asset
          /\ job'[h].asked = job[h].asked /\ job'[h].others = job[h].others
          /\ job'[h].todo = job[h].todo \ {i}
      BY <1>6, LinkEffect
    <3>2. CASE t = i
      BY <1>6, <2>2, <3>1, <3>2
    <3>3. CASE t # i
      <4>1. <<job[h].asset, t>> \in asset_tags <=> job[h].op = "tag"
        BY <1>6, <2>2, <3>1, <3>3 DEF DealtWith
      <4>2. <<job[h].asset, t>> \notin link
        BY <3>3
      <4> QED
        BY <1>6, <2>2, <3>1, <4>1, <4>2
    <3> QED
      BY <3>2, <3>3
  <2> QED
    BY <2>1, <2>2
<1>7. ASSUME NEW h \in Handlers, NEW i \in Tags, AddTag(h, i) \/ RemoveTag(h, i) PROVE Goal
  <2>1. CASE Goto(h, Idle) /\ UNCHANGED asset_tags
    <3>1. job'[g] = job[g] \/ job'[g] = Idle
      BY <2>1 DEF Goto, TypeOK
    <3> QED
      BY <1>2, <2>1, <3>1, JobFields
  <2>2. CASE ~(Goto(h, Idle) /\ UNCHANGED asset_tags)
    BY <1>6, <1>7, <2>2 DEF AddTag, RemoveTag
  <2> QED
    BY <2>1, <2>2
<1>8. CASE ~Relinking
  <2>1. UNCHANGED asset_tags
    BY <1>8 DEF Relinking, Next, vars, Upload, CreateTag, CreateCollection, DeleteTag, TagAsset,
       Finish, UpdateCollection, WriteCollection, DeleteCollection, DropCollection,
       BeginFiling, AddAsset, RemoveAsset, Abandon
  <2> QED
    BY <1>2, <1>3, <1>8, <2>1, JobChange, JobFields
<1> QED
  BY <1>5, <1>7, <1>8 DEF Relinking

(***************************************************************************)
(* A request that is answered has attached or detached all it was asked    *)
(* to, but for what others have changed since.                             *)
(***************************************************************************)
THEOREM TaggingAnswered == Spec => []AnsweredIsDone
<1>1. Init => DealtWith
  BY JobFields DEF Init, DealtWith
<1>2. DealtWith => AnsweredIsDone
  BY DEF DealtWith, AnsweredIsDone, Answered
<1> QED
  BY <1>1, <1>2, TypeInit, TypeStep, DealtStep, PTL DEF Spec
=============================================================================
