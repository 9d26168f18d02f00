------------------------ MODULE WebhookDeliveryProofs ------------------------
(***************************************************************************)
(* What the records of deliveries say is true and final, they belong to    *)
(* hooks that exist, and only an exit or a failed update leaves one        *)
(* pending, for any number of requests, dispatches, hooks and deliveries.  *)
(***************************************************************************)
EXTENDS WebhookDelivery, TLAPS

LEMMA JobFields ==
  ASSUME NEW j
  PROVE  /\ j \in Updating => j.hook \in Hooks /\ j.on \in BOOLEAN
         /\ j \in Aiming => j.hook \in Hooks
BY DEF Updating, Aiming

LEMMA TypeInit == Init => TypeOK
BY DEF Init, TypeOK, Stage, Job

LEMMA TypeStep == TypeOK /\ [Next]_vars => TypeOK'
<1> SUFFICES ASSUME TypeOK, [Next]_vars PROVE TypeOK'
  OBVIOUS
<1>1. /\ hooks \in [Hooks -> HookRow \cup {None}]
      /\ records \in [Deliveries -> Record \cup {None}]
      /\ worker \in [Deliveries -> [at : Stage, hook : Hooks \cup {None}]]
      /\ job \in [Handlers -> Job]
      /\ todo \in [Dispatches -> SUBSET Hooks]
      /\ received \in [Deliveries -> Nat]
      /\ accepted \subseteq Deliveries /\ lost \subseteq Deliveries
      /\ crashes \in Nat
  BY DEF TypeOK
<1>2. ASSUME NEW h \in Handlers, NEW j \in Job, Goto(h, j) PROVE job' \in [Handlers -> Job]
  BY <1>1, <1>2 DEF Goto
<1>3. ASSUME NEW d \in Deliveries, NEW s \in Stage, Move(d, s)
      PROVE  worker' \in [Deliveries -> [at : Stage, hook : Hooks \cup {None}]]
  <2>1. [worker[d] EXCEPT !.at = s] \in [at : Stage, hook : Hooks \cup {None}]
    BY <1>1
  <2> QED
    BY <1>1, <1>3, <2>1 DEF Move
<1>4. Idle \in Job
  BY DEF Job
<1>5. ASSUME NEW o \in Orgs, CreateWebhook(o) PROVE TypeOK'
  <2>1. PICK i \in Hooks, on \in BOOLEAN : InsertWebhook(i, [org |-> o, on |-> on])
    BY <1>5 DEF CreateWebhook
  <2>2. hooks' \in [Hooks -> HookRow \cup {None}]
    BY <1>1, <2>1 DEF InsertWebhook, HookRow
  <2> QED
    BY <1>1, <1>5, <2>2 DEF CreateWebhook, TypeOK
<1>6. ASSUME NEW h \in Handlers, NEW o \in Orgs, NEW i \in Hooks,
             \/ \E on \in BOOLEAN : UpdateWebhook(h, o, i, on)
             \/ DeleteWebhook(h, o, i) \/ TestWebhook(h, o, i)
      PROVE  TypeOK'
  <2>1. PICK j \in Updating \cup Aiming : Goto(h, j)
    BY <1>6 DEF UpdateWebhook, DeleteWebhook, TestWebhook, Updating, Aiming
  <2> QED
    BY <1>1, <1>2, <1>6, <2>1 DEF UpdateWebhook, DeleteWebhook, TestWebhook, TypeOK, Job
<1>7. ASSUME NEW h \in Handlers, WriteWebhook(h) PROVE TypeOK'
  <2>1. \A row \in HookRow : [row EXCEPT !.on = job[h].on] \in HookRow
    BY <1>7, JobFields DEF WriteWebhook, HookRow
  <2>2. hooks' \in [Hooks -> HookRow \cup {None}]
    BY <1>1, <1>7, <2>1 DEF WriteWebhook
  <2> QED
    BY <1>1, <1>2, <1>4, <1>7, <2>2 DEF WriteWebhook, TypeOK
<1>8. ASSUME NEW h \in Handlers, DropWebhook(h) PROVE TypeOK'
  <2>1. /\ hooks' \in [Hooks -> HookRow \cup {None}]
        /\ records' \in [Deliveries -> Record \cup {None}]
    BY <1>1, <1>8 DEF DropWebhook
  <2> QED
    BY <1>1, <1>2, <1>4, <1>8, <2>1 DEF DropWebhook, TypeOK
<1>9. ASSUME NEW h \in Handlers, TestSent(h) \/ Abandon(h) PROVE TypeOK'
  BY <1>1, <1>2, <1>4, <1>9 DEF TestSent, Abandon, TypeOK
<1>10. ASSUME NEW e \in Dispatches, NEW o \in Orgs, DispatchEvent(e, o) PROVE TypeOK'
  BY <1>1, <1>10 DEF DispatchEvent, ListActiveByEvent, TypeOK
<1>11. ASSUME NEW e \in Dispatches, StartDelivery(e) PROVE TypeOK'
  <2>1. PICK i \in todo[e], d \in Deliveries :
          /\ CreateDelivery(d, i)
          /\ worker' = [worker EXCEPT ![d] = [at |-> "post", hook |-> i]]
          /\ todo' = [todo EXCEPT ![e] = @ \ {i}]
    BY <1>11 DEF StartDelivery
  <2>2. i \in Hooks
    BY <1>1
  <2>3. [hook |-> i, status |-> "pending", attempts |-> 0] \in Record
    BY <2>2 DEF Record
  <2>4. records' \in [Deliveries -> Record \cup {None}]
    BY <1>1, <2>1, <2>3 DEF CreateDelivery
  <2>5. worker' \in [Deliveries -> [at : Stage, hook : Hooks \cup {None}]]
    BY <1>1, <2>1, <2>2 DEF Stage
  <2>6. todo' \in [Dispatches -> SUBSET Hooks]
    BY <1>1, <2>1
  <2> QED
    BY <1>1, <1>11, <2>4, <2>5, <2>6 DEF StartDelivery, TypeOK
<1>12. ASSUME NEW d \in Deliveries, Post(d) PROVE TypeOK'
  <2>1. PICK s \in Stage : Move(d, s)
    BY <1>12 DEF Post, Stage
  <2>2. received' \in [Deliveries -> Nat]
    BY <1>1, <1>12 DEF Post
  <2> QED
    BY <1>1, <1>3, <1>12, <2>1, <2>2 DEF Post, TypeOK
<1>13. ASSUME NEW d \in Deliveries, Answer(d) PROVE TypeOK'
  <2>1. PICK s \in Stage : Move(d, s)
    BY <1>13 DEF Answer, Stage
  <2> QED
    BY <1>1, <1>3, <1>13, <2>1 DEF Answer, TypeOK
<1>14. ASSUME NEW d \in Deliveries, UpdateDelivery(d) PROVE TypeOK'
  <2>1. ASSUME NEW r \in Record, NEW s \in {"delivered", "failed"}
        PROVE  Settled(r, s) \in Record
    BY DEF Record, Settled
  <2>2. records' \in [Deliveries -> Record \cup {None}]
    BY <1>1, <1>14, <2>1 DEF UpdateDelivery
  <2>3. worker' \in [Deliveries -> [at : Stage, hook : Hooks \cup {None}]]
    BY <1>1, <1>14 DEF UpdateDelivery, Stage
  <2>4. lost' \subseteq Deliveries
    BY <1>1, <1>14 DEF UpdateDelivery
  <2> QED
    BY <1>1, <1>14, <2>2, <2>3, <2>4 DEF UpdateDelivery, TypeOK
<1>15. CASE Crash
  <2>1. worker' \in [Deliveries -> [at : Stage, hook : Hooks \cup {None}]]
    BY <1>1, <1>15 DEF Crash, Stage
  <2>2. job' \in [Handlers -> Job] /\ todo' \in [Dispatches -> SUBSET Hooks]
    BY <1>4, <1>15 DEF Crash
  <2> QED
    BY <1>1, <1>15, <2>1, <2>2 DEF Crash, Working, TypeOK
<1>16. CASE UNCHANGED vars
  BY <1>1, <1>16 DEF vars, TypeOK
<1> QED
  BY <1>5, <1>6, <1>7, <1>8, <1>9, <1>10, <1>11, <1>12, <1>13, <1>14, <1>15, <1>16
  DEF Next, Deliver

(***************************************************************************)
(* Every variable keeps its type.                                          *)
(***************************************************************************)
THEOREM WebhookTypes == Spec => []TypeOK
BY TypeInit, TypeStep, PTL DEF Spec

-----------------------------------------------------------------------------
(***************************************************************************)
(* The invariant, for one delivery: where its goroutine stands says what   *)
(* its endpoint and its record have seen (webhook_service.go:139-154).     *)
(***************************************************************************)
DeliveryFits(d) ==
  /\ worker[d].at \in {"unborn", "post"} => received[d] = 0
  /\ worker[d].at = "unborn" => records[d] = None
  /\ worker[d].at = "ok" => d \in accepted
  /\ received[d] <= 1
  /\ records[d] # None =>
       /\ d \in Working => records[d].status = "pending"
       /\ records[d].status = "delivered" => d \in accepted
       /\ records[d].status = "pending" => d \in Working \cup lost

DeliveryInv == TypeOK /\ \A d \in Deliveries : DeliveryFits(d)

LEMMA DeliveryInit == Init => DeliveryInv
BY TypeInit DEF Init, DeliveryInv, DeliveryFits

\* A step that changes nothing of a delivery but may delete its record.
LEMMA FitsStays ==
  ASSUME NEW d \in Deliveries, DeliveryFits(d),
         records'[d] \in {records[d], None}, worker'[d] = worker[d],
         received'[d] = received[d], accepted \subseteq accepted', lost \subseteq lost'
  PROVE  DeliveryFits(d)'
BY DEF DeliveryFits, Working

LEMMA DeliveryStep == DeliveryInv /\ [Next]_vars => DeliveryInv'
<1> SUFFICES ASSUME DeliveryInv, [Next]_vars PROVE DeliveryInv'
  OBVIOUS
<1>1. /\ records \in [Deliveries -> Record \cup {None}]
      /\ worker \in [Deliveries -> [at : Stage, hook : Hooks \cup {None}]]
      /\ received \in [Deliveries -> Nat]
  BY DEF DeliveryInv, TypeOK
<1>2. TypeOK'
  BY TypeStep DEF DeliveryInv
<1> SUFFICES ASSUME NEW d \in Deliveries PROVE DeliveryFits(d)'
  BY <1>2 DEF DeliveryInv
<1>3. DeliveryFits(d)
  BY DEF DeliveryInv
<1>4. CASE UNCHANGED <<records, worker, received, accepted, lost>>
  BY <1>3, <1>4, FitsStays
<1>5. ASSUME NEW h \in Handlers, DropWebhook(h) PROVE DeliveryFits(d)'
  <2>1. records'[d] \in {records[d], None}
    BY <1>5 DEF DropWebhook
  <2> QED
    BY <1>3, <1>5, <2>1, FitsStays DEF DropWebhook
<1>6. ASSUME NEW e \in Dispatches, StartDelivery(e) PROVE DeliveryFits(d)'
  <2>1. PICK i \in todo[e], b \in Deliveries :
          /\ worker[b].at = "unborn"
          /\ CreateDelivery(b, i)
          /\ worker' = [worker EXCEPT ![b] = [at |-> "post", hook |-> i]]
    BY <1>6 DEF StartDelivery
  <2>2. UNCHANGED <<received, accepted, lost>>
    BY <1>6 DEF StartDelivery
  <2>3. CASE d # b
    <3>1. records'[d] = records[d] /\ worker'[d] = worker[d]
      BY <1>1, <2>1, <2>3 DEF CreateDelivery
    <3> QED
      BY <1>3, <2>2, <3>1, FitsStays
  <2>4. CASE d = b
    <3>1. records[d] = None /\ received[d] = 0
      BY <1>3, <2>1, <2>4 DEF DeliveryFits
    <3>2. worker'[d].at = "post"
      BY <1>1, <2>1, <2>4
    <3>3. records'[d] = None \/ records'[d].status = "pending"
      BY <1>1, <2>1, <2>4, <3>1 DEF CreateDelivery
    <3> QED
      BY <2>2, <3>1, <3>2, <3>3 DEF DeliveryFits, Working
  <2> QED
    BY <2>3, <2>4
<1>7. ASSUME NEW b \in Deliveries, Deliver(b) PROVE DeliveryFits(d)'
  <2>1. CASE d # b
    <3>1. records'[d] = records[d] /\ worker'[d] = worker[d] /\ received'[d] = received[d]
      BY <1>1, <1>7, <2>1 DEF Deliver, Post, Answer, UpdateDelivery, Move
    <3>2. accepted \subseteq accepted' /\ lost \subseteq lost'
      BY <1>7 DEF Deliver, Post, Answer, UpdateDelivery
    <3> QED
      BY <1>3, <3>1, <3>2, FitsStays
  <2>2. CASE d = b /\ Post(b)
    <3>1. /\ worker'[d].at \in {"sent", "error"}
          /\ received'[d] \in {received[d], received[d] + 1}
      BY <1>1, <2>2 DEF Post, Move
    <3>2. received[d] = 0 /\ d \in Working /\ d \in Working'
      BY <1>3, <2>2, <3>1 DEF DeliveryFits, Post, Working
    <3> QED
      BY <1>3, <2>2, <3>1, <3>2 DEF DeliveryFits, Post
  <2>3. CASE d = b /\ Answer(b)
    <3>1. /\ worker'[d].at \in {"ok", "error"}
          /\ worker'[d].at = "ok" => d \in accepted'
          /\ accepted \subseteq accepted'
      BY <1>1, <2>3 DEF Answer, Move
    <3>2. d \in Working /\ d \in Working'
      BY <2>3, <3>1 DEF Answer, Working
    <3> QED
      BY <1>3, <2>3, <3>1, <3>2 DEF DeliveryFits, Answer
  <2>4. CASE d = b /\ UpdateDelivery(b)
    <3>1. worker'[d].at = "done" /\ d \notin Working'
      BY <1>1, <2>4 DEF UpdateDelivery, Working
    <3>2. worker[d].at \in {"ok", "error"} /\ UNCHANGED <<received, accepted>>
      BY <2>4 DEF UpdateDelivery
    <3>3. \/ records'[d] = None
          \/ /\ records'[d].status = IF worker[d].at = "ok" THEN "delivered" ELSE "failed"
          \/ d \in lost' /\ UNCHANGED records
      BY <1>1, <2>4 DEF UpdateDelivery, Settled
    <3>4. d \in Working
      BY <3>2 DEF Working
    <3> QED
      BY <1>3, <3>1, <3>2, <3>3, <3>4 DEF DeliveryFits
  <2> QED
    BY <1>7, <2>1, <2>2, <2>3, <2>4 DEF Deliver
<1>8. CASE Crash
  <2>1. CASE d \notin Working
    <3>1. worker'[d] = worker[d] /\ lost \subseteq lost' /\ UNCHANGED <<records, received, accepted>>
      BY <1>8, <2>1 DEF Crash
    <3> QED
      BY <1>3, <3>1, FitsStays
  <2>2. CASE d \in Working
    <3>1. worker'[d].at = "done" /\ d \in lost' /\ UNCHANGED <<records, received, accepted>>
      BY <1>8, <2>2 DEF Crash
    <3>2. d \notin Working'
      BY <3>1 DEF Working
    <3> QED
      BY <1>3, <2>2, <3>1, <3>2 DEF DeliveryFits
  <2> QED
    BY <2>1, <2>2
<1> QED
  BY <1>4, <1>5, <1>6, <1>7, <1>8 DEF Next, vars, CreateWebhook, UpdateWebhook, WriteWebhook,
     DeleteWebhook, TestWebhook, TestSent, Abandon, DispatchEvent

LEMMA DeliveryAlways == Spec => []DeliveryInv
BY DeliveryInit, DeliveryStep, PTL DEF Spec

(***************************************************************************)
(* A record says "delivered" only of a delivery its endpoint accepted, and *)
(* nothing is posted twice.                                                *)
(***************************************************************************)
THEOREM WebhookDelivered == Spec => []DeliveredIsTrue
<1>1. DeliveryInv => DeliveredIsTrue
  BY DEF DeliveryInv, DeliveryFits, DeliveredIsTrue, Recorded
<1> QED
  BY <1>1, DeliveryAlways, PTL

(***************************************************************************)
(* A record without a goroutine at work on it is pending only if an exit   *)
(* or a failed update lost it.                                             *)
(***************************************************************************)
THEOREM WebhookPending == Spec => []PendingIsOwned
<1>1. DeliveryInv => PendingIsOwned
  BY DEF DeliveryInv, DeliveryFits, PendingIsOwned, Recorded
<1> QED
  BY <1>1, DeliveryAlways, PTL

(***************************************************************************)
(* A settled record is never written again.                                *)
(***************************************************************************)
THEOREM WebhookOutcomesFinal == Spec => OutcomesAreFinal
<1> DEFINE Final == \A d \in Recorded :
              records[d].status # "pending" => records'[d] \in {records[d], None}
<1>1. DeliveryInv /\ [Next]_vars => [Final]_vars
  <2> SUFFICES ASSUME DeliveryInv, Next, NEW d \in Recorded, records[d].status # "pending"
               PROVE  records'[d] \in {records[d], None}
    BY DEF Final
  <2>1. /\ d \in Deliveries /\ d \notin Working /\ worker[d].at # "unborn"
        /\ records \in [Deliveries -> Record \cup {None}]
    BY DEF DeliveryInv, DeliveryFits, Recorded, TypeOK
  <2>2. ASSUME NEW h \in Handlers, DropWebhook(h) PROVE records'[d] \in {records[d], None}
    BY <2>1, <2>2 DEF DropWebhook
  <2>3. ASSUME NEW e \in Dispatches, StartDelivery(e) PROVE records'[d] = records[d]
    BY <2>1, <2>3 DEF StartDelivery, CreateDelivery
  <2>4. ASSUME NEW b \in Deliveries, UpdateDelivery(b) PROVE records'[d] = records[d]
    <3>1. d # b
      BY <2>1, <2>4 DEF UpdateDelivery, Working
    <3> QED
      BY <2>1, <2>4, <3>1 DEF UpdateDelivery
  <2>5. CASE UNCHANGED records
    BY <2>5
  <2> QED
    BY <2>2, <2>3, <2>4, <2>5 DEF Next, Deliver, CreateWebhook, UpdateWebhook, WriteWebhook,
       DeleteWebhook, TestWebhook, TestSent, Abandon, DispatchEvent, Post, Answer, Crash
<1> QED
  BY <1>1, DeliveryInit, DeliveryStep, PTL DEF Spec, OutcomesAreFinal

-----------------------------------------------------------------------------
LEMMA HooksStep == TypeOK /\ RecordsHaveHooks /\ [Next]_vars => RecordsHaveHooks'
<1> SUFFICES ASSUME TypeOK, RecordsHaveHooks, [Next]_vars, NEW d \in Recorded'
             PROVE  hooks'[records'[d].hook] # None
  BY DEF RecordsHaveHooks
<1>1. /\ hooks \in [Hooks -> HookRow \cup {None}]
      /\ records \in [Deliveries -> Record \cup {None}]
      /\ d \in Deliveries /\ records'[d] # None
  BY DEF TypeOK, Recorded
<1>2. \A row \in HookRow : row # None
  BY WebhookAssumption
<1>3. ASSUME records'[d] = records[d], \A i \in Hooks : hooks[i] # None => hooks'[i] # None
      PROVE  hooks'[records'[d].hook] # None
  BY <1>1, <1>3 DEF RecordsHaveHooks, Recorded, Record
<1>4. ASSUME NEW o \in Orgs, CreateWebhook(o) PROVE hooks'[records'[d].hook] # None
  <2>1. PICK i \in Hooks, on \in BOOLEAN : InsertWebhook(i, [org |-> o, on |-> on])
    BY <1>4 DEF CreateWebhook
  <2>2. [org |-> o, on |-> on] # None
    BY <1>2 DEF HookRow
  <2> QED
    BY <1>1, <1>3, <1>4, <2>1, <2>2 DEF CreateWebhook, InsertWebhook
<1>5. ASSUME NEW h \in Handlers, WriteWebhook(h) PROVE hooks'[records'[d].hook] # None
  <2>1. \A row \in HookRow : [row EXCEPT !.on = job[h].on] \in HookRow
    BY <1>5, JobFields DEF WriteWebhook, HookRow
  <2> QED
    BY <1>1, <1>2, <1>3, <1>5, <2>1 DEF WriteWebhook
<1>6. ASSUME NEW h \in Handlers, DropWebhook(h) PROVE hooks'[records'[d].hook] # None
  <2>1. records'[d] = records[d] /\ records[d].hook # job[h].hook
    BY <1>1, <1>6 DEF DropWebhook
  <2>2. records[d].hook \in Hooks /\ hooks[records[d].hook] # None
    BY <1>1, <2>1 DEF RecordsHaveHooks, Recorded, Record
  <2> QED
    BY <1>1, <1>6, <2>1, <2>2 DEF DropWebhook
<1>7. ASSUME NEW e \in Dispatches, StartDelivery(e) PROVE hooks'[records'[d].hook] # None
  <2>1. PICK i \in todo[e], b \in Deliveries : CreateDelivery(b, i)
    BY <1>7 DEF StartDelivery
  <2>2. records'[d] = records[d] \/ (hooks[i] # None /\ records'[d].hook = i)
    BY <1>1, <2>1 DEF CreateDelivery
  <2> QED
    BY <1>3, <1>7, <2>2 DEF StartDelivery
<1>8. ASSUME NEW b \in Deliveries, UpdateDelivery(b) PROVE hooks'[records'[d].hook] # None
  <2>1. \/ records'[d] = records[d]
        \/ d = b /\ records[d] # None /\ records'[d].hook = records[d].hook
    BY <1>1, <1>8 DEF UpdateDelivery, Settled
  <2>2. UNCHANGED hooks
    BY <1>8 DEF UpdateDelivery
  <2> QED
    BY <1>1, <1>3, <2>1, <2>2 DEF RecordsHaveHooks, Recorded
<1>9. CASE UNCHANGED <<hooks, records>>
  BY <1>3, <1>9
<1> QED
  BY <1>4, <1>5, <1>6, <1>7, <1>8, <1>9 DEF Next, Deliver, vars, UpdateWebhook,
     DeleteWebhook, TestWebhook, TestSent, Abandon, DispatchEvent, Post, Answer, Crash

(***************************************************************************)
(* No record outlives its hook, or is inserted for one that is gone.       *)
(***************************************************************************)
THEOREM WebhookRecordsHaveHooks == Spec => []RecordsHaveHooks
<1>1. Init => RecordsHaveHooks
  BY DEF Init, RecordsHaveHooks, Recorded
<1> QED
  BY <1>1, TypeInit, TypeStep, HooksStep, PTL DEF Spec
=============================================================================
