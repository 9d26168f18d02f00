--------------------------- MODULE WebhookDelivery ---------------------------
(***************************************************************************)
(* Webhooks, the records of their deliveries and the goroutines that make  *)
(* them (webhook_service.go, other_repositories.go:405-522,                *)
(* v1/webhooks.go).                                                        *)
(*                                                                         *)
(* Dispatching an event lists the hooks that are on, and for each inserts  *)
(* a pending record and starts a goroutine, which posts once and then      *)
(* writes what came of it to the record.  The hook may be changed or       *)
(* deleted at any time in between, the record with it; errors of the       *)
(* inserts and updates of records are dropped; the process may exit, which *)
(* waits for no goroutine.  Nothing calls DispatchEvent yet (main.go:131). *)
(*                                                                         *)
(* A hook's "on" is its active flag together with its subscription to the  *)
(* event.  URLs, payloads and signatures are left out.  The Mutant...      *)
(* operators are slips that break a property; no specification uses them.  *)
(***************************************************************************)
EXTENDS Naturals

CONSTANTS Handlers,    \* concurrent requests
          Dispatches,  \* concurrent dispatches of events
          Orgs,
          Hooks,       \* ids of webhook rows
          Deliveries,  \* ids of deliveries
          MaxCrashes,  \* how often the process may exit
          None

HookRow == [org : Orgs, on : BOOLEAN]
Record == [hook : Hooks, status : {"pending", "delivered", "failed"}, attempts : Nat]

ASSUME WebhookAssumption == MaxCrashes \in Nat /\ None \notin HookRow \cup Record

VARIABLES hooks,     \* the webhooks table: None where an id has no row
          records,   \* the webhook_deliveries table
          worker,    \* where the goroutine of each delivery is
          job,       \* what each request is about to do
          todo,      \* the hooks each dispatch has listed and not dealt with
          received,  \* how many POSTs of a delivery reached its endpoint
          accepted,  \* deliveries answered in time and with a status below 400
          lost,      \* deliveries whose goroutine died or could not write its record
          crashes

vars == <<hooks, records, worker, job, todo, received, accepted, lost, crashes>>

-----------------------------------------------------------------------------
Idle == [op |-> "idle"]

Updating == [op : {"update"}, hook : Hooks, on : BOOLEAN]
Aiming   == [op : {"delete", "test"}, hook : Hooks]

Stage == {"unborn", "post", "sent", "ok", "error", "done"}

Working == {d \in Deliveries : worker[d].at \in {"post", "sent", "ok", "error"}}

Goto(h, j) == job' = [job EXCEPT ![h] = j]
Move(d, stage) == worker' = [worker EXCEPT ![d].at = stage]

Init ==
  /\ hooks = [i \in Hooks |-> None]
  /\ records = [d \in Deliveries |-> None]
  /\ worker = [d \in Deliveries |-> [at |-> "unborn", hook |-> None]]
  /\ job = [h \in Handlers |-> Idle]
  /\ todo = [e \in Dispatches |-> {}]
  /\ received = [d \in Deliveries |-> 0]
  /\ accepted = {}
  /\ lost = {}
  /\ crashes = 0

-----------------------------------------------------------------------------
\* uuid.New(): an id that no row, request or goroutine mentions.
Fresh(i) ==
  /\ hooks[i] = None
  /\ \A d \in Working : worker[d].hook # i
  /\ \A h \in Handlers : job[h] \in Updating \cup Aiming => job[h].hook # i
  /\ \A e \in Dispatches : i \notin todo[e]

InsertWebhook(i, row) == hooks' = [hooks EXCEPT ![i] = row]

\* A new hook is active; it may leave the event out.
CreateWebhook(o) ==
  /\ \E i \in Hooks, on \in BOOLEAN : Fresh(i) /\ InsertWebhook(i, [org |-> o, on |-> on])
  /\ UNCHANGED <<records, worker, job, todo, received, accepted, lost, crashes>>

GetWebhook(o, i) == hooks[i] # None /\ hooks[i].org = o

\* An update takes all settings from the request: "active" is off if left out.
UpdateWebhook(h, o, i, on) ==
  /\ job[h] = Idle
  /\ GetWebhook(o, i)
  /\ Goto(h, [op |-> "update", hook |-> i, on |-> on])
  /\ UNCHANGED <<hooks, records, worker, todo, received, accepted, lost, crashes>>

\* UPDATE ... WHERE id: nothing happens without a row.
WriteWebhook(h) ==
  /\ job[h] \in Updating
  /\ hooks' = [hooks EXCEPT ![job[h].hook] = IF @ = None THEN None ELSE [@ EXCEPT !.on = job[h].on]]
  /\ Goto(h, Idle)
  /\ UNCHANGED <<records, worker, todo, received, accepted, lost, crashes>>

DeleteWebhook(h, o, i) ==
  /\ job[h] = Idle
  /\ GetWebhook(o, i)
  /\ Goto(h, [op |-> "delete", hook |-> i])
  /\ UNCHANGED <<hooks, records, worker, todo, received, accepted, lost, crashes>>

\* Without ON DELETE CASCADE.
MutantDropWebhook(h) ==
  /\ job[h] \in Aiming /\ job[h].op = "delete"
  /\ hooks' = [hooks EXCEPT ![job[h].hook] = None]
  /\ Goto(h, Idle)
  /\ UNCHANGED <<records, worker, todo, received, accepted, lost, crashes>>

\* The delete, which cascades to the records.
DropWebhook(h) ==
  /\ job[h] \in Aiming /\ job[h].op = "delete"
  /\ hooks' = [hooks EXCEPT ![job[h].hook] = None]
  /\ records' = [d \in Deliveries |->
       IF records[d] # None /\ records[d].hook = job[h].hook THEN None ELSE records[d]]
  /\ Goto(h, Idle)
  /\ UNCHANGED <<worker, todo, received, accepted, lost, crashes>>

\* A test is posted within the request, to a hook that is on or off.
TestWebhook(h, o, i) ==
  /\ job[h] = Idle
  /\ GetWebhook(o, i)
  /\ Goto(h, [op |-> "test", hook |-> i])
  /\ UNCHANGED <<hooks, records, worker, todo, received, accepted, lost, crashes>>

\* It leaves no record; its answer goes to the client.
TestSent(h) ==
  /\ job[h] \in Aiming /\ job[h].op = "test"
  /\ Goto(h, Idle)
  /\ UNCHANGED <<hooks, records, worker, todo, received, accepted, lost, crashes>>

-----------------------------------------------------------------------------
ListActiveByEvent(o) == {i \in Hooks : GetWebhook(o, i) /\ hooks[i].on}

DispatchEvent(e, o) ==
  /\ todo[e] = {}
  /\ todo' = [todo EXCEPT ![e] = ListActiveByEvent(o)]
  /\ UNCHANGED <<hooks, records, worker, job, received, accepted, lost, crashes>>

\* The insert of the record, under REFERENCES webhooks(id); an error is dropped.
CreateDelivery(d, i) ==
  \/ hooks[i] # None
       /\ records' = [records EXCEPT ![d] = [hook |-> i, status |-> "pending", attempts |-> 0]]
  \/ UNCHANGED records

\* The goroutine is started only if the record was not inserted.
MutantStartDelivery(e) ==
  /\ \E i \in todo[e], d \in Deliveries :
       /\ worker[d].at = "unborn"
       /\ CreateDelivery(d, i)
       /\ worker' = [worker EXCEPT ![d] =
            IF records'[d] = None THEN [at |-> "post", hook |-> i]
            ELSE [at |-> "done", hook |-> None]]
       /\ todo' = [todo EXCEPT ![e] = @ \ {i}]
  /\ UNCHANGED <<hooks, job, received, accepted, lost, crashes>>

\* The record, and the goroutine whether or not the record was inserted.
StartDelivery(e) ==
  /\ \E i \in todo[e], d \in Deliveries :
       /\ worker[d].at = "unborn"
       /\ CreateDelivery(d, i)
       /\ worker' = [worker EXCEPT ![d] = [at |-> "post", hook |-> i]]
       /\ todo' = [todo EXCEPT ![e] = @ \ {i}]
  /\ UNCHANGED <<hooks, job, received, accepted, lost, crashes>>

\* The POST reaches the endpoint, or no connection is made.
Post(d) ==
  /\ worker[d].at = "post"
  /\ \/ Move(d, "sent") /\ received' = [received EXCEPT ![d] = @ + 1]
     \/ Move(d, "error") /\ UNCHANGED received
  /\ UNCHANGED <<hooks, records, job, todo, accepted, lost, crashes>>

\* Any answer counts as success.
MutantAnswer(d) ==
  /\ worker[d].at = "sent"
  /\ Move(d, "ok")
  /\ \/ accepted' = accepted \cup {d}
     \/ UNCHANGED accepted
  /\ UNCHANGED <<hooks, records, job, todo, received, lost, crashes>>

\* An answer below 400; any other, or none within ten seconds.
Answer(d) ==
  /\ worker[d].at = "sent"
  /\ \/ Move(d, "ok") /\ accepted' = accepted \cup {d}
     \/ Move(d, "error") /\ UNCHANGED accepted
  /\ UNCHANGED <<hooks, records, job, todo, received, lost, crashes>>

\* What the goroutine writes to the record of its attempt.
Settled(r, status) == [hook |-> r.hook, status |-> status, attempts |-> r.attempts + 1]

\* A failure is not recorded but tried again, for as long as it takes.
MutantRetryForever(d) ==
  /\ worker[d].at \in {"ok", "error"}
  /\ IF worker[d].at = "ok"
     THEN /\ records' = [records EXCEPT ![d] =
               IF @ = None THEN None ELSE Settled(@, "delivered")]
          /\ Move(d, "done")
     ELSE Move(d, "post") /\ UNCHANGED records
  /\ UNCHANGED <<hooks, job, todo, received, accepted, lost, crashes>>

\* UPDATE ... WHERE id: the record may be gone; an error is dropped.
UpdateDelivery(d) ==
  /\ worker[d].at \in {"ok", "error"}
  /\ \/ /\ records' = [records EXCEPT ![d] =
             IF @ = None THEN None
             ELSE Settled(@, IF worker[d].at = "ok" THEN "delivered" ELSE "failed")]
        /\ UNCHANGED lost
     \/ lost' = lost \cup {d} /\ UNCHANGED records
  /\ worker' = [worker EXCEPT ![d] = [at |-> "done", hook |-> None]]
  /\ UNCHANGED <<hooks, job, todo, received, accepted, crashes>>

\* The process exits: requests and goroutines end where they are.
Crash ==
  /\ crashes < MaxCrashes
  /\ crashes' = crashes + 1
  /\ job' = [h \in Handlers |-> Idle]
  /\ lost' = lost \cup Working
  /\ worker' = [d \in Deliveries |->
       IF d \in Working THEN [at |-> "done", hook |-> None] ELSE worker[d]]
  /\ todo' = [e \in Dispatches |-> {}]
  /\ UNCHANGED <<hooks, records, received, accepted>>

\* A statement of a request fails.
Abandon(h) ==
  /\ job[h] \in Updating \cup Aiming
  /\ Goto(h, Idle)
  /\ UNCHANGED <<hooks, records, worker, todo, received, accepted, lost, crashes>>

Deliver(d) == Post(d) \/ Answer(d) \/ UpdateDelivery(d)

Next ==
  \/ \E o \in Orgs : CreateWebhook(o)
  \/ \E h \in Handlers :
       \/ \E o \in Orgs, i \in Hooks :
            \/ \E on \in BOOLEAN : UpdateWebhook(h, o, i, on)
            \/ DeleteWebhook(h, o, i)
            \/ TestWebhook(h, o, i)
       \/ WriteWebhook(h)
       \/ DropWebhook(h)
       \/ TestSent(h)
       \/ Abandon(h)
  \/ \E e \in Dispatches :
       \/ \E o \in Orgs : DispatchEvent(e, o)
       \/ StartDelivery(e)
  \/ \E d \in Deliveries : Deliver(d)
  \/ Crash

Spec == Init /\ [][Next]_vars

\* A goroutine goes on: its POST ends after ten seconds at the latest.
FairSpec == Spec /\ \A d \in Deliveries : WF_vars(Deliver(d))

-----------------------------------------------------------------------------
Job == {Idle} \cup Updating \cup Aiming

TypeOK ==
  /\ hooks \in [Hooks -> HookRow \cup {None}]
  /\ records \in [Deliveries -> Record \cup {None}]
  /\ worker \in [Deliveries -> [at : Stage, hook : Hooks \cup {None}]]
  /\ job \in [Handlers -> Job]
  /\ todo \in [Dispatches -> SUBSET Hooks]
  /\ received \in [Deliveries -> Nat]
  /\ accepted \subseteq Deliveries /\ lost \subseteq Deliveries
  /\ crashes \in Nat

Recorded == {d \in Deliveries : records[d] # None}

(***************************************************************************)
(* A record says "delivered" only of a delivery its endpoint accepted, and *)
(* no delivery reaches the endpoint twice, whatever fails in between       *)
(* (webhook_service.go:141-186).                                           *)
(***************************************************************************)
DeliveredIsTrue ==
  /\ \A d \in Recorded : records[d].status = "delivered" => d \in accepted
  /\ \A d \in Deliveries : received[d] <= 1

(***************************************************************************)
(* Records belong to hooks that exist, although the hooks a dispatch works *)
(* through were listed before it (webhook_service.go:115-139).             *)
(***************************************************************************)
RecordsHaveHooks == \A d \in Recorded : hooks[records[d].hook] # None

(***************************************************************************)
(* Only an exit of the process or a failed update leaves a record pending  *)
(* without a goroutine at work on it (webhook_service.go:139-154).         *)
(***************************************************************************)
PendingIsOwned ==
  \A d \in Recorded : records[d].status = "pending" => d \in Working \cup lost

\* What a record says of its attempt is final.
OutcomesAreFinal ==
  [][\A d \in Recorded :
       records[d].status # "pending" => records'[d] \in {records[d], None}]_vars

(***************************************************************************)
(* Every delivery comes to an end: its record is settled, or gone with its *)
(* hook, or was lost.  Nothing takes a lost record up again.               *)
(***************************************************************************)
Settles ==
  \A d \in Deliveries :
    d \in Working ~> \/ d \notin Recorded
                     \/ records[d].status # "pending"
                     \/ d \in lost
=============================================================================
