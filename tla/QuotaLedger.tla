----------------------------- MODULE QuotaLedger -----------------------------
(***************************************************************************)
(* What the quota check of the asset service promises, and no more: bytes  *)
(* are admitted against the usage counter AS IT IS WHEN IT IS READ, are    *)
(* counted later, and may be dropped instead of being counted.  Between    *)
(* the two nothing reserves them, so clients that were admitted together   *)
(* are counted together.                                                   *)
(*                                                                         *)
(* AssetUpload implements this ledger; AssetUploadProofs proves the bound  *)
(* for every number of clients.                                            *)
(***************************************************************************)
EXTENDS Integers, FiniteSets

CONSTANTS Orgs,       \* organizations, each with a counter of its own
          Clients,    \* concurrent requests
          Sizes,      \* file sizes a request may carry, in bytes
          MaxSize,    \* largest body the HTTP server accepts
          Quota,      \* storage_quota_bytes of each organization
          None        \* a client with nothing admitted

\* What the bound needs of the constants; UploadAssumption gives it.
LedgerAssumption ==
  /\ IsFiniteSet(Clients) /\ Clients # {}
  /\ MaxSize \in Nat
  /\ Sizes \subseteq 0 .. MaxSize
  /\ Quota \in [Orgs -> Nat]
  /\ None \notin [org : Orgs, size : Sizes]

VARIABLES used,     \* storage_used_bytes of each organization
          pending   \* the bytes each client was admitted for and has not counted

vars == <<used, pending>>

Admission == [org : Orgs, size : Sizes]

Init ==
  /\ used = [o \in Orgs |-> 0]
  /\ pending = [c \in Clients |-> None]

Admit(c, o, s) ==
  /\ pending[c] = None
  /\ used[o] + s <= Quota[o]
  /\ pending' = [pending EXCEPT ![c] = [org |-> o, size |-> s]]
  /\ UNCHANGED used

Count(c) ==
  /\ pending[c] # None
  /\ used' = [used EXCEPT ![pending[c].org] = @ + pending[c].size]
  /\ pending' = [pending EXCEPT ![c] = None]

Drop(c) ==
  /\ pending[c] # None
  /\ pending' = [pending EXCEPT ![c] = None]
  /\ UNCHANGED used

Next ==
  \E c \in Clients :
    \/ \E o \in Orgs, s \in Sizes : Admit(c, o, s)
    \/ Count(c)
    \/ Drop(c)

Spec == Init /\ [][Next]_vars

-----------------------------------------------------------------------------
TypeOK ==
  /\ used \in [Orgs -> Nat]
  /\ pending \in [Clients -> Admission \cup {None}]

\* The clients whose admitted bytes are still to be counted for o.
Outstanding(o) == {c \in Clients : pending[c] # None /\ pending[c].org = o}

(***************************************************************************)
(* A counter never exceeds the quota by more than one maximal file for     *)
(* each OTHER concurrent client (asset_service.go:65-68 reads the counter, *)
(* line 132 adds to it).                                                   *)
(***************************************************************************)
BoundedOvershoot ==
  \A o \in Orgs : used[o] <= Quota[o] + (Cardinality(Clients) - 1) * MaxSize

(***************************************************************************)
(* The strengthening that is inductive: with k clients outstanding, some   *)
(* one of them (the last admitted) still fits if the other k - 1 are       *)
(* counted at the maximal size.                                            *)
(***************************************************************************)
RoomForOutstanding ==
  \A o \in Orgs : Outstanding(o) # {} =>
    \E c \in Outstanding(o) :
      used[o] + pending[c].size + (Cardinality(Outstanding(o)) - 1) * MaxSize
        <= Quota[o] + (Cardinality(Clients) - 1) * MaxSize

LedgerInv == TypeOK /\ BoundedOvershoot /\ RoomForOutstanding
=============================================================================
