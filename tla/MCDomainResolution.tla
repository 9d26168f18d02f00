-------------------------- MODULE MCDomainResolution --------------------------
(***************************************************************************)
(* A small instance of DomainResolution: one domain that two organizations *)
(* add, verify and remove in turn.                                         *)
(***************************************************************************)
EXTENDS DomainResolution
=============================================================================
