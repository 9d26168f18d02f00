------------------------------ MODULE MCTagging ------------------------------
(***************************************************************************)
(* Two requests in two organizations, one asset, two tags (a request for   *)
(* both can be interrupted between them) that may want the same slug, and  *)
(* one collection.                                                         *)
(***************************************************************************)
EXTENDS Tagging, TLC

Symmetry == Permutations(Handlers) \cup Permutations(Orgs) \cup Permutations(Tags)
=============================================================================
