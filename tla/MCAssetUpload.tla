---------------------------- MODULE MCAssetUpload ----------------------------
(***************************************************************************)
(* Small instances of AssetUpload: files of 1 or 2 bytes, a quota of 3, so *)
(* that one file fits, two large ones do not, and the boundary is hit      *)
(* exactly.                                                                *)
(***************************************************************************)
EXTENDS AssetUpload, TLC

MCQuota == [o \in Orgs |-> 3]

Symmetry == Permutations(Handlers) \cup Permutations(Assets) \cup Permutations(Orgs)
=============================================================================
