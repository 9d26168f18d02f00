---------------------------- MODULE MCAssetLibrary ----------------------------
(***************************************************************************)
(* Two requests, two organizations, three folders (a chain of three has a  *)
(* grandchild to cascade to) and one asset.                                *)
(***************************************************************************)
EXTENDS AssetLibrary, TLC

Symmetry == Permutations(Handlers) \cup Permutations(Orgs) \cup Permutations(FolderIds) \cup Permutations(Slugs)
===============================================================================
