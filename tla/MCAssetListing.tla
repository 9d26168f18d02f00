--------------------------- MODULE MCAssetListing ---------------------------
(***************************************************************************)
(* Three assets with sort keys 1 to 3 in every arrangement, ties included, *)
(* in pages of one row and of no given size, which is two.                 *)
(***************************************************************************)
EXTENDS AssetListing
=============================================================================
