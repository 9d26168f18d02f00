-------------------------- MODULE MCTransformServing --------------------------
(***************************************************************************)
(* Small instances of TransformServing.  p1 and p2 differ in size only.    *)
(* webp is plain; odd asks for "PNG", which only the encoder does not take *)
(* for png, and its operations for "WEBP", which it does not take for webp.*)
(* Two styles, the second created when the first is there or gone, then    *)
(* with the parameters webp only.                                          *)
(***************************************************************************)
EXTENDS TransformServing, TLC

CONSTANTS p1, p2, webp, odd

MCLower ==
  [f \in Formats |-> CASE f = "PNG" -> "png" [] f = "WEBP" -> "webp" [] OTHER -> f]
MCOutputFormat ==
  [p \in Params |-> CASE p = webp -> "webp" [] p = odd -> "PNG" [] OTHER -> "jpeg"]
MCOwnFormat == [p \in Params |-> IF p = odd THEN "WEBP" ELSE Unset]

\* Several formats or two styles.
Small == Cardinality(minted) > 1 => \A r \in styles : r.params = webp

Symmetry == Permutations(Handlers) \cup Permutations(Styles) \cup Permutations(Slugs)
              \cup Permutations(Assets) \cup Permutations(Params \cap {p1, p2})
=============================================================================
