---------------------------- MODULE MCPublicCache ----------------------------
(* PublicCache on small instances: one draft that is always complete, since  *)
(* what a version says does not matter here, only which version it is.       *)
EXTENDS PublicCache, TLC

CONSTANTS r1, r2, r3, r4, a, b

MCContent == {[ok |-> TRUE]}
MCKeys    == {"qr"}
MCOne     == {a}
MCTwo     == {a, b}
MCThreeRequests == {r1, r2, r3}
MCFourRequests  == {r1, r2, r3, r4}
MCSymmetry == Permutations(MCFourRequests)
=============================================================================
