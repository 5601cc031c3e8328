---------------------------- MODULE MCPublication ----------------------------
(* Publication on small instances.                                          *)
EXTENDS PublicationProperties, TLC

CONSTANTS r1, r2, r3, r4

MCThree == {r1, r2, r3}
MCFour  == {r1, r2, r3, r4}
MCSymmetry == Permutations(MCThree)
MCSymmetryFour == Permutations(MCFour)
MCPublishing == {"publish", "unpublish"}
MCLocking == {"publish", "unpublish", "childAdd"}
=============================================================================
