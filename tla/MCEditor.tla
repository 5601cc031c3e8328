------------------------------ MODULE MCEditor ------------------------------
(* Editor on small instances.                                               *)
EXTENDS Editor, TLC

CONSTANTS t1, t2, t3, old, new

MCThree      == {t1, t2, t3}
MCContents   == {old, new}
MCIncomplete == {new}
MCPlain      == {"save", "remove", "publish"}
MCSymmetry   == Permutations(MCThree)
=============================================================================
