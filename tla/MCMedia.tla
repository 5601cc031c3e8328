------------------------------- MODULE MCMedia -------------------------------
(* Media on small instances.                                                 *)
EXTENDS Media, TLC

CONSTANTS t1, t2, t3, f0, f1, f2

MCThreeTasks == {t1, t2, t3}
MCFiles      == {f0, f1, f2}
MCSymmetry   == Permutations(MCThreeTasks) \cup Permutations({f1, f2})
=============================================================================
