----------------------------- MODULE MCScanQueue -----------------------------
(* ScanQueue on small instances.                                            *)
EXTENDS ScanQueue, TLC

CONSTANTS j1, j2, j3, s1, a, b

MCTwoJobs   == {j1, j2}
MCThreeJobs == {j1, j2, j3}
MCOneScan   == {s1}
MCNoScans   == {NoScan}
MCOne       == {a}
MCTwo       == {a, b}
MCSymmetry  == Permutations(MCThreeJobs) \cup Permutations(MCTwo)
=============================================================================
