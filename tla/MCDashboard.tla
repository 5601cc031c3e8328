---------------------------- MODULE MCDashboard ----------------------------
(* Dashboard on small instances.                                            *)
EXTENDS Dashboard

Asks == [p \in AllPages |-> IF p \in {"products"} THEN 2 ELSE 3]
============================================================================
