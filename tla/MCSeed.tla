------------------------------- MODULE MCSeed -------------------------------
(* Seed on small instances.                                                  *)
EXTENDS Seed

CONSTANTS r1, r2

MCRunners  == {r1, r2}
MCBrands   == <<[slug |-> "notarify", suspended |-> FALSE]>>
MCKinds    == <<"live", "archived">>
=============================================================================
