------------------------------ MODULE MCAccounts ------------------------------
(* Accounts on small instances: two brands with owners, one that may be      *)
(* registered, one person everybody wants and one of them has invited.        *)
EXTENDS Accounts, TLC

CONSTANTS r1, r2, r3, b1, b2, b3, o1, o2, p, i1, i2, i3, i4

MCThree       == {r1, r2, r3}
MCBrands      == {b1, b2, b3}
MCEmails      == {o1, o2, p}
MCInvitations == {i1, i2, i3, i4}
MCFounder     == b1 :> o1 @@ b2 :> o2
MCInvited     == i1 :> [brand |-> b2, email |-> p, role |-> "EDITOR"]
=============================================================================
