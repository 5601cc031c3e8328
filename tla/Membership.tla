------------------------------ MODULE Membership ------------------------------
(***************************************************************************)
(* What brands and their members may rely on, with no requests, locks or   *)
(* transactions: each operation on the account tables happens at once.     *)
(*                                                                         *)
(* Accounts.tla is shown to implement this module. What an operation here  *)
(* does not ask for, a request really may lose between its check and its   *)
(* commit: the inviter may be gone, the e-mail may have an account by now, *)
(* the account that signs in may be disabled.                              *)
(***************************************************************************)
EXTENDS Naturals, Sequences

CONSTANTS
    Brands,      \* public slugs
    Emails,      \* e-mail addresses, lower case
    Invitations, \* tokens
    Founder,     \* Founder[b]: who owns b, for the brands that exist from the start
    Invited,     \* Invited[i]: whom token i invites where, for the pending invitations of the start
    NoUser,      \* no account under this e-mail
    NoRow        \* no invitation under this token

Roles   == {"OWNER", "MANAGER", "EDITOR"}
Invitee == {"MANAGER", "EDITOR"}

ASSUME MembershipAssumption ==
    /\ DOMAIN Founder \subseteq Brands
    /\ \A b, c \in DOMAIN Founder : Founder[b] \in Emails /\ (Founder[b] = Founder[c] => b = c)
    /\ DOMAIN Invited \subseteq Invitations
    /\ \A i \in DOMAIN Invited :
         /\ Invited[i] \in [brand: DOMAIN Founder, email: Emails, role: Invitee]
         /\ \A b \in DOMAIN Founder : Founder[b] # Invited[i].email
         /\ \A j \in DOMAIN Invited \ {i} :
              <<Invited[i].brand, Invited[i].email>> # <<Invited[j].brand, Invited[j].email>>
    /\ NoRow \notin Brands \cup Emails \cup Invitations \cup Invitee
    /\ NoRow \notin [brand: Brands, email: Emails, role: Invitee, accepted: BOOLEAN,
                     expired: BOOLEAN, deleted: BOOLEAN]
    /\ NoUser \notin [brand: Brands, role: Roles, disabled: BOOLEAN]

VARIABLES
    brands,      \* brands[b]: not registered, active or suspended
    users,       \* users[e]: the account under e, or NoUser
    invitations, \* invitations[i]: the row with token i, or NoRow
    audit,       \* audit_log_entries about accounts, in commit order
    tokens       \* who holds an access token

membershipVars == <<brands, users, invitations, audit, tokens>>

-----------------------------------------------------------------------------
(* A deleted invitation stays, marked, so that its token is never reused.   *)
User       == [brand: Brands, role: Roles, disabled: BOOLEAN]
Invitation == [brand: Brands, email: Emails, role: Invitee, accepted: BOOLEAN, expired: BOOLEAN,
               deleted: BOOLEAN]
Entry      == [action: {"BRAND_REGISTERED", "INVITATION_CREATED", "INVITATION_ACCEPTED",
                        "USER_DEACTIVATED"},
               about: Emails]

NewInvitation(b, e, role) == [brand |-> b, email |-> e, role |-> role, accepted |-> FALSE,
                              expired |-> FALSE, deleted |-> FALSE]

Row(i)     == invitations[i] # NoRow /\ ~invitations[i].deleted
Pending(i) == Row(i) /\ ~invitations[i].accepted

Log(action, e) == audit' = Append(audit, [action |-> action, about |-> e])

MembershipInit ==
    /\ brands = [b \in Brands |-> IF b \in DOMAIN Founder THEN "active" ELSE "none"]
    /\ users = [e \in Emails |->
                  IF \E b \in DOMAIN Founder : Founder[b] = e
                  THEN [brand |-> CHOOSE b \in DOMAIN Founder : Founder[b] = e, role |-> "OWNER",
                        disabled |-> FALSE]
                  ELSE NoUser]
    /\ invitations = [i \in Invitations |->
                        IF i \in DOMAIN Invited
                        THEN NewInvitation(Invited[i].brand, Invited[i].email, Invited[i].role)
                        ELSE NoRow]
    /\ audit = <<>>
    /\ tokens = {Founder[b] : b \in DOMAIN Founder}

-----------------------------------------------------------------------------
(* A free slug and a free e-mail become a brand and its signed-in owner.    *)
FoundBrand(b, e) ==
    /\ brands[b] = "none" /\ users[e] = NoUser
    /\ brands' = [brands EXCEPT ![b] = "active"]
    /\ users' = [users EXCEPT ![e] = [brand |-> b, role |-> "OWNER", disabled |-> FALSE]]
    /\ tokens' = tokens \cup {e}
    /\ Log("BRAND_REGISTERED", e)
    /\ UNCHANGED invitations

(* The pending invitations of a brand to an e-mail.                         *)
PendingFor(b, e) == {i \in Invitations : /\ Pending(i)
                                         /\ invitations[i].brand = b /\ invitations[i].email = e}

(* Invitation i is new; old, if it is an invitation, has expired and goes.  *)
IssueInvitation(i, old, b, e, role) ==
    /\ Log("INVITATION_CREATED", e)
    /\ brands[b] # "none" /\ invitations[i] = NoRow
    /\ old # NoRow => /\ Row(old) /\ invitations[old].expired
                      /\ invitations[old].brand = b /\ invitations[old].email = e
    /\ PendingFor(b, e) \subseteq {old}
    /\ invitations' = [j \in Invitations |->
                         IF j = i THEN NewInvitation(b, e, role)
                         ELSE IF j = old THEN [invitations[j] EXCEPT !.deleted = TRUE]
                         ELSE invitations[j]]
    /\ UNCHANGED <<brands, users, tokens>>

Lapse(i) ==
    /\ Pending(i) /\ ~invitations[i].expired
    /\ invitations' = [invitations EXCEPT ![i].expired = TRUE]
    /\ UNCHANGED <<brands, users, audit, tokens>>

(* A pending invitation, used once, opens the account it was written for.   *)
JoinBrand(i) ==
    LET invitation == invitations[i] IN
    /\ Pending(i) /\ users[invitation.email] = NoUser
    /\ users' = [users EXCEPT ![invitation.email] =
                   [brand |-> invitation.brand, role |-> invitation.role, disabled |-> FALSE]]
    /\ invitations' = [invitations EXCEPT ![i].accepted = TRUE]
    /\ Log("INVITATION_ACCEPTED", invitation.email)
    /\ UNCHANGED <<brands, tokens>>

DisableMember(e) ==
    /\ users[e] # NoUser /\ users[e].role # "OWNER"
    /\ users' = [users EXCEPT ![e].disabled = TRUE]
    /\ Log("USER_DEACTIVATED", e)
    /\ UNCHANGED <<brands, invitations, tokens>>

SignIn(e) ==
    /\ users[e] # NoUser
    /\ tokens' = tokens \cup {e}
    /\ UNCHANGED <<brands, users, invitations, audit>>

SetStatus(b, status) ==
    /\ brands[b] # "none"
    /\ brands' = [brands EXCEPT ![b] = status]
    /\ UNCHANGED <<users, invitations, audit, tokens>>

MembershipNext ==
    \/ \E b \in Brands, e \in Emails : FoundBrand(b, e)
    \/ \E i \in Invitations, old \in Invitations \cup {NoRow}, b \in Brands, e \in Emails,
          role \in Invitee : IssueInvitation(i, old, b, e, role)
    \/ \E i \in Invitations : Lapse(i) \/ JoinBrand(i)
    \/ \E e \in Emails : DisableMember(e) \/ SignIn(e)
    \/ \E b \in Brands, status \in {"active", "suspended"} : SetStatus(b, status)

MembershipSpec == MembershipInit /\ [][MembershipNext]_membershipVars
=============================================================================
