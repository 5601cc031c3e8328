------------------------------- MODULE Accounts -------------------------------
(***************************************************************************)
(* Brands, their members and the invitations between them: registration,   *)
(* invitation, acceptance, removal, sign-in and suspension, as concurrent  *)
(* requests on PostgreSQL at READ COMMITTED.                               *)
(*                                                                         *)
(* An e-mail names an account, which is never deleted, only disabled. A    *)
(* brand is named by its public slug. Writes of a transaction appear when  *)
(* it commits; until then it holds the rows and unique keys it has touched,*)
(* and whoever needs one of those waits.                                   *)
(***************************************************************************)
EXTENDS Membership, FiniteSets

CONSTANTS
    Requests,    \* the requests of one run
    Kinds,       \* which operations they may be
    Nobody       \* nobody holds this row or key

AllKinds == {"register", "invite", "accept", "remove", "login", "suspend", "reactivate"}

ASSUME AccountsAssumption == Kinds \subseteq AllKinds /\ Nobody \notin Requests

VARIABLES
    kind,        \* kind[r]: what request r asks for
    pc,          \* pc[r]: the await it has reached
    mem,         \* mem[r]: its parameters and locals
    held         \* held[k]: which transaction holds the row or unique key k

vars == <<brands, users, invitations, audit, tokens, kind, pc, mem, held>>

-----------------------------------------------------------------------------
NoMemory == [brand |-> NoRow, email |-> NoRow, role |-> NoRow, row |-> NoRow]

(* Slugs, e-mails and invitation rows, and the pairs of the partial unique  *)
(* index over pending invitations.                                          *)
Keys == Brands \cup Emails \cup Invitations \cup (Brands \X Emails)

Running == {"createBrand", "createOwner", "commitBrand", "find", "delete", "insert",
            "commitInvitation", "lock", "createMember", "commitMember", "disable", "issue", "setStatus"}
Ended   == {"answered", "refused"}
Steps   == {"start"} \cup Running \cup Ended

(* JwtStrategy.validate: the account and its brand are looked up anew.      *)
Enabled(e) == users[e] # NoUser /\ ~users[e].disabled /\ brands[users[e].brand] = "active"

(* users.manage is the owner's alone.                                       *)
Manages(e) == e \in tokens /\ Enabled(e) /\ users[e].role = "OWNER"

Free(k) == held[k] = Nobody
Take(r, k) == held' = [held EXCEPT ![k] = r]
Goto(r, step) == pc' = [pc EXCEPT ![r] = step]

(* A transaction ends: its keys are free, its locals forgotten.             *)
End(r, step) ==
    /\ Goto(r, step)
    /\ mem' = [mem EXCEPT ![r] = NoMemory]
    /\ held' = [k \in Keys |-> IF held[k] = r THEN Nobody ELSE held[k]]

Refuse(r) == End(r, "refused") /\ UNCHANGED <<brands, users, invitations, audit, tokens, kind>>

-----------------------------------------------------------------------------
Init ==
    /\ MembershipInit
    /\ kind \in [Requests -> Kinds]
    /\ pc = [r \in Requests |-> "start"]
    /\ mem = [r \in Requests |-> NoMemory]
    /\ held = [k \in Keys |-> Nobody]

-----------------------------------------------------------------------------
(* Registration of a brand *)

(* The e-mail is free, and the slug too (a taken one gets a random suffix). *)
Register(r) ==
    /\ kind[r] = "register" /\ pc[r] = "start"
    /\ \E e \in Emails, b \in Brands :
         /\ users[e] = NoUser /\ brands[b] = "none"
         /\ mem' = [mem EXCEPT ![r].email = e, ![r].brand = b]
    /\ Goto(r, "createBrand")
    /\ UNCHANGED <<brands, users, invitations, audit, tokens, kind, held>>

CreateBrand(r) ==
    /\ pc[r] = "createBrand" /\ Free(mem[r].brand)
    /\ IF brands[mem[r].brand] # "none" THEN Refuse(r)
       ELSE /\ Take(r, mem[r].brand) /\ Goto(r, "createOwner")
            /\ UNCHANGED <<brands, users, invitations, audit, tokens, kind, mem>>

CreateOwner(r) ==
    /\ pc[r] = "createOwner" /\ Free(mem[r].email)
    /\ IF users[mem[r].email] # NoUser THEN Refuse(r)
       ELSE /\ Take(r, mem[r].email) /\ Goto(r, "commitBrand")
            /\ UNCHANGED <<brands, users, invitations, audit, tokens, kind, mem>>

(* Organisation, owner and audit entry commit together; the answer carries  *)
(* a token.                                                                 *)
CommitBrand(r) ==
    LET b == mem[r].brand  e == mem[r].email IN
    /\ pc[r] = "commitBrand"
    /\ brands' = [brands EXCEPT ![b] = "active"]
    /\ users' = [users EXCEPT ![e] = [brand |-> b, role |-> "OWNER", disabled |-> FALSE]]
    /\ tokens' = tokens \cup {e}
    /\ Log("BRAND_REGISTERED", e)
    /\ End(r, "answered")
    /\ UNCHANGED <<invitations, kind>>

-----------------------------------------------------------------------------
(* Invitation *)

(* The owner is admitted, and no account has the e-mail. This is read       *)
(* before the transaction.                                                  *)
Invite(r) ==
    /\ kind[r] = "invite" /\ pc[r] = "start"
    /\ \E o \in Emails, e \in Emails, role \in Invitee :
         /\ Manages(o) /\ users[e] = NoUser
         /\ mem' = [mem EXCEPT ![r] = [brand |-> users[o].brand, email |-> e, role |-> role, row |-> NoRow]]
    /\ Goto(r, "find")
    /\ UNCHANGED <<brands, users, invitations, audit, tokens, kind, held>>

(* A pending invitation that has not expired is a conflict; one that has is *)
(* deleted.                                                                 *)
FindPending(r) ==
    LET found == PendingFor(mem[r].brand, mem[r].email) IN
    /\ pc[r] = "find"
    /\ IF found = {}
       THEN Goto(r, "insert") /\ UNCHANGED <<brands, users, invitations, audit, tokens, kind, mem, held>>
       ELSE \E i \in found :
              IF ~invitations[i].expired THEN Refuse(r)
              ELSE /\ mem' = [mem EXCEPT ![r].row = i]
                   /\ Goto(r, "delete")
                   /\ UNCHANGED <<brands, users, invitations, audit, tokens, kind, held>>

(* The row is deleted by its id, whatever has become of it; a row that is   *)
(* gone is an error.                                                        *)
DeleteExpired(r) ==
    LET i == mem[r].row IN
    /\ pc[r] = "delete" /\ Free(i)
    /\ IF ~Row(i) THEN Refuse(r)
       ELSE /\ Take(r, i) /\ Goto(r, "insert")
            /\ UNCHANGED <<brands, users, invitations, audit, tokens, kind, mem>>

(* Broken, for mutation: the index does not exist.                          *)
InsertInvitationUnindexed(r) ==
    /\ pc[r] = "insert" /\ Free(<<mem[r].brand, mem[r].email>>)
    /\ Take(r, <<mem[r].brand, mem[r].email>>) /\ Goto(r, "commitInvitation")
    /\ UNCHANGED <<brands, users, invitations, audit, tokens, kind, mem>>

(* invitations_one_pending_per_email.                                       *)
InsertInvitation(r) ==
    LET key == <<mem[r].brand, mem[r].email>>
        taken == PendingFor(mem[r].brand, mem[r].email) \ {mem[r].row} # {}
    IN
    /\ pc[r] = "insert" /\ Free(key)
    /\ IF taken THEN Refuse(r)
       ELSE /\ Take(r, key) /\ Goto(r, "commitInvitation")
            /\ UNCHANGED <<brands, users, invitations, audit, tokens, kind, mem>>

(* The token is fresh; which of the unused ones it is makes no difference. *)
CommitInvitation(r) ==
    /\ pc[r] = "commitInvitation"
    /\ \E i \in Invitations : invitations[i] = NoRow
    /\ LET new == CHOOSE i \in Invitations : invitations[i] = NoRow IN
       invitations' = [i \in Invitations |->
                         IF i = new THEN NewInvitation(mem[r].brand, mem[r].email, mem[r].role)
                         ELSE IF i = mem[r].row THEN [invitations[i] EXCEPT !.deleted = TRUE]
                         ELSE invitations[i]]
    /\ Log("INVITATION_CREATED", mem[r].email)
    /\ End(r, "answered")
    /\ UNCHANGED <<brands, users, tokens, kind>>

(* Seven days pass.                                                         *)
Expire(i) ==
    /\ Pending(i) /\ ~invitations[i].expired
    /\ invitations' = [invitations EXCEPT ![i].expired = TRUE]
    /\ UNCHANGED <<brands, users, audit, tokens, kind, pc, mem, held>>

-----------------------------------------------------------------------------
(* Acceptance *)

Valid(i) == Pending(i) /\ ~invitations[i].expired

(* getByToken, before the password is hashed.                               *)
Accept(r) ==
    /\ kind[r] = "accept" /\ pc[r] = "start"
    /\ \E i \in Invitations : Valid(i) /\ mem' = [mem EXCEPT ![r].row = i]
    /\ Goto(r, "lock")
    /\ UNCHANGED <<brands, users, invitations, audit, tokens, kind, held>>

(* Broken, for mutation: a refusal leaves the transaction open.             *)
LockInvitationLeftOpen(r) ==
    LET i == mem[r].row IN
    /\ pc[r] = "lock" /\ Free(i)
    /\ Take(r, i) /\ Goto(r, IF Valid(i) THEN "createMember" ELSE "refused")
    /\ UNCHANGED <<brands, users, invitations, audit, tokens, kind, mem>>

(* The invitation is locked and validated again.                            *)
LockInvitation(r) ==
    LET i == mem[r].row IN
    /\ pc[r] = "lock" /\ Free(i)
    /\ IF ~Valid(i) THEN Refuse(r)
       ELSE /\ Take(r, i) /\ Goto(r, "createMember")
            /\ UNCHANGED <<brands, users, invitations, audit, tokens, kind, mem>>

(* Broken, for mutation: an existing account is taken over.                 *)
CreateMemberAnyway(r) ==
    /\ pc[r] = "createMember" /\ Free(invitations[mem[r].row].email)
    /\ Take(r, invitations[mem[r].row].email) /\ Goto(r, "commitMember")
    /\ UNCHANGED <<brands, users, invitations, audit, tokens, kind, mem>>

(* An account under the e-mail is a refusal, whether the query before the   *)
(* insert sees it or the unique index does.                                 *)
CreateMember(r) ==
    LET e == invitations[mem[r].row].email IN
    /\ pc[r] = "createMember" /\ Free(e)
    /\ IF users[e] # NoUser THEN Refuse(r)
       ELSE /\ Take(r, e) /\ Goto(r, "commitMember")
            /\ UNCHANGED <<brands, users, invitations, audit, tokens, kind, mem>>

CommitMember(r) ==
    LET i == mem[r].row  invitation == invitations[i] IN
    /\ pc[r] = "commitMember"
    /\ users' = [users EXCEPT ![invitation.email] =
                   [brand |-> invitation.brand, role |-> invitation.role, disabled |-> FALSE]]
    /\ invitations' = [invitations EXCEPT ![i].accepted = TRUE]
    /\ Log("INVITATION_ACCEPTED", invitation.email)
    /\ End(r, "answered")
    /\ UNCHANGED <<brands, tokens, kind>>

-----------------------------------------------------------------------------
(* Removal of a member *)

(* Broken, for mutation: nobody is exempt.                                  *)
RemoveAnybody(r) ==
    /\ kind[r] = "remove" /\ pc[r] = "start"
    /\ \E o \in Emails, e \in Emails :
         /\ Manages(o)
         /\ users[e] # NoUser /\ users[e].brand = users[o].brand /\ ~users[e].disabled
         /\ mem' = [mem EXCEPT ![r].email = e]
    /\ Goto(r, "disable")
    /\ UNCHANGED <<brands, users, invitations, audit, tokens, kind, held>>

(* The owner picks an active member of the brand, not the owner.            *)
Remove(r) ==
    /\ kind[r] = "remove" /\ pc[r] = "start"
    /\ \E o \in Emails : \E e \in Emails \ {o} :
         /\ Manages(o)
         /\ users[e] # NoUser /\ users[e].brand = users[o].brand /\ ~users[e].disabled
         /\ users[e].role # "OWNER"
         /\ mem' = [mem EXCEPT ![r].email = e]
    /\ Goto(r, "disable")
    /\ UNCHANGED <<brands, users, invitations, audit, tokens, kind, held>>

(* Broken, for mutation: the change history is left out.                    *)
DisableUnlogged(r) ==
    /\ pc[r] = "disable"
    /\ users' = [users EXCEPT ![mem[r].email].disabled = TRUE]
    /\ End(r, "answered")
    /\ UNCHANGED <<brands, invitations, audit, tokens, kind>>

(* Two removals of one member both get here, and both leave an entry.       *)
Disable(r) ==
    /\ pc[r] = "disable"
    /\ users' = [users EXCEPT ![mem[r].email].disabled = TRUE]
    /\ Log("USER_DEACTIVATED", mem[r].email)
    /\ End(r, "answered")
    /\ UNCHANGED <<brands, invitations, tokens, kind>>

-----------------------------------------------------------------------------
(* Sign-in and suspension *)

Login(r) ==
    /\ kind[r] = "login" /\ pc[r] = "start"
    /\ \E e \in Emails : Enabled(e) /\ mem' = [mem EXCEPT ![r].email = e]
    /\ Goto(r, "issue")
    /\ UNCHANGED <<brands, users, invitations, audit, tokens, kind, held>>

(* The password has been compared; nothing is looked up again.              *)
IssueToken(r) ==
    /\ pc[r] = "issue"
    /\ tokens' = tokens \cup {mem[r].email}
    /\ End(r, "answered")
    /\ UNCHANGED <<brands, users, invitations, audit, kind>>

(* Platform staff, who belong to no brand, ask for a status, whatever it is *)
(* now.                                                                     *)
GetBrand(r) ==
    /\ kind[r] \in {"suspend", "reactivate"} /\ pc[r] = "start"
    /\ \E b \in Brands : brands[b] # "none" /\ mem' = [mem EXCEPT ![r].brand = b]
    /\ Goto(r, "setStatus")
    /\ UNCHANGED <<brands, users, invitations, audit, tokens, kind, held>>

SetBrandStatus(r) ==
    /\ pc[r] = "setStatus"
    /\ brands' = [brands EXCEPT ![mem[r].brand] = IF kind[r] = "suspend" THEN "suspended" ELSE "active"]
    /\ End(r, "answered")
    /\ UNCHANGED <<users, invitations, audit, tokens, kind>>

(* Any await may throw: the transaction rolls back.                         *)
Fail(r) == pc[r] \in Running /\ Refuse(r)

-----------------------------------------------------------------------------
Progress(r) ==
    \/ CreateBrand(r) \/ CreateOwner(r) \/ CommitBrand(r)
    \/ FindPending(r) \/ DeleteExpired(r) \/ InsertInvitation(r) \/ CommitInvitation(r)
    \/ LockInvitation(r) \/ CreateMember(r) \/ CommitMember(r)
    \/ Disable(r) \/ IssueToken(r) \/ SetBrandStatus(r)

Begin(r) == Register(r) \/ Invite(r) \/ Accept(r) \/ Remove(r) \/ Login(r) \/ GetBrand(r)

Next ==
    \/ \E r \in Requests : Begin(r) \/ Progress(r) \/ Fail(r)
    \/ \E i \in Invitations : Expire(i)

Spec == Init /\ [][Next]_vars

(* A request that has begun is served, as far as it is not kept waiting.    *)
FairSpec == Spec /\ \A r \in Requests : WF_vars(Progress(r))

-----------------------------------------------------------------------------
(* Properties *)

(* Every variable stays within its type.                                    *)
TypeOK ==
    /\ brands \in [Brands -> {"none", "active", "suspended"}]
    /\ users \in [Emails -> User \cup {NoUser}]
    /\ invitations \in [Invitations -> Invitation \cup {NoRow}]
    /\ audit \in Seq(Entry)
    /\ tokens \subseteq Emails
    /\ kind \in [Requests -> Kinds]
    /\ pc \in [Requests -> Steps]
    /\ mem \in [Requests -> [brand: Brands \cup {NoRow}, email: Emails \cup {NoRow},
                             role: Invitee \cup {NoRow}, row: Invitations \cup {NoRow}]]
    /\ held \in [Keys -> Requests \cup {Nobody}]

Registered(b) == brands[b] # "none"
Owners(b)     == {e \in Emails : users[e] # NoUser /\ users[e].brand = b /\ users[e].role = "OWNER"}

(* A registered brand has exactly one owner, who is never disabled: "the     *)
(* brand owner cannot be removed". Nobody could invite or remove otherwise.  *)
OneOwner ==
    \A b \in Brands :
        IF Registered(b) THEN \E o \in Emails : Owners(b) = {o} /\ ~users[o].disabled
                         ELSE Owners(b) = {}

(* A member's account came from exactly one accepted invitation to that      *)
(* e-mail, with its brand and role, and no invitation was accepted in vain:  *)
(* two brands may invite the same person, and links may be opened twice.     *)
MembersWereInvited ==
    \A e \in Emails :
        LET accepted == {i \in Invitations : /\ invitations[i] # NoRow /\ invitations[i].accepted
                                             /\ invitations[i].email = e}
        IN IF users[e] = NoUser \/ users[e].role = "OWNER" THEN accepted = {}
           ELSE \E i \in Invitations : /\ accepted = {i}
                                       /\ invitations[i].brand = users[e].brand
                                       /\ invitations[i].role = users[e].role

About(action, e) == {n \in DOMAIN audit : audit[n] = [action |-> action, about |-> e]}

(* The audit log tells how every account came to be, once, and whether it    *)
(* was disabled.                                                             *)
AuditTellsAccounts ==
    \A e \in Emails :
        /\ users[e] = NoUser => \A n \in DOMAIN audit :
                                  audit[n].about = e => audit[n].action = "INVITATION_CREATED"
        /\ users[e] # NoUser =>
             /\ Cardinality(About("INVITATION_ACCEPTED", e)) = IF users[e].role = "OWNER" THEN 0 ELSE 1
             /\ Cardinality(About("BRAND_REGISTERED", e)) =
                  IF users[e].role = "OWNER" /\ users[e].brand \notin DOMAIN Founder THEN 1 ELSE 0
             /\ users[e].disabled <=> About("USER_DEACTIVATED", e) # {}

(* An account never changes hands: not its brand, not its role, and a        *)
(* removed member is not let in again by an old invitation.                  *)
AccountsArePermanent ==
    [][\A e \in Emails : users[e] # NoUser =>
          users'[e] \in {users[e], [users[e] EXCEPT !.disabled = TRUE]}]_vars

(* Whatever the interleaving, rollbacks included, the tables look as if      *)
(* every operation had happened at once: no invitation is used twice or      *)
(* after its withdrawal, a brand never has two pending ones for an e-mail,   *)
(* and each change has its entry.                                            *)
ImplementsMembership == MembershipSpec

(* No request waits for ever: registrations, invitations and acceptances     *)
(* take their rows and keys in compatible orders and give them back.         *)
EveryRequestEnds == \A r \in Requests : pc[r] # "start" ~> pc[r] \in Ended
=============================================================================
