---------------------------- MODULE AccountsProofs ----------------------------
(* Proofs about Accounts, for any sets of requests, brands and people: the   *)
(* types, that accounts never change hands, that a brand has one owner, that *)
(* members were invited, that the audit log tells it, and that Accounts      *)
(* implements Membership: the tables look as if every operation happened at  *)
(* once.                                                                     *)
EXTENDS Accounts, SequenceTheorems, FiniteSetTheorems, TLAPS

BrandSteps  == {"createBrand", "createOwner", "commitBrand"}
InviteSteps == {"find", "delete", "insert", "commitInvitation"}
AcceptSteps == {"lock", "createMember", "commitMember"}

(* What a request at each step remembers, and what it may still rely on.     *)
Known(r) ==
    /\ pc[r] \in BrandSteps => mem[r].brand \in Brands /\ mem[r].email \in Emails
    /\ pc[r] \in InviteSteps =>
         mem[r].brand \in Brands /\ mem[r].email \in Emails /\ mem[r].role \in Invitee
    /\ pc[r] \in {"delete"} \cup AcceptSteps => mem[r].row \in Invitations
    /\ mem[r].row \in Invitations => invitations[mem[r].row] # NoRow
    /\ pc[r] = "disable" => /\ mem[r].email \in Emails
                            /\ users[mem[r].email] # NoUser
                            /\ users[mem[r].email].role # "OWNER"
    /\ pc[r] = "issue" => mem[r].email \in Emails
    /\ pc[r] = "setStatus" => mem[r].brand \in Brands /\ brands[mem[r].brand] # "none"

Typed == TypeOK /\ \A r \in Requests : Known(r)

(* The e-mail an acceptance is about.                                        *)
Wanted(r) == invitations[mem[r].row].email

(* Who creates a brand or an account holds its key, and finds it free until  *)
(* it commits.                                                               *)
Reserved(r) ==
    /\ pc[r] \in {"createOwner", "commitBrand"} =>
         held[mem[r].brand] = r /\ brands[mem[r].brand] = "none"
    /\ pc[r] = "commitBrand" => held[mem[r].email] = r /\ users[mem[r].email] = NoUser
    /\ pc[r] = "commitMember" => held[Wanted(r)] = r /\ users[Wanted(r)] = NoUser

Safe == Typed /\ \A r \in Requests : Reserved(r)

-----------------------------------------------------------------------------
(* A transaction that ends is typed and knows nothing more.                  *)
LEMMA EndTyped ==
    ASSUME Typed, NEW r \in Requests, NEW step \in Ended, End(r, step)
    PROVE  /\ pc' \in [Requests -> Steps]
           /\ mem' \in [Requests -> [brand: Brands \cup {NoRow}, email: Emails \cup {NoRow},
                                     role: Invitee \cup {NoRow}, row: Invitations \cup {NoRow}]]
           /\ held' \in [Keys -> Requests \cup {Nobody}]
           /\ pc'[r] = step /\ mem'[r].row = NoRow
           /\ \A s \in Requests \ {r} : pc'[s] = pc[s] /\ mem'[s] = mem[s]
           /\ \A k \in Keys : held[k] # r => held'[k] = held[k]
BY DEF Typed, TypeOK, End, Goto, Ended, Steps, NoMemory

(* A refusal changes nothing else.                                           *)
LEMMA RefuseTyped ==
    ASSUME Typed, NEW r \in Requests, Refuse(r)
    PROVE  Typed'
<1>1. End(r, "refused") /\ UNCHANGED <<brands, users, invitations, audit, tokens, kind>>
  BY DEF Refuse
<1>2. "refused" \in Ended
  BY DEF Ended
<1>3. TypeOK'
  BY <1>1, <1>2, EndTyped DEF Typed, TypeOK
<1>4. ASSUME NEW s \in Requests PROVE Known(s)'
  <2>1. CASE s = r
    BY <1>1, <1>2, <2>1, EndTyped, MembershipAssumption
       DEF Known, BrandSteps, InviteSteps, AcceptSteps
  <2>2. CASE s # r
    BY <1>1, <1>2, <2>2, EndTyped DEF Typed, Known
  <2>3. QED BY <2>1, <2>2
<1>5. QED BY <1>3, <1>4 DEF Typed

(* The initial states are safe.                                              *)
LEMMA InitSafe == Init => Safe
<1> SUFFICES ASSUME Init PROVE Safe
  OBVIOUS
<1>1. users \in [Emails -> User \cup {NoUser}]
  <2> SUFFICES ASSUME NEW e \in Emails PROVE users[e] \in User \cup {NoUser}
    BY DEF Init, MembershipInit
  <2>1. CASE \E b \in DOMAIN Founder : Founder[b] = e
    <3> DEFINE brand == CHOOSE b \in DOMAIN Founder : Founder[b] = e
    <3>1. brand \in Brands BY <2>1, MembershipAssumption
    <3> HIDE DEF brand
    <3>2. [brand |-> brand, role |-> "OWNER", disabled |-> FALSE] \in User
      BY <3>1 DEF User, Roles
    <3>3. QED BY <2>1, <3>2 DEF Init, MembershipInit, brand
  <2>2. CASE ~\E b \in DOMAIN Founder : Founder[b] = e
    BY <2>2 DEF Init, MembershipInit
  <2>3. QED BY <2>1, <2>2
<1>2. invitations \in [Invitations -> Invitation \cup {NoRow}]
  BY MembershipAssumption DEF Init, MembershipInit, NewInvitation, Invitation
<1>3. audit \in Seq(Entry)
  BY EmptySeq DEF Init, MembershipInit
<1>4. brands \in [Brands -> {"none", "active", "suspended"}]
  BY DEF Init, MembershipInit
<1>5. tokens \subseteq Emails
  BY MembershipAssumption DEF Init, MembershipInit
<1>6. mem \in [Requests -> [brand: Brands \cup {NoRow}, email: Emails \cup {NoRow},
                            role: Invitee \cup {NoRow}, row: Invitations \cup {NoRow}]]
  BY DEF Init, MembershipInit, NoMemory
<1>7. TypeOK
  BY <1>1, <1>2, <1>3, <1>4, <1>5, <1>6 DEF Init, MembershipInit, TypeOK, Steps
<1>8. \A r \in Requests : Known(r) /\ Reserved(r)
  BY MembershipAssumption
     DEF Init, MembershipInit, Known, Reserved, NoMemory, BrandSteps, InviteSteps, AcceptSteps
<1>9. QED BY <1>7, <1>8 DEF Safe, Typed

-----------------------------------------------------------------------------
(* A step that only moves on, takes a key or notes something is typed.       *)
LEMMA MoveTyped ==
    ASSUME Typed, NEW r \in Requests, NEW step \in Steps, Goto(r, step),
           UNCHANGED <<brands, users, invitations, audit, tokens, kind>>,
           \A s \in Requests \ {r} : mem'[s] = mem[s],
           mem' \in [Requests -> [brand: Brands \cup {NoRow}, email: Emails \cup {NoRow},
                                  role: Invitee \cup {NoRow}, row: Invitations \cup {NoRow}]],
           held' \in [Keys -> Requests \cup {Nobody}],
           Known(r)'
    PROVE  Typed'
<1>1. TypeOK'
  BY DEF Typed, TypeOK, Goto
<1>2. ASSUME NEW s \in Requests \ {r} PROVE Known(s)'
  BY <1>2 DEF Typed, TypeOK, Known, Goto
<1>3. QED BY <1>1, <1>2 DEF Typed

(* So is one that ends its request having changed brands, accounts or rows   *)
(* in a way that keeps what others know.                                     *)
LEMMA CommitTyped ==
    ASSUME Typed, NEW r \in Requests, End(r, "answered"), UNCHANGED kind,
           brands' \in [Brands -> {"none", "active", "suspended"}],
           users' \in [Emails -> User \cup {NoUser}],
           invitations' \in [Invitations -> Invitation \cup {NoRow}],
           audit' \in Seq(Entry),
           tokens' \subseteq Emails,
           \A b \in Brands : brands[b] # "none" => brands'[b] # "none",
           \A e \in Emails : users[e] # NoUser => /\ users'[e] # NoUser
                                                  /\ users'[e].role = users[e].role,
           \A i \in Invitations : invitations[i] # NoRow => invitations'[i] # NoRow
    PROVE  Typed'
<1>1. "answered" \in Ended
  BY DEF Ended
<1>2. TypeOK'
  BY <1>1, EndTyped DEF Typed, TypeOK
<1>3. ASSUME NEW s \in Requests PROVE Known(s)'
  <2>1. CASE s = r
    BY <1>1, <2>1, EndTyped, MembershipAssumption DEF Known, BrandSteps, InviteSteps, AcceptSteps
  <2>2. CASE s # r
    <3>1. pc'[s] = pc[s] /\ mem'[s] = mem[s]
      BY <1>1, <2>2, EndTyped
    <3>2. Known(s)
      BY DEF Typed
    <3>3. QED BY <3>1, <3>2 DEF Known, BrandSteps, InviteSteps, AcceptSteps
  <2>3. QED BY <2>1, <2>2
<1>4. QED BY <1>2, <1>3 DEF Typed

(* Every key a request names is one.                                         *)
LEMMA KeysTyped ==
    /\ Brands \subseteq Keys /\ Emails \subseteq Keys /\ Invitations \subseteq Keys
    /\ \A b \in Brands, e \in Emails : <<b, e>> \in Keys
BY DEF Keys

LEMMA TakeTyped ==
    ASSUME Typed, NEW r \in Requests, NEW k \in Keys, Take(r, k)
    PROVE  /\ held' \in [Keys -> Requests \cup {Nobody}]
           /\ held'[k] = r
           /\ \A l \in Keys \ {k} : held'[l] = held[l]
BY DEF Typed, TypeOK, Take

(* Requests that begin.                                                      *)
LEMMA BeginTyped ==
    ASSUME Typed, NEW r \in Requests, Begin(r)
    PROVE  Typed'
<1> DEFINE MemType == [brand: Brands \cup {NoRow}, email: Emails \cup {NoRow},
                       role: Invitee \cup {NoRow}, row: Invitations \cup {NoRow}]
<1>0. /\ mem \in [Requests -> MemType]
      /\ held \in [Keys -> Requests \cup {Nobody}]
      /\ pc \in [Requests -> Steps]
      /\ users \in [Emails -> User \cup {NoUser}]
      /\ mem[r].row \in Invitations => invitations[mem[r].row] # NoRow
  BY DEF Typed, TypeOK, Known
<1>1. CASE Register(r)
  <2> PICK e \in Emails, b \in Brands : mem' = [mem EXCEPT ![r].email = e, ![r].brand = b]
    BY <1>1 DEF Register
  <2>1. mem' \in [Requests -> MemType] /\ \A s \in Requests \ {r} : mem'[s] = mem[s]
    BY <1>0
  <2>2. Known(r)'
    BY <1>0, <1>1 DEF Register, Known, Goto, BrandSteps, InviteSteps, AcceptSteps
  <2>3. QED BY <1>0, <1>1, <2>1, <2>2, MoveTyped DEF Register, Steps, Running
<1>2. CASE Invite(r)
  <2> PICK o \in Emails, e \in Emails, role \in Invitee :
        /\ users[o] # NoUser
        /\ mem' = [mem EXCEPT ![r] = [brand |-> users[o].brand, email |-> e, role |-> role,
                                     row |-> NoRow]]
    BY <1>2 DEF Invite, Manages, Enabled
  <2>1. users[o].brand \in Brands BY <1>0 DEF User
  <2>2. mem' \in [Requests -> MemType] /\ \A s \in Requests \ {r} : mem'[s] = mem[s]
    BY <1>0, <2>1
  <2>3. Known(r)'
    BY <1>0, <1>2, <2>1, MembershipAssumption
       DEF Invite, Known, Goto, BrandSteps, InviteSteps, AcceptSteps
  <2>4. QED BY <1>0, <1>2, <2>2, <2>3, MoveTyped DEF Invite, Steps, Running
<1>3. CASE Accept(r)
  <2> PICK i \in Invitations : invitations[i] # NoRow /\ mem' = [mem EXCEPT ![r].row = i]
    BY <1>3 DEF Accept, Valid, Pending, Row
  <2>1. mem' \in [Requests -> MemType] /\ \A s \in Requests \ {r} : mem'[s] = mem[s]
    BY <1>0
  <2>2. Known(r)'
    BY <1>0, <1>3 DEF Accept, Known, Goto, BrandSteps, InviteSteps, AcceptSteps
  <2>3. QED BY <1>0, <1>3, <2>1, <2>2, MoveTyped DEF Accept, Steps, Running
<1>4. CASE Remove(r)
  <2> PICK e \in Emails : users[e] # NoUser /\ users[e].role # "OWNER" /\ mem' = [mem EXCEPT ![r].email = e]
    BY <1>4 DEF Remove
  <2>1. mem' \in [Requests -> MemType] /\ \A s \in Requests \ {r} : mem'[s] = mem[s]
    BY <1>0
  <2>2. Known(r)'
    BY <1>0, <1>4 DEF Remove, Known, Goto, BrandSteps, InviteSteps, AcceptSteps
  <2>3. QED BY <1>0, <1>4, <2>1, <2>2, MoveTyped DEF Remove, Steps, Running
<1>5. CASE Login(r)
  <2> PICK e \in Emails : mem' = [mem EXCEPT ![r].email = e]
    BY <1>5 DEF Login
  <2>1. mem' \in [Requests -> MemType] /\ \A s \in Requests \ {r} : mem'[s] = mem[s]
    BY <1>0
  <2>2. Known(r)'
    BY <1>0, <1>5 DEF Login, Known, Goto, BrandSteps, InviteSteps, AcceptSteps
  <2>3. QED BY <1>0, <1>5, <2>1, <2>2, MoveTyped DEF Login, Steps, Running
<1>6. CASE GetBrand(r)
  <2> PICK b \in Brands : brands[b] # "none" /\ mem' = [mem EXCEPT ![r].brand = b]
    BY <1>6 DEF GetBrand
  <2>1. mem' \in [Requests -> MemType] /\ \A s \in Requests \ {r} : mem'[s] = mem[s]
    BY <1>0
  <2>2. Known(r)'
    BY <1>0, <1>6 DEF GetBrand, Known, Goto, BrandSteps, InviteSteps, AcceptSteps
  <2>3. QED BY <1>0, <1>6, <2>1, <2>2, MoveTyped DEF GetBrand, Steps, Running
<1>7. QED BY <1>1, <1>2, <1>3, <1>4, <1>5, <1>6 DEF Begin

(* Requests that go on.                                                      *)
LEMMA ProgressTyped ==
    ASSUME Typed, NEW r \in Requests, Reserved(r), Progress(r)
    PROVE  Typed'
<1> USE DEF BrandSteps, InviteSteps, AcceptSteps
<1>0. /\ mem \in [Requests -> [brand: Brands \cup {NoRow}, email: Emails \cup {NoRow},
                               role: Invitee \cup {NoRow}, row: Invitations \cup {NoRow}]]
      /\ held \in [Keys -> Requests \cup {Nobody}]
      /\ pc \in [Requests -> Steps]
      /\ brands \in [Brands -> {"none", "active", "suspended"}]
      /\ users \in [Emails -> User \cup {NoUser}]
      /\ invitations \in [Invitations -> Invitation \cup {NoRow}]
      /\ audit \in Seq(Entry)
      /\ tokens \subseteq Emails
      /\ Known(r)
  BY DEF Typed, TypeOK
<1>1. CASE CreateBrand(r)
  <2>1. mem[r].brand \in Keys BY <1>0, <1>1, KeysTyped DEF CreateBrand, Known
  <2>2. CASE brands[mem[r].brand] # "none" BY <1>1, <2>2, RefuseTyped DEF CreateBrand
  <2>3. CASE brands[mem[r].brand] = "none"
    <3>1. Known(r)' BY <1>0, <1>1, <2>3 DEF CreateBrand, Known, Goto
    <3>2. QED BY <1>0, <1>1, <2>1, <2>3, <3>1, MoveTyped, TakeTyped DEF CreateBrand, Steps, Running
  <2>4. QED BY <2>2, <2>3
<1>2. CASE CreateOwner(r)
  <2>1. mem[r].email \in Keys BY <1>0, <1>2, KeysTyped DEF CreateOwner, Known
  <2>2. CASE users[mem[r].email] # NoUser BY <1>2, <2>2, RefuseTyped DEF CreateOwner
  <2>3. CASE users[mem[r].email] = NoUser
    <3>1. Known(r)' BY <1>0, <1>2, <2>3 DEF CreateOwner, Known, Goto
    <3>2. QED BY <1>0, <1>2, <2>1, <2>3, <3>1, MoveTyped, TakeTyped DEF CreateOwner, Steps, Running
  <2>4. QED BY <2>2, <2>3
<1>4. CASE FindPending(r)
  <2> DEFINE found == PendingFor(mem[r].brand, mem[r].email)
  <2>1. CASE found = {}
    <3>1. Known(r)' BY <1>0, <1>4, <2>1 DEF FindPending, Known, Goto
    <3>2. QED BY <1>0, <1>4, <2>1, <3>1, MoveTyped DEF FindPending, Steps, Running
  <2>2. CASE found # {}
    <3> PICK i \in found :
          IF ~invitations[i].expired THEN Refuse(r)
          ELSE /\ mem' = [mem EXCEPT ![r].row = i]
               /\ Goto(r, "delete")
               /\ UNCHANGED <<brands, users, invitations, audit, tokens, kind, held>>
      BY <1>4, <2>2 DEF FindPending
    <3>1. CASE ~invitations[i].expired BY <3>1, RefuseTyped
    <3>2. CASE invitations[i].expired
      <4>1. i \in Invitations /\ invitations[i] # NoRow BY DEF PendingFor, Pending, Row
      <4>2. /\ mem' \in [Requests -> [brand: Brands \cup {NoRow}, email: Emails \cup {NoRow},
                                     role: Invitee \cup {NoRow}, row: Invitations \cup {NoRow}]]
            /\ \A s \in Requests \ {r} : mem'[s] = mem[s]
        <5>1. mem' = [mem EXCEPT ![r].row = i] BY <3>2
        <5>2. QED BY <1>0, <4>1, <5>1
      <4>3. Known(r)' BY <1>0, <1>4, <3>2, <4>1 DEF FindPending, Known, Goto
      <4>4. QED BY <1>0, <3>2, <4>2, <4>3, MoveTyped DEF Steps, Running
    <3>3. QED BY <3>1, <3>2
  <2>3. QED BY <2>1, <2>2
<1>5. CASE DeleteExpired(r)
  <2>1. mem[r].row \in Keys BY <1>0, <1>5, KeysTyped DEF DeleteExpired, Known
  <2>2. CASE ~Row(mem[r].row) BY <1>5, <2>2, RefuseTyped DEF DeleteExpired
  <2>3. CASE Row(mem[r].row)
    <3>1. Known(r)' BY <1>0, <1>5, <2>3 DEF DeleteExpired, Known, Goto
    <3>2. QED BY <1>0, <1>5, <2>1, <2>3, <3>1, MoveTyped, TakeTyped DEF DeleteExpired, Steps, Running
  <2>4. QED BY <2>2, <2>3
<1>6. CASE InsertInvitation(r)
  <2>1. <<mem[r].brand, mem[r].email>> \in Keys
    BY <1>0, <1>6, KeysTyped DEF InsertInvitation, Known
  <2>2. CASE Refuse(r) BY <2>2, RefuseTyped
  <2>3. CASE /\ Take(r, <<mem[r].brand, mem[r].email>>) /\ Goto(r, "commitInvitation")
             /\ UNCHANGED <<brands, users, invitations, audit, tokens, kind, mem>>
    <3>1. Known(r)' BY <1>0, <1>6, <2>3 DEF InsertInvitation, Known, Goto
    <3>2. QED BY <1>0, <2>1, <2>3, <3>1, MoveTyped, TakeTyped DEF Steps, Running
  <2>4. QED BY <1>6, <2>2, <2>3 DEF InsertInvitation
<1>8. CASE LockInvitation(r)
  <2>1. mem[r].row \in Keys BY <1>0, <1>8, KeysTyped DEF LockInvitation, Known
  <2>2. CASE ~Valid(mem[r].row) BY <1>8, <2>2, RefuseTyped DEF LockInvitation
  <2>3. CASE Valid(mem[r].row)
    <3>1. Known(r)' BY <1>0, <1>8, <2>3 DEF LockInvitation, Known, Goto
    <3>2. QED BY <1>0, <1>8, <2>1, <2>3, <3>1, MoveTyped, TakeTyped DEF LockInvitation, Steps, Running
  <2>4. QED BY <2>2, <2>3
<1>9. CASE CreateMember(r)
  <2>1. Wanted(r) \in Emails BY <1>0, <1>9 DEF CreateMember, Known, Wanted, Invitation
  <2>2. CASE users[Wanted(r)] # NoUser BY <1>9, <2>2, RefuseTyped DEF CreateMember, Wanted
  <2>3. CASE users[Wanted(r)] = NoUser
    <3>1. Known(r)' BY <1>0, <1>9, <2>3 DEF CreateMember, Known, Goto, Wanted
    <3>2. QED BY <1>0, <1>9, <2>1, <2>3, <3>1, KeysTyped, MoveTyped, TakeTyped
             DEF CreateMember, Steps, Running, Wanted
  <2>4. QED BY <2>2, <2>3
<1>10. CASE CommitBrand(r)
  <2>1. mem[r].brand \in Brands /\ mem[r].email \in Emails BY <1>0, <1>10 DEF CommitBrand, Known
  <2>2. [brand |-> mem[r].brand, role |-> "OWNER", disabled |-> FALSE] \in User
    BY <2>1 DEF User, Roles
  <2>3. [action |-> "BRAND_REGISTERED", about |-> mem[r].email] \in Entry BY <2>1 DEF Entry
  <2>4. audit' \in Seq(Entry) BY <1>0, <1>10, <2>3, AppendProperties DEF CommitBrand, Log
  <2>5. users[mem[r].email] = NoUser BY <1>10 DEF CommitBrand, Reserved
  <2>6. /\ brands' \in [Brands -> {"none", "active", "suspended"}]
        /\ \A b \in Brands : brands[b] # "none" => brands'[b] # "none"
    BY <1>0, <1>10 DEF CommitBrand
  <2>7. /\ users' \in [Emails -> User \cup {NoUser}]
        /\ \A e \in Emails : users[e] # NoUser => users'[e] = users[e]
    BY <1>0, <1>10, <2>1, <2>2, <2>5 DEF CommitBrand
  <2>8. tokens' \subseteq Emails BY <1>0, <1>10, <2>1 DEF CommitBrand
  <2>9. QED BY <1>0, <1>10, <2>4, <2>6, <2>7, <2>8, CommitTyped DEF CommitBrand
<1>11. CASE CommitInvitation(r)
  <2>1. /\ mem[r].brand \in Brands /\ mem[r].email \in Emails /\ mem[r].role \in Invitee
        /\ mem[r].row \in Invitations => invitations[mem[r].row] \in Invitation
    BY <1>0, <1>11 DEF CommitInvitation, Known
  <2>2. NewInvitation(mem[r].brand, mem[r].email, mem[r].role) \in Invitation
    BY <2>1 DEF NewInvitation, Invitation
  <2>3. mem[r].row \in Invitations =>
          [invitations[mem[r].row] EXCEPT !.deleted = TRUE] \in Invitation
    BY <2>1 DEF Invitation
  <2>4. NoRow \notin Invitation BY MembershipAssumption DEF Invitation
  <2>5. /\ invitations' \in [Invitations -> Invitation \cup {NoRow}]
        /\ \A i \in Invitations : invitations[i] # NoRow => invitations'[i] # NoRow
    BY <1>0, <1>11, <2>2, <2>3, <2>4 DEF CommitInvitation
  <2>6. [action |-> "INVITATION_CREATED", about |-> mem[r].email] \in Entry BY <2>1 DEF Entry
  <2>7. audit' \in Seq(Entry) BY <1>0, <1>11, <2>6, AppendProperties DEF CommitInvitation, Log
  <2>8. QED BY <1>0, <1>11, <2>5, <2>7, CommitTyped DEF CommitInvitation
<1>12. CASE CommitMember(r)
  <2> DEFINE invitation == invitations[mem[r].row]
  <2>1. mem[r].row \in Invitations /\ invitation \in Invitation
    BY <1>0, <1>12 DEF CommitMember, Known
  <2>2. [brand |-> invitation.brand, role |-> invitation.role, disabled |-> FALSE] \in User
    BY <2>1 DEF User, Roles, Invitee, Invitation
  <2>3. invitation.email \in Emails BY <2>1 DEF Invitation
  <2>4. [action |-> "INVITATION_ACCEPTED", about |-> invitation.email] \in Entry BY <2>3 DEF Entry
  <2>5. audit' \in Seq(Entry) BY <1>0, <1>12, <2>4, AppendProperties DEF CommitMember, Log
  <2>6. [invitation EXCEPT !.accepted = TRUE] \in Invitation BY <2>1 DEF Invitation
  <2>7. users[invitation.email] = NoUser BY <1>12 DEF CommitMember, Reserved, Wanted
  <2>8. /\ users' \in [Emails -> User \cup {NoUser}]
        /\ \A e \in Emails : users[e] # NoUser => users'[e] = users[e]
    BY <1>0, <1>12, <2>2, <2>3, <2>7 DEF CommitMember
  <2>9. NoRow \notin Invitation BY MembershipAssumption DEF Invitation
  <2>10. /\ invitations' \in [Invitations -> Invitation \cup {NoRow}]
         /\ \A i \in Invitations : invitations[i] # NoRow => invitations'[i] # NoRow
    BY <1>0, <1>12, <2>1, <2>6, <2>9 DEF CommitMember
  <2>11. QED BY <1>0, <1>12, <2>5, <2>8, <2>10, CommitTyped DEF CommitMember
<1>13. CASE Disable(r)
  <2>1. /\ mem[r].email \in Emails /\ users[mem[r].email] \in User
    BY <1>0, <1>13 DEF Disable, Known
  <2>2. [users[mem[r].email] EXCEPT !.disabled = TRUE] \in User BY <2>1 DEF User
  <2>3. [users[mem[r].email] EXCEPT !.disabled = TRUE].role = users[mem[r].email].role
    BY <2>1 DEF User
  <2>4. [action |-> "USER_DEACTIVATED", about |-> mem[r].email] \in Entry BY <2>1 DEF Entry
  <2>5. audit' \in Seq(Entry) BY <1>0, <1>13, <2>4, AppendProperties DEF Disable, Log
  <2>6. NoUser \notin User BY MembershipAssumption DEF User
  <2>7. /\ users' \in [Emails -> User \cup {NoUser}]
        /\ \A e \in Emails : users[e] # NoUser => /\ users'[e] # NoUser
                                                  /\ users'[e].role = users[e].role
    BY <1>0, <1>13, <2>1, <2>2, <2>3, <2>6 DEF Disable
  <2>8. QED BY <1>0, <1>13, <2>5, <2>7, CommitTyped DEF Disable
<1>14. CASE IssueToken(r)
  BY <1>0, <1>14, CommitTyped DEF IssueToken, Known
<1>15. CASE SetBrandStatus(r)
  BY <1>0, <1>15, CommitTyped DEF SetBrandStatus, Known
<1>16. QED
  BY <1>1, <1>2, <1>4, <1>5, <1>6, <1>8, <1>9, <1>10, <1>11, <1>12, <1>13, <1>14, <1>15 DEF Progress

-----------------------------------------------------------------------------
(* What one request has reserved no other one takes: the other would have to *)
(* hold the same key.                                                        *)
LEMMA OthersKeepReserved ==
    ASSUME Safe, NEW r \in Requests,
           \A s \in Requests \ {r} : pc'[s] = pc[s] /\ mem'[s] = mem[s],
           \A k \in Keys : held[k] \notin {r, Nobody} => held'[k] = held[k],
           \A b \in Brands : brands[b] = "none" /\ held[b] # r => brands'[b] = "none",
           \A e \in Emails : users[e] = NoUser /\ held[e] # r => users'[e] = NoUser,
           \A i \in Invitations : invitations[i] # NoRow => invitations'[i].email = invitations[i].email
    PROVE  \A s \in Requests \ {r} : Reserved(s)'
<1> SUFFICES ASSUME NEW s \in Requests \ {r} PROVE Reserved(s)'
  OBVIOUS
<1>1. Known(s) /\ Reserved(s) /\ s # Nobody
  BY AccountsAssumption DEF Safe, Typed
<1>2. pc[s] \in BrandSteps => mem[s].brand \in Keys /\ mem[s].email \in Keys
  BY <1>1, KeysTyped DEF Known
<1>3. pc[s] = "commitMember" =>
        /\ mem[s].row \in Invitations /\ invitations[mem[s].row] # NoRow
        /\ Wanted(s) \in Emails /\ Wanted(s) \in Keys
  BY <1>1, KeysTyped DEF Known, AcceptSteps, Wanted, Safe, Typed, TypeOK, Invitation
<1>4. QED
  BY <1>1, <1>2, <1>3 DEF Reserved, Known, Wanted, BrandSteps

(* The end of a request, whatever it committed.                              *)
LEMMA EndReserved ==
    ASSUME Safe, NEW r \in Requests, NEW step \in Ended, End(r, step),
           \A b \in Brands : brands[b] = "none" /\ held[b] # r => brands'[b] = "none",
           \A e \in Emails : users[e] = NoUser /\ held[e] # r => users'[e] = NoUser,
           \A i \in Invitations : invitations[i] # NoRow => invitations'[i].email = invitations[i].email
    PROVE  \A s \in Requests : Reserved(s)'
<1>1. \A s \in Requests \ {r} : Reserved(s)'
  BY EndTyped, OthersKeepReserved DEF Safe
<1>2. Reserved(r)'
  BY EndTyped DEF Safe, Reserved, Ended
<1>3. QED BY <1>1, <1>2

LEMMA RefuseReserved ==
    ASSUME Safe, NEW r \in Requests, Refuse(r)
    PROVE  \A s \in Requests : Reserved(s)'
BY EndReserved DEF Refuse, Ended

(* A step that takes a free key, or none, and changes no row.                *)
LEMMA TakeReserved ==
    ASSUME Safe, NEW r \in Requests, NEW k \in Keys, Free(k), Take(r, k),
           NEW step \in Steps, Goto(r, step), Reserved(r)',
           UNCHANGED <<brands, users, invitations, mem>>
    PROVE  \A s \in Requests : Reserved(s)'
<1>1. \A s \in Requests \ {r} : pc'[s] = pc[s] /\ mem'[s] = mem[s]
  BY DEF Goto, Safe, Typed, TypeOK
<1>2. \A l \in Keys : held[l] \notin {r, Nobody} => held'[l] = held[l]
  BY TakeTyped DEF Free, Safe
<1>3. \A s \in Requests \ {r} : Reserved(s)'
  BY <1>1, <1>2, OthersKeepReserved
<1>4. QED BY <1>3

LEMMA MoveReserved ==
    ASSUME Safe, NEW r \in Requests,
           \A s \in Requests \ {r} : pc'[s] = pc[s] /\ mem'[s] = mem[s],
           pc'[r] \notin {"createOwner", "commitBrand", "commitMember"},
           UNCHANGED <<brands, users, invitations, held>>
    PROVE  \A s \in Requests : Reserved(s)'
<1>1. \A s \in Requests \ {r} : Reserved(s)'
  BY OthersKeepReserved
<1>2. Reserved(r)'
  BY DEF Reserved
<1>3. QED BY <1>1, <1>2

-----------------------------------------------------------------------------
(* Every step keeps what is reserved reserved.                               *)
LEMMA BeginReserved ==
    ASSUME Safe, NEW r \in Requests, Begin(r)
    PROVE  \A s \in Requests : Reserved(s)'
<1>1. pc \in [Requests -> Steps] /\ mem \in [Requests -> [brand: Brands \cup {NoRow},
         email: Emails \cup {NoRow}, role: Invitee \cup {NoRow}, row: Invitations \cup {NoRow}]]
  BY DEF Safe, Typed, TypeOK
<1>2. /\ \A s \in Requests \ {r} : pc'[s] = pc[s] /\ mem'[s] = mem[s]
      /\ pc'[r] \in {"createBrand", "find", "lock", "disable", "issue", "setStatus"}
      /\ UNCHANGED <<brands, users, invitations, held>>
  BY <1>1 DEF Begin, Register, Invite, Accept, Remove, Login, GetBrand, Goto
<1>3. QED BY <1>2, MoveReserved

LEMMA ProgressReserved ==
    ASSUME Safe, NEW r \in Requests, Progress(r)
    PROVE  \A s \in Requests : Reserved(s)'
<1>0. /\ mem \in [Requests -> [brand: Brands \cup {NoRow}, email: Emails \cup {NoRow},
                               role: Invitee \cup {NoRow}, row: Invitations \cup {NoRow}]]
      /\ held \in [Keys -> Requests \cup {Nobody}]
      /\ pc \in [Requests -> Steps]
      /\ brands \in [Brands -> {"none", "active", "suspended"}]
      /\ users \in [Emails -> User \cup {NoUser}]
      /\ invitations \in [Invitations -> Invitation \cup {NoRow}]
      /\ Known(r) /\ Reserved(r) /\ Typed
  BY DEF Safe, Typed, TypeOK
<1>1. CASE CreateBrand(r)
  <2> DEFINE k == mem[r].brand
  <2>1. k \in Keys
    BY <1>0, <1>1, KeysTyped DEF CreateBrand, Known, BrandSteps, InviteSteps, AcceptSteps, Invitation
  <2>2. CASE Refuse(r) BY <2>2, RefuseReserved
  <2>3. CASE ~Refuse(r)
    <3>1. /\ Free(k) /\ Take(r, k) /\ UNCHANGED <<brands, users, invitations, mem>>
          /\ \E step \in Steps : Goto(r, step)
      BY <1>1, <2>3 DEF CreateBrand, Steps, Running
    <3>2. Reserved(r)'
      BY <1>0, <1>1, <2>1, <2>3, <3>1, TakeTyped
         DEF CreateBrand, Reserved, Wanted, Goto
    <3>3. QED BY <2>1, <3>1, <3>2, TakeReserved
  <2>4. QED BY <2>2, <2>3
<1>2. CASE CreateOwner(r)
  <2> DEFINE k == mem[r].email
  <2>1. k \in Keys
    BY <1>0, <1>2, KeysTyped DEF CreateOwner, Known, BrandSteps, InviteSteps, AcceptSteps, Invitation
  <2>2. CASE Refuse(r) BY <2>2, RefuseReserved
  <2>3. CASE ~Refuse(r)
    <3>1. /\ Free(k) /\ Take(r, k) /\ UNCHANGED <<brands, users, invitations, mem>>
          /\ \E step \in Steps : Goto(r, step)
      BY <1>2, <2>3 DEF CreateOwner, Steps, Running
    <3>2. held[mem[r].brand] = r /\ mem[r].brand \in Keys \ {k} /\ brands[mem[r].brand] = "none"
      BY <1>0, <1>2, <3>1, KeysTyped, AccountsAssumption, MembershipAssumption
         DEF CreateOwner, Reserved, Known, BrandSteps, Free
    <3>3. users[k] = NoUser /\ pc'[r] = "commitBrand"
      BY <1>0, <1>2, <2>3 DEF CreateOwner, Goto
    <3>4. Reserved(r)'
      BY <1>0, <2>1, <3>1, <3>2, <3>3, TakeTyped DEF Reserved
    <3>5. QED BY <2>1, <3>1, <3>4, TakeReserved
  <2>4. QED BY <2>2, <2>3
<1>3. CASE CommitBrand(r)
  <2>1. /\ held[mem[r].brand] = r /\ held[mem[r].email] = r
        /\ mem[r].brand \in Brands /\ mem[r].email \in Emails
    BY <1>0, <1>3 DEF CommitBrand, Reserved, Known, BrandSteps
  <2>2. \A b \in Brands : brands[b] = "none" /\ held[b] # r => brands'[b] = "none"
    BY <1>0, <1>3, <2>1 DEF CommitBrand
  <2>3. \A e \in Emails : users[e] = NoUser /\ held[e] # r => users'[e] = NoUser
    BY <1>0, <1>3, <2>1 DEF CommitBrand
  <2>4. QED BY <1>3, <2>2, <2>3, EndReserved DEF CommitBrand, Ended
<1>4. CASE FindPending(r)
  <2>1. CASE Refuse(r) BY <2>1, RefuseReserved
  <2>2. CASE ~Refuse(r)
    <3>1. /\ \A s \in Requests \ {r} : pc'[s] = pc[s] /\ mem'[s] = mem[s]
          /\ pc'[r] \in {"insert", "delete"}
          /\ UNCHANGED <<brands, users, invitations, held>>
      BY <1>0, <1>4, <2>2 DEF FindPending, Goto
    <3>2. QED BY <3>1, MoveReserved
  <2>3. QED BY <2>1, <2>2
<1>5. CASE DeleteExpired(r)
  <2> DEFINE k == mem[r].row
  <2>1. k \in Keys
    BY <1>0, <1>5, KeysTyped DEF DeleteExpired, Known, BrandSteps, InviteSteps, AcceptSteps, Invitation
  <2>2. CASE Refuse(r) BY <2>2, RefuseReserved
  <2>3. CASE ~Refuse(r)
    <3>1. /\ Free(k) /\ Take(r, k) /\ UNCHANGED <<brands, users, invitations, mem>>
          /\ \E step \in Steps : Goto(r, step)
      BY <1>5, <2>3 DEF DeleteExpired, Steps, Running
    <3>2. Reserved(r)'
      BY <1>0, <1>5, <2>1, <2>3, <3>1, TakeTyped
         DEF DeleteExpired, Reserved, Wanted, Goto
    <3>3. QED BY <2>1, <3>1, <3>2, TakeReserved
  <2>4. QED BY <2>2, <2>3
<1>6. CASE InsertInvitation(r)
  <2> DEFINE k == <<mem[r].brand, mem[r].email>>
  <2>1. k \in Keys
    BY <1>0, <1>6, KeysTyped DEF InsertInvitation, Known, BrandSteps, InviteSteps, AcceptSteps, Invitation
  <2>2. CASE Refuse(r) BY <2>2, RefuseReserved
  <2>3. CASE ~Refuse(r)
    <3>1. /\ Free(k) /\ Take(r, k) /\ UNCHANGED <<brands, users, invitations, mem>>
          /\ \E step \in Steps : Goto(r, step)
      BY <1>6, <2>3 DEF InsertInvitation, Steps, Running
    <3>2. Reserved(r)'
      BY <1>0, <1>6, <2>1, <2>3, <3>1, TakeTyped
         DEF InsertInvitation, Reserved, Wanted, Goto
    <3>3. QED BY <2>1, <3>1, <3>2, TakeReserved
  <2>4. QED BY <2>2, <2>3
<1>7. CASE CommitInvitation(r)
  <2>1. mem[r].row \in Invitations => invitations[mem[r].row] \in Invitation
    BY <1>0 DEF Known
  <2>2. \A i \in Invitations : invitations[i] # NoRow => invitations'[i].email = invitations[i].email
    BY <1>0, <1>7, <2>1 DEF CommitInvitation, Invitation
  <2>3. QED BY <1>7, <2>2, EndReserved DEF CommitInvitation, Ended
<1>8. CASE LockInvitation(r)
  <2> DEFINE k == mem[r].row
  <2>1. k \in Keys
    BY <1>0, <1>8, KeysTyped DEF LockInvitation, Known, BrandSteps, InviteSteps, AcceptSteps, Invitation
  <2>2. CASE Refuse(r) BY <2>2, RefuseReserved
  <2>3. CASE ~Refuse(r)
    <3>1. /\ Free(k) /\ Take(r, k) /\ UNCHANGED <<brands, users, invitations, mem>>
          /\ \E step \in Steps : Goto(r, step)
      BY <1>8, <2>3 DEF LockInvitation, Steps, Running
    <3>2. Reserved(r)'
      BY <1>0, <1>8, <2>1, <2>3, <3>1, TakeTyped
         DEF LockInvitation, Reserved, Wanted, Goto
    <3>3. QED BY <2>1, <3>1, <3>2, TakeReserved
  <2>4. QED BY <2>2, <2>3
<1>9. CASE CreateMember(r)
  <2> DEFINE k == Wanted(r)
  <2>1. k \in Keys
    BY <1>0, <1>9, KeysTyped DEF CreateMember, Wanted, Known, BrandSteps, InviteSteps, AcceptSteps, Invitation
  <2>2. CASE Refuse(r) BY <2>2, RefuseReserved
  <2>3. CASE ~Refuse(r)
    <3>1. /\ Free(k) /\ Take(r, k) /\ UNCHANGED <<brands, users, invitations, mem>>
          /\ \E step \in Steps : Goto(r, step)
      BY <1>9, <2>3 DEF CreateMember, Wanted, Steps, Running
    <3>2. Reserved(r)'
      BY <1>0, <1>9, <2>1, <2>3, <3>1, TakeTyped
         DEF CreateMember, Reserved, Wanted, Goto
    <3>3. QED BY <2>1, <3>1, <3>2, TakeReserved
  <2>4. QED BY <2>2, <2>3
<1>10. CASE CommitMember(r)
  <2>1. /\ held[Wanted(r)] = r
        /\ mem[r].row \in Invitations /\ invitations[mem[r].row] \in Invitation
    BY <1>0, <1>10 DEF CommitMember, Reserved, Known, AcceptSteps
  <2>2. \A e \in Emails : users[e] = NoUser /\ held[e] # r => users'[e] = NoUser
    BY <1>0, <1>10, <2>1 DEF CommitMember, Wanted
  <2>3. \A i \in Invitations : invitations[i] # NoRow => invitations'[i].email = invitations[i].email
    BY <1>0, <1>10, <2>1 DEF CommitMember, Invitation
  <2>4. QED BY <1>10, <2>2, <2>3, EndReserved DEF CommitMember, Ended
<1>11. CASE Disable(r)
  <2>1. mem[r].email \in Emails /\ users[mem[r].email] # NoUser
    BY <1>0, <1>11 DEF Disable, Known
  <2>2. \A e \in Emails : users[e] = NoUser => users'[e] = NoUser
    BY <1>0, <1>11, <2>1 DEF Disable
  <2>3. QED BY <1>11, <2>2, EndReserved DEF Disable, Ended
<1>12. CASE IssueToken(r)
  BY <1>12, EndReserved DEF IssueToken, Ended
<1>13. CASE SetBrandStatus(r)
  <2>1. mem[r].brand \in Brands /\ brands[mem[r].brand] # "none"
    BY <1>0, <1>13 DEF SetBrandStatus, Known
  <2>2. \A b \in Brands : brands[b] = "none" => brands'[b] = "none"
    BY <1>0, <1>13, <2>1 DEF SetBrandStatus
  <2>3. QED BY <1>13, <2>2, EndReserved DEF SetBrandStatus, Ended
<1>14. QED
  BY <1>1, <1>2, <1>3, <1>4, <1>5, <1>6, <1>7, <1>8, <1>9, <1>10, <1>11, <1>12, <1>13 DEF Progress

(* Every step is safe.                                                       *)
LEMMA NextSafe == Safe /\ [Next]_vars => Safe'
<1> SUFFICES ASSUME Safe, [Next]_vars PROVE Safe'
  OBVIOUS
<1>1. CASE UNCHANGED vars
  BY <1>1 DEF vars, Safe, Typed, TypeOK, Known, Reserved, Wanted
<1>2. ASSUME NEW r \in Requests, Begin(r) PROVE Safe'
  BY <1>2, BeginTyped, BeginReserved DEF Safe
<1>3. ASSUME NEW r \in Requests, Progress(r) PROVE Safe'
  BY <1>3, ProgressTyped, ProgressReserved DEF Safe
<1>4. ASSUME NEW r \in Requests, Fail(r) PROVE Safe'
  BY <1>4, RefuseTyped, RefuseReserved DEF Fail, Safe
<1>5. ASSUME NEW i \in Invitations, Expire(i) PROVE Safe'
  <2>1. invitations[i] \in Invitation
    BY <1>5 DEF Expire, Pending, Row, Safe, Typed, TypeOK
  <2>2. [invitations[i] EXCEPT !.expired = TRUE] \in Invitation BY <2>1 DEF Invitation
  <2>3. TypeOK' BY <1>5, <2>2 DEF Expire, Safe, Typed, TypeOK
  <2>4. NoRow \notin Invitation BY MembershipAssumption DEF Invitation
  <2>5. \A j \in Invitations : invitations[j] # NoRow =>
          invitations'[j] # NoRow /\ invitations'[j].email = invitations[j].email
    BY <1>5, <2>1, <2>2, <2>4 DEF Expire, Safe, Typed, TypeOK, Invitation
  <2>6. ASSUME NEW r \in Requests PROVE Known(r)' /\ Reserved(r)'
    BY <1>5, <2>5 DEF Expire, Safe, Typed, Known, Reserved, Wanted, AcceptSteps
  <2>7. QED BY <2>3, <2>6 DEF Safe, Typed
<1>6. QED BY <1>1, <1>2, <1>3, <1>4, <1>5 DEF Next

LEMMA AlwaysSafe == Spec => []Safe
BY InitSafe, NextSafe, PTL DEF Spec

(* Every variable stays within its type.                                     *)
THEOREM TypeCorrect == Spec => []TypeOK
<1>1. Safe => TypeOK BY DEF Safe, Typed
<1>2. QED BY <1>1, AlwaysSafe, PTL

-----------------------------------------------------------------------------
(* How a step may change accounts: one that is new, or one more disabled,    *)
(* never an owner's.                                                         *)
UsersStep ==
    \/ UNCHANGED <<brands, users>>
    \/ \E b \in Brands, e \in Emails :
         /\ brands[b] = "none" /\ users[e] = NoUser
         /\ brands' = [brands EXCEPT ![b] = "active"]
         /\ users' = [users EXCEPT ![e] = [brand |-> b, role |-> "OWNER", disabled |-> FALSE]]
    \/ \E b \in Brands, role \in Invitee, e \in Emails :
         /\ users[e] = NoUser
         /\ users' = [users EXCEPT ![e] = [brand |-> b, role |-> role, disabled |-> FALSE]]
         /\ UNCHANGED brands
    \/ \E e \in Emails :
         /\ users[e] # NoUser /\ users[e].role # "OWNER"
         /\ users' = [users EXCEPT ![e].disabled = TRUE]
         /\ UNCHANGED brands
    \/ \E b \in Brands, status \in {"active", "suspended"} :
         /\ brands[b] # "none"
         /\ brands' = [brands EXCEPT ![b] = status]
         /\ UNCHANGED users

LEMMA NextUsers == Safe /\ [Next]_vars => UsersStep
<1> SUFFICES ASSUME Safe, [Next]_vars PROVE UsersStep
  OBVIOUS
<1>1. CASE UNCHANGED vars
  BY <1>1 DEF vars, UsersStep
<1>2. ASSUME NEW r \in Requests, Begin(r) PROVE UsersStep
  BY <1>2 DEF Begin, Register, Invite, Accept, Remove, Login, GetBrand, UsersStep
<1>3. ASSUME NEW r \in Requests, Progress(r) PROVE UsersStep
  <2>0. Known(r) /\ Reserved(r) /\ TypeOK
    BY DEF Safe, Typed
  <2>1. CASE CommitBrand(r)
    BY <2>0, <2>1 DEF CommitBrand, Known, Reserved, BrandSteps, UsersStep
  <2>2. CASE CommitMember(r)
    <3>1. mem[r].row \in Invitations /\ invitations[mem[r].row] \in Invitation
      BY <2>0, <2>2 DEF CommitMember, Known, AcceptSteps, TypeOK
    <3>2. users[Wanted(r)] = NoUser
      BY <2>0, <2>2 DEF CommitMember, Reserved
    <3>3. QED BY <2>2, <3>1, <3>2 DEF CommitMember, Wanted, Invitation, UsersStep
  <2>3. CASE Disable(r)
    BY <2>0, <2>3 DEF Disable, Known, UsersStep
  <2>4. CASE SetBrandStatus(r)
    BY <2>0, <2>4 DEF SetBrandStatus, Known, UsersStep
  <2>5. CASE UNCHANGED <<brands, users>>
    BY <2>5 DEF UsersStep
  <2>6. QED
    BY <1>3, <2>1, <2>2, <2>3, <2>4, <2>5
       DEF Progress, CreateBrand, CreateOwner, FindPending, DeleteExpired, InsertInvitation,
           CommitInvitation, LockInvitation, CreateMember, IssueToken, Refuse
<1>4. ASSUME NEW r \in Requests, Fail(r) PROVE UsersStep
  BY <1>4 DEF Fail, Refuse, UsersStep
<1>5. ASSUME NEW i \in Invitations, Expire(i) PROVE UsersStep
  BY <1>5 DEF Expire, UsersStep
<1>6. QED BY <1>1, <1>2, <1>3, <1>4, <1>5 DEF Next

(* An account never changes hands: not its brand, not its role, and a        *)
(* removed member is not let in again.                                       *)
THEOREM AccountsArePermanentAlways == Spec => AccountsArePermanent
<1>1. Safe /\ UsersStep => \A e \in Emails : users[e] # NoUser =>
                            users'[e] \in {users[e], [users[e] EXCEPT !.disabled = TRUE]}
  BY DEF Safe, Typed, TypeOK, UsersStep
<1>2. QED BY <1>1, AlwaysSafe, NextUsers, PTL DEF Spec, AccountsArePermanent

-----------------------------------------------------------------------------
(* A registered brand has exactly one owner, who is never disabled.          *)
THEOREM OneOwnerAlways == Spec => []OneOwner
<1>1. Init => OneOwner
  <2> SUFFICES ASSUME Init, NEW b \in Brands
               PROVE IF Registered(b) THEN \E o \in Emails : Owners(b) = {o} /\ ~users[o].disabled
                                      ELSE Owners(b) = {}
    BY DEF OneOwner
  <2>1. ASSUME NEW e \in Emails, users[e] # NoUser
        PROVE  \E c \in DOMAIN Founder :
                 Founder[c] = e /\ users[e] = [brand |-> c, role |-> "OWNER", disabled |-> FALSE]
    <3> DEFINE c == CHOOSE d \in DOMAIN Founder : Founder[d] = e
    <3>1. (\E d \in DOMAIN Founder : Founder[d] = e) /\ users[e] = [brand |-> c, role |-> "OWNER", disabled |-> FALSE]
      BY <2>1 DEF Init, MembershipInit
    <3>2. c \in DOMAIN Founder /\ Founder[c] = e BY <3>1
    <3>3. QED BY <3>1, <3>2
  <2>2. CASE b \in DOMAIN Founder
    <3>1. Founder[b] \in Emails BY <2>2, MembershipAssumption
    <3>2. users[Founder[b]] # NoUser
      <4>1. users[Founder[b]] = [brand |-> CHOOSE d \in DOMAIN Founder : Founder[d] = Founder[b],
                                 role |-> "OWNER", disabled |-> FALSE]
        BY <2>2, <3>1 DEF Init, MembershipInit
      <4>2. (CHOOSE d \in DOMAIN Founder : Founder[d] = Founder[b]) \in Brands
        BY <2>2, MembershipAssumption
      <4>3. users[Founder[b]] \in [brand: Brands, role: {"OWNER", "MANAGER", "EDITOR"}, disabled: BOOLEAN]
        BY <4>1, <4>2
      <4>4. NoUser \notin [brand: Brands, role: {"OWNER", "MANAGER", "EDITOR"}, disabled: BOOLEAN]
        BY MembershipAssumption DEF Roles
      <4>5. QED BY <4>3, <4>4
    <3>3. users[Founder[b]] = [brand |-> b, role |-> "OWNER", disabled |-> FALSE]
      <4>1. PICK c \in DOMAIN Founder :
                 /\ Founder[c] = Founder[b]
                 /\ users[Founder[b]] = [brand |-> c, role |-> "OWNER", disabled |-> FALSE]
        BY <2>1, <3>1, <3>2
      <4>2. c = b BY <2>2, <4>1, MembershipAssumption
      <4>3. QED BY <4>1, <4>2
    <3>4. ASSUME NEW e \in Owners(b) PROVE e = Founder[b]
      <4>1. e \in Emails /\ users[e] # NoUser /\ users[e].brand = b BY <3>4 DEF Owners
      <4>2. PICK c \in DOMAIN Founder :
                 Founder[c] = e /\ users[e] = [brand |-> c, role |-> "OWNER", disabled |-> FALSE]
        BY <2>1, <4>1
      <4>3. c = b BY <4>1, <4>2
      <4>4. QED BY <4>2, <4>3
    <3>5. QED BY <2>2, <3>1, <3>2, <3>3, <3>4 DEF Init, MembershipInit, Registered, Owners
  <2>3. CASE b \notin DOMAIN Founder
    BY <2>1, <2>3 DEF Init, MembershipInit, Registered, Owners
  <2>4. QED BY <2>2, <2>3
<1>2. Safe /\ UsersStep /\ OneOwner => OneOwner'
  <2> SUFFICES ASSUME Safe, UsersStep, OneOwner, NEW b \in Brands
               PROVE (IF Registered(b) THEN \E o \in Emails : Owners(b) = {o} /\ ~users[o].disabled
                                       ELSE Owners(b) = {})'
    BY DEF OneOwner
  <2>0. /\ users \in [Emails -> User \cup {NoUser}] /\ NoUser \notin User
        /\ brands \in [Brands -> {"none", "active", "suspended"}]
        /\ IF Registered(b) THEN \E o \in Emails : Owners(b) = {o} /\ ~users[o].disabled
                            ELSE Owners(b) = {}
    BY MembershipAssumption DEF Safe, Typed, TypeOK, OneOwner, User
  <2>1. CASE UNCHANGED <<brands, users>>
    BY <2>0, <2>1 DEF Registered, Owners
  <2>2. ASSUME NEW c \in Brands, NEW e \in Emails,
               brands[c] = "none", users[e] = NoUser, brands' = [brands EXCEPT ![c] = "active"],
               users' = [users EXCEPT ![e] = [brand |-> c, role |-> "OWNER", disabled |-> FALSE]]
        PROVE (IF Registered(b) THEN \E o \in Emails : Owners(b) = {o} /\ ~users[o].disabled
                                ELSE Owners(b) = {})'
    <3>0. users'[e] # NoUser /\ users'[e].brand = c /\ users'[e].role = "OWNER" /\ ~users'[e].disabled
      <4>1. [brand |-> c, role |-> "OWNER", disabled |-> FALSE] \in User BY DEF User, Roles
      <4>2. QED BY <2>0, <2>2, <4>1
    <3>1. CASE b = c
      <4>1. Owners(b) = {} BY <2>0, <2>2, <3>1 DEF Registered
      <4>2. Owners(b)' = {e} BY <2>0, <2>2, <3>0, <3>1, <4>1 DEF Owners
      <4>3. QED BY <2>0, <2>2, <3>0, <3>1, <4>2 DEF Registered
    <3>2. CASE b # c
      <4>1. Owners(b)' = Owners(b) BY <2>0, <2>2, <3>0, <3>2 DEF Owners
      <4>2. QED BY <2>0, <2>2, <3>2, <4>1 DEF Registered, Owners
    <3>3. QED BY <3>1, <3>2
  <2>3. ASSUME NEW c \in Brands, NEW role \in Invitee, NEW e \in Emails, users[e] = NoUser,
               users' = [users EXCEPT ![e] = [brand |-> c, role |-> role, disabled |-> FALSE]],
               UNCHANGED brands
        PROVE (IF Registered(b) THEN \E o \in Emails : Owners(b) = {o} /\ ~users[o].disabled
                                ELSE Owners(b) = {})'
    <3>1. users'[e].role # "OWNER" BY <2>0, <2>3 DEF Invitee
    <3>2. Owners(b)' = Owners(b) BY <2>0, <2>3, <3>1 DEF Owners
    <3>3. QED BY <2>0, <2>3, <3>2 DEF Registered, Owners
  <2>4. ASSUME NEW e \in Emails, users[e] # NoUser, users[e].role # "OWNER",
               users' = [users EXCEPT ![e].disabled = TRUE], UNCHANGED brands
        PROVE (IF Registered(b) THEN \E o \in Emails : Owners(b) = {o} /\ ~users[o].disabled
                                ELSE Owners(b) = {})'
    <3>1. users'[e].role # "OWNER" BY <2>0, <2>4 DEF User
    <3>2. Owners(b)' = Owners(b) BY <2>0, <2>4, <3>1 DEF Owners
    <3>3. QED BY <2>0, <2>4, <3>2 DEF Registered, Owners
  <2>5. ASSUME NEW c \in Brands, NEW status \in {"active", "suspended"}, brands[c] # "none",
               brands' = [brands EXCEPT ![c] = status], UNCHANGED users
        PROVE (IF Registered(b) THEN \E o \in Emails : Owners(b) = {o} /\ ~users[o].disabled
                                ELSE Owners(b) = {})'
    BY <2>0, <2>5 DEF Registered, Owners
  <2>6. QED BY <2>1, <2>2, <2>3, <2>4, <2>5 DEF UsersStep
<1>3. QED BY <1>1, <1>2, AlwaysSafe, NextUsers, PTL DEF Spec
-----------------------------------------------------------------------------
(* How a step may change accounts, invitations and the audit log together:   *)
(* it leaves accounts alone and accepts nothing, or a brand is founded, an   *)
(* invitation accepted, a member disabled, each with its own entry.          *)
AcceptedKept ==
    \A i \in Invitations :
        IF invitations[i] = NoRow THEN invitations'[i] = NoRow \/ ~invitations'[i].accepted
        ELSE /\ invitations'[i] # NoRow
             /\ invitations'[i].accepted = invitations[i].accepted
             /\ invitations'[i].email = invitations[i].email
             /\ invitations'[i].brand = invitations[i].brand
             /\ invitations'[i].role = invitations[i].role

NothingNew ==
    /\ UNCHANGED users
    /\ AcceptedKept
    /\ audit' = audit \/ \E e \in Emails : Log("INVITATION_CREATED", e)

Founded(b, e) ==
    /\ brands[b] = "none" /\ users[e] = NoUser
    /\ users' = [users EXCEPT ![e] = [brand |-> b, role |-> "OWNER", disabled |-> FALSE]]
    /\ AcceptedKept
    /\ Log("BRAND_REGISTERED", e)

Joined(i) ==
    /\ invitations[i] # NoRow /\ users[invitations[i].email] = NoUser
    /\ users' = [users EXCEPT ![invitations[i].email] =
                   [brand |-> invitations[i].brand, role |-> invitations[i].role, disabled |-> FALSE]]
    /\ invitations' = [invitations EXCEPT ![i].accepted = TRUE]
    /\ Log("INVITATION_ACCEPTED", invitations[i].email)

Disabled(e) ==
    /\ users[e] # NoUser /\ users[e].role # "OWNER"
    /\ users' = [users EXCEPT ![e].disabled = TRUE]
    /\ AcceptedKept
    /\ Log("USER_DEACTIVATED", e)

AccountsStep ==
    \/ NothingNew
    \/ \E b \in Brands, e \in Emails : Founded(b, e)
    \/ \E i \in Invitations : Joined(i)
    \/ \E e \in Emails : Disabled(e)

LEMMA NextAccounts == Safe /\ [Next]_vars => AccountsStep
<1> SUFFICES ASSUME Safe, [Next]_vars PROVE AccountsStep
  OBVIOUS
<1>0. /\ invitations \in [Invitations -> Invitation \cup {NoRow}]
      /\ NoRow \notin Invitation
      /\ UNCHANGED invitations => AcceptedKept
  BY MembershipAssumption DEF Safe, Typed, TypeOK, Invitation, AcceptedKept
<1>1. CASE UNCHANGED <<users, invitations, audit>>
  BY <1>0, <1>1 DEF AccountsStep, NothingNew
<1>2. ASSUME NEW r \in Requests, Progress(r) PROVE AccountsStep
  <2>0. Known(r) /\ Reserved(r) /\ TypeOK
    BY DEF Safe, Typed
  <2>1. CASE CommitBrand(r)
    <3>1. mem[r].brand \in Brands /\ mem[r].email \in Emails
      BY <2>0, <2>1 DEF CommitBrand, Known, BrandSteps
    <3>2. Founded(mem[r].brand, mem[r].email)
      BY <1>0, <2>0, <2>1 DEF CommitBrand, Reserved, Founded
    <3>3. QED BY <3>1, <3>2 DEF AccountsStep
  <2>2. CASE CommitMember(r)
    <3>1. mem[r].row \in Invitations /\ invitations[mem[r].row] # NoRow
      BY <2>0, <2>2 DEF CommitMember, Known, AcceptSteps
    <3>2. users[Wanted(r)] = NoUser
      BY <2>0, <2>2 DEF CommitMember, Reserved
    <3>3. Joined(mem[r].row)
      BY <2>2, <3>1, <3>2 DEF CommitMember, Wanted, Joined
    <3>4. QED BY <3>1, <3>3 DEF AccountsStep
  <2>3. CASE Disable(r)
    <3>1. /\ mem[r].email \in Emails
          /\ Disabled(mem[r].email)
      BY <1>0, <2>0, <2>3 DEF Disable, Known, Disabled
    <3>2. QED BY <3>1 DEF AccountsStep
  <2>4. CASE CommitInvitation(r)
    <3> DEFINE new == CHOOSE i \in Invitations : invitations[i] = NoRow
    <3>1. new \in Invitations /\ invitations[new] = NoRow
      BY <2>4 DEF CommitInvitation
    <3>2. invitations' = [i \in Invitations |->
                            IF i = new THEN NewInvitation(mem[r].brand, mem[r].email, mem[r].role)
                            ELSE IF i = mem[r].row THEN [invitations[i] EXCEPT !.deleted = TRUE]
                            ELSE invitations[i]]
      BY <2>4 DEF CommitInvitation
    <3> HIDE DEF new
    <3>3. /\ mem[r].email \in Emails
          /\ mem[r].row \in Invitations => invitations[mem[r].row] \in Invitation
      BY <1>0, <2>0, <2>4 DEF CommitInvitation, Known, InviteSteps
    <3>4. ASSUME NEW i \in Invitations
          PROVE IF invitations[i] = NoRow THEN invitations'[i] = NoRow \/ ~invitations'[i].accepted
                ELSE /\ invitations'[i] # NoRow
                     /\ invitations'[i].accepted = invitations[i].accepted
                     /\ invitations'[i].email = invitations[i].email
                     /\ invitations'[i].brand = invitations[i].brand
                     /\ invitations'[i].role = invitations[i].role
      <4>1. CASE i = new BY <3>1, <3>2, <4>1 DEF NewInvitation
      <4>2. CASE i # new /\ i = mem[r].row
        <5>1. invitations[i] \in Invitation BY <3>3, <4>2
        <5>2. invitations'[i] = [invitations[i] EXCEPT !.deleted = TRUE] BY <3>2, <4>2
        <5>3. invitations'[i] \in Invitation BY <5>1, <5>2 DEF Invitation
        <5>4. QED BY <1>0, <5>1, <5>2, <5>3 DEF Invitation
      <4>3. CASE i # new /\ i # mem[r].row BY <3>2, <4>3
      <4>4. QED BY <4>1, <4>2, <4>3
    <3>5. AcceptedKept BY <3>4 DEF AcceptedKept
    <3>6. QED BY <2>4, <3>3, <3>5 DEF CommitInvitation, AccountsStep, NothingNew
  <2>5. CASE UNCHANGED <<users, invitations, audit>>
    BY <1>1, <2>5
  <2>6. QED
    BY <1>2, <2>1, <2>2, <2>3, <2>4, <2>5
       DEF Progress, CreateBrand, CreateOwner, FindPending, DeleteExpired, InsertInvitation,
           LockInvitation, CreateMember, IssueToken, SetBrandStatus, Refuse
<1>3. ASSUME NEW i \in Invitations, Expire(i) PROVE AccountsStep
  <2>1. invitations[i] \in Invitation
    BY <1>0, <1>3 DEF Expire, Pending, Row
  <2>2. [invitations[i] EXCEPT !.expired = TRUE] \in Invitation BY <2>1 DEF Invitation
  <2>3. AcceptedKept
    BY <1>0, <1>3, <2>1, <2>2 DEF Expire, AcceptedKept, Invitation
  <2>4. QED BY <1>3, <2>3 DEF Expire, AccountsStep, NothingNew
<1>4. ASSUME NEW r \in Requests, Begin(r) \/ Fail(r) PROVE UNCHANGED <<users, invitations, audit>>
  BY <1>4 DEF Begin, Register, Invite, Accept, Remove, Login, GetBrand, Fail, Refuse
<1>5. QED BY <1>1, <1>2, <1>3, <1>4 DEF Next, vars

-----------------------------------------------------------------------------
(* The invitations to an e-mail that were accepted.                          *)
Accepted(e) == {i \in Invitations : /\ invitations[i] # NoRow /\ invitations[i].accepted
                                    /\ invitations[i].email = e}

CameIn(e) ==
    IF users[e] = NoUser \/ users[e].role = "OWNER" THEN Accepted(e) = {}
    ELSE \E i \in Invitations : /\ Accepted(e) = {i}
                                /\ invitations[i].brand = users[e].brand
                                /\ invitations[i].role = users[e].role

(* While nothing is accepted, the accepted invitations stay and so do their  *)
(* brands and roles.                                                         *)
LEMMA AcceptedStay ==
    ASSUME AcceptedKept, NEW e \in Emails
    PROVE  /\ Accepted(e)' = Accepted(e)
           /\ \A i \in Accepted(e) : /\ invitations'[i].brand = invitations[i].brand
                                     /\ invitations'[i].role = invitations[i].role
BY DEF Accepted, AcceptedKept

AllCameIn == \A e \in Emails : CameIn(e)

LEMMA NextCameIn == Safe /\ AccountsStep /\ AllCameIn => AllCameIn'
<1> SUFFICES ASSUME Safe, AccountsStep, AllCameIn, NEW e \in Emails PROVE CameIn(e)'
  BY DEF AllCameIn
<1> CameIn(e)
  BY DEF AllCameIn
<1>0. /\ users \in [Emails -> User \cup {NoUser}] /\ NoUser \notin User
      /\ invitations \in [Invitations -> Invitation \cup {NoRow}] /\ NoRow \notin Invitation
  BY MembershipAssumption DEF Safe, Typed, TypeOK, User, Invitation
<1>1. ASSUME AcceptedKept,
             users'[e] = users[e] \/ (users[e] # NoUser /\ users'[e] # NoUser
                                        /\ users'[e].role = users[e].role
                                        /\ users'[e].brand = users[e].brand)
      PROVE  CameIn(e)'
  <2>1. CASE users[e] = NoUser \/ users[e].role = "OWNER"
    BY <1>1, <2>1, AcceptedStay DEF CameIn
  <2>2. CASE users[e] # NoUser /\ users[e].role # "OWNER"
    <3>1. PICK i \in Invitations : /\ Accepted(e) = {i}
                                   /\ invitations[i].brand = users[e].brand
                                   /\ invitations[i].role = users[e].role
      BY <2>2 DEF CameIn
    <3>2. Accepted(e)' = {i} /\ invitations'[i].brand = users[e].brand
          /\ invitations'[i].role = users[e].role
      BY <1>1, <3>1, AcceptedStay
    <3>3. QED BY <1>1, <2>2, <3>2 DEF CameIn
  <2>3. QED BY <2>1, <2>2
<1>2. CASE NothingNew
  BY <1>1, <1>2 DEF NothingNew
<1>3. ASSUME NEW b \in Brands, NEW f \in Emails, Founded(b, f) PROVE CameIn(e)'
  <2>1. CASE e # f BY <1>0, <1>1, <1>3, <2>1 DEF Founded
  <2>2. CASE e = f
    <3>1. Accepted(e)' = {} BY <1>3, <2>2, AcceptedStay DEF Founded, CameIn
    <3>2. users'[e].role = "OWNER" BY <1>0, <1>3, <2>2 DEF Founded
    <3>3. QED BY <3>1, <3>2 DEF CameIn
  <2>3. QED BY <2>1, <2>2
<1>4. ASSUME NEW i \in Invitations, Joined(i) PROVE CameIn(e)'
  <2>1. /\ invitations[i] \in Invitation
        /\ invitations'[i] = [invitations[i] EXCEPT !.accepted = TRUE]
        /\ \A j \in Invitations \ {i} : invitations'[j] = invitations[j]
    BY <1>0, <1>4 DEF Joined
  <2>2. /\ invitations'[i] \in Invitation /\ invitations'[i].accepted
        /\ invitations'[i].email = invitations[i].email
        /\ invitations'[i].brand = invitations[i].brand
        /\ invitations'[i].role = invitations[i].role
        /\ invitations[i].email \in Emails /\ invitations[i].role \in Invitee
        /\ invitations[i].brand \in Brands
    BY <2>1 DEF Invitation
  <2>3. CASE e = invitations[i].email
    <3>1. Accepted(e) = {} BY <1>4, <2>3 DEF Joined, CameIn
    <3>2. Accepted(e)' = {i}
      <4>1. invitations'[i] # NoRow BY <1>0, <2>2
      <4>2. i \in Accepted(e)' BY <2>2, <2>3, <4>1 DEF Accepted
      <4>3. \A j \in Accepted(e)' : j = i BY <2>1, <3>1 DEF Accepted
      <4>4. QED BY <4>2, <4>3
    <3>3. users'[e] = [brand |-> invitations[i].brand, role |-> invitations[i].role, disabled |-> FALSE]
      BY <1>0, <1>4, <2>3 DEF Joined
    <3>4. users'[e] # NoUser /\ users'[e].role # "OWNER"
      <4>1. users'[e] \in User BY <2>2, <3>3 DEF User, Roles, Invitee
      <4>2. users'[e].role = invitations[i].role BY <3>3
      <4>3. invitations[i].role # "OWNER" BY <2>2 DEF Invitee
      <4>4. QED BY <1>0, <4>1, <4>2, <4>3
    <3>5. QED BY <2>2, <3>2, <3>3, <3>4 DEF CameIn
  <2>4. CASE e # invitations[i].email
    <3>1. users'[e] = users[e] BY <1>0, <1>4, <2>4 DEF Joined
    <3>2. Accepted(e)' = Accepted(e) /\ i \notin Accepted(e)
      BY <1>0, <2>1, <2>2, <2>4 DEF Accepted
    <3>3. \A j \in Accepted(e) : invitations'[j] = invitations[j]
      BY <2>1, <3>2 DEF Accepted
    <3>4. CASE users[e] = NoUser \/ users[e].role = "OWNER"
      BY <3>1, <3>2, <3>4 DEF CameIn
    <3>5. CASE users[e] # NoUser /\ users[e].role # "OWNER"
      <4>1. PICK j \in Invitations : /\ Accepted(e) = {j}
                                     /\ invitations[j].brand = users[e].brand
                                     /\ invitations[j].role = users[e].role
        BY <3>5 DEF CameIn
      <4>2. invitations'[j] = invitations[j] BY <3>3, <4>1
      <4>3. QED BY <3>1, <3>2, <3>5, <4>1, <4>2 DEF CameIn
    <3>6. QED BY <3>4, <3>5
  <2>5. QED BY <2>3, <2>4
<1>5. ASSUME NEW f \in Emails, Disabled(f) PROVE CameIn(e)'
  <2>1. users[f] \in User BY <1>0, <1>5 DEF Disabled
  <2>2. users'[f] = [users[f] EXCEPT !.disabled = TRUE] BY <1>0, <1>5 DEF Disabled
  <2>3. users'[f] \in User /\ users'[f].role = users[f].role /\ users'[f].brand = users[f].brand
    BY <2>1, <2>2 DEF User
  <2>4. CASE e # f BY <1>0, <1>1, <1>5, <2>4 DEF Disabled
  <2>5. CASE e = f BY <1>0, <1>1, <1>5, <2>1, <2>3, <2>5 DEF Disabled
  <2>6. QED BY <2>4, <2>5
<1>6. QED BY <1>2, <1>3, <1>4, <1>5 DEF AccountsStep

(* Every member came in by exactly one accepted invitation to that e-mail,   *)
(* with its brand and role, and no invitation was accepted in vain, for any  *)
(* number of brands that invite one person and of links opened twice.        *)
THEOREM MembersWereAlwaysInvited == Spec => []MembersWereInvited
<1>1. Init => AllCameIn
  <2> SUFFICES ASSUME Init PROVE AllCameIn
    OBVIOUS
  <2>1. \A i \in Invitations : invitations[i] = NoRow \/ ~invitations[i].accepted
    BY DEF Init, MembershipInit, NewInvitation
  <2>2. \A e \in Emails : Accepted(e) = {} BY <2>1 DEF Accepted
  <2>3. \A e \in Emails : users[e] = NoUser \/ users[e].role = "OWNER" BY DEF Init, MembershipInit
  <2>4. QED BY <2>2, <2>3 DEF AllCameIn, CameIn
<1>2. AllCameIn => MembersWereInvited
  BY DEF AllCameIn, CameIn, Accepted, MembersWereInvited
<1>3. QED BY <1>1, <1>2, NextAccounts, NextCameIn, AlwaysSafe, PTL DEF Spec
-----------------------------------------------------------------------------
(* The audit log. Cardinalities are those of finite sets of positions.       *)
Actions == {"BRAND_REGISTERED", "INVITATION_CREATED", "INVITATION_ACCEPTED", "USER_DEACTIVATED"}

LEMMA AboutFinite ==
    ASSUME audit \in Seq(Entry), NEW action, NEW e
    PROVE  /\ IsFiniteSet(About(action, e))
           /\ Cardinality(About(action, e)) \in Nat
           /\ Cardinality(About(action, e)) = 0 <=> About(action, e) = {}
<1>1. DOMAIN audit = 1..Len(audit) /\ Len(audit) \in Nat
  BY LenProperties
<1>2. IsFiniteSet(1..Len(audit)) BY <1>1, FS_Interval
<1>3. About(action, e) \subseteq 1..Len(audit) BY <1>1 DEF About
<1>4. IsFiniteSet(About(action, e)) BY <1>2, <1>3, FS_Subset
<1>5. QED BY <1>4, FS_CardinalityType, FS_EmptySet

(* An entry is about one thing and one person.                               *)
LEMMA AboutAppended ==
    ASSUME audit \in Seq(Entry), NEW did \in Actions, NEW who \in Emails, Log(did, who)
    PROVE  \A action \in Actions, e \in Emails :
             About(action, e)' = IF action = did /\ e = who THEN About(action, e) \cup {Len(audit) + 1}
                                 ELSE About(action, e)
<1> SUFFICES ASSUME NEW action \in Actions, NEW e \in Emails
             PROVE  About(action, e)' = IF action = did /\ e = who
                                        THEN About(action, e) \cup {Len(audit) + 1}
                                        ELSE About(action, e)
  OBVIOUS
<1> DEFINE entry == [action |-> did, about |-> who]
<1>1. /\ audit' = Append(audit, entry)
      /\ DOMAIN audit = 1..Len(audit) /\ Len(audit) \in Nat
  BY LenProperties DEF Log
<1>2. /\ entry \in Entry
      /\ DOMAIN audit' = 1..(Len(audit) + 1)
      /\ \A n \in 1..Len(audit) : audit'[n] = audit[n]
      /\ audit'[Len(audit) + 1] = entry
  <2>1. entry \in Entry BY DEF Entry, Actions
  <2>2. QED BY <1>1, <2>1, AppendProperties
<1>3. entry = [action |-> action, about |-> e] <=> action = did /\ e = who
  OBVIOUS
<1> HIDE DEF entry
<1>4. QED BY <1>1, <1>2, <1>3 DEF About

LEMMA AboutCounts ==
    ASSUME audit \in Seq(Entry), NEW action \in Actions, NEW e \in Emails, Log(action, e)
    PROVE  Cardinality(About(action, e)') = Cardinality(About(action, e)) + 1
<1>1. IsFiniteSet(About(action, e)) /\ Cardinality(About(action, e)) \in Nat
  BY AboutFinite
<1>2. About(action, e)' = About(action, e) \cup {Len(audit) + 1}
  BY AboutAppended
<1>3. Len(audit) + 1 \notin About(action, e)
  BY LenProperties DEF About
<1>4. QED BY <1>1, <1>2, <1>3, FS_AddElement

(* What the log says about one person.                                       *)
Told(e) ==
    /\ users[e] = NoUser =>
         \A action \in {"BRAND_REGISTERED", "INVITATION_ACCEPTED", "USER_DEACTIVATED"} :
            About(action, e) = {}
    /\ users[e] # NoUser =>
         /\ Cardinality(About("INVITATION_ACCEPTED", e)) = IF users[e].role = "OWNER" THEN 0 ELSE 1
         /\ Cardinality(About("BRAND_REGISTERED", e)) =
              IF users[e].role = "OWNER" /\ users[e].brand \notin DOMAIN Founder THEN 1 ELSE 0
         /\ users[e].disabled <=> About("USER_DEACTIVATED", e) # {}

AllTold == /\ \A e \in Emails : Told(e)
           /\ \A b \in DOMAIN Founder : brands[b] # "none"

(* A person whom the entries of a step do not concern.                       *)
LEMMA ToldStays ==
    ASSUME NEW e \in Emails, Told(e), users'[e] = users[e],
           \A action \in {"BRAND_REGISTERED", "INVITATION_ACCEPTED", "USER_DEACTIVATED"} :
              About(action, e)' = About(action, e)
    PROVE  Told(e)'
BY DEF Told

LEMMA NextTold == Safe /\ AccountsStep /\ UsersStep /\ AllTold => AllTold'
<1> SUFFICES ASSUME Safe, AccountsStep, UsersStep, AllTold PROVE AllTold'
  OBVIOUS
<1>0. /\ users \in [Emails -> User \cup {NoUser}] /\ NoUser \notin User
      /\ invitations \in [Invitations -> Invitation \cup {NoRow}]
      /\ audit \in Seq(Entry)
      /\ \A e \in Emails : Told(e)
  BY MembershipAssumption DEF Safe, Typed, TypeOK, User, AllTold
<1>1. \A b \in DOMAIN Founder : brands'[b] # "none"
  <2>1. brands \in [Brands -> {"none", "active", "suspended"}] /\ DOMAIN Founder \subseteq Brands
    BY AccountsAssumption, MembershipAssumption DEF Safe, Typed, TypeOK
  <2>2. QED BY <2>1 DEF UsersStep, AllTold
<1>2. /\ "BRAND_REGISTERED" \in Actions /\ "INVITATION_CREATED" \in Actions
      /\ "INVITATION_ACCEPTED" \in Actions /\ "USER_DEACTIVATED" \in Actions
  BY DEF Actions
<1>3. ASSUME NEW e \in Emails PROVE Told(e)'
  <2>1. CASE NothingNew
    <3>1. CASE audit' = audit
      BY <1>0, <2>1, <3>1, ToldStays DEF NothingNew, About
    <3>2. ASSUME NEW f \in Emails, Log("INVITATION_CREATED", f) PROVE Told(e)'
      BY <1>0, <1>2, <2>1, <3>2, AboutAppended, ToldStays DEF NothingNew
    <3>3. QED BY <2>1, <3>1, <3>2 DEF NothingNew
  <2>2. ASSUME NEW b \in Brands, NEW f \in Emails, Founded(b, f) PROVE Told(e)'
    <3>0. Log("BRAND_REGISTERED", f) /\ users[f] = NoUser /\ brands[b] = "none" /\ f \in Emails
      BY <2>2 DEF Founded
    <3>1. CASE e # f
      BY <1>0, <1>2, <2>2, <3>0, <3>1, AboutAppended, ToldStays DEF Founded
    <3>2. CASE e = f
      <4>1. /\ users'[e] = [brand |-> b, role |-> "OWNER", disabled |-> FALSE]
            /\ b \notin DOMAIN Founder
        BY <1>0, <2>2, <3>2 DEF Founded, AllTold
      <4>2. /\ About("INVITATION_ACCEPTED", e)' = {}
            /\ About("USER_DEACTIVATED", e)' = {}
            /\ About("BRAND_REGISTERED", e) = {}
        BY <1>0, <1>2, <3>0, <3>2, AboutAppended DEF Told
      <4>3. Cardinality(About("BRAND_REGISTERED", e)') = 0 + 1
        BY <1>0, <1>2, <3>0, <3>2, <4>2, AboutCounts, FS_EmptySet
      <4>4. Cardinality(About("INVITATION_ACCEPTED", e)') = 0
        BY <4>2, FS_EmptySet
      <4>5. users'[e] # NoUser
        <5>1. users'[e] \in User BY <4>1 DEF User, Roles
        <5>2. QED BY <1>0, <5>1
      <4>6. QED BY <4>1, <4>2, <4>3, <4>4, <4>5 DEF Told
    <3>3. QED BY <3>1, <3>2
  <2>3. ASSUME NEW i \in Invitations, Joined(i) PROVE Told(e)'
    <3> DEFINE f == invitations[i].email
    <3>0. /\ Log("INVITATION_ACCEPTED", f) /\ users[f] = NoUser /\ invitations[i] \in Invitation
          /\ f \in Emails
      BY <1>0, <2>3 DEF Joined, Invitation
    <3>1. CASE e # f
      BY <1>0, <1>2, <2>3, <3>0, <3>1, AboutAppended, ToldStays DEF Joined
    <3>2. CASE e = f
      <4>1. users'[e] = [brand |-> invitations[i].brand, role |-> invitations[i].role, disabled |-> FALSE]
        BY <1>0, <2>3, <3>2 DEF Joined
      <4>2. /\ About("BRAND_REGISTERED", e)' = {}
            /\ About("USER_DEACTIVATED", e)' = {}
            /\ About("INVITATION_ACCEPTED", e) = {}
        BY <1>0, <1>2, <3>0, <3>2, AboutAppended DEF Told
      <4>3. Cardinality(About("INVITATION_ACCEPTED", e)') = 0 + 1
        BY <1>0, <1>2, <3>0, <3>2, <4>2, AboutCounts, FS_EmptySet
      <4>4. Cardinality(About("BRAND_REGISTERED", e)') = 0
        BY <4>2, FS_EmptySet
      <4>5. users'[e] # NoUser /\ users'[e].role # "OWNER"
        <5>1. users'[e].role \in Invitee /\ users'[e].role \in Roles /\ invitations[i].brand \in Brands
          BY <3>0, <4>1 DEF Invitation, Invitee, Roles
        <5>2. users'[e] \in User BY <4>1, <5>1 DEF User
        <5>3. QED BY <1>0, <5>1, <5>2 DEF Invitee
      <4>6. QED BY <4>1, <4>2, <4>3, <4>4, <4>5 DEF Told
    <3>3. QED BY <3>1, <3>2
  <2>4. ASSUME NEW f \in Emails, Disabled(f) PROVE Told(e)'
    <3>0. Log("USER_DEACTIVATED", f) /\ users[f] \in User
      BY <1>0, <2>4 DEF Disabled
    <3>1. CASE e # f
      BY <1>0, <1>2, <2>4, <3>0, <3>1, AboutAppended, ToldStays DEF Disabled
    <3>2. CASE e = f
      <4>1. users'[e] = [users[e] EXCEPT !.disabled = TRUE]
        BY <1>0, <2>4, <3>2 DEF Disabled
      <4>2. /\ users'[e] \in User /\ users'[e].role = users[e].role /\ users'[e].brand = users[e].brand
            /\ users'[e].disabled
        BY <3>0, <3>2, <4>1 DEF User
      <4>3. /\ About("BRAND_REGISTERED", e)' = About("BRAND_REGISTERED", e)
            /\ About("INVITATION_ACCEPTED", e)' = About("INVITATION_ACCEPTED", e)
            /\ About("USER_DEACTIVATED", e)' = About("USER_DEACTIVATED", e) \cup {Len(audit) + 1}
        BY <1>0, <1>2, <3>0, <3>2, AboutAppended
      <4>4. QED BY <1>0, <3>0, <3>2, <4>2, <4>3 DEF Told
    <3>3. QED BY <3>1, <3>2
  <2>5. QED BY <2>1, <2>2, <2>3, <2>4 DEF AccountsStep
<1>4. QED BY <1>1, <1>3 DEF AllTold

(* The audit log tells how every account came to be, once, and whether it    *)
(* was disabled, however requests interleave and fail.                       *)
THEOREM AuditAlwaysTellsAccounts == Spec => []AuditTellsAccounts
<1>1. Init => AllTold
  <2> SUFFICES ASSUME Init PROVE AllTold
    OBVIOUS
  <2>1. \A action, e : About(action, e) = {} BY DEF Init, MembershipInit, About
  <2>2. \A action, e : Cardinality(About(action, e)) = 0 BY <2>1, FS_EmptySet
  <2>3. ASSUME NEW e \in Emails, users[e] # NoUser
        PROVE  users[e].role = "OWNER" /\ users[e].brand \in DOMAIN Founder /\ ~users[e].disabled
    <3> DEFINE c == CHOOSE d \in DOMAIN Founder : Founder[d] = e
    <3>1. (\E d \in DOMAIN Founder : Founder[d] = e) /\ users[e] = [brand |-> c, role |-> "OWNER", disabled |-> FALSE]
      BY <2>3 DEF Init, MembershipInit
    <3>2. c \in DOMAIN Founder BY <3>1
    <3>3. QED BY <3>1, <3>2
  <2>4. \A e \in Emails : Told(e) BY <2>1, <2>2, <2>3 DEF Told
  <2>5. \A b \in DOMAIN Founder : brands[b] # "none" BY MembershipAssumption DEF Init, MembershipInit
  <2>6. QED BY <2>4, <2>5 DEF AllTold
<1>2. Safe /\ AllTold => AuditTellsAccounts
  <2> SUFFICES ASSUME Safe, AllTold, NEW e \in Emails
               PROVE  /\ users[e] = NoUser => \A n \in DOMAIN audit :
                                                audit[n].about = e => audit[n].action = "INVITATION_CREATED"
                      /\ users[e] # NoUser => Told(e)
    BY DEF AuditTellsAccounts, Told
  <2>1. Told(e) BY DEF AllTold
  <2>2. ASSUME users[e] = NoUser, NEW n \in DOMAIN audit, audit[n].about = e
        PROVE  audit[n].action = "INVITATION_CREATED"
    <3>1. audit[n] \in Entry BY ElementOfSeq DEF Safe, Typed, TypeOK
    <3>2. audit[n] = [action |-> audit[n].action, about |-> e] BY <2>2, <3>1 DEF Entry
    <3>3. n \in About(audit[n].action, e) BY <3>2 DEF About
    <3>4. audit[n].action \notin {"BRAND_REGISTERED", "INVITATION_ACCEPTED", "USER_DEACTIVATED"}
      BY <2>1, <2>2, <3>3 DEF Told
    <3>5. QED BY <3>1, <3>4 DEF Entry
  <2>3. QED BY <2>1, <2>2
<1>3. QED BY <1>1, <1>2, NextAccounts, NextUsers, NextTold, AlwaysSafe, PTL DEF Spec
-----------------------------------------------------------------------------
(* Why requests at READ COMMITTED look like operations that happen at once:  *)
(* whoever is about to commit holds every row and key its check was about,   *)
(* from the check until the commit.                                          *)
Placed(r) ==
    /\ pc[r] \in InviteSteps => brands[mem[r].brand] # "none"
    /\ pc[r] = "issue" => users[mem[r].email] # NoUser
    /\ pc[r] = "find" => mem[r].row \notin Invitations
    /\ pc[r] \in InviteSteps /\ mem[r].row \in Invitations =>
         /\ invitations[mem[r].row].brand = mem[r].brand
         /\ invitations[mem[r].row].email = mem[r].email
         /\ invitations[mem[r].row].expired
    /\ pc[r] \in {"insert", "commitInvitation"} /\ mem[r].row \in Invitations =>
         held[mem[r].row] = r /\ Row(mem[r].row)
    /\ pc[r] \in {"createMember", "commitMember"} => held[mem[r].row] = r /\ Pending(mem[r].row)
    /\ pc[r] = "commitInvitation" =>
         /\ held[<<mem[r].brand, mem[r].email>>] = r
         /\ PendingFor(mem[r].brand, mem[r].email) \subseteq {mem[r].row}

Placement == Safe /\ \A r \in Requests : Placed(r)

(* What a step may not do to a request that does not take it.                *)
RowsUndisturbed(s) ==
    \A i \in Invitations : invitations[i] # NoRow =>
        /\ invitations'[i] # NoRow
        /\ invitations'[i].brand = invitations[i].brand
        /\ invitations'[i].email = invitations[i].email
        /\ invitations[i].expired => invitations'[i].expired
        /\ held[i] = s /\ ~invitations[i].deleted => ~invitations'[i].deleted
        /\ held[i] = s /\ ~invitations[i].accepted => ~invitations'[i].accepted

KeysUndisturbed(s) ==
    \A b \in Brands, e \in Emails :
        held[<<b, e>>] = s => PendingFor(b, e)' \subseteq PendingFor(b, e)

Undisturbed(s) ==
    /\ \A b \in Brands : brands[b] # "none" => brands'[b] # "none"
    /\ \A e \in Emails : users[e] # NoUser => users'[e] # NoUser
    /\ RowsUndisturbed(s) /\ KeysUndisturbed(s)
    /\ \A k \in Keys : held[k] = s => held'[k] = s
    /\ pc'[s] = pc[s] /\ mem'[s] = mem[s]

LEMMA PlacedLasts ==
    ASSUME Typed, NEW s \in Requests, Placed(s), Undisturbed(s)
    PROVE  Placed(s)'
<1>1. /\ pc[s] \in InviteSteps => mem[s].brand \in Brands /\ mem[s].email \in Emails
      /\ pc[s] \in AcceptSteps => mem[s].row \in Invitations
      /\ mem[s].row \in Invitations => invitations[mem[s].row] # NoRow /\ mem[s].row \in Keys
      /\ pc[s] = "issue" => mem[s].email \in Emails
      /\ pc'[s] = pc[s] /\ mem'[s] = mem[s]
  BY KeysTyped DEF Typed, Known, Undisturbed
<1>2. /\ pc[s] \in InviteSteps => brands'[mem[s].brand] # "none"
      /\ pc[s] = "issue" => users'[mem[s].email] # NoUser
  BY <1>1 DEF Placed, Undisturbed
<1>3. pc[s] \in InviteSteps /\ mem[s].row \in Invitations =>
         /\ invitations'[mem[s].row].brand = mem[s].brand
         /\ invitations'[mem[s].row].email = mem[s].email
         /\ invitations'[mem[s].row].expired
  BY <1>1 DEF Placed, Undisturbed, RowsUndisturbed
<1>4. /\ pc[s] \in {"insert", "commitInvitation"} /\ mem[s].row \in Invitations =>
           held'[mem[s].row] = s /\ Row(mem[s].row)'
      /\ pc[s] \in {"createMember", "commitMember"} =>
           held'[mem[s].row] = s /\ Pending(mem[s].row)'
  BY <1>1 DEF Placed, Undisturbed, RowsUndisturbed, Row, Pending, AcceptSteps
<1>5. pc[s] = "commitInvitation" =>
         /\ held'[<<mem[s].brand, mem[s].email>>] = s
         /\ PendingFor(mem[s].brand, mem[s].email)' \subseteq {mem[s].row}
  <2>1. SUFFICES ASSUME pc[s] = "commitInvitation"
                 PROVE  /\ held'[<<mem[s].brand, mem[s].email>>] = s
                        /\ PendingFor(mem[s].brand, mem[s].email)' \subseteq {mem[s].row}
    OBVIOUS
  <2>2. PICK b \in Brands, e \in Emails : b = mem[s].brand /\ e = mem[s].email
    BY <1>1, <2>1 DEF InviteSteps
  <2>3. held[<<b, e>>] = s /\ PendingFor(b, e) \subseteq {mem[s].row} /\ <<b, e>> \in Keys
    BY <2>1, <2>2, KeysTyped DEF Placed
  <2>4. held'[<<b, e>>] = s BY <2>3 DEF Undisturbed
  <2>5. PendingFor(b, e)' \subseteq PendingFor(b, e)
    BY <2>3 DEF Undisturbed, KeysUndisturbed
  <2>6. mem[s]' = mem[s] BY <1>1
  <2>7. QED BY <2>2, <2>3, <2>4, <2>5, <2>6
<1>6. QED
  BY <1>1, <1>2, <1>3, <1>4, <1>5 DEF Placed

(* A step that leaves the tables alone, and what others hold.                *)
LEMMA SameTables ==
    ASSUME NEW s \in Requests, UNCHANGED <<brands, users, invitations>>,
           \A k \in Keys : held[k] = s => held'[k] = s,
           pc'[s] = pc[s], mem'[s] = mem[s]
    PROVE  Undisturbed(s)
BY DEF Undisturbed, RowsUndisturbed, KeysUndisturbed, PendingFor, Pending, Row

-----------------------------------------------------------------------------
(* Each commit is one operation of Membership, on rows and keys its request  *)
(* holds.                                                                    *)
LEMMA CommitBrandFounds ==
    ASSUME Placement, NEW r \in Requests, CommitBrand(r)
    PROVE  /\ mem[r].brand \in Brands /\ mem[r].email \in Emails
           /\ FoundBrand(mem[r].brand, mem[r].email)
<1>1. Known(r) /\ Reserved(r) /\ pc[r] = "commitBrand"
  BY DEF Placement, Safe, Typed, CommitBrand
<1>2. mem[r].brand \in Brands /\ mem[r].email \in Emails
  BY <1>1 DEF Known, BrandSteps
<1>3. brands[mem[r].brand] = "none" /\ users[mem[r].email] = NoUser
  BY <1>1 DEF Reserved
<1>4. QED BY <1>2, <1>3 DEF CommitBrand, FoundBrand

LEMMA CommitMemberJoins ==
    ASSUME Placement, NEW r \in Requests, CommitMember(r)
    PROVE  /\ mem[r].row \in Invitations /\ held[mem[r].row] = r
           /\ JoinBrand(mem[r].row)
<1>1. Known(r) /\ Reserved(r) /\ Placed(r) /\ pc[r] = "commitMember"
  BY DEF Placement, Safe, Typed, CommitMember
<1>2. mem[r].row \in Invitations /\ held[mem[r].row] = r /\ Pending(mem[r].row)
  BY <1>1 DEF Known, Placed, AcceptSteps
<1>3. users[invitations[mem[r].row].email] = NoUser
  BY <1>1 DEF Reserved, Wanted
<1>4. QED BY <1>2, <1>3 DEF CommitMember, JoinBrand

LEMMA CommitInvitationIssues ==
    ASSUME Placement, NEW r \in Requests, CommitInvitation(r)
    PROVE  /\ mem[r].brand \in Brands /\ mem[r].email \in Emails /\ mem[r].role \in Invitee
           /\ mem[r].row \in Invitations \cup {NoRow}
           /\ held[<<mem[r].brand, mem[r].email>>] = r
           /\ mem[r].row \in Invitations => held[mem[r].row] = r
           /\ \E i \in Invitations :
                IssueInvitation(i, mem[r].row, mem[r].brand, mem[r].email, mem[r].role)
<1> DEFINE new == CHOOSE i \in Invitations : invitations[i] = NoRow
<1>1. Known(r) /\ Placed(r) /\ pc[r] = "commitInvitation"
  BY DEF Placement, Safe, Typed, CommitInvitation
<1>2. mem[r].brand \in Brands /\ mem[r].email \in Emails /\ mem[r].role \in Invitee
  BY <1>1 DEF Known, InviteSteps
<1>3. mem[r].row \in Invitations \cup {NoRow} /\ NoRow \notin Invitations
  BY MembershipAssumption DEF Placement, Safe, Typed, TypeOK
<1>4. /\ brands[mem[r].brand] # "none"
      /\ held[<<mem[r].brand, mem[r].email>>] = r
      /\ PendingFor(mem[r].brand, mem[r].email) \subseteq {mem[r].row}
      /\ mem[r].row \in Invitations =>
           /\ held[mem[r].row] = r /\ Row(mem[r].row)
           /\ invitations[mem[r].row].brand = mem[r].brand
           /\ invitations[mem[r].row].email = mem[r].email
           /\ invitations[mem[r].row].expired
  BY <1>1 DEF Placed, InviteSteps
<1>5. /\ new \in Invitations /\ invitations[new] = NoRow
      /\ invitations' = [i \in Invitations |->
                           IF i = new THEN NewInvitation(mem[r].brand, mem[r].email, mem[r].role)
                           ELSE IF i = mem[r].row THEN [invitations[i] EXCEPT !.deleted = TRUE]
                           ELSE invitations[i]]
      /\ Log("INVITATION_CREATED", mem[r].email)
      /\ UNCHANGED <<brands, users, tokens>>
  BY DEF CommitInvitation
<1> HIDE DEF new
<1>6. IssueInvitation(new, mem[r].row, mem[r].brand, mem[r].email, mem[r].role)
  BY <1>3, <1>4, <1>5 DEF IssueInvitation
<1>7. QED BY <1>2, <1>3, <1>4, <1>5, <1>6

LEMMA DisableDisables ==
    ASSUME Placement, NEW r \in Requests, Disable(r)
    PROVE  mem[r].email \in Emails /\ DisableMember(mem[r].email)
<1>1. Known(r) /\ pc[r] = "disable"
  BY DEF Placement, Safe, Typed, Disable
<1>2. QED BY <1>1 DEF Known, Disable, DisableMember

LEMMA IssueTokenSignsIn ==
    ASSUME Placement, NEW r \in Requests, IssueToken(r)
    PROVE  mem[r].email \in Emails /\ SignIn(mem[r].email)
<1>1. Known(r) /\ Placed(r) /\ pc[r] = "issue"
  BY DEF Placement, Safe, Typed, IssueToken
<1>2. QED BY <1>1 DEF Known, Placed, IssueToken, SignIn

LEMMA SetBrandStatusSets ==
    ASSUME Placement, NEW r \in Requests, SetBrandStatus(r)
    PROVE  /\ mem[r].brand \in Brands
           /\ \E status \in {"active", "suspended"} : SetStatus(mem[r].brand, status)
<1>1. Known(r) /\ pc[r] = "setStatus"
  BY DEF Placement, Safe, Typed, SetBrandStatus
<1>2. QED BY <1>1 DEF Known, SetBrandStatus, SetStatus

LEMMA ExpireLapses ==
    ASSUME NEW i \in Invitations, Expire(i)
    PROVE  Lapse(i)
BY DEF Expire, Lapse

(* What an operation does to the rows and keys somebody else holds: nothing. *)
LEMMA OperationUndisturbing ==
    ASSUME Typed, NEW s,
           \/ \E b \in Brands, e \in Emails : FoundBrand(b, e)
           \/ \E i \in Invitations, old \in Invitations \cup {NoRow}, b \in Brands, e \in Emails,
                 role \in Invitee : /\ IssueInvitation(i, old, b, e, role)
                                    /\ held[<<b, e>>] # s
                                    /\ old \in Invitations => held[old] # s
           \/ \E i \in Invitations : Lapse(i) \/ (JoinBrand(i) /\ held[i] # s)
           \/ \E e \in Emails : DisableMember(e)
           \/ \E b \in Brands, status \in {"active", "suspended"} : SetStatus(b, status)
    PROVE  /\ \A b \in Brands : brands[b] # "none" => brands'[b] # "none"
           /\ \A e \in Emails : users[e] # NoUser => users'[e] # NoUser
           /\ RowsUndisturbed(s) /\ KeysUndisturbed(s)
<1>0. /\ brands \in [Brands -> {"none", "active", "suspended"}]
      /\ users \in [Emails -> User \cup {NoUser}] /\ NoUser \notin User
      /\ invitations \in [Invitations -> Invitation \cup {NoRow}] /\ NoRow \notin Invitation
  BY MembershipAssumption DEF Typed, TypeOK, User, Invitation
<1>1. ASSUME UNCHANGED invitations PROVE RowsUndisturbed(s) /\ KeysUndisturbed(s)
  BY <1>1 DEF RowsUndisturbed, KeysUndisturbed, PendingFor, Pending, Row
<1>2. ASSUME NEW b \in Brands, NEW e \in Emails, FoundBrand(b, e)
      PROVE  /\ \A c \in Brands : brands[c] # "none" => brands'[c] # "none"
             /\ \A f \in Emails : users[f] # NoUser => users'[f] # NoUser
             /\ UNCHANGED invitations
  BY <1>0, <1>2 DEF FoundBrand
<1>3. ASSUME NEW e \in Emails, DisableMember(e)
      PROVE  /\ UNCHANGED <<brands, invitations>>
             /\ \A f \in Emails : users[f] # NoUser => users'[f] # NoUser
  <2>1. users[e] \in User BY <1>0, <1>3 DEF DisableMember
  <2>2. [users[e] EXCEPT !.disabled = TRUE] \in User BY <2>1 DEF User
  <2>3. QED BY <1>0, <1>3, <2>2 DEF DisableMember
<1>4. ASSUME NEW b \in Brands, NEW status \in {"active", "suspended"}, SetStatus(b, status)
      PROVE  /\ UNCHANGED <<users, invitations>>
             /\ \A c \in Brands : brands[c] # "none" => brands'[c] # "none"
  BY <1>0, <1>4 DEF SetStatus
<1>5. ASSUME NEW i \in Invitations, Lapse(i)
      PROVE  UNCHANGED <<brands, users>> /\ RowsUndisturbed(s) /\ KeysUndisturbed(s)
  <2>1. invitations[i] \in Invitation BY <1>0, <1>5 DEF Lapse, Pending, Row
  <2>2. invitations' = [invitations EXCEPT ![i] = [invitations[i] EXCEPT !.expired = TRUE]]
    BY <1>5 DEF Lapse
  <2>3. [invitations[i] EXCEPT !.expired = TRUE] \in Invitation BY <2>1 DEF Invitation
  <2>4. RowsUndisturbed(s) BY <1>0, <2>1, <2>2, <2>3 DEF RowsUndisturbed, Invitation
  <2>5. \A j \in Invitations : Pending(j)' => /\ Pending(j)
                                              /\ invitations'[j].brand = invitations[j].brand
                                              /\ invitations'[j].email = invitations[j].email
    BY <1>0, <1>5, <2>1, <2>2, <2>3 DEF Pending, Row, Invitation
  <2>6. KeysUndisturbed(s) BY <2>5 DEF KeysUndisturbed, PendingFor
  <2>7. QED BY <1>5, <2>4, <2>6 DEF Lapse
<1>6. ASSUME NEW i \in Invitations, JoinBrand(i), held[i] # s
      PROVE  /\ UNCHANGED brands
             /\ \A f \in Emails : users[f] # NoUser => users'[f] # NoUser
             /\ RowsUndisturbed(s) /\ KeysUndisturbed(s)
  <2>1. invitations[i] \in Invitation /\ users[invitations[i].email] = NoUser
    BY <1>0, <1>6 DEF JoinBrand, Pending, Row
  <2>2. /\ invitations' = [invitations EXCEPT ![i] = [invitations[i] EXCEPT !.accepted = TRUE]]
        /\ users' = [users EXCEPT ![invitations[i].email] =
                [brand |-> invitations[i].brand, role |-> invitations[i].role, disabled |-> FALSE]]
    BY <1>6 DEF JoinBrand
  <2>3. [invitations[i] EXCEPT !.accepted = TRUE] \in Invitation BY <2>1 DEF Invitation
  <2>4. RowsUndisturbed(s) BY <1>0, <1>6, <2>1, <2>2, <2>3 DEF RowsUndisturbed, Invitation
  <2>5. \A j \in Invitations : Pending(j)' => j # i
    BY <1>0, <2>1, <2>2, <2>3 DEF Pending, Row, Invitation
  <2>6. \A j \in Invitations \ {i} : invitations'[j] = invitations[j] BY <1>0, <2>2
  <2>7. KeysUndisturbed(s) BY <2>5, <2>6 DEF KeysUndisturbed, PendingFor, Pending, Row
  <2>8. \A f \in Emails : users[f] # NoUser => users'[f] # NoUser BY <1>0, <2>1, <2>2
  <2>9. QED BY <1>6, <2>4, <2>7, <2>8 DEF JoinBrand
<1>7. ASSUME NEW i \in Invitations, NEW old \in Invitations \cup {NoRow}, NEW b \in Brands,
             NEW e \in Emails, NEW role \in Invitee, IssueInvitation(i, old, b, e, role),
             held[<<b, e>>] # s, old \in Invitations => held[old] # s
      PROVE  UNCHANGED <<brands, users>> /\ RowsUndisturbed(s) /\ KeysUndisturbed(s)
  <2>1. /\ invitations[i] = NoRow
        /\ invitations' = [j \in Invitations |->
                             IF j = i THEN NewInvitation(b, e, role)
                             ELSE IF j = old THEN [invitations[j] EXCEPT !.deleted = TRUE]
                             ELSE invitations[j]]
        /\ old \in Invitations => old # i /\ invitations[old] \in Invitation
    BY <1>0, <1>7, MembershipAssumption DEF IssueInvitation, Row
  <2>2. \A j \in Invitations \ {i, old} : invitations'[j] = invitations[j] BY <2>1
  <2>3. old \in Invitations =>
          /\ invitations'[old] = [invitations[old] EXCEPT !.deleted = TRUE]
          /\ [invitations[old] EXCEPT !.deleted = TRUE] \in Invitation
    BY <2>1 DEF Invitation
  <2>4. RowsUndisturbed(s) BY <1>0, <1>7, <2>1, <2>2, <2>3 DEF RowsUndisturbed, Invitation
  <2>5. invitations'[i].brand = b /\ invitations'[i].email = e BY <2>1 DEF NewInvitation
  <2>6. old \in Invitations => ~Pending(old)'
    BY <1>0, <2>1, <2>3 DEF Pending, Row, Invitation
  <2>7. ASSUME NEW c \in Brands, NEW f \in Emails, held[<<c, f>>] = s
        PROVE  PendingFor(c, f)' \subseteq PendingFor(c, f)
    <3>1. b # c \/ e # f BY <1>7, <2>7
    <3>2. QED BY <2>2, <2>5, <2>6, <3>1 DEF PendingFor, Pending, Row
  <2>8. KeysUndisturbed(s) BY <2>7 DEF KeysUndisturbed
  <2>9. QED BY <1>7, <2>4, <2>8 DEF IssueInvitation
<1>8. QED BY <1>1, <1>2, <1>3, <1>4, <1>5, <1>6, <1>7

(* A request that takes a free key takes nobody else's.                      *)
LEMMA TakesOwn ==
    ASSUME Safe, NEW r \in Requests, NEW s \in Requests \ {r}, NEW k \in Keys, Free(k), Take(r, k)
    PROVE  \A l \in Keys : held[l] = s => held'[l] = s
BY AccountsAssumption DEF Safe, Typed, TypeOK, Free, Take

(* Every step of one request leaves to the others what they rely on.         *)
LEMMA OthersUndisturbed ==
    ASSUME Placement, NEW r \in Requests, Begin(r) \/ Progress(r) \/ Fail(r),
           NEW s \in Requests \ {r}
    PROVE  Undisturbed(s)
<1>0. /\ Typed /\ Known(r) /\ s # Nobody
      /\ mem \in [Requests -> [brand: Brands \cup {NoRow}, email: Emails \cup {NoRow},
                               role: Invitee \cup {NoRow}, row: Invitations \cup {NoRow}]]
      /\ held \in [Keys -> Requests \cup {Nobody}] /\ pc \in [Requests -> Steps]
  BY AccountsAssumption DEF Placement, Safe, Typed, TypeOK
<1>1. CASE Begin(r)
  <2>1. /\ pc'[s] = pc[s] /\ mem'[s] = mem[s]
        /\ UNCHANGED <<brands, users, invitations, held>>
    BY <1>0, <1>1 DEF Begin, Register, Invite, Accept, Remove, Login, GetBrand, Goto
  <2>2. QED BY <2>1, SameTables
<1>2. ASSUME NEW step \in Ended, End(r, step)
      PROVE  /\ \A k \in Keys : held[k] = s => held'[k] = s
             /\ pc'[s] = pc[s] /\ mem'[s] = mem[s]
  BY <1>0, <1>2, EndTyped
<1>3. CASE Refuse(r)
  BY <1>2, <1>3, SameTables DEF Refuse, Ended
<1>4. ASSUME NEW k \in Keys, NEW step \in Steps, Free(k), Take(r, k), Goto(r, step),
             UNCHANGED <<brands, users, invitations, audit, tokens, kind, mem>>
      PROVE  Undisturbed(s)
  <2>1. \A l \in Keys : held[l] = s => held'[l] = s
    BY <1>4, TakesOwn DEF Placement
  <2>2. pc'[s] = pc[s] /\ mem'[s] = mem[s] BY <1>0, <1>4 DEF Goto
  <2>3. QED BY <1>4, <2>1, <2>2, SameTables
<1>5. CASE CreateBrand(r)
  BY <1>0, <1>3, <1>4, <1>5, KeysTyped DEF CreateBrand, Known, BrandSteps, Steps, Running
<1>6. CASE CreateOwner(r)
  BY <1>0, <1>3, <1>4, <1>6, KeysTyped DEF CreateOwner, Known, BrandSteps, Steps, Running
<1>7. CASE FindPending(r)
  <2>1. Refuse(r) \/ /\ pc'[s] = pc[s] /\ mem'[s] = mem[s]
                     /\ UNCHANGED <<brands, users, invitations, held>>
    BY <1>0, <1>7 DEF FindPending, Goto
  <2>2. QED BY <1>3, <2>1, SameTables
<1>8. CASE DeleteExpired(r)
  BY <1>0, <1>3, <1>4, <1>8, KeysTyped DEF DeleteExpired, Known, Steps, Running
<1>9. CASE InsertInvitation(r)
  <2>1. <<mem[r].brand, mem[r].email>> \in Keys
    BY <1>0, <1>9, KeysTyped DEF InsertInvitation, Known, InviteSteps
  <2>2. QED BY <1>3, <1>4, <1>9, <2>1 DEF InsertInvitation, Steps, Running
<1>10. CASE LockInvitation(r)
  BY <1>0, <1>3, <1>4, <1>10, KeysTyped DEF LockInvitation, Known, AcceptSteps, Steps, Running
<1>11. CASE CreateMember(r)
  <2>1. invitations[mem[r].row].email \in Keys
    <3>1. mem[r].row \in Invitations /\ invitations[mem[r].row] # NoRow
      BY <1>0, <1>11 DEF CreateMember, Known, AcceptSteps
    <3>2. QED BY <1>0, <3>1, KeysTyped DEF Typed, TypeOK, Invitation
  <2>2. QED BY <1>3, <1>4, <1>11, <2>1 DEF CreateMember, Steps, Running
<1>12. CASE CommitBrand(r)
  <2>1. End(r, "answered") BY <1>12 DEF CommitBrand
  <2>2. \E b \in Brands, e \in Emails : FoundBrand(b, e) BY <1>12, CommitBrandFounds
  <2>3. QED BY <1>0, <1>2, <2>1, <2>2, OperationUndisturbing DEF Undisturbed, Ended
<1>13. CASE CommitInvitation(r)
  <2>1. End(r, "answered") BY <1>13 DEF CommitInvitation
  <2>2. \E i \in Invitations, old \in Invitations \cup {NoRow}, b \in Brands, e \in Emails,
           role \in Invitee : /\ IssueInvitation(i, old, b, e, role)
                              /\ held[<<b, e>>] # s
                              /\ old \in Invitations => held[old] # s
    <3>1. /\ mem[r].brand \in Brands /\ mem[r].email \in Emails /\ mem[r].role \in Invitee
          /\ mem[r].row \in Invitations \cup {NoRow}
          /\ held[<<mem[r].brand, mem[r].email>>] # s
          /\ mem[r].row \in Invitations => held[mem[r].row] # s
      BY <1>13, CommitInvitationIssues
    <3>2. PICK i \in Invitations :
            IssueInvitation(i, mem[r].row, mem[r].brand, mem[r].email, mem[r].role)
      BY <1>13, CommitInvitationIssues
    <3>3. QED BY <3>1, <3>2
  <2>3. QED BY <1>0, <1>2, <2>1, <2>2, OperationUndisturbing DEF Undisturbed, Ended
<1>14. CASE CommitMember(r)
  <2>1. End(r, "answered") BY <1>14 DEF CommitMember
  <2>2. \E i \in Invitations : JoinBrand(i) /\ held[i] # s BY <1>14, CommitMemberJoins
  <2>3. QED BY <1>0, <1>2, <2>1, <2>2, OperationUndisturbing DEF Undisturbed, Ended
<1>15. CASE Disable(r)
  <2>1. End(r, "answered") BY <1>15 DEF Disable
  <2>2. \E e \in Emails : DisableMember(e) BY <1>15, DisableDisables
  <2>3. QED BY <1>0, <1>2, <2>1, <2>2, OperationUndisturbing DEF Undisturbed, Ended
<1>16. CASE SetBrandStatus(r)
  <2>1. End(r, "answered") BY <1>16 DEF SetBrandStatus
  <2>2. \E b \in Brands, status \in {"active", "suspended"} : SetStatus(b, status)
    BY <1>16, SetBrandStatusSets
  <2>3. QED BY <1>0, <1>2, <2>1, <2>2, OperationUndisturbing DEF Undisturbed, Ended
<1>17. CASE IssueToken(r)
  <2>1. End(r, "answered") /\ UNCHANGED <<brands, users, invitations>>
    BY <1>17 DEF IssueToken
  <2>2. QED BY <1>2, <2>1, SameTables DEF Ended
<1>18. QED
  BY <1>1, <1>3, <1>5, <1>6, <1>7, <1>8, <1>9, <1>10, <1>11, <1>12, <1>13, <1>14, <1>15, <1>16,
     <1>17 DEF Progress, Fail

(* And it leaves itself what it will rely on.                                *)
LEMMA OwnPlaced ==
    ASSUME Placement, NEW r \in Requests, Begin(r) \/ Progress(r) \/ Fail(r)
    PROVE  Placed(r)'
<1>0. /\ Typed /\ Known(r) /\ Placed(r) /\ NoRow \notin Invitations /\ NoRow \notin Invitation
      /\ mem \in [Requests -> [brand: Brands \cup {NoRow}, email: Emails \cup {NoRow},
                               role: Invitee \cup {NoRow}, row: Invitations \cup {NoRow}]]
      /\ held \in [Keys -> Requests \cup {Nobody}] /\ pc \in [Requests -> Steps]
      /\ invitations \in [Invitations -> Invitation \cup {NoRow}]
  BY MembershipAssumption DEF Placement, Safe, Typed, TypeOK, Invitation
<1> USE DEF InviteSteps, AcceptSteps, BrandSteps
<1>1. CASE Begin(r)
  <2>1. CASE Invite(r)
    <3>1. PICK o \in Emails, e \in Emails, role \in Invitee :
             /\ Manages(o)
             /\ mem' = [mem EXCEPT ![r] = [brand |-> users[o].brand, email |-> e, role |-> role,
                                           row |-> NoRow]]
      BY <2>1 DEF Invite
    <3>2. mem'[r].brand = users[o].brand /\ mem'[r].row = NoRow BY <1>0, <3>1
    <3>3. brands[users[o].brand] # "none" BY <3>1 DEF Manages, Enabled
    <3>4. pc'[r] = "find" /\ UNCHANGED brands BY <1>0, <2>1 DEF Invite, Goto
    <3>5. QED BY <1>0, <3>2, <3>3, <3>4 DEF Placed
  <2>2. CASE Login(r)
    <3>1. PICK e \in Emails : Enabled(e) /\ mem' = [mem EXCEPT ![r].email = e] BY <2>2 DEF Login
    <3>2. pc'[r] = "issue" /\ mem'[r].email = e /\ users'[e] # NoUser
      BY <1>0, <2>2, <3>1 DEF Login, Goto, Enabled
    <3>3. QED BY <3>2 DEF Placed
  <2>3. CASE Register(r) \/ Accept(r) \/ Remove(r) \/ GetBrand(r)
    <3>1. pc'[r] \in {"createBrand", "lock", "disable", "setStatus"}
      BY <1>0, <2>3 DEF Register, Accept, Remove, GetBrand, Goto
    <3>2. QED BY <3>1 DEF Placed
  <2>4. QED BY <1>1, <2>1, <2>2, <2>3 DEF Begin
<1>2. ASSUME NEW step \in Ended, End(r, step) PROVE Placed(r)'
  BY <1>0, <1>2, EndTyped DEF Placed, Ended
<1>3. CASE Refuse(r) BY <1>2, <1>3 DEF Refuse, Ended
<1>4. CASE CreateBrand(r) \/ CreateOwner(r)
  <2>1. Refuse(r) \/ pc'[r] \in {"createOwner", "commitBrand"}
    BY <1>0, <1>4 DEF CreateBrand, CreateOwner, Goto
  <2>2. QED BY <1>3, <2>1 DEF Placed
<1>5. CASE FindPending(r)
  <2> DEFINE found == PendingFor(mem[r].brand, mem[r].email)
  <2>0. brands[mem[r].brand] # "none" /\ mem[r].row \notin Invitations
    BY <1>0, <1>5 DEF FindPending, Placed
  <2>1. CASE found = {}
    <3>1. pc'[r] = "insert" /\ UNCHANGED <<brands, mem>> BY <1>0, <1>5, <2>1 DEF FindPending, Goto
    <3>2. QED BY <2>0, <3>1 DEF Placed
  <2>2. CASE found # {}
    <3>1. PICK i \in found :
            IF ~invitations[i].expired THEN Refuse(r)
            ELSE /\ mem' = [mem EXCEPT ![r].row = i]
                 /\ Goto(r, "delete")
                 /\ UNCHANGED <<brands, users, invitations, audit, tokens, kind, held>>
      BY <1>5, <2>2 DEF FindPending
    <3>2. CASE invitations[i].expired
      <4>1. i \in Invitations /\ invitations[i].brand = mem[r].brand
            /\ invitations[i].email = mem[r].email
        BY DEF PendingFor
      <4>2. pc'[r] = "delete" /\ UNCHANGED <<brands, invitations>> BY <1>0, <3>1, <3>2 DEF Goto
      <4>3. /\ mem'[r].row = i /\ mem'[r].brand = mem[r].brand
            /\ mem'[r].email = mem[r].email
        BY <1>0, <3>1, <3>2, <4>1
      <4>4. QED BY <2>0, <3>2, <4>1, <4>2, <4>3 DEF Placed
    <3>3. QED BY <1>3, <3>1, <3>2
  <2>3. QED BY <2>1, <2>2
<1>6. CASE DeleteExpired(r)
  <2>1. CASE Row(mem[r].row)
    <3>1. mem[r].row \in Keys BY <1>0, <1>6, KeysTyped DEF DeleteExpired, Known
    <3>2. pc[r] = "delete" /\ pc'[r] = "insert" /\ held'[mem[r].row] = r
          /\ UNCHANGED <<brands, invitations, mem>>
      BY <1>0, <1>6, <2>1, <3>1 DEF DeleteExpired, Goto, Take
    <3>3. QED BY <1>0, <2>1, <3>2 DEF Placed, Row
  <2>2. QED BY <1>3, <1>6, <2>1 DEF DeleteExpired
<1>7. CASE InsertInvitation(r)
  <2> DEFINE key == <<mem[r].brand, mem[r].email>>
  <2>1. CASE ~Refuse(r)
    <3>1. key \in Keys BY <1>0, <1>7, KeysTyped DEF InsertInvitation, Known
    <3>2. /\ PendingFor(mem[r].brand, mem[r].email) \subseteq {mem[r].row}
          /\ Take(r, key) /\ Goto(r, "commitInvitation")
          /\ UNCHANGED <<brands, invitations, mem>>
          /\ pc[r] = "insert"
      BY <1>7, <2>1 DEF InsertInvitation
    <3>3. pc'[r] = "commitInvitation" BY <1>0, <3>2 DEF Goto
    <3>4. held'[key] = r /\ \A k \in Keys : held[k] = r => held'[k] = r
      BY <1>0, <3>1, <3>2 DEF Take
    <3>5. mem[r].row \in Invitations => mem[r].row \in Keys BY KeysTyped
    <3>6. PendingFor(mem[r].brand, mem[r].email)' \subseteq {mem[r].row}
      BY <3>2 DEF PendingFor, Pending, Row
    <3>7. /\ brands[mem[r].brand] # "none"
          /\ mem[r].row \in Invitations =>
               /\ invitations[mem[r].row].brand = mem[r].brand
               /\ invitations[mem[r].row].email = mem[r].email
               /\ invitations[mem[r].row].expired
               /\ held[mem[r].row] = r /\ Row(mem[r].row)
      BY <1>0, <3>2 DEF Placed
    <3>8. Row(mem[r].row) => Row(mem[r].row)' BY <3>2 DEF Row
    <3>9. QED BY <3>2, <3>3, <3>4, <3>5, <3>6, <3>7, <3>8 DEF Placed
  <2>2. QED BY <1>3, <2>1
<1>8. CASE LockInvitation(r)
  <2>1. CASE Valid(mem[r].row)
    <3>1. mem[r].row \in Keys BY <1>0, <1>8, KeysTyped DEF LockInvitation, Known
    <3>2. pc'[r] = "createMember" /\ held'[mem[r].row] = r /\ UNCHANGED <<invitations, mem>>
      BY <1>0, <1>8, <2>1, <3>1 DEF LockInvitation, Goto, Take
    <3>3. Pending(mem[r].row)' BY <2>1, <3>2 DEF Valid, Pending, Row
    <3>4. QED BY <3>2, <3>3 DEF Placed
  <2>2. QED BY <1>3, <1>8, <2>1 DEF LockInvitation
<1>9. CASE CreateMember(r)
  <2>1. CASE ~Refuse(r)
    <3>1. /\ pc[r] = "createMember" /\ Take(r, invitations[mem[r].row].email)
          /\ Goto(r, "commitMember") /\ UNCHANGED <<invitations, mem>>
      BY <1>9, <2>1 DEF CreateMember
    <3>2. mem[r].row \in Keys /\ held[mem[r].row] = r /\ Pending(mem[r].row)
      BY <1>0, <3>1, KeysTyped DEF Known, Placed
    <3>3. pc'[r] = "commitMember" /\ held'[mem[r].row] = r BY <1>0, <3>1, <3>2 DEF Goto, Take
    <3>4. Pending(mem[r].row)' BY <3>1, <3>2 DEF Pending, Row
    <3>5. QED BY <3>1, <3>3, <3>4 DEF Placed
  <2>2. QED BY <1>3, <2>1
<1>10. CASE \/ CommitBrand(r) \/ CommitInvitation(r) \/ CommitMember(r) \/ Disable(r)
            \/ IssueToken(r) \/ SetBrandStatus(r)
  BY <1>2, <1>10 DEF CommitBrand, CommitInvitation, CommitMember, Disable, IssueToken,
                     SetBrandStatus, Ended
<1>11. QED
  BY <1>1, <1>3, <1>4, <1>5, <1>6, <1>7, <1>8, <1>9, <1>10 DEF Progress, Fail

LEMMA InitPlacement == Init => Placement
BY InitSafe, MembershipAssumption DEF Init, Placement, Placed, NoMemory, InviteSteps

LEMMA NextPlacement == Placement /\ [Next]_vars => Placement'
<1> SUFFICES ASSUME Placement, [Next]_vars PROVE Placement'
  OBVIOUS
<1>0. Typed /\ Safe' BY NextSafe DEF Placement, Safe
<1>1. CASE UNCHANGED vars
  BY <1>0, <1>1 DEF vars, Placement, Placed, Row, Pending, PendingFor
<1>2. ASSUME NEW r \in Requests, Begin(r) \/ Progress(r) \/ Fail(r) PROVE Placement'
  <2>1. ASSUME NEW s \in Requests PROVE Placed(s)'
    <3>1. CASE s = r BY <1>2, <3>1, OwnPlaced
    <3>2. CASE s # r
      <4>1. Undisturbed(s) BY <1>2, <3>2, OthersUndisturbed
      <4>2. Placed(s) BY DEF Placement
      <4>3. QED BY <1>0, <4>1, <4>2, PlacedLasts
    <3>3. QED BY <3>1, <3>2
  <2>2. QED BY <1>0, <2>1 DEF Placement
<1>3. ASSUME NEW i \in Invitations, Expire(i) PROVE Placement'
  <2>1. ASSUME NEW s \in Requests PROVE Placed(s)'
    <3>1. /\ RowsUndisturbed(s) /\ KeysUndisturbed(s)
      BY <1>0, <1>3, ExpireLapses, OperationUndisturbing
    <3>2. UNCHANGED <<brands, users, pc, mem, held>> BY <1>3 DEF Expire
    <3>3. Undisturbed(s) BY <3>1, <3>2 DEF Undisturbed
    <3>4. QED BY <1>0, <3>3, PlacedLasts DEF Placement
  <2>2. QED BY <1>0, <2>1 DEF Placement
<1>4. QED BY <1>1, <1>2, <1>3 DEF Next

(* Every step is one operation of Membership, or shows nothing of itself.    *)
LEMMA NextMembership == Placement /\ [Next]_vars => [MembershipNext]_membershipVars
<1> SUFFICES ASSUME Placement, [Next]_vars
             PROVE  MembershipNext \/ UNCHANGED membershipVars
  OBVIOUS
<1>1. CASE UNCHANGED vars BY <1>1 DEF vars, membershipVars
<1>2. ASSUME NEW r \in Requests, Begin(r) PROVE UNCHANGED membershipVars
  BY <1>2 DEF Begin, Register, Invite, Accept, Remove, Login, GetBrand, membershipVars
<1>3. ASSUME NEW r \in Requests, Progress(r) PROVE MembershipNext \/ UNCHANGED membershipVars
  <2>1. CASE CommitBrand(r) BY <2>1, CommitBrandFounds DEF MembershipNext
  <2>2. CASE CommitInvitation(r) BY <2>2, CommitInvitationIssues DEF MembershipNext
  <2>3. CASE CommitMember(r) BY <2>3, CommitMemberJoins DEF MembershipNext
  <2>4. CASE Disable(r) BY <2>4, DisableDisables DEF MembershipNext
  <2>5. CASE IssueToken(r) BY <2>5, IssueTokenSignsIn DEF MembershipNext
  <2>6. CASE SetBrandStatus(r) BY <2>6, SetBrandStatusSets DEF MembershipNext
  <2>7. CASE \/ CreateBrand(r) \/ CreateOwner(r) \/ FindPending(r) \/ DeleteExpired(r)
             \/ InsertInvitation(r) \/ LockInvitation(r) \/ CreateMember(r)
    BY <2>7 DEF CreateBrand, CreateOwner, FindPending, DeleteExpired, InsertInvitation,
                LockInvitation, CreateMember, Refuse, membershipVars
  <2>8. QED BY <1>3, <2>1, <2>2, <2>3, <2>4, <2>5, <2>6, <2>7 DEF Progress
<1>4. ASSUME NEW r \in Requests, Fail(r) PROVE UNCHANGED membershipVars
  BY <1>4 DEF Fail, Refuse, membershipVars
<1>5. ASSUME NEW i \in Invitations, Expire(i) PROVE MembershipNext
  BY <1>5, ExpireLapses DEF MembershipNext
<1>6. QED BY <1>1, <1>2, <1>3, <1>4, <1>5 DEF Next

(* Registrations, invitations, acceptances, removals, sign-ins and           *)
(* suspensions, however they interleave and wherever they fail, change the   *)
(* tables as if each happened at once.                                       *)
THEOREM AccountsImplementMembership == Spec => ImplementsMembership
<1>1. Init => MembershipInit BY DEF Init
<1>2. QED
  BY <1>1, InitPlacement, NextPlacement, NextMembership, PTL
     DEF Spec, ImplementsMembership, MembershipSpec
=============================================================================
