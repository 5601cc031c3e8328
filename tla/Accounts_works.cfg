\* Three requests of all kinds: no account is lost, doubled or taken over, and no request hangs.
CONSTANTS
    r1 = r1
    r2 = r2
    r3 = r3
    b1 = b1
    b2 = b2
    b3 = b3
    o1 = o1
    o2 = o2
    p = p
    i1 = i1
    i2 = i2
    i3 = i3
    i4 = i4
    NoUser = NoUser
    NoRow = NoRow
    Nobody = Nobody
    Brands <- MCBrands
    Emails <- MCEmails
    Invitations <- MCInvitations
    Founder <- MCFounder
    Invited <- MCInvited
    Kinds <- AllKinds
    Requests <- MCThree
CHECK_DEADLOCK FALSE
SPECIFICATION FairSpec
INVARIANTS
    OneOwner
    MembersWereInvited
    AuditTellsAccounts
PROPERTIES
    ImplementsMembership
    EveryRequestEnds
