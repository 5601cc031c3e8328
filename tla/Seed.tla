-------------------------------- MODULE Seed --------------------------------
(***************************************************************************)
(* The seed script: an API container runs it at every start (RUN_SEED), so *)
(* it runs on an empty database, on one it has seeded before, on one users *)
(* have worked with since, and on what a run that was stopped left behind. *)
(* A run from the host may overlap with a container's.                     *)
(*                                                                         *)
(* Each step is one statement of the script; what it does not find it      *)
(* creates, in a later statement. The five users of a brand stand for one  *)
(* member, a kind of product for the products with the same parts.         *)
(***************************************************************************)
EXTENDS Naturals, Sequences, FiniteSets, Functions

CONSTANTS
    Runners,      \* the containers (or shells) that run the seed
    Brands,       \* BRANDS: a sequence of [slug, suspended]
    Kinds,        \* the products of a brand, in order
    MaxStops,     \* bound: containers killed, and statements that throw
    MaxChanges    \* bound: changes users make

(* The parts of a product, in the order ensureRichProduct creates them.     *)
BasicParts == <<"row", "materials">>
FileParts  == <<"cover", "gallery", "certification", "documents">>
LiveParts  == <<"passport", "versions", "pointer", "status", "items", "item qr", "scans", "audit">>

Parts(k) ==
    CASE k = "incomplete" -> BasicParts
      [] k = "archived"   -> BasicParts \o <<"cover">>
      [] k = "ready"      -> BasicParts \o FileParts
      [] k = "live"       -> BasicParts \o FileParts \o LiveParts

ASSUME SeedAssumption ==
    /\ IsFiniteSet(Runners)
    /\ Brands \in Seq([slug : STRING, suspended : BOOLEAN]) /\ Brands # <<>>
    /\ Kinds \in Seq({"incomplete", "archived", "ready", "live"}) /\ Kinds # <<>>
    /\ MaxStops \in Nat /\ MaxChanges \in Nat

BrandIds == DOMAIN Brands
Keys == BrandIds \X Range(Kinds)

(* A product users make themselves, beside those of the script.             *)
Own == <<0, "own">>
Products == Keys \cup {Own}

VARIABLES
    org,        \* org[b]: "none", "active" or "suspended"
    catalog,    \* the brands whose categories, countries and presets exist
    member,     \* member[b]: "none", "active" or "removed"
    built,      \* built[p][r]: how many parts r has made of a product p; 0: no row
    invite,     \* invite[b]: "none", "pending" or "accepted", the latest one
    packs,      \* packs[b]: how many copies of the seeded activity there are
    noted,      \* noted[b]: how many admin audit entries there are
    numbers,    \* numbers[p]: the sustainability numbers of a product; "none": no row
    at,         \* at[r]: where r is: [step, brand, kind, part]
    found,      \* found[r]: the products r's safety net has found and not patched yet
    stops,      \* bound: how many runs have been stopped
    changes,    \* bound: how many changes users have made
    (* history *)
    undone,     \* <<"org", b>>, <<"member", b>>, <<"numbers", p>>: changed since a seed wrote it
    cut,        \* <<p, r>>: r was stopped while it made product p
    overlap,    \* have two runs been seeding at a time?
    beside,     \* has one been seeding beside a container that was up?
    crowded,    \* the runs that have been seeding beside another one
    typedLost   \* has the net replaced numbers a user had typed, all of them?

vars == <<org, catalog, member, built, invite, packs, noted, numbers, at, found,
          stops, changes, undone, cut, overlap, beside, crowded, typedLost>>

tables == <<org, catalog, member, built, invite, packs, noted, numbers, undone, typedLost>>
company == <<overlap, beside, crowded>>

Step(s, b, k, n) == [step |-> s, brand |-> b, kind |-> k, part |-> n]

Down == Step("down", 0, 0, 0)
Up == Step("up", 0, 0, 0)
Failed == Step("failed", 0, 0, 0)    \* on a row that another run has made
Thrown == Step("thrown", 0, 0, 0)    \* on anything else

Off == {"down", "failed", "thrown"}

Seeding(r) == at[r].step \notin Off \cup {"up"}
ApiRuns == \E r \in Runners : at[r] = Up

SeededState(b) == IF Brands[b].suspended THEN "suspended" ELSE "active"

Init ==
    /\ org = [b \in BrandIds |-> "none"]
    /\ catalog = {}
    /\ member = [b \in BrandIds |-> "none"]
    /\ built = [p \in Keys |-> [r \in Runners |-> 0]]
    /\ invite = [b \in BrandIds |-> "none"]
    /\ packs = [b \in BrandIds |-> 0]
    /\ noted = [b \in BrandIds |-> 0]
    /\ numbers = [p \in Products |-> "none"]
    /\ at = [r \in Runners |-> Down]
    /\ found = [r \in Runners |-> {}]
    /\ stops = 0 /\ changes = 0
    /\ undone = {} /\ cut = {} /\ typedLost = FALSE
    /\ overlap = FALSE /\ beside = FALSE /\ crowded = {}

-----------------------------------------------------------------------------
(* The container *)

GoTo(r, place) == at' = [at EXCEPT ![r] = place]

Fail(r) == GoTo(r, Failed)

(* docker-entrypoint.sh: migrations, the seed, then the API.                *)
Boot(r) ==
    LET others == {q \in Runners \ {r} : Seeding(q)} IN
    /\ at[r].step \in Off
    /\ GoTo(r, Step("admin", 1, 1, 1))
    /\ overlap' = (overlap \/ others # {})
    /\ beside' = (beside \/ ApiRuns)
    /\ crowded' = IF others = {} THEN crowded \ {r} ELSE crowded \cup others \cup {r}
    /\ UNCHANGED <<tables, found, stops, changes, cut>>

(* A container is killed, or a statement or a file write of its seed throws *)
(* (a lost connection, a full disk, an upsert that loses a race): main()    *)
(* catches it, and docker-entrypoint.sh ends with the script.               *)
Stop(r) ==
    /\ stops < MaxStops
    /\ \/ at[r].step \notin Off /\ GoTo(r, Down)
       \/ Seeding(r) /\ GoTo(r, Thrown)
    /\ stops' = stops + 1
    /\ found' = [found EXCEPT ![r] = {}]
    /\ LET p == <<at[r].brand, IF at[r].kind \in DOMAIN Kinds THEN Kinds[at[r].kind] ELSE "">> IN
       cut' = IF at[r].step = "make" /\ at[r].part > 1 THEN cut \cup {<<p, r>>} ELSE cut
    /\ UNCHANGED <<tables, changes, company>>

-----------------------------------------------------------------------------
(* main(): accounts and brands *)

EnsureAdmin(r) ==
    /\ at[r].step = "admin"
    /\ GoTo(r, Step("org", 1, 1, 1))
    /\ UNCHANGED <<tables, found, stops, changes, cut, company>>

(* Broken, for mutation: an existing brand keeps its suspension.            *)
EnsureOrganisationOnce(r) ==
    LET b == at[r].brand IN
    /\ at[r].step = "org"
    /\ org' = [org EXCEPT ![b] = IF @ = "none" THEN SeededState(b) ELSE @]
    /\ undone' = undone \ {<<"org", b>>}
    /\ GoTo(r, Step("team", b, 1, 1))
    /\ UNCHANGED <<catalog, member, built, invite, packs, noted, numbers, typedLost,
                   found, stops, changes, cut, company>>

(* ensureOrganisation: the upsert also resets disabledAt of an old brand.   *)
EnsureOrganisation(r) ==
    LET b == at[r].brand IN
    /\ at[r].step = "org"
    /\ org' = [org EXCEPT ![b] = SeededState(b)]
    /\ undone' = undone \ {<<"org", b>>}
    /\ GoTo(r, Step("team", b, 1, 1))
    /\ UNCHANGED <<catalog, member, built, invite, packs, noted, numbers, typedLost,
                   found, stops, changes, cut, company>>

(* seedBrandTeam: ensureUser restores role, password and access.            *)
SeedBrandTeam(r) ==
    LET b == at[r].brand IN
    /\ at[r].step = "team"
    /\ member' = [member EXCEPT ![b] = "active"]
    /\ undone' = undone \ {<<"member", b>>}
    /\ GoTo(r, Step("catalog", b, 1, 1))
    /\ UNCHANGED <<org, catalog, built, invite, packs, noted, numbers, typedLost,
                   found, stops, changes, cut, company>>

(* provisionOrganisationCatalog, in one transaction, skipping duplicates.   *)
Provision(r) ==
    /\ at[r].step = "catalog"
    /\ catalog' = catalog \cup {at[r].brand}
    /\ GoTo(r, Step("find", at[r].brand, 1, 1))
    /\ UNCHANGED <<org, member, built, invite, packs, noted, numbers, undone, typedLost,
                   found, stops, changes, cut, company>>

-----------------------------------------------------------------------------
(* ensureRichProduct *)

Key(r) == <<at[r].brand, Kinds[at[r].kind]>>

Exists(p) == \E q \in Runners : built[p][q] > 0

AfterProduct(r) ==
    IF at[r].kind = Len(Kinds)
    THEN Step("find invite", at[r].brand, 1, 1)
    ELSE Step("find", at[r].brand, at[r].kind + 1, 1)

(* A product that exists gets the script's numbers again, and is left as it *)
(* is otherwise, whatever the run that made it got done.                    *)
FindProduct(r) ==
    LET p == Key(r) IN
    /\ at[r].step = "find"
    /\ \/ /\ Exists(p)
          /\ numbers' = [numbers EXCEPT ![p] = "script"]
          /\ undone' = undone \ {<<"numbers", p>>}
          /\ GoTo(r, AfterProduct(r))
       \/ /\ ~Exists(p)
          /\ GoTo(r, Step("make", at[r].brand, at[r].kind, 1))
          /\ UNCHANGED <<numbers, undone>>
    /\ UNCHANGED <<org, catalog, member, built, invite, packs, noted, typedLost,
                   found, stops, changes, cut, company>>

(* SKUs are unique among the products that are not archived, and the script *)
(* creates the archived one archived.                                       *)
Taken(p) == p[2] # "archived" /\ Exists(p)

(* Broken, for mutation: the test of opts.publish is inverted.              *)
LastInverted(p, n) == n = Len(Parts(p[2])) \/ Parts(p[2])[n] = "documents"

Last(p, n) == n = Len(Parts(p[2]))

(* One part: the row with its sustainability, the materials, one file and   *)
(* its row, the passport, ... , each a statement of its own.                *)
MakePart(r) ==
    LET p == Key(r)  n == at[r].part IN
    /\ at[r].step = "make"
    /\ \/ /\ n = 1 /\ Taken(p)
          /\ Fail(r)
          /\ UNCHANGED <<built, numbers>>
       \/ /\ n > 1 \/ ~Taken(p)
          /\ built' = [built EXCEPT ![p][r] = n]
          /\ numbers' = IF n = 1 THEN [numbers EXCEPT ![p] = "script"] ELSE numbers
          /\ GoTo(r, IF Last(p, n) THEN AfterProduct(r)
                     ELSE Step("make", p[1], at[r].kind, n + 1))
    /\ UNCHANGED <<org, catalog, member, invite, packs, noted, undone, typedLost,
                   found, stops, changes, cut, company>>

-----------------------------------------------------------------------------
(* The invitation, the activity and the admin's note: look, then create *)

Look(r, step, exists, create, next) ==
    /\ at[r].step = step
    /\ GoTo(r, Step(IF exists THEN next ELSE create, at[r].brand, 1, 1))
    /\ UNCHANGED <<tables, found, stops, changes, cut, company>>

(* Broken, for mutation: it always invites.                                 *)
FindInvitationNever(r) ==
    Look(r, "find invite", FALSE, "create invite", "find activity")

FindInvitation(r) ==
    Look(r, "find invite", invite[at[r].brand] = "pending", "create invite", "find activity")

(* One pending invitation per email and brand; an accepted one is not       *)
(* pending, so the next run invites the same address again.                 *)
CreateInvitation(r) ==
    LET b == at[r].brand IN
    /\ at[r].step = "create invite"
    /\ \/ /\ invite[b] = "pending"
          /\ Fail(r)
          /\ UNCHANGED invite
       \/ /\ invite[b] # "pending"
          /\ invite' = [invite EXCEPT ![b] = "pending"]
          /\ GoTo(r, Step("find activity", b, 1, 1))
    /\ UNCHANGED <<org, catalog, member, built, packs, noted, numbers, undone, typedLost,
                   found, stops, changes, cut, company>>

(* Broken, for mutation: nothing marks the activity as written.             *)
FindActivityUnmarked(r) ==
    Look(r, "find activity", FALSE, "create activity", "find note")

FindActivity(r) ==
    Look(r, "find activity", packs[at[r].brand] > 0, "create activity", "find note")

(* One createMany, so all of the entries or none, for the products there    *)
(* are.                                                                     *)
CreateActivity(r) ==
    /\ at[r].step = "create activity"
    /\ packs' = [packs EXCEPT ![at[r].brand] = @ + 1]
    /\ GoTo(r, Step("find note", at[r].brand, 1, 1))
    /\ UNCHANGED <<org, catalog, member, built, invite, noted, numbers, undone, typedLost,
                   found, stops, changes, cut, company>>

AfterBrand(b) == IF b = Len(Brands) THEN "find empty" ELSE "org"

FindNote(r) ==
    /\ at[r].step = "find note"
    /\ GoTo(r, IF noted[at[r].brand] > 0
               THEN Step(AfterBrand(at[r].brand), at[r].brand + 1, 1, 1)
               ELSE Step("create note", at[r].brand, 1, 1))
    /\ UNCHANGED <<tables, found, stops, changes, cut, company>>

CreateNote(r) ==
    LET b == at[r].brand IN
    /\ at[r].step = "create note"
    /\ noted' = [noted EXCEPT ![b] = @ + 1]
    /\ GoTo(r, Step(AfterBrand(b), b + 1, 1, 1))
    /\ UNCHANGED <<org, catalog, member, built, invite, packs, numbers, undone, typedLost,
                   found, stops, changes, cut, company>>

-----------------------------------------------------------------------------
(* The safety net: every product of every brand that misses a number gets *)
(* all five, those somebody typed included.                               *)

FindEmpty(r) ==
    /\ at[r].step = "find empty"
    /\ found' = [found EXCEPT ![r] = {p \in Products : numbers[p] \in {"empty", "partial"}}]
    /\ GoTo(r, Step("patch", 1, 1, 1))
    /\ UNCHANGED <<tables, stops, changes, cut, company>>

(* One after the other, without another look.                               *)
Patch(r) ==
    /\ at[r].step = "patch"
    /\ \/ /\ found[r] = {}
          /\ GoTo(r, Up)
          /\ UNCHANGED <<numbers, typedLost, found>>
       \/ /\ \E p \in found[r] :
                /\ numbers' = [numbers EXCEPT ![p] = "invented"]
                /\ typedLost' = (typedLost \/ numbers[p] = "typed")
                /\ found' = [found EXCEPT ![r] = @ \ {p}]
          /\ UNCHANGED at
    /\ UNCHANGED <<org, catalog, member, built, invite, packs, noted, undone,
                   stops, changes, cut, company>>

-----------------------------------------------------------------------------
(* What users do through the API between runs, or beside one *)

Change ==
    /\ ApiRuns /\ changes < MaxChanges
    /\ changes' = changes + 1

(* The platform admin suspends or reactivates a brand.                      *)
ToggleBrand(b) ==
    /\ Change /\ org[b] # "none"
    /\ org' = [org EXCEPT ![b] = IF @ = "active" THEN "suspended" ELSE "active"]
    /\ undone' = undone \cup {<<"org", b>>}
    /\ UNCHANGED <<catalog, member, built, invite, packs, noted, numbers, typedLost,
                   at, found, stops, cut, company>>

RemoveMember(b) ==
    /\ Change /\ member[b] = "active"
    /\ member' = [member EXCEPT ![b] = "removed"]
    /\ undone' = undone \cup {<<"member", b>>}
    /\ UNCHANGED <<org, catalog, built, invite, packs, noted, numbers, typedLost,
                   at, found, stops, cut, company>>

AcceptInvitation(b) ==
    /\ Change /\ invite[b] = "pending"
    /\ invite' = [invite EXCEPT ![b] = "accepted"]
    /\ UNCHANGED <<org, catalog, member, built, packs, noted, numbers, undone, typedLost,
                   at, found, stops, cut, company>>

(* A user creates a product, which has no numbers yet, and types some of    *)
(* its numbers, all of them or clears them; for the script's products too,  *)
(* but for the archived one.                                                *)
EditNumbers(p) ==
    /\ Change
    /\ \/ p = Own /\ numbers[p] = "none" /\ numbers' = [numbers EXCEPT ![p] = "empty"]
       \/ /\ p[2] # "archived" /\ numbers[p] # "none"
          /\ \E v \in {"empty", "partial", "typed"} \ {numbers[p]} :
                numbers' = [numbers EXCEPT ![p] = v]
    /\ undone' = undone \cup {<<"numbers", p>>}
    /\ UNCHANGED <<org, catalog, member, built, invite, packs, noted, typedLost,
                   at, found, stops, cut, company>>

-----------------------------------------------------------------------------
SeedStep(r) ==
    \/ EnsureAdmin(r) \/ EnsureOrganisation(r) \/ SeedBrandTeam(r) \/ Provision(r)
    \/ FindProduct(r) \/ MakePart(r)
    \/ FindInvitation(r) \/ CreateInvitation(r)
    \/ FindActivity(r) \/ CreateActivity(r) \/ FindNote(r) \/ CreateNote(r)
    \/ FindEmpty(r) \/ Patch(r)

Next ==
    \/ \E r \in Runners : Boot(r) \/ SeedStep(r) \/ Stop(r)
    \/ \E b \in BrandIds : ToggleBrand(b) \/ RemoveMember(b) \/ AcceptInvitation(b)
    \/ \E p \in Products : EditNumbers(p)

Spec == Init /\ [][Next]_vars

(* A started script goes on. Nothing starts a container that has ended:     *)
(* docker-compose.yml gives api no restart policy.                          *)
FairSpec == Spec /\ \A r \in Runners : WF_vars(SeedStep(r))

-----------------------------------------------------------------------------
(* Properties *)

(* Every row has the rows it refers to: products come after the catalog,    *)
(* the catalog after the brand.                                             *)
TypeOK ==
    /\ org \in [BrandIds -> {"none", "active", "suspended"}]
    /\ member \in [BrandIds -> {"none", "active", "removed"}]
    /\ \A p \in Keys : built[p] \in [Runners -> 0..Len(Parts(p[2]))]
    /\ invite \in [BrandIds -> {"none", "pending", "accepted"}]
    /\ numbers \in [Products -> {"none", "empty", "partial", "typed", "script", "invented"}]
    /\ cut \subseteq Keys \X Runners
    /\ \A p \in Keys : Exists(p) => p[1] \in catalog
    /\ \A b \in catalog : org[b] # "none" /\ member[b] # "none"

(* Running the seed again adds nothing that is there already, unless two    *)
(* runs overlap: then the archived product, for which no index holds, the   *)
(* activity and the note may come twice. Live SKUs never do.                *)
SeededOnce ==
    /\ \A p \in Keys :
          LET rows == Cardinality({r \in Runners : built[p][r] > 0}) IN
          rows > 1 => overlap /\ p[2] = "archived"
    /\ \A b \in BrandIds : packs[b] > 1 \/ noted[b] > 1 => overlap

(* A product that misses parts and that nobody is making was cut short when *)
(* its run was stopped, by a kill or by an error, and one that was cut      *)
(* short stays so: no later run completes it.                               *)
OnlyStopsLeaveHalves ==
    /\ TypeOK
    /\ \A p \in Keys, r \in Runners :
       /\ (built[p][r] \in 1..(Len(Parts(p[2])) - 1) /\ ~(at[r].step = "make" /\ Key(r) = p))
             <=> <<p, r>> \in cut
       /\ <<p, r>> \in cut => built[p][r] \in 1..(Len(Parts(p[2])) - 1)

(* A suspension by the admin, the removal of a member and the numbers users *)
(* give a product of the script last only until the next run: what differs  *)
(* from the script was changed after it, or by the net of an overlapping    *)
(* run. The net replaces numbers of which one is missing; complete ones it  *)
(* replaces only if somebody typed beside it, since it looks first and      *)
(* writes later.                                                            *)
DecisionsLastUntilReseed ==
    /\ \A b \in BrandIds :
          /\ org[b] \notin {"none", SeededState(b)} => <<"org", b>> \in undone
          /\ member[b] = "removed" => <<"member", b>> \in undone
    /\ \A p \in Keys :
          numbers[p] \notin {"none", "script"} => <<"numbers", p>> \in undone \/ overlap
    /\ typedLost => overlap \/ beside

(* Whatever earlier runs have left behind, half products, second rows and   *)
(* used invitations included, a run that is started comes up, unless it is  *)
(* stopped itself; it trips over rows only of a run that seeds beside it.   *)
RunsComeUp ==
    \A r \in Runners :
       Seeding(r) ~> \/ at[r].step \in {"up", "down", "thrown"}
                     \/ at[r] = Failed /\ r \in crowded
=============================================================================
