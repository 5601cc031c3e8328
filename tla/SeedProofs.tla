----------------------------- MODULE SeedProofs -----------------------------
(***************************************************************************)
(* Proofs about the seed script, for any number of containers and any      *)
(* brands and products: what running it again adds, what it leaves half    *)
(* made, and which decisions of users it keeps.                            *)
(*                                                                         *)
(* The inductive invariant says where a run can be (Places), what stands   *)
(* behind it (Behind) and, as long as no two runs have overlapped, that a  *)
(* run that found something missing is the only one to make it (Alone).    *)
(***************************************************************************)
EXTENDS Seed, FiniteSetTheorems, SequenceTheorems, TLAPS

Beginning == {"org", "team", "catalog"}
AtProduct == {"find", "make"}
Rest == {"find invite", "create invite", "find activity", "create activity",
         "find note", "create note"}
Ending == {"find empty", "patch", "up"}

AllSteps == Off \cup {"admin"} \cup Beginning \cup AtProduct \cup Rest \cup Ending

(* A run is at a brand of the script, and at a product and a part of it.    *)
Place(x) ==
    /\ x \in [step : AllSteps, brand : Nat, kind : Nat, part : Nat]
    /\ x.step \in Beginning \cup AtProduct \cup Rest => x.brand \in BrandIds
    /\ x.step \in AtProduct => x.kind \in DOMAIN Kinds
    /\ x.step = "make" => x.part \in 1..Len(Parts(Kinds[x.kind]))

Places ==
    /\ at = [r \in Runners |-> at[r]]
    /\ \A r \in Runners : Place(at[r])

Tables ==
    /\ org \in [BrandIds -> {"none", "active", "suspended"}]
    /\ catalog \subseteq BrandIds
    /\ member \in [BrandIds -> {"none", "active", "removed"}]
    /\ built \in [Keys -> [Runners -> Nat]]
    /\ \A p \in Keys, r \in Runners : built[p][r] <= Len(Parts(p[2]))
    /\ invite \in [BrandIds -> {"none", "pending", "accepted"}]
    /\ packs \in [BrandIds -> Nat] /\ noted \in [BrandIds -> Nat]
    /\ numbers \in [Products -> {"none", "empty", "partial", "typed", "script", "invented"}]
    /\ found \in [Runners -> SUBSET Products]
    /\ cut \subseteq Keys \X Runners
    /\ overlap \in BOOLEAN /\ beside \in BOOLEAN /\ typedLost \in BOOLEAN

(* What a run refers to it has made before, and nothing takes it back.      *)
RunBehind(r) ==
    /\ at[r].step \in {"team", "catalog"} => org[at[r].brand] # "none"
    /\ at[r].step = "catalog" => member[at[r].brand] # "none"
    /\ at[r].step \in AtProduct => at[r].brand \in catalog

Behind ==
    /\ \A r \in Runners : RunBehind(r)
    /\ \A b \in catalog : org[b] # "none" /\ member[b] # "none"
    /\ \A p \in Keys, r \in Runners : built[p][r] > 0 => p[1] \in catalog

(* A run that makes a product has made the parts before the one it is at.   *)
Making(r, p) == at[r].step = "make" /\ Key(r) = p

MadeSoFar(r) == at[r].step = "make" => built[Key(r)][r] = at[r].part - 1

Half(p, r) == built[p][r] \in 1..(Len(Parts(p[2])) - 1)

CutOnly(p, r) ==
    /\ (Half(p, r) /\ ~Making(r, p)) <=> <<p, r>> \in cut
    /\ <<p, r>> \in cut => Half(p, r)

Halves ==
    /\ \A r \in Runners : MadeSoFar(r)
    /\ \A p \in Keys, r \in Runners : CutOnly(p, r)

(* Without an overlap one run seeds at a time, and what it did not find is  *)
(* still missing when it makes it.                                          *)
StillMissing(r) ==
    /\ at[r].step = "make" => \A q \in Runners \ {r} : built[Key(r)][q] = 0
    /\ at[r].step = "create activity" => packs[at[r].brand] = 0
    /\ at[r].step = "create note" => noted[at[r].brand] = 0

Alone ==
    ~overlap =>
      /\ \A r, q \in Runners : Seeding(r) /\ Seeding(q) => r = q
      /\ \A r \in Runners : StillMissing(r)

(* One row per product, but for the archived one after an overlap.          *)
OneRow ==
    \A p \in Keys, r, q \in Runners :
       built[p][r] > 0 /\ built[p][q] > 0 => r = q \/ (overlap /\ p[2] = "archived")

OnePack == \A b \in BrandIds : packs[b] > 1 \/ noted[b] > 1 => overlap

(* No container is up beside a run that seeds unless one of the two came    *)
(* beside the other.                                                        *)
Beside ==
    \A r, q \in Runners : Seeding(r) /\ at[q] = Up => overlap \/ beside

(* The net patches what it found; in the meantime users have typed only     *)
(* beside it, and only another run has set the script's numbers again.      *)
NetRun(r) ==
    \A p \in found[r] :
       /\ at[r].step = "patch"
       /\ numbers[p] \in {"none", "script", "invented"} => overlap
       /\ numbers[p] = "typed" => overlap \/ beside

Net ==
    /\ \A r \in Runners : NetRun(r)
    /\ typedLost => overlap \/ beside

Decisions ==
    \A b \in BrandIds :
       /\ org[b] \notin {"none", SeededState(b)} => <<"org", b>> \in undone
       /\ member[b] = "removed" => <<"member", b>> \in undone

Numbers ==
    \A p \in Keys : numbers[p] \notin {"none", "script"} => <<"numbers", p>> \in undone \/ overlap

Inv ==
    /\ Tables /\ Places /\ Behind /\ Halves
    /\ Alone /\ Beside /\ OneRow /\ OnePack
    /\ Net /\ Decisions /\ Numbers

-----------------------------------------------------------------------------
(* Constants *)

LEMMA Joined ==
    ASSUME NEW S, NEW s \in Seq(S), NEW t \in Seq(S)
    PROVE  s \o t \in Seq(S) /\ Len(s \o t) = Len(s) + Len(t)
BY ConcatProperties, Zenon

(* Every kind of product has a row and at least one part more.              *)
LEMMA EveryKindHasParts ==
    ASSUME NEW k \in {"incomplete", "archived", "ready", "live"}
    PROVE  Len(Parts(k)) \in Nat /\ Len(Parts(k)) > 1
<1> DEFINE S == {"row", "materials", "cover", "gallery", "certification", "documents", "passport",
                 "versions", "pointer", "status", "items", "item qr", "scans", "audit"}
           b == BasicParts
           f == FileParts
           l == LiveParts
           c == <<"cover">>
<1>1. b \in Seq(S) /\ Len(b) = 2
  BY DEF BasicParts
<1>2. f \in Seq(S) /\ Len(f) = 4
  BY DEF FileParts
<1>3. l \in Seq(S) /\ Len(l) = 8
  BY DEF LiveParts
<1>4. c \in Seq(S) /\ Len(c) = 1
  OBVIOUS
<1>5. /\ Parts("incomplete") = b /\ Parts("archived") = b \o c
      /\ Parts("ready") = b \o f /\ Parts("live") = b \o f \o l
  BY DEF Parts
<1> HIDE DEF S, b, f, l, c
<1>6. Len(b \o c) = 2 + 1
  BY <1>1, <1>4, Joined, Zenon
<1>7. b \o f \in Seq(S) /\ Len(b \o f) = 2 + 4
  BY <1>1, <1>2, Joined, Zenon
<1>8. Len((b \o f) \o l) = (2 + 4) + 8
  <2>1. Len((b \o f) \o l) = Len(b \o f) + Len(l)
    BY <1>3, <1>7, Joined, Zenon
  <2>2. Len(b \o f) = 2 + 4 /\ Len(l) = 8
    BY <1>3, <1>7, Zenon
  <2> QED
    BY <2>1, <2>2, Zenon
<1>9. Len(b \o c) = 3 /\ Len(b \o f) = 6 /\ Len((b \o f) \o l) = 14
  <2> DEFINE x == Len(b \o c)
             y == Len(b \o f)
             z == Len((b \o f) \o l)
  <2>1. x = 2 + 1 /\ y = 2 + 4 /\ z = (2 + 4) + 8
    BY <1>6, <1>7, <1>8, Zenon
  <2> HIDE DEF x, y, z
  <2>2. x = 3 /\ y = 6 /\ z = 14
    BY <2>1
  <2> QED
    BY <2>2, Zenon DEF x, y, z
<1>10. Len(Parts(k)) \in {2, 3, 6, 14}
  BY <1>1, <1>5, <1>9, Zenon
<1> DEFINE n == Len(Parts(k))
<1> HIDE DEF n
<1>11. n \in {2, 3, 6, 14}
  BY <1>10, Zenon DEF n
<1>12. n \in Nat /\ n > 1
  BY <1>11
<1> QED
  BY <1>12, Zenon DEF n

(* There is a first brand and a first product, and a product has a kind.    *)
LEMMA ScriptIsNotEmpty ==
    /\ Len(Brands) \in Nat \ {0} /\ BrandIds = 1..Len(Brands)
    /\ Len(Kinds) \in Nat \ {0} /\ DOMAIN Kinds = 1..Len(Kinds)
    /\ \A i \in DOMAIN Kinds : Kinds[i] \in Range(Kinds)
    /\ Range(Kinds) \subseteq {"incomplete", "archived", "ready", "live"}
    /\ \A b \in BrandIds : SeededState(b) \in {"active", "suspended"}
<1>1. Len(Brands) \in Nat \ {0} /\ BrandIds = 1..Len(Brands)
  BY SeedAssumption, EmptySeq, LenProperties DEF BrandIds
<1>2. Len(Kinds) \in Nat \ {0} /\ DOMAIN Kinds = 1..Len(Kinds)
  BY SeedAssumption, EmptySeq, LenProperties
<1>3. \A i \in DOMAIN Kinds : Kinds[i] \in Range(Kinds)
  BY DEF Range
<1>4. Range(Kinds) \subseteq {"incomplete", "archived", "ready", "live"}
  BY SeedAssumption, <1>2, ElementOfSeq DEF Range
<1>5. \A b \in BrandIds : SeededState(b) \in {"active", "suspended"}
  BY DEF SeededState
<1> QED
  BY <1>1, <1>2, <1>3, <1>4, <1>5

LEMMA PartsOfKeys ==
    ASSUME NEW p \in Keys
    PROVE  /\ p[1] \in BrandIds /\ p[2] \in Range(Kinds)
           /\ Len(Parts(p[2])) \in Nat /\ Len(Parts(p[2])) > 1
BY ScriptIsNotEmpty, EveryKindHasParts DEF Keys

(* The product a run is at is one of the script's.                          *)
LEMMA KeyIsKey ==
    ASSUME Places, NEW r \in Runners, at[r].step \in AtProduct
    PROVE  Key(r) \in Keys /\ Key(r)[1] = at[r].brand /\ Key(r)[2] = Kinds[at[r].kind]
BY ScriptIsNotEmpty DEF Places, Place, AtProduct, Key, Keys

(* Where a run goes next.                                                   *)
LEMMA RunsMove ==
    ASSUME Places, NEW r \in Runners, NEW place, GoTo(r, place)
    PROVE  at'[r] = place /\ \A q \in Runners \ {r} : at'[q] = at[q]
BY DEF Places, GoTo

(* A run that is stopped, or trips, is down, and one that is done is up.    *)
LEMMA WhereRunsEnd ==
    /\ Down.step = "down" /\ Thrown.step = "thrown" /\ Failed.step = "failed" /\ Up.step = "up"
    /\ \A x \in {Down, Thrown, Failed} : x.step \in Off
BY DEF Down, Thrown, Failed, Up, Step, Off

LEMMA RunsStop ==
    ASSUME Places, NEW r \in Runners, Stop(r)
    PROVE  \E x \in {Down, Thrown} : GoTo(r, x) /\ at'[r] = x
<1>1. GoTo(r, Down) \/ GoTo(r, Thrown)
  BY DEF Stop
<1> QED
  BY <1>1, RunsMove

-----------------------------------------------------------------------------
(* Where a run is *)

LEMMA PlacesMove ==
    ASSUME Places, NEW r \in Runners, NEW x, Place(x), GoTo(r, x)
    PROVE  Places'
BY DEF Places, GoTo

(* The steps, apart from those of a product, as places.                     *)
LEMMA PlaceElse ==
    ASSUME NEW s \in AllSteps \ AtProduct, NEW b \in Nat,
           s \in Beginning \cup Rest => b \in BrandIds
    PROVE  Place(Step(s, b, 1, 1))
<1> DEFINE x == Step(s, b, 1, 1)
<1>1. x \in [step : AllSteps, brand : Nat, kind : Nat, part : Nat] /\ x.step = s /\ x.brand = b
  BY DEF Step
<1>2. s \notin AtProduct /\ s # "make"
  BY DEF AtProduct
<1> HIDE DEF x
<1>3. Place(x)
  BY <1>1, <1>2 DEF Place
<1> QED
  BY <1>3 DEF x

LEMMA PlaceAt ==
    ASSUME NEW b \in BrandIds,
           NEW s \in Off \cup {"admin"} \cup Beginning \cup Rest \cup Ending
    PROVE  Place(Step(s, b, 1, 1))
<1>1. s \in AllSteps \ AtProduct
  BY DEF AllSteps, Off, Beginning, AtProduct, Rest, Ending
<1>2. b \in Nat
  BY ScriptIsNotEmpty
<1> QED
  BY <1>1, <1>2, PlaceElse

LEMMA PlaceFind ==
    ASSUME NEW b \in BrandIds, NEW k \in DOMAIN Kinds
    PROVE  Place(Step("find", b, k, 1))
BY ScriptIsNotEmpty DEF Place, Step, AllSteps, Off, Beginning, AtProduct, Rest, Ending

LEMMA PlaceMake ==
    ASSUME NEW b \in BrandIds, NEW k \in DOMAIN Kinds, NEW n \in 1..Len(Parts(Kinds[k]))
    PROVE  Place(Step("make", b, k, n))
BY ScriptIsNotEmpty, EveryKindHasParts
   DEF Place, Step, AllSteps, Off, Beginning, AtProduct, Rest, Ending

LEMMA PlaceOff ==
    Place(Down) /\ Place(Up) /\ Place(Failed) /\ Place(Thrown)
BY DEF Place, Down, Up, Failed, Thrown, Step, AllSteps, Off, Beginning, AtProduct, Rest, Ending

LEMMA PlaceAfterProduct ==
    ASSUME Places, NEW r \in Runners, at[r].step \in AtProduct
    PROVE  Place(AfterProduct(r))
<1>1. at[r].brand \in BrandIds /\ at[r].kind \in 1..Len(Kinds)
  BY ScriptIsNotEmpty DEF Places, Place, AtProduct
<1>2. CASE at[r].kind = Len(Kinds)
  BY <1>1, <1>2, PlaceAt DEF AfterProduct, Rest
<1>3. CASE at[r].kind # Len(Kinds)
  <2>1. at[r].kind + 1 \in DOMAIN Kinds
    BY <1>1, <1>3, ScriptIsNotEmpty
  <2> QED
    BY <1>1, <1>3, <2>1, PlaceFind DEF AfterProduct
<1> QED
  BY <1>2, <1>3

LEMMA PlaceAfterBrand ==
    ASSUME NEW b \in BrandIds
    PROVE  Place(Step(AfterBrand(b), b + 1, 1, 1))
<1>1. CASE b = Len(Brands)
  <2>1. AfterBrand(b) = "find empty"
    BY <1>1 DEF AfterBrand
  <2>2. "find empty" \in AllSteps \ AtProduct /\ "find empty" \notin Beginning \cup Rest
    BY DEF AllSteps, Off, Beginning, AtProduct, Rest, Ending
  <2>3. b + 1 \in Nat
    BY ScriptIsNotEmpty
  <2> QED
    BY <2>1, <2>2, <2>3, PlaceElse
<1>2. CASE b # Len(Brands)
  <2>1. AfterBrand(b) = "org" /\ b + 1 \in BrandIds
    BY <1>2, ScriptIsNotEmpty DEF AfterBrand
  <2> QED
    BY <2>1, PlaceAt DEF Beginning
<1> QED
  BY <1>1, <1>2

(* What an invariant of the runs' places reads of a step.                   *)
LEMMA HereBrand ==
    ASSUME Places, NEW r \in Runners, at[r].step \in Beginning \cup AtProduct \cup Rest
    PROVE  at[r].brand \in BrandIds
BY DEF Places, Place

LEMMA Stays ==
    ASSUME Places, UNCHANGED at
    PROVE  Places'
BY DEF Places

LEMMA PlacesStep ==
    ASSUME Places, [Next]_vars
    PROVE  Places'
<1>1. 1 \in BrandIds /\ 1 \in DOMAIN Kinds
  BY ScriptIsNotEmpty
<1>2. ASSUME NEW r \in Runners, Boot(r)
      PROVE  Places'
  <2>1. Place(Step("admin", 1, 1, 1))
    BY <1>1, PlaceAt
  <2> QED
    BY <1>2, <2>1, PlacesMove DEF Boot
<1>3. ASSUME NEW r \in Runners, Stop(r)
      PROVE  Places'
  BY <1>3, PlaceOff, RunsStop, PlacesMove
<1>4. ASSUME NEW r \in Runners, EnsureAdmin(r)
      PROVE  Places'
  <2>1. Place(Step("org", 1, 1, 1))
    BY <1>1, PlaceAt DEF Beginning
  <2> QED
    BY <1>4, <2>1, PlacesMove DEF EnsureAdmin
<1>5. ASSUME NEW r \in Runners, EnsureOrganisation(r)
      PROVE  Places'
  <2>1. Place(Step("team", at[r].brand, 1, 1))
    BY <1>5, HereBrand, PlaceAt DEF EnsureOrganisation, Beginning
  <2> QED
    BY <1>5, <2>1, PlacesMove DEF EnsureOrganisation
<1>6. ASSUME NEW r \in Runners, SeedBrandTeam(r)
      PROVE  Places'
  <2>1. Place(Step("catalog", at[r].brand, 1, 1))
    BY <1>6, HereBrand, PlaceAt DEF SeedBrandTeam, Beginning
  <2> QED
    BY <1>6, <2>1, PlacesMove DEF SeedBrandTeam
<1>7. ASSUME NEW r \in Runners, Provision(r)
      PROVE  Places'
  <2>1. Place(Step("find", at[r].brand, 1, 1))
    BY <1>1, <1>7, HereBrand, PlaceFind DEF Provision, Beginning
  <2> QED
    BY <1>7, <2>1, PlacesMove DEF Provision
<1>8. ASSUME NEW r \in Runners, FindProduct(r)
      PROVE  Places'
  <2>1. at[r].step \in AtProduct
    BY <1>8 DEF FindProduct, AtProduct
  <2>2. Place(AfterProduct(r))
    BY <2>1, PlaceAfterProduct
  <2>3. Place(Step("make", at[r].brand, at[r].kind, 1))
    <3>1. at[r].brand \in BrandIds /\ at[r].kind \in DOMAIN Kinds
      BY <2>1 DEF Places, Place
    <3>2. 1 \in 1..Len(Parts(Kinds[at[r].kind]))
      BY <3>1, ScriptIsNotEmpty, EveryKindHasParts
    <3> QED
      BY <3>1, <3>2, PlaceMake
  <2>4. CASE Exists(Key(r))
    BY <1>8, <2>2, <2>4, PlacesMove DEF FindProduct
  <2>5. CASE ~Exists(Key(r))
    BY <1>8, <2>3, <2>5, PlacesMove DEF FindProduct
  <2> QED
    BY <2>4, <2>5
<1>9. ASSUME NEW r \in Runners, MakePart(r)
      PROVE  Places'
  <2>1. at[r].step = "make" /\ at[r].step \in AtProduct
    BY <1>9 DEF MakePart, AtProduct
  <2>2. Place(AfterProduct(r))
    BY <2>1, PlaceAfterProduct
  <2>3. CASE Fail(r)
    BY <2>3, PlaceOff, PlacesMove DEF Fail
  <2>4. CASE GoTo(r, AfterProduct(r))
    BY <2>2, <2>4, PlacesMove
  <2>5. CASE /\ GoTo(r, Step("make", Key(r)[1], at[r].kind, at[r].part + 1))
             /\ ~Last(Key(r), at[r].part)
    <3>1. at[r].brand \in BrandIds /\ at[r].kind \in DOMAIN Kinds
      BY <2>1 DEF Places, Place
    <3>2. Key(r)[1] = at[r].brand /\ Key(r)[2] = Kinds[at[r].kind]
      BY <2>1, KeyIsKey
    <3>3. at[r].part \in 1..Len(Parts(Kinds[at[r].kind]))
      BY <2>1 DEF Places, Place
    <3>4. at[r].part + 1 \in 1..Len(Parts(Kinds[at[r].kind]))
      BY <2>5, <3>1, <3>2, <3>3, ScriptIsNotEmpty, EveryKindHasParts DEF Last
    <3> QED
      BY <2>5, <3>1, <3>2, <3>4, PlaceMake, PlacesMove
  <2> QED
    BY <1>9, <2>3, <2>4, <2>5 DEF MakePart
<1>10. ASSUME NEW r \in Runners, FindInvitation(r) \/ FindActivity(r)
       PROVE  Places'
  <2>1. PICK s \in Rest : GoTo(r, Step(s, at[r].brand, 1, 1))
    BY <1>10 DEF FindInvitation, FindActivity, Look, Rest
  <2>2. at[r].step \in Rest
    BY <1>10 DEF FindInvitation, FindActivity, Look, Rest
  <2> QED
    BY <2>1, <2>2, HereBrand, PlaceAt, PlacesMove
<1>11. ASSUME NEW r \in Runners, CreateInvitation(r) \/ CreateActivity(r)
       PROVE  Places'
  <2>1. at[r].step \in Rest
    BY <1>11 DEF CreateInvitation, CreateActivity, Rest
  <2>2. Fail(r) \/ \E s \in Rest : GoTo(r, Step(s, at[r].brand, 1, 1))
    BY <1>11 DEF CreateInvitation, CreateActivity, Rest
  <2>3. CASE Fail(r)
    BY <2>3, PlaceOff, PlacesMove DEF Fail
  <2> QED
    BY <2>1, <2>2, <2>3, HereBrand, PlaceAt, PlacesMove
<1>12. ASSUME NEW r \in Runners, FindNote(r) \/ CreateNote(r)
       PROVE  Places'
  <2>1. at[r].step \in Rest
    BY <1>12 DEF FindNote, CreateNote, Rest
  <2>2. at[r].brand \in BrandIds
    BY <2>1, HereBrand
  <2>3. \/ GoTo(r, Step(AfterBrand(at[r].brand), at[r].brand + 1, 1, 1))
        \/ GoTo(r, Step("create note", at[r].brand, 1, 1))
    BY <1>12 DEF FindNote, CreateNote
  <2>4. Place(Step("create note", at[r].brand, 1, 1))
    BY <2>2, PlaceAt DEF Rest
  <2> QED
    BY <2>2, <2>3, <2>4, PlaceAfterBrand, PlacesMove
<1>13. ASSUME NEW r \in Runners, FindEmpty(r)
       PROVE  Places'
  <2>1. Place(Step("patch", 1, 1, 1))
    BY <1>1, PlaceAt DEF Ending
  <2> QED
    BY <1>13, <2>1, PlacesMove DEF FindEmpty
<1>14. ASSUME NEW r \in Runners, Patch(r)
       PROVE  Places'
  <2>1. GoTo(r, Up) \/ UNCHANGED at
    BY <1>14 DEF Patch
  <2> QED
    BY <2>1, PlaceOff, PlacesMove, Stays
<1>15. ASSUME (\E b \in BrandIds : ToggleBrand(b) \/ RemoveMember(b) \/ AcceptInvitation(b))
              \/ (\E p \in Products : EditNumbers(p)) \/ UNCHANGED vars
       PROVE  Places'
  BY <1>15, Stays DEF ToggleBrand, RemoveMember, AcceptInvitation, EditNumbers, vars
<1> QED
  BY <1>2, <1>3, <1>4, <1>5, <1>6, <1>7, <1>8, <1>9, <1>10, <1>11, <1>12, <1>13, <1>14, <1>15
     DEF Next, SeedStep

-----------------------------------------------------------------------------
(* What the tables hold *)

(* A part that is made, and what stays as it is.                            *)
LEMMA PartMade ==
    ASSUME Tables, Places, NEW r \in Runners, MakePart(r)
    PROVE  /\ Key(r) \in Keys
           /\ at[r].part \in 1..Len(Parts(Key(r)[2]))
           /\ Len(Parts(Key(r)[2])) \in Nat
           /\ \/ at[r].part = 1 /\ Taken(Key(r)) /\ Fail(r) /\ UNCHANGED <<built, numbers>>
              \/ /\ at[r].part > 1 \/ ~Taken(Key(r))
                 /\ built' \in [Keys -> [Runners -> Nat]]
                 /\ built'[Key(r)][r] = at[r].part
                 /\ \A p \in Keys, q \in Runners :
                       p # Key(r) \/ q # r => built'[p][q] = built[p][q]
                 /\ GoTo(r, IF Last(Key(r), at[r].part) THEN AfterProduct(r)
                            ELSE Step("make", Key(r)[1], at[r].kind, at[r].part + 1))
<1>1. at[r].step = "make" /\ at[r].step \in AtProduct
  BY DEF MakePart, AtProduct
<1>2. Key(r) \in Keys /\ Key(r)[2] = Kinds[at[r].kind]
  BY <1>1, KeyIsKey
<1>3. at[r].part \in 1..Len(Parts(Key(r)[2])) /\ Len(Parts(Key(r)[2])) \in Nat
  BY <1>1, <1>2, PartsOfKeys DEF Places, Place
<1> DEFINE p == Key(r)
           n == at[r].part
           row == [q \in Runners |-> IF q = r THEN n ELSE built[p][q]]
<1>4. CASE built' = [built EXCEPT ![p][r] = n]
  <2> HIDE DEF p, n
  <2>1. built' = [built EXCEPT ![p] = row]
    BY <1>2, <1>4 DEF Tables, p
  <2>2. row \in [Runners -> Nat]
    BY <1>2, <1>3 DEF Tables, p, n
  <2>3. row[r] = n /\ \A q \in Runners \ {r} : row[q] = built[p][q]
    OBVIOUS
  <2> HIDE DEF row
  <2>4. built'[p] = row /\ \A x \in Keys \ {p} : built'[x] = built[x]
    BY <1>2, <2>1 DEF Tables, p
  <2>5. built' \in [Keys -> [Runners -> Nat]]
    BY <2>1, <2>2 DEF Tables
  <2>6. \A x \in Keys, q \in Runners : x # p \/ q # r => built'[x][q] = built[x][q]
    BY <2>3, <2>4
  <2>7. built'[p][r] = n
    BY <2>3, <2>4
  <2> QED
    BY <1>2, <1>3, <1>4, <2>5, <2>6, <2>7, Zenon DEF MakePart, p, n
<1>5. CASE n = 1 /\ Taken(p) /\ Fail(r) /\ UNCHANGED <<built, numbers>>
  BY <1>2, <1>3, <1>5
<1> QED
  BY <1>4, <1>5, Zenon DEF MakePart

LEMMA TablesStep ==
    ASSUME Tables, Places, [Next]_vars
    PROVE  Tables'
<1> USE DEF Tables, tables, company
<1>1. ASSUME NEW r \in Runners, Boot(r)
      PROVE  Tables'
  BY <1>1 DEF Boot
<1>2. ASSUME NEW r \in Runners, Stop(r)
      PROVE  Tables'
  <2> DEFINE p == <<at[r].brand, IF at[r].kind \in DOMAIN Kinds THEN Kinds[at[r].kind] ELSE "">>
  <2>1. at[r].step = "make" => p \in Keys
    <3>1. at[r].step = "make" => at[r].step \in AtProduct
      BY DEF AtProduct
    <3> QED
      BY <3>1, KeyIsKey DEF Places, Place, Key
  <2>2. cut' \subseteq Keys \X Runners
    <3>1. cut' = IF at[r].step = "make" /\ at[r].part > 1 THEN cut \cup {<<p, r>>} ELSE cut
      BY <1>2 DEF Stop
    <3> HIDE DEF p
    <3> QED
      BY <2>1, <3>1
  <2>3. found' \in [Runners -> SUBSET Products]
    BY <1>2 DEF Stop
  <2> QED
    BY <1>2, <2>2, <2>3 DEF Stop
<1>3. ASSUME NEW r \in Runners,
             EnsureAdmin(r) \/ FindInvitation(r) \/ FindActivity(r) \/ FindNote(r)
      PROVE  Tables'
  BY <1>3 DEF EnsureAdmin, FindInvitation, FindActivity, FindNote, Look
<1>4. ASSUME NEW r \in Runners, EnsureOrganisation(r)
      PROVE  Tables'
  <2>1. org' \in [BrandIds -> {"none", "active", "suspended"}]
    BY <1>4 DEF EnsureOrganisation, SeededState
  <2> QED
    BY <1>4, <2>1 DEF EnsureOrganisation
<1>5. ASSUME NEW r \in Runners, SeedBrandTeam(r)
      PROVE  Tables'
  BY <1>5 DEF SeedBrandTeam
<1>6. ASSUME NEW r \in Runners, Provision(r)
      PROVE  Tables'
  BY <1>6, HereBrand DEF Provision, Beginning
<1>7. ASSUME NEW r \in Runners, MakePart(r)
      PROVE  Tables'
  <2>1. /\ built' \in [Keys -> [Runners -> Nat]]
        /\ \A p \in Keys, q \in Runners : built'[p][q] <= Len(Parts(p[2]))
    <3>1. CASE UNCHANGED built
      BY <3>1
    <3>2. CASE /\ built' \in [Keys -> [Runners -> Nat]]
               /\ built'[Key(r)][r] = at[r].part
               /\ \A p \in Keys, q \in Runners :
                     p # Key(r) \/ q # r => built'[p][q] = built[p][q]
      <4>1. at[r].part <= Len(Parts(Key(r)[2]))
        BY <1>7, PartMade
      <4> QED
        BY <3>2, <4>1
    <3> QED
      BY <1>7, <3>1, <3>2, PartMade, Zenon
  <2>2. numbers' = numbers \/ numbers' = [numbers EXCEPT ![Key(r)] = "script"]
    BY <1>7, Zenon DEF MakePart
  <2>3. numbers' \in [Products -> {"none", "empty", "partial", "typed", "script", "invented"}]
    BY <2>2
  <2> QED
    BY <1>7, <2>1, <2>3 DEF MakePart
<1>8. ASSUME NEW r \in Runners, CreateInvitation(r)
      PROVE  Tables'
  BY <1>8 DEF CreateInvitation
<1>9. ASSUME NEW r \in Runners, CreateActivity(r)
      PROVE  Tables'
  <2>1. packs' \in [BrandIds -> Nat]
    <3>1. packs' = [packs EXCEPT ![at[r].brand] = packs[at[r].brand] + 1]
      BY <1>9 DEF CreateActivity
    <3>2. at[r].brand \in BrandIds
      BY <1>9, HereBrand DEF CreateActivity, Rest
    <3>3. packs[at[r].brand] + 1 \in Nat
      BY <3>2
    <3> QED
      BY <3>1, <3>2, <3>3
  <2> QED
    BY <1>9, <2>1 DEF CreateActivity
<1>10. ASSUME NEW r \in Runners, CreateNote(r)
       PROVE  Tables'
  <2>1. noted' \in [BrandIds -> Nat]
    <3>1. noted' = [noted EXCEPT ![at[r].brand] = noted[at[r].brand] + 1]
      BY <1>10 DEF CreateNote
    <3>2. at[r].brand \in BrandIds
      BY <1>10, HereBrand DEF CreateNote, Rest
    <3>3. noted[at[r].brand] + 1 \in Nat
      BY <3>2
    <3> QED
      BY <3>1, <3>2, <3>3
  <2> QED
    BY <1>10, <2>1 DEF CreateNote
<1>11. ASSUME NEW r \in Runners, FindEmpty(r)
       PROVE  Tables'
  BY <1>11 DEF FindEmpty
<1>12. ASSUME NEW r \in Runners, Patch(r)
       PROVE  Tables'
  <2>1. /\ numbers' \in [Products -> {"none", "empty", "partial", "typed", "script", "invented"}]
        /\ typedLost' \in BOOLEAN
    BY <1>12 DEF Patch
  <2>2. found' \in [Runners -> SUBSET Products]
    BY <1>12 DEF Patch
  <2> QED
    BY <1>12, <2>1, <2>2 DEF Patch
<1>13. ASSUME NEW b \in BrandIds, ToggleBrand(b)
       PROVE  Tables'
  BY <1>13 DEF ToggleBrand
<1>14. ASSUME NEW b \in BrandIds, RemoveMember(b)
       PROVE  Tables'
  BY <1>14 DEF RemoveMember
<1>15. ASSUME NEW b \in BrandIds, AcceptInvitation(b)
       PROVE  Tables'
  BY <1>15 DEF AcceptInvitation
<1>16. ASSUME NEW p \in Products, EditNumbers(p)
       PROVE  Tables'
  <2>1. numbers' \in [Products -> {"none", "empty", "partial", "typed", "script", "invented"}]
    BY <1>16 DEF EditNumbers
  <2> QED
    BY <1>16, <2>1 DEF EditNumbers, Change
<1>18. ASSUME NEW r \in Runners, FindProduct(r)
       PROVE  Tables'
  <2>1. numbers' \in [Products -> {"none", "empty", "partial", "typed", "script", "invented"}]
    BY <1>18 DEF FindProduct
  <2> QED
    BY <1>18, <2>1 DEF FindProduct
<1>17. ASSUME UNCHANGED vars
       PROVE  Tables'
  BY <1>17 DEF vars
<1> QED
  BY <1>1, <1>2, <1>3, <1>4, <1>5, <1>6, <1>7, <1>8, <1>9, <1>10, <1>11, <1>12, <1>13,
     <1>14, <1>15, <1>16, <1>17, <1>18
     DEF Next, SeedStep

-----------------------------------------------------------------------------
(* What a run refers to it has made before *)

(* Whoever takes a step, the others stay where they are.                    *)
LEMMA OneMoves ==
    ASSUME Places, [Next]_vars, NEW q \in Runners
    PROVE  at'[q] = at[q] \/ Boot(q) \/ Stop(q) \/ SeedStep(q)
<1>1. ASSUME NEW r \in Runners, r # q, NEW x, GoTo(r, x)
      PROVE  at'[q] = at[q]
  BY <1>1, RunsMove
<1>2. ASSUME NEW r \in Runners, r # q, Boot(r) \/ Stop(r)
      PROVE  at'[q] = at[q]
  BY <1>1, <1>2 DEF Boot, Stop
<1>3. ASSUME NEW r \in Runners, r # q, SeedStep(r)
      PROVE  at'[q] = at[q]
  <2>1. CASE EnsureAdmin(r) \/ EnsureOrganisation(r) \/ SeedBrandTeam(r) \/ Provision(r)
    BY <1>1, <1>3, <2>1 DEF EnsureAdmin, EnsureOrganisation, SeedBrandTeam, Provision
  <2>2. CASE FindProduct(r) \/ MakePart(r)
    BY <1>1, <1>3, <2>2 DEF FindProduct, MakePart, Fail
  <2>3. CASE FindInvitation(r) \/ CreateInvitation(r) \/ FindActivity(r) \/ CreateActivity(r)
    BY <1>1, <1>3, <2>3
       DEF FindInvitation, CreateInvitation, FindActivity, CreateActivity, Look, Fail
  <2>4. CASE FindNote(r) \/ CreateNote(r) \/ FindEmpty(r) \/ Patch(r)
    BY <1>1, <1>3, <2>4 DEF FindNote, CreateNote, FindEmpty, Patch
  <2> QED
    BY <1>3, <2>1, <2>2, <2>3, <2>4 DEF SeedStep
<1>4. ASSUME (\E b \in BrandIds : ToggleBrand(b) \/ RemoveMember(b) \/ AcceptInvitation(b))
             \/ (\E p \in Products : EditNumbers(p)) \/ UNCHANGED vars
      PROVE  at'[q] = at[q]
  BY <1>4 DEF ToggleBrand, RemoveMember, AcceptInvitation, EditNumbers, vars
<1> QED
  BY <1>2, <1>3, <1>4, Zenon DEF Next

(* Where the seed goes, as its next statement.                              *)
Elsewhere(x) == x.step \in {"admin", "org", "find empty", "patch", "up"} \cup Off \cup Rest

LEMMA Statements ==
    ASSUME Places, NEW r \in Runners, Boot(r) \/ Stop(r) \/ SeedStep(r)
    PROVE  \/ Elsewhere(at'[r])
           \/ EnsureOrganisation(r) /\ at'[r] = Step("team", at[r].brand, 1, 1)
           \/ SeedBrandTeam(r) /\ at'[r] = Step("catalog", at[r].brand, 1, 1)
           \/ Provision(r) /\ at'[r] = Step("find", at[r].brand, 1, 1)
           \/ /\ FindProduct(r) \/ MakePart(r)
              /\ at'[r].step \in AtProduct /\ at'[r].brand = at[r].brand
<1>1. ASSUME NEW s \in {"admin", "org", "find empty", "patch", "up"} \cup Off \cup Rest,
             NEW b, NEW k, NEW n, GoTo(r, Step(s, b, k, n))
      PROVE  Elsewhere(at'[r])
  <2>1. at'[r] = Step(s, b, k, n)
    BY <1>1, RunsMove
  <2>2. Step(s, b, k, n).step = s
    BY DEF Step
  <2> QED
    BY <2>1, <2>2, Zenon DEF Elsewhere
<1>2. CASE Boot(r) \/ Stop(r) \/ EnsureAdmin(r)
  <2>1. \E s \in {"admin", "org", "down", "thrown"} : \E b, k, n : GoTo(r, Step(s, b, k, n))
    BY <1>2 DEF Boot, Stop, EnsureAdmin, Down, Thrown
  <2> QED
    BY <1>1, <2>1 DEF Off
<1>3. ASSUME EnsureOrganisation(r)
      PROVE  at'[r] = Step("team", at[r].brand, 1, 1)
  BY <1>3, RunsMove DEF EnsureOrganisation
<1>4. ASSUME SeedBrandTeam(r)
      PROVE  at'[r] = Step("catalog", at[r].brand, 1, 1)
  BY <1>4, RunsMove DEF SeedBrandTeam
<1>5. ASSUME Provision(r)
      PROVE  at'[r] = Step("find", at[r].brand, 1, 1)
  BY <1>5, RunsMove DEF Provision
<1>6. ASSUME FindProduct(r) \/ MakePart(r)
      PROVE  Elsewhere(at'[r]) \/ (at'[r].step \in AtProduct /\ at'[r].brand = at[r].brand)
  <2>1. at[r].step \in AtProduct
    BY <1>6 DEF FindProduct, MakePart, AtProduct
  <2>2. Key(r)[1] = at[r].brand
    BY <2>1, KeyIsKey
  <2>3. ASSUME NEW s \in AtProduct, NEW k, NEW n, GoTo(r, Step(s, at[r].brand, k, n))
        PROVE  at'[r].step \in AtProduct /\ at'[r].brand = at[r].brand
    <3>1. at'[r] = Step(s, at[r].brand, k, n)
      BY <2>3, RunsMove
    <3> QED
      BY <3>1 DEF Step
  <2>4. CASE GoTo(r, AfterProduct(r))
    <3>1. \/ GoTo(r, Step("find invite", at[r].brand, 1, 1))
          \/ GoTo(r, Step("find", at[r].brand, at[r].kind + 1, 1))
      BY <2>4 DEF AfterProduct
    <3> QED
      BY <1>1, <2>3, <3>1 DEF Rest, AtProduct
  <2>5. CASE \E k, n : GoTo(r, Step("make", at[r].brand, k, n))
    BY <2>3, <2>5 DEF AtProduct
  <2>6. CASE Fail(r)
    BY <1>1, <2>6 DEF Fail, Failed, Off
  <2> QED
    BY <1>6, <2>2, <2>4, <2>5, <2>6 DEF FindProduct, MakePart
<1>7. CASE FindInvitation(r) \/ CreateInvitation(r) \/ FindActivity(r) \/ CreateActivity(r)
  <2>1. Fail(r) \/ \E s \in Rest : \E b : GoTo(r, Step(s, b, 1, 1))
    BY <1>7 DEF FindInvitation, CreateInvitation, FindActivity, CreateActivity, Look, Rest
  <2> QED
    BY <1>1, <2>1 DEF Fail, Failed, Off
<1>8. CASE FindNote(r) \/ CreateNote(r)
  <2>1. \E s \in {"create note", "find empty", "org"} : \E b : GoTo(r, Step(s, b, 1, 1))
    BY <1>8 DEF FindNote, CreateNote, AfterBrand
  <2> QED
    BY <1>1, <2>1 DEF Rest
<1>9. CASE FindEmpty(r)
  BY <1>1, <1>9 DEF FindEmpty
<1>10. CASE Patch(r)
  <2>1. CASE GoTo(r, Up)
    BY <1>1, <2>1 DEF Up
  <2>2. CASE UNCHANGED at
    BY <1>10, <2>2 DEF Patch, Elsewhere
  <2> QED
    BY <1>10, <2>1, <2>2 DEF Patch
<1> QED
  BY <1>2, <1>3, <1>4, <1>5, <1>6, <1>7, <1>8, <1>9, <1>10, Zenon DEF SeedStep

(* Brands, members, catalogs are not taken back, and what a run writes.     *)
LEMMA Grows ==
    ASSUME Tables, Places, [Next]_vars
    PROVE  /\ \A b \in BrandIds : org[b] # "none" => org'[b] # "none"
           /\ \A b \in BrandIds : member[b] # "none" => member'[b] # "none"
           /\ catalog \subseteq catalog'
           /\ catalog' = catalog \/ \E r \in Runners : Provision(r)
           /\ built' = built \/ \E r \in Runners : MakePart(r)
<1> USE DEF tables, company
<1>1. ASSUME NEW r \in Runners, Boot(r) \/ Stop(r)
      PROVE  UNCHANGED <<org, member, catalog, built>>
  BY <1>1 DEF Boot, Stop
<1>2. ASSUME NEW r \in Runners,
             EnsureAdmin(r) \/ FindProduct(r) \/ FindInvitation(r) \/ FindActivity(r) \/ FindNote(r)
             \/ FindEmpty(r)
      PROVE  UNCHANGED <<org, member, catalog, built>>
  BY <1>2 DEF EnsureAdmin, FindProduct, FindInvitation, FindActivity, FindNote, FindEmpty, Look
<1>3. ASSUME NEW r \in Runners, EnsureOrganisation(r)
      PROVE  /\ UNCHANGED <<member, catalog, built>>
             /\ \A b \in BrandIds : org[b] # "none" => org'[b] # "none"
  BY <1>3, ScriptIsNotEmpty DEF EnsureOrganisation, SeededState, Tables
<1>4. ASSUME NEW r \in Runners, SeedBrandTeam(r)
      PROVE  /\ UNCHANGED <<org, catalog, built>>
             /\ \A b \in BrandIds : member[b] # "none" => member'[b] # "none"
  BY <1>4 DEF SeedBrandTeam, Tables
<1>5. ASSUME NEW r \in Runners, Provision(r)
      PROVE  UNCHANGED <<org, member, built>> /\ catalog \subseteq catalog'
  BY <1>5 DEF Provision
<1>6. ASSUME NEW r \in Runners,
             MakePart(r)
      PROVE  UNCHANGED <<org, member, catalog>>
  BY <1>6 DEF MakePart
<1>7. ASSUME NEW r \in Runners,
             CreateInvitation(r) \/ CreateActivity(r) \/ CreateNote(r) \/ Patch(r)
      PROVE  UNCHANGED <<org, member, catalog, built>>
  BY <1>7 DEF CreateInvitation, CreateActivity, CreateNote, Patch
<1>8. ASSUME NEW b \in BrandIds, ToggleBrand(b)
      PROVE  /\ UNCHANGED <<member, catalog, built>>
             /\ \A c \in BrandIds : org[c] # "none" => org'[c] # "none"
  BY <1>8 DEF ToggleBrand, Tables
<1>9. ASSUME NEW b \in BrandIds, RemoveMember(b)
      PROVE  /\ UNCHANGED <<org, catalog, built>>
             /\ \A c \in BrandIds : member[c] # "none" => member'[c] # "none"
  BY <1>9 DEF RemoveMember, Tables
<1>10. ASSUME (\E b \in BrandIds : AcceptInvitation(b)) \/ (\E p \in Products : EditNumbers(p)) \/ UNCHANGED vars
       PROVE  UNCHANGED <<org, member, catalog, built>>
  BY <1>10 DEF AcceptInvitation, EditNumbers, vars
<1> QED
  <2>1. ASSUME UNCHANGED <<org, member, catalog, built>>
        PROVE  /\ \A b \in BrandIds : org[b] # "none" => org'[b] # "none"
               /\ \A b \in BrandIds : member[b] # "none" => member'[b] # "none"
               /\ catalog \subseteq catalog'
               /\ catalog' = catalog /\ built' = built
    BY <2>1
  <2>2. CASE \E r \in Runners : Boot(r) \/ Stop(r)
    BY <1>1, <2>1, <2>2
  <2>3. CASE \E r \in Runners : SeedStep(r)
    BY <1>2, <1>3, <1>4, <1>5, <1>6, <1>7, <2>1, <2>3 DEF SeedStep
  <2>4. CASE (\E b \in BrandIds : ToggleBrand(b) \/ RemoveMember(b) \/ AcceptInvitation(b))
             \/ (\E p \in Products : EditNumbers(p)) \/ UNCHANGED vars
    BY <1>8, <1>9, <1>10, <2>1, <2>4
  <2> QED
    BY <2>2, <2>3, <2>4, Zenon DEF Next

LEMMA BehindStep ==
    ASSUME Tables, Places, Behind, [Next]_vars
    PROVE  Behind'
<1>1. Places' /\ Tables'
  BY PlacesStep, TablesStep
<1>2. ASSUME NEW q \in Runners
      PROVE  RunBehind(q)'
  <2>1. at[q].step \in Beginning \cup AtProduct => at[q].brand \in BrandIds
    BY HereBrand
  <2>2. CASE at'[q] = at[q]
    BY <2>1, <2>2, Grows DEF Behind, RunBehind, Beginning
  <2>3. CASE Boot(q) \/ Stop(q) \/ SeedStep(q)
    <3>1. CASE Elsewhere(at'[q])
      BY <3>1 DEF Elsewhere, RunBehind, AtProduct, Off, Rest
    <3>2. CASE EnsureOrganisation(q) /\ at'[q] = Step("team", at[q].brand, 1, 1)
      <4>1. at[q].brand \in BrandIds
        BY <2>1, <3>2 DEF EnsureOrganisation, Beginning
      <4>2. org'[at[q].brand] # "none"
        BY <3>2, <4>1, ScriptIsNotEmpty DEF EnsureOrganisation, Tables
      <4> QED
        BY <3>2, <4>2 DEF RunBehind, Step, AtProduct
    <3>3. CASE SeedBrandTeam(q) /\ at'[q] = Step("catalog", at[q].brand, 1, 1)
      <4>1. at[q].brand \in BrandIds
        BY <2>1, <3>3 DEF SeedBrandTeam, Beginning
      <4>2. member'[at[q].brand] # "none"
        BY <3>3, <4>1 DEF SeedBrandTeam, Tables
      <4>3. org'[at[q].brand] # "none"
        BY <3>3, <4>1, Grows DEF SeedBrandTeam, Behind, RunBehind
      <4> QED
        BY <3>3, <4>2, <4>3 DEF RunBehind, Step, AtProduct
    <3>4. CASE Provision(q) /\ at'[q] = Step("find", at[q].brand, 1, 1)
      <4>1. at[q].brand \in catalog'
        BY <3>4 DEF Provision
      <4> QED
        BY <3>4, <4>1 DEF RunBehind, Step
    <3>5. CASE /\ FindProduct(q) \/ MakePart(q)
               /\ at'[q].step \in AtProduct /\ at'[q].brand = at[q].brand
      <4>1. at[q].brand \in catalog
        BY <3>5 DEF FindProduct, MakePart, Behind, RunBehind, AtProduct
      <4> QED
        BY <3>5, <4>1, Grows DEF RunBehind, AtProduct
    <3> QED
      BY <2>3, <3>1, <3>2, <3>3, <3>4, <3>5, Statements
  <2> QED
    BY <2>2, <2>3, OneMoves
<1>3. ASSUME NEW b \in catalog'
      PROVE  org'[b] # "none" /\ member'[b] # "none"
  <2>1. CASE b \in catalog
    BY <2>1, Grows DEF Behind, Tables
  <2>2. ASSUME NEW r \in Runners, Provision(r), b \notin catalog
        PROVE  org'[b] # "none" /\ member'[b] # "none"
    <3>1. b = at[r].brand /\ at[r].step = "catalog"
      BY <2>2 DEF Provision
    <3>2. b \in BrandIds
      BY <3>1, HereBrand DEF Beginning
    <3>3. org[b] # "none" /\ member[b] # "none"
      BY <3>1 DEF Behind, RunBehind
    <3> QED
      BY <3>2, <3>3, Grows
  <2> QED
    BY <2>1, <2>2, Grows
<1>4. ASSUME NEW p \in Keys, NEW q \in Runners, built'[p][q] > 0
      PROVE  p[1] \in catalog'
  <2>1. CASE built' = built
    BY <1>4, <2>1, Grows DEF Behind
  <2>2. ASSUME NEW r \in Runners, MakePart(r)
        PROVE  p[1] \in catalog'
    <3>1. at[r].step \in AtProduct
      BY <2>2 DEF MakePart, AtProduct
    <3>2. CASE p = Key(r)
      BY <3>1, <3>2, KeyIsKey, Grows DEF Behind, RunBehind
    <3>3. CASE p # Key(r)
      <4>1. built'[p][q] = built[p][q]
        BY <2>2, <3>3, PartMade
      <4> QED
        BY <1>4, <4>1, Grows DEF Behind
    <3> QED
      BY <3>2, <3>3
  <2> QED
    BY <2>1, <2>2, Grows
<1> QED
  BY <1>2, <1>3, <1>4 DEF Behind

-----------------------------------------------------------------------------
(* What stops leave half made *)

(* A run writes its own parts and its own cuts.                             *)
LEMMA OwnParts ==
    ASSUME Tables, Places, [Next]_vars, NEW q \in Runners, NEW p \in Keys
    PROVE  /\ built'[p][q] = built[p][q] \/ MakePart(q)
           /\ (<<p, q>> \in cut' <=> <<p, q>> \in cut) \/ Stop(q)
<1> USE DEF tables, company
<1>1. built'[p][q] = built[p][q] \/ MakePart(q)
  <2>1. ASSUME NEW r \in Runners, r # q, MakePart(r)
        PROVE  built'[p][q] = built[p][q]
    BY <2>1, PartMade
  <2> QED
    BY <2>1, Grows
<1>2. ASSUME NEW r \in Runners, r # q, Stop(r)
      PROVE  <<p, q>> \in cut' <=> <<p, q>> \in cut
  <2>1. PICK x : cut' = cut \/ cut' = cut \cup {<<x, r>>}
    BY <1>2 DEF Stop
  <2> QED
    BY <1>2, <2>1
<1>3. ASSUME NEW r \in Runners, Boot(r) \/ SeedStep(r)
      PROVE  cut' = cut
  <2>1. CASE Boot(r) \/ EnsureAdmin(r) \/ EnsureOrganisation(r) \/ SeedBrandTeam(r) \/ Provision(r)
    BY <2>1 DEF Boot, EnsureAdmin, EnsureOrganisation, SeedBrandTeam, Provision
  <2>2. CASE FindProduct(r) \/ MakePart(r) \/ FindEmpty(r) \/ Patch(r)
    BY <2>2 DEF FindProduct, MakePart, FindEmpty, Patch
  <2>3. CASE FindInvitation(r) \/ CreateInvitation(r) \/ FindActivity(r) \/ CreateActivity(r)
             \/ FindNote(r) \/ CreateNote(r)
    BY <2>3 DEF FindInvitation, CreateInvitation, FindActivity, CreateActivity, FindNote,
                CreateNote, Look
  <2> QED
    BY <1>3, <2>1, <2>2, <2>3 DEF SeedStep
<1>4. ASSUME (\E b \in BrandIds : ToggleBrand(b) \/ RemoveMember(b) \/ AcceptInvitation(b))
             \/ (\E x \in Products : EditNumbers(x)) \/ UNCHANGED vars
      PROVE  cut' = cut
  BY <1>4 DEF ToggleBrand, RemoveMember, AcceptInvitation, EditNumbers, vars
<1>5. (<<p, q>> \in cut' <=> <<p, q>> \in cut) \/ Stop(q)
  BY <1>2, <1>3, <1>4, Zenon DEF Next
<1> QED
  BY <1>1, <1>5

(* Only a run that has looked for a product, or makes it, goes on making.   *)
LEMMA OnlyMakersMake ==
    ASSUME Places, NEW q \in Runners, Boot(q) \/ Stop(q) \/ SeedStep(q),
           ~FindProduct(q), ~MakePart(q)
    PROVE  at'[q].step # "make"
<1>1. Elsewhere(at'[q]) => at'[q].step # "make"
  BY DEF Elsewhere, Off, Rest
<1>2. \A s, b : Step(s, b, 1, 1).step = s
  BY DEF Step
<1> QED
  BY <1>1, <1>2, Statements

LEMMA AfterProductIs ==
    ASSUME NEW r \in Runners
    PROVE  AfterProduct(r).step \in {"find", "find invite"}
<1>1. \A s, b, k : Step(s, b, k, 1).step = s
  BY DEF Step
<1>2. \/ AfterProduct(r) = Step("find invite", at[r].brand, 1, 1)
      \/ AfterProduct(r) = Step("find", at[r].brand, at[r].kind + 1, 1)
  BY Zenon DEF AfterProduct
<1> QED
  BY <1>1, <1>2, Zenon

LEMMA OnlyMakersWereMaking ==
    ASSUME NEW q \in Runners, Boot(q) \/ SeedStep(q), ~MakePart(q)
    PROVE  at[q].step # "make"
BY DEF Boot, SeedStep, EnsureAdmin, EnsureOrganisation, SeedBrandTeam, Provision, FindProduct,
       FindInvitation, CreateInvitation, FindActivity, CreateActivity, FindNote, CreateNote,
       FindEmpty, Patch, Look, Off

LEMMA HalvesStep ==
    ASSUME Tables, Places, Halves, [Next]_vars, NEW q \in Runners
    PROVE  MadeSoFar(q)' /\ \A p \in Keys : CutOnly(p, q)'
<1>1. Places' /\ Tables'
  BY PlacesStep, TablesStep
<1>2. MadeSoFar(q) /\ \A p \in Keys : CutOnly(p, q)
  BY DEF Halves
<1>3. at[q].step = "make" => Key(q) \in Keys
  BY KeyIsKey DEF AtProduct
<1>4. CASE /\ at'[q] = at[q]
           /\ \A p \in Keys : built'[p][q] = built[p][q]
           /\ \A p \in Keys : <<p, q>> \in cut' <=> <<p, q>> \in cut
  BY <1>2, <1>3, <1>4 DEF MadeSoFar, CutOnly, Half, Making, Key
<1>5. CASE at'[q].step # "make" /\ at[q].step # "make" /\ ~Stop(q)
  <2>1. \A p \in Keys : built'[p][q] = built[p][q] /\ (<<p, q>> \in cut' <=> <<p, q>> \in cut)
    BY <1>5, OwnParts DEF MakePart
  <2> QED
    BY <1>2, <1>5, <2>1 DEF MadeSoFar, CutOnly, Half, Making
<1>6. CASE Stop(q)
  <2>1. at'[q].step # "make" /\ built' = built
    <3>1. at'[q] \in {Down, Thrown}
      BY <1>6, RunsStop
    <3>2. \A x \in {Down, Thrown} : x.step # "make"
      BY WhereRunsEnd
    <3>3. built' = built
      BY <1>6 DEF Stop, tables
    <3> QED
      BY <3>1, <3>2, <3>3, Zenon
  <2>2. MadeSoFar(q)'
    BY <2>1 DEF MadeSoFar
  <2>3. CASE at[q].step = "make" /\ at[q].part > 1
    <3>1. Key(q) \in Keys /\ at[q].part \in 1..Len(Parts(Key(q)[2]))
          /\ Len(Parts(Key(q)[2])) \in Nat
      BY <1>3, <2>3, KeyIsKey, PartsOfKeys DEF Places, Place, AtProduct
    <3>2. cut' = cut \cup {<<Key(q), q>>}
      <4>1. at[q].kind \in DOMAIN Kinds
        BY <2>3 DEF Places, Place, AtProduct
      <4> QED
        BY <1>6, <2>3, <4>1 DEF Stop, Key
    <3>3. Half(Key(q), q)
      BY <1>2, <2>3, <3>1 DEF MadeSoFar, Half
    <3>4. ASSUME NEW p \in Keys
          PROVE  CutOnly(p, q)'
      <4>1. CASE p = Key(q)
        BY <2>1, <3>2, <3>3, <4>1 DEF CutOnly, Half, Making
      <4>2. CASE p # Key(q)
        <5>1. <<p, q>> \in cut' <=> <<p, q>> \in cut
          BY <3>2, <4>2
        <5>2. ~Making(q, p) /\ ~Making(q, p)'
          BY <2>1, <4>2 DEF Making
        <5> QED
          BY <1>2, <2>1, <5>1, <5>2 DEF CutOnly, Half
      <4> QED
        BY <4>1, <4>2
    <3> QED
      BY <2>2, <3>4
  <2>4. CASE ~(at[q].step = "make" /\ at[q].part > 1)
    <3>1. cut' = cut
      BY <1>6, <2>4 DEF Stop
    <3>2. ASSUME NEW p \in Keys
          PROVE  CutOnly(p, q)'
      <4>1. CASE Making(q, p)
        <5>1. built[p][q] = 0
          BY <1>2, <2>4, <4>1 DEF MadeSoFar, Making, Places, Place
        <5> QED
          BY <1>2, <2>1, <3>1, <5>1 DEF CutOnly, Half
      <4>2. CASE ~Making(q, p)
        BY <1>2, <2>1, <3>1, <4>2 DEF CutOnly, Half, Making
      <4> QED
        BY <4>1, <4>2
    <3> QED
      BY <2>2, <3>2
  <2> QED
    BY <2>3, <2>4
<1>7. CASE FindProduct(q)
  <2>1. at[q].step = "find" /\ at[q].step \in AtProduct
    BY <1>7 DEF FindProduct, AtProduct
  <2>2. Key(q) \in Keys
    BY <2>1, KeyIsKey
  <2>3. \A p \in Keys : built'[p][q] = built[p][q] /\ (<<p, q>> \in cut' <=> <<p, q>> \in cut)
    BY <1>7 DEF FindProduct, tables
  <2>4. CASE at'[q].step = "make"
    <3>1. at'[q] = Step("make", at[q].brand, at[q].kind, 1) /\ ~Exists(Key(q))
      BY <1>7, <2>4, AfterProductIs, RunsMove DEF FindProduct
    <3>2. Key(q)' = Key(q) /\ at'[q].part = 1
      BY <3>1 DEF Key, Step
    <3>3. built[Key(q)][q] = 0
      BY <2>2, <3>1 DEF Exists, Tables
    <3>4. MadeSoFar(q)'
      <4>1. built' = built
        BY <1>7 DEF FindProduct, tables
      <4>2. built'[Key(q)'][q] = at'[q].part - 1
        BY <3>2, <3>3, <4>1
      <4> QED
        BY <4>2 DEF MadeSoFar
    <3>5. ASSUME NEW p \in Keys
          PROVE  CutOnly(p, q)'
      <4>1. CASE p = Key(q)
        BY <1>2, <2>3, <3>3, <4>1 DEF CutOnly, Half
      <4>2. CASE p # Key(q)
        BY <1>2, <2>1, <2>3, <3>2, <4>2 DEF CutOnly, Half, Making
      <4> QED
        BY <4>1, <4>2
    <3> QED
      BY <3>4, <3>5
  <2>5. CASE at'[q].step # "make"
    BY <1>2, <2>1, <2>3, <2>5 DEF MadeSoFar, CutOnly, Half, Making
  <2> QED
    BY <2>4, <2>5
<1>8. CASE MakePart(q)
  <2>0. PICK k \in Keys : k = Key(q)
    BY <1>8, PartMade
  <2>a. PICK n : n = at[q].part
    OBVIOUS
  <2>b. PICK L : L = Len(Parts(k[2]))
    OBVIOUS
  <2>1. /\ at[q].step = "make" /\ at[q].step \in AtProduct
        /\ cut' = cut
    BY <1>8 DEF MakePart, AtProduct
  <2>2. n \in 1..L /\ L \in Nat
    BY <1>8, <2>0, <2>a, <2>b, PartMade
  <2>3. built[k][q] = n - 1
    BY <1>2, <2>0, <2>a, <2>1 DEF MadeSoFar
  <2>4. <<k, q>> \notin cut
    BY <1>2, <2>0, <2>1 DEF CutOnly, Making
  <2>5. ASSUME NEW p \in Keys, p # k
        PROVE  built'[p][q] = built[p][q]
    BY <1>8, <2>0, <2>5, PartMade
  <2>6. ASSUME NEW p \in Keys, p # k, ~Making(q, p)'
        PROVE  CutOnly(p, q)'
    <3>1. ~Making(q, p)
      BY <2>0, <2>6 DEF Making
    <3> QED
      BY <1>2, <2>1, <2>5, <2>6, <3>1 DEF CutOnly, Half
  <2>7. CASE n = 1 /\ Taken(k) /\ Fail(q) /\ UNCHANGED built
    <3>1. at'[q].step = "failed"
      BY <2>7, RunsMove, WhereRunsEnd DEF Fail
    <3>2. built'[k][q] = 0
      BY <2>3, <2>7
    <3>3. CutOnly(k, q)'
      BY <2>1, <2>4, <3>2 DEF CutOnly, Half
    <3>4. ASSUME NEW p \in Keys
          PROVE  CutOnly(p, q)'
      <4>1. ~Making(q, p)'
        BY <3>1 DEF Making
      <4> QED
        BY <2>6, <3>3, <4>1
    <3>5. MadeSoFar(q)'
      BY <3>1 DEF MadeSoFar
    <3> QED
      BY <3>4, <3>5
  <2>8. CASE built'[k][q] = n /\ Last(k, n) /\ GoTo(q, AfterProduct(q))
    <3>1. at'[q] = AfterProduct(q)
      BY <2>8, RunsMove
    <3>2. at'[q].step # "make"
      BY <3>1, AfterProductIs
    <3>3. built'[k][q] = Len(Parts(k[2]))
      BY <2>b, <2>8 DEF Last
    <3>4. CutOnly(k, q)'
      BY <2>1, <2>2, <2>b, <2>4, <3>3 DEF CutOnly, Half
    <3>5. ASSUME NEW p \in Keys
          PROVE  CutOnly(p, q)'
      <4>1. ~Making(q, p)'
        BY <3>2 DEF Making
      <4> QED
        BY <2>6, <3>4, <4>1
    <3>6. MadeSoFar(q)'
      BY <3>2 DEF MadeSoFar
    <3> QED
      BY <3>5, <3>6
  <2>9. CASE /\ built'[k][q] = n /\ ~Last(k, n)
             /\ GoTo(q, Step("make", k[1], at[q].kind, n + 1))
    <3>1. at'[q] = Step("make", at[q].brand, at[q].kind, n + 1)
      BY <2>0, <2>1, <2>9, KeyIsKey, RunsMove
    <3>2. Key(q)' = k /\ at'[q].step = "make" /\ at'[q].part = n + 1
      BY <2>0, <3>1 DEF Key, Step
    <3>3. MadeSoFar(q)'
      BY <2>2, <2>9, <3>2 DEF MadeSoFar
    <3>4. Making(q, k)'
      BY <3>2 DEF Making
    <3>5. CutOnly(k, q)'
      BY <2>1, <2>4, <3>4 DEF CutOnly
    <3>6. ASSUME NEW p \in Keys, p # k
          PROVE  CutOnly(p, q)'
      <4>1. ~Making(q, p)'
        BY <3>2, <3>6 DEF Making
      <4> QED
        BY <2>6, <3>6, <4>1
    <3> QED
      BY <3>3, <3>5, <3>6
  <2>10. \/ n = 1 /\ Taken(k) /\ Fail(q) /\ UNCHANGED built
         \/ /\ built'[k][q] = n
            /\ GoTo(q, IF Last(k, n) THEN AfterProduct(q)
                       ELSE Step("make", k[1], at[q].kind, n + 1))
    BY <1>8, <2>0, <2>a, PartMade
  <2> QED
    BY <2>7, <2>8, <2>9, <2>10
<1>9. CASE (Boot(q) \/ SeedStep(q)) /\ ~Stop(q) /\ ~FindProduct(q) /\ ~MakePart(q)
  BY <1>5, <1>9, OnlyMakersMake, OnlyMakersWereMaking
<1>10. CASE at'[q] = at[q] /\ ~Stop(q) /\ ~MakePart(q)
  BY <1>4, <1>10, OwnParts
<1> QED
  BY <1>6, <1>7, <1>8, <1>9, <1>10, OneMoves

-----------------------------------------------------------------------------
(* What a run alone has not found is still missing *)

LEMMA SeedersWork ==
    ASSUME NEW r \in Runners, SeedStep(r)
    PROVE  Seeding(r)
BY DEF Seeding, Off, SeedStep, EnsureAdmin, EnsureOrganisation, SeedBrandTeam, Provision,
       FindProduct, MakePart, FindInvitation, CreateInvitation, FindActivity, CreateActivity,
       FindNote, CreateNote, FindEmpty, Patch, Look

(* Which step writes the activity, the note and the history of overlaps.    *)
LEMMA Writers ==
    ASSUME Tables, Places, [Next]_vars
    PROVE  /\ packs' = packs \/ \E r \in Runners : CreateActivity(r)
           /\ noted' = noted \/ \E r \in Runners : CreateNote(r)
           /\ overlap' = overlap \/ \E r \in Runners : Boot(r)
           /\ overlap => overlap'
           /\ beside => beside'
<1> USE DEF tables, company
<1>1. ASSUME NEW r \in Runners, Boot(r)
      PROVE  packs' = packs /\ noted' = noted /\ (overlap => overlap') /\ (beside => beside')
  BY <1>1 DEF Boot
<1>2. ASSUME NEW r \in Runners, SeedStep(r)
      PROVE  /\ packs' = packs \/ CreateActivity(r)
             /\ noted' = noted \/ CreateNote(r)
             /\ overlap' = overlap /\ beside' = beside
  <2>1. CASE EnsureAdmin(r) \/ EnsureOrganisation(r) \/ SeedBrandTeam(r) \/ Provision(r)
    BY <2>1 DEF EnsureAdmin, EnsureOrganisation, SeedBrandTeam, Provision
  <2>2. CASE FindProduct(r) \/ MakePart(r) \/ FindEmpty(r) \/ Patch(r)
    BY <2>2 DEF FindProduct, MakePart, FindEmpty, Patch
  <2>3. CASE FindInvitation(r) \/ CreateInvitation(r) \/ FindActivity(r) \/ FindNote(r)
    BY <2>3 DEF FindInvitation, CreateInvitation, FindActivity, FindNote, Look
  <2>4. CASE CreateActivity(r) \/ CreateNote(r)
    BY <2>4 DEF CreateActivity, CreateNote
  <2> QED
    BY <1>2, <2>1, <2>2, <2>3, <2>4 DEF SeedStep
<1>3. ASSUME (\E r \in Runners : Stop(r))
             \/ (\E b \in BrandIds : ToggleBrand(b) \/ RemoveMember(b) \/ AcceptInvitation(b))
             \/ (\E p \in Products : EditNumbers(p)) \/ UNCHANGED vars
      PROVE  packs' = packs /\ noted' = noted /\ overlap' = overlap /\ beside' = beside
  BY <1>3 DEF Stop, ToggleBrand, RemoveMember, AcceptInvitation, EditNumbers, vars
<1> QED
  <2>1. CASE \E r \in Runners : Boot(r) \/ SeedStep(r)
    <3>1. CASE \E r \in Runners : Boot(r)
      BY <1>1, <3>1
    <3>2. CASE \E r \in Runners : SeedStep(r)
      BY <1>2, <3>2
    <3> QED
      BY <2>1, <3>1, <3>2
  <2>2. CASE ~\E r \in Runners : Boot(r) \/ SeedStep(r)
    <3>1. \/ \E r \in Runners : Stop(r)
          \/ \E b \in BrandIds : ToggleBrand(b) \/ RemoveMember(b) \/ AcceptInvitation(b)
          \/ (\E p \in Products : EditNumbers(p)) \/ UNCHANGED vars
      BY <2>2, Zenon DEF Next
    <3>2. packs' = packs /\ noted' = noted /\ overlap' = overlap /\ beside' = beside
      BY <1>3, <3>1
    <3> QED
      BY <3>2
  <2> QED
    BY <2>1, <2>2

LEMMA OneWorks ==
    ASSUME Tables, Places, Alone, [Next]_vars, ~overlap',
           NEW r \in Runners, NEW q \in Runners, Seeding(r)', Seeding(q)'
    PROVE  r = q
<1>1. ~overlap
  BY Writers
<1>2. CASE \E b \in Runners : Boot(b)
  <2>1. PICK b \in Runners : Boot(b)
    BY <1>2
  <2>2. \A x \in Runners \ {b} : ~Seeding(x)
    BY <2>1, <1>1 DEF Boot, Seeding, Off
  <2>3. \A x \in Runners \ {b} : at'[x] = at[x]
    BY <2>1, RunsMove DEF Boot
  <2> QED
    BY <2>2, <2>3 DEF Seeding
<1>3. CASE ~\E b \in Runners : Boot(b)
  <2>1. ASSUME NEW x \in Runners, Seeding(x)'
        PROVE  Seeding(x)
    <3>1. ~Stop(x)
      BY <2>1, RunsStop, WhereRunsEnd DEF Seeding
    <3> QED
      BY <1>3, <2>1, <3>1, OneMoves, SeedersWork DEF Seeding
  <2> QED
    BY <1>1, <2>1 DEF Alone
<1> QED
  BY <1>2, <1>3

LEMMA MissingStays ==
    ASSUME Tables, Places, Alone, ~overlap', [Next]_vars, NEW r \in Runners
    PROVE  StillMissing(r)'
<1>1. ~overlap /\ StillMissing(r)
  BY Writers DEF Alone
<1>2. at[r].step = "make" => Key(r) \in Keys
  BY KeyIsKey DEF AtProduct
<1>3. CASE at'[r] = at[r] /\ ~MakePart(r) /\ ~CreateActivity(r) /\ ~CreateNote(r)
  <2>1. CASE ~Seeding(r)
    BY <1>3, <2>1 DEF Seeding, StillMissing, Off
  <2>2. CASE Seeding(r)
    <3>1. ASSUME NEW q \in Runners, MakePart(q) \/ CreateActivity(q) \/ CreateNote(q)
          PROVE  FALSE
      <4>1. Seeding(q)
        BY <3>1, SeedersWork DEF SeedStep
      <4> QED
        BY <1>1, <1>3, <2>2, <3>1, <4>1 DEF Alone
    <3>2. built' = built /\ packs' = packs /\ noted' = noted
      BY <3>1, Writers, Grows
    <3> QED
      BY <1>1, <1>3, <3>2 DEF StillMissing, Key
  <2> QED
    BY <2>1, <2>2
<1>4. CASE FindProduct(r)
  <2>1. at[r].step \in AtProduct /\ Key(r) \in Keys /\ built' = built
    BY <1>4, KeyIsKey DEF FindProduct, AtProduct, tables
  <2>2. CASE Exists(Key(r))
    <3>1. at'[r] = AfterProduct(r)
      BY <1>4, <2>2, RunsMove DEF FindProduct
    <3>2. at'[r].step \in {"find", "find invite"}
      BY <3>1, AfterProductIs
    <3> QED
      BY <3>2 DEF StillMissing
  <2>3. CASE ~Exists(Key(r))
    <3>1. at'[r] = Step("make", at[r].brand, at[r].kind, 1)
      BY <1>4, <2>3, RunsMove DEF FindProduct
    <3>2. Key(r)' = Key(r) /\ at'[r].step = "make"
      BY <3>1 DEF Key, Step
    <3>3. \A q \in Runners : built'[Key(r)][q] = 0
      BY <2>1, <2>3 DEF Exists, Tables
    <3> QED
      BY <3>2, <3>3 DEF StillMissing
  <2> QED
    BY <2>2, <2>3
<1>5. CASE MakePart(r)
  <2>1. at[r].step = "make" /\ Key(r) \in Keys
    BY <1>2, <1>5 DEF MakePart
  <2>2. \A q \in Runners \ {r} : built'[Key(r)][q] = built[Key(r)][q]
    BY <1>5, <2>1, PartMade
  <2>3. \/ at'[r] = Failed
        \/ at'[r] = AfterProduct(r)
        \/ at'[r] = Step("make", Key(r)[1], at[r].kind, at[r].part + 1)
    BY <1>5, PartMade, RunsMove DEF Fail
  <2>4. CASE at'[r] = Step("make", Key(r)[1], at[r].kind, at[r].part + 1)
    <3>1. Key(r)' = Key(r) /\ at'[r].step = "make"
      BY <2>4 DEF Key, Step
    <3> QED
      BY <1>1, <2>1, <2>2, <3>1 DEF StillMissing
  <2>5. CASE at'[r] # Step("make", Key(r)[1], at[r].kind, at[r].part + 1)
    <3>1. Failed.step = "failed"
      BY WhereRunsEnd
    <3>2. at'[r].step \in {"failed", "find", "find invite"}
      BY <2>3, <2>5, <3>1, AfterProductIs
    <3> QED
      BY <3>2 DEF StillMissing
  <2> QED
    BY <2>4, <2>5
<1>6. CASE FindActivity(r) \/ FindNote(r)
  <2>1. at[r].brand \in BrandIds /\ packs' = packs /\ noted' = noted
    BY <1>6, HereBrand DEF FindActivity, FindNote, Look, Rest, tables
  <2>2. CASE FindActivity(r)
    <3>1. CASE packs[at[r].brand] > 0
      <4>1. at'[r] = Step("find note", at[r].brand, 1, 1)
        BY <2>2, <3>1, RunsMove DEF FindActivity, Look
      <4>2. at'[r].step = "find note"
        <5>1. Step("find note", at[r].brand, 1, 1).step = "find note"
          BY DEF Step
        <5> QED
          BY <4>1, <5>1, Zenon
      <4> QED
        BY <4>2 DEF StillMissing
    <3>2. CASE ~(packs[at[r].brand] > 0)
      <4>1. at'[r] = Step("create activity", at[r].brand, 1, 1)
        BY <2>2, <3>2, RunsMove DEF FindActivity, Look
      <4>2. at'[r].step = "create activity" /\ at'[r].brand = at[r].brand
        <5>1. Step("create activity", at[r].brand, 1, 1).step = "create activity"
              /\ Step("create activity", at[r].brand, 1, 1).brand = at[r].brand
          BY DEF Step
        <5> QED
          BY <4>1, <5>1, Zenon
      <4>3. packs'[at[r].brand] = 0
        BY <2>1, <3>2 DEF Tables
      <4> QED
        BY <4>2, <4>3 DEF StillMissing
    <3> QED
      BY <3>1, <3>2
  <2>3. CASE FindNote(r)
    <3>1. CASE noted[at[r].brand] > 0
      <4>1. at'[r] = Step(AfterBrand(at[r].brand), at[r].brand + 1, 1, 1)
        BY <2>3, <3>1, RunsMove DEF FindNote
      <4>2. at'[r].step = AfterBrand(at[r].brand)
        BY <4>1 DEF Step
      <4> QED
        BY <4>2 DEF AfterBrand, StillMissing
    <3>2. CASE ~(noted[at[r].brand] > 0)
      <4>1. at'[r] = Step("create note", at[r].brand, 1, 1)
        BY <2>3, <3>2, RunsMove DEF FindNote
      <4>2. at'[r].step = "create note" /\ at'[r].brand = at[r].brand
        <5>1. Step("create note", at[r].brand, 1, 1).step = "create note"
              /\ Step("create note", at[r].brand, 1, 1).brand = at[r].brand
          BY DEF Step
        <5> QED
          BY <4>1, <5>1, Zenon
      <4>3. noted'[at[r].brand] = 0
        BY <2>1, <3>2 DEF Tables
      <4> QED
        BY <4>2, <4>3 DEF StillMissing
    <3> QED
      BY <3>1, <3>2
  <2> QED
    BY <1>6, <2>2, <2>3
<1>7. CASE Boot(r) \/ Stop(r) \/ EnsureAdmin(r) \/ EnsureOrganisation(r) \/ SeedBrandTeam(r)
           \/ Provision(r) \/ FindInvitation(r) \/ CreateInvitation(r) \/ CreateActivity(r)
           \/ CreateNote(r) \/ FindEmpty(r) \/ Patch(r)
  <2>1. ASSUME NEW s, s \notin {"make", "create activity", "create note"},
               NEW b, NEW k, NEW n, GoTo(r, Step(s, b, k, n))
        PROVE  StillMissing(r)'
    <3>1. at'[r] = Step(s, b, k, n)
      BY <2>1, RunsMove
    <3>2. Step(s, b, k, n).step = s
      BY DEF Step
    <3>3. at'[r].step = s
      BY <3>1, <3>2, Zenon
    <3> QED
      BY <2>1, <3>3 DEF StillMissing
  <2>2. CASE Boot(r) \/ Stop(r) \/ EnsureAdmin(r) \/ EnsureOrganisation(r) \/ SeedBrandTeam(r)
             \/ Provision(r)
    BY <2>1, <2>2
       DEF Boot, Stop, EnsureAdmin, EnsureOrganisation, SeedBrandTeam, Provision, Down, Thrown
  <2>3. CASE FindInvitation(r)
    <3>1. PICK s \in {"create invite", "find activity"} : GoTo(r, Step(s, at[r].brand, 1, 1))
      BY <2>3 DEF FindInvitation, Look
    <3> QED
      BY <2>1, <3>1
  <2>4. CASE CreateInvitation(r) \/ CreateActivity(r)
    BY <2>1, <2>4 DEF CreateInvitation, CreateActivity, Fail, Failed
  <2>5. CASE CreateNote(r)
    <3>1. AfterBrand(at[r].brand) \in {"find empty", "org"}
      BY DEF AfterBrand
    <3> QED
      BY <2>1, <2>5, <3>1 DEF CreateNote
  <2>6. CASE FindEmpty(r)
    BY <2>1, <2>6 DEF FindEmpty
  <2>7. CASE Patch(r)
    <3>1. CASE GoTo(r, Up)
      BY <2>1, <3>1 DEF Up
    <3>2. CASE UNCHANGED at
      BY <2>7, <3>2 DEF Patch, StillMissing
    <3> QED
      BY <2>7, <3>1, <3>2 DEF Patch
  <2> QED
    BY <1>7, <2>2, <2>3, <2>4, <2>5, <2>6, <2>7
<1> QED
  BY <1>3, <1>4, <1>5, <1>6, <1>7, OneMoves DEF SeedStep

LEMMA AloneStep ==
    ASSUME Tables, Places, Alone, [Next]_vars
    PROVE  Alone'
<1>1. ASSUME ~overlap', NEW r \in Runners, NEW q \in Runners, Seeding(r)', Seeding(q)'
      PROVE  r = q
  BY <1>1, OneWorks
<1>2. ASSUME ~overlap', NEW r \in Runners
      PROVE  StillMissing(r)'
  BY <1>2, MissingStays
<1> QED
  BY <1>1, <1>2 DEF Alone

-----------------------------------------------------------------------------
(* Rows, packs and notes come once *)

LEMMA OneRowStep ==
    ASSUME Tables, Places, Halves, Alone, OneRow, [Next]_vars
    PROVE  OneRow'
<1> SUFFICES ASSUME NEW p \in Keys, NEW r \in Runners, NEW q \in Runners,
                    built'[p][r] > 0, built'[p][q] > 0, r # q
             PROVE  overlap' /\ p[2] = "archived"
  BY DEF OneRow
<1>1. overlap => overlap'
  BY Writers
<1>2. built[p][r] \in Nat /\ built[p][q] \in Nat
  BY DEF Tables
<1>3. CASE built[p][r] > 0 /\ built[p][q] > 0
  BY <1>1, <1>3 DEF OneRow
<1>4. ASSUME NEW x \in Runners, NEW y \in Runners, x # y,
             built'[p][x] > 0, built'[p][y] > 0, ~(built[p][x] > 0)
      PROVE  overlap' /\ p[2] = "archived"
  <2>1. MakePart(x)
    BY <1>4, OwnParts
  <2>2. at[x].step = "make" /\ built' # built
    BY <1>4, <2>1 DEF MakePart
  <2>3. p = Key(x)
    BY <1>4, <2>1, PartMade
  <2>4. built'[p][y] = built[p][y]
    BY <1>4, <2>1, <2>2, <2>3, PartMade
  <2>5. at[x].part = 1
    <3>1. at[x].part \in Nat /\ at[x].part > 0 /\ built[p][x] \in Nat
      <4>1. at[x].part \in 1..Len(Parts(Key(x)[2])) /\ Len(Parts(Key(x)[2])) \in Nat
        BY <2>1, PartMade
      <4>2. built[p][x] \in Nat
        BY DEF Tables
      <4> QED
        BY <4>1, <4>2
    <3>2. built[p][x] = at[x].part - 1
      BY <2>2, <2>3 DEF Halves, MadeSoFar
    <3> QED
      BY <1>4, <3>1, <3>2
  <2>6. ~Taken(p)
    BY <2>1, <2>2, <2>3, <2>5, PartMade
  <2>7. Exists(p)
    BY <1>4, <2>4 DEF Exists
  <2>8. p[2] = "archived"
    BY <2>6, <2>7 DEF Taken
  <2>9. overlap
    <3>1. built[Key(x)][y] # 0
      BY <1>4, <2>3, <2>4
    <3> QED
      BY <1>4, <2>2, <3>1 DEF Alone, StillMissing
  <2> QED
    BY <1>1, <2>8, <2>9
<1> QED
  BY <1>3, <1>4

LEMMA OnePackStep ==
    ASSUME Tables, Places, Alone, OnePack, [Next]_vars
    PROVE  OnePack'
<1> SUFFICES ASSUME NEW b \in BrandIds
             PROVE  (packs'[b] > 1 \/ noted'[b] > 1) => overlap'
  BY DEF OnePack
<1>1. overlap => overlap'
  BY Writers
<1>2. ASSUME packs'[b] > 1
      PROVE  overlap'
  <2>1. CASE packs' = packs
    BY <1>1, <1>2, <2>1 DEF OnePack
  <2>2. ASSUME NEW r \in Runners, CreateActivity(r), ~(packs[b] > 1)
        PROVE  overlap'
    <3>1. packs' = [packs EXCEPT ![at[r].brand] = @ + 1] /\ at[r].step = "create activity"
      BY <2>2 DEF CreateActivity
    <3>2. at[r].brand \in BrandIds
      BY <3>1, HereBrand DEF Rest
    <3>3. b = at[r].brand
      BY <1>2, <2>2, <3>1, <3>2 DEF Tables
    <3>4. packs[b] # 0
      <4>1. packs'[b] = packs[b] + 1
        BY <3>1, <3>3 DEF Tables
      <4> QED
        BY <1>2, <4>1
    <3> QED
      BY <1>1, <3>1, <3>3, <3>4 DEF Alone, StillMissing
  <2> QED
    BY <1>1, <2>1, <2>2, Writers DEF OnePack
<1>3. ASSUME noted'[b] > 1
      PROVE  overlap'
  <2>1. CASE noted' = noted
    BY <1>1, <1>3, <2>1 DEF OnePack
  <2>2. ASSUME NEW r \in Runners, CreateNote(r), ~(noted[b] > 1)
        PROVE  overlap'
    <3>1. noted' = [noted EXCEPT ![at[r].brand] = @ + 1] /\ at[r].step = "create note"
      BY <2>2 DEF CreateNote
    <3>2. at[r].brand \in BrandIds
      BY <3>1, HereBrand DEF Rest
    <3>3. b = at[r].brand
      BY <1>3, <2>2, <3>1, <3>2 DEF Tables
    <3>4. noted[b] # 0
      <4>1. noted'[b] = noted[b] + 1
        BY <3>1, <3>3 DEF Tables
      <4> QED
        BY <1>3, <4>1
    <3> QED
      BY <1>1, <3>1, <3>3, <3>4 DEF Alone, StillMissing
  <2> QED
    BY <1>1, <2>1, <2>2, Writers DEF OnePack
<1> QED
  BY <1>2, <1>3

-----------------------------------------------------------------------------
(* What users decide and type *)

(* Who writes numbers, and what the net has found.                          *)
LEMMA NumberWriters ==
    ASSUME Tables, Places, [Next]_vars
    PROVE  \/ /\ UNCHANGED <<numbers, found, typedLost>>
              /\ \A p : <<"numbers", p>> \in undone' <=> <<"numbers", p>> \in undone
           \/ \E r \in Runners : Stop(r) \/ FindProduct(r) \/ MakePart(r) \/ FindEmpty(r) \/ Patch(r)
           \/ \E p \in Products : EditNumbers(p)
<1> USE DEF tables, company
<1>1. ASSUME NEW r \in Runners,
             \/ Boot(r) \/ EnsureAdmin(r) \/ Provision(r)
             \/ FindInvitation(r) \/ CreateInvitation(r) \/ FindActivity(r) \/ CreateActivity(r)
             \/ FindNote(r) \/ CreateNote(r)
      PROVE  UNCHANGED <<numbers, found, typedLost, undone>>
  <2>1. CASE Boot(r) \/ EnsureAdmin(r) \/ Provision(r)
    BY <2>1 DEF Boot, EnsureAdmin, Provision
  <2>2. CASE FindInvitation(r) \/ CreateInvitation(r) \/ FindActivity(r) \/ CreateActivity(r)
    BY <2>2 DEF FindInvitation, CreateInvitation, FindActivity, CreateActivity, Look
  <2>3. CASE FindNote(r) \/ CreateNote(r)
    BY <2>3 DEF FindNote, CreateNote
  <2> QED
    BY <1>1, <2>1, <2>2, <2>3
<1>2. ASSUME NEW r \in Runners, EnsureOrganisation(r) \/ SeedBrandTeam(r)
      PROVE  /\ UNCHANGED <<numbers, found, typedLost>>
             /\ \A p : <<"numbers", p>> \in undone' <=> <<"numbers", p>> \in undone
  <2>1. undone' = undone \ {<<"org", at[r].brand>>} \/ undone' = undone \ {<<"member", at[r].brand>>}
    BY <1>2 DEF EnsureOrganisation, SeedBrandTeam
  <2> QED
    BY <1>2, <2>1 DEF EnsureOrganisation, SeedBrandTeam
<1>3. ASSUME NEW b \in BrandIds, ToggleBrand(b) \/ RemoveMember(b) \/ AcceptInvitation(b)
      PROVE  /\ UNCHANGED <<numbers, found, typedLost>>
             /\ \A p : <<"numbers", p>> \in undone' <=> <<"numbers", p>> \in undone
  <2>1. \E x \in {"org", "member"} : undone' = undone \/ undone' = undone \cup {<<x, b>>}
    BY <1>3 DEF ToggleBrand, RemoveMember, AcceptInvitation
  <2> QED
    BY <1>3, <2>1 DEF ToggleBrand, RemoveMember, AcceptInvitation
<1>4. ASSUME UNCHANGED vars
      PROVE  UNCHANGED <<numbers, found, typedLost, undone>>
  BY <1>4 DEF vars
<1> QED
  BY <1>1, <1>2, <1>3, <1>4, Zenon DEF Next, SeedStep

(* A container that is up beside a run has company on record.               *)
LEMMA BesideStep ==
    ASSUME Tables, Places, Alone, Beside, [Next]_vars
    PROVE  Beside'
<1> SUFFICES ASSUME NEW r \in Runners, NEW q \in Runners, Seeding(r)', at'[q] = Up
             PROVE  overlap' \/ beside'
  BY DEF Beside
<1>1. (overlap => overlap') /\ (beside => beside')
  BY Writers
<1>2. at'[q].step = "up" /\ r # q
  BY WhereRunsEnd DEF Seeding
<1>3. ASSUME Stop(r)
      PROVE  FALSE
  BY <1>3, RunsStop, WhereRunsEnd DEF Seeding
<1>4. CASE Boot(r)
  <2>1. at[q] = Up
    BY <1>2, <1>4, RunsMove DEF Boot
  <2> QED
    BY <1>4, <2>1 DEF Boot, ApiRuns
<1>5. CASE Seeding(r)
  <2>1. CASE at[q] = Up
    BY <1>1, <1>5, <2>1 DEF Beside
  <2>2. CASE SeedStep(q)
    BY <1>1, <1>2, <1>5, <2>2, SeedersWork DEF Alone
  <2>3. ASSUME Boot(q) \/ Stop(q)
        PROVE  FALSE
    <3>1. CASE Boot(q)
      BY <1>2, <3>1, RunsMove DEF Boot, Step
    <3>2. CASE Stop(q)
      BY <1>2, <3>2, RunsStop, WhereRunsEnd
    <3> QED
      BY <2>3, <3>1, <3>2
  <2> QED
    BY <2>1, <2>2, <2>3, OneMoves
<1>6. CASE SeedStep(r)
  BY <1>5, <1>6, SeedersWork
<1>7. CASE at'[r] = at[r]
  BY <1>5, <1>7 DEF Seeding
<1> QED
  BY <1>3, <1>4, <1>6, <1>7, OneMoves

LEMMA NetStep ==
    ASSUME Tables, Places, Alone, Beside, Net, [Next]_vars
    PROVE  Net'
<1> USE DEF tables, company
<1>1. (overlap => overlap') /\ (beside => beside')
  BY Writers
<1>2. ASSUME NEW q \in Runners, found'[q] \subseteq found[q],
             at'[q] = at[q] \/ found'[q] = {},
             \A p \in found'[q] : \/ numbers'[p] = numbers[p] \/ numbers'[p] \in {"empty", "partial"}
                                  \/ numbers'[p] = "typed" /\ (overlap \/ beside)
                                  \/ overlap
      PROVE  NetRun(q)'
  BY <1>1, <1>2 DEF Net, NetRun
(* One that has found something, beside another run.                        *)
<1>3. ASSUME NEW q \in Runners, found[q] # {}
      PROVE  at[q].step = "patch" /\ Seeding(q)
  BY <1>3 DEF Net, NetRun, Seeding, Off
<1>4. ASSUME NEW r \in Runners, SeedStep(r), NEW q \in Runners, q # r, found[q] # {}
      PROVE  overlap
  BY <1>3, <1>4, SeedersWork DEF Alone
<1>5. ASSUME UNCHANGED <<numbers, found, typedLost>>, ~\E r \in Runners : Stop(r) \/ Patch(r)
      PROVE  Net'
  <2>1. ASSUME NEW q \in Runners
        PROVE  NetRun(q)'
    <3>1. CASE found[q] = {}
      BY <1>2, <1>5, <3>1
    <3>2. CASE found[q] # {}
      <4>1. at[q].step = "patch"
        BY <1>3, <3>2
      <4>2. at'[q] = at[q]
        BY <1>5, <4>1, OneMoves
           DEF Boot, Off, SeedStep, EnsureAdmin, EnsureOrganisation, SeedBrandTeam, Provision,
               FindProduct, MakePart, FindInvitation, CreateInvitation, FindActivity,
               CreateActivity, FindNote, CreateNote, FindEmpty, Look
      <4> QED
        BY <1>2, <1>5, <4>2
    <3> QED
      BY <3>1, <3>2
  <2> QED
    BY <1>1, <1>5, <2>1 DEF Net
<1>6. ASSUME NEW r \in Runners, Stop(r)
      PROVE  Net'
  <2>1. ASSUME NEW q \in Runners
        PROVE  NetRun(q)'
    <3>1. found'[r] = {} /\ \A x \in Runners \ {r} : found'[x] = found[x] /\ at'[x] = at[x]
      BY <1>6, RunsStop, RunsMove DEF Stop, Tables
    <3>2. numbers' = numbers
      BY <1>6 DEF Stop
    <3> QED
      BY <1>2, <3>1, <3>2
  <2>2. typedLost' = typedLost
    BY <1>6 DEF Stop
  <2> QED
    BY <1>1, <2>1, <2>2 DEF Net
<1>7. ASSUME NEW r \in Runners, FindProduct(r) \/ MakePart(r)
      PROVE  Net'
  <2>1. SeedStep(r) /\ found' = found /\ typedLost' = typedLost /\ at[r].step # "patch"
    BY <1>7 DEF SeedStep, FindProduct, MakePart
  <2>2. \A x \in Runners \ {r} : at'[x] = at[x]
    BY <1>7, RunsMove DEF FindProduct, MakePart, Fail
  <2>3. ASSUME NEW q \in Runners
        PROVE  NetRun(q)'
    <3>1. CASE found[q] = {}
      BY <1>2, <2>1, <3>1
    <3>2. CASE found[q] # {}
      <4>1. q # r
        BY <1>3, <2>1, <3>2
      <4>2. overlap
        BY <1>4, <2>1, <3>2, <4>1
      <4> QED
        BY <1>2, <2>1, <2>2, <4>1, <4>2
    <3> QED
      BY <3>1, <3>2
  <2> QED
    BY <1>1, <2>1, <2>3 DEF Net
<1>8. ASSUME NEW r \in Runners, FindEmpty(r)
      PROVE  Net'
  <2>1. at'[r] = Step("patch", 1, 1, 1) /\ \A q \in Runners \ {r} : at'[q] = at[q]
    BY <1>8, RunsMove DEF FindEmpty
  <2>2. at'[r].step = "patch"
    BY <2>1 DEF Step
  <2>3. /\ found'[r] = {p \in Products : numbers[p] \in {"empty", "partial"}}
        /\ \A q \in Runners \ {r} : found'[q] = found[q]
        /\ numbers' = numbers /\ typedLost' = typedLost
    BY <1>8 DEF FindEmpty, Tables
  <2>4. NetRun(r)'
    BY <2>2, <2>3 DEF NetRun
  <2>5. \A q \in Runners \ {r} : NetRun(q)'
    BY <1>2, <2>1, <2>3
  <2> QED
    BY <1>1, <2>3, <2>4, <2>5 DEF Net
<1>9. ASSUME NEW r \in Runners, Patch(r)
      PROVE  Net'
  <2>1. SeedStep(r)
    BY <1>9 DEF SeedStep
  <2>2. CASE found[r] = {} /\ GoTo(r, Up) /\ UNCHANGED <<numbers, typedLost, found>>
    <3>1. \A q \in Runners \ {r} : at'[q] = at[q]
      BY <2>2, RunsMove
    <3>2. \A q \in Runners : NetRun(q)'
      BY <1>2, <2>2, <3>1
    <3> QED
      BY <1>1, <2>2, <3>2 DEF Net
  <2>3. ASSUME NEW p \in found[r],
               numbers' = [numbers EXCEPT ![p] = "invented"],
               typedLost' = (typedLost \/ numbers[p] = "typed"),
               found' = [found EXCEPT ![r] = found[r] \ {p}], UNCHANGED at
        PROVE  Net'
    <3>1. found'[r] = found[r] \ {p} /\ \A q \in Runners \ {r} : found'[q] = found[q]
      BY <2>3 DEF Tables
    <3>2. \A x \in found'[r] : numbers'[x] = numbers[x]
      BY <2>3, <3>1 DEF Tables
    <3>3. NetRun(r)'
      BY <1>2, <2>3, <3>1, <3>2
    <3>4. ASSUME NEW q \in Runners, q # r
          PROVE  NetRun(q)'
      <4>1. CASE found[q] = {}
        BY <1>2, <2>3, <3>1, <3>4, <4>1
      <4>2. CASE found[q] # {}
        BY <1>2, <1>4, <2>1, <2>3, <3>1, <3>4, <4>2
      <4> QED
        BY <4>1, <4>2
    <3>5. typedLost' => overlap' \/ beside'
      BY <1>1, <2>3 DEF Net, NetRun
    <3> QED
      BY <3>3, <3>4, <3>5 DEF Net
  <2> QED
    BY <1>9, <2>2, <2>3 DEF Patch
<1>10. ASSUME NEW p \in Products, EditNumbers(p)
       PROVE  Net'
  <2>1. PICK up \in Runners : at[up] = Up
    BY <1>10 DEF EditNumbers, Change, ApiRuns
  <2>2. ASSUME NEW q \in Runners, found[q] # {}
        PROVE  overlap \/ beside
    BY <1>3, <2>1, <2>2 DEF Beside
  <2>3. /\ at' = at /\ found' = found /\ typedLost' = typedLost
        /\ \E v \in {"empty", "partial", "typed"} : numbers' = [numbers EXCEPT ![p] = v]
    BY <1>10 DEF EditNumbers
  <2>4. \A x \in Products : numbers'[x] = numbers[x] \/ numbers'[x] \in {"empty", "partial", "typed"}
    BY <2>3 DEF Tables
  <2>5. ASSUME NEW q \in Runners
        PROVE  NetRun(q)'
    <3>1. found[q] \subseteq Products
      BY DEF Tables
    <3> QED
      BY <1>2, <2>2, <2>3, <2>4, <3>1
  <2> QED
    BY <1>1, <2>3, <2>5 DEF Net
<1> QED
  BY <1>5, <1>6, <1>7, <1>8, <1>9, <1>10, NumberWriters

(* Numbers that are not the script's any more.                              *)
LEMMA NumbersStep ==
    ASSUME Tables, Places, Net, Numbers, [Next]_vars
    PROVE  Numbers'
<1> USE DEF tables, company
<1> SUFFICES ASSUME NEW p \in Keys, numbers'[p] \notin {"none", "script"}
             PROVE  <<"numbers", p>> \in undone' \/ overlap'
  BY DEF Numbers
<1>1. overlap => overlap'
  BY Writers
<1>2. p \in Products
  BY DEF Products
<1>3. CASE /\ numbers'[p] = numbers[p]
           /\ <<"numbers", p>> \in undone => <<"numbers", p>> \in undone'
  BY <1>1, <1>3 DEF Numbers
<1>4. ASSUME NEW r \in Runners, Stop(r) \/ FindEmpty(r)
      PROVE  UNCHANGED <<numbers, undone>>
  BY <1>4 DEF Stop, FindEmpty
<1>5. ASSUME NEW r \in Runners, FindProduct(r)
      PROVE  <<"numbers", p>> \in undone' \/ overlap'
  <2>1. CASE UNCHANGED <<numbers, undone>>
    BY <1>3, <2>1
  <2>2. CASE /\ numbers' = [numbers EXCEPT ![Key(r)] = "script"]
             /\ undone' = undone \ {<<"numbers", Key(r)>>}
    <3>1. p # Key(r)
      BY <1>2, <2>2 DEF Tables
    <3>2. numbers'[p] = numbers[p] /\ (<<"numbers", p>> \in undone => <<"numbers", p>> \in undone')
      BY <1>2, <2>2, <3>1 DEF Tables
    <3> QED
      BY <1>3, <3>2
  <2> QED
    BY <1>5, <2>1, <2>2, Zenon DEF FindProduct
<1>6. ASSUME NEW r \in Runners, MakePart(r)
      PROVE  <<"numbers", p>> \in undone' \/ overlap'
  <2>1. undone' = undone /\ (numbers' = numbers \/ numbers' = [numbers EXCEPT ![Key(r)] = "script"])
    BY <1>6, Zenon DEF MakePart
  <2>2. numbers'[p] = numbers[p]
    BY <1>2, <2>1 DEF Tables
  <2> QED
    BY <1>3, <2>1, <2>2
<1>7. ASSUME NEW r \in Runners, Patch(r)
      PROVE  <<"numbers", p>> \in undone' \/ overlap'
  <2>1. undone' = undone
    BY <1>7 DEF Patch
  <2>2. CASE numbers'[p] = numbers[p]
    BY <1>3, <2>1, <2>2
  <2>3. CASE numbers'[p] # numbers[p]
    <3>1. p \in found[r]
      BY <1>2, <1>7, <2>3 DEF Patch, Tables
    <3>2. CASE numbers[p] \in {"none", "script", "invented"}
      BY <1>1, <3>1, <3>2 DEF Net, NetRun
    <3>3. CASE numbers[p] \notin {"none", "script", "invented"}
      BY <1>1, <2>1, <3>3 DEF Numbers
    <3> QED
      BY <3>2, <3>3
  <2> QED
    BY <2>2, <2>3
<1>8. ASSUME NEW x \in Products, EditNumbers(x)
      PROVE  <<"numbers", p>> \in undone' \/ overlap'
  <2>1. undone' = undone \cup {<<"numbers", x>>}
    BY <1>8 DEF EditNumbers
  <2>2. p # x => numbers'[p] = numbers[p]
    BY <1>2, <1>8 DEF EditNumbers, Tables
  <2> QED
    BY <1>3, <2>1, <2>2
<1> QED
  BY <1>3, <1>4, <1>5, <1>6, <1>7, <1>8, NumberWriters

LEMMA DecisionsStep ==
    ASSUME Tables, Places, Decisions, [Next]_vars
    PROVE  Decisions'
<1> USE DEF tables, company
<1>1. ASSUME UNCHANGED <<org, member>>,
             \A b \in BrandIds : /\ <<"org", b>> \in undone => <<"org", b>> \in undone'
                                 /\ <<"member", b>> \in undone => <<"member", b>> \in undone'
      PROVE  Decisions'
  BY <1>1 DEF Decisions, SeededState
<1>2. ASSUME NEW r \in Runners, Boot(r) \/ Stop(r)
      PROVE  Decisions'
  BY <1>1, <1>2 DEF Boot, Stop
<1>3. ASSUME NEW r \in Runners,
             EnsureAdmin(r) \/ Provision(r) \/ FindProduct(r) \/ MakePart(r) \/ FindEmpty(r)
             \/ Patch(r)
      PROVE  Decisions'
  <2>1. CASE FindProduct(r)
    <3>1. undone' = undone \/ undone' = undone \ {<<"numbers", Key(r)>>}
      BY <2>1 DEF FindProduct
    <3> QED
      BY <1>1, <2>1, <3>1 DEF FindProduct
  <2>2. CASE EnsureAdmin(r) \/ Provision(r) \/ MakePart(r) \/ FindEmpty(r) \/ Patch(r)
    BY <1>1, <2>2 DEF EnsureAdmin, Provision, MakePart, FindEmpty, Patch
  <2> QED
    BY <1>3, <2>1, <2>2
<1>4. ASSUME NEW r \in Runners,
             FindInvitation(r) \/ CreateInvitation(r) \/ FindActivity(r) \/ CreateActivity(r)
             \/ FindNote(r) \/ CreateNote(r)
      PROVE  Decisions'
  BY <1>1, <1>4 DEF FindInvitation, CreateInvitation, FindActivity, CreateActivity, FindNote,
                    CreateNote, Look
<1>5. ASSUME NEW r \in Runners, EnsureOrganisation(r)
      PROVE  Decisions'
  <2>1. /\ org' = [org EXCEPT ![at[r].brand] = SeededState(at[r].brand)]
        /\ undone' = undone \ {<<"org", at[r].brand>>} /\ member' = member
    BY <1>5 DEF EnsureOrganisation
  <2>2. at[r].brand \in BrandIds
    BY <1>5, HereBrand DEF EnsureOrganisation, Beginning
  <2>3. ASSUME NEW b \in BrandIds
        PROVE  org'[b] \notin {"none", SeededState(b)} => <<"org", b>> \in undone'
    <3>1. CASE b = at[r].brand
      BY <2>1, <2>2, <3>1 DEF Tables
    <3>2. CASE b # at[r].brand
      BY <2>1, <2>2, <3>2 DEF Tables, Decisions
    <3> QED
      BY <3>1, <3>2
  <2>4. ASSUME NEW b \in BrandIds
        PROVE  member'[b] = "removed" => <<"member", b>> \in undone'
    BY <2>1 DEF Decisions
  <2> QED
    BY <2>3, <2>4 DEF Decisions, SeededState
<1>6. ASSUME NEW r \in Runners, SeedBrandTeam(r)
      PROVE  Decisions'
  <2>1. /\ member' = [member EXCEPT ![at[r].brand] = "active"]
        /\ undone' = undone \ {<<"member", at[r].brand>>} /\ org' = org
    BY <1>6 DEF SeedBrandTeam
  <2>2. ASSUME NEW b \in BrandIds
        PROVE  org'[b] \notin {"none", SeededState(b)} => <<"org", b>> \in undone'
    BY <2>1 DEF Decisions
  <2>3. ASSUME NEW b \in BrandIds
        PROVE  member'[b] = "removed" => <<"member", b>> \in undone'
    <3>1. CASE b = at[r].brand
      BY <2>1, <3>1 DEF Tables
    <3>2. CASE b # at[r].brand
      BY <2>1, <3>2 DEF Tables, Decisions
    <3> QED
      BY <3>1, <3>2
  <2> QED
    BY <2>2, <2>3 DEF Decisions, SeededState
<1>7. ASSUME NEW b \in BrandIds, ToggleBrand(b)
      PROVE  Decisions'
  <2>1. \A c \in BrandIds : org'[c] = org[c] \/ c = b
    BY <1>7 DEF ToggleBrand, Tables
  <2>2. undone' = undone \cup {<<"org", b>>} /\ member' = member
    BY <1>7 DEF ToggleBrand
  <2> QED
    BY <2>1, <2>2 DEF Decisions, SeededState
<1>8. ASSUME NEW b \in BrandIds, RemoveMember(b)
      PROVE  Decisions'
  <2>1. \A c \in BrandIds : member'[c] = member[c] \/ c = b
    BY <1>8 DEF RemoveMember, Tables
  <2>2. undone' = undone \cup {<<"member", b>>} /\ org' = org
    BY <1>8 DEF RemoveMember
  <2> QED
    BY <2>1, <2>2 DEF Decisions, SeededState
<1>9. ASSUME (\E b \in BrandIds : AcceptInvitation(b)) \/ (\E p \in Products : EditNumbers(p)) \/ UNCHANGED vars
      PROVE  Decisions'
  BY <1>1, <1>9 DEF AcceptInvitation, EditNumbers, Change, vars
<1> QED
  BY <1>2, <1>3, <1>4, <1>5, <1>6, <1>7, <1>8, <1>9 DEF Next, SeedStep

-----------------------------------------------------------------------------
(* The theorems *)

LEMMA InvInit ==
    ASSUME Init
    PROVE  Inv
<1>1. \A r \in Runners : at[r] = Down
  BY DEF Init
<1>2. Down.step = "down"
  BY DEF Down, Step
<1>3. \A r \in Runners : at[r].step = "down"
  BY <1>1, <1>2, Zenon
<1>4. \A p \in Keys, r \in Runners : built[p][r] = 0
  BY DEF Init
<1>5. Tables
  <2>1. org \in [BrandIds -> {"none", "active", "suspended"}]
        /\ member \in [BrandIds -> {"none", "active", "removed"}]
        /\ invite \in [BrandIds -> {"none", "pending", "accepted"}]
    BY DEF Init
  <2>2. built \in [Keys -> [Runners -> Nat]]
    BY DEF Init
  <2>3. packs \in [BrandIds -> Nat] /\ noted \in [BrandIds -> Nat]
    BY DEF Init
  <2>4. /\ found \in [Runners -> SUBSET Products]
        /\ overlap \in BOOLEAN /\ beside \in BOOLEAN /\ typedLost \in BOOLEAN
    BY DEF Init
  <2>5. \A p \in Keys, r \in Runners : built[p][r] <= Len(Parts(p[2]))
    BY <1>4, PartsOfKeys
  <2>6. catalog \subseteq BrandIds /\ cut \subseteq Keys \X Runners
        /\ numbers \in [Products -> {"none", "empty", "partial", "typed", "script", "invented"}]
    BY DEF Init
  <2> QED
    BY <2>1, <2>2, <2>3, <2>4, <2>5, <2>6, Zenon DEF Tables
<1>6. Places
  <2>1. at = [r \in Runners |-> at[r]]
    BY DEF Init
  <2> QED
    BY <1>1, <2>1, PlaceOff DEF Places
<1>7. Behind
  BY <1>3, <1>4 DEF Behind, RunBehind, AtProduct, Init
<1>8. Halves
  BY <1>3, <1>4 DEF Halves, MadeSoFar, CutOnly, Half, Init
<1>9. Alone /\ Beside
  BY <1>3 DEF Alone, Beside, Seeding, StillMissing, Off
<1>10. OneRow /\ OnePack
  <2>1. \A b \in BrandIds : packs[b] = 0 /\ noted[b] = 0
    BY DEF Init
  <2> QED
    BY <1>4, <2>1 DEF OneRow, OnePack
<1>11. Net /\ Decisions /\ Numbers
  <2>1. \A b \in BrandIds : org[b] = "none" /\ member[b] = "none"
    BY DEF Init
  <2>2. (\A r \in Runners : found[r] = {}) /\ (\A p \in Products : numbers[p] = "none")
    BY DEF Init
  <2>3. ~typedLost
    BY DEF Init
  <2> QED
    BY <2>1, <2>2, <2>3 DEF Net, NetRun, Decisions, Numbers, Products
<1> QED
  BY <1>5, <1>6, <1>7, <1>8, <1>9, <1>10, <1>11 DEF Inv

LEMMA InvStep ==
    ASSUME Inv, [Next]_vars
    PROVE  Inv'
<1>1. Tables' /\ Places' /\ Behind'
  BY TablesStep, PlacesStep, BehindStep DEF Inv
<1>2. Halves'
  BY HalvesStep DEF Inv, Halves
<1>3. Alone' /\ Beside' /\ OneRow' /\ OnePack'
  BY AloneStep, BesideStep, OneRowStep, OnePackStep DEF Inv
<1>4. Net' /\ Decisions' /\ Numbers'
  BY NetStep, DecisionsStep, NumbersStep DEF Inv
<1> QED
  BY <1>1, <1>2, <1>3, <1>4 DEF Inv

LEMMA Invariance == Spec => []Inv
BY InvInit, InvStep, PTL DEF Spec

(* A set whose members are all the same has one at most.                    *)
LEMMA AtMostOne ==
    ASSUME NEW S, \A x, y \in S : x = y
    PROVE  ~(Cardinality(S) > 1)
<1>1. CASE S = {}
  BY <1>1, FS_EmptySet
<1>2. CASE S # {}
  <2>1. PICK x : S = {x}
    BY <1>2
  <2> QED
    BY <2>1, FS_Singleton
<1> QED
  BY <1>1, <1>2

LEMMA RowsOnce ==
    ASSUME Inv
    PROVE  SeededOnce
<1>1. ASSUME NEW p \in Keys, Cardinality({r \in Runners : built[p][r] > 0}) > 1
      PROVE  overlap /\ p[2] = "archived"
  <2> DEFINE S == {r \in Runners : built[p][r] > 0}
  <2>1. PICK r \in S, q \in S : r # q
    BY <1>1, AtMostOne
  <2> QED
    BY <2>1 DEF Inv, OneRow
<1>2. \A b \in BrandIds : packs[b] > 1 \/ noted[b] > 1 => overlap
  BY DEF Inv, OnePack
<1> QED
  BY <1>1, <1>2 DEF SeededOnce

(* Running the seed again, after any number of runs that were killed or     *)
(* failed and beside any number of others, adds no row that is there        *)
(* already, but for the archived product, the activity and the note, and    *)
(* for these only after two runs have overlapped.                           *)
THEOREM SeedsOnce == Spec => []SeededOnce
BY Invariance, RowsOnce, PTL

LEMMA HalvesAreCut ==
    ASSUME Inv
    PROVE  OnlyStopsLeaveHalves
<1>1. ASSUME NEW p \in Keys
      PROVE  built[p] \in [Runners -> 0..Len(Parts(p[2]))]
  <2>1. Len(Parts(p[2])) \in Nat
    BY PartsOfKeys
  <2>2. built[p] \in [Runners -> Nat] /\ \A r \in Runners : built[p][r] <= Len(Parts(p[2]))
    BY DEF Inv, Tables
  <2> QED
    BY <2>1, <2>2
<1>2. TypeOK
  <2>1. \A p \in Keys : Exists(p) => p[1] \in catalog
    BY DEF Inv, Behind, Exists
  <2> QED
    BY <1>1, <2>1 DEF TypeOK, Inv, Tables, Behind
<1>3. ASSUME NEW p \in Keys, NEW r \in Runners
      PROVE  /\ (built[p][r] \in 1..(Len(Parts(p[2])) - 1) /\ ~(at[r].step = "make" /\ Key(r) = p))
                   <=> <<p, r>> \in cut
             /\ <<p, r>> \in cut => built[p][r] \in 1..(Len(Parts(p[2])) - 1)
  BY Zenon DEF Inv, Halves, CutOnly, Half, Making
<1> QED
  BY <1>2, <1>3, Zenon DEF OnlyStopsLeaveHalves

(* A product that misses parts and that nobody is making was cut short by a *)
(* kill or by an error of its run, whatever brands, products and containers *)
(* there are, and it stays cut short: no later run completes it.            *)
THEOREM StopsLeaveHalves == Spec => []OnlyStopsLeaveHalves
BY Invariance, HalvesAreCut, PTL

LEMMA DecisionsStand ==
    ASSUME Inv
    PROVE  DecisionsLastUntilReseed
BY DEF Inv, Decisions, Numbers, Net, DecisionsLastUntilReseed

(* A brand, a member or the numbers of one of the script's products differs *)
(* from the script only if it was changed after the last run that wrote it  *)
(* (numbers also if two runs have overlapped), and the net replaces         *)
(* complete numbers only if a run has had another or the API beside it.     *)
THEOREM DecisionsAreReset == Spec => []DecisionsLastUntilReseed
BY Invariance, DecisionsStand, PTL
=============================================================================
