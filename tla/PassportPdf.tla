---------------------------- MODULE PassportPdf ----------------------------
(***************************************************************************)
(* The layout of an exported passport. PassportPdfService draws one block  *)
(* after another: ensureSpace starts a page when the height a block asks   *)
(* for is not left, moveDown skips a part of the line height of the text   *)
(* drawn last, and drawing sets doc.y. Flowing text breaks pages by itself *)
(* (pdfkit), at a lower limit than ensureSpace. The footers come last.     *)
(*                                                                         *)
(* Heights are in units of 1/10000 pt, so that every product is exact.     *)
(***************************************************************************)
EXTENDS Integers, Sequences

CONSTANT Products    \* the shapes of the snapshots passports are made of

(* A shape is what the layout depends on: the lines the description takes  *)
(* (0: none), how many of each part there are, and the ticked box.         *)
Shape == [description: Nat, materials: Nat, cards: Nat, recyclable: BOOLEAN,
          certifications: Nat, documents: Nat, images: Nat]

ASSUME ProductsAssumption == Products \subseteq Shape

VARIABLES
    todo,      \* the blocks generate() has not drawn yet
    page,      \* the page being drawn
    y,         \* doc.y
    em,        \* the line height of the text drawn last
    placed,    \* what has been drawn: kind, page, top and bottom
    footers    \* 0, or the N of "PAGE n OF N"

pdfVars == <<todo, page, y, em, placed, footers>>

Top        == 420000                \* PAGE.left, used as the top margin too
PageHeight == 8418900               \* A4
Limit      == PageHeight - 660000   \* ensureSpace: less PAGE.bottom
TextLimit  == PageHeight - 420000   \* pdfkit: less its own margin
FooterRule == PageHeight - 620000   \* the line above the footer text

-----------------------------------------------------------------------------
(* The blocks *)

(* need: what ensureSpace is asked for (0: it is not called); skip: tenths  *)
(* of a line moved down before drawing; ink: how far the drawing reaches;   *)
(* advance: what it adds to doc.y; em: the line height it leaves behind (0: *)
(* no text); flows: pdfkit may break the page.                              *)
Block(need, skip, ink, advance, lineHeight, flows) ==
    [need |-> need, skip |-> skip, ink |-> ink, advance |-> advance,
     em |-> lineHeight, flows |-> flows]

(* Broken, for mutation: the title asks for its own height only.            *)
TitleAlone(followingHeight) == Block(460000, 12, 230000, 310000, 119000, FALSE)

(* sectionTitle: the rule under the title is 23 below its top.              *)
Title(followingHeight) == Block(460000 + followingHeight, 12, 230000, 310000, 119000, FALSE)

Titles == {"informationTitle", "materialsTitle", "sustainabilityTitle",
           "certificationsTitle", "documentsTitle", "galleryTitle", "passportTitle"}

FlowingText == {"line", "lastLine", "recyclable", "url"}

Kinds == Titles \cup FlowingText \cup
         {"brand", "hero", "grid", "tableHead", "row", "cards", "certification",
          "document", "gallery", "panel"}

BrandHeader == Block(0, 0, 220000, 350000, 92480, FALSE)
Hero        == Block(0, 0, 1460000, 1540000, 83300, FALSE)
Line        == Block(0, 0, 115600, 145600, 115600, TRUE)
LastLine    == Block(0, 0, 115600, 145600 + 104040, 115600, TRUE)
InfoGrid    == Block(580000, 0, 480000, 520000, 107100, FALSE)
TableHead   == Block(270000, 0, 240000, 240000, 83300, FALSE)
TableRow    == Block(290000, 0, 270000, 270000, 98260, FALSE)
MetricCards == Block(600000, 0, 520000, 600000, 178500, FALSE)
Recyclable  == Block(0, 5, 107100, 107100, 107100, TRUE)
ListCard    == Block(490000, 0, 420000, 490000, 89250, FALSE)
Gallery     == Block(1120000, 0, 1000000, 1080000, 0, FALSE)
Panel       == Block(920000, 0, 920000, 920000, 101150, FALSE)
Url         == Block(480000, 10, 92480, 92480, 92480, TRUE)

Style ==
    [brand |-> BrandHeader, hero |-> Hero,
     informationTitle |-> Title(580000), materialsTitle |-> Title(270000),
     sustainabilityTitle |-> Title(600000), certificationsTitle |-> Title(490000),
     documentsTitle |-> Title(490000), galleryTitle |-> Title(1120000),
     passportTitle |-> Title(920000),
     line |-> Line, lastLine |-> LastLine, grid |-> InfoGrid,
     tableHead |-> TableHead, row |-> TableRow,
     cards |-> MetricCards, recyclable |-> Recyclable,
     certification |-> ListCard, document |-> ListCard,
     gallery |-> Gallery, panel |-> Panel, url |-> Url]

Repeat(n, k) == [i \in 1..n |-> k]

(* A section: nothing, or its title and its blocks.                         *)
Section(title, blocks) == IF blocks = <<>> THEN <<>> ELSE <<title>> \o blocks

Description(n) == IF n = 0 THEN <<>> ELSE Append(Repeat(n - 1, "line"), "lastLine")

(* Broken, for mutation: "RECYCLABLE" does not need cards.                  *)
SustainabilityUnconditional(cards, recyclable) ==
    Repeat((cards + 1) \div 2, "cards") \o (IF recyclable THEN <<"recyclable">> ELSE <<>>)

(* Metric cards come two to a row, and "RECYCLABLE" only below some.        *)
Sustainability(cards, recyclable) ==
    Repeat((cards + 1) \div 2, "cards") \o
    (IF cards > 0 /\ recyclable THEN <<"recyclable">> ELSE <<>>)

(* What generate() draws, in its order. "fetched" says whether at least one *)
(* gallery image could be fetched; all of them share a row.                 *)
Blocks(p, fetched) ==
    <<"brand", "hero", "informationTitle">> \o Description(p.description) \o <<"grid">>
    \o Section("materialsTitle",
               IF p.materials = 0 THEN <<>> ELSE <<"tableHead">> \o Repeat(p.materials, "row"))
    \o Section("sustainabilityTitle", Sustainability(p.cards, p.recyclable))
    \o Section("certificationsTitle", Repeat(p.certifications, "certification"))
    \o Section("documentsTitle", Repeat(p.documents, "document"))
    \o (IF fetched THEN <<"galleryTitle", "gallery">> ELSE <<>>)
    \o <<"passportTitle", "panel", "url">>

-----------------------------------------------------------------------------
Start(p, fetched) ==
    /\ todo = Blocks(p, fetched)
    /\ page = 1
    /\ y = Top
    /\ em = 0
    /\ placed = <<>>
    /\ footers = 0

(* The cover never is in the gallery.                                       *)
PdfInit == \E p \in Products, fetched \in BOOLEAN :
              (fetched => p.images > 1) /\ Start(p, fetched)

(* Draws the block at height "at" of page "on", after moving down; flowing  *)
(* text that would pass pdfkit's limit goes to the top of the next page.    *)
DrawAt(k, on, at) ==
    LET s     == Style[k]
        below == at + (s.skip * em) \div 10
        over  == s.flows /\ below + s.ink > TextLimit
        top   == IF over THEN Top ELSE below
        sheet == IF over THEN on + 1 ELSE on
    IN /\ page' = sheet
       /\ y' = top + s.advance
       /\ em' = IF s.em = 0 THEN em ELSE s.em
       /\ placed' = Append(placed, [kind |-> k, page |-> sheet, top |-> top, bottom |-> top + s.ink])

(* Broken, for mutation: no block asks for space.                           *)
DrawUnchecked ==
    /\ todo # <<>>
    /\ todo' = Tail(todo)
    /\ DrawAt(Head(todo), page, y)
    /\ UNCHANGED footers

(* One block: ensureSpace, if the block calls it, then the drawing.         *)
Draw ==
    /\ todo # <<>>
    /\ todo' = Tail(todo)
    /\ LET k == Head(todo)  need == Style[k].need IN
       IF need > 0 /\ y + need > Limit THEN DrawAt(k, page + 1, Top) ELSE DrawAt(k, page, y)
    /\ UNCHANGED footers

FooterText == PageHeight - 540000

(* addFooters counts the pages and writes on each; text below pdfkit's      *)
(* limit would add a page.                                                  *)
AddFooters ==
    /\ todo = <<>> /\ footers = 0 /\ placed # <<>>
    /\ footers' = page
    /\ page' = IF FooterText + 83300 > TextLimit THEN page + 1 ELSE page
    /\ UNCHANGED <<todo, y, em, placed>>

PdfNext == Draw \/ AddFooters

PdfSpec == PdfInit /\ [][PdfNext]_pdfVars

-----------------------------------------------------------------------------
(* Properties *)

PdfTypeOK ==
    /\ todo \in Seq(Kinds)
    /\ page \in Nat /\ y \in Nat /\ em \in Nat /\ em <= 178500 /\ footers \in Nat
    /\ placed \in Seq([kind: Kinds, page: Nat, top: Nat, bottom: Nat])

(* Blocks are drawn in reading order; none is drawn over the one before it *)
(* or over the footer, except text pdfkit breaks by itself: the lines of    *)
(* the description, and "RECYCLABLE", for which generate() never asks for   *)
(* space.                                                                   *)
NothingOverlaps ==
    \A i \in DOMAIN placed :
       LET b == placed[i] IN
       /\ b.kind \notin {"line", "lastLine", "recyclable"} => b.bottom <= FooterRule
       /\ i > 1 => LET a == placed[i - 1] IN
                   b.page > a.page \/ (b.page = a.page /\ b.top >= a.bottom)

(* A section's title is on the page of the section's first block, which is  *)
(* what followingHeight is for, unless metric cards came right before it:   *)
(* 1.2 lines of their 15 pt text and the title take 52.42, and sectionTitle *)
(* reserves 46.                                                             *)
TitleStaysWithSection ==
    \A i \in DOMAIN placed \ {1} :
       placed[i - 1].kind \in Titles /\ placed[i].page # placed[i - 1].page
          => placed[i - 2].kind = "cards"

(* The footers announce the number of pages there are.                      *)
PagesCounted == footers > 0 => footers = page
=============================================================================
