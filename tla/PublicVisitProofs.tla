-------------------------- MODULE PublicVisitProofs --------------------------
(* The layout of every exported PDF, for products of any size: no block is   *)
(* drawn over another, a title stays with its section, and the parts are     *)
(* those the page shows. And what a tab reports, for any number of loads.    *)
EXTENDS PublicVisit, SequenceTheorems, FunctionTheorems, FiniteSetTheorems, TLAPS

(* The blocks for which nothing asks for space.                              *)
Unreserved == {"line", "lastLine", "recyclable", "brand", "hero"}

(* The most a line moves down by what skip it is, the line height of all     *)
(* text but that of metric cards, what a title after such text moves down    *)
(* beyond what it reserves, where the hero begins, and what a title reserves *)
(* for itself.                                                               *)
Moves(skip) == skip * 17850
PlainEm     == 125000
Slack       == 150000
HeroAt      == Top + 350000
TitleHeight == 460000

(* What the proofs need to know of the style of a block: a block is not      *)
(* higher than what it adds to doc.y, and what is asked for it is enough     *)
(* whatever text was drawn before it.                                        *)
Numbers(s) ==
    /\ s.need \in Nat /\ s.ink \in Nat /\ s.advance \in Nat
    /\ s.skip \in {0, 5, 10, 12} /\ s.em \in Nat /\ s.em <= 178500
    /\ s.ink <= s.advance /\ s.ink <= 1460000 /\ s.need <= 1580000

Asking(k, s) ==
    /\ k \in Unreserved => s.need = 0
    /\ k \notin Unreserved => s.need > 0 /\ Moves(s.skip) + s.ink <= s.need

AtTheTop(k, s) ==
    /\ k \in {"brand", "hero"} => s.skip = 0 /\ s.flows = FALSE
    /\ k = "brand" => s.advance = 350000

Text(k, s) ==
    /\ k # "cards" => s.em <= PlainEm
    /\ s.em = 0 => k = "gallery"

OfTitle(k, s) ==
    k \in Titles => s.skip = 12 /\ s.advance = 310000 /\ s.flows = FALSE /\ s.need >= TitleHeight

Sound(k, s) == Numbers(s) /\ Asking(k, s) /\ AtTheTop(k, s) /\ Text(k, s) /\ OfTitle(k, s)

(* The blocks that may follow a title; what it has reserved suffices.        *)
First ==
    [informationTitle    |-> {"line", "lastLine", "grid"},
     materialsTitle      |-> {"tableHead"},
     sustainabilityTitle |-> {"cards"},
     certificationsTitle |-> {"certification"},
     documentsTitle      |-> {"document"},
     galleryTitle        |-> {"gallery"},
     passportTitle       |-> {"panel"}]

Fits(t, k, title, s) ==
    /\ k \in Kinds \ Titles /\ s.skip = 0
    /\ s.need <= title.need - TitleHeight
    /\ s.need = 0 => s.ink <= title.need - TitleHeight
    /\ k = "gallery" => t = "galleryTitle"

-----------------------------------------------------------------------------
LEMMA StyleTable ==
    /\ Style["brand"] = BrandHeader /\ Style["hero"] = Hero
    /\ Style["informationTitle"] = Title(580000) /\ Style["materialsTitle"] = Title(270000)
    /\ Style["sustainabilityTitle"] = Title(600000) /\ Style["certificationsTitle"] = Title(490000)
    /\ Style["documentsTitle"] = Title(490000) /\ Style["galleryTitle"] = Title(1120000)
    /\ Style["passportTitle"] = Title(920000) /\ Style["line"] = Line
    /\ Style["lastLine"] = LastLine /\ Style["grid"] = InfoGrid
    /\ Style["tableHead"] = TableHead /\ Style["row"] = TableRow
    /\ Style["cards"] = MetricCards /\ Style["recyclable"] = Recyclable
    /\ Style["certification"] = ListCard /\ Style["document"] = ListCard
    /\ Style["gallery"] = Gallery /\ Style["panel"] = Panel
    /\ Style["url"] = Url
BY SMT DEF Style

LEMMA EachSound ==
    /\ Sound("brand", BrandHeader) /\ Sound("hero", Hero)
    /\ Sound("informationTitle", Title(580000)) /\ Sound("materialsTitle", Title(270000))
    /\ Sound("sustainabilityTitle", Title(600000)) /\ Sound("certificationsTitle", Title(490000))
    /\ Sound("documentsTitle", Title(490000)) /\ Sound("galleryTitle", Title(1120000))
    /\ Sound("passportTitle", Title(920000)) /\ Sound("line", Line)
    /\ Sound("lastLine", LastLine) /\ Sound("grid", InfoGrid)
    /\ Sound("tableHead", TableHead) /\ Sound("row", TableRow)
    /\ Sound("cards", MetricCards) /\ Sound("recyclable", Recyclable)
    /\ Sound("certification", ListCard) /\ Sound("document", ListCard)
    /\ Sound("gallery", Gallery) /\ Sound("panel", Panel)
    /\ Sound("url", Url)
<1> USE DEF Sound, Numbers, Asking, AtTheTop, Text, OfTitle, Moves, PlainEm, TitleHeight,
            Titles, Unreserved, Block
<1>1. /\ Sound("brand", BrandHeader)
      /\ Sound("hero", Hero)
      /\ Sound("grid", InfoGrid)
  BY SMT DEF BrandHeader, Hero, InfoGrid
<1>2. /\ Sound("informationTitle", Title(580000))
      /\ Sound("materialsTitle", Title(270000))
      /\ Sound("sustainabilityTitle", Title(600000))
      /\ Sound("certificationsTitle", Title(490000))
      /\ Sound("documentsTitle", Title(490000))
      /\ Sound("galleryTitle", Title(1120000))
      /\ Sound("passportTitle", Title(920000))
  BY SMT DEF Title
<1>3. /\ Sound("line", Line)
      /\ Sound("lastLine", LastLine)
      /\ Sound("recyclable", Recyclable)
      /\ Sound("url", Url)
  BY SMT DEF LastLine, Line, Recyclable, Url
<1>4. /\ Sound("tableHead", TableHead)
      /\ Sound("row", TableRow)
      /\ Sound("cards", MetricCards)
  BY SMT DEF MetricCards, TableHead, TableRow
<1>5. /\ Sound("certification", ListCard)
      /\ Sound("document", ListCard)
      /\ Sound("gallery", Gallery)
      /\ Sound("panel", Panel)
  BY SMT DEF Gallery, ListCard, Panel
<1> QED
  BY <1>1, <1>2, <1>3, <1>4, <1>5

LEMMA StyleFacts ==
    ASSUME NEW k \in Kinds
    PROVE  Sound(k, Style[k])
BY StyleTable, EachSound DEF Kinds, Titles, FlowingText

LEMMA EachFits ==
    /\ Fits("informationTitle", "line", Title(580000), Line)
    /\ Fits("informationTitle", "lastLine", Title(580000), LastLine)
    /\ Fits("informationTitle", "grid", Title(580000), InfoGrid)
    /\ Fits("materialsTitle", "tableHead", Title(270000), TableHead)
    /\ Fits("sustainabilityTitle", "cards", Title(600000), MetricCards)
    /\ Fits("certificationsTitle", "certification", Title(490000), ListCard)
    /\ Fits("documentsTitle", "document", Title(490000), ListCard)
    /\ Fits("galleryTitle", "gallery", Title(1120000), Gallery)
    /\ Fits("passportTitle", "panel", Title(920000), Panel)
BY SMT DEF Fits, TitleHeight, Kinds, FlowingText, Titles, Block, Title, Line, LastLine,
           InfoGrid, TableHead, MetricCards, ListCard, Gallery, Panel

LEMMA FirstTable ==
    /\ First["informationTitle"] = {"line", "lastLine", "grid"}
    /\ First["materialsTitle"] = {"tableHead"}
    /\ First["sustainabilityTitle"] = {"cards"}
    /\ First["certificationsTitle"] = {"certification"}
    /\ First["documentsTitle"] = {"document"}
    /\ First["galleryTitle"] = {"gallery"}
    /\ First["passportTitle"] = {"panel"}
BY SMT DEF First

LEMMA FirstFits ==
    ASSUME NEW t \in Titles, NEW k \in First[t]
    PROVE  Fits(t, k, Style[t], Style[k])
BY StyleTable, EachFits, FirstTable DEF Titles

-----------------------------------------------------------------------------
(* What a block moves down, by the text before it.                           *)
LEMMA MovedDown ==
    ASSUME NEW skip \in {0, 5, 10, 12}, NEW e \in Nat, e <= 178500
    PROVE  /\ (skip * e) \div 10 \in Nat /\ (skip * e) \div 10 <= Moves(skip)
           /\ skip = 12 /\ e <= PlainEm => (skip * e) \div 10 <= Slack
           /\ skip = 0 => (skip * e) \div 10 = 0
<1>1. CASE skip = 0
  BY <1>1, SMT DEF Moves, PlainEm, Slack
<1>2. CASE skip = 5
  BY <1>2, SMT DEF Moves, PlainEm, Slack
<1>3. CASE skip = 10
  BY <1>3, SMT DEF Moves, PlainEm, Slack
<1>4. CASE skip = 12
  BY <1>4, SMT DEF Moves, PlainEm, Slack
<1> QED
  BY <1>1, <1>2, <1>3, <1>4

(* The blocks still to draw: each title before a block of its section, the   *)
(* gallery right after its title, the brand and the hero first.              *)
Body == Kinds \ {"brand", "hero"}

Ordered(s) ==
    \A i \in 1..Len(s) :
       /\ s[i] \in Titles => i < Len(s) /\ s[i + 1] \in First[s[i]]
       /\ s[i] = "gallery" /\ i > 1 => s[i - 1] = "galleryTitle"

Whole(s) ==
    /\ s \in Seq(Kinds) /\ Len(s) > 1 /\ Ordered(s)
    /\ s[1] = "brand" /\ s[2] = "hero" /\ \A i \in 3..Len(s) : s[i] \in Body

Stage ==
    \/ y = Top /\ placed = <<>> /\ Whole(todo)
    \/ y = HeroAt /\ todo # <<>> /\ todo[1] = "hero" /\ \A i \in 2..Len(todo) : todo[i] \in Body
    \/ \A i \in 1..Len(todo) : todo[i] \in Body

-----------------------------------------------------------------------------
(* Where a block goes, when its space has been ensured from height y on.     *)
Ensured(s, on, base) ==
    \/ s.need > 0 /\ y + s.need > Limit /\ on = page + 1 /\ base = Top
    \/ ~(s.need > 0 /\ y + s.need > Limit) /\ on = page /\ base = y

Broken(s, on, below, sheet, top) ==
    \/ s.flows /\ below + s.ink > TextLimit /\ sheet = on + 1 /\ top = Top
    \/ ~(s.flows /\ below + s.ink > TextLimit) /\ sheet = on /\ top = below

Placement(k, s, sheet, top) ==
    /\ sheet > page \/ (sheet = page /\ top >= y)
    /\ k \notin {"line", "lastLine", "recyclable"} => top + s.ink <= FooterRule
    /\ k \in Titles /\ em <= PlainEm => top + s.need <= Limit + Slack
    /\ s.skip = 0 /\ y + s.need <= Limit /\ (s.need = 0 => y + s.ink <= Limit) => sheet = page
    /\ k = "brand" => top = Top

LEMMA WhereItGoes ==
    ASSUME page \in Nat, y \in Nat, NEW k \in Kinds, NEW s, Sound(k, s), NEW moved \in Nat,
           moved <= Moves(s.skip), s.skip = 12 /\ em <= PlainEm => moved <= Slack,
           s.skip = 0 => moved = 0,
           NEW on, NEW base, Ensured(s, on, base),
           NEW sheet, NEW top, Broken(s, on, base + moved, sheet, top),
           k \in {"brand", "hero"} => y \in {Top, HeroAt} /\ (k = "brand" => y = Top)
    PROVE  sheet \in Nat /\ top \in Nat /\ Placement(k, s, sheet, top)
<1>1. /\ Moves(s.skip) \in Nat /\ s.need \in Nat /\ s.ink \in Nat
      /\ s.ink <= 1460000 /\ s.need <= 1580000 /\ s.skip \in Nat
  BY SMT DEF Sound, Numbers, Moves
<1>2. /\ base \in Nat /\ on \in Nat /\ (base = Top \/ base = y)
      /\ (on = page /\ base = y) \/ (on = page + 1 /\ base = Top)
      /\ s.need > 0 => base + s.need <= Limit
  BY <1>1, SMT DEF Ensured, Top, Limit, PageHeight
<1>3. /\ sheet \in Nat /\ top \in Nat
      /\ sheet > page \/ (sheet = page /\ top >= y)
      /\ top = Top \/ top = base + moved
  BY <1>1, <1>2, SMT DEF Broken, Top
<1>4. ASSUME k \notin {"line", "lastLine", "recyclable"} PROVE top + s.ink <= FooterRule
  <2>1. CASE top = Top
    BY <2>1, <1>1, SMT DEF Top, FooterRule, PageHeight
  <2>2. CASE top = base + moved /\ k \in {"brand", "hero"}
    <3>1. s.need = 0 /\ s.skip = 0 /\ moved = 0
      BY <2>2, SMT DEF Sound, Asking, AtTheTop, Unreserved
    <3>2. base \in {Top, HeroAt}
      BY <2>2, <1>2
    <3> QED
      BY <2>2, <3>1, <3>2, <1>1, SMT DEF Top, HeroAt, FooterRule, PageHeight
  <2>3. CASE top = base + moved /\ k \notin {"brand", "hero"}
    <3>1. s.need > 0 /\ Moves(s.skip) + s.ink <= s.need
      BY <1>4, <2>3, SMT DEF Sound, Asking, Unreserved
    <3> QED
      BY <2>3, <3>1, <1>1, <1>2, SMT DEF Moves, Limit, FooterRule, PageHeight
  <2> QED
    BY <2>1, <2>2, <2>3, <1>3, Zenon
<1>5. ASSUME k \in Titles, em <= PlainEm PROVE top + s.need <= Limit + Slack
  <2>1. s.skip = 12 /\ s.flows = FALSE /\ s.need > 0
    <3>1. k \notin Unreserved
      BY <1>5 DEF Titles, Unreserved
    <3> QED
      BY <1>5, <3>1, SMT DEF Sound, Asking, OfTitle
  <2>2. top = base + moved /\ moved <= Slack
    BY <2>1, <1>5, Zenon DEF Broken
  <2> QED
    BY <2>1, <2>2, <1>1, <1>2, SMT DEF Slack, Limit, PageHeight
<1>6. ASSUME s.skip = 0, y + s.need <= Limit, s.need = 0 => y + s.ink <= Limit
      PROVE  sheet = page
  <2>1. on = page /\ base = y /\ moved = 0
    BY <1>1, <1>6, SMT DEF Ensured, Limit, PageHeight
  <2>2. s.need = 0 \/ s.ink <= s.need
    BY <1>1, <1>6, SMT DEF Sound, Asking
  <2>3. base + moved + s.ink <= TextLimit
    BY <2>1, <2>2, <1>1, <1>6, SMT DEF Limit, TextLimit, PageHeight
  <2> QED
    BY <2>1, <2>3, <1>1, <1>2, SMT DEF Broken, TextLimit, PageHeight
<1>7. ASSUME k = "brand" PROVE top = Top
  <2>1. s.need = 0 /\ s.flows = FALSE /\ moved = 0 /\ y = Top
    BY <1>7, SMT DEF Sound, Asking, AtTheTop, Unreserved
  <2>2. base = Top
    BY <2>1, <1>2
  <2> QED
    BY <2>1, <2>2, SMT DEF Broken, Top
<1> QED
  BY <1>3, <1>4, <1>5, <1>6, <1>7, Zenon DEF Placement

LEMMA DrawEffect ==
    ASSUME PdfTypeOK, Stage, Draw
    PROVE  /\ Head(todo) \in Kinds /\ Head(todo) = todo[1] /\ todo # <<>>
           /\ Sound(Head(todo), Style[Head(todo)])
           /\ \E sheet \in Nat, top \in Nat :
              /\ page' = sheet /\ y' = top + Style[Head(todo)].advance
              /\ em' = IF Style[Head(todo)].em = 0 THEN em ELSE Style[Head(todo)].em
              /\ placed' = Append(placed, [kind |-> Head(todo), page |-> sheet, top |-> top,
                                           bottom |-> top + Style[Head(todo)].ink])
              /\ Placement(Head(todo), Style[Head(todo)], sheet, top)
<1>1. Head(todo) \in Kinds /\ Head(todo) = todo[1] /\ 1 \in 1..Len(todo) /\ todo # <<>>
  BY HeadTailProperties, LenProperties, EmptySeq DEF Draw, PdfTypeOK
<1> DEFINE k == Head(todo)
           s == Style[k]
           moved == (s.skip * em) \div 10
<1>2. Sound(k, s)
  BY <1>1, StyleFacts
<1>3. /\ moved \in Nat /\ moved <= Moves(s.skip)
      /\ s.skip = 12 /\ em <= PlainEm => moved <= Slack
      /\ s.skip = 0 => moved = 0
  <2>1. s.skip \in {0, 5, 10, 12} /\ em \in Nat /\ em <= 178500
    BY <1>2 DEF Sound, Numbers, PdfTypeOK
  <2>2. Moves(s.skip) \in Nat
    BY <2>1, SMT DEF Moves
  <2>3. moved \in Nat /\ moved <= Moves(s.skip)
    BY <2>1, MovedDown
  <2>4. (s.skip = 12 /\ em <= PlainEm => moved <= Slack) /\ (s.skip = 0 => moved = 0)
    BY <2>1, MovedDown
  <2> HIDE DEF moved, s
  <2> QED
    BY <2>2, <2>3, <2>4, Zenon
<1>4. k \in {"brand", "hero"} => y \in {Top, HeroAt} /\ (k = "brand" => y = Top)
  BY <1>1 DEF Stage, Whole, Body
<1>5. PICK on, base : Ensured(s, on, base) /\ DrawAt(k, on, base)
  <2>1. CASE s.need > 0 /\ y + s.need > Limit
    BY <2>1 DEF Draw, Ensured
  <2>2. CASE ~(s.need > 0 /\ y + s.need > Limit)
    BY <2>2 DEF Draw, Ensured
  <2> QED
    BY <2>1, <2>2
<1>6. PICK sheet, top :
         /\ Broken(s, on, base + moved, sheet, top)
         /\ page' = sheet /\ y' = top + s.advance /\ em' = IF s.em = 0 THEN em ELSE s.em
         /\ placed' = Append(placed, [kind |-> k, page |-> sheet, top |-> top,
                                      bottom |-> top + s.ink])
  <2>1. CASE s.flows /\ base + moved + s.ink > TextLimit
    BY <2>1, <1>5 DEF DrawAt, Broken
  <2>2. CASE ~(s.flows /\ base + moved + s.ink > TextLimit)
    BY <2>2, <1>5 DEF DrawAt, Broken
  <2> QED
    BY <2>1, <2>2
<1>7. page \in Nat /\ y \in Nat
  BY DEF PdfTypeOK
<1> HIDE DEF moved, s, k
<1>8. sheet \in Nat /\ top \in Nat /\ Placement(k, s, sheet, top)
  BY <1>1, <1>2, <1>3, <1>4, <1>5, <1>6, <1>7, WhereItGoes DEF k
<1> QED
  BY <1>1, <1>2, <1>6, <1>8 DEF k, s

-----------------------------------------------------------------------------
(* The inductive invariant of the layout.                                    *)
Last == placed[Len(placed)]

(* Everything on the page ends above doc.y.                                  *)
LastAbove == placed # <<>> => Last.page = page /\ Last.bottom <= y

(* Only metric cards leave a larger line height behind.                      *)
SmallText == em > PlainEm => placed # <<>> /\ Last.kind = "cards"

(* The gallery leaves the line height of its title.                          *)
Announced == todo # <<>> /\ todo[1] = "gallery" => placed # <<>> /\ Last.kind = "galleryTitle"

(* After a title there is room for the first block of its section, unless    *)
(* metric cards came before it.                                              *)
Reserved ==
    placed # <<>> /\ Last.kind \in Titles =>
       /\ todo # <<>> /\ todo[1] \in First[Last.kind]
       /\ \/ y + (Style[Last.kind].need - TitleHeight) <= Limit
          \/ Len(placed) > 1 /\ placed[Len(placed) - 1].kind = "cards"

(* TitleStaysWithSection, which a title drawn second would satisfy vacuously. *)
TitleSafe ==
    \A i \in 2..Len(placed) :
       placed[i - 1].kind \in Titles /\ placed[i].page # placed[i - 1].page
          => i > 2 /\ placed[i - 2].kind = "cards"

LayoutInv ==
    /\ PdfTypeOK /\ Ordered(todo) /\ Stage /\ (footers > 0 => todo = <<>>)
    /\ LastAbove /\ SmallText /\ Announced /\ Reserved
    /\ NothingOverlaps /\ TitleSafe

Entry == [kind: Kinds, page: Nat, top: Nat, bottom: Nat]

(* One block more on paper, one less to draw.                                *)
Moved(k, s, sheet, top) ==
    /\ k \in Kinds /\ s = Style[k] /\ Sound(k, s) /\ sheet \in Nat /\ top \in Nat
    /\ todo # <<>> /\ k = todo[1] /\ Len(todo') = Len(todo) - 1
    /\ \A i \in 1..Len(todo') : todo'[i] = todo[i + 1]
    /\ page' = sheet /\ y' = top + s.advance /\ em' = IF s.em = 0 THEN em ELSE s.em
    /\ Len(placed') = Len(placed) + 1
    /\ placed'[Len(placed) + 1] = [kind |-> k, page |-> sheet, top |-> top, bottom |-> top + s.ink]
    /\ \A i \in 1..Len(placed) : placed'[i] = placed[i]
    /\ Placement(k, s, sheet, top)

LEMMA DrawMoves ==
    ASSUME PdfTypeOK, Stage, Draw
    PROVE  PdfTypeOK' /\ \E k, s, sheet, top : Moved(k, s, sheet, top)
<1> DEFINE k == Head(todo)
           s == Style[k]
<1>1. /\ k \in Kinds /\ k = todo[1] /\ todo # <<>> /\ Sound(k, s)
      /\ \E sheet \in Nat, top \in Nat :
              /\ page' = sheet /\ y' = top + s.advance
              /\ em' = IF s.em = 0 THEN em ELSE s.em
              /\ placed' = Append(placed, [kind |-> k, page |-> sheet, top |-> top,
                                           bottom |-> top + s.ink])
              /\ Placement(k, s, sheet, top)
  BY DrawEffect, Zenon
<1>2. PICK sheet \in Nat, top \in Nat :
              /\ page' = sheet /\ y' = top + s.advance
              /\ em' = IF s.em = 0 THEN em ELSE s.em
              /\ placed' = Append(placed, [kind |-> k, page |-> sheet, top |-> top,
                                           bottom |-> top + s.ink])
              /\ Placement(k, s, sheet, top)
  BY <1>1, Zenon
<1>3. todo' = Tail(todo) /\ footers' = footers
  BY DEF Draw
<1>4. todo \in Seq(Kinds)
  BY DEF PdfTypeOK
<1>5. /\ todo' \in Seq(Kinds) /\ Len(todo') = Len(todo) - 1
      /\ \A i \in 1..Len(todo') : todo'[i] = todo[i + 1]
  BY <1>1, <1>3, <1>4, HeadTailProperties, Zenon
<1> DEFINE new == [kind |-> k, page |-> sheet, top |-> top, bottom |-> top + s.ink]
<1>6. s.advance \in Nat /\ s.ink \in Nat /\ s.em \in Nat /\ s.em <= 178500
  BY <1>1, SMT DEF Sound, Numbers
<1>7. new \in Entry
  BY <1>1, <1>6, SMT DEF Entry
<1>8. placed \in Seq(Entry) /\ em \in Nat /\ em <= 178500 /\ footers \in Nat
  BY SMT DEF PdfTypeOK, Entry
<1> HIDE DEF s, k
<1>9. placed' = Append(placed, new)
  BY <1>2
<1>10. /\ placed' \in Seq(Entry) /\ Len(placed') = Len(placed) + 1
       /\ placed'[Len(placed) + 1] = new /\ \A i \in 1..Len(placed) : placed'[i] = placed[i]
  <2> HIDE DEF new
  <2> QED
    BY <1>7, <1>8, <1>9, AppendProperties
<1>11. PdfTypeOK'
  BY <1>2, <1>3, <1>5, <1>6, <1>8, <1>10, SMT DEF PdfTypeOK, Entry
<1>12. Moved(k, s, sheet, top)
  BY <1>1, <1>2, <1>5, <1>10, Zenon DEF Moved, s
<1> QED
  BY <1>11, <1>12

LEMMA OrderStep ==
    ASSUME Ordered(todo), todo \in Seq(Kinds), NEW k, NEW s, NEW sheet, NEW top,
           Moved(k, s, sheet, top)
    PROVE  Ordered(todo)'
<1>1. /\ Len(todo) \in Nat /\ Len(todo') = Len(todo) - 1
      /\ \A i \in 1..Len(todo') : todo'[i] = todo[i + 1]
  BY LenProperties DEF Moved
<1> SUFFICES ASSUME NEW i \in 1..Len(todo')
             PROVE  /\ todo'[i] \in Titles => i < Len(todo') /\ todo'[i + 1] \in First[todo'[i]]
                    /\ todo'[i] = "gallery" /\ i > 1 => todo'[i - 1] = "galleryTitle"
  BY DEF Ordered
<1>2. i + 1 \in 1..Len(todo) /\ todo'[i] = todo[i + 1]
  BY <1>1
<1>3. todo[i + 1] \in Titles => i + 1 < Len(todo) /\ todo[(i + 1) + 1] \in First[todo[i + 1]]
  BY <1>2 DEF Ordered
<1>4. i < Len(todo') => todo'[i + 1] = todo[(i + 1) + 1]
  BY <1>1
<1>5. todo[i + 1] = "gallery" => todo[i] = "galleryTitle"
  <2>1. i + 1 > 1 /\ (i + 1) - 1 = i
    OBVIOUS
  <2> QED
    BY <1>2, <2>1 DEF Ordered
<1>6. i > 1 => todo'[i - 1] = todo[i]
  BY <1>1
<1> QED
  BY <1>1, <1>2, <1>3, <1>4, <1>5, <1>6

LEMMA StageStep ==
    ASSUME Stage, todo \in Seq(Kinds), NEW k, NEW s, NEW sheet, NEW top, Moved(k, s, sheet, top)
    PROVE  Stage'
<1>1. /\ Len(todo) \in Nat /\ Len(todo') = Len(todo) - 1
      /\ \A i \in 1..Len(todo') : todo'[i] = todo[i + 1]
  BY LenProperties DEF Moved
<1>2. CASE y = Top /\ placed = <<>> /\ Whole(todo)
  <2>1. /\ todo[1] = "brand" /\ todo[2] = "hero" /\ Len(todo) > 1
        /\ \A i \in 3..Len(todo) : todo[i] \in Body
    BY <1>2, SMT DEF Whole
  <2>2. y' = HeroAt
    <3>1. k = "brand"
      BY <2>1 DEF Moved
    <3>2. top = Top /\ s.advance = 350000 /\ y' = top + s.advance
      BY <3>1, SMT DEF Moved, Placement, Sound, AtTheTop
    <3> QED
      BY <3>2, SMT DEF HeroAt
  <2>3. todo' # <<>>
    BY <1>1, <2>1, SMT
  <2>4. todo'[1] = "hero" /\ \A i \in 2..Len(todo') : todo'[i] \in Body
    BY <1>1, <2>1, SMT
  <2> QED
    BY <2>2, <2>3, <2>4 DEF Stage
<1>3. CASE \A i \in 2..Len(todo) : todo[i] \in Body
  BY <1>1, <1>3 DEF Stage
<1>4. CASE \A i \in 1..Len(todo) : todo[i] \in Body
  BY <1>1, <1>4 DEF Stage
<1> QED
  BY <1>2, <1>3, <1>4 DEF Stage

LEMMA LastStep ==
    ASSUME NEW k, NEW s, NEW sheet, NEW top, Moved(k, s, sheet, top), placed' \in Seq(Entry),
           Len(placed) \in Nat
    PROVE  /\ placed' # <<>>
           /\ Last' = [kind |-> k, page |-> sheet, top |-> top, bottom |-> top + s.ink]
           /\ LastAbove'
<1>1. placed' # <<>> /\ Last' = [kind |-> k, page |-> sheet, top |-> top, bottom |-> top + s.ink]
  BY EmptySeq DEF Moved, Last
<1>2. page' = sheet /\ top + s.ink <= y'
  BY SMT DEF Moved, Sound, Numbers
<1> QED
  BY <1>1, <1>2 DEF LastAbove

LEMMA TextStep ==
    ASSUME LayoutInv, NEW k, NEW s, NEW sheet, NEW top, Moved(k, s, sheet, top),
           placed' # <<>>, Last'.kind = k
    PROVE  SmallText'
<1> SUFFICES ASSUME em' > PlainEm PROVE k = "cards"
  BY DEF SmallText
<1>1. CASE s.em = 0
  <2>1. k = "gallery" /\ em' = em
    BY <1>1, SMT DEF Moved, Sound, Text
  <2>2. Last.kind = "galleryTitle"
    BY <2>1 DEF LayoutInv, Announced, Moved
  <2>3. Last.kind = "cards"
    BY <2>1 DEF LayoutInv, SmallText
  <2> QED
    BY <2>2, <2>3
<1>2. CASE s.em # 0
  <2>1. em' = s.em /\ s.em \in Nat /\ (k # "cards" => s.em <= PlainEm)
    BY <1>2, SMT DEF Moved, Sound, Text, Numbers
  <2> QED
    BY <2>1, SMT DEF PlainEm
<1> QED
  BY <1>1, <1>2

LEMMA AnnouncedStep ==
    ASSUME Ordered(todo), todo \in Seq(Kinds), todo' \in Seq(Kinds),
           NEW k, NEW s, NEW sheet, NEW top, Moved(k, s, sheet, top),
           placed' # <<>>, Last'.kind = k
    PROVE  Announced'
<1> SUFFICES ASSUME todo' # <<>>, todo'[1] = "gallery" PROVE k = "galleryTitle"
  BY DEF Announced
<1>1. 1 \in 1..Len(todo') /\ Len(todo) \in Nat /\ Len(todo') = Len(todo) - 1
  BY LenProperties, EmptySeq DEF Moved
<1>2. 2 \in 1..Len(todo) /\ todo[2] = "gallery"
  BY <1>1 DEF Moved
<1>3. todo[2 - 1] = "galleryTitle"
  <2>1. 2 > 1
    OBVIOUS
  <2> QED
    BY <1>2, <2>1 DEF Ordered
<1> QED
  BY <1>3 DEF Moved

LEMMA ReservedStep ==
    ASSUME LayoutInv, todo' \in Seq(Kinds), NEW k, NEW s, NEW sheet, NEW top,
           Moved(k, s, sheet, top), placed' # <<>>, Last'.kind = k
    PROVE  Reserved'
<1> SUFFICES ASSUME k \in Titles
             PROVE  /\ todo' # <<>> /\ todo'[1] \in First[k]
                    /\ \/ y' + (Style[k].need - TitleHeight) <= Limit
                       \/ Len(placed') > 1 /\ placed'[Len(placed') - 1].kind = "cards"
  BY DEF Reserved
<1>1. /\ todo \in Seq(Kinds) /\ Len(todo) \in Nat /\ Len(todo') = Len(todo) - 1
      /\ 1 \in 1..Len(todo) /\ k = todo[1] /\ em \in Nat /\ Len(placed) \in Nat
  BY LenProperties, EmptySeq, SMT DEF LayoutInv, PdfTypeOK, Moved
<1>2. 1 < Len(todo) /\ todo[1 + 1] \in First[k]
  BY <1>1 DEF LayoutInv, Ordered
<1>3. 1 \in 1..Len(todo')
  BY <1>1, <1>2
<1>4. todo'[1] = todo[1 + 1]
  BY <1>3 DEF Moved
<1>5. CASE em <= PlainEm
  <2>1. /\ top + s.need <= Limit + Slack /\ s.advance = 310000 /\ s.need \in Nat
        /\ top \in Nat /\ y' = top + s.advance /\ s = Style[k]
    BY <1>5, SMT DEF Moved, Placement, Sound, Numbers, OfTitle
  <2>2. y' + (s.need - TitleHeight) <= Limit
    BY <2>1, SMT DEF Slack, TitleHeight, Limit, PageHeight
  <2> QED
    BY <1>2, <1>3, <1>4, <2>1, <2>2, EmptySeq
<1>6. CASE em > PlainEm
  <2>1. placed # <<>> /\ placed[Len(placed)].kind = "cards"
    BY <1>6 DEF LayoutInv, SmallText, Last
  <2>2. placed \in Seq(Entry)
    BY SMT DEF LayoutInv, PdfTypeOK, Entry
  <2>3. Len(placed) \in 1..Len(placed)
    BY <2>1, <2>2, EmptySeq, LenProperties
  <2>4. Len(placed') = Len(placed) + 1 /\ placed'[Len(placed)] = placed[Len(placed)]
    BY <2>3 DEF Moved
  <2>5. Len(placed') > 1 /\ Len(placed') - 1 = Len(placed)
    BY <2>3, <2>4
  <2> QED
    BY <1>2, <1>3, <1>4, <2>1, <2>4, <2>5, EmptySeq
<1> QED
  BY <1>1, <1>5, <1>6, SMT DEF PlainEm

LEMMA OverlapStep ==
    ASSUME LayoutInv, placed' \in Seq(Entry), NEW k, NEW s, NEW sheet, NEW top,
           Moved(k, s, sheet, top)
    PROVE  NothingOverlaps'
<1>1. placed \in Seq(Entry) /\ page \in Nat /\ y \in Nat
  BY SMT DEF LayoutInv, PdfTypeOK, Entry
<1>2. Len(placed) \in Nat /\ DOMAIN placed = 1..Len(placed) /\ DOMAIN placed' = 1..Len(placed')
  BY <1>1, LenProperties
<1>3. ASSUME NEW i \in 1..Len(placed)
      PROVE  /\ placed'[i].kind \notin {"line", "lastLine", "recyclable"}
                   => placed'[i].bottom <= FooterRule
             /\ i > 1 => \/ placed'[i].page > placed'[i - 1].page
                         \/ /\ placed'[i].page = placed'[i - 1].page
                            /\ placed'[i].top >= placed'[i - 1].bottom
  <2>1. placed'[i] = placed[i] /\ (i > 1 => placed'[i - 1] = placed[i - 1])
    BY <1>2, <1>3 DEF Moved
  <2> QED
    BY <1>2, <1>3, <2>1 DEF LayoutInv, NothingOverlaps
<1> DEFINE n == Len(placed) + 1
<1>4. placed'[n].kind \notin {"line", "lastLine", "recyclable"} => placed'[n].bottom <= FooterRule
  BY SMT DEF Moved, Placement
<1>5. n > 1 => \/ placed'[n].page > placed'[n - 1].page
               \/ /\ placed'[n].page = placed'[n - 1].page
                  /\ placed'[n].top >= placed'[n - 1].bottom
  <2> SUFFICES ASSUME n > 1
               PROVE  \/ placed'[n].page > placed'[n - 1].page
                      \/ /\ placed'[n].page = placed'[n - 1].page
                         /\ placed'[n].top >= placed'[n - 1].bottom
    OBVIOUS
  <2>1. Len(placed) \in 1..Len(placed) /\ n - 1 = Len(placed) /\ placed # <<>>
    BY <1>1, <1>2, EmptySeq
  <2>2. placed'[n - 1] = Last
    BY <2>1 DEF Moved, Last
  <2>3. Last.page = page /\ Last.bottom <= y /\ Last \in Entry
    BY <2>1, <1>1, ElementOfSeq DEF LayoutInv, LastAbove, Last
  <2>4. Last.bottom \in Nat
    BY <2>3, SMT DEF Entry
  <2>5. /\ placed'[n].page = sheet /\ placed'[n].top = top /\ sheet \in Nat /\ top \in Nat
        /\ sheet > page \/ (sheet = page /\ top >= y)
    BY SMT DEF Moved, Placement
  <2> HIDE DEF n
  <2> QED
    BY <1>1, <2>2, <2>3, <2>4, <2>5, SMT
<1>6. Len(placed') = n /\ n \in Nat
  BY <1>2 DEF Moved
<1>7. ASSUME NEW i \in 1..n
      PROVE  /\ placed'[i].kind \notin {"line", "lastLine", "recyclable"}
                   => placed'[i].bottom <= FooterRule
             /\ i > 1 => \/ placed'[i].page > placed'[i - 1].page
                         \/ /\ placed'[i].page = placed'[i - 1].page
                            /\ placed'[i].top >= placed'[i - 1].bottom
  <2>1. i \in 1..Len(placed) \/ i = n
    BY <1>2, <1>7
  <2> HIDE DEF n
  <2> QED
    BY <1>3, <1>4, <1>5, <2>1
<1> HIDE DEF n
<1> QED
  BY <1>2, <1>6, <1>7, Zenon DEF NothingOverlaps

LEMMA TitleStep ==
    ASSUME LayoutInv, placed' \in Seq(Entry), NEW k, NEW s, NEW sheet, NEW top,
           Moved(k, s, sheet, top)
    PROVE  TitleSafe'
<1>1. placed \in Seq(Entry) /\ page \in Nat /\ y \in Nat
  BY SMT DEF LayoutInv, PdfTypeOK, Entry
<1>2. /\ Len(placed) \in Nat /\ DOMAIN placed = 1..Len(placed)
      /\ DOMAIN placed' = 1..(Len(placed) + 1)
  BY <1>1, LenProperties DEF Moved
<1> SUFFICES ASSUME NEW i \in 2..(Len(placed) + 1), placed'[i - 1].kind \in Titles,
                    placed'[i].page # placed'[i - 1].page
             PROVE  i > 2 /\ placed'[i - 2].kind = "cards"
  BY <1>2, SMT DEF TitleSafe
<1>3. placed'[i - 1] = placed[i - 1] /\ (i > 2 => placed'[i - 2] = placed[i - 2])
  <2>1. i - 1 \in 1..Len(placed) /\ (i > 2 => i - 2 \in 1..Len(placed))
    BY <1>2
  <2>2. \A j \in 1..Len(placed) : placed'[j] = placed[j]
    BY DEF Moved
  <2> QED
    BY <2>1, <2>2
<1>4. CASE i <= Len(placed)
  <2>1. placed'[i] = placed[i] /\ i \in 2..Len(placed)
    BY <1>2, <1>4 DEF Moved
  <2>2. i > 2 /\ placed[i - 2].kind = "cards"
    BY <1>3, <2>1 DEF LayoutInv, TitleSafe
  <2> QED
    BY <1>3, <2>2
<1>5. CASE i = Len(placed) + 1
  <2>1. i - 1 = Len(placed) /\ Len(placed) \in 1..Len(placed) /\ placed # <<>>
    BY <1>1, <1>2, <1>5, EmptySeq
  <2>2. Last.kind \in Titles /\ Last = placed'[i - 1] /\ Last.page = page
    BY <1>3, <2>1 DEF Last, LayoutInv, LastAbove
  <2>3. /\ k \in First[Last.kind] /\ todo # <<>>
        /\ \/ y + (Style[Last.kind].need - TitleHeight) <= Limit
           \/ Len(placed) > 1 /\ placed[Len(placed) - 1].kind = "cards"
    BY <2>1, <2>2 DEF LayoutInv, Reserved, Moved
  <2>4. sheet # page
    BY <1>5, <2>2 DEF Moved
  <2>5. ~(y + (Style[Last.kind].need - TitleHeight) <= Limit)
    <3> SUFFICES ASSUME y + (Style[Last.kind].need - TitleHeight) <= Limit PROVE FALSE
      OBVIOUS
    <3>1. Fits(Last.kind, k, Style[Last.kind], s) /\ Sound(Last.kind, Style[Last.kind])
          /\ Sound(k, s)
      BY <2>2, <2>3, FirstFits, StyleFacts DEF Moved, Kinds
    <3>2. /\ s.skip = 0 /\ s.need <= Style[Last.kind].need - TitleHeight
          /\ s.need = 0 => s.ink <= Style[Last.kind].need - TitleHeight
      BY <3>1, Zenon DEF Fits
    <3>3. s.need \in Nat /\ s.ink \in Nat /\ Style[Last.kind].need \in Nat
      BY <3>1, SMT DEF Sound, Numbers
    <3>4. y + s.need <= Limit /\ (s.need = 0 => y + s.ink <= Limit)
      <4> DEFINE room == Style[Last.kind].need - TitleHeight
      <4>1. room \in Int /\ s.need <= room /\ (s.need = 0 => s.ink <= room) /\ y + room <= Limit
        BY <3>2, <3>3, SMT DEF TitleHeight
      <4> HIDE DEF room
      <4>2. Limit \in Int
        BY SMT DEF Limit, PageHeight
      <4> QED
        BY <4>1, <4>2, <3>3, <1>1, SMT
    <3> QED
      BY <2>4, <3>2, <3>4, Zenon DEF Moved, Placement
  <2>6. i > 2 /\ i - 2 = Len(placed) - 1
    BY <2>1, <2>3, <2>5, <1>2
  <2>7. placed'[i - 2] = placed[Len(placed) - 1] /\ placed[Len(placed) - 1].kind = "cards"
    BY <1>3, <2>3, <2>5, <2>6, Zenon
  <2> QED
    BY <2>6, <2>7, Zenon
<1> QED
  BY <1>2, <1>4, <1>5

LEMMA DrawSafe ==
    ASSUME LayoutInv, Draw
    PROVE  LayoutInv'
<1>1. PdfTypeOK /\ Stage /\ Ordered(todo)
  BY DEF LayoutInv
<1>2. PdfTypeOK'
  BY <1>1, DrawMoves
<1>3. PICK k, s, sheet, top : Moved(k, s, sheet, top)
  BY <1>1, DrawMoves
<1>4. todo \in Seq(Kinds) /\ todo' \in Seq(Kinds) /\ placed \in Seq(Entry) /\ placed' \in Seq(Entry)
  BY <1>1, <1>2, SMT DEF PdfTypeOK, Entry
<1>5. Len(placed) \in Nat
  BY <1>4, LenProperties
<1>6. placed' # <<>> /\ Last'.kind = k /\ LastAbove'
  BY <1>3, <1>4, <1>5, LastStep
<1>7. (footers > 0 => todo = <<>>)'
  BY SMT DEF Draw, LayoutInv
<1>8. Ordered(todo)' /\ Stage'
  BY <1>1, <1>3, <1>4, OrderStep, StageStep
<1>9. SmallText' /\ Announced' /\ Reserved'
  BY <1>1, <1>3, <1>4, <1>6, TextStep, AnnouncedStep, ReservedStep
<1>10. NothingOverlaps' /\ TitleSafe'
  BY <1>3, <1>4, OverlapStep, TitleStep
<1> QED
  BY <1>2, <1>6, <1>7, <1>8, <1>9, <1>10, Zenon DEF LayoutInv

LEMMA LayoutFrame ==
    ASSUME LayoutInv, UNCHANGED <<todo, page, y, em, placed>>, footers' \in Nat,
           footers' > 0 => todo = <<>>
    PROVE  LayoutInv'
<1>1. PdfTypeOK'
  BY SMT DEF LayoutInv, PdfTypeOK
<1>2. Ordered(todo)' /\ Stage'
  BY DEF LayoutInv, Ordered, Stage, Whole
<1>3. LastAbove' /\ SmallText' /\ Announced' /\ Reserved'
  BY DEF LayoutInv, LastAbove, SmallText, Announced, Reserved, Last
<1>4. NothingOverlaps' /\ TitleSafe'
  BY DEF LayoutInv, NothingOverlaps, TitleSafe
<1> QED
  BY <1>1, <1>2, <1>3, <1>4, Zenon DEF LayoutInv

(* Writing the footers adds no page.                                         *)
LEMMA FootersSafe ==
    ASSUME LayoutInv, AddFooters
    PROVE  LayoutInv' /\ footers' = page'
<1>1. footers' = page /\ page' = page /\ UNCHANGED <<todo, y, em, placed>> /\ todo = <<>>
  BY SMT DEF AddFooters, FooterText, TextLimit, PageHeight
<1>2. page \in Nat
  BY SMT DEF LayoutInv, PdfTypeOK
<1> QED
  BY <1>1, <1>2, LayoutFrame

-----------------------------------------------------------------------------
(* What generate() draws is well ordered, for products of any size.          *)
Part(s) ==
    /\ s \in Seq(Kinds) /\ \A i \in 1..Len(s) : s[i] \in Body
    /\ Ordered(s) /\ (s # <<>> => s[1] # "gallery")

LEMMA Joined ==
    ASSUME NEW S, NEW s \in Seq(S), NEW t \in Seq(S)
    PROVE  /\ s \o t \in Seq(S) /\ Len(s \o t) = Len(s) + Len(t)
           /\ \A i \in 1..Len(s) : (s \o t)[i] = s[i]
           /\ \A i \in 1..Len(t) : (s \o t)[Len(s) + i] = t[i]
<1>1. Len(s) \in Nat /\ Len(t) \in Nat
  BY LenProperties
<1> QED
  BY <1>1, ConcatProperties

LEMMA WholeJoin ==
    ASSUME NEW s, NEW t, Whole(s), Part(t)
    PROVE  Whole(s \o t)
<1> DEFINE u == s \o t
<1>1. s \in Seq(Kinds) /\ t \in Seq(Kinds) /\ Len(s) > 1
  BY DEF Whole, Part
<1>2. u \in Seq(Kinds) /\ Len(u) = Len(s) + Len(t)
  BY <1>1, ConcatProperties
<1>3. Len(s) \in Nat /\ Len(t) \in Nat
  BY <1>1, LenProperties
<1>4. /\ \A i \in 1..Len(s) : u[i] = s[i]
      /\ \A i \in 1..Len(t) : u[Len(s) + i] = t[i]
  BY <1>1, Joined
<1> HIDE DEF u
<1>5. u[1] = "brand" /\ u[2] = "hero"
  BY <1>1, <1>3, <1>4 DEF Whole
<1>6. \A i \in 3..Len(u) : u[i] \in Body
  <2> SUFFICES ASSUME NEW i \in 3..Len(u) PROVE u[i] \in Body
    OBVIOUS
  <2>1. CASE i <= Len(s)
    BY <2>1, <1>3, <1>4 DEF Whole
  <2>2. CASE i > Len(s)
    <3>1. i - Len(s) \in 1..Len(t) /\ i = Len(s) + (i - Len(s))
      BY <2>2, <1>2, <1>3
    <3> QED
      BY <3>1, <1>4 DEF Part
  <2> QED
    BY <2>1, <2>2, <1>3
<1>7. Ordered(u)
  <2> SUFFICES ASSUME NEW i \in 1..Len(u)
               PROVE  /\ u[i] \in Titles => i < Len(u) /\ u[i + 1] \in First[u[i]]
                      /\ u[i] = "gallery" /\ i > 1 => u[i - 1] = "galleryTitle"
    BY DEF Ordered
  <2>1. CASE i <= Len(s)
    <3>1. i \in 1..Len(s) /\ u[i] = s[i]
      BY <2>1, <1>3, <1>4
    <3>2. s[i] \in Titles => i < Len(s) /\ s[i + 1] \in First[s[i]]
      BY <3>1 DEF Whole, Ordered
    <3>3. s[i] = "gallery" /\ i > 1 => s[i - 1] = "galleryTitle"
      BY <3>1 DEF Whole, Ordered
    <3>4. i < Len(s) => u[i + 1] = s[i + 1]
      BY <3>1, <1>3, <1>4
    <3>5. i > 1 => u[i - 1] = s[i - 1]
      BY <3>1, <1>3, <1>4
    <3>6. i < Len(s) => i < Len(u)
      BY <1>2, <1>3
    <3> QED
      BY <3>1, <3>2, <3>3, <3>4, <3>5, <3>6
  <2>2. CASE i > Len(s)
    <3> DEFINE j == i - Len(s)
    <3>1. j \in 1..Len(t) /\ i = Len(s) + j
      BY <2>2, <1>2, <1>3
    <3> HIDE DEF j
    <3>2. u[i] = t[j]
      BY <3>1, <1>4
    <3>3. t[j] \in Titles => j < Len(t) /\ t[j + 1] \in First[t[j]]
      BY <3>1 DEF Part, Ordered
    <3>4. t[j] = "gallery" => j > 1 /\ t[j - 1] = "galleryTitle"
      <4>1. t # <<>> /\ t[1] # "gallery"
        BY <3>1, EmptySeq DEF Part
      <4>2. t[j] = "gallery" => j > 1
        BY <3>1, <4>1
      <4> QED
        BY <3>1, <4>2 DEF Part, Ordered
    <3>5. j < Len(t) => i < Len(u) /\ u[i + 1] = t[j + 1]
      <4>1. j < Len(t) => j + 1 \in 1..Len(t) /\ i + 1 = Len(s) + (j + 1)
        BY <3>1, <1>3
      <4> QED
        BY <4>1, <3>1, <1>2, <1>3, <1>4
    <3>6. j > 1 => u[i - 1] = t[j - 1]
      <4>1. j > 1 => j - 1 \in 1..Len(t) /\ i - 1 = Len(s) + (j - 1)
        BY <3>1, <1>3
      <4> QED
        BY <4>1, <1>4
    <3> QED
      BY <3>2, <3>3, <3>4, <3>5, <3>6
  <2> QED
    BY <2>1, <2>2, <1>3
<1> QED
  BY <1>1, <1>2, <1>3, <1>5, <1>6, <1>7 DEF Whole, u

(* The blocks of one section, in any number.                                 *)
Plain == Body \ (Titles \cup {"gallery"})

LEMMA SectionPart ==
    ASSUME NEW title \in Titles, NEW blocks \in Seq(Plain),
           blocks # <<>> => blocks[1] \in First[title]
    PROVE  Part(Section(title, blocks))
<1>1. CASE blocks = <<>>
  BY <1>1, EmptySeq DEF Section, Part, Ordered
<1>2. CASE blocks # <<>>
  <2> DEFINE s == <<title>> \o blocks
  <2>1. <<title>> \in Seq(Kinds) /\ blocks \in Seq(Kinds) /\ Len(<<title>>) = 1 /\ <<title>>[1] = title
    <3>1. Plain \subseteq Kinds
      BY DEF Plain, Body
    <3> QED
      BY <3>1, SMT DEF Kinds
  <2>2. /\ s \in Seq(Kinds) /\ Len(s) = 1 + Len(blocks) /\ Len(blocks) \in Nat \ {0}
        /\ s[1] = title /\ \A i \in 1..Len(blocks) : s[i + 1] = blocks[i]
    <3>1. /\ s \in Seq(Kinds) /\ Len(s) = 1 + Len(blocks) /\ Len(blocks) \in Nat \ {0}
      BY <2>1, <1>2, ConcatProperties, EmptySeq
    <3>2. \A i \in 1..(1 + Len(blocks)) : s[i] = IF i <= 1 THEN <<title>>[i] ELSE blocks[i - 1]
      BY <2>1, ConcatProperties
    <3> HIDE DEF s
    <3> QED
      BY <2>1, <3>1, <3>2
  <2> HIDE DEF s
  <2>3. \A i \in 1..Len(blocks) : blocks[i] \in Plain
    BY ElementOfSeq
  <2>4. \A i \in 1..Len(s) : (s[i] = title /\ i = 1) \/ s[i] \in Plain
    <3> SUFFICES ASSUME NEW i \in 1..Len(s), i # 1 PROVE s[i] \in Plain
      BY <2>2
    <3>1. i - 1 \in 1..Len(blocks) /\ i = (i - 1) + 1
      BY <2>2
    <3> QED
      BY <3>1, <2>2, <2>3
  <2>5. title \in Body /\ title # "gallery" /\ title \notin Plain
    BY SMT DEF Body, Plain, Titles, Kinds, FlowingText
  <2>6. \A i \in 1..Len(s) : s[i] \in Body /\ s[i] # "gallery" /\ (s[i] \in Titles => i = 1)
    BY <2>4, <2>5 DEF Plain
  <2>7. s[1 + 1] \in First[title] /\ 1 < Len(s)
    BY <2>2, <1>2
  <2>8. Ordered(s)
    BY <2>2, <2>6, <2>7 DEF Ordered
  <2>9. s[1] # "gallery"
    BY <2>2, <2>5
  <2> QED
    BY <1>2, <2>2, <2>6, <2>8, <2>9 DEF Part, Section, s
<1> QED
  BY <1>1, <1>2

LEMMA RepeatFacts ==
    ASSUME NEW n \in Nat, NEW k
    PROVE  /\ Repeat(n, k) \in Seq({k}) /\ Len(Repeat(n, k)) = n
           /\ \A i \in 1..n : Repeat(n, k)[i] = k
<1>1. Repeat(n, k) \in [1..n -> {k}]
  BY DEF Repeat
<1>2. Repeat(n, k) \in Seq({k})
  BY <1>1, SeqDef
<1>3. DOMAIN Repeat(n, k) = 1..n /\ DOMAIN Repeat(n, k) = 1..Len(Repeat(n, k))
      /\ Len(Repeat(n, k)) \in Nat
  BY <1>1, <1>2, LenProperties
<1>4. Len(Repeat(n, k)) = n
  BY <1>3
<1> QED
  BY <1>1, <1>2, <1>4 DEF Repeat

LEMMA SeqOfPlain ==
    ASSUME NEW S, S \subseteq Plain, NEW s \in Seq(S)
    PROVE  s \in Seq(Plain)
OBVIOUS

LEMMA PlainKinds ==
    {"line", "lastLine", "grid", "tableHead", "row", "cards", "recyclable",
     "certification", "document", "panel", "url"} \subseteq Plain
BY SMT DEF Plain, Body, Kinds, Titles, FlowingText

LEMMA DescriptionFacts ==
    ASSUME NEW n \in Nat
    PROVE  Description(n) \in Seq({"line", "lastLine"})
<1>1. CASE n = 0
  BY <1>1 DEF Description
<1>2. CASE n # 0
  <2>1. Repeat(n - 1, "line") \in Seq({"line"})
    BY <1>2, RepeatFacts
  <2>2. Repeat(n - 1, "line") \in Seq({"line", "lastLine"})
    BY <2>1
  <2>3. Append(Repeat(n - 1, "line"), "lastLine") \in Seq({"line", "lastLine"})
    BY <2>2, AppendProperties
  <2> QED
    BY <1>2, <2>3 DEF Description
<1> QED
  BY <1>1, <1>2

(* The first section, with a description of any length.                      *)
LEMMA HeaderWhole ==
    ASSUME NEW d \in Seq({"line", "lastLine"})
    PROVE  Whole(<<"brand", "hero", "informationTitle">> \o d \o <<"grid">>)
<1> DEFINE head == <<"brand", "hero", "informationTitle">>
           s == head \o d
           u == s \o <<"grid">>
<1>1. /\ head \in Seq(Kinds) /\ Len(head) = 3
      /\ head[1] = "brand" /\ head[2] = "hero" /\ head[3] = "informationTitle"
  BY SMT DEF Kinds, Titles, FlowingText
<1>2. d \in Seq(Kinds) /\ Len(d) \in Nat /\ \A i \in 1..Len(d) : d[i] \in {"line", "lastLine"}
  <2>1. {"line", "lastLine"} \subseteq Kinds
    BY SMT DEF Kinds, Titles, FlowingText
  <2> QED
    BY <2>1, LenProperties, ElementOfSeq
<1>3. <<"grid">> \in Seq(Kinds) /\ Len(<<"grid">>) = 1 /\ <<"grid">>[1] = "grid"
  BY SMT DEF Kinds, Titles, FlowingText
<1> HIDE DEF head
<1>4. /\ s \in Seq(Kinds) /\ Len(s) = 3 + Len(d)
      /\ s[1] = "brand" /\ s[2] = "hero" /\ s[3] = "informationTitle"
      /\ \A i \in 1..Len(d) : s[3 + i] = d[i]
  <2>1. /\ s \in Seq(Kinds) /\ Len(s) = Len(head) + Len(d)
        /\ \A i \in 1..Len(head) : s[i] = head[i]
        /\ \A i \in 1..Len(d) : s[Len(head) + i] = d[i]
    <3>1. head \in Seq(Kinds) /\ d \in Seq(Kinds)
      BY <1>1, <1>2
    <3> QED
      BY <3>1, Joined
  <2> HIDE DEF s
  <2> QED
    BY <1>1, <2>1
<1> HIDE DEF s
<1>5. /\ u \in Seq(Kinds) /\ Len(u) = 4 + Len(d)
      /\ \A i \in 1..(3 + Len(d)) : u[i] = s[i]
      /\ u[4 + Len(d)] = "grid"
  BY <1>2, <1>3, <1>4, ConcatProperties
<1> HIDE DEF u
<1>6. /\ u[1] = "brand" /\ u[2] = "hero" /\ u[3] = "informationTitle"
  BY <1>2, <1>4, <1>5
<1>7. \A i \in 4..Len(u) : u[i] \in {"line", "lastLine", "grid"}
  <2> SUFFICES ASSUME NEW i \in 4..Len(u) PROVE u[i] \in {"line", "lastLine", "grid"}
    OBVIOUS
  <2>1. CASE i = 4 + Len(d)
    BY <2>1, <1>5
  <2>2. CASE i # 4 + Len(d)
    <3>1. i - 3 \in 1..Len(d) /\ i = 3 + (i - 3) /\ i \in 1..(3 + Len(d))
      BY <2>2, <1>2, <1>5
    <3>2. u[i] = s[i] /\ s[3 + (i - 3)] = d[i - 3]
      BY <3>1, <1>4, <1>5
    <3> QED
      BY <3>1, <3>2, <1>2
  <2> QED
    BY <2>1, <2>2
<1>8. \A i \in 3..Len(u) : u[i] \in Body
  <2>1. {"line", "lastLine", "grid", "informationTitle"} \subseteq Body
    BY SMT DEF Body, Kinds, Titles, FlowingText
  <2> QED
    BY <2>1, <1>6, <1>7
<1>9. Ordered(u)
  <2>1. {"brand", "hero", "line", "lastLine", "grid"} \cap Titles = {}
    BY SMT DEF Titles
  <2>2. \A i \in 1..Len(u) : u[i] # "gallery" /\ (u[i] \in Titles => i = 3)
    BY <2>1, <1>6, <1>7
  <2>3. 3 < Len(u) /\ u[3 + 1] \in First[u[3]]
    BY <1>2, <1>5, <1>6, <1>7, FirstTable
  <2> QED
    BY <2>2, <2>3 DEF Ordered
<1> QED
  BY <1>2, <1>5, <1>6, <1>8, <1>9 DEF Whole, u, s, head

LEMMA SectionsParts ==
    ASSUME NEW p \in Shape
    PROVE  /\ Part(Section("materialsTitle", IF p.materials = 0 THEN <<>>
                                             ELSE <<"tableHead">> \o Repeat(p.materials, "row")))
           /\ Part(Section("sustainabilityTitle", Sustainability(p.cards, p.recyclable)))
           /\ Part(Section("certificationsTitle", Repeat(p.certifications, "certification")))
           /\ Part(Section("documentsTitle", Repeat(p.documents, "document")))
<1>1. /\ p.materials \in Nat /\ p.cards \in Nat /\ p.certifications \in Nat /\ p.documents \in Nat
  BY DEF Shape
<1>2. "materialsTitle" \in Titles /\ "sustainabilityTitle" \in Titles
      /\ "certificationsTitle" \in Titles /\ "documentsTitle" \in Titles
  BY DEF Titles
<1>3. ASSUME NEW k \in {"row", "cards", "certification", "document"}, NEW n \in Nat
      PROVE  Repeat(n, k) \in Seq(Plain) /\ Len(Repeat(n, k)) = n
             /\ (Repeat(n, k) # <<>> => Repeat(n, k)[1] = k) /\ (n = 0 => Repeat(n, k) = <<>>)
  <2>1. Repeat(n, k) \in Seq({k}) /\ Len(Repeat(n, k)) = n /\ \A i \in 1..n : Repeat(n, k)[i] = k
    BY RepeatFacts
  <2>2. {k} \subseteq Plain
    BY PlainKinds
  <2>3. Repeat(n, k) \in Seq(Plain)
    BY <2>1, <2>2, SeqOfPlain
  <2> QED
    BY <2>1, <2>3, EmptySeq
<1>4. Part(Section("materialsTitle", IF p.materials = 0 THEN <<>>
                                     ELSE <<"tableHead">> \o Repeat(p.materials, "row")))
  <2> DEFINE rows == Repeat(p.materials, "row")
             table == <<"tableHead">> \o rows
  <2>1. <<"tableHead">> \in Seq(Plain) /\ Len(<<"tableHead">>) = 1 /\ <<"tableHead">>[1] = "tableHead"
    BY PlainKinds
  <2>2. rows \in Seq(Plain) /\ Len(rows) \in Nat
    BY <1>1, <1>3
  <2> HIDE DEF rows
  <2>3. table \in Seq(Plain) /\ table[1] = "tableHead"
    BY <2>1, <2>2, ConcatProperties
  <2> HIDE DEF table
  <2>4. table[1] \in First["materialsTitle"]
    BY <2>3, FirstTable
  <2>5. Part(Section("materialsTitle", <<>>)) /\ Part(Section("materialsTitle", table))
    BY <1>2, <2>3, <2>4, SectionPart, EmptySeq
  <2> QED
    BY <2>5 DEF table, rows
<1>5. Part(Section("sustainabilityTitle", Sustainability(p.cards, p.recyclable)))
  <2> DEFINE n == (p.cards + 1) \div 2
             cards == Repeat(n, "cards")
             flag == IF p.cards > 0 /\ p.recyclable THEN <<"recyclable">> ELSE <<>>
             both == cards \o flag
  <2>1. n \in Nat /\ (p.cards > 0 => n > 0) /\ (p.cards = 0 => n = 0)
    BY <1>1
  <2> HIDE DEF n
  <2>2. /\ cards \in Seq(Plain) /\ Len(cards) = n
        /\ (cards # <<>> => cards[1] = "cards") /\ (n = 0 => cards = <<>>)
    BY <2>1, <1>3
  <2>3. flag \in Seq(Plain) /\ (p.cards = 0 => flag = <<>>)
    BY PlainKinds, <1>1
  <2> HIDE DEF cards, flag
  <2>4. both \in Seq(Plain)
    BY <2>2, <2>3, ConcatProperties
  <2>5. both # <<>> => both[1] = "cards"
    <3>1. CASE p.cards = 0
      BY <3>1, <2>1, <2>2, <2>3, ConcatEmptySeq
    <3>2. CASE p.cards > 0
      <4>1. cards # <<>> /\ 1 \in 1..(Len(cards) + Len(flag)) /\ 1 <= Len(cards)
        BY <3>2, <2>1, <2>2, <2>3, EmptySeq, LenProperties
      <4> QED
        BY <4>1, <2>2, <2>3, ConcatProperties
    <3> QED
      BY <3>1, <3>2, <1>1
  <2> HIDE DEF both
  <2>6. both # <<>> => both[1] \in First["sustainabilityTitle"]
    BY <2>5, FirstTable
  <2>7. Part(Section("sustainabilityTitle", both))
    BY <1>2, <2>4, <2>6, SectionPart
  <2> QED
    BY <2>7 DEF Sustainability, both, cards, flag, n
<1>6. Part(Section("certificationsTitle", Repeat(p.certifications, "certification")))
  BY <1>1, <1>2, <1>3, SectionPart, FirstTable
<1>7. Part(Section("documentsTitle", Repeat(p.documents, "document")))
  BY <1>1, <1>2, <1>3, SectionPart, FirstTable
<1> QED
  BY <1>4, <1>5, <1>6, <1>7

LEMMA EndParts ==
    /\ Part(<<>>) /\ Part(<<"galleryTitle", "gallery">>) /\ Part(<<"passportTitle", "panel", "url">>)
<1>1. {"galleryTitle", "gallery", "passportTitle", "panel", "url"} \subseteq Body
      /\ {"gallery", "panel", "url"} \cap Titles = {} /\ Body \subseteq Kinds
  BY SMT DEF Body, Kinds, Titles, FlowingText
<1>2. Part(<<>>)
  BY EmptySeq DEF Part, Ordered
<1>3. Part(<<"galleryTitle", "gallery">>)
  <2>1. "gallery" \in First["galleryTitle"]
    BY FirstTable
  <2> QED
    BY <1>1, <2>1 DEF Part, Ordered
<1>4. Part(<<"passportTitle", "panel", "url">>)
  <2>1. "panel" \in First["passportTitle"]
    BY FirstTable
  <2> QED
    BY <1>1, <2>1 DEF Part, Ordered
<1> QED
  BY <1>2, <1>3, <1>4

LEMMA BlocksWhole ==
    ASSUME NEW p \in Shape, NEW got \in BOOLEAN
    PROVE  Whole(Blocks(p, got))
<1>1. Whole(<<"brand", "hero", "informationTitle">> \o Description(p.description) \o <<"grid">>)
  <2>1. p.description \in Nat
    BY DEF Shape
  <2> QED
    BY <2>1, DescriptionFacts, HeaderWhole
<1>2. Part(IF got THEN <<"galleryTitle", "gallery">> ELSE <<>>)
  BY EndParts
<1> QED
  BY <1>1, <1>2, SectionsParts, EndParts, WholeJoin, Zenon DEF Blocks

-----------------------------------------------------------------------------
(* The invariant of a visit: while no PDF is being made the sheet is blank.  *)
Blank == todo = <<>> /\ placed = <<>> /\ y = Top /\ em = 0 /\ footers = 0

VisitInv ==
    /\ LayoutInv
    /\ snapshot \in Snapshots /\ latest \in 1..Len(snapshot) /\ live \in 0..latest
    /\ exported = 0 => Blank

(* A blank sheet is well laid out, whatever will be drawn on it.             *)
BlankSheet ==
    /\ page \in Nat /\ y = Top /\ em = 0 /\ placed = <<>> /\ footers = 0
    /\ todo = <<>> \/ Whole(todo)

LEMMA BlankWell == BlankSheet => LayoutInv
<1> SUFFICES ASSUME BlankSheet PROVE LayoutInv
  OBVIOUS
<1>0. /\ page \in Nat /\ y = Top /\ em = 0 /\ placed = <<>> /\ footers = 0
      /\ todo = <<>> \/ Whole(todo)
  BY DEF BlankSheet
<1>1. placed \in Seq(Entry) /\ Len(placed) = 0 /\ DOMAIN placed = {}
  BY <1>0, EmptySeq
<1>2. todo \in Seq(Kinds) /\ Ordered(todo)
  <2>1. CASE todo = <<>>
    BY <2>1, EmptySeq DEF Ordered
  <2>2. CASE Whole(todo)
    BY <2>2 DEF Whole
  <2> QED
    BY <1>0, <2>1, <2>2
<1>3. PdfTypeOK
  BY <1>0, <1>1, <1>2, SMT DEF PdfTypeOK, Entry, Top
<1>4. Stage
  BY <1>0, EmptySeq DEF Stage
<1>5. LastAbove /\ Reserved
  BY <1>0 DEF LastAbove, Reserved
<1>6. SmallText
  BY <1>0, SMT DEF SmallText, PlainEm
<1>7. Announced
  BY <1>0 DEF Announced, Whole
<1>8. NothingOverlaps /\ TitleSafe
  BY <1>1, SMT DEF NothingOverlaps, TitleSafe
<1>9. footers > 0 => todo = <<>>
  BY <1>0
<1> QED
  BY <1>2, <1>3, <1>4, <1>5, <1>6, <1>7, <1>8, <1>9, Zenon DEF LayoutInv

LEMMA BlankStep == BlankSheet' => LayoutInv'
BY BlankWell, PTL

LEMMA VisitInit == Init => VisitInv
<1> SUFFICES ASSUME Init PROVE VisitInv
  OBVIOUS
<1>1. /\ todo = <<>> /\ page = 1 /\ y = Top /\ em = 0 /\ placed = <<>> /\ footers = 0
      /\ snapshot \in Snapshots /\ latest = 1 /\ live = 1
  BY DEF Init
<1>2. LayoutInv
  BY <1>1, BlankWell DEF BlankSheet
<1>3. 1 \in 1..Len(snapshot)
  <2>1. snapshot \in Seq(Products) /\ snapshot # <<>>
    BY <1>1, VisitAssumption
  <2> QED
    BY <2>1, EmptySeq, LenProperties
<1> QED
  BY <1>1, <1>2, <1>3 DEF VisitInv, Blank

(* What happens away from the export.                                        *)
LEMMA ElsewhereSafe ==
    ASSUME VisitInv, UNCHANGED <<snapshot, exported, pdfVars>>,
           latest' \in 1..Len(snapshot), live' \in 0..latest'
    PROVE  VisitInv'
<1>1. LayoutInv'
  <2>1. footers' \in Nat /\ (footers' > 0 => todo = <<>>)
    BY SMT DEF VisitInv, LayoutInv, PdfTypeOK, pdfVars
  <2> QED
    BY <2>1, LayoutFrame DEF VisitInv, pdfVars
<1> QED
  BY <1>1 DEF VisitInv, Blank, pdfVars

LEMMA ExportSafe ==
    ASSUME VisitInv, Export
    PROVE  VisitInv'
<1>1. /\ exported = 0 /\ live # 0 /\ exported' = live /\ UNCHANGED <<snapshot, latest, live>>
      /\ UNCHANGED <<page, y, em, placed, footers>>
      /\ todo' = Blocks(snapshot[live], fetched') /\ fetched' \in BOOLEAN
  BY DEF Export, Idle
<1>2. Blank /\ page \in Nat
  BY <1>1, SMT DEF VisitInv, LayoutInv, PdfTypeOK
<1>3. snapshot \in Seq(Products) /\ latest \in 1..Len(snapshot) /\ live \in 0..latest
  BY VisitAssumption DEF VisitInv
<1>4. live \in 1..Len(snapshot) /\ Len(snapshot) \in Nat
  BY <1>1, <1>3, LenProperties
<1>5. snapshot[live] \in Shape
  BY <1>3, <1>4, ElementOfSeq, ProductsAssumption
<1>6. Whole(todo')
  BY <1>1, <1>5, BlocksWhole
<1>7. BlankSheet'
  <2>1. Whole(todo)'
    BY <1>6 DEF Whole, Ordered
  <2> QED
    BY <1>1, <1>2, <2>1 DEF Blank, BlankSheet
<1>8. LayoutInv'
  BY <1>7, BlankStep
<1>9. exported' # 0
  BY <1>1
<1> QED
  BY <1>1, <1>3, <1>8, <1>9 DEF VisitInv

LEMMA LayoutSafe ==
    ASSUME VisitInv, Layout
    PROVE  VisitInv'
<1>1. UNCHANGED <<snapshot, latest, live, exported>> /\ (Draw \/ AddFooters)
  BY DEF Layout, PdfNext, visitVars
<1>2. exported # 0
  BY <1>1, SMT DEF VisitInv, Blank, Draw, AddFooters
<1>3. LayoutInv'
  BY <1>1, DrawSafe, FootersSafe DEF VisitInv
<1> QED
  BY <1>1, <1>2, <1>3 DEF VisitInv

LEMMA SavedSafe ==
    ASSUME VisitInv, Saved
    PROVE  VisitInv'
<1>1. todo' = <<>>
  BY DEF VisitInv, LayoutInv, Saved
<1>2. /\ page' = 1 /\ y' = Top /\ em' = 0 /\ placed' = <<>> /\ footers' = 0
      /\ UNCHANGED <<snapshot, latest, live>>
  BY DEF Saved
<1>3. LayoutInv'
  BY <1>1, <1>2, BlankStep DEF BlankSheet
<1> QED
  BY <1>1, <1>2, <1>3 DEF VisitInv, Blank

LEMMA VisitNext == VisitInv /\ [Next]_vars => VisitInv'
<1> SUFFICES ASSUME VisitInv, [Next]_vars PROVE VisitInv'
  OBVIOUS
<1>1. latest \in 1..Len(snapshot) /\ live \in 0..latest /\ Len(snapshot) \in Nat
  BY VisitAssumption, LenProperties DEF VisitInv
<1>2. CASE UNCHANGED vars
  <2>1. UNCHANGED <<snapshot, latest, live, exported, pdfVars>>
    BY <1>2 DEF vars, visitVars
  <2> QED
    BY <1>1, <2>1, ElsewhereSafe
<1>3. CASE Publish
  <2>1. /\ latest' = latest + 1 /\ live' = latest + 1 /\ latest < Len(snapshot)
        /\ UNCHANGED <<snapshot, exported, pdfVars>>
    BY <1>3 DEF Publish
  <2>2. latest' \in 1..Len(snapshot) /\ live' \in 0..latest'
    BY <1>1, <2>1
  <2> QED
    BY <2>1, <2>2, ElsewhereSafe
<1>4. CASE Unpublish
  <2>1. latest' = latest /\ live' = 0 /\ UNCHANGED <<snapshot, exported, pdfVars>>
    BY <1>4 DEF Unpublish
  <2>2. latest' \in 1..Len(snapshot) /\ live' \in 0..latest'
    BY <1>1, <2>1
  <2> QED
    BY <2>1, <2>2, ElsewhereSafe
<1>5. CASE CopyAges \/ Revalidate \/ Load \/ CloseTab \/ SelectImage
  <2>1. UNCHANGED <<snapshot, latest, live, exported, pdfVars>>
    BY <1>5 DEF CopyAges, Revalidate, Load, CloseTab, SelectImage
  <2> QED
    BY <1>1, <2>1, ElsewhereSafe
<1> QED
  BY <1>2, <1>3, <1>4, <1>5, ExportSafe, LayoutSafe, SavedSafe DEF Next

(* However long the description, the tables and the lists of a product are,  *)
(* no block of its PDF is drawn over the one before it, and none over the    *)
(* footer except text that breaks by itself.                                 *)
THEOREM BlocksNeverOverlap == Spec => []NothingOverlaps
<1>1. VisitInv => NothingOverlaps
  BY DEF VisitInv, LayoutInv
<1> QED
  BY <1>1, VisitInit, VisitNext, PTL DEF Spec

(* What sectionTitle reserves keeps every title on the page of its section,  *)
(* for products of any size, except after metric cards.                      *)
THEOREM TitlesStay == Spec => []TitleStaysWithSection
<1>1. VisitInv => TitleStaysWithSection
  <2> SUFFICES ASSUME VisitInv PROVE TitleStaysWithSection
    OBVIOUS
  <2>1. placed \in Seq(Entry) /\ TitleSafe
    BY SMT DEF VisitInv, LayoutInv, PdfTypeOK, Entry
  <2>2. DOMAIN placed = 1..Len(placed) /\ Len(placed) \in Nat
    BY <2>1, LenProperties
  <2>3. DOMAIN placed \ {1} = 2..Len(placed)
    BY <2>2
  <2> QED
    BY <2>1, <2>3, Zenon DEF TitleSafe, TitleStaysWithSection
<1> QED
  BY <1>1, VisitInit, VisitNext, PTL DEF Spec

-----------------------------------------------------------------------------
(* What a tab shows and reports.                                             *)
TabTyped ==
    /\ copy \in 0..latest /\ shown \in -1..latest /\ exported \in 0..latest
    /\ shown > 0 => copy # 0
    /\ blocked \in BOOLEAN /\ keys \subseteq Sources
    /\ loads \in [Sources -> Nat] /\ reports \in [Sources -> Nat]
    /\ Images \in Nat
    /\ selected \in IF Images > 0 THEN 0..(Images - 1) ELSE {0}

(* Session storage, where there is one, knows the sources of this session's  *)
(* loads: the first of each is reported.                                     *)
Counted ==
    \A s \in Sources :
       /\ s \in keys <=> ~blocked /\ loads[s] > 0
       /\ reports[s] = IF blocked THEN loads[s] ELSE IF loads[s] > 0 THEN 1 ELSE 0

TabInv == TabTyped /\ Counted

LEMMA VisitTyped ==
    ASSUME VisitInv
    PROVE  /\ latest \in Nat /\ live \in 0..latest /\ Len(snapshot) \in Nat
           /\ latest \in 1..Len(snapshot)
           /\ \A v \in 1..latest : snapshot[v] \in Shape /\ snapshot[v].images \in Nat
<1>1. snapshot \in Seq(Products) /\ latest \in 1..Len(snapshot) /\ live \in 0..latest
  BY VisitAssumption DEF VisitInv
<1>2. Len(snapshot) \in Nat BY <1>1, LenProperties
<1>3. ASSUME NEW v \in 1..latest PROVE snapshot[v] \in Shape /\ snapshot[v].images \in Nat
  <2>1. v \in 1..Len(snapshot) BY <1>1, <1>2
  <2>2. snapshot[v] \in Shape BY <1>1, <2>1, ElementOfSeq, ProductsAssumption
  <2>3. QED BY <2>2 DEF Shape
<1>4. QED BY <1>1, <1>2, <1>3

(* The arrows stay within the images.                                        *)
LEMMA RelativeInside ==
    ASSUME NEW n \in Nat \ {0}, NEW i \in 0..(n - 1), NEW offset \in {-1, 1}
    PROVE  Relative(i, offset, n) \in 0..(n - 1)
<1>1. i + offset + n \in Nat OBVIOUS
<1>2. Relative(i, offset, n) = (i + offset + n) % n BY <1>1 DEF Relative, Rem
<1>3. QED BY <1>1, <1>2

(* One more load from the source s, reported unless storage has its key.     *)
LEMMA BeaconRight ==
    ASSUME TabInv, NEW s \in Sources, Beacon(s), blocked' = blocked,
           loads' = [loads EXCEPT ![s] = @ + 1]
    PROVE  /\ keys' \subseteq Sources /\ loads' \in [Sources -> Nat]
           /\ reports' \in [Sources -> Nat] /\ Counted'
<1>1. /\ loads \in [Sources -> Nat] /\ reports \in [Sources -> Nat] /\ blocked \in BOOLEAN
      /\ keys \subseteq Sources
      /\ \A u \in Sources :
           /\ u \in keys <=> ~blocked /\ loads[u] > 0
           /\ reports[u] = IF blocked THEN loads[u] ELSE IF loads[u] > 0 THEN 1 ELSE 0
  BY DEF TabInv, TabTyped, Counted
<1>2. /\ loads' \in [Sources -> Nat] /\ loads'[s] = loads[s] + 1
      /\ \A u \in Sources \ {s} : loads'[u] = loads[u]
  BY <1>1
<1>3. CASE s \in keys
  <2>1. keys' = keys /\ reports' = reports BY <1>3 DEF Beacon
  <2>2. QED BY <1>1, <1>2, <1>3, <2>1 DEF Counted
<1>4. CASE s \notin keys
  <2>1. /\ keys' = IF blocked THEN keys ELSE keys \cup {s}
        /\ reports' = [reports EXCEPT ![s] = @ + 1]
    BY <1>4 DEF Beacon
  <2>2. /\ reports' \in [Sources -> Nat] /\ reports'[s] = reports[s] + 1
        /\ \A u \in Sources \ {s} : reports'[u] = reports[u]
    BY <1>1, <2>1
  <2>3. ASSUME NEW u \in Sources
        PROVE  /\ u \in keys' <=> ~blocked /\ loads'[u] > 0
               /\ reports'[u] = IF blocked THEN loads'[u] ELSE IF loads'[u] > 0 THEN 1 ELSE 0
    BY <1>1, <1>2, <1>4, <2>1, <2>2
  <2>4. QED BY <1>1, <1>2, <2>1, <2>2, <2>3 DEF Counted
<1>5. QED BY <1>3, <1>4

(* Steps the tab takes no part in.                                           *)
LEMMA TabStays ==
    ASSUME VisitInv, TabInv,
           UNCHANGED <<snapshot, shown, selected, blocked, keys, loads, reports>>,
           latest' \in Nat, latest <= latest', exported' \in 0..latest',
           copy' \in 0..latest', copy # 0 => copy' # 0
    PROVE  TabInv'
<1>1. latest \in Nat BY VisitTyped
<1>2. Images' = Images BY DEF Images
<1>3. shown' \in -1..latest' BY <1>1 DEF TabInv, TabTyped
<1>4. TabTyped' BY <1>2, <1>3 DEF TabInv, TabTyped
<1>5. Counted' BY DEF TabInv, Counted
<1>6. QED BY <1>4, <1>5 DEF TabInv

LEMMA TabNext ==
    ASSUME VisitInv, TabInv, [Next]_vars
    PROVE  TabInv'
<1>0. /\ latest \in Nat /\ live \in 0..latest
      /\ copy \in 0..latest /\ shown \in -1..latest /\ exported \in 0..latest
      /\ shown > 0 => copy # 0
      /\ \A v \in 1..latest : snapshot[v].images \in Nat
  BY VisitTyped DEF TabInv, TabTyped
<1>1. CASE Publish
  BY <1>0, <1>1, TabStays DEF Publish
<1>2. CASE Unpublish \/ CopyAges \/ Saved
  <2>1. /\ UNCHANGED <<snapshot, shown, selected, blocked, keys, loads, reports, latest, copy>>
        /\ exported' \in {exported, 0}
    BY <1>2 DEF Unpublish, CopyAges, Saved
  <2>2. QED BY <1>0, <2>1, TabStays
<1>3. CASE Revalidate
  BY <1>0, <1>3, TabStays DEF Revalidate
<1>4. CASE Load
  <2>1. /\ UNCHANGED <<snapshot, latest, live, blocked, exported>>
        /\ \E s \in Sources :
             \/ copy # 0 /\ Show(copy, s) /\ UNCHANGED copy
             \/ copy = 0 /\ live # 0 /\ copy' = live /\ Show(live, s)
             \/ /\ copy = 0 /\ shown' \in {0, -1}
                /\ UNCHANGED <<copy, selected, loads, keys, reports>>
    BY <1>4 DEF Load
  <2>2. ASSUME NEW s \in Sources, NEW v \in 1..latest, Show(v, s), copy' = v PROVE TabInv'
    <3>1. /\ shown' = v /\ selected' = 0 /\ loads' = [loads EXCEPT ![s] = @ + 1] /\ Beacon(s)
      BY <2>2 DEF Show
    <3>2. /\ keys' \subseteq Sources /\ loads' \in [Sources -> Nat]
          /\ reports' \in [Sources -> Nat] /\ Counted'
      BY <2>1, <3>1, BeaconRight
    <3>3. Images' = snapshot[v].images /\ Images' \in Nat BY <1>0, <2>1, <2>2, <3>1 DEF Images
    <3>4. selected' \in IF Images' > 0 THEN 0..(Images' - 1) ELSE {0} BY <3>1, <3>3
    <3>5. copy' \in 0..latest' /\ shown' \in -1..latest' /\ exported' \in 0..latest' /\ copy' # 0
      BY <1>0, <2>1, <2>2, <3>1
    <3>6. blocked' \in BOOLEAN BY <2>1 DEF TabInv, TabTyped
    <3>7. QED BY <3>2, <3>3, <3>4, <3>5, <3>6 DEF TabInv, TabTyped
  <2>3. CASE copy = 0 /\ shown' \in {0, -1} /\ UNCHANGED <<copy, selected, loads, keys, reports>>
    <3>1. ~(shown > 0) BY <1>0, <2>3
    <3>2. Images = 0 /\ Images' = 0 BY <2>3, <3>1 DEF Images
    <3>3. selected = 0 BY <3>2 DEF TabInv, TabTyped
    <3>4. TabTyped' BY <1>0, <2>1, <2>3, <3>2, <3>3 DEF TabInv, TabTyped
    <3>5. Counted' BY <2>1, <2>3 DEF TabInv, Counted
    <3>6. QED BY <3>4, <3>5 DEF TabInv
  <2>4. (copy # 0 => copy \in 1..latest) /\ (live # 0 => live \in 1..latest) BY <1>0
  <2>5. QED BY <2>1, <2>2, <2>3, <2>4
<1>5. CASE CloseTab
  <2>1. /\ UNCHANGED <<snapshot, latest, copy, blocked, exported>>
        /\ shown' = 0 /\ selected' = 0 /\ keys' = {}
        /\ loads' = [s \in Sources |-> 0] /\ reports' = [s \in Sources |-> 0]
    BY <1>5 DEF CloseTab
  <2>2. Images' = 0 BY <2>1 DEF Images
  <2>3. TabTyped' BY <1>0, <2>1, <2>2 DEF TabInv, TabTyped
  <2>4. Counted' BY <2>1 DEF Counted
  <2>5. QED BY <2>3, <2>4 DEF TabInv
<1>6. CASE SelectImage
  <2>1. /\ UNCHANGED <<snapshot, latest, copy, shown, blocked, keys, loads, reports, exported>>
        /\ Images > 1
        /\ \/ \E offset \in {-1, 1} : selected' = Relative(selected, offset, Images)
           \/ selected' \in 0..(Images - 1)
    BY <1>6 DEF SelectImage
  <2>2. Images' = Images /\ Images \in Nat \ {0} /\ selected \in 0..(Images - 1)
    BY <2>1 DEF Images, TabInv, TabTyped
  <2>3. selected' \in 0..(Images - 1) BY <2>1, <2>2, RelativeInside
  <2>4. TabTyped' BY <1>0, <2>1, <2>2, <2>3 DEF TabInv, TabTyped
  <2>5. Counted' BY <2>1 DEF TabInv, Counted
  <2>6. QED BY <2>4, <2>5 DEF TabInv
<1>7. CASE Export
  BY <1>0, <1>7, TabStays DEF Export
<1>8. CASE Layout \/ UNCHANGED vars
  <2>1. UNCHANGED visitVars BY <1>8 DEF Layout, vars
  <2>2. QED BY <1>0, <2>1, TabStays DEF visitVars
<1>9. QED BY <1>1, <1>2, <1>3, <1>4, <1>5, <1>6, <1>7, <1>8 DEF Next

LEMMA TabInit == Init => TabInv
<1> SUFFICES ASSUME Init PROVE TabInv OBVIOUS
<1>1. Images = 0 BY DEF Init, Images
<1>2. TabTyped BY <1>1 DEF Init, TabTyped
<1>3. Counted BY DEF Init, Counted
<1>4. QED BY <1>2, <1>3 DEF TabInv

(* A session reports one scan per way of arriving, however often the page    *)
(* is loaded, and without session storage every load.                        *)
THEOREM SessionsReportOnce == Spec => []OneReportPerSession
<1>1. VisitInv /\ TabInv => OneReportPerSession
  <2>1. SUFFICES ASSUME VisitInv, TabInv PROVE OneReportPerSession OBVIOUS
  <2>2. PdfTypeOK /\ latest \in 1..Len(snapshot) /\ live \in 0..latest
    BY <2>1 DEF VisitInv, LayoutInv
  <2>3. TypeOK BY <2>1, <2>2 DEF TypeOK, TabInv, TabTyped
  <2>4. QED BY <2>1, <2>3 DEF OneReportPerSession, TabInv, Counted
<1>2. VisitInv /\ TabInv /\ [Next]_vars => (VisitInv /\ TabInv)'
  BY VisitNext, TabNext
<1>3. QED BY <1>1, <1>2, VisitInit, TabInit, PTL DEF Spec

-----------------------------------------------------------------------------
(* How often a kind of block is in what is drawn.                            *)
Times(k, s) == Cardinality({i \in 1..Len(s) : s[i] = k})

LEMMA TimesNat ==
    ASSUME NEW S, NEW s \in Seq(S), NEW k
    PROVE  IsFiniteSet({i \in 1..Len(s) : s[i] = k}) /\ Times(k, s) \in Nat
<1>1. Len(s) \in Nat BY LenProperties
<1>2. IsFiniteSet(1..Len(s)) BY <1>1, FS_Interval
<1>3. {i \in 1..Len(s) : s[i] = k} \in SUBSET (1..Len(s)) OBVIOUS
<1>4. IsFiniteSet({i \in 1..Len(s) : s[i] = k}) BY <1>2, <1>3, FS_Subset
<1>5. QED BY <1>4, FS_CardinalityType DEF Times

(* Sequences one after the other.                                            *)
LEMMA TimesJoin ==
    ASSUME NEW S, NEW s \in Seq(S), NEW t \in Seq(S), NEW k
    PROVE  Times(k, s \o t) = Times(k, s) + Times(k, t)
<1> DEFINE A == {i \in 1..Len(s) : s[i] = k}
           B == {i \in 1..Len(t) : t[i] = k}
           C == {i \in (Len(s) + 1)..(Len(s) + Len(t)) : t[i - Len(s)] = k}
           D == {i \in 1..Len(s \o t) : (s \o t)[i] = k}
           shift == [i \in B |-> Len(s) + i]
<1>1. Len(s) \in Nat /\ Len(t) \in Nat BY LenProperties
<1>2. IsFiniteSet(A) /\ IsFiniteSet(B) BY TimesNat
<1>3. ExistsBijection(B, C)
  <2>1. shift \in [B -> C] BY <1>1
  <2>2. \A i, j \in B : shift[i] = shift[j] => i = j BY <1>1
  <2>3. ASSUME NEW c \in C PROVE \E i \in B : shift[i] = c
    <3>1. c - Len(s) \in B BY <1>1
    <3>2. shift[c - Len(s)] = c BY <1>1, <3>1
    <3>3. QED BY <3>1, <3>2
  <2> HIDE DEF shift, B, C
  <2>4. shift \in Bijection(B, C) BY <2>1, <2>2, <2>3, Fun_IsBij
  <2>5. QED BY <2>4 DEF ExistsBijection
<1>4. IsFiniteSet(C) /\ Cardinality(C) = Cardinality(B) BY <1>2, <1>3, FS_Bijection
<1>5. A \cap C = {} BY <1>1
<1>6. D = A \cup C
  <2>1. /\ Len(s \o t) = Len(s) + Len(t)
        /\ \A i \in 1..Len(s) + Len(t) : (s \o t)[i] = IF i <= Len(s) THEN s[i] ELSE t[i - Len(s)]
    BY ConcatProperties
  <2>2. ASSUME NEW i \in Int PROVE i \in D <=> i \in A \/ i \in C
    <3>1. CASE i \in 1..Len(s) BY <1>1, <2>1, <3>1
    <3>2. CASE i \in (Len(s) + 1)..(Len(s) + Len(t)) BY <1>1, <2>1, <3>2
    <3>3. CASE i \notin 1..(Len(s) + Len(t)) BY <1>1, <2>1, <3>3
    <3>4. QED BY <1>1, <3>1, <3>2, <3>3
  <2>3. D \subseteq Int /\ A \subseteq Int /\ C \subseteq Int BY <1>1, <2>1
  <2> HIDE DEF A, C, D
  <2>4. QED BY <2>2, <2>3
<1> HIDE DEF A, B, C, D, shift
<1>7. Cardinality(D) = Cardinality(A) + Cardinality(C) - Cardinality(A \cap C)
  BY <1>2, <1>4, <1>6, FS_Union
<1>8. Cardinality(A \cap C) = 0 BY <1>5, FS_EmptySet
<1>9. Cardinality(A) \in Nat /\ Cardinality(B) \in Nat BY <1>2, FS_CardinalityType
<1>10. Cardinality(D) = Cardinality(A) + Cardinality(B) BY <1>4, <1>7, <1>8, <1>9
<1>11. QED BY <1>10 DEF Times, A, B, D

LEMMA TimesNone ==
    ASSUME NEW s, NEW k, \A i \in 1..Len(s) : s[i] # k
    PROVE  Times(k, s) = 0
<1>1. {i \in 1..Len(s) : s[i] = k} = {} OBVIOUS
<1>2. QED BY <1>1, FS_EmptySet DEF Times

LEMMA TimesRepeat ==
    ASSUME NEW n \in Nat, NEW a, NEW k
    PROVE  Times(k, Repeat(n, a)) = IF k = a THEN n ELSE 0
<1>1. Len(Repeat(n, a)) = n /\ \A i \in 1..n : Repeat(n, a)[i] = a BY RepeatFacts
<1>2. CASE k = a
  <2>1. {i \in 1..Len(Repeat(n, a)) : Repeat(n, a)[i] = k} = 1..n BY <1>1, <1>2
  <2>2. Cardinality(1..n) = n BY FS_Interval
  <2>3. QED BY <1>2, <2>1, <2>2 DEF Times
<1>3. CASE k # a
  BY <1>1, <1>3, TimesNone
<1>4. QED BY <1>2, <1>3

LEMMA TimesOne ==
    ASSUME NEW a, NEW k
    PROVE  Times(k, <<a>>) = IF k = a THEN 1 ELSE 0
<1>1. <<a>> = Repeat(1, a)
  <2>1. Repeat(1, a) \in Seq({a}) /\ Len(Repeat(1, a)) = 1 /\ Repeat(1, a)[1] = a
    <3>1. 1 \in Nat /\ 1 \in 1..1 OBVIOUS
    <3>2. QED BY <3>1, RepeatFacts
  <2>2. <<a>> \in Seq({a}) /\ Len(<<a>>) = 1 /\ <<a>>[1] = a OBVIOUS
  <2>3. \A i \in 1..Len(<<a>>) : <<a>>[i] = Repeat(1, a)[i] BY <2>1, <2>2
  <2>4. QED BY <2>1, <2>2, <2>3, SeqEqual
<1>2. QED BY <1>1, TimesRepeat

(* The kinds of blocks the page has a section for.                           *)
Told == {"lastLine", "row", "cards", "recyclable", "certification", "document", "gallery"}

LEMMA TimesSection ==
    ASSUME NEW title \in Titles, NEW blocks \in Seq(Kinds), NEW k \in Told
    PROVE  Section(title, blocks) \in Seq(Kinds) /\ Times(k, Section(title, blocks)) = Times(k, blocks)
<1>1. CASE blocks = <<>> BY <1>1 DEF Section
<1>2. CASE blocks # <<>>
  <2>1. <<title>> \in Seq(Kinds) /\ title # k BY DEF Kinds, Titles, Told
  <2>2. Section(title, blocks) = <<title>> \o blocks BY <1>2 DEF Section
  <2>3. Times(k, <<title>>) = 0 BY <2>1, TimesOne
  <2>4. Times(k, blocks) \in Nat BY TimesNat
  <2>5. Times(k, <<title>> \o blocks) = Times(k, blocks)
    <3>1. Times(k, <<title>> \o blocks) = Times(k, <<title>>) + Times(k, blocks)
      BY <2>1, TimesJoin
    <3>2. QED BY <2>3, <2>4, <3>1
  <2>6. QED BY <2>1, <2>2, <2>5, ConcatProperties
<1>3. QED BY <1>1, <1>2

LEMMA ToldKinds == Told \subseteq Kinds /\ {"line", "grid", "tableHead"} \subseteq Kinds
BY SMT DEF Told, Kinds, Titles, FlowingText

LEMMA RepeatKinds ==
    ASSUME NEW n \in Nat, NEW a \in Kinds
    PROVE  Repeat(n, a) \in Seq(Kinds)
<1>1. Repeat(n, a) \in Seq({a}) BY RepeatFacts
<1>2. {a} \subseteq Kinds OBVIOUS
<1>3. QED BY <1>1, <1>2, SeqMonotonic

LEMMA TimesDescription ==
    ASSUME NEW n \in Nat, NEW k \in Told
    PROVE  /\ Description(n) \in Seq(Kinds)
           /\ Times(k, Description(n)) = IF k = "lastLine" /\ n > 0 THEN 1 ELSE 0
<1>1. CASE n = 0
  <2>1. Description(n) = <<>> BY <1>1 DEF Description
  <2>2. Times(k, <<>>) = 0 BY TimesNone
  <2>3. <<>> \in Seq(Kinds) /\ ~(n > 0) BY <1>1
  <2>4. QED BY <2>1, <2>2, <2>3
<1>2. CASE n # 0
  <2> DEFINE lines == Repeat(n - 1, "line")
  <2>1. n - 1 \in Nat /\ "line" \in Kinds /\ "lastLine" \in Kinds BY <1>2, ToldKinds DEF Told
  <2>2. lines \in Seq(Kinds) BY <2>1, RepeatKinds
  <2>3. <<"lastLine">> \in Seq(Kinds) BY <2>1
  <2>4. k # "line" BY DEF Told
  <2>5. Times(k, lines) = 0 BY <2>1, <2>4, TimesRepeat
  <2> HIDE DEF lines
  <2>6. Append(lines, "lastLine") = lines \o <<"lastLine">> BY <2>1, <2>2
  <2>7. Times(k, lines \o <<"lastLine">>) = 0 + Times(k, <<"lastLine">>)
    BY <2>2, <2>3, <2>5, TimesJoin
  <2>8. Times(k, <<"lastLine">>) = IF k = "lastLine" THEN 1 ELSE 0 BY TimesOne
  <2>9. Description(n) = lines \o <<"lastLine">> BY <1>2, <2>6 DEF Description, lines
  <2>10. lines \o <<"lastLine">> \in Seq(Kinds) BY <2>2, <2>3, ConcatProperties
  <2>11. QED BY <1>2, <2>7, <2>8, <2>9, <2>10
<1>3. QED BY <1>1, <1>2

LEMMA TimesMaterials ==
    ASSUME NEW n \in Nat, NEW k \in Told
    PROVE  LET s == IF n = 0 THEN <<>> ELSE <<"tableHead">> \o Repeat(n, "row")
           IN  s \in Seq(Kinds) /\ Times(k, s) = IF k = "row" THEN n ELSE 0
<1>1. CASE n = 0
  <2>1. Times(k, <<>>) = 0 BY TimesNone
  <2>2. QED BY <1>1, <2>1
<1>2. CASE n # 0
  <2>1. "row" \in Kinds /\ "tableHead" \in Kinds /\ k # "tableHead" BY ToldKinds DEF Told
  <2>2. Repeat(n, "row") \in Seq(Kinds) /\ <<"tableHead">> \in Seq(Kinds) BY <2>1, RepeatKinds
  <2>3. Times(k, <<"tableHead">>) = 0 BY <2>1, TimesOne
  <2>4. Times(k, Repeat(n, "row")) = IF k = "row" THEN n ELSE 0 BY TimesRepeat
  <2>5. Times(k, <<"tableHead">> \o Repeat(n, "row")) = 0 + Times(k, Repeat(n, "row"))
    BY <2>2, <2>3, TimesJoin
  <2>6. <<"tableHead">> \o Repeat(n, "row") \in Seq(Kinds) BY <2>2, ConcatProperties
  <2>7. QED BY <1>2, <2>4, <2>5, <2>6
<1>3. QED BY <1>1, <1>2

LEMMA TimesSustainability ==
    ASSUME NEW cards \in Nat, NEW recyclable \in BOOLEAN, NEW k \in Told
    PROVE  /\ Sustainability(cards, recyclable) \in Seq(Kinds)
           /\ Times(k, Sustainability(cards, recyclable)) =
                IF k = "cards" THEN (cards + 1) \div 2
                ELSE IF k = "recyclable" /\ cards > 0 /\ recyclable THEN 1 ELSE 0
<1> DEFINE n == (cards + 1) \div 2
           flag == IF cards > 0 /\ recyclable THEN <<"recyclable">> ELSE <<>>
<1>1. n \in Nat OBVIOUS
<1>2. "cards" \in Kinds /\ "recyclable" \in Kinds BY ToldKinds DEF Told
<1>3. Repeat(n, "cards") \in Seq(Kinds) BY <1>1, <1>2, RepeatKinds
<1>4. Times(k, Repeat(n, "cards")) = IF k = "cards" THEN n ELSE 0 BY <1>1, TimesRepeat
<1>5. flag \in Seq(Kinds) BY <1>2
<1>6. Times(k, flag) = IF k = "recyclable" /\ cards > 0 /\ recyclable THEN 1 ELSE 0
  <2>1. Times(k, <<>>) = 0 BY TimesNone
  <2>2. Times(k, <<"recyclable">>) = IF k = "recyclable" THEN 1 ELSE 0 BY TimesOne
  <2>3. QED BY <2>1, <2>2
<1>7. Sustainability(cards, recyclable) = Repeat(n, "cards") \o flag BY DEF Sustainability
<1> HIDE DEF n, flag
<1>8. Times(k, Repeat(n, "cards") \o flag) = Times(k, Repeat(n, "cards")) + Times(k, flag)
  BY <1>3, <1>5, TimesJoin
<1>9. Repeat(n, "cards") \o flag \in Seq(Kinds) BY <1>3, <1>5, ConcatProperties
<1>10. Times(k, Repeat(n, "cards") \o flag) =
          IF k = "cards" THEN n
          ELSE IF k = "recyclable" /\ cards > 0 /\ recyclable THEN 1 ELSE 0
  BY <1>1, <1>4, <1>6, <1>8
<1>11. QED BY <1>7, <1>9, <1>10 DEF n

LEMMA TimesStep ==
    ASSUME NEW s \in Seq(Kinds), NEW t \in Seq(Kinds), NEW k
    PROVE  /\ s \o t \in Seq(Kinds) /\ Times(k, s \o t) = Times(k, s) + Times(k, t)
           /\ Times(k, s) \in Nat /\ Times(k, t) \in Nat
BY TimesJoin, TimesNat, ConcatProperties

(* The PDF of a product of any size has, of each kind, as many blocks as the *)
(* page shows parts, which are computed apart: PageContent follows           *)
(* PassportView, Blocks follows generate().                                  *)
LEMMA TimesBlocks ==
    ASSUME NEW p \in Shape, NEW got \in BOOLEAN, got => p.images > 1, NEW k \in Told
    PROVE  /\ Blocks(p, got) \in Seq(Kinds)
           /\ Times(k, Blocks(p, got)) = IF k = "gallery" /\ ~got THEN 0 ELSE PageContent(p)[k]
<1> DEFINE head  == <<"brand", "hero", "informationTitle">>
           lines == Description(p.description)
           grid  == <<"grid">>
           mats  == Section("materialsTitle",
                       IF p.materials = 0 THEN <<>> ELSE <<"tableHead">> \o Repeat(p.materials, "row"))
           sust  == Section("sustainabilityTitle", Sustainability(p.cards, p.recyclable))
           certs == Section("certificationsTitle", Repeat(p.certifications, "certification"))
           docs  == Section("documentsTitle", Repeat(p.documents, "document"))
           pics  == IF got THEN <<"galleryTitle", "gallery">> ELSE <<>>
           foot  == <<"passportTitle", "panel", "url">>
<1>0. /\ p.description \in Nat /\ p.materials \in Nat /\ p.cards \in Nat /\ p.recyclable \in BOOLEAN
      /\ p.certifications \in Nat /\ p.documents \in Nat /\ p.images \in Nat
  BY DEF Shape
<1>1. Blocks(p, got) =
        head \o lines \o grid \o mats \o sust \o certs \o docs \o pics \o foot
  BY DEF Blocks
<1>2. {"materialsTitle", "sustainabilityTitle", "certificationsTitle", "documentsTitle"} \subseteq Titles
  BY DEF Titles
<1>3. head \in Seq(Kinds) /\ Times(k, head) = 0
  <2>1. {"brand", "hero", "informationTitle"} \subseteq Kinds BY DEF Kinds, Titles
  <2>2. Len(head) = 3 /\ head[1] = "brand" /\ head[2] = "hero" /\ head[3] = "informationTitle" OBVIOUS
  <2>3. \A i \in 1..Len(head) : head[i] # k BY <2>2 DEF Told
  <2>4. head \in Seq(Kinds) BY <2>1
  <2>5. QED BY <2>3, <2>4, TimesNone
<1>4. lines \in Seq(Kinds) /\ Times(k, lines) = IF k = "lastLine" /\ p.description > 0 THEN 1 ELSE 0
  BY <1>0, TimesDescription
<1>5. grid \in Seq(Kinds) /\ Times(k, grid) = 0
  <2>1. "grid" \in Kinds /\ k # "grid" BY ToldKinds DEF Told
  <2>2. QED BY <2>1, TimesOne
<1>6. mats \in Seq(Kinds) /\ Times(k, mats) = IF k = "row" THEN p.materials ELSE 0
  <2> DEFINE table == IF p.materials = 0 THEN <<>> ELSE <<"tableHead">> \o Repeat(p.materials, "row")
  <2>1. table \in Seq(Kinds) /\ Times(k, table) = IF k = "row" THEN p.materials ELSE 0
    BY <1>0, TimesMaterials
  <2>2. mats = Section("materialsTitle", table) OBVIOUS
  <2> HIDE DEF table, mats
  <2>3. QED BY <1>2, <2>1, <2>2, TimesSection
<1>7. /\ sust \in Seq(Kinds)
      /\ Times(k, sust) = IF k = "cards" THEN (p.cards + 1) \div 2
                          ELSE IF k = "recyclable" /\ p.cards > 0 /\ p.recyclable THEN 1 ELSE 0
  <2> DEFINE both == Sustainability(p.cards, p.recyclable)
  <2>1. /\ both \in Seq(Kinds)
        /\ Times(k, both) = IF k = "cards" THEN (p.cards + 1) \div 2
                            ELSE IF k = "recyclable" /\ p.cards > 0 /\ p.recyclable THEN 1 ELSE 0
    BY <1>0, TimesSustainability
  <2>2. sust = Section("sustainabilityTitle", both) OBVIOUS
  <2> HIDE DEF both, sust
  <2>3. sust \in Seq(Kinds) /\ Times(k, sust) = Times(k, both) BY <1>2, <2>1, <2>2, TimesSection
  <2>4. QED BY <2>1, <2>3
<1>8. certs \in Seq(Kinds) /\ Times(k, certs) = IF k = "certification" THEN p.certifications ELSE 0
  <2>1. "certification" \in Kinds BY ToldKinds DEF Told
  <2>2. Repeat(p.certifications, "certification") \in Seq(Kinds) BY <1>0, <2>1, RepeatKinds
  <2>3. QED BY <1>0, <1>2, <2>2, TimesRepeat, TimesSection
<1>9. docs \in Seq(Kinds) /\ Times(k, docs) = IF k = "document" THEN p.documents ELSE 0
  <2>1. "document" \in Kinds BY ToldKinds DEF Told
  <2>2. Repeat(p.documents, "document") \in Seq(Kinds) BY <1>0, <2>1, RepeatKinds
  <2>3. QED BY <1>0, <1>2, <2>2, TimesRepeat, TimesSection
<1>10. pics \in Seq(Kinds) /\ Times(k, pics) = IF k = "gallery" /\ got THEN 1 ELSE 0
  <2>1. CASE got
    <3>1. "galleryTitle" \in Kinds /\ "gallery" \in Kinds /\ k # "galleryTitle"
      BY SMT DEF Kinds, Titles, Told
    <3>2. <<"galleryTitle">> \in Seq(Kinds) /\ <<"gallery">> \in Seq(Kinds) BY <3>1
    <3>3. pics = <<"galleryTitle">> \o <<"gallery">> BY <2>1
    <3>4. Times(k, <<"galleryTitle">>) = 0 /\ Times(k, <<"gallery">>) = IF k = "gallery" THEN 1 ELSE 0
      BY <3>1, TimesOne
    <3> DEFINE title == <<"galleryTitle">>
               row   == <<"gallery">>
    <3> HIDE DEF pics, title, row
    <3>5. title \in Seq(Kinds) /\ row \in Seq(Kinds) /\ pics = title \o row
      BY <3>2, <3>3 DEF title, row
    <3>6. /\ pics \in Seq(Kinds) /\ Times(k, pics) = Times(k, title) + Times(k, row)
          /\ Times(k, row) \in Nat
      BY <3>5, TimesStep
    <3>7. Times(k, title) = 0 /\ Times(k, row) = IF k = "gallery" THEN 1 ELSE 0
      BY <3>4 DEF title, row
    <3>8. QED BY <2>1, <3>6, <3>7
  <2>2. CASE ~got
    <3>1. pics = <<>> /\ <<>> \in Seq(Kinds) BY <2>2
    <3>2. Times(k, <<>>) = 0 BY TimesNone
    <3>3. QED BY <2>2, <3>1, <3>2
  <2>3. QED BY <2>1, <2>2
<1>11. foot \in Seq(Kinds) /\ Times(k, foot) = 0
  <2>1. {"passportTitle", "panel", "url"} \subseteq Kinds BY DEF Kinds, Titles, FlowingText
  <2>2. Len(foot) = 3 /\ foot[1] = "passportTitle" /\ foot[2] = "panel" /\ foot[3] = "url" OBVIOUS
  <2>3. \A i \in 1..Len(foot) : foot[i] # k BY <2>2 DEF Told
  <2>4. foot \in Seq(Kinds) BY <2>1
  <2>5. QED BY <2>3, <2>4, TimesNone
<1> HIDE DEF head, lines, grid, mats, sust, certs, docs, pics, foot
<1> DEFINE s1 == head \o lines
           s2 == s1 \o grid
           s3 == s2 \o mats
           s4 == s3 \o sust
           s5 == s4 \o certs
           s6 == s5 \o docs
           s7 == s6 \o pics
           s8 == s7 \o foot
<1>12. s1 \in Seq(Kinds) /\ Times(k, s1) = Times(k, lines) /\ Times(k, lines) \in Nat
  <2>1. s1 \in Seq(Kinds) /\ Times(k, s1) = Times(k, head) + Times(k, lines) /\ Times(k, lines) \in Nat
    BY <1>3, <1>4, TimesStep
  <2>2. QED BY <1>3, <2>1
<1> HIDE DEF s1
<1>13. s2 \in Seq(Kinds) /\ Times(k, s2) = Times(k, lines)
  BY <1>5, <1>12, TimesStep
<1> HIDE DEF s2
<1>14. /\ s3 \in Seq(Kinds) /\ Times(k, s3) = Times(k, lines) + Times(k, mats) /\ Times(k, mats) \in Nat
  BY <1>6, <1>13, TimesStep
<1> HIDE DEF s3
<1>15. /\ s4 \in Seq(Kinds) /\ Times(k, sust) \in Nat
       /\ Times(k, s4) = Times(k, lines) + Times(k, mats) + Times(k, sust)
  BY <1>7, <1>14, TimesStep
<1> HIDE DEF s4
<1>16. /\ s5 \in Seq(Kinds) /\ Times(k, certs) \in Nat
       /\ Times(k, s5) = Times(k, lines) + Times(k, mats) + Times(k, sust) + Times(k, certs)
  BY <1>8, <1>15, TimesStep
<1> HIDE DEF s5
<1>17. /\ s6 \in Seq(Kinds) /\ Times(k, docs) \in Nat
       /\ Times(k, s6) = Times(k, lines) + Times(k, mats) + Times(k, sust) + Times(k, certs)
                         + Times(k, docs)
  BY <1>9, <1>16, TimesStep
<1> HIDE DEF s6
<1>18. /\ s7 \in Seq(Kinds) /\ Times(k, pics) \in Nat
       /\ Times(k, s7) = Times(k, lines) + Times(k, mats) + Times(k, sust) + Times(k, certs)
                         + Times(k, docs) + Times(k, pics)
  BY <1>10, <1>17, TimesStep
<1> HIDE DEF s7
<1>19. s8 \in Seq(Kinds) /\ Times(k, s8) = Times(k, s7) + 0 /\ Times(k, s7) \in Nat
  BY <1>11, <1>18, TimesStep
<1>20. Blocks(p, got) = s8 BY <1>1 DEF s1, s2, s3, s4, s5, s6, s7, s8
<1> HIDE DEF s8
<1> DEFINE total == Times(k, lines) + Times(k, mats) + Times(k, sust) + Times(k, certs)
                    + Times(k, docs) + Times(k, pics)
<1>21. Times(k, Blocks(p, got)) = total BY <1>18, <1>19, <1>20
<1>22. total = IF k = "gallery" /\ ~got THEN 0 ELSE PageContent(p)[k]
  <2> USE DEF PageContent
  <2>1. CASE k = "lastLine"
    BY <2>1, <1>4, <1>6, <1>7, <1>8, <1>9, <1>10 DEF PageDescription
  <2>2. CASE k = "row"
    BY <2>2, <1>0, <1>4, <1>6, <1>7, <1>8, <1>9, <1>10 DEF PageMaterials
  <2>3. CASE k = "cards"
    BY <2>3, <1>0, <1>4, <1>6, <1>7, <1>8, <1>9, <1>10 DEF PageCards
  <2>4. CASE k = "recyclable"
    BY <2>4, <1>4, <1>6, <1>7, <1>8, <1>9, <1>10 DEF PageRecyclable
  <2>5. CASE k = "certification"
    BY <2>5, <1>0, <1>4, <1>6, <1>7, <1>8, <1>9, <1>10 DEF PageCertifications
  <2>6. CASE k = "document"
    BY <2>6, <1>0, <1>4, <1>6, <1>7, <1>8, <1>9, <1>10 DEF PageDocuments
  <2>7. CASE k = "gallery"
    BY <2>7, <1>4, <1>6, <1>7, <1>8, <1>9, <1>10 DEF PageGallery
  <2>8. QED BY <2>1, <2>2, <2>3, <2>4, <2>5, <2>6, <2>7 DEF Told
<1>23. QED BY <1>19, <1>20, <1>21, <1>22

(* What is on paper and what is left to draw are the blocks of the version   *)
(* being exported, in their order.                                           *)
Order(s) ==
    /\ s \in Seq(Kinds) /\ Len(placed) + Len(todo) = Len(s)
    /\ \A i \in 1..Len(placed) : placed[i].kind = s[i]
    /\ \A i \in 1..Len(todo) : todo[i] = s[Len(placed) + i]

Drawing ==
    /\ exported # 0 =>
         /\ exported \in 1..latest
         /\ fetched \in BOOLEAN /\ (fetched => snapshot[exported].images > 1)
         /\ Order(Blocks(snapshot[exported], fetched))
    /\ PagesCounted

LEMMA DrawKeepsOrder ==
    ASSUME LayoutInv, Draw, NEW s, Order(s)
    PROVE  Order(s)'
<1>1. PdfTypeOK /\ Stage BY DEF LayoutInv
<1>2. PICK k, st, sheet, top : Moved(k, st, sheet, top) BY <1>1, DrawMoves
<1>3. todo \in Seq(Kinds) /\ placed \in Seq(Entry) BY <1>1, SMT DEF PdfTypeOK, Entry
<1>4. Len(todo) \in Nat \ {0} /\ Len(placed) \in Nat
  BY <1>2, <1>3, EmptySeq, LenProperties DEF Moved
<1>5. /\ k = todo[1] /\ Len(todo') = Len(todo) - 1 /\ Len(placed') = Len(placed) + 1
      /\ \A i \in 1..Len(todo') : todo'[i] = todo[i + 1]
      /\ placed'[Len(placed) + 1].kind = k
      /\ \A i \in 1..Len(placed) : placed'[i] = placed[i]
  BY <1>2 DEF Moved
<1>6. /\ s \in Seq(Kinds) /\ Len(placed) + Len(todo) = Len(s)
      /\ \A i \in 1..Len(placed) : placed[i].kind = s[i]
      /\ \A i \in 1..Len(todo) : todo[i] = s[Len(placed) + i]
  BY DEF Order
<1>7. ASSUME NEW i \in 1..Len(placed') PROVE placed'[i].kind = s[i]
  <2>1. CASE i = Len(placed) + 1 BY <1>4, <1>5, <1>6, <2>1
  <2>2. CASE i \in 1..Len(placed) BY <1>5, <1>6, <2>2
  <2>3. QED BY <1>4, <1>5, <2>1, <2>2
<1>8. ASSUME NEW i \in 1..Len(todo') PROVE todo'[i] = s[Len(placed') + i]
  <2>1. i + 1 \in 1..Len(todo) /\ Len(placed') + i = Len(placed) + (i + 1) BY <1>4, <1>5
  <2>2. QED BY <1>5, <1>6, <2>1
<1>9. Len(placed') + Len(todo') = Len(s)
  <2>1. (Len(placed) + 1) + (Len(todo) - 1) = Len(placed) + Len(todo) BY <1>4
  <2>2. QED BY <1>5, <1>6, <2>1
<1>10. QED BY <1>6, <1>7, <1>8, <1>9 DEF Order

LEMMA DrawingNext ==
    ASSUME VisitInv, Drawing, [Next]_vars
    PROVE  Drawing'
<1>0. LayoutInv /\ (exported = 0 => Blank) BY DEF VisitInv
<1>1. CASE Publish \/ Unpublish \/ CopyAges \/ Revalidate \/ Load \/ CloseTab \/ SelectImage
  <2>1. exported' = 0 /\ UNCHANGED <<page, footers>>
    BY <1>1 DEF Publish, Unpublish, CopyAges, Revalidate, Load, CloseTab, SelectImage, Idle, pdfVars
  <2>2. QED BY <2>1 DEF Drawing, PagesCounted
<1>2. CASE Export
  <2>1. /\ exported = 0 /\ live # 0 /\ exported' = live /\ UNCHANGED <<snapshot, latest, placed, footers>>
        /\ fetched' \in IF snapshot[live].images > 1 THEN BOOLEAN ELSE {FALSE}
        /\ todo' = Blocks(snapshot[live], fetched')
    BY <1>2 DEF Export, Idle
  <2>2. live \in 1..latest /\ snapshot[live] \in Shape BY <2>1, VisitTyped
  <2>3. fetched' \in BOOLEAN /\ (fetched' => snapshot[live].images > 1) BY <2>1
  <2>4. todo' \in Seq(Kinds) BY <2>1, <2>2, <2>3, BlocksWhole DEF Whole
  <2>5. placed' = <<>> /\ footers' = 0 /\ Len(placed') = 0 BY <1>0, <2>1 DEF Blank
  <2>6. Len(todo') \in Nat BY <2>4, LenProperties
  <2>7. ASSUME NEW u, u = todo' PROVE Order(u)'
    BY <2>4, <2>5, <2>6, <2>7 DEF Order
  <2>8. Order(Blocks(snapshot[exported], fetched))'
    <3>1. Blocks(snapshot[exported], fetched)' = todo' BY <2>1
    <3>2. QED BY <2>7, <3>1 DEF Order
  <2>9. PagesCounted' BY <2>5 DEF PagesCounted
  <2>10. QED BY <2>1, <2>2, <2>3, <2>8, <2>9 DEF Drawing
<1>3. CASE Layout
  <2>1. UNCHANGED <<snapshot, latest, exported, fetched>> /\ PdfNext BY <1>3 DEF Layout, visitVars
  <2>2. exported # 0 BY <1>0, <2>1, SMT DEF Blank, PdfNext, Draw, AddFooters
  <2>3. CASE Draw
    <3>1. Order(Blocks(snapshot[exported], fetched))
      BY <2>2 DEF Drawing
    <3>2. Order(Blocks(snapshot[exported], fetched))'
      <4> DEFINE s == Blocks(snapshot[exported], fetched)
      <4>1. s' = s BY <2>1
      <4>2. ASSUME NEW u, u = s PROVE Order(u)'
        BY <1>0, <2>3, <3>1, <4>2, DrawKeepsOrder
      <4>3. QED BY <2>1, <4>2 DEF Order
    <3>3. PagesCounted'
      <4>1. todo # <<>> /\ footers' = footers BY <2>3 DEF Draw
      <4>2. footers \in Nat /\ ~(footers > 0) BY <1>0, <4>1 DEF LayoutInv, PdfTypeOK
      <4>3. QED BY <4>1, <4>2 DEF PagesCounted
    <3>4. QED BY <2>1, <2>2, <3>2, <3>3 DEF Drawing
  <2>4. CASE AddFooters
    <3>1. footers' = page' BY <1>0, <2>4, FootersSafe
    <3>2. UNCHANGED <<placed, todo>> BY <2>4 DEF AddFooters
    <3>3. QED BY <2>1, <2>2, <3>1, <3>2 DEF Drawing, Order, PagesCounted
  <2>5. QED BY <2>1, <2>3, <2>4 DEF PdfNext
<1>4. CASE Saved
  BY <1>4 DEF Saved, Drawing, PagesCounted
<1>5. CASE UNCHANGED vars
  BY <1>5 DEF vars, visitVars, pdfVars, Drawing, Order, PagesCounted
<1>6. QED BY <1>1, <1>2, <1>3, <1>4, <1>5 DEF Next

(* A complete PDF of a version of any product has exactly the parts the page *)
(* shows of that version, except a gallery none of whose images could be     *)
(* fetched, and announces as many pages as it has.                           *)
THEOREM PdfAlwaysMatchesPage == Spec => []PdfMatchesPage
<1>1. Init => Drawing
  BY SMT DEF Init, Drawing, PagesCounted
<1>2. VisitInv /\ Drawing => PdfMatchesPage
  <2>1. SUFFICES ASSUME VisitInv, Drawing, footers > 0 PROVE PdfMatchesPage
    BY DEF PdfMatchesPage
  <2> DEFINE p == snapshot[exported]
             s == Blocks(p, fetched)
  <2>2. exported # 0 /\ todo = <<>> /\ placed \in Seq(Entry)
    BY <2>1, SMT DEF VisitInv, LayoutInv, PdfTypeOK, Entry, Blank
  <2>3. /\ exported \in 1..latest /\ fetched \in BOOLEAN /\ (fetched => p.images > 1)
        /\ Order(s) /\ PagesCounted
    BY <2>1, <2>2 DEF Drawing
  <2>4. p \in Shape BY <2>1, <2>3, VisitTyped
  <2> HIDE DEF p, s
  <2>5. DOMAIN placed = 1..Len(s) /\ \A i \in DOMAIN placed : placed[i].kind = s[i]
    BY <2>2, <2>3, EmptySeq, LenProperties DEF Order
  <2>6. ASSUME NEW k \in Told
        PROVE  Cardinality({i \in DOMAIN placed : placed[i].kind = k})
                 = IF k = "gallery" /\ ~fetched THEN 0 ELSE PageContent(p)[k]
    <3>1. {i \in DOMAIN placed : placed[i].kind = k} = {i \in 1..Len(s) : s[i] = k} BY <2>5
    <3>2. Times(k, s) = IF k = "gallery" /\ ~fetched THEN 0 ELSE PageContent(p)[k]
      BY <2>3, <2>4, TimesBlocks DEF s
    <3>3. QED BY <3>1, <3>2 DEF Times
  <2>7. DOMAIN PageContent(p) = Told BY DEF PageContent, Told
  <2>8. QED BY <2>3, <2>6, <2>7 DEF PdfMatchesPage, p
<1>3. VisitInv /\ Drawing /\ [Next]_vars => (VisitInv /\ Drawing)'
  BY VisitNext, DrawingNext
<1>4. QED BY <1>1, <1>2, <1>3, VisitInit, PTL DEF Spec
=============================================================================
