---------------------------- MODULE PublicVisit ----------------------------
(***************************************************************************)
(* A visitor's browser tab on the public page of one passport: the web     *)
(* server renders the page from a copy it may reuse for 60 s, the page     *)
(* reports a scan, shows the images one at a time and exports a PDF, which *)
(* the API makes of the version that is live then (PassportPdf).           *)
(*                                                                         *)
(* Publication and unpublication are single steps here (Publication and    *)
(* PublicCache have their detail).                                         *)
(***************************************************************************)
EXTENDS PassportPdf, FiniteSets

CONSTANTS
    Snapshots,     \* histories: sequences of products, one per version
    MaxLoads       \* bound: page loads per browser session

Sources == {"qr", "direct"}    \* ?src=qr, or not

ASSUME VisitAssumption == Snapshots \subseteq Seq(Products) \ {<<>>} /\ MaxLoads \in Nat

VARIABLES
    snapshot,   \* snapshot[v]: the product as of version v
    latest,     \* the last version published
    live,       \* the version the API serves, 0 while there is none
    copy,       \* the version in the web server's fetch cache, 0 if none
    stale,      \* is that copy older than 60 s?
    shown,      \* what the tab shows: a version, 0 (unavailable) or -1 (an error)
    selected,   \* the position of the image shown, from 0
    blocked,    \* does the browser block session storage?
    keys,       \* the sources session storage has a key for
    loads,      \* loads[s]: pages with a passport loaded in this session from s
    reports,    \* reports[s]: the scans reported of them
    exported,   \* the version a PDF is being or has been made of; 0: none
    fetched     \* was a gallery image of it fetched?

visitVars == <<snapshot, latest, live, copy, stale, shown, selected, blocked, keys,
               loads, reports, exported, fetched>>

Init ==
    /\ snapshot \in Snapshots
    /\ latest = 1 /\ live = 1
    /\ copy = 0 /\ stale = FALSE
    /\ shown = 0 /\ selected = 0
    /\ blocked \in BOOLEAN
    /\ keys = {}
    /\ loads = [s \in Sources |-> 0] /\ reports = [s \in Sources |-> 0]
    /\ exported = 0 /\ fetched = FALSE
    /\ todo = <<>> /\ page = 1 /\ y = Top /\ em = 0 /\ placed = <<>> /\ footers = 0

(* Bound: the visitor waits for a PDF, so that one is drawn at a time.      *)
Idle == exported = 0

-----------------------------------------------------------------------------
(* The brand *)

Publish ==
    /\ Idle /\ latest < Len(snapshot)
    /\ latest' = latest + 1 /\ live' = latest + 1
    /\ UNCHANGED <<snapshot, copy, stale, shown, selected, blocked, keys, loads, reports,
                   exported, fetched, pdfVars>>

Unpublish ==
    /\ Idle /\ live # 0
    /\ live' = 0
    /\ UNCHANGED <<snapshot, latest, copy, stale, shown, selected, blocked, keys, loads,
                   reports, exported, fetched, pdfVars>>

-----------------------------------------------------------------------------
(* The web server *)

(* revalidate: 60                                                           *)
CopyAges ==
    /\ Idle /\ copy # 0 /\ ~stale
    /\ stale' = TRUE
    /\ UNCHANGED <<snapshot, latest, live, copy, shown, selected, blocked, keys, loads,
                   reports, exported, fetched, pdfVars>>

(* A stale copy is served while a new one is fetched. Only an answer 200 is *)
(* stored: while the passport is withdrawn the old copy stays.              *)
Revalidate ==
    /\ Idle /\ stale /\ live # 0
    /\ copy' = live /\ stale' = FALSE
    /\ UNCHANGED <<snapshot, latest, live, shown, selected, blocked, keys, loads, reports,
                   exported, fetched, pdfVars>>

-----------------------------------------------------------------------------
(* The tab *)

(* Broken, for mutation: the key does not tell the sources apart.           *)
BeaconOneKey(s) ==
    IF keys # {} /\ ~blocked
    THEN UNCHANGED <<keys, reports>>
    ELSE /\ keys' = IF blocked THEN keys ELSE keys \cup {s}
         /\ reports' = [reports EXCEPT ![s] = @ + 1]

(* ScanBeacon: one report per mount, and per session if storage works.      *)
Beacon(s) ==
    IF s \in keys
    THEN UNCHANGED <<keys, reports>>
    ELSE /\ keys' = IF blocked THEN keys ELSE keys \cup {s}
         /\ reports' = [reports EXCEPT ![s] = @ + 1]

(* PublicPassportPage shows version v to a visitor who came from s.         *)
Show(v, s) ==
    /\ shown' = v
    /\ selected' = 0
    /\ loads' = [loads EXCEPT ![s] = @ + 1]
    /\ Beacon(s)

Load ==
    /\ Idle
    /\ \E s \in Sources :
       /\ loads[s] < MaxLoads
       /\ \/ copy # 0 /\ Show(copy, s) /\ UNCHANGED copy
          \/ copy = 0 /\ live # 0 /\ copy' = live /\ Show(live, s)
          \/ /\ copy = 0
             /\ shown' \in IF live = 0 THEN {0, -1} ELSE {-1}
             /\ UNCHANGED <<copy, selected, loads, keys, reports>>
    /\ UNCHANGED <<snapshot, latest, live, stale, blocked, exported, fetched, pdfVars>>

(* The browser session ends.                                                *)
CloseTab ==
    /\ Idle
    /\ shown' = 0 /\ selected' = 0 /\ keys' = {}
    /\ loads' = [s \in Sources |-> 0] /\ reports' = [s \in Sources |-> 0]
    /\ UNCHANGED <<snapshot, latest, live, copy, stale, blocked, exported, fetched, pdfVars>>

(* The images of the page, the cover first.                                 *)
Images == IF shown > 0 THEN snapshot[shown].images ELSE 0

(* % of JavaScript has the sign of its left operand.                        *)
Rem(a, n) == IF a >= 0 THEN a % n ELSE 0 - ((0 - a) % n)

(* selectRelativeImage                                                      *)
Relative(i, offset, n) == Rem(i + offset + n, n)

(* The arrows, which are there if there are several images; thumbnails.     *)
SelectImage ==
    /\ Idle /\ Images > 1
    /\ \/ \E offset \in {-1, 1} : selected' = Relative(selected, offset, Images)
       \/ selected' \in 0..(Images - 1)
    /\ UNCHANGED <<snapshot, latest, live, copy, stale, shown, blocked, keys, loads, reports,
                   exported, fetched, pdfVars>>

-----------------------------------------------------------------------------
(* The export *)

(* The link is on every page that shows a passport; the API answers it for  *)
(* the version that is live. Every image fetch may fail.                    *)
Export ==
    /\ Idle /\ shown > 0 /\ live # 0
    /\ exported' = live
    /\ fetched' \in IF snapshot[live].images > 1 THEN BOOLEAN ELSE {FALSE}
    /\ todo' = Blocks(snapshot[live], fetched')
    /\ UNCHANGED <<snapshot, latest, live, copy, stale, shown, selected, blocked, keys, loads,
                   reports, page, y, em, placed, footers>>

Layout == PdfNext /\ UNCHANGED visitVars

(* The PDF has been saved.                                                  *)
Saved ==
    /\ footers > 0
    /\ exported' = 0 /\ fetched' = FALSE
    /\ page' = 1 /\ y' = Top /\ em' = 0 /\ placed' = <<>> /\ footers' = 0
    /\ UNCHANGED <<snapshot, latest, live, copy, stale, shown, selected, blocked, keys, loads,
                   reports, todo>>

Next ==
    \/ Publish \/ Unpublish \/ CopyAges \/ Revalidate
    \/ Load \/ CloseTab \/ SelectImage \/ Export \/ Layout \/ Saved

vars == <<visitVars, pdfVars>>

Spec == Init /\ [][Next]_vars

-----------------------------------------------------------------------------
(* What PassportView shows of a product, section by section, as the number *)
(* of blocks of each kind a PDF has for it.                                 *)
PageDescription(p) == IF p.description > 0 THEN 1 ELSE 0
PageMaterials(p) == p.materials
PageCards(p) == (p.cards + 1) \div 2
PageRecyclable(p) == IF p.cards > 0 /\ p.recyclable THEN 1 ELSE 0
PageCertifications(p) == p.certifications
PageDocuments(p) == p.documents

(* Thumbnails of all the images, if there are several.                      *)
PageGallery(p) == IF p.images > 1 THEN 1 ELSE 0

PageContent(p) ==
    [lastLine |-> PageDescription(p), row |-> PageMaterials(p), cards |-> PageCards(p),
     recyclable |-> PageRecyclable(p), certification |-> PageCertifications(p),
     document |-> PageDocuments(p), gallery |-> PageGallery(p)]

-----------------------------------------------------------------------------
(* Properties *)

(* The image shown is one of the page's, however often the arrows are used. *)
TypeOK ==
    /\ PdfTypeOK
    /\ live \in 0..latest /\ copy \in 0..latest /\ latest \in 1..Len(snapshot)
    /\ shown \in -1..latest /\ exported \in 0..latest
    /\ keys \subseteq Sources
    /\ selected \in IF Images > 0 THEN 0..(Images - 1) ELSE {0}

(* A session reports one scan per way of arriving, however often the page   *)
(* is loaded: later visits are not counted. Without storage every load is.  *)
OneReportPerSession ==
    /\ TypeOK
    /\ \A s \in Sources :
          reports[s] = IF blocked THEN loads[s] ELSE IF loads[s] > 0 THEN 1 ELSE 0

(* The PDF and the page have separate implementations. A complete PDF of a  *)
(* version has exactly the parts the page shows of that version, if its     *)
(* images could be fetched, and announces as many pages as it has.          *)
PdfMatchesPage ==
    footers > 0 =>
       LET p == snapshot[exported] IN
       /\ PagesCounted
       /\ \A k \in DOMAIN PageContent(p) :
             Cardinality({i \in DOMAIN placed : placed[i].kind = k})
                = IF k = "gallery" /\ ~fetched THEN 0 ELSE PageContent(p)[k]
=============================================================================
