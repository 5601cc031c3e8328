----------------------------- MODULE EditorProofs -----------------------------
(* Proofs about Editor, for any handlers, contents and bounds: what the      *)
(* screen shows, what a save leaves behind, and what typing survives.        *)
EXTENDS Editor, SequenceTheorems, FiniteSetTheorems, TLAPS

Typed == TypeOK /\ IsFiniteSet(late)

(* Who waits for a confirmation is the one the dialog asks, and the dialog   *)
(* asks only who waits; a save knows what it sends.                          *)
TasksOK ==
    /\ \A t \in UnderWay : /\ task[t].step = "confirm" => dialog = t /\ task[t].op \in Asking
                           /\ task[t].op = "save" => task[t].content \in Contents
    /\ \A q \in late : q.op = "save" => q.content \in Contents
    /\ dialog # Nothing => dialog \in UnderWay /\ task[dialog].step = "confirm"

(* A preview that shows p while version w is to be seen.                     *)
PreviewRight(p, w) ==
    /\ p.fetch \in {0, w}
    /\ p.fetch = 0 /\ ~p.error /\ p.shown # 0 => p.shown = w

(* A form, a disabled button and a preview are on a page that is shown.      *)
ScreenOK ==
    /\ fields # Nothing => Shown
    /\ busy # Nothing => Shown
    /\ IF Shown /\ tab = "preview" THEN PreviewRight(preview, Watched(status))
                                   ELSE preview = NoPreview
    /\ tab = "left" => product = Nothing /\ ~loadError /\ loads = <<>>
    /\ lost \in {"no", "failed load", "leave"}

(* While the draft must say what was saved last, no save is on its way that  *)
(* the page has forgotten, and one that is under way holds the Save button.  *)
SaveOK ==
    wanted # Nothing =>
      /\ \A q \in late : q.op # "save"
      /\ \A t \in SavesUnderWay : /\ task[t].content = wanted
                                  /\ task[t].step \in {"sent", "handled"}
                                  /\ task[t].step = "handled" => draft.form = wanted
                                  /\ busy = t \/ tab = "left"
      /\ SavesUnderWay = {} => draft.form = wanted

(* A load that began before an overtaken one is overtaken too.               *)
Overtaking == \A j, k \in DOMAIN loads : j < k /\ loads[k].overtaken => loads[j].overtaken

(* Where the present state of the server is, seen from the page: in an       *)
(* answer that will make the page load again, in the load that began last,   *)
(* or on the screen.                                                         *)
ToBeReloaded == \E t \in UnderWay : task[t].step = "handled"

LoadingNow ==
    /\ loads # <<>>
    /\ ~loads[Len(loads)].overtaken
    /\ loads[Len(loads)].product \in {Nothing, draft}
    /\ loads[Len(loads)].status \in {Nothing, StatusNow}

OnScreen ==
    /\ loads # <<>> => loads[Len(loads)].overtaken
    /\ product = draft /\ status = StatusNow

ScreenRight ==
    ~stale /\ ~loadError /\ tab # "left" => ToBeReloaded \/ LoadingNow \/ OnScreen

-----------------------------------------------------------------------------
(* A task that is under way is a record of one.                              *)
LEMMA UnderWayTyped ==
    ASSUME TypeOK, NEW t \in UnderWay
    PROVE  t \in Tasks /\ task[t] \in Task
BY DEF TypeOK, UnderWay

(* Which tasks are under way when one has changed.                           *)
LEMMA UnderWayMoved ==
    ASSUME TypeOK, NEW t \in Tasks, NEW value, task' = [task EXCEPT ![t] = value]
    PROVE  /\ task'[t] = value
           /\ \A u \in Tasks \ {t} : task'[u] = task[u] /\ (u \in UnderWay' <=> u \in UnderWay)
           /\ value \in Task => t \in UnderWay'
           /\ value = Over => t \notin UnderWay'
           /\ UnderWay' \subseteq Tasks
BY NoValueAssumption DEF TypeOK, UnderWay

LEMMA DraftNotNothing ==
    /\ \A d \in Draft : d # Nothing /\ d.form \in Contents /\ d.form # Nothing
    /\ \A st \in Status : st # Nothing
    /\ \A c \in Contents : c # Nothing
BY NoValueAssumption, EditorAssumption DEF Draft

LEMMA ServerTyped ==
    ASSUME TypeOK
    PROVE  StatusNow \in Status /\ NewLoad \in Load /\ NoPreview \in Preview
<1>1. Ready(draft) \in BOOLEAN BY DEF Ready
<1>2. (live /\ edited) \in BOOLEAN /\ live \in BOOLEAN /\ version \in 0..MaxVersions BY DEF TypeOK
<1>3. StatusNow \in Status BY <1>1, <1>2 DEF StatusNow, Status
<1>4. NewLoad \in Load /\ NoPreview \in Preview
  BY EditorAssumption DEF NewLoad, Load, NoPreview, Preview
<1>5. QED BY <1>3, <1>4

LEMMA WatchedTyped ==
    ASSUME NEW st \in Status
    PROVE  Watched(st) \in 0..MaxVersions
BY EditorAssumption DEF Watched, Status

LEMMA FetchingRight ==
    ASSUME NEW p \in Preview, NEW w \in 0..MaxVersions
    PROVE  Fetching(p, w) \in Preview /\ PreviewRight(Fetching(p, w), w)
BY EditorAssumption DEF Fetching, Preview, PreviewRight

LEMMA RefreshedRight ==
    ASSUME NEW p \in Preview, NEW was \in Status, NEW now \in Status, PreviewRight(p, Watched(was))
    PROVE  Refreshed(p, was, now) \in Preview /\ PreviewRight(Refreshed(p, was, now), Watched(now))
BY WatchedTyped, FetchingRight DEF Refreshed

(* What is mounted fits the page.                                            *)
LEMMA MountRight ==
    ASSUME NEW n \in Tabs \cup {"left"}, NEW p \in Draft, NEW st \in Status, Mount(n, p, st)
    PROVE  /\ fields' \in Contents \cup {Nothing} /\ preview' \in Preview /\ busy' = Nothing
           /\ fields' # Nothing => n = "form"
           /\ IF n = "preview" THEN PreviewRight(preview', Watched(st)) ELSE preview' = NoPreview
<1>1. NoPreview \in Preview BY EditorAssumption DEF NoPreview, Preview
<1>2. QED BY <1>1, WatchedTyped, FetchingRight, DraftNotNothing DEF Mount

(* Showing something else keeps the page's own consistency; while the page   *)
(* stays shown it keeps what was typed.                                      *)
LEMMA RenderRight ==
    ASSUME TypeOK, ScreenOK, NEW p \in Draft \cup {Nothing}, NEW st \in Status \cup {Nothing},
           NEW error \in BOOLEAN, NEW waiting \in {Nothing, busy}, NEW reason,
           tab # "left", Render(p, st, error, waiting, reason)
    PROVE  /\ product' = p /\ status' = st /\ loadError' = error /\ tab' = tab
           /\ fields' \in Contents \cup {Nothing} /\ preview' \in Preview
           /\ busy' \in Tasks \cup {Nothing}
           /\ fields' # Nothing => Shown'
           /\ busy' # Nothing => Shown' /\ Shown /\ busy' = waiting
           /\ IF Shown' /\ tab' = "preview" THEN PreviewRight(preview', Watched(st))
                                            ELSE preview' = NoPreview
           /\ Shown /\ Shown' => busy' = waiting /\ fields' = fields
           /\ fields' # fields => fields = Nothing \/ ~Shown'
           /\ lost' \in {lost, reason}
           /\ lost' # lost => fields # Nothing /\ fields' # fields
<1>0. /\ product' = p /\ status' = st /\ loadError' = error /\ tab' = tab
      /\ tab \in Tabs \cup {"left"} /\ preview \in Preview /\ NoPreview \in Preview
      /\ fields \in Contents \cup {Nothing} /\ busy \in Tasks \cup {Nothing}
  BY ServerTyped DEF Render, TypeOK
<1>1. Shown' <=> p # Nothing /\ st # Nothing /\ ~error
  BY <1>0 DEF Shown
<1>2. lost' \in {lost, reason} /\ (lost' # lost => fields # Nothing /\ fields' # fields)
  BY DEF Render, Lose, Unsaved, Dirty
<1>3. CASE ~Shown'
  <2>1. fields' = Nothing /\ preview' = NoPreview /\ busy' = Nothing
    BY <1>1, <1>3 DEF Render
  <2>2. QED BY <1>0, <1>2, <1>3, <2>1
<1>4. CASE Shown' /\ Shown
  <2>1. /\ fields' = fields /\ busy' = waiting
        /\ preview' = IF tab = "preview" THEN Refreshed(preview, status, st) ELSE preview
    BY <1>1, <1>4 DEF Render
  <2>2. status \in Status /\ st \in Status
    BY <1>1, <1>4 DEF TypeOK, Shown
  <2>3. CASE tab = "preview"
    <3>1. PreviewRight(preview, Watched(status)) BY <1>4, <2>3 DEF ScreenOK
    <3>2. preview' \in Preview /\ PreviewRight(preview', Watched(st))
      BY <1>0, <2>1, <2>2, <2>3, <3>1, RefreshedRight
    <3>3. QED BY <1>0, <1>2, <1>4, <2>1, <2>3, <3>2
  <2>4. CASE tab # "preview"
    <3>1. preview = NoPreview BY <2>4 DEF ScreenOK
    <3>2. QED BY <1>0, <1>2, <1>4, <2>1, <2>4, <3>1
  <2>5. QED BY <2>3, <2>4
<1>5. CASE Shown' /\ ~Shown
  <2>1. Mount(tab, p, st) /\ p \in Draft /\ st \in Status
    BY <1>1, <1>5 DEF Render
  <2>2. /\ fields' \in Contents \cup {Nothing} /\ preview' \in Preview /\ busy' = Nothing
        /\ IF tab = "preview" THEN PreviewRight(preview', Watched(st)) ELSE preview' = NoPreview
    BY <1>0, <2>1, MountRight
  <2>3. fields = Nothing BY <1>5 DEF ScreenOK
  <2>4. QED BY <1>0, <1>2, <1>5, <2>2, <2>3
<1>6. QED BY <1>3, <1>4, <1>5

-----------------------------------------------------------------------------
(* The parts of the types, for the steps that move only some of them.        *)
ServerPart == draft \in Draft /\ version \in 0..MaxVersions /\ live \in BOOLEAN /\ edited \in BOOLEAN

PagePart ==
    /\ product \in Draft \cup {Nothing} /\ status \in Status \cup {Nothing}
    /\ loadError \in BOOLEAN /\ tab \in Tabs \cup {"left"}
    /\ fields \in Contents \cup {Nothing} /\ busy \in Tasks \cup {Nothing}
    /\ preview \in Preview
    /\ fields # Nothing => Shown
    /\ busy # Nothing => Shown
    /\ IF Shown /\ tab = "preview" THEN PreviewRight(preview, Watched(status))
                                   ELSE preview = NoPreview
    /\ lost \in {"no", "failed load", "leave"}

LoadsPart == loads \in Seq(Load) /\ Len(loads) <= MaxLoads

AwayPart == tab = "left" => product = Nothing /\ ~loadError /\ loads = <<>>

LEMMA Parts ==
    ASSUME Typed, ScreenOK
    PROVE  ServerPart /\ PagePart /\ LoadsPart /\ AwayPart
BY DEF Typed, TypeOK, ScreenOK, ServerPart, PagePart, LoadsPart, AwayPart

(* A request that is served leaves a draft, and only a save touches what the *)
(* form edits.                                                               *)
LEMMA ServeRight ==
    ASSUME TypeOK, NEW op, NEW content, Serve(op, content), op = "save" => content \in Contents
    PROVE  /\ ServerPart'
           /\ draft'.form = IF op = "save" THEN content ELSE draft.form
<1>1. draft \in Draft /\ version \in 0..MaxVersions /\ live \in BOOLEAN /\ edited \in BOOLEAN
  BY DEF TypeOK
<1>2. CASE op = "save"
  BY <1>1, <1>2 DEF Serve, ServerPart, Draft
<1>3. CASE op \in {"attach", "images", "cover", "remove"}
  BY <1>1, <1>3 DEF Serve, ServerPart, Draft
<1>4. CASE op = "publish"
  <2>1. /\ draft' = draft /\ version < MaxVersions /\ version' = version + 1
        /\ live' = TRUE /\ edited' = FALSE
    BY <1>4 DEF Serve
  <2>2. version' \in 0..MaxVersions BY <1>1, <2>1, EditorAssumption
  <2>3. QED BY <1>1, <1>4, <2>1, <2>2 DEF ServerPart
<1>5. op = "save" \/ op \in {"attach", "images", "cover", "remove"} \/ op = "publish"
  BY DEF Serve
<1>6. QED BY <1>2, <1>3, <1>4, <1>5

(* The loads without one of them.                                            *)
LEMMA WithoutTyped ==
    ASSUME LoadsPart, NEW i \in DOMAIN loads,
           \/ loads' = Without(i)
           \/ loads' = [j \in 1..Len(loads) - 1 |-> IF j < i THEN loads[j] ELSE loads[j + 1]]
    PROVE  LoadsPart' /\ Len(loads') = Len(loads) - 1
<1>1. Len(loads) \in Nat \ {0} /\ i \in 1..Len(loads) BY DEF LoadsPart
<1>2. \A j \in 1..Len(loads) : loads[j] \in Load BY DEF LoadsPart
<1>3. \A j \in 1..Len(loads) : [loads[j] EXCEPT !.overtaken = TRUE] \in Load BY <1>2 DEF Load
<1>4. loads' \in [1..Len(loads) - 1 -> Load]
  <2>1. \A j \in 1..Len(loads) - 1 : j \in 1..Len(loads) /\ j + 1 \in 1..Len(loads) BY <1>1
  <2>2. QED BY <1>2, <1>3, <2>1 DEF Without
<1>5. Len(loads) - 1 \in Nat BY <1>1
<1>6. loads' \in Seq(Load) BY <1>4, <1>5
<1>7. Len(loads') = Len(loads) - 1 BY <1>4, <1>5, <1>6
<1>8. QED BY <1>1, <1>6, <1>7, EditorAssumption DEF LoadsPart

(* A load begins: the page stays as it is, or shows what it has again.       *)
LEMMA StartLoadRight ==
    ASSUME Typed, ScreenOK, tab # "left", NEW waiting \in {Nothing, busy}, StartLoad(waiting)
    PROVE  /\ PagePart' /\ LoadsPart' /\ tab' = tab
           /\ product' = product /\ status' = status /\ ~loadError'
           /\ loads' = Append(loads, NewLoad) /\ stale' = FALSE
           /\ Shown => fields' = fields /\ busy' = waiting
           /\ ~Shown => busy' = Nothing /\ busy = Nothing
<1>1. ServerPart /\ PagePart /\ LoadsPart BY Parts
<1>2. /\ loads' = Append(loads, NewLoad) /\ stale' = FALSE /\ Len(loads) < MaxLoads
      /\ Render(product, status, FALSE, waiting, "reload")
  BY DEF StartLoad
<1>3. LoadsPart'
  BY <1>1, <1>2, ServerTyped, EditorAssumption DEF LoadsPart, Typed
<1>4. /\ product' = product /\ status' = status /\ loadError' = FALSE /\ tab' = tab
      /\ fields' \in Contents \cup {Nothing} /\ preview' \in Preview
      /\ busy' \in Tasks \cup {Nothing}
      /\ fields' # Nothing => Shown'
      /\ busy' # Nothing => Shown' /\ Shown /\ busy' = waiting
      /\ IF Shown' /\ tab' = "preview" THEN PreviewRight(preview', Watched(status))
                                       ELSE preview' = NoPreview
      /\ Shown /\ Shown' => busy' = waiting /\ fields' = fields
      /\ lost' # lost => fields # Nothing /\ fields' # fields
  <2>1. product \in Draft \cup {Nothing} /\ status \in Status \cup {Nothing} /\ TypeOK
    BY <1>1 DEF PagePart, Typed
  <2>2. QED BY <1>2, <2>1, RenderRight
<1>5. Shown => Shown' BY <1>4 DEF Shown
<1>6. fields # Nothing => Shown BY <1>1 DEF PagePart
<1>7. lost' = lost BY <1>4, <1>5, <1>6
<1>8. ~Shown => busy' = Nothing /\ busy = Nothing BY <1>1, <1>4 DEF PagePart
<1>9. PagePart' BY <1>1, <1>4, <1>7 DEF PagePart
<1>10. QED BY <1>2, <1>3, <1>4, <1>5, <1>8, <1>9

(* A load that is applied leaves what was typed alone.                       *)
LEMMA ApplyLoadRight ==
    ASSUME Typed, ScreenOK, NEW i \in DOMAIN loads, ApplyLoad(i)
    PROVE  /\ PagePart' /\ LoadsPart' /\ tab' = tab /\ tab # "left"
           /\ product' = loads[i].product /\ status' = loads[i].status /\ loadError' = loadError
           /\ busy' = busy
<1>1. PagePart /\ LoadsPart /\ AwayPart BY Parts
<1>2. tab # "left" BY <1>1 DEF AwayPart
<1>3. /\ loads[i].product \in Draft /\ loads[i].status \in Status
      /\ Render(loads[i].product, loads[i].status, loadError, busy, "reload")
      /\ loads' = Without(i)
  <2>1. loads[i] \in Load BY <1>1 DEF LoadsPart
  <2>2. QED BY <2>1 DEF ApplyLoad, Load
<1>4. LoadsPart' BY <1>1, <1>3, WithoutTyped
<1>5. /\ product' = loads[i].product /\ status' = loads[i].status /\ loadError' = loadError
      /\ tab' = tab
      /\ fields' \in Contents \cup {Nothing} /\ preview' \in Preview
      /\ busy' \in Tasks \cup {Nothing}
      /\ fields' # Nothing => Shown'
      /\ busy' # Nothing => Shown' /\ Shown /\ busy' = busy
      /\ IF Shown' /\ tab' = "preview" THEN PreviewRight(preview', Watched(loads[i].status))
                                       ELSE preview' = NoPreview
      /\ Shown /\ Shown' => busy' = busy /\ fields' = fields
      /\ lost' # lost => fields # Nothing /\ fields' # fields
  <2>1. TypeOK /\ loadError \in BOOLEAN BY <1>1 DEF PagePart, Typed
  <2>2. QED BY <1>2, <1>3, <2>1, RenderRight
<1>6. Shown => Shown' BY <1>3, <1>5, DraftNotNothing DEF Shown
<1>7. fields # Nothing => Shown BY <1>1 DEF PagePart
<1>8. lost' = lost BY <1>5, <1>6, <1>7
<1>9. busy' = busy
  <2>1. CASE Shown BY <2>1, <1>5, <1>6
  <2>2. CASE ~Shown BY <2>2, <1>1, <1>5 DEF PagePart
  <2>3. QED BY <2>1, <2>2
<1>10. PagePart' BY <1>1, <1>3, <1>5, <1>8 DEF PagePart
<1>11. QED BY <1>2, <1>4, <1>5, <1>9, <1>10

(* A load that fails takes the page away.                                    *)
LEMMA FailLoadRight ==
    ASSUME Typed, ScreenOK, NEW i \in DOMAIN loads, FailLoad(i)
    PROVE  /\ PagePart' /\ LoadsPart' /\ tab' = tab /\ tab # "left"
           /\ product' = product /\ status' = status /\ loadError'
           /\ busy' = Nothing
<1>1. PagePart /\ LoadsPart /\ AwayPart BY Parts
<1>2. tab # "left" BY <1>1 DEF AwayPart
<1>3. LoadsPart' BY <1>1, WithoutTyped DEF FailLoad
<1>4. /\ product' = product /\ status' = status /\ loadError' = TRUE /\ tab' = tab
      /\ fields' = Nothing /\ preview' = NoPreview /\ busy' = Nothing
      /\ lost' \in {lost, "failed load"}
  BY DEF FailLoad, Render, Lose
<1>5. ~Shown' /\ NoPreview \in Preview
  BY <1>4, ServerTyped DEF Shown, Typed
<1>6. PagePart' BY <1>1, <1>4, <1>5 DEF PagePart
<1>7. QED BY <1>2, <1>3, <1>4, <1>6

(* Nobody loses edits by a change of tabs or by leaving without agreeing.    *)
LEMMA DiscardAgreed ==
    ASSUME NEW consent \in BOOLEAN, NEW reason, GuardDiscard(consent),
           Lose(IF consent THEN lost ELSE reason)
    PROVE  lost' = lost
BY DEF GuardDiscard, Lose, Unsaved

LEMMA GoToTabRight ==
    ASSUME Typed, ScreenOK, NEW n \in Tabs, NEW consent \in BOOLEAN, GoToTab(n, consent)
    PROVE  PagePart' /\ AwayPart'
<1>1. PagePart BY Parts
<1>2. product \in Draft /\ status \in Status /\ Shown /\ tab' = n /\ Mount(n, product, status)
  BY <1>1 DEF GoToTab, Free, Shown, PagePart
<1>3. product' = product /\ status' = status /\ loadError' = loadError /\ Shown'
  BY <1>2 DEF GoToTab, Shown
<1>4. lost' = lost BY DiscardAgreed DEF GoToTab
<1>5. /\ fields' \in Contents \cup {Nothing} /\ preview' \in Preview /\ busy' = Nothing
      /\ IF n = "preview" THEN PreviewRight(preview', Watched(status)) ELSE preview' = NoPreview
  BY <1>2, MountRight
<1>6. n # "left" BY DEF Tabs
<1>7. QED BY <1>1, <1>2, <1>3, <1>4, <1>5, <1>6 DEF PagePart, AwayPart

LEMMA LeaveRight ==
    ASSUME Typed, ScreenOK, NEW consent \in BOOLEAN, Leave(consent)
    PROVE  PagePart' /\ LoadsPart' /\ AwayPart'
<1>1. PagePart BY Parts
<1>2. lost' \in {lost, "leave"} BY DEF Leave, Lose
<1>3. /\ tab' = "left" /\ product' = Nothing /\ status' = Nothing /\ loadError' = FALSE
      /\ fields' = Nothing /\ preview' = NoPreview /\ busy' = Nothing /\ loads' = <<>>
  BY DEF Leave
<1>4. ~Shown' /\ NoPreview \in Preview BY <1>3, ServerTyped DEF Shown, Typed
<1>5. LoadsPart' BY <1>3, EditorAssumption DEF LoadsPart
<1>6. QED BY <1>1, <1>2, <1>3, <1>4, <1>5 DEF PagePart, AwayPart

(* What the preview tab fetches is the version it is about.                  *)
LEMMA PreviewMoved ==
    ASSUME PagePart, PreviewArrives \/ PreviewFails
    PROVE  PagePart'
<1>1. preview \in Preview /\ preview.fetch # 0 BY DEF PagePart, PreviewArrives, PreviewFails
<1>2. Shown /\ tab = "preview" /\ PreviewRight(preview, Watched(status))
  <2>1. preview # NoPreview BY <1>1 DEF NoPreview
  <2>2. QED BY <2>1 DEF PagePart
<1>3. preview' \in Preview /\ PreviewRight(preview', Watched(status))
  <2>1. /\ preview.fetch \in 0..MaxVersions /\ preview.shown \in 0..MaxVersions
        /\ preview.error \in BOOLEAN /\ 0 \in 0..MaxVersions
    BY <1>1, EditorAssumption DEF Preview
  <2>2. preview.fetch = Watched(status) BY <1>1, <1>2 DEF PreviewRight
  <2>3. CASE PreviewArrives
    <3>1. preview' = [preview EXCEPT !.shown = preview.fetch, !.fetch = 0] BY <2>3 DEF PreviewArrives
    <3>2. preview' \in Preview /\ preview'.fetch = 0 /\ preview'.shown = preview.fetch
      BY <1>1, <2>1, <3>1 DEF Preview
    <3>3. QED BY <2>2, <3>2 DEF PreviewRight
  <2>4. CASE PreviewFails
    <3>1. preview' = [preview EXCEPT !.error = TRUE, !.fetch = 0] BY <2>4 DEF PreviewFails
    <3>2. preview' \in Preview /\ preview'.fetch = 0 /\ preview'.error = TRUE
      BY <1>1, <2>1, <3>1 DEF Preview
    <3>3. QED BY <3>2 DEF PreviewRight
  <2>5. QED BY <2>3, <2>4
<1>4. UNCHANGED <<product, status, loadError, tab, fields, busy, lost>>
  BY DEF PreviewArrives, PreviewFails
<1>5. QED BY <1>2, <1>3, <1>4 DEF PagePart, Shown

LEMMA PageStays ==
    ASSUME PagePart, AwayPart, UNCHANGED screen
    PROVE  PagePart' /\ (loads' = loads => AwayPart')
BY DEF PagePart, AwayPart, screen, Shown

LEMMA NextPage ==
    ASSUME Typed, ScreenOK, [Next]_vars
    PROVE  PagePart' /\ LoadsPart' /\ AwayPart'
<1>0. ServerPart /\ PagePart /\ LoadsPart /\ AwayPart BY Parts
<1> DEFINE Goal == PagePart' /\ LoadsPart' /\ AwayPart'
<1>1. ASSUME NEW i \in DOMAIN loads, ReadProduct(i) \/ ReadStatus(i) PROVE Goal
  <2>1. loads[i] \in Load /\ loads # <<>> BY <1>0 DEF LoadsPart
  <2>2. StatusNow \in Status /\ draft \in Draft BY <1>0, ServerTyped DEF Typed, ServerPart
  <2>3. /\ [loads[i] EXCEPT !.product = draft] \in Load
        /\ [loads[i] EXCEPT !.status = StatusNow] \in Load
    BY <2>1, <2>2 DEF Load
  <2>4. LoadsPart' BY <1>0, <1>1, <2>3 DEF ReadProduct, ReadStatus, LoadsPart
  <2>5. PagePart' BY <1>0, <1>1, PageStays DEF ReadProduct, ReadStatus
  <2>6. tab' = tab /\ tab # "left" BY <1>0, <1>1, <2>1 DEF ReadProduct, ReadStatus, AwayPart, screen
  <2>7. QED BY <2>4, <2>5, <2>6 DEF AwayPart
<1>2. ASSUME NEW i \in DOMAIN loads, ApplyLoad(i) \/ FailLoad(i) PROVE Goal
  BY <1>2, ApplyLoadRight, FailLoadRight DEF AwayPart
<1>3. CASE Retry
  <2>1. tab # "left" BY <1>0, <1>3 DEF Retry, AwayPart
  <2>2. QED BY <1>3, <2>1, StartLoadRight DEF Retry, AwayPart
<1>4. ASSUME NEW c \in Contents, Type(c) PROVE Goal
  <2>1. Shown /\ Shown' /\ fields' = c BY <1>4 DEF Type, Free, Shown
  <2>2. QED BY <1>0, <1>4, <2>1 DEF Type, PagePart, LoadsPart, AwayPart
<1>5. ASSUME NEW n \in Tabs, NEW consent \in BOOLEAN, GoToTab(n, consent) PROVE Goal
  <2>1. LoadsPart' BY <1>0, <1>5 DEF GoToTab, LoadsPart
  <2>2. QED BY <1>5, <2>1, GoToTabRight
<1>6. ASSUME NEW consent \in BOOLEAN, Leave(consent) PROVE Goal
  BY <1>6, LeaveRight
<1>7. ASSUME NEW t \in Tasks, NEW op \in Ops, Begin(t, op) PROVE Goal
  <2>1. Shown /\ Shown' /\ busy' \in {t, busy} BY <1>7 DEF Begin, Enabled, Free, Shown
  <2>2. UNCHANGED <<product, status, loadError, tab, fields, preview, lost, loads>>
    BY <1>7 DEF Begin
  <2>3. QED BY <1>0, <2>1, <2>2 DEF PagePart, LoadsPart, AwayPart
<1>8. ASSUME NEW t \in Tasks, Return(t) PROVE Goal
  <2> DEFINE waiting == IF busy = t THEN Nothing ELSE busy
  <2>1. CASE tab # "left" /\ StartLoad(waiting)
    <3>1. waiting \in {Nothing, busy} OBVIOUS
    <3>2. QED BY <2>1, <3>1, StartLoadRight DEF AwayPart
  <2>2. CASE /\ busy' \in {Nothing, busy}
             /\ UNCHANGED <<product, status, loadError, tab, fields, preview, lost, loads>>
    BY <1>0, <2>2 DEF PagePart, LoadsPart, AwayPart, Shown
  <2>3. QED BY <1>8, <2>1, <2>2 DEF Return
<1>9. CASE PreviewArrives \/ PreviewFails
  <2>1. UNCHANGED <<product, loadError, tab, loads>> BY <1>9 DEF PreviewArrives, PreviewFails
  <2>2. QED BY <1>0, <1>9, <2>1, PreviewMoved DEF LoadsPart, AwayPart
<1>10. CASE UNCHANGED <<screen, loads>>
  BY <1>0, <1>10, PageStays DEF LoadsPart
<1>11. ASSUME \/ CloseSuccess
              \/ \E t \in Tasks : Handle(t) \/ Refuse(t) \/ GiveUp(t) \/ Elsewhere(t)
              \/ \E yes \in BOOLEAN : Answer(yes)
              \/ \E q \in late : ServeLate(q)
              \/ UNCHANGED vars
       PROVE  UNCHANGED <<screen, loads>>
  BY <1>11 DEF CloseSuccess, Handle, Refuse, GiveUp, Elsewhere, Answer, ServeLate, vars
<1>12. QED
  BY <1>1, <1>2, <1>3, <1>4, <1>5, <1>6, <1>7, <1>8, <1>9, <1>10, <1>11 DEF Next

(* What a task sends is a request.                                           *)
LEMMA Sent ==
    ASSUME Typed, TasksOK, NEW t \in UnderWay
    PROVE  /\ [op |-> task[t].op, content |-> task[t].content] \in Request
           /\ task[t].op \in Ops /\ task[t].content \in Contents \cup {Nothing}
           /\ task[t].op = "save" => task[t].content \in Contents
           /\ \A s \in {"sent", "handled", "failed"} :
                /\ [task[t] EXCEPT !.step = s] \in Task
                /\ [task[t] EXCEPT !.step = s].step = s
                /\ [task[t] EXCEPT !.step = s].op = task[t].op
                /\ [task[t] EXCEPT !.step = s].content = task[t].content
<1>1. task[t] \in Task BY UnderWayTyped DEF Typed
<1>2. QED BY <1>1 DEF TasksOK, Task, Request

LEMMA NextServer ==
    ASSUME Typed, TasksOK, ScreenOK, [Next]_vars
    PROVE  ServerPart'
<1>0. ServerPart BY Parts
<1>1. ASSUME NEW t \in Tasks, Handle(t) PROVE ServerPart'
  BY <1>1, Sent, ServeRight DEF Handle, Typed
<1>2. ASSUME NEW q \in late, ServeLate(q) PROVE ServerPart'
  <2>1. CASE Serve(q.op, q.content) BY <2>1, ServeRight DEF TasksOK, Typed
  <2>2. CASE UNCHANGED server BY <1>0, <2>2 DEF server, ServerPart
  <2>3. QED BY <1>2, <2>1, <2>2 DEF ServeLate
<1>3. ASSUME NEW t \in Tasks, Elsewhere(t) PROVE ServerPart'
  <2>1. ASSUME NEW c \in Contents, Serve("save", c) PROVE ServerPart'
    BY <2>1, ServeRight DEF Typed
  <2>2. CASE Serve("publish", Nothing) BY <2>2, ServeRight DEF Typed
  <2>3. CASE live' = FALSE /\ UNCHANGED <<draft, version, edited>>
    BY <1>0, <2>3 DEF ServerPart
  <2>4. QED BY <1>3, <2>1, <2>2, <2>3 DEF Elsewhere
<1>4. CASE UNCHANGED server BY <1>0, <1>4 DEF server, ServerPart
<1>5. ASSUME NEW i \in DOMAIN loads, ReadProduct(i) \/ ReadStatus(i) \/ ApplyLoad(i) \/ FailLoad(i)
      PROVE  UNCHANGED server
  BY <1>5 DEF ReadProduct, ReadStatus, ApplyLoad, FailLoad
<1>6. ASSUME NEW t \in Tasks,
             (\E op \in Ops : Begin(t, op)) \/ Refuse(t) \/ GiveUp(t) \/ Return(t)
      PROVE  UNCHANGED server
  BY <1>6 DEF Begin, Refuse, GiveUp, Return
<1>7. ASSUME \/ Retry \/ CloseSuccess \/ PreviewArrives \/ PreviewFails
             \/ \E c \in Contents : Type(c)
             \/ \E n \in Tabs, consent \in BOOLEAN : GoToTab(n, consent)
             \/ \E consent \in BOOLEAN : Leave(consent)
             \/ \E yes \in BOOLEAN : Answer(yes)
             \/ UNCHANGED vars
      PROVE  UNCHANGED server
  BY <1>7 DEF Retry, CloseSuccess, PreviewArrives, PreviewFails, Type, GoToTab, Leave, Answer, vars
<1>8. QED BY <1>1, <1>2, <1>3, <1>4, <1>5, <1>6, <1>7 DEF Next

LatePart ==
    /\ late \subseteq Request /\ IsFiniteSet(late) /\ Cardinality(late) <= MaxLate
    /\ \A q \in late : q.op = "save" => q.content \in Contents

HandlersPart ==
    /\ task \in [Tasks -> Task \cup {Nothing, Over}] /\ dialog \in Tasks \cup {Nothing}
    /\ \A t \in UnderWay : /\ task[t].step = "confirm" => dialog = t /\ task[t].op \in Asking
                           /\ task[t].op = "save" => task[t].content \in Contents
    /\ dialog # Nothing => dialog \in UnderWay /\ task[dialog].step = "confirm"

NotesPart == success \in BOOLEAN /\ wanted \in Contents \cup {Nothing} /\ stale \in BOOLEAN

LEMMA OtherParts ==
    ASSUME Typed, TasksOK
    PROVE  LatePart /\ HandlersPart /\ NotesPart
BY DEF Typed, TypeOK, TasksOK, LatePart, HandlersPart, NotesPart

LEMMA AllParts ==
    ASSUME ServerPart, PagePart, LoadsPart, AwayPart, LatePart, HandlersPart, NotesPart
    PROVE  Typed /\ TasksOK /\ ScreenOK
BY DEF ServerPart, PagePart, LoadsPart, AwayPart, LatePart, HandlersPart, NotesPart,
       Typed, TypeOK, TasksOK, ScreenOK

LEMMA NextLate ==
    ASSUME Typed, TasksOK, [Next]_vars
    PROVE  LatePart'
<1>0. LatePart BY OtherParts
<1>1. ASSUME NEW t \in Tasks, GiveUp(t), late' # late PROVE LatePart'
  <2> DEFINE q == [op |-> task[t].op, content |-> task[t].content]
  <2>1. t \in UnderWay /\ Cardinality(late) < MaxLate /\ late' = late \cup {q}
    BY <1>1 DEF GiveUp
  <2>2. q \in Request /\ (q.op = "save" => q.content \in Contents) BY <2>1, Sent
  <2>3. IsFiniteSet(late') /\ Cardinality(late') \in {Cardinality(late), Cardinality(late) + 1}
    <3>1. /\ IsFiniteSet(late \cup {q})
          /\ Cardinality(late \cup {q}) = IF q \in late THEN Cardinality(late) ELSE Cardinality(late) + 1
      BY <1>0, FS_AddElement DEF LatePart
    <3>2. QED BY <2>1, <3>1
  <2>4. Cardinality(late) \in Nat BY <1>0, FS_CardinalityType DEF LatePart
  <2>5. Cardinality(late') <= MaxLate BY <2>1, <2>3, <2>4, EditorAssumption
  <2>6. QED BY <1>0, <2>1, <2>2, <2>3, <2>5 DEF LatePart
<1>2. ASSUME NEW q \in late, ServeLate(q) PROVE LatePart'
  <2>1. late' = late \ {q} BY <1>2 DEF ServeLate
  <2>2. IsFiniteSet(late') /\ Cardinality(late') = Cardinality(late) - 1
    BY <1>0, <2>1, FS_RemoveElement DEF LatePart
  <2>3. Cardinality(late) \in Nat BY <1>0, FS_CardinalityType DEF LatePart
  <2>4. Cardinality(late') <= MaxLate BY <1>0, <2>2, <2>3, EditorAssumption DEF LatePart
  <2>5. QED BY <1>0, <2>1, <2>2, <2>4 DEF LatePart
<1>3. CASE late' = late BY <1>0, <1>3 DEF LatePart
<1>4. ASSUME NEW i \in DOMAIN loads, ReadProduct(i) \/ ReadStatus(i) \/ ApplyLoad(i) \/ FailLoad(i)
      PROVE  late' = late
  BY <1>4 DEF ReadProduct, ReadStatus, ApplyLoad, FailLoad
<1>5. ASSUME NEW t \in Tasks,
             (\E op \in Ops : Begin(t, op)) \/ Handle(t) \/ Refuse(t) \/ Return(t) \/ Elsewhere(t)
      PROVE  late' = late
  BY <1>5 DEF Begin, Handle, Refuse, Return, Elsewhere
<1>6. ASSUME \/ Retry \/ CloseSuccess \/ PreviewArrives \/ PreviewFails
             \/ \E c \in Contents : Type(c)
             \/ \E n \in Tabs, consent \in BOOLEAN : GoToTab(n, consent)
             \/ \E consent \in BOOLEAN : Leave(consent)
             \/ \E yes \in BOOLEAN : Answer(yes)
             \/ UNCHANGED vars
      PROVE  late' = late
  BY <1>6 DEF Retry, CloseSuccess, PreviewArrives, PreviewFails, Type, GoToTab, Leave, Answer, vars
<1>7. QED BY <1>1, <1>2, <1>3, <1>4, <1>5, <1>6 DEF Next

LEMMA NextNotes ==
    ASSUME Typed, TasksOK, ScreenOK, [Next]_vars
    PROVE  NotesPart'
<1>0. NotesPart /\ PagePart BY Parts, OtherParts
<1>1. ASSUME NEW i \in DOMAIN loads, ReadProduct(i) \/ ReadStatus(i) PROVE NotesPart'
  BY <1>0, <1>1 DEF ReadProduct, ReadStatus, NotesPart
<1>2. ASSUME NEW i \in DOMAIN loads, ApplyLoad(i) \/ FailLoad(i) PROVE NotesPart'
  <2>1. stale' \in BOOLEAN BY <1>0, <1>2 DEF ApplyLoad, FailLoad, NotesPart
  <2>2. success' = success /\ wanted' \in {wanted, Nothing}
    BY <1>2 DEF ApplyLoad, FailLoad, ForgetSaving
  <2>3. QED BY <1>0, <2>1, <2>2 DEF NotesPart
<1>3. CASE Retry BY <1>0, <1>3 DEF Retry, StartLoad, NotesPart
<1>4. ASSUME NEW c \in Contents, Type(c) PROVE NotesPart' BY <1>0, <1>4 DEF Type, NotesPart
<1>5. ASSUME NEW n \in Tabs, NEW consent \in BOOLEAN, GoToTab(n, consent) PROVE NotesPart'
  BY <1>0, <1>5 DEF GoToTab, ForgetSaving, NotesPart
<1>6. ASSUME NEW consent \in BOOLEAN, Leave(consent) PROVE NotesPart'
  BY <1>0, <1>6 DEF Leave, NotesPart
<1>7. CASE CloseSuccess \/ PreviewArrives \/ PreviewFails
  BY <1>0, <1>7 DEF CloseSuccess, PreviewArrives, PreviewFails, NotesPart
<1>8. ASSUME NEW t \in Tasks, NEW op \in Ops, Begin(t, op) PROVE NotesPart'
  <2>1. wanted' \in {wanted, Nothing, fields} BY <1>8 DEF Begin
  <2>2. success' = success /\ stale' = stale BY <1>8 DEF Begin
  <2>3. QED BY <1>0, <2>1, <2>2 DEF NotesPart, PagePart
<1>9. ASSUME NEW t \in Tasks, Handle(t) \/ Refuse(t) \/ GiveUp(t) PROVE NotesPart'
  BY <1>0, <1>9 DEF Handle, Refuse, GiveUp, UnlessSave, NotesPart
<1>10. ASSUME NEW t \in Tasks, Return(t) PROVE NotesPart'
  <2>1. wanted' = wanted /\ success' \in BOOLEAN BY <1>0, <1>10 DEF Return, NotesPart
  <2>2. stale' \in {stale, FALSE} BY <1>10 DEF Return, StartLoad
  <2>3. QED BY <1>0, <2>1, <2>2 DEF NotesPart
<1>11. ASSUME NEW t \in Tasks, Elsewhere(t) PROVE NotesPart'
  BY <1>0, <1>11 DEF Elsewhere, NotesPart
<1>12. ASSUME NEW yes \in BOOLEAN, Answer(yes) PROVE NotesPart' BY <1>0, <1>12 DEF Answer, NotesPart
<1>13. ASSUME NEW q \in late, ServeLate(q) PROVE NotesPart' BY <1>0, <1>13 DEF ServeLate, NotesPart
<1>14. CASE UNCHANGED vars BY <1>0, <1>14 DEF vars, NotesPart
<1>15. QED
  BY <1>1, <1>2, <1>3, <1>4, <1>5, <1>6, <1>7, <1>8, <1>9, <1>10, <1>11, <1>12, <1>13, <1>14 DEF Next

(* A handler that has not to be confirmed, or not any more, goes on or ends. *)
LEMMA HandlerMoved ==
    ASSUME Typed, TasksOK, NEW t \in UnderWay, task[t].step # "confirm", dialog' = dialog,
           \/ task' = [task EXCEPT ![t] = Over]
           \/ \E s \in {"handled", "failed"} : task' = [task EXCEPT ![t].step = s]
    PROVE  HandlersPart'
<1>0. HandlersPart /\ TypeOK /\ t \in Tasks BY OtherParts, UnderWayTyped DEF Typed
<1>1. PICK value \in Task \cup {Over} :
        /\ task' = [task EXCEPT ![t] = value]
        /\ value # Over => /\ value.step # "confirm"
                           /\ value.op = "save" => value.content \in Contents
  <2>1. CASE task' = [task EXCEPT ![t] = Over] BY <2>1
  <2>2. ASSUME NEW s \in {"handled", "failed"}, task' = [task EXCEPT ![t].step = s]
        PROVE  \E value \in Task \cup {Over} :
                 /\ task' = [task EXCEPT ![t] = value]
                 /\ value # Over => /\ value.step # "confirm"
                                    /\ value.op = "save" => value.content \in Contents
    <3> DEFINE value == [task[t] EXCEPT !.step = s]
    <3>1. value \in Task /\ value.step = s /\ (value.op = "save" => value.content \in Contents)
      <4>1. /\ task[t].op = "save" => task[t].content \in Contents
            /\ \A r \in {"sent", "handled", "failed"} :
                 /\ [task[t] EXCEPT !.step = r] \in Task
                 /\ [task[t] EXCEPT !.step = r].step = r
                 /\ [task[t] EXCEPT !.step = r].op = task[t].op
                 /\ [task[t] EXCEPT !.step = r].content = task[t].content
        BY Sent
      <4>2. s \in {"sent", "handled", "failed"} BY <2>2
      <4>3. QED BY <4>1, <4>2
    <3>2. task' = [task EXCEPT ![t] = value] BY <2>2
    <3> HIDE DEF value
    <3>3. QED BY <2>2, <3>1, <3>2
  <2>3. QED BY <2>1, <2>2
<1>2. /\ task'[t] = value
      /\ \A u \in Tasks \ {t} : task'[u] = task[u] /\ (u \in UnderWay' <=> u \in UnderWay)
      /\ value \in Task => t \in UnderWay'
      /\ value = Over => t \notin UnderWay'
      /\ UnderWay' \subseteq Tasks
  BY <1>0, <1>1, UnderWayMoved
<1>3. task' \in [Tasks -> Task \cup {Nothing, Over}] BY <1>0, <1>1 DEF HandlersPart
<1>4. dialog # t BY <1>0, EditorAssumption DEF HandlersPart
<1>5. dialog \in Tasks \cup {Nothing} BY <1>0 DEF HandlersPart
<1>6. ASSUME NEW u \in UnderWay'
      PROVE  /\ task'[u].step = "confirm" => dialog' = u /\ task'[u].op \in Asking
             /\ task'[u].op = "save" => task'[u].content \in Contents
  <2>1. CASE u = t BY <1>1, <1>2, <2>1
  <2>2. CASE u # t BY <1>0, <1>2, <2>2 DEF HandlersPart
  <2>3. QED BY <2>1, <2>2
<1>7. dialog' # Nothing => dialog' \in UnderWay' /\ task'[dialog'].step = "confirm"
  BY <1>0, <1>2, <1>4, <1>5 DEF HandlersPart
<1>8. QED BY <1>3, <1>5, <1>6, <1>7 DEF HandlersPart

LEMMA NextHandlers ==
    ASSUME Typed, TasksOK, ScreenOK, [Next]_vars
    PROVE  HandlersPart'
<1>0. HandlersPart /\ TypeOK /\ PagePart BY Parts, OtherParts DEF Typed
<1>1. ASSUME NEW t \in Tasks, NEW op \in Ops, Begin(t, op) PROVE HandlersPart'
  <2> DEFINE value == [op |-> op, step |-> IF op \in Asking THEN "confirm" ELSE "sent",
                       content |-> IF op = "save" THEN fields ELSE Nothing]
  <2>1. /\ task[t] = Nothing /\ Enabled(op) /\ task' = [task EXCEPT ![t] = value]
        /\ dialog' = IF op \in Asking THEN t ELSE dialog
    BY <1>1 DEF Begin
  <2>2. dialog = Nothing BY <2>1 DEF Enabled, Free, Modal
  <2>3. op = "save" => fields \in Contents
    BY <1>0, <2>1 DEF Enabled, Dirty, PagePart
  <2>4. /\ value \in Task /\ value.op = op /\ (value.step = "confirm" <=> op \in Asking)
        /\ value.op = "save" => value.content \in Contents
    BY <2>3 DEF Task
  <2>5. t \notin UnderWay BY <2>1 DEF UnderWay
  <2> HIDE DEF value
  <2>6. /\ task'[t] = value
        /\ \A u \in Tasks \ {t} : task'[u] = task[u] /\ (u \in UnderWay' <=> u \in UnderWay)
        /\ t \in UnderWay' /\ UnderWay' \subseteq Tasks
    BY <1>0, <2>1, <2>4, UnderWayMoved
  <2>7. task' \in [Tasks -> Task \cup {Nothing, Over}] BY <1>0, <2>1, <2>4 DEF HandlersPart
  <2>8. dialog' \in Tasks \cup {Nothing} BY <2>1, <2>2
  <2>9. ASSUME NEW u \in UnderWay'
        PROVE  /\ task'[u].step = "confirm" => dialog' = u /\ task'[u].op \in Asking
               /\ task'[u].op = "save" => task'[u].content \in Contents
    <3>1. CASE u = t BY <2>1, <2>4, <2>6, <3>1
    <3>2. CASE u # t
      <4>1. u \in UnderWay /\ u \in Tasks /\ task'[u] = task[u] BY <2>6, <3>2
      <4>2. u # Nothing BY <4>1, EditorAssumption
      <4>3. QED BY <1>0, <2>2, <4>1, <4>2 DEF HandlersPart
    <3>3. QED BY <3>1, <3>2
  <2>10. dialog' # Nothing => dialog' \in UnderWay' /\ task'[dialog'].step = "confirm"
    BY <2>1, <2>2, <2>4, <2>6
  <2>11. QED BY <2>7, <2>8, <2>9, <2>10 DEF HandlersPart
<1>2. ASSUME NEW yes \in BOOLEAN, Answer(yes) PROVE HandlersPart'
  <2>1. dialog \in UnderWay /\ task[dialog].step = "confirm" /\ dialog' = Nothing
    BY <1>0, <1>2 DEF Answer, HandlersPart
  <2>2. PICK value \in Task \cup {Over} :
          /\ task' = [task EXCEPT ![dialog] = value]
          /\ value # Over => /\ value.step # "confirm"
                             /\ value.op = "save" => value.content \in Contents
    <3>1. /\ task[dialog].op = "save" => task[dialog].content \in Contents
          /\ [task[dialog] EXCEPT !.step = "sent"] \in Task
          /\ [task[dialog] EXCEPT !.step = "sent"].step = "sent"
          /\ [task[dialog] EXCEPT !.step = "sent"].op = task[dialog].op
          /\ [task[dialog] EXCEPT !.step = "sent"].content = task[dialog].content
      BY <2>1, Sent
    <3>2. task' = [task EXCEPT ![dialog] =
                     IF yes THEN [task[dialog] EXCEPT !.step = "sent"] ELSE Over]
      BY <1>2 DEF Answer
    <3>3. CASE yes BY <3>1, <3>2, <3>3
    <3>4. CASE ~yes BY <3>2, <3>4
    <3>5. QED BY <3>3, <3>4
  <2>3. dialog \in Tasks BY <2>1, UnderWayTyped, <1>0
  <2>4. /\ task'[dialog] = value
        /\ \A u \in Tasks \ {dialog} : task'[u] = task[u] /\ (u \in UnderWay' <=> u \in UnderWay)
        /\ UnderWay' \subseteq Tasks /\ (value = Over => dialog \notin UnderWay')
    BY <1>0, <2>2, <2>3, UnderWayMoved
  <2>5. task' \in [Tasks -> Task \cup {Nothing, Over}] BY <1>0, <2>2 DEF HandlersPart
  <2>6. ASSUME NEW u \in UnderWay'
        PROVE  /\ task'[u].step # "confirm"
               /\ task'[u].op = "save" => task'[u].content \in Contents
    <3>1. CASE u = dialog BY <2>2, <2>4, <3>1
    <3>2. CASE u # dialog BY <1>0, <2>4, <3>2 DEF HandlersPart
    <3>3. QED BY <3>1, <3>2
  <2>7. QED BY <2>1, <2>5, <2>6 DEF HandlersPart
<1>3. ASSUME NEW t \in Tasks, Handle(t) \/ Refuse(t) \/ GiveUp(t) \/ Return(t) PROVE HandlersPart'
  <2>1. t \in UnderWay /\ task[t].step # "confirm" /\ dialog' = dialog
    BY <1>3 DEF Handle, Refuse, GiveUp, Return
  <2>2. \/ task' = [task EXCEPT ![t] = Over]
        \/ \E s \in {"handled", "failed"} : task' = [task EXCEPT ![t].step = s]
    BY <1>3 DEF Handle, Refuse, GiveUp, Return
  <2>3. QED BY <2>1, <2>2, HandlerMoved
<1>4. ASSUME NEW t \in Tasks, Elsewhere(t) PROVE HandlersPart'
  <2>1. t \notin UnderWay /\ task' = [task EXCEPT ![t] = Over] /\ dialog' = dialog
    BY <1>4 DEF Elsewhere, UnderWay
  <2>2. /\ \A u \in Tasks \ {t} : task'[u] = task[u] /\ (u \in UnderWay' <=> u \in UnderWay)
        /\ t \notin UnderWay' /\ UnderWay' \subseteq Tasks
    BY <1>0, <2>1, UnderWayMoved
  <2>3. task' \in [Tasks -> Task \cup {Nothing, Over}] BY <1>0, <2>1 DEF HandlersPart
  <2>4. QED BY <1>0, <2>1, <2>2, <2>3 DEF HandlersPart
<1>5. CASE UNCHANGED <<task, dialog>>
  BY <1>0, <1>5 DEF HandlersPart, UnderWay
<1>6. ASSUME NEW i \in DOMAIN loads, ReadProduct(i) \/ ReadStatus(i) \/ ApplyLoad(i) \/ FailLoad(i)
      PROVE  UNCHANGED <<task, dialog>>
  BY <1>6 DEF ReadProduct, ReadStatus, ApplyLoad, FailLoad
<1>7. ASSUME \/ Retry \/ CloseSuccess \/ PreviewArrives \/ PreviewFails
             \/ \E c \in Contents : Type(c)
             \/ \E n \in Tabs, consent \in BOOLEAN : GoToTab(n, consent)
             \/ \E consent \in BOOLEAN : Leave(consent)
             \/ \E q \in late : ServeLate(q)
             \/ UNCHANGED vars
      PROVE  UNCHANGED <<task, dialog>>
  BY <1>7 DEF Retry, CloseSuccess, PreviewArrives, PreviewFails, Type, GoToTab, Leave, ServeLate, vars
<1>8. QED BY <1>1, <1>2, <1>3, <1>4, <1>5, <1>6, <1>7 DEF Next

LEMMA InitTyped == Init => Typed /\ TasksOK /\ ScreenOK
<1> SUFFICES ASSUME Init PROVE Typed /\ TasksOK /\ ScreenOK OBVIOUS
<1>1. UnderWay = {} BY DEF Init, UnderWay
<1>2. IsFiniteSet(late) /\ Cardinality(late) = 0 BY FS_EmptySet DEF Init
<1>3. NewLoad \in Load /\ NoPreview \in Preview
  BY EditorAssumption DEF NewLoad, Load, NoPreview, Preview
<1>4. loads \in Seq(Load) /\ Len(loads) = 1 BY <1>3 DEF Init
<1>5. ServerPart
  <2>1. draft \in Draft /\ version \in 0..MaxVersions BY EditorAssumption DEF Init
  <2>2. (version = 1) \in BOOLEAN /\ live \in {FALSE, version = 1} /\ edited \in {FALSE, live}
    BY DEF Init
  <2>3. live \in BOOLEAN BY <2>2, Zenon
  <2>4. edited \in BOOLEAN BY <2>2, <2>3, Zenon
  <2>5. QED BY <2>1, <2>3, <2>4 DEF ServerPart
<1>6. PagePart BY <1>3 DEF Init, PagePart, Shown, Tabs
<1>7. LoadsPart BY <1>4, EditorAssumption DEF LoadsPart
<1>8. AwayPart BY DEF Init, AwayPart
<1>9. LatePart BY <1>2, EditorAssumption DEF Init, LatePart
<1>10. HandlersPart BY <1>1 DEF Init, HandlersPart
<1>11. NotesPart BY DEF Init, NotesPart
<1>12. QED BY <1>5, <1>6, <1>7, <1>8, <1>9, <1>10, <1>11, AllParts

LEMMA NextTyped ==
    ASSUME Typed, TasksOK, ScreenOK, [Next]_vars
    PROVE  (Typed /\ TasksOK /\ ScreenOK)'
<1>1. ServerPart' BY NextServer
<1>2. PagePart' /\ LoadsPart' /\ AwayPart' BY NextPage
<1>3. LatePart' /\ HandlersPart' /\ NotesPart' BY NextLate, NextHandlers, NextNotes
<1>4. Typed' BY <1>1, <1>2, <1>3
      DEF ServerPart, PagePart, LoadsPart, LatePart, HandlersPart, NotesPart, Typed, TypeOK
<1>5. TasksOK' BY <1>3 DEF LatePart, HandlersPart, TasksOK
<1>6. ScreenOK' BY <1>2 DEF PagePart, AwayPart, ScreenOK
<1>7. QED BY <1>4, <1>5, <1>6

(* What is typed, asked and shown.                                           *)
Sound == Typed /\ TasksOK /\ ScreenOK

LEMMA Soundness == Spec => []Sound
<1>1. Init => Sound BY InitTyped DEF Sound
<1>2. Sound /\ [Next]_vars => Sound' BY NextTyped DEF Sound
<1>3. QED BY <1>1, <1>2, PTL DEF Spec

(* Whoever waits for a confirmation is the one the dialog answers: no handler *)
(* of the page waits for ever behind a second question.                      *)
THEOREM NobodyWaitsForEver == Spec => []NobodyForgotten
<1>1. Sound => NobodyForgotten BY DEF Sound, Typed, TasksOK, NobodyForgotten
<1>2. QED BY <1>1, Soundness, PTL

(* No answer and no load that arrives while the user types resets the form,  *)
(* and no tab is switched unasked: what was typed goes only with the user's  *)
(* consent, when a load fails, or when the page is left by a link or Back,   *)
(* where the question comes too late.                                        *)
THEOREM TypingOutlastsReloads == Spec => []TypingSurvivesAnswers
<1>1. Sound => TypingSurvivesAnswers BY DEF Sound, ScreenOK, TypingSurvivesAnswers
<1>2. QED BY <1>1, Soundness, PTL

(* The published preview is the version its caption names, however loads and *)
(* publications overlap.                                                     *)
THEOREM PreviewMatchesCaption == Spec => []PreviewIsExact
<1>1. Sound => PreviewIsExact BY DEF Sound, ScreenOK, PreviewRight, PreviewIsExact
<1>2. QED BY <1>1, Soundness, PTL

-----------------------------------------------------------------------------
(* The last save.                                                            *)

(* Which saves are under way when the task t has changed.                    *)
LEMMA SavesMoved ==
    ASSUME TypeOK, NEW t \in Tasks, NEW value \in Task \cup {Over}, task' = [task EXCEPT ![t] = value]
    PROVE  /\ \A u \in Tasks \ {t} : task'[u] = task[u]
                                     /\ (u \in SavesUnderWay' <=> u \in SavesUnderWay)
           /\ task'[t] = value
           /\ t \in SavesUnderWay' <=> value \in Task /\ value.op = "save"
           /\ SavesUnderWay \subseteq Tasks /\ SavesUnderWay' \subseteq Tasks
<1>1. /\ task'[t] = value
      /\ \A u \in Tasks \ {t} : task'[u] = task[u] /\ (u \in UnderWay' <=> u \in UnderWay)
      /\ value \in Task => t \in UnderWay'
      /\ value = Over => t \notin UnderWay'
      /\ UnderWay' \subseteq Tasks
  BY UnderWayMoved
<1>2. UnderWay \subseteq Tasks /\ ~(value \in Task /\ value = Over) BY NoValueAssumption DEF UnderWay
<1>3. QED BY <1>1, <1>2 DEF SavesUnderWay

(* Steps that leave the saves and what the form edits as they are.           *)
LEMMA SaveStays ==
    ASSUME SaveOK, wanted' \in {wanted, Nothing}, wanted' # Nothing => draft'.form = draft.form,
           late' \subseteq late, tab = "left" => tab' = "left",
           \A t \in SavesUnderWay' : /\ t \in SavesUnderWay /\ task'[t] = task[t]
                                     /\ wanted' # Nothing /\ busy = t => busy' = t \/ tab' = "left",
           SavesUnderWay' = {} => SavesUnderWay = {}
    PROVE  SaveOK'
BY DEF SaveOK

LEMMA SavesSame ==
    ASSUME task' = task
    PROVE  SavesUnderWay' = SavesUnderWay
BY DEF SavesUnderWay, UnderWay

(* A handler that does not save goes on.                                     *)
LEMMA OtherMoved ==
    ASSUME Typed, NEW t \in Tasks, t \in UnderWay => task[t].op # "save",
           NEW value \in Task \cup {Over}, task' = [task EXCEPT ![t] = value],
           value \in Task => value.op # "save"
    PROVE  /\ SavesUnderWay' = SavesUnderWay
           /\ \A u \in SavesUnderWay : u # t /\ u \in Tasks /\ task'[u] = task[u]
<1>1. /\ \A u \in Tasks \ {t} : task'[u] = task[u]
                                /\ (u \in SavesUnderWay' <=> u \in SavesUnderWay)
      /\ t \notin SavesUnderWay' /\ SavesUnderWay \subseteq Tasks /\ SavesUnderWay' \subseteq Tasks
  BY SavesMoved DEF Typed
<1>2. t \notin SavesUnderWay BY DEF SavesUnderWay
<1>3. QED BY <1>1, <1>2

LEMMA NextSave ==
    ASSUME Typed, TasksOK, ScreenOK, SaveOK, [Next]_vars
    PROVE  SaveOK'
<1>0. TypeOK /\ PagePart /\ AwayPart /\ HandlersPart BY Parts, OtherParts DEF Typed
<1>1. ASSUME NEW i \in DOMAIN loads, ReadProduct(i) \/ ReadStatus(i) PROVE SaveOK'
  BY <1>1, SavesSame, SaveStays DEF ReadProduct, ReadStatus, server, screen
<1>2. ASSUME NEW i \in DOMAIN loads, ApplyLoad(i) PROVE SaveOK'
  <2>1. busy' = busy /\ tab' = tab BY <1>2, ApplyLoadRight
  <2>2. QED BY <1>2, <2>1, SavesSame, SaveStays DEF ApplyLoad, server
<1>3. ASSUME NEW i \in DOMAIN loads, FailLoad(i) PROVE SaveOK'
  <2>1. tab' = tab BY <1>3, FailLoadRight
  <2>2. wanted' = IF SavesUnderWay # {} THEN Nothing ELSE wanted BY <1>3 DEF FailLoad, ForgetSaving
  <2>3. draft' = draft /\ late' = late /\ task' = task BY <1>3 DEF FailLoad, server
  <2>4. QED BY <2>1, <2>2, <2>3, SavesSame, SaveStays
<1>4. CASE Retry
  <2>1. tab # "left" /\ ~Shown /\ StartLoad(busy) BY <1>0, <1>4 DEF Retry, AwayPart, Shown
  <2>2. busy' = busy /\ tab' = tab BY <2>1, StartLoadRight
  <2>3. draft' = draft /\ late' = late /\ task' = task /\ wanted' = wanted BY <1>4 DEF Retry, server
  <2>4. QED BY <2>2, <2>3, SavesSame, SaveStays
<1>5. ASSUME \/ \E c \in Contents : Type(c)
             \/ \E consent \in BOOLEAN : Leave(consent)
             \/ CloseSuccess \/ PreviewArrives \/ PreviewFails
      PROVE  SaveOK'
  <2>1. /\ draft' = draft /\ late' = late /\ task' = task /\ wanted' = wanted
        /\ (busy' = busy /\ tab' = tab) \/ tab' = "left"
    <3>1. CASE \E c \in Contents : Type(c)
      BY <3>1 DEF Type, server, screen
    <3>2. CASE \E consent \in BOOLEAN : Leave(consent)
      BY <3>2 DEF Leave, server, screen
    <3>3. CASE CloseSuccess \/ PreviewArrives \/ PreviewFails
      BY <3>3 DEF CloseSuccess, PreviewArrives, PreviewFails, server, screen
    <3> QED
      BY <1>5, <3>1, <3>2, <3>3
  <2>2. QED BY <2>1, SavesSame, SaveStays
<1>6. ASSUME NEW n \in Tabs, NEW consent \in BOOLEAN, GoToTab(n, consent) PROVE SaveOK'
  <2>1. tab # "left" BY <1>0, <1>6 DEF GoToTab, Free, Shown, AwayPart
  <2>2. /\ draft' = draft /\ late' = late /\ task' = task
        /\ wanted' = IF SavesUnderWay # {} THEN Nothing ELSE wanted
    BY <1>6 DEF GoToTab, ForgetSaving, server
  <2>3. QED BY <2>1, <2>2, SavesSame, SaveStays
<1>7. ASSUME NEW t \in Tasks, NEW op \in Ops, Begin(t, op) PROVE SaveOK'
  <2> DEFINE value == [op |-> op, step |-> IF op \in Asking THEN "confirm" ELSE "sent",
                       content |-> IF op = "save" THEN fields ELSE Nothing]
  <2>1. /\ t \notin UnderWay /\ Enabled(op) /\ task' = [task EXCEPT ![t] = value]
        /\ draft' = draft /\ late' = late /\ tab' = tab
        /\ tab # "left"
    BY <1>0, <1>7 DEF Begin, UnderWay, Enabled, Free, Shown, AwayPart, server
  <2>2. /\ value \in Task /\ value.op = op
        /\ op = "save" => value.step = "sent" /\ value.content = fields
    BY <1>0, <2>1 DEF Task, Enabled, Dirty, PagePart, Asking
  <2> HIDE DEF value
  <2>3. CASE op = "save"
    <3>1. busy = Nothing /\ busy' = t /\ fields # Nothing
      BY <1>7, <2>1, <2>3 DEF Begin, Enabled, Locking, Dirty
    <3>2. wanted' = IF wanted = Nothing /\ UnsureOfSave THEN Nothing ELSE fields
      BY <1>7, <2>3 DEF Begin
    <3>3. SUFFICES ASSUME wanted' # Nothing PROVE SaveOK' BY DEF SaveOK
    <3>4. wanted' = fields BY <3>2, <3>3
    <3>5. SavesUnderWay = {} /\ \A q \in late : q.op # "save"
      <4>1. CASE wanted = Nothing BY <3>2, <3>3, <4>1 DEF UnsureOfSave
      <4>2. CASE wanted # Nothing
        <5>1. \A u \in SavesUnderWay : busy = u /\ u # Nothing
          BY <2>1, <4>2, EditorAssumption DEF SaveOK, SavesUnderWay, UnderWay
        <5>2. QED BY <3>1, <4>2, <5>1 DEF SaveOK
      <4>3. QED BY <4>1, <4>2
    <3>6. \A u \in SavesUnderWay' : u = t /\ task'[u] = value
      BY <1>0, <2>1, <2>2, <3>5, SavesMoved
    <3>7. t \in SavesUnderWay' BY <1>0, <2>1, <2>2, <2>3, SavesMoved
    <3>8. QED BY <2>1, <2>2, <2>3, <3>1, <3>4, <3>5, <3>6, <3>7 DEF SaveOK
  <2>4. CASE op # "save"
    <3>1. /\ SavesUnderWay' = SavesUnderWay
          /\ \A u \in SavesUnderWay : u # t /\ u \in Tasks /\ task'[u] = task[u]
      BY <2>1, <2>2, <2>4, OtherMoved
    <3>2. wanted' = wanted /\ (busy' = busy \/ busy = Nothing)
      BY <1>7, <2>1, <2>4 DEF Begin, Enabled, Locking
    <3>3. \A u \in SavesUnderWay : busy = u => busy' = u
      BY <3>1, <3>2, EditorAssumption
    <3>4. QED BY <2>1, <3>1, <3>2, <3>3, SaveStays
  <2>5. QED BY <2>3, <2>4
<1>8. ASSUME NEW yes \in BOOLEAN, Answer(yes) PROVE SaveOK'
  <2>1. /\ dialog \in UnderWay /\ task[dialog].step = "confirm" /\ task[dialog].op \in Asking
        /\ dialog \in Tasks
    BY <1>0, <1>8, UnderWayTyped DEF Answer, HandlersPart
  <2>2. \E value \in Task \cup {Over} :
          /\ task' = [task EXCEPT ![dialog] = value]
          /\ value \in Task => value.op # "save"
    <3>1. /\ [task[dialog] EXCEPT !.step = "sent"] \in Task
          /\ [task[dialog] EXCEPT !.step = "sent"].op = task[dialog].op
      BY <2>1, Sent
    <3>2. task[dialog].op # "save" BY <2>1 DEF Asking
    <3>3. task' = [task EXCEPT ![dialog] =
                     IF yes THEN [task[dialog] EXCEPT !.step = "sent"] ELSE Over]
      BY <1>8 DEF Answer
    <3>4. CASE yes BY <3>1, <3>2, <3>3, <3>4
    <3>5. CASE ~yes BY <3>3, <3>5, NoValueAssumption
    <3>6. QED BY <3>4, <3>5
  <2>3. task[dialog].op # "save" BY <2>1 DEF Asking
  <2>4. /\ SavesUnderWay' = SavesUnderWay
        /\ \A u \in SavesUnderWay : task'[u] = task[u]
    BY <2>1, <2>2, <2>3, OtherMoved
  <2>5. /\ draft' = draft /\ late' = late /\ tab' = tab /\ busy' = busy /\ wanted' = wanted
    BY <1>8 DEF Answer, server, screen
  <2>6. QED BY <2>4, <2>5, SaveStays
<1>9. ASSUME NEW t \in UnderWay, task[t].op # "save", t \in Tasks,
             Handle(t) \/ Refuse(t) \/ GiveUp(t) \/ Return(t)
      PROVE  SaveOK'
  <2>1. \E value \in Task \cup {Over} :
          /\ task' = [task EXCEPT ![t] = value]
          /\ value \in Task => value.op # "save"
    <3>1. ASSUME NEW s \in {"handled", "failed"}
          PROVE  /\ [task[t] EXCEPT !.step = s] \in Task
                 /\ [task[t] EXCEPT !.step = s].op = task[t].op
      BY Sent
    <3>2. CASE Return(t)
      <4>1. task' = [task EXCEPT ![t] = Over] BY <3>2 DEF Return
      <4>2. QED BY <4>1, NoValueAssumption
    <3>3. CASE Handle(t)
      <4>1. task' = [task EXCEPT ![t] = [task[t] EXCEPT !.step = "handled"]] BY <3>3 DEF Handle
      <4>2. QED BY <1>9, <3>1, <4>1
    <3>4. CASE Refuse(t) \/ GiveUp(t)
      <4>1. task' = [task EXCEPT ![t] = [task[t] EXCEPT !.step = "failed"]]
        BY <3>4 DEF Refuse, GiveUp
      <4>2. QED BY <1>9, <3>1, <4>1
    <3>5. QED BY <1>9, <3>2, <3>3, <3>4
  <2>2. /\ SavesUnderWay' = SavesUnderWay
        /\ \A u \in SavesUnderWay : u # t /\ task'[u] = task[u]
    BY <1>9, <2>1, OtherMoved
  <2>3. CASE Handle(t)
    <3>1. draft'.form = draft.form BY <1>0, <1>9, <2>3, ServeRight DEF Handle
    <3>2. late' = late /\ tab' = tab /\ busy' = busy /\ wanted' = wanted
      BY <2>3 DEF Handle, screen
    <3>3. QED BY <2>2, <3>1, <3>2, SaveStays
  <2>4. CASE Refuse(t)
    <3>1. draft' = draft /\ late' = late /\ tab' = tab /\ busy' = busy /\ wanted' = wanted
      BY <1>9, <2>4 DEF Refuse, UnlessSave, server, screen
    <3>2. QED BY <2>2, <3>1, SaveStays
  <2>5. CASE GiveUp(t)
    <3>1. draft' = draft /\ tab' = tab /\ busy' = busy /\ wanted' = wanted
      BY <1>9, <2>5 DEF GiveUp, UnlessSave, server, screen
    <3>2. late' \in {late, late \cup {[op |-> task[t].op, content |-> task[t].content]}}
      BY <2>5 DEF GiveUp
    <3>3. QED BY <1>9, <2>2, <3>1, <3>2 DEF SaveOK
  <2>6. CASE Return(t)
    <3> DEFINE waiting == IF busy = t THEN Nothing ELSE busy
    <3>1. draft' = draft /\ late' = late /\ wanted' = wanted
      BY <2>6 DEF Return, server
    <3>2. tab' = tab /\ (busy' = waiting \/ busy = Nothing)
      <4>1. CASE tab # "left" /\ StartLoad(waiting)
        BY <4>1, StartLoadRight
      <4>2. CASE busy' = waiting /\ tab' = tab BY <4>2
      <4>3. QED BY <2>6, <4>1, <4>2 DEF Return
    <3>3. \A u \in SavesUnderWay : u # Nothing
      BY EditorAssumption DEF SavesUnderWay, UnderWay
    <3>4. \A u \in SavesUnderWay : busy = u => busy' = u BY <2>2, <3>2, <3>3
    <3>5. QED BY <2>2, <3>1, <3>2, <3>4, SaveStays
  <2>7. QED BY <1>9, <2>3, <2>4, <2>5, <2>6
<1>10. ASSUME NEW t \in UnderWay, task[t].op = "save", t \in Tasks, Handle(t) PROVE SaveOK'
  <2> DEFINE value == [task[t] EXCEPT !.step = "handled"]
  <2>1. /\ value \in Task /\ value.step = "handled" /\ value.op = "save"
        /\ value.content = task[t].content /\ task[t].content \in Contents
    BY <1>10, Sent
  <2>2. task' = [task EXCEPT ![t] = value] BY <1>10 DEF Handle
  <2> HIDE DEF value
  <2>3. /\ \A u \in Tasks \ {t} : task'[u] = task[u]
                                  /\ (u \in SavesUnderWay' <=> u \in SavesUnderWay)
        /\ task'[t] = value /\ t \in SavesUnderWay'
        /\ SavesUnderWay \subseteq Tasks /\ SavesUnderWay' \subseteq Tasks
    BY <1>0, <1>10, <2>1, <2>2, SavesMoved
  <2>4. draft'.form = task[t].content BY <1>0, <1>10, <2>1, ServeRight DEF Handle
  <2>5. late' = late /\ tab' = tab /\ busy' = busy /\ wanted' = wanted
    BY <1>10 DEF Handle, screen
  <2>6. t \in SavesUnderWay BY <1>10 DEF SavesUnderWay
  <2>7. SUFFICES ASSUME wanted # Nothing PROVE SaveOK' BY <2>5 DEF SaveOK
  <2>8. draft'.form = wanted BY <2>4, <2>6, <2>7 DEF SaveOK
  <2>9. ASSUME NEW u \in SavesUnderWay'
        PROVE  /\ task'[u].content = wanted' /\ task'[u].step \in {"sent", "handled"}
               /\ busy' = u \/ tab' = "left"
    <3>1. CASE u = t BY <2>1, <2>3, <2>5, <2>6, <2>7, <3>1 DEF SaveOK
    <3>2. CASE u # t BY <2>3, <2>5, <2>7, <3>2 DEF SaveOK
    <3>3. QED BY <3>1, <3>2
  <2>10. \A q \in late' : q.op # "save" BY <2>5, <2>7 DEF SaveOK
  <2>11. QED BY <2>5, <2>8, <2>9, <2>10 DEF SaveOK
<1>11. ASSUME NEW t \in UnderWay, task[t].op = "save", Refuse(t) \/ GiveUp(t) PROVE SaveOK'
  <2>1. wanted' = Nothing BY <1>11 DEF Refuse, GiveUp, UnlessSave
  <2>2. QED BY <2>1 DEF SaveOK
<1>12. ASSUME NEW t \in UnderWay, task[t].op = "save", t \in Tasks, Return(t) PROVE SaveOK'
  <2> DEFINE waiting == IF busy = t THEN Nothing ELSE busy
  <2>1. /\ draft' = draft /\ late' = late /\ wanted' = wanted
        /\ task' = [task EXCEPT ![t] = Over] /\ task[t].step \in {"handled", "failed"}
    BY <1>12 DEF Return, server
  <2>2. SUFFICES ASSUME wanted # Nothing PROVE SaveOK' BY <2>1 DEF SaveOK
  <2>3. t \in SavesUnderWay BY <1>12 DEF SavesUnderWay
  <2>4. draft.form = wanted BY <2>1, <2>2, <2>3 DEF SaveOK
  <2>5. /\ \A u \in Tasks \ {t} : task'[u] = task[u]
                                  /\ (u \in SavesUnderWay' <=> u \in SavesUnderWay)
        /\ t \notin SavesUnderWay'
        /\ SavesUnderWay \subseteq Tasks /\ SavesUnderWay' \subseteq Tasks
    <3>1. Over \in Task \cup {Over} /\ Over \notin Task BY NoValueAssumption
    <3>2. /\ \A u \in Tasks \ {t} : task'[u] = task[u]
                                    /\ (u \in SavesUnderWay' <=> u \in SavesUnderWay)
          /\ t \in SavesUnderWay' <=> Over \in Task /\ Over.op = "save"
          /\ SavesUnderWay \subseteq Tasks /\ SavesUnderWay' \subseteq Tasks
      BY <1>0, <1>12, <2>1, <3>1, SavesMoved
    <3>3. QED BY <3>1, <3>2
  <2>6. tab' = tab /\ (busy' = waiting \/ busy = Nothing)
    <3>1. CASE tab # "left" /\ StartLoad(waiting)
      BY <3>1, StartLoadRight
    <3>2. CASE busy' = waiting /\ tab' = tab BY <3>2
    <3>3. QED BY <1>12, <3>1, <3>2 DEF Return
  <2>7. ASSUME NEW u \in SavesUnderWay'
        PROVE  /\ task'[u].content = wanted' /\ task'[u].step \in {"sent", "handled"}
               /\ busy' = u \/ tab' = "left"
    <3>1. u # t /\ u \in SavesUnderWay /\ task'[u] = task[u] /\ u # Nothing
      BY <2>5, EditorAssumption
    <3>2. QED BY <2>1, <2>2, <2>6, <3>1 DEF SaveOK
  <2>8. QED BY <2>1, <2>2, <2>4, <2>7 DEF SaveOK
<1>13. ASSUME NEW t \in Tasks, Elsewhere(t) PROVE SaveOK'
  <2>1. /\ t \notin UnderWay /\ task' = [task EXCEPT ![t] = Over]
        /\ late' = late /\ tab' = tab /\ busy' = busy
        /\ wanted' = IF draft'.form = draft.form THEN wanted ELSE Nothing
    BY <1>13 DEF Elsewhere, UnderWay, screen
  <2>2. /\ SavesUnderWay' = SavesUnderWay
        /\ \A u \in SavesUnderWay : task'[u] = task[u]
    BY <2>1, OtherMoved, NoValueAssumption
  <2>3. QED BY <2>1, <2>2, SaveStays
<1>14. ASSUME NEW q \in late, ServeLate(q) PROVE SaveOK'
  <2>1. /\ late' \subseteq late /\ tab' = tab /\ busy' = busy /\ wanted' = wanted /\ task' = task
    BY <1>14 DEF ServeLate, screen
  <2>2. wanted # Nothing => draft'.form = draft.form
    <3>1. CASE Serve(q.op, q.content) /\ q.op # "save" BY <1>0, <3>1, ServeRight
    <3>2. CASE UNCHANGED server BY <3>2 DEF server
    <3>3. QED BY <1>14, <3>1, <3>2 DEF ServeLate, SaveOK
  <2>3. QED BY <2>1, <2>2, SavesSame, SaveStays
<1>15. CASE UNCHANGED vars
  BY <1>15, SavesSame, SaveStays DEF vars, server, screen
<1>16. ASSUME NEW t \in Tasks, Handle(t) \/ Refuse(t) \/ GiveUp(t) \/ Return(t) PROVE SaveOK'
  <2>1. t \in UnderWay BY <1>16 DEF Handle, Refuse, GiveUp, Return
  <2>2. QED BY <1>9, <1>10, <1>11, <1>12, <1>16, <2>1
<1>17. QED
  BY <1>1, <1>2, <1>3, <1>4, <1>5, <1>6, <1>7, <1>8, <1>13, <1>14, <1>15, <1>16 DEF Next

Saving == Sound /\ SaveOK

(* Save is disabled while a save is under way: what the draft says in the    *)
(* end is what was saved last, unless a save failed, a colleague wrote, or   *)
(* the form was unmounted meanwhile.                                         *)
THEOREM TheLastSaveStays == Spec => []LastSaveWins
<1>1. Init => Saving
  <2>1. Init => wanted = Nothing BY DEF Init
  <2>2. QED BY <2>1, InitTyped DEF Saving, Sound, SaveOK
<1>2. Saving /\ [Next]_vars => Saving'
  BY NextTyped, NextSave DEF Saving, Sound
<1>3. Saving => LastSaveWins
  <2>1. Saving => SaveOK BY DEF Saving
  <2>2. QED BY <2>1 DEF SaveOK, LastSaveWins
<1>4. QED BY <1>1, <1>2, <1>3, PTL DEF Spec

-----------------------------------------------------------------------------
(* What the screen shows.                                                    *)

(* What a step does to the loads under way.                                  *)
LEMMA NextLoads ==
    ASSUME Typed, ScreenOK, [Next]_vars
    PROVE  \/ loads' = loads
           \/ loads' = <<>>
           \/ loads' = Append(loads, NewLoad) /\ ~loadError' /\ stale' = FALSE
           \/ \E i \in DOMAIN loads :
                ReadProduct(i) \/ ReadStatus(i) \/ ApplyLoad(i) \/ FailLoad(i)
<1>0. AwayPart BY Parts
<1>1. CASE Retry
  <2>1. tab # "left" /\ StartLoad(busy) BY <1>0, <1>1 DEF Retry, AwayPart
  <2>2. QED BY <2>1, StartLoadRight
<1>2. ASSUME NEW consent \in BOOLEAN, Leave(consent) PROVE loads' = <<>> BY <1>2 DEF Leave
<1>3. ASSUME NEW t \in Tasks, Return(t)
      PROVE  \/ loads' = loads
             \/ loads' = Append(loads, NewLoad) /\ ~loadError' /\ stale' = FALSE
  <2>1. CASE tab # "left" /\ StartLoad(IF busy = t THEN Nothing ELSE busy)
    BY <2>1, StartLoadRight
  <2>2. QED BY <1>3, <2>1 DEF Return
<1>4. ASSUME NEW t \in Tasks,
             (\E op \in Ops : Begin(t, op)) \/ Handle(t) \/ Refuse(t) \/ GiveUp(t) \/ Elsewhere(t)
      PROVE  loads' = loads
  BY <1>4 DEF Begin, Handle, Refuse, GiveUp, Elsewhere
<1>5. ASSUME \/ CloseSuccess \/ PreviewArrives \/ PreviewFails
             \/ \E c \in Contents : Type(c)
             \/ \E n \in Tabs, consent \in BOOLEAN : GoToTab(n, consent)
             \/ \E yes \in BOOLEAN : Answer(yes)
             \/ \E q \in late : ServeLate(q)
             \/ UNCHANGED vars
      PROVE  loads' = loads
  BY <1>5 DEF CloseSuccess, PreviewArrives, PreviewFails, Type, GoToTab, Answer, ServeLate, vars
<1>6. QED BY <1>1, <1>2, <1>3, <1>4, <1>5 DEF Next

(* The loads after one of them has been read into, has been applied or has   *)
(* failed: the last one stays last, unless it is the one that ends.          *)
LEMMA LoadsRead ==
    ASSUME LoadsPart, NEW i \in DOMAIN loads, ReadProduct(i) \/ ReadStatus(i)
    PROVE  /\ DOMAIN loads' = DOMAIN loads /\ Len(loads') = Len(loads)
           /\ \A j \in DOMAIN loads : loads'[j].overtaken = loads[j].overtaken
           /\ \A j \in DOMAIN loads : /\ loads'[j].product \in {loads[j].product, draft}
                                      /\ loads'[j].status \in {loads[j].status, StatusNow}
<1>1. \A j \in DOMAIN loads : loads[j] \in Load BY DEF LoadsPart
<1>2. CASE ReadProduct(i)
  <2>1. loads' = [loads EXCEPT ![i].product = draft] BY <1>2 DEF ReadProduct
  <2>2. DOMAIN loads' = DOMAIN loads /\ Len(loads') = Len(loads) BY <2>1 DEF LoadsPart
  <2>3. QED BY <1>1, <2>1, <2>2 DEF Load
<1>3. CASE ReadStatus(i)
  <2>1. loads' = [loads EXCEPT ![i].status = StatusNow] BY <1>3 DEF ReadStatus
  <2>2. DOMAIN loads' = DOMAIN loads /\ Len(loads') = Len(loads) BY <2>1 DEF LoadsPart
  <2>3. QED BY <1>1, <2>1, <2>2 DEF Load
<1>4. QED BY <1>2, <1>3

LEMMA LoadsEnded ==
    ASSUME LoadsPart, NEW i \in DOMAIN loads,
           \/ loads' = Without(i)
           \/ loads' = [j \in 1..Len(loads) - 1 |-> IF j < i THEN loads[j] ELSE loads[j + 1]]
    PROVE  /\ Len(loads) \in Nat \ {0} /\ DOMAIN loads = 1..Len(loads)
           /\ DOMAIN loads' = 1..Len(loads) - 1 /\ Len(loads') = Len(loads) - 1
           /\ \A j \in DOMAIN loads' : j >= i => loads'[j] = loads[j + 1]
           /\ loads' = Without(i) => \A j \in DOMAIN loads' : j < i => loads'[j].overtaken
           /\ loads' # Without(i) => \A j \in DOMAIN loads' : j < i => loads'[j] = loads[j]
<1>1. Len(loads) \in Nat \ {0} /\ i \in 1..Len(loads) /\ DOMAIN loads = 1..Len(loads)
  BY DEF LoadsPart
<1>2. \A j \in 1..Len(loads) : loads[j] \in Load BY DEF LoadsPart
<1>3. DOMAIN loads' = 1..Len(loads) - 1 BY DEF Without
<1>4. Len(loads') = Len(loads) - 1 BY WithoutTyped
<1>5. \A j \in 1..Len(loads) - 1 : j \in 1..Len(loads) BY <1>1
<1>6. CASE loads' = Without(i)
  <2>1. \A j \in 1..Len(loads) - 1 :
          loads'[j] = IF j < i THEN [loads[j] EXCEPT !.overtaken = TRUE] ELSE loads[j + 1]
    BY <1>6 DEF Without
  <2>2. \A j \in 1..Len(loads) - 1 : j < i => loads'[j].overtaken = TRUE
    BY <1>2, <1>5, <2>1 DEF Load
  <2>3. \A j \in 1..Len(loads) - 1 : j >= i => loads'[j] = loads[j + 1]
    <3>1. \A j \in 1..Len(loads) - 1 : j >= i => ~(j < i) BY <1>1
    <3>2. QED BY <2>1, <3>1
  <2>4. QED BY <1>1, <1>3, <1>4, <1>6, <2>2, <2>3
<1>7. CASE loads' = [j \in 1..Len(loads) - 1 |-> IF j < i THEN loads[j] ELSE loads[j + 1]] /\ loads' # Without(i)
  <2>1. \A j \in 1..Len(loads) - 1 : loads'[j] = IF j < i THEN loads[j] ELSE loads[j + 1]
    BY <1>7
  <2>2. \A j \in 1..Len(loads) - 1 : j >= i => loads'[j] = loads[j + 1]
    <3>1. \A j \in 1..Len(loads) - 1 : j >= i => ~(j < i) BY <1>1
    <3>2. QED BY <2>1, <3>1
  <2>3. \A j \in 1..Len(loads) - 1 : j < i => loads'[j] = loads[j]
    BY <1>1, <2>1
  <2>4. QED BY <1>1, <1>3, <1>4, <1>7, <2>2, <2>3
<1>8. QED BY <1>6, <1>7

LEMMA NextOvertaking ==
    ASSUME Typed, ScreenOK, Overtaking, [Next]_vars
    PROVE  Overtaking'
<1>0. LoadsPart BY Parts
<1>1. CASE loads' = loads BY <1>1 DEF Overtaking
<1>2. CASE loads' = <<>> BY <1>2 DEF Overtaking
<1>3. CASE loads' = Append(loads, NewLoad)
  <2>1. /\ Len(loads) \in Nat /\ DOMAIN loads = 1..Len(loads)
        /\ DOMAIN loads' = 1..Len(loads) + 1
        /\ \A j \in 1..Len(loads) : loads'[j] = loads[j]
        /\ loads'[Len(loads) + 1] = NewLoad
    BY <1>0, <1>3 DEF LoadsPart
  <2>2. ~NewLoad.overtaken BY DEF NewLoad
  <2>3. QED BY <2>1, <2>2 DEF Overtaking
<1>4. ASSUME NEW i \in DOMAIN loads, ReadProduct(i) \/ ReadStatus(i) PROVE Overtaking'
  <2>1. /\ DOMAIN loads' = DOMAIN loads
        /\ \A j \in DOMAIN loads : loads'[j].overtaken = loads[j].overtaken
    BY <1>0, <1>4, LoadsRead
  <2>2. QED BY <2>1 DEF Overtaking
<1>5. ASSUME NEW i \in DOMAIN loads, ApplyLoad(i) \/ FailLoad(i) PROVE Overtaking'
  <2>1. \/ loads' = Without(i)
        \/ loads' = [j \in 1..Len(loads) - 1 |-> IF j < i THEN loads[j] ELSE loads[j + 1]]
    BY <1>5 DEF ApplyLoad, FailLoad
  <2>2. /\ Len(loads) \in Nat \ {0} /\ DOMAIN loads = 1..Len(loads)
        /\ DOMAIN loads' = 1..Len(loads) - 1
        /\ \A j \in DOMAIN loads' : j >= i => loads'[j] = loads[j + 1]
        /\ loads' = Without(i) => \A j \in DOMAIN loads' : j < i => loads'[j].overtaken
        /\ loads' # Without(i) => \A j \in DOMAIN loads' : j < i => loads'[j] = loads[j]
    BY <1>0, <2>1, LoadsEnded
  <2>3. SUFFICES ASSUME NEW j \in DOMAIN loads', NEW k \in DOMAIN loads', j < k, loads'[k].overtaken
                 PROVE  loads'[j].overtaken
    BY DEF Overtaking
  <2>4. CASE j >= i
    <3>1. loads'[j] = loads[j + 1] /\ loads'[k] = loads[k + 1] BY <2>2, <2>3, <2>4
    <3>2. j + 1 \in DOMAIN loads /\ k + 1 \in DOMAIN loads /\ j + 1 < k + 1 BY <2>2, <2>3
    <3>3. QED BY <2>3, <3>1, <3>2 DEF Overtaking
  <2>5. CASE j < i
    <3>1. CASE loads' = Without(i) BY <2>2, <2>5, <3>1
    <3>2. CASE loads' # Without(i)
      <4>1. loads'[j] = loads[j] /\ j \in DOMAIN loads BY <2>2, <2>5, <3>2
      <4>2. \E m \in DOMAIN loads : j < m /\ loads'[k] = loads[m]
        <5>1. CASE k < i BY <2>2, <2>3, <3>2, <5>1
        <5>2. CASE k >= i BY <2>2, <2>3, <5>2
        <5>3. QED BY <2>2, <5>1, <5>2
      <4>3. QED BY <2>3, <4>1, <4>2 DEF Overtaking
    <3>3. QED BY <3>1, <3>2
  <2>6. QED BY <2>2, <2>4, <2>5
<1>6. QED BY <1>1, <1>2, <1>3, <1>4, <1>5, NextLoads

(* A step away from the server and from what the page has loaded.            *)
LEMMA ScreenStays ==
    ASSUME ScreenRight, UNCHANGED <<server, product, status, loads, loadError>>,
           stale' = stale \/ stale' = TRUE, tab' # "left" => tab # "left",
           ~stale' /\ ToBeReloaded => ToBeReloaded'
    PROVE  ScreenRight'
<1>1. StatusNow' = StatusNow BY DEF StatusNow, Ready, server
<1>2. LoadingNow' <=> LoadingNow BY <1>1 DEF LoadingNow, server
<1>3. OnScreen' <=> OnScreen BY <1>1 DEF OnScreen, server
<1>4. QED BY <1>2, <1>3 DEF ScreenRight

LEMMA HandledStays ==
    ASSUME TypeOK, NEW t \in Tasks, ~(t \in UnderWay /\ task[t].step = "handled"),
           NEW value, task' = [task EXCEPT ![t] = value], ToBeReloaded
    PROVE  ToBeReloaded'
<1>1. PICK u \in UnderWay : task[u].step = "handled" BY DEF ToBeReloaded
<1>2. u \in Tasks /\ u # t BY <1>1 DEF UnderWay
<1>3. task'[u] = task[u] /\ u \in UnderWay' BY <1>1, <1>2, UnderWayMoved
<1>4. QED BY <1>1, <1>3 DEF ToBeReloaded

(* A load that has just begun.                                               *)
LEMMA Begun ==
    ASSUME LoadsPart, loads' = Append(loads, NewLoad)
    PROVE  LoadingNow'
<1>1. /\ Len(loads) \in Nat /\ Len(loads') = Len(loads) + 1
      /\ loads'[Len(loads')] = NewLoad /\ loads' # <<>>
  BY DEF LoadsPart
<1>2. QED BY <1>1 DEF LoadingNow, NewLoad

LEMMA NextScreenRight ==
    ASSUME Typed, TasksOK, ScreenOK, Overtaking, ScreenRight, [Next]_vars
    PROVE  ScreenRight'
<1>0. TypeOK /\ LoadsPart /\ AwayPart /\ HandlersPart BY Parts, OtherParts DEF Typed
<1> DEFINE Right == ScreenRight'
<1>1. ASSUME NEW i \in DOMAIN loads, ReadProduct(i) \/ ReadStatus(i) PROVE Right
  <2>1. /\ DOMAIN loads' = DOMAIN loads /\ Len(loads') = Len(loads)
        /\ \A j \in DOMAIN loads : /\ loads'[j].overtaken = loads[j].overtaken
                                   /\ loads'[j].product \in {loads[j].product, draft}
                                   /\ loads'[j].status \in {loads[j].status, StatusNow}
    BY <1>0, <1>1, LoadsRead
  <2>2. /\ UNCHANGED server /\ stale' = stale /\ loadError' = loadError /\ tab' = tab
        /\ product' = product /\ status' = status /\ task' = task
    BY <1>1 DEF ReadProduct, ReadStatus, screen
  <2>3. draft' = draft /\ StatusNow' = StatusNow BY <2>2 DEF server, StatusNow, Ready
  <2>4. /\ Len(loads) \in DOMAIN loads /\ loads # <<>> /\ loads' # <<>>
    <3>1. Len(loads) \in Nat \ {0} /\ DOMAIN loads = 1..Len(loads) BY <1>0 DEF LoadsPart
    <3>2. DOMAIN loads' # {} BY <2>1
    <3>3. QED BY <3>1, <3>2
  <2>5. ToBeReloaded' <=> ToBeReloaded BY <2>2 DEF ToBeReloaded, UnderWay
  <2>6. LoadingNow => LoadingNow' BY <2>1, <2>3, <2>4 DEF LoadingNow
  <2>7. OnScreen => OnScreen' BY <2>1, <2>2, <2>3, <2>4 DEF OnScreen
  <2>8. QED BY <2>2, <2>5, <2>6, <2>7 DEF ScreenRight
<1>2. ASSUME NEW i \in DOMAIN loads, ApplyLoad(i) PROVE Right
  <2>1. /\ product' = loads[i].product /\ status' = loads[i].status
        /\ loadError' = loadError /\ tab' = tab
    BY <1>2, ApplyLoadRight
  <2>2. /\ loads' = Without(i) /\ UNCHANGED <<server, task>>
        /\ loads[i].product # Nothing /\ loads[i].status # Nothing
        /\ stale' = (stale \/ loads[i].overtaken)
    BY <1>2 DEF ApplyLoad
  <2>3. draft' = draft /\ StatusNow' = StatusNow BY <2>2 DEF server, StatusNow, Ready
  <2>4. SUFFICES ASSUME ~stale', ~loadError', tab' # "left"
                 PROVE  ToBeReloaded' \/ LoadingNow' \/ OnScreen'
    BY DEF ScreenRight
  <2>5. ~stale /\ ~loads[i].overtaken /\ ~loadError /\ tab # "left" BY <2>1, <2>2, <2>4
  <2>6. /\ Len(loads) \in Nat \ {0} /\ DOMAIN loads = 1..Len(loads)
        /\ DOMAIN loads' = 1..Len(loads) - 1 /\ Len(loads') = Len(loads) - 1
        /\ \A j \in DOMAIN loads' : j >= i => loads'[j] = loads[j + 1]
        /\ \A j \in DOMAIN loads' : j < i => loads'[j].overtaken
    BY <1>0, <2>2, LoadsEnded
  <2>7. ToBeReloaded => ToBeReloaded' BY <2>2 DEF ToBeReloaded, UnderWay
  <2>8. CASE LoadingNow /\ i = Len(loads)
    <3>1. product' = draft' /\ status' = StatusNow' BY <2>1, <2>2, <2>3, <2>8 DEF LoadingNow
    <3>2. ASSUME loads' # <<>> PROVE loads'[Len(loads')].overtaken
      <4>1. Len(loads') \in DOMAIN loads'
        <5>1. Len(loads') # 0 BY <2>6, <3>2
        <5>2. QED BY <2>6, <5>1
      <4>2. Len(loads') < i BY <2>6, <2>8
      <4>3. QED BY <2>6, <4>1, <4>2
    <3>3. QED BY <3>1, <3>2 DEF OnScreen
  <2>9. CASE LoadingNow /\ i # Len(loads)
    <3>1. i < Len(loads) /\ Len(loads') \in DOMAIN loads' /\ Len(loads') >= i BY <2>6, <2>9
    <3>2. loads'[Len(loads')] = loads[Len(loads)] BY <2>6, <3>1
    <3>3. loads' # <<>> BY <2>6, <3>1
    <3>4. QED BY <2>3, <2>9, <3>2, <3>3 DEF LoadingNow
  <2>10. ~OnScreen
    <3>1. SUFFICES ASSUME loads[Len(loads)].overtaken PROVE FALSE
      BY <2>6 DEF OnScreen
    <3>2. i = Len(loads) \/ i < Len(loads) BY <2>6
    <3>3. Len(loads) \in DOMAIN loads BY <2>6
    <3>4. QED BY <2>5, <3>1, <3>2, <3>3 DEF Overtaking
  <2>11. QED BY <2>5, <2>7, <2>8, <2>9, <2>10 DEF ScreenRight
<1>3. ASSUME NEW i \in DOMAIN loads, FailLoad(i) PROVE Right
  BY <1>3, FailLoadRight DEF ScreenRight
<1>4. CASE Retry
  <2>1. tab # "left" /\ StartLoad(busy) BY <1>0, <1>4 DEF Retry, AwayPart
  <2>2. loads' = Append(loads, NewLoad) BY <2>1, StartLoadRight
  <2>3. QED BY <1>0, <2>2, Begun DEF ScreenRight
<1>5. ASSUME \/ \E c \in Contents : Type(c)
             \/ CloseSuccess \/ PreviewArrives \/ PreviewFails
      PROVE  Right
  <2>1. /\ UNCHANGED <<server, product, status, loads, loadError>>
        /\ stale' = stale /\ tab' = tab /\ task' = task
    BY <1>5 DEF Type, CloseSuccess, PreviewArrives, PreviewFails, screen
  <2>2. ToBeReloaded => ToBeReloaded' BY <2>1 DEF ToBeReloaded, UnderWay
  <2>3. QED BY <2>1, <2>2, ScreenStays
<1>6. ASSUME NEW n \in Tabs, NEW consent \in BOOLEAN, GoToTab(n, consent) PROVE Right
  <2>1. /\ UNCHANGED <<server, product, status, loads, loadError>>
        /\ stale' = stale /\ tab # "left" /\ task' = task
    BY <1>0, <1>6 DEF GoToTab, Free, Shown, AwayPart
  <2>2. ToBeReloaded => ToBeReloaded' BY <2>1 DEF ToBeReloaded, UnderWay
  <2>3. QED BY <2>1, <2>2, ScreenStays
<1>7. ASSUME NEW consent \in BOOLEAN, Leave(consent) PROVE Right
  BY <1>7 DEF Leave, ScreenRight
<1>8. ASSUME NEW t \in Tasks, NEW op \in Ops, Begin(t, op) PROVE Right
  <2>1. /\ UNCHANGED <<server, product, status, loads, loadError, stale, tab>>
        /\ t \notin UnderWay
    BY <1>8 DEF Begin, UnderWay
  <2>2. \E value : task' = [task EXCEPT ![t] = value] BY <1>8 DEF Begin
  <2>3. ToBeReloaded => ToBeReloaded' BY <1>0, <2>1, <2>2, HandledStays
  <2>4. QED BY <2>1, <2>3, ScreenStays
<1>9. ASSUME NEW yes \in BOOLEAN, Answer(yes) PROVE Right
  <2>1. UNCHANGED <<server, product, status, loads, loadError, stale, tab>>
    BY <1>9 DEF Answer, screen
  <2>2. dialog \in Tasks /\ task[dialog].step # "handled"
    BY <1>0, <1>9, UnderWayTyped DEF Answer, HandlersPart
  <2>3. \E value : task' = [task EXCEPT ![dialog] = value]
    <3>1. task' = [task EXCEPT ![dialog] =
                     IF yes THEN [task[dialog] EXCEPT !.step = "sent"] ELSE Over]
      BY <1>9 DEF Answer
    <3>2. QED BY <3>1
  <2>4. ToBeReloaded => ToBeReloaded' BY <1>0, <2>2, <2>3, HandledStays
  <2>5. QED BY <2>1, <2>4, ScreenStays
<1>10. ASSUME NEW t \in Tasks, Handle(t) PROVE Right
  <2>1. task' = [task EXCEPT ![t].step = "handled"] /\ t \in UnderWay BY <1>10 DEF Handle
  <2>2. [task[t] EXCEPT !.step = "handled"] \in Task /\ [task[t] EXCEPT !.step = "handled"].step = "handled"
    BY <2>1, Sent
  <2>3. t \in UnderWay' /\ task'[t].step = "handled"
    BY <1>0, <2>1, <2>2, UnderWayMoved
  <2>4. QED BY <2>3 DEF ScreenRight, ToBeReloaded
<1>11. ASSUME NEW t \in Tasks, Refuse(t) \/ GiveUp(t) PROVE Right
  <2>1. UNCHANGED <<server, product, status, loads, loadError, tab>>
    BY <1>11 DEF Refuse, GiveUp, screen
  <2>2. \E value : task' = [task EXCEPT ![t] = value]
    <3>1. task' = [task EXCEPT ![t] = [task[t] EXCEPT !.step = "failed"]]
      BY <1>11 DEF Refuse, GiveUp
    <3>2. QED BY <3>1
  <2>3. (stale' = stale /\ task[t].step # "handled") \/ stale' = TRUE
    BY <1>11 DEF Refuse, GiveUp
  <2>4. ~stale' /\ ToBeReloaded => ToBeReloaded' BY <1>0, <2>2, <2>3, HandledStays
  <2>5. QED BY <2>1, <2>3, <2>4, ScreenStays
<1>12. ASSUME NEW t \in Tasks, Return(t) PROVE Right
  <2>1. CASE tab # "left" /\ StartLoad(IF busy = t THEN Nothing ELSE busy)
    <3>1. loads' = Append(loads, NewLoad) BY <2>1, StartLoadRight
    <3>2. QED BY <1>0, <3>1, Begun DEF ScreenRight
  <2>2. CASE UNCHANGED <<product, status, loadError, tab, loads, stale>> /\ ~Reloads(t)
    <3>1. UNCHANGED server /\ task' = [task EXCEPT ![t] = Over] BY <1>12 DEF Return
    <3>2. task[t].step # "handled" BY <2>2 DEF Reloads
    <3>3. ToBeReloaded => ToBeReloaded' BY <1>0, <3>1, <3>2, HandledStays
    <3>4. QED BY <2>2, <3>1, <3>3, ScreenStays
  <2>3. CASE tab = "left" /\ tab' = tab BY <2>3 DEF ScreenRight
  <2>4. QED BY <1>12, <2>1, <2>2, <2>3 DEF Return
<1>13. ASSUME \/ \E t \in Tasks : Elsewhere(t)
              \/ \E q \in late : ServeLate(q)
       PROVE  Right
  BY <1>13 DEF Elsewhere, ServeLate, ScreenRight
<1>14. CASE UNCHANGED vars
  <2>1. /\ UNCHANGED <<server, product, status, loads, loadError>>
        /\ stale' = stale /\ tab' = tab /\ task' = task
    BY <1>14 DEF vars, screen
  <2>2. ToBeReloaded => ToBeReloaded' BY <2>1 DEF ToBeReloaded, UnderWay
  <2>3. QED BY <2>1, <2>2, ScreenStays
<1>15. QED
  BY <1>1, <1>2, <1>3, <1>4, <1>5, <1>6, <1>7, <1>8, <1>9, <1>10, <1>11, <1>12, <1>13, <1>14 DEF Next

Showing == Sound /\ Overtaking /\ ScreenRight

(* A page at rest shows the draft and the status as they are, unless since   *)
(* the last load began somebody else wrote, the client had given up on a     *)
(* request or on its answer, or an overtaken load was applied last.          *)
THEOREM RestingScreenIsCurrent == Spec => []StaleScreenHasExcuse
<1>1. Init => Showing
  <2>1. SUFFICES ASSUME Init PROVE Overtaking /\ LoadingNow
    BY InitTyped DEF Showing, Sound, ScreenRight
  <2>2. loads = <<NewLoad>> /\ Len(loads) = 1 /\ loads[1] = NewLoad
    <3>1. loads = <<NewLoad>> BY <2>1 DEF Init
    <3>2. QED BY <3>1
  <2>3. DOMAIN loads = 1..1 BY <2>2
  <2>4. Overtaking BY <2>2, <2>3 DEF Overtaking, NewLoad
  <2>5. LoadingNow BY <2>2 DEF LoadingNow, NewLoad
  <2>6. QED BY <2>4, <2>5
<1>2. Showing /\ [Next]_vars => Showing'
  BY NextTyped, NextOvertaking, NextScreenRight DEF Showing, Sound
<1>3. Showing => StaleScreenHasExcuse
  <2>1. SUFFICES ASSUME Showing, Shown, Quiet, ~stale PROVE product = draft /\ status = StatusNow
    BY DEF StaleScreenHasExcuse
  <2>2. ~loadError /\ tab # "left" BY <2>1 DEF Showing, Sound, ScreenOK, Shown
  <2>3. ~ToBeReloaded /\ ~LoadingNow BY <2>1 DEF Quiet, ToBeReloaded, LoadingNow
  <2>4. QED BY <2>1, <2>2, <2>3 DEF Showing, ScreenRight, OnScreen
<1>4. QED BY <1>1, <1>2, <1>3, PTL DEF Spec
=============================================================================
