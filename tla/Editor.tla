------------------------------- MODULE Editor -------------------------------
(***************************************************************************)
(* The product editor of the dashboard: one open page, its tabs, the       *)
(* handlers that await answers of the API, the loads that refresh the      *)
(* page, and the guard against losing what was typed.                      *)
(*                                                                         *)
(* A handler is a task: it may ask for confirmation, sends a request, and  *)
(* goes on when the answer arrives or the client gives up after its        *)
(* timeout, while the request may still be served. A load is two requests  *)
(* served apart. What the server keeps is reduced to the draft and the     *)
(* publication; Publication says how the server comes to it.               *)
(***************************************************************************)
EXTENDS Naturals, Sequences, FiniteSets

CONSTANTS
    Tasks,        \* handlers of the page and changes by colleagues: bounds how many there are
    Ops,          \* what they may be
    Contents,     \* what a part of the draft may say
    Incomplete,   \* the contents with which publishing is blocked
    Nothing,      \* no value: not loaded, not mounted, no task
    Over,         \* a task that has ended
    MaxVersions,  \* bound: publications
    MaxLoads,     \* bound: loads under way
    MaxLate       \* bound: requests served after the client gave up

AllOps  == {"save", "attach", "images", "cover", "remove", "publish"}
Asking  == {"remove", "publish"}        \* confirm() first
Locking == {"save", "attach", "images"} \* disable their button meanwhile
Tabs    == {"form", "files", "preview"}

ASSUME EditorAssumption ==
    /\ Ops \subseteq AllOps
    /\ Incomplete \subseteq Contents
    /\ Nothing \notin Tasks \cup Contents
    /\ Over # Nothing
    /\ MaxVersions \in Nat /\ MaxLoads \in Nat \ {0} /\ MaxLate \in Nat

VARIABLES
    draft,      \* server: form, what the form tabs edit, and files, the lists
    version,    \* server: the number of publications
    live,       \* server: is the passport public?
    edited,     \* server: has the draft been written since it was published?
    product,    \* the draft on the screen
    status,     \* the publish status on the screen
    loadError,
    tab,        \* the tab on the screen, or "left" once the page is left
    fields,     \* what the mounted form says
    busy,       \* the task for which the mounted tab disables its button
    loads,      \* the loads under way, oldest first
    task,       \* task[t]: how far the handler t is
    dialog,     \* the task that waits for the confirmation dialog on the screen
    success,    \* is the "Passport published" dialog open?
    preview,    \* the snapshot the preview tab shows and the one it fetches
    late,       \* requests the client no longer waits for
    wanted,     \* ghost: what the user saved last, if the draft must say so
    stale,      \* ghost: may the screen be behind for a reason given below?
    lost        \* ghost: what took edits away that nobody agreed to lose

server  == <<draft, version, live, edited>>
screen  == <<product, status, loadError, tab, fields, busy, preview, lost>>
vars    == <<server, screen, loads, task, dialog, success, late, wanted, stale>>

Draft   == [form: Contents, files: Contents]
Status  == [live: BOOLEAN, changes: BOOLEAN, ready: BOOLEAN, version: 0..MaxVersions]
Load    == [product: Draft \cup {Nothing}, status: Status \cup {Nothing}, overtaken: BOOLEAN]
Task    == [op: Ops, step: {"confirm", "sent", "handled", "failed"}, content: Contents \cup {Nothing}]
Preview == [fetch: 0..MaxVersions, shown: 0..MaxVersions, error: BOOLEAN]
Request == [op: Ops, content: Contents \cup {Nothing}]

(* The two values that stand for no value are not values.                    *)
ASSUME NoValueAssumption ==
    /\ Nothing \notin Draft \cup Status \cup Task
    /\ Over \notin Task

NewLoad   == [product |-> Nothing, status |-> Nothing, overtaken |-> FALSE]
NoPreview == [fetch |-> 0, shown |-> 0, error |-> FALSE]

-----------------------------------------------------------------------------
(* The server's answers.                                                     *)
Ready(d) == d.form \notin Incomplete /\ d.files \notin Incomplete

StatusNow == [live |-> live, changes |-> live /\ edited, ready |-> Ready(draft), version |-> version]

(* Broken, for mutation: a dialog leaves the page in reach.                  *)
ModalNever == FALSE

(* What the page shows. The editor is mounted once both answers are there,   *)
(* unless the last load to fail failed after the last load began.            *)
Shown      == product # Nothing /\ status # Nothing /\ ~loadError
UnderWay   == {t \in Tasks : task[t] \notin {Nothing, Over}}
Dirty      == fields # Nothing /\ fields # product.form
Publishing == \E t \in UnderWay : task[t].op = "publish" /\ task[t].step # "confirm"
Modal      == dialog # Nothing \/ (success /\ Shown)
Free       == Shown /\ ~Modal

(* The published version a preview is about, 0 if the passport is not        *)
(* public.                                                                   *)
Watched(st) == IF st.live THEN st.version ELSE 0

(* The effect of the preview tab: an answer on its way counts no more, the   *)
(* old snapshot stays until the new one arrives.                             *)
Fetching(p, v) == IF v = 0 THEN [p EXCEPT !.fetch = 0, !.shown = 0]
                           ELSE [p EXCEPT !.fetch = v, !.error = FALSE]

(* Broken, for mutation: a new version is no reason to fetch again.          *)
RefreshedOnSwitch(p, was, now) ==
    IF (Watched(now) = 0) = (Watched(was) = 0) THEN p ELSE Fetching(p, Watched(now))

(* The effect runs again when the version it is about has changed.           *)
Refreshed(p, was, now) ==
    IF Watched(now) = Watched(was) THEN p ELSE Fetching(p, Watched(now))

(* What is on the tab n of a page that shows p and st anew.                  *)
Mount(n, p, st) ==
    /\ fields'  = IF n = "form" THEN p.form ELSE Nothing
    /\ preview' = IF n = "preview" THEN Fetching(NoPreview, Watched(st)) ELSE NoPreview
    /\ busy'    = Nothing

(* Saves whose outcome is open: of handlers, and of requests given up.       *)
SavesUnderWay == {t \in UnderWay : task[t].op = "save"}
UnsureOfSave  == SavesUnderWay # {} \/ \E q \in late : q.op = "save"

(* A form that is unmounted forgets that its save is under way; mounted      *)
(* again it enables Save.                                                    *)
ForgetSaving == wanted' = IF SavesUnderWay # {} THEN Nothing ELSE wanted

(* The ghost that notes edits nobody agreed to lose: they are neither saved  *)
(* nor being saved when they disappear.                                      *)
Unsaved == /\ Dirty
           /\ fields # draft.form
           /\ \A t \in SavesUnderWay : task[t].content # fields

Lose(reason) == lost' = IF Unsaved /\ fields' # fields THEN reason ELSE lost

(* Broken, for mutation: every answer resets the form.                       *)
RenderAfresh(p, st, error, waiting, reason) ==
    /\ product' = p /\ status' = st /\ loadError' = error
    /\ IF p = Nothing \/ st = Nothing \/ error
       THEN fields' = Nothing /\ preview' = NoPreview /\ busy' = Nothing
       ELSE Mount(tab, p, st)
    /\ Lose(reason)
    /\ UNCHANGED tab

(* A step of the page that is not the user's: a tab that stays mounted keeps *)
(* what was typed; a page that shows an error instead has no tabs.           *)
Render(p, st, error, waiting, reason) ==
    /\ product' = p /\ status' = st /\ loadError' = error
    /\ IF p = Nothing \/ st = Nothing \/ error
       THEN fields' = Nothing /\ preview' = NoPreview /\ busy' = Nothing
       ELSE IF Shown
       THEN /\ fields'  = fields
            /\ preview' = IF tab = "preview" THEN Refreshed(preview, status, st) ELSE preview
            /\ busy'    = waiting
       ELSE Mount(tab, p, st)
    /\ Lose(reason)
    /\ UNCHANGED tab

-----------------------------------------------------------------------------
Init ==
    /\ draft \in Draft
    /\ version \in {0, 1} /\ version <= MaxVersions
    /\ live \in {FALSE, version = 1}
    /\ edited \in {FALSE, live}
    /\ product = Nothing /\ status = Nothing /\ loadError = FALSE
    /\ tab \in {"form", "preview"}
    /\ fields = Nothing /\ busy = Nothing /\ preview = NoPreview
    /\ loads = <<NewLoad>>
    /\ task = [t \in Tasks |-> Nothing]
    /\ dialog = Nothing /\ success = FALSE
    /\ late = {}
    /\ wanted = Nothing /\ stale = FALSE /\ lost = "no"

-----------------------------------------------------------------------------
(* Loads.                                                                    *)
StartLoad(waiting) ==
    /\ Len(loads) < MaxLoads
    /\ loads' = Append(loads, NewLoad)
    /\ Render(product, status, FALSE, waiting, "reload")
    /\ stale' = FALSE

ReadProduct(i) ==
    /\ loads[i].product = Nothing
    /\ loads' = [loads EXCEPT ![i].product = draft]
    /\ UNCHANGED <<server, screen, task, dialog, success, late, wanted, stale>>

ReadStatus(i) ==
    /\ loads[i].status = Nothing
    /\ loads' = [loads EXCEPT ![i].status = StatusNow]
    /\ UNCHANGED <<server, screen, task, dialog, success, late, wanted, stale>>

(* The loads without load i; those that began earlier are overtaken.         *)
Without(i) ==
    [j \in 1..Len(loads) - 1 |-> IF j < i THEN [loads[j] EXCEPT !.overtaken = TRUE] ELSE loads[j + 1]]

ApplyLoad(i) ==
    /\ loads[i].product # Nothing /\ loads[i].status # Nothing
    /\ Render(loads[i].product, loads[i].status, loadError, busy, "reload")
    /\ loads' = Without(i)
    /\ stale' = (stale \/ loads[i].overtaken)
    /\ UNCHANGED <<server, task, dialog, success, late, wanted>>

(* One of the two requests is refused or times out.                          *)
FailLoad(i) ==
    /\ Render(product, status, TRUE, busy, "failed load")
    /\ loads' = [j \in 1..Len(loads) - 1 |-> IF j < i THEN loads[j] ELSE loads[j + 1]]
    /\ ForgetSaving
    /\ UNCHANGED <<server, task, dialog, success, late, stale>>

Retry ==
    /\ loadError
    /\ dialog = Nothing
    /\ StartLoad(busy)
    /\ UNCHANGED <<server, task, dialog, success, late, wanted>>

-----------------------------------------------------------------------------
(* The user.                                                                 *)
Type(c) ==
    /\ Free
    /\ fields # Nothing
    /\ fields' = c
    /\ UNCHANGED <<server, product, status, loadError, tab, busy, preview, lost, loads, task,
                   dialog, success, late, wanted, stale>>

(* window.confirm when something is dirty.                                   *)
GuardDiscard(consent) == Dirty => consent

GoToTab(n, consent) ==
    /\ Free
    /\ n # tab
    /\ GuardDiscard(consent)
    /\ tab' = n
    /\ Mount(n, product, status)
    /\ Lose(IF consent THEN lost ELSE "tab switch")
    /\ ForgetSaving
    /\ UNCHANGED <<server, product, status, loadError, loads, task, dialog, success, late,
                   stale>>

(* A link or Back, a dialog on the screen or not. The router calls the       *)
(* wrapped pushState only once the next page has replaced this one: whatever *)
(* the user answers, the form is gone. A reload of the document is the case  *)
(* with consent: refused, it does not happen.                                *)
Leave(consent) ==
    /\ tab # "left"
    /\ tab' = "left"
    /\ product' = Nothing /\ status' = Nothing /\ loadError' = FALSE
    /\ fields' = Nothing /\ preview' = NoPreview /\ busy' = Nothing
    /\ loads' = <<>>
    /\ Lose(IF consent THEN lost ELSE "leave")
    /\ UNCHANGED <<server, task, dialog, success, late, wanted, stale>>

CloseSuccess ==
    /\ Shown /\ success /\ success' = FALSE
    /\ UNCHANGED <<server, screen, loads, task, dialog, late, wanted, stale>>

-----------------------------------------------------------------------------
(* Broken, for mutation: Save stays enabled while a save is under way.       *)
EnabledMeanwhile(op) ==
    /\ Free
    /\ CASE op = "save"    -> Dirty
         [] op \in {"attach", "images"} -> tab = "files" /\ busy = Nothing
         [] op \in {"cover", "remove"} -> tab = "files"
         [] op = "publish" -> /\ ~status.live \/ status.changes
                              /\ ~Publishing /\ status.ready

(* Handlers. They begin on the button of their tab or of the header.         *)
Enabled(op) ==
    /\ Free
    /\ CASE op = "save"    -> Dirty /\ busy = Nothing
         [] op \in {"attach", "images"} -> tab = "files" /\ busy = Nothing
         [] op \in {"cover", "remove"} -> tab = "files"
         [] op = "publish" -> /\ ~status.live \/ status.changes
                              /\ ~Publishing /\ status.ready

Begin(t, op) ==
    /\ task[t] = Nothing
    /\ Enabled(op)
    /\ task' = [task EXCEPT ![t] =
                  [op |-> op, step |-> IF op \in Asking THEN "confirm" ELSE "sent",
                   content |-> IF op = "save" THEN fields ELSE Nothing]]
    /\ dialog' = IF op \in Asking THEN t ELSE dialog
    /\ busy'   = IF op \in Locking THEN t ELSE busy
    /\ wanted' = IF op # "save" THEN wanted
                 ELSE IF wanted = Nothing /\ UnsureOfSave THEN Nothing ELSE fields
    /\ UNCHANGED <<server, product, status, loadError, tab, fields, preview, lost, loads, success,
                   late, stale>>

(* The dialog answers the handler whose promise it keeps.                    *)
Answer(yes) ==
    /\ dialog # Nothing
    /\ task' = [task EXCEPT ![dialog] = IF yes THEN [@ EXCEPT !.step = "sent"] ELSE Over]
    /\ dialog' = Nothing
    /\ UNCHANGED <<server, screen, loads, success, late, wanted, stale>>

(* What a request does at the server.                                        *)
Serve(op, content) ==
    \/ /\ op = "save"
       /\ draft' = [draft EXCEPT !.form = content]
       /\ edited' = TRUE
       /\ UNCHANGED <<version, live>>
    \/ /\ op \in {"attach", "images", "cover", "remove"}
       /\ \E c \in Contents : draft' = [draft EXCEPT !.files = c]
       /\ edited' = TRUE
       /\ UNCHANGED <<version, live>>
    \/ /\ op = "publish"
       /\ Ready(draft) /\ version < MaxVersions
       /\ version' = version + 1 /\ live' = TRUE /\ edited' = FALSE
       /\ UNCHANGED draft

Handle(t) ==
    /\ t \in UnderWay /\ task[t].step = "sent"
    /\ Serve(task[t].op, task[t].content)
    /\ task' = [task EXCEPT ![t].step = "handled"]
    /\ UNCHANGED <<screen, loads, dialog, success, late, wanted, stale>>

UnlessSave(t) == IF task[t].op = "save" THEN Nothing ELSE wanted

(* The server refuses, or the request does not reach it.                     *)
Refuse(t) ==
    /\ t \in UnderWay /\ task[t].step = "sent"
    /\ task' = [task EXCEPT ![t].step = "failed"]
    /\ wanted' = UnlessSave(t)
    /\ UNCHANGED <<server, screen, loads, dialog, success, late, stale>>

(* The client gives up before the request is served, or before its answer    *)
(* arrives.                                                                  *)
GiveUp(t) ==
    /\ t \in UnderWay
    /\ \/ /\ task[t].step = "sent"
          /\ Cardinality(late) < MaxLate
          /\ late' = late \cup {[op |-> task[t].op, content |-> task[t].content]}
          /\ UNCHANGED stale
       \/ /\ task[t].step = "handled"
          /\ stale' = TRUE
          /\ UNCHANGED late
    /\ task' = [task EXCEPT ![t].step = "failed"]
    /\ wanted' = UnlessSave(t)
    /\ UNCHANGED <<server, screen, loads, dialog, success>>

ServeLate(q) ==
    /\ \/ Serve(q.op, q.content)
       \/ UNCHANGED server
    /\ late' = late \ {q}
    /\ stale' = TRUE
    /\ UNCHANGED <<screen, loads, task, dialog, success, wanted>>

(* Broken, for mutation: a publication does not reload the page.             *)
ReloadsAfterWrites(t) ==
    (task[t].step = "handled" /\ task[t].op # "publish") \/ task[t].op = "images"

(* The handler goes on. A save that succeeds reloads the page, and so does   *)
(* an upload of images that fails. Publish does not wait for the load.       *)
Reloads(t) == task[t].step = "handled" \/ task[t].op = "images"

Return(t) ==
    /\ t \in UnderWay /\ task[t].step \in {"handled", "failed"}
    /\ task' = [task EXCEPT ![t] = Over]
    /\ success' = (success \/ (tab # "left" /\ task[t].op = "publish" /\ task[t].step = "handled"))
    /\ LET waiting == IF busy = t THEN Nothing ELSE busy IN
       IF Reloads(t) /\ tab # "left"
       THEN StartLoad(waiting)
       ELSE /\ busy' = waiting
            /\ UNCHANGED <<product, status, loadError, tab, fields, preview, lost, loads, stale>>
    /\ UNCHANGED <<server, dialog, late, wanted>>

-----------------------------------------------------------------------------
(* The preview tab's answer.                                                 *)
PreviewArrives ==
    /\ preview.fetch # 0
    /\ preview' = [preview EXCEPT !.shown = preview.fetch, !.fetch = 0]
    /\ UNCHANGED <<server, product, status, loadError, tab, fields, busy, lost, loads, task,
                   dialog, success, late, wanted, stale>>

PreviewFails ==
    /\ preview.fetch # 0
    /\ preview' = [preview EXCEPT !.error = TRUE, !.fetch = 0]
    /\ UNCHANGED <<server, product, status, loadError, tab, fields, busy, lost, loads, task,
                   dialog, success, late, wanted, stale>>

(* A colleague saves, publishes or unpublishes the same product.             *)
Elsewhere(t) ==
    /\ task[t] = Nothing
    /\ task' = [task EXCEPT ![t] = Over]
    /\ \/ \E c \in Contents : Serve("save", c)
       \/ Serve("publish", Nothing)
       \/ live /\ live' = FALSE /\ UNCHANGED <<draft, version, edited>>
    /\ wanted' = IF draft'.form = draft.form THEN wanted ELSE Nothing
    /\ stale' = TRUE
    /\ UNCHANGED <<screen, loads, dialog, success, late>>

-----------------------------------------------------------------------------
Next ==
    \/ \E i \in DOMAIN loads : ReadProduct(i) \/ ReadStatus(i) \/ ApplyLoad(i) \/ FailLoad(i)
    \/ Retry
    \/ \E c \in Contents : Type(c)
    \/ \E n \in Tabs, consent \in BOOLEAN : GoToTab(n, consent)
    \/ \E consent \in BOOLEAN : Leave(consent)
    \/ CloseSuccess
    \/ \E t \in Tasks :
         \/ \E op \in Ops : Begin(t, op)
         \/ Handle(t) \/ Refuse(t) \/ GiveUp(t) \/ Return(t)
         \/ Elsewhere(t)
    \/ \E yes \in BOOLEAN : Answer(yes)
    \/ \E q \in late : ServeLate(q)
    \/ PreviewArrives \/ PreviewFails

Spec == Init /\ [][Next]_vars

-----------------------------------------------------------------------------
(* Types.                                                                    *)
TypeOK ==
    /\ draft \in Draft /\ version \in 0..MaxVersions
    /\ live \in BOOLEAN /\ edited \in BOOLEAN
    /\ product \in Draft \cup {Nothing} /\ status \in Status \cup {Nothing}
    /\ loadError \in BOOLEAN /\ tab \in Tabs \cup {"left"}
    /\ fields \in Contents \cup {Nothing} /\ busy \in Tasks \cup {Nothing}
    /\ preview \in Preview
    /\ loads \in Seq(Load) /\ Len(loads) <= MaxLoads
    /\ task \in [Tasks -> Task \cup {Nothing, Over}]
    /\ dialog \in Tasks \cup {Nothing} /\ success \in BOOLEAN
    /\ late \subseteq Request /\ Cardinality(late) <= MaxLate
    /\ wanted \in Contents \cup {Nothing} /\ stale \in BOOLEAN
    /\ lost \in {"no", "tab switch", "leave", "reload", "failed load"}

(* ConfirmProvider keeps one resolver: a second question would leave the     *)
(* first handler waiting for ever. Whoever waits for a confirmation is the   *)
(* one the dialog on the screen answers.                                     *)
NobodyForgotten ==
    /\ TypeOK
    /\ \A t \in UnderWay : task[t].step = "confirm" => dialog = t

(* Nothing is under way between the page and the server.                     *)
Quiet ==
    /\ loads = <<>> /\ late = {}
    /\ \A t \in UnderWay : task[t].step = "confirm"

(* A page at rest shows the draft and the status as they are, unless since   *)
(* the last load began somebody else wrote, a request was served or answered *)
(* after the client had given up on it, or an overtaken load was applied     *)
(* last.                                                                     *)
StaleScreenHasExcuse ==
    Shown /\ Quiet => stale \/ (product = draft /\ status = StatusNow)

(* Save is disabled while a save is under way: what the draft says in the    *)
(* end is what was saved last, unless a save failed, a colleague wrote, or   *)
(* the form was unmounted meanwhile.                                          *)
LastSaveWins ==
    SavesUnderWay = {} /\ wanted # Nothing => draft.form = wanted

(* What was typed and is not saved disappears without the user's agreement   *)
(* only if a load fails, or if the page is left by a link or by Back: no     *)
(* answer and no load that arrives while the user types resets the form, and *)
(* no tab is switched unasked.                                               *)
TypingSurvivesAnswers == lost \in {"no", "failed load", "leave"}

(* The published preview is the version its caption names, however loads and *)
(* publications overlap, unless an error is shown with it.                   *)
PreviewIsExact ==
    Shown /\ tab = "preview" /\ Watched(status) # 0 /\ preview.shown # 0
          /\ preview.fetch = 0 /\ ~preview.error
      => preview.shown = Watched(status)
=============================================================================
