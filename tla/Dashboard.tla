------------------------------ MODULE Dashboard ------------------------------
(***************************************************************************)
(* The pages of the dashboard and of the platform console: lists that are  *)
(* loaded when a page is opened and again when a filter, a range or a page *)
(* number changes, and after an operation of the page. Loads are not       *)
(* sequenced: whatever answer comes last is shown.                         *)
(*                                                                         *)
(* One page is open at a time, on a list of rows, numbered by the time they *)
(* are stamped with. Every search, every filter and every shorter range of days leaves  *)
(* out the same rows.                                                      *)
(***************************************************************************)
EXTENDS Integers, Sequences, FiniteSets, SequencesExt

CONSTANTS
    Pages,        \* the pages that are opened
    PageSize,     \* rows per page: 25 (10 on the passports page)
    FirstRows,    \* bound: how many rows there are when a page is opened
    MaxLoads,     \* bound: loads under way at a time
    MaxAsks,      \* bound: MaxAsks[p] loads after the first while page p is open
    MaxWrites,    \* bound: writes while a page is open
    Nothing, Failed

AllPages == {"overview", "products", "passports", "analytics", "users", "activity", "admin"}

ASSUME DashboardAssumption ==
    /\ Pages \subseteq AllPages
    /\ PageSize \in Nat \ {0} /\ FirstRows \in Nat /\ MaxLoads \in Nat \ {0}
    /\ MaxAsks \in [AllPages -> Nat] /\ MaxWrites \in Nat

VARIABLES
    at,         \* the page that is open, or "none"
    rows,       \* the rows the server has
    off,        \* those a search, a filter or a shorter range leaves out
    writes,     \* how many writes there have been
    since,      \* how many there had been when the page's own last one was served
    search,     \* is there text in the search field?
    timer,      \* is its debounce timer running?
    want,       \* what the controls ask for: the effects' dependencies
    section,    \* the section of the platform console
    loads,      \* requests for lists, in the order of sending
    asked,      \* how many there have been after the first
    shown,      \* shown[l]: the answer list l shows, or Nothing
    errors,     \* the lists that show an error instead
    busy,       \* "loading", "auditLoading" or "loadingMore"
    entries,    \* the activity entries on the screen, answer by answer, or Nothing
    cursor,     \* nextCursor of the activity page, 0: null
    dialog,     \* the row whose history or details are open, or 0
    task,       \* an operation of the page, or Nothing
    (* history *)
    excuses,    \* <<kind, list>>: why a list may not be what it seems
    belated     \* entries committed when the page had read younger ones

dashboardVars == <<at, rows, off, writes, since, search, timer, want, section, loads, asked, shown,
                   errors, busy, entries, cursor, dialog, task, excuses, belated>>

-----------------------------------------------------------------------------
(* What lists ask, and what the API answers *)

(* The list a page is about; the console has more, one per section.         *)
Main(p) == IF p = "admin" THEN "brands" ELSE p

(* "oversight" is two sections, of passports and of scans.                  *)
Sections == {"brands", "oversight", "audit"}
Lists == (AllPages \ {"admin"}) \cup Sections \cup {"history", "detail"}

(* A list's query, the API's answer to it, and the answer on the screen; a  *)
(* request for a list, overtaken or not; an operation.                      *)
Queries    == [term: BOOLEAN, filter: BOOLEAN, page: Nat \ {0}, row: Nat]
Replies    == [ids: SUBSET Nat, off: SUBSET Nat, total: Nat, asOf: Nat]
Screens    == [query: Queries, ids: SUBSET Nat, off: SUBSET Nat, total: Nat, asOf: Nat]
Loads      == [list: Lists, query: Queries, reply: Replies \cup {Nothing, Failed}, old: BOOLEAN]
Operations == [step: {"confirm", "sent", "served", "failed"}, row: Nat, query: Queries]

ASSUME NoValueAssumption ==
    /\ Nothing # Failed /\ {Nothing, Failed} \cap Replies = {}
    /\ Nothing \notin Screens \cup Operations \cup Seq(SUBSET Nat)

Plain == [term |-> FALSE, filter |-> FALSE, page |-> 1, row |-> 0]

Hits(q) == {r \in rows : q.term \/ q.filter => r \notin off}

(* skip and take, the newest row first.                                     *)
Slice(S, n) ==
    {r \in S : Cardinality({s \in S : s >= r}) \in (n - 1) * PageSize + 1 .. n * PageSize}

NumPages(total) == (total + PageSize - 1) \div PageSize

Reply(ids, total) == [ids |-> ids, off |-> off, total |-> total, asOf |-> writes]

(* Broken, for mutation: without skip: 1.                                   *)
OlderInclusive(S, r) == {s \in S : r = 0 \/ s <= r}

(* A cursor names the last row of the page before.                          *)
Older(S, r) == {s \in S : r = 0 \/ s < r}

AnswerTo(l, q) ==
    CASE l \in {"products", "audit"}  -> Reply(Slice(Hits(q), q.page), Cardinality(Hits(q)))
      [] l = "activity"               -> LET S == Older(Hits(q), q.row) IN
                                         Reply(Slice(S, 1), Cardinality(S))
      [] l \in {"history", "detail"}  -> Reply({q.row}, 1)
      [] OTHER                        -> Reply(Hits(q), Cardinality(Hits(q)))

OnScreen(q, r) == [query |-> q, ids |-> r.ids, off |-> r.off, total |-> r.total, asOf |-> r.asOf]

Load(l, q) == [list |-> l, query |-> q, reply |-> Nothing, old |-> FALSE]

Bounded == Len(loads) < MaxLoads /\ asked < MaxAsks[at] /\ asked' = asked + 1

UnderWay(l) == \E i \in DOMAIN loads : loads[i].list = l

(* A request for list l is sent; the error of the list is taken back.       *)
Ask(l, q) ==
    /\ Bounded
    /\ loads' = Append(loads, Load(l, q))
    /\ errors' = errors \ {l}

-----------------------------------------------------------------------------
(* What a page shows in the place of its list *)

(* An error takes the place of the list, a spinner that of one not loaded.  *)
BodyOf(l) ==
    IF l \in errors THEN "error"
    ELSE IF shown[l] = Nothing THEN "spinner"
    ELSE IF shown[l].ids = {} THEN "empty" ELSE "rows"

OverviewBody  == IF busy THEN "spinner" ELSE BodyOf("overview")
ProductsBody  == BodyOf("products")
AnalyticsBody == BodyOf("analytics")
UsersBody     == BodyOf("users")

(* The filters and the page number work on what has been loaded.            *)
Filtered == {r \in shown["passports"].ids : want.filter => r \notin shown["passports"].off}

PassportsBody ==
    IF BodyOf("passports") # "rows" THEN BodyOf("passports")
    ELSE IF Slice(Filtered, want.page) = {} THEN "empty" ELSE "rows"

(* The error stands above the list, which goes on loading.                  *)
ActivityBody == IF entries = Nothing THEN "spinner" ELSE "rows"

(* Everything waits for the brands; an error shows only once they are there. *)
AdminBody == IF shown["brands"] = Nothing THEN "spinner" ELSE "rows"

Body ==
    CASE at = "overview"  -> OverviewBody
      [] at = "products"  -> ProductsBody
      [] at = "passports" -> PassportsBody
      [] at = "analytics" -> AnalyticsBody
      [] at = "users"     -> UsersBody
      [] at = "activity"  -> ActivityBody
      [] at = "admin"     -> AdminBody
      [] at = "none"      -> "nothing"

(* Dialogs are modal.                                                       *)
Stage == IF task = Nothing THEN "none" ELSE task.step
Free == dialog = 0 /\ Stage # "confirm"

On(p) == at = p /\ Free

-----------------------------------------------------------------------------
(* Opening and leaving a page *)

(* An entry of the log is stamped before its transaction commits, by any    *)
(* replica's clock: any may be missing yet. For the other lists only their  *)
(* length matters.                                                          *)
Stamps == 1..(FirstRows + MaxWrites)

Reset(p) ==
    /\ at' = p
    /\ rows' \in IF p = "activity" THEN SUBSET Stamps ELSE {1..FirstRows}
    /\ off' = {1} /\ writes' = 0 /\ since' = 0 /\ belated' = {}
    /\ search' = FALSE /\ want' = Plain /\ section' = "brands"
    /\ timer' = (p = "products")
    /\ asked' = 0 /\ shown' = [l \in Lists |-> Nothing] /\ errors' = {}
    /\ busy' = (p = "overview")
    /\ entries' = Nothing /\ cursor' = 0 /\ dialog' = 0 /\ task' = Nothing
    /\ excuses' = {}

DashboardInit ==
    /\ at = "none"
    /\ rows = {} /\ off = {} /\ writes = 0 /\ since = 0
    /\ search = FALSE /\ want = Plain /\ section = "brands" /\ timer = FALSE
    /\ loads = <<>> /\ asked = 0 /\ shown = [l \in Lists |-> Nothing] /\ errors = {} /\ busy = FALSE
    /\ entries = Nothing /\ cursor = 0 /\ dialog = 0 /\ task = Nothing
    /\ excuses = {} /\ belated = {}

(* The effects of the first render load the list.                           *)
Open(p) ==
    /\ at = "none" /\ p \in Pages
    /\ Reset(p)
    /\ loads' = <<Load(Main(p), Plain)>>

(* Answers to a page that is gone are dropped.                              *)
Leave ==
    /\ at # "none" /\ Free
    /\ Reset("none")
    /\ loads' = <<>>

data == <<at, rows, off, writes, since, belated>>

-----------------------------------------------------------------------------
(* The network: a request is served or fails, its answer is applied later *)

Serve(i) ==
    /\ i \in DOMAIN loads /\ loads[i].reply = Nothing
    /\ \/ loads' = [loads EXCEPT ![i].reply = AnswerTo(loads[i].list, loads[i].query)]
       \/ loads' = [loads EXCEPT ![i].reply = Failed]
    /\ UNCHANGED <<data, search, timer, want, section, asked, shown, errors, busy, entries, cursor,
                   dialog, task, excuses>>

(* The loads left once load i is applied; it has overtaken earlier ones.    *)
Remaining(i) ==
    RemoveAt([j \in DOMAIN loads |->
                 IF j < i /\ loads[j].list = loads[i].list
                 THEN [loads[j] EXCEPT !.old = TRUE] ELSE loads[j]], i)

(* Broken, for mutation: a failure does not end the loading.                *)
StillBusyAfterSuccess(l) ==
    busy /\ (l.list \notin {"overview", "audit", "activity"} \/ l.reply = Failed)

(* finally: whichever load of the list it is.                               *)
StillBusy(l) == busy /\ l.list \notin {"overview", "audit", "activity"}

WithExcuse(kind, l) ==
    IF l.list \in {"overview", "oversight"} THEN excuses ELSE excuses \cup {<<kind, l.list>>}

(* Is load i what the list is for now?                                      *)
Current(i) ==
    LET l == loads[i] IN
    CASE l.list = "history"                          -> l.query.row = dialog
      [] l.list = "activity"                         -> l.query.row = 0
      [] l.list \in {"products", "audit", "analytics"} -> l.query = want
      [] OTHER                                       -> TRUE

(* The rows of the answer do not reach to its page.                         *)
Beyond(q, total) == q.page > NumPages(total)

(* Ghost: an overtaken answer excuses what follows; the current one, when   *)
(* no other is to come, ends the excuses, but for those for its page.       *)
Excuses(i) ==
    LET l == loads[i] IN
    IF l.old THEN WithExcuse("overtaken", l)
    ELSE IF \E j \in DOMAIN loads : j # i /\ loads[j].list = l.list THEN excuses
    ELSE IF ~Current(i) THEN excuses
    ELSE {e \in excuses :
             \/ e[2] # l.list
             \/ /\ e[1] \in {"early", "shrunk"}
                /\ \/ l.list = "passports" \/ Beyond(l.query, l.reply.total)
                   \/ l.reply.asOf # writes}

(* setRows, setAudit, setHistory, ...: setDetail opens the dialog.          *)
Arrive(i) ==
    LET l == loads[i] IN
    /\ i \in DOMAIN loads /\ l.reply \notin {Nothing, Failed} /\ l.list # "activity"
    /\ loads' = Remaining(i)
    /\ shown' = [shown EXCEPT ![l.list] = OnScreen(l.query, l.reply)]
    /\ dialog' = IF l.list = "detail" THEN l.query.row ELSE dialog
    /\ busy' = StillBusy(l)
    /\ excuses' = Excuses(i)
    /\ UNCHANGED <<data, search, timer, want, section, asked, errors, entries, cursor, task>>

(* load() of the activity page: older entries go below those there are.     *)
ArriveEntries(i) ==
    LET l == loads[i]  more == l.reply.total > PageSize IN
    /\ i \in DOMAIN loads /\ l.reply \notin {Nothing, Failed} /\ l.list = "activity"
    /\ loads' = Remaining(i)
    /\ entries' = IF l.query.row # 0 /\ entries # Nothing
                  THEN Append(entries, l.reply.ids) ELSE <<l.reply.ids>>
    /\ cursor' = IF more THEN CHOOSE r \in l.reply.ids : \A s \in l.reply.ids : r <= s ELSE 0
    /\ busy' = StillBusy(l)
    /\ excuses' = Excuses(i)
    /\ UNCHANGED <<data, search, timer, want, section, asked, shown, errors, dialog, task>>

(* A failure shows an error in the place of the list, or only a toast.      *)
Break(i) ==
    LET l == loads[i] IN
    /\ i \in DOMAIN loads /\ l.reply = Failed
    /\ loads' = Remaining(i)
    /\ errors' = IF l.list \in {"oversight", "audit"} THEN errors ELSE errors \cup {l.list}
    /\ busy' = StillBusy(l)
    /\ excuses' = WithExcuse(IF l.old THEN "overtaken" ELSE "failed", l)
    /\ UNCHANGED <<data, search, timer, want, section, asked, shown, entries, cursor, dialog, task>>

-----------------------------------------------------------------------------
(* Controls of effect-driven lists: the products page and the audit trail *)

Searching == On("products") \/ (On("admin") /\ section = "audit" /\ AdminBody = "rows")
List == IF at = "admin" THEN section ELSE at

controls == <<at, rows, off, writes, since, belated, section, shown, entries, cursor, dialog, task>>

(* The audit trail sets no timer if the text is what it searched for.       *)
Type ==
    /\ Searching
    /\ search' = ~search
    /\ timer' = (at = "products" \/ search' # want.term)
    /\ UNCHANGED <<controls, want, loads, asked, errors, busy, excuses>>

(* The controls change to w; the effect loads if that is a change, but not  *)
(* while another section of the console is open.                            *)
Want(w) ==
    /\ want' = w
    /\ IF w = want \/ List \in {"brands", "oversight"}
       THEN UNCHANGED <<loads, asked, errors, busy>>
       ELSE Ask(List, w) /\ busy' = (busy \/ List = "audit")
    /\ UNCHANGED excuses

(* Broken, for mutation: the page number stays.                             *)
DebouncedKeepingPage ==
    /\ timer
    /\ timer' = FALSE
    /\ Want([want EXCEPT !.term = search])
    /\ UNCHANGED <<controls, search>>

(* 300 ms, or 350 on the console, after the last key.                       *)
Debounced ==
    /\ timer
    /\ timer' = FALSE
    /\ Want([want EXCEPT !.term = search, !.page = 1])
    /\ UNCHANGED <<controls, search>>

ChooseFilter ==
    /\ Searching
    /\ Want([want EXCEPT !.filter = ~@, !.page = 1])
    /\ UNCHANGED <<controls, search, timer>>

(* Clear filters: the search takes effect with the debounce.                *)
ClearFilters ==
    /\ On("products") /\ (search \/ want.filter)
    /\ search' = FALSE
    /\ timer' = (timer \/ search)
    /\ Want([want EXCEPT !.filter = FALSE, !.page = 1])
    /\ UNCHANGED controls

(* Reset, on the console, takes everything back at once.                    *)
ResetFilters ==
    /\ Searching /\ at = "admin" /\ (want.term \/ want.filter)
    /\ search' = FALSE /\ timer' = FALSE
    /\ Want(Plain)
    /\ UNCHANGED controls

(* Any page there is according to the last answer, beside an error too; on  *)
(* the console the next or the previous one, unless auditLoading.           *)
GoToPage ==
    /\ Searching /\ shown[List] # Nothing
    /\ \E n \in 1..(want.page + 1) \cup 1..NumPages(shown[List].total) :
       /\ n # want.page
       /\ IF at = "products"
          THEN n <= NumPages(shown[List].total) /\ shown[List].total > PageSize
          ELSE /\ ~busy /\ n \in {want.page - 1, want.page + 1}
               /\ n > want.page => want.page < NumPages(shown[List].total)
       /\ Ask(List, [want EXCEPT !.page = n])
       /\ want' = [want EXCEPT !.page = n]
       /\ busy' = (List = "audit")
       /\ excuses' = IF shown[List].query = want THEN excuses
                      ELSE excuses \cup {<<"early", List>>}
    /\ UNCHANGED <<controls, search, timer>>

-----------------------------------------------------------------------------
(* The other pages *)

(* Client-side filters and pages of the passports page.                     *)
FilterPassports ==
    /\ On("passports")
    /\ \/ /\ want' = [want EXCEPT !.filter = ~@, !.page = 1]
          /\ excuses' = excuses \ {<<"early", "passports">>, <<"shrunk", "passports">>}
       \/ /\ shown["passports"] # Nothing /\ Cardinality(Filtered) > PageSize
          /\ \E n \in 1..NumPages(Cardinality(Filtered)) : want' = [want EXCEPT !.page = n]
          /\ excuses' = IF shown["passports"].asOf = writes /\ ~UnderWay("passports") THEN excuses
                         ELSE excuses \cup {<<"early", "passports">>}
    /\ UNCHANGED <<controls, search, timer, loads, asked, errors, busy>>

RowsOn == IF at = "passports" THEN Slice(Filtered, want.page) ELSE shown[Main(at)].ids

(* openHistory                                                              *)
OpenHistory ==
    /\ On("passports") /\ PassportsBody = "rows"
    /\ \E r \in RowsOn : dialog' = r /\ Ask("history", [Plain EXCEPT !.row = r])
    /\ shown' = [shown EXCEPT !["history"] = Nothing]
    /\ UNCHANGED <<data, search, timer, want, section, busy, entries, cursor, task, excuses>>

CloseDialog ==
    /\ dialog # 0
    /\ dialog' = 0
    /\ UNCHANGED <<data, search, timer, want, section, loads, asked, shown, errors, busy, entries,
                   cursor, task, excuses>>

(* The range of the analytics page, whose error replaces the controls.      *)
ChooseDays ==
    /\ On("analytics") /\ AnalyticsBody \in {"rows", "empty"}
    /\ Want([want EXCEPT !.filter = ~@])
    /\ UNCHANGED <<controls, search, timer>>

Retry ==
    /\ Free /\ at \in {"overview", "products", "passports", "analytics", "users"}
    /\ Body = "error"
    /\ Ask(at, IF at \in {"products", "analytics"} THEN want ELSE Plain)
    /\ busy' = (at = "overview")
    /\ UNCHANGED <<controls, search, timer, want, excuses>>

(* The range of the activity page: everything starts again.                 *)
ChooseRange ==
    /\ On("activity")
    /\ want' = [want EXCEPT !.filter = ~@]
    /\ Bounded
    /\ loads' = Append([j \in DOMAIN loads |-> [loads[j] EXCEPT !.old = TRUE]],
                       Load("activity", want'))
    /\ errors' = {}
    /\ entries' = Nothing /\ cursor' = 0 /\ belated' = {}
    /\ UNCHANGED <<at, rows, off, writes, since, search, timer, section, shown, busy, dialog, task,
                   excuses>>

(* Show older activity.                                                     *)
ShowOlder ==
    /\ On("activity") /\ cursor # 0 /\ ~busy
    /\ Ask("activity", [want EXCEPT !.row = cursor])
    /\ busy' = TRUE
    /\ UNCHANGED <<controls, search, timer, want, excuses>>

(* The console: sections load when they are opened, searches on submit, and *)
(* Refresh loads the section again.                                         *)
OpenSection ==
    /\ On("admin") /\ AdminBody = "rows"
    /\ \E s \in Sections :
       /\ section' = s
       /\ IF s = "brands" \/ s = section THEN UNCHANGED <<loads, asked, errors, busy>>
          ELSE Ask(s, IF s = "audit" THEN want ELSE Plain) /\ busy' = (busy \/ s = "audit")
    /\ UNCHANGED <<data, search, timer, want, shown, entries, cursor, dialog, task, excuses>>

(* The forms above the tables, whose texts are left out, and Refresh, which *)
(* does the same on the brands.                                             *)
Submit ==
    /\ On("admin") /\ AdminBody = "rows" /\ section \in {"brands", "oversight"}
    /\ Ask(section, Plain)
    /\ UNCHANGED <<controls, search, timer, want, busy, excuses>>

(* refreshAll: the brands, and the section.                                 *)
Refresh ==
    /\ On("admin") /\ AdminBody = "rows" /\ section # "brands"
    /\ loads' = loads \o <<Load("brands", Plain),
                           Load(section, IF section = "audit" THEN want ELSE Plain)>>
    /\ asked' = asked + 2
    /\ Len(loads') <= MaxLoads /\ asked' <= MaxAsks[at]
    /\ errors' = errors \ {"brands"}
    /\ busy' = (busy \/ section = "audit")
    /\ UNCHANGED <<controls, search, timer, want, excuses>>

Inspect ==
    /\ On("admin") /\ AdminBody = "rows" /\ section = "brands"
    /\ \E r \in shown["brands"].ids : Ask("detail", [Plain EXCEPT !.row = r])
    /\ UNCHANGED <<controls, search, timer, want, busy, excuses>>

-----------------------------------------------------------------------------
(* Operations: delete a product, unpublish, remove a user, suspend a brand; *)
(* and invite a user, which asks for no confirmation                        *)

taskVars == <<at, search, timer, want, section, shown, entries, cursor>>

(* What the handler will reload with, from the render it was created in.    *)
Reload == IF at = "products" THEN want ELSE Plain

Click ==
    /\ task = Nothing /\ Free /\ at \in {"products", "passports", "users", "admin"}
    /\ Body = "rows" /\ section = "brands"
    /\ \E r \in RowsOn :
       /\ at = "passports" => r \notin shown["passports"].off
       /\ task' = [step |-> "confirm", row |-> r, query |-> Reload]
    /\ UNCHANGED <<taskVars, data, loads, asked, errors, busy, dialog, excuses>>

Invite ==
    /\ task = Nothing /\ On("users") /\ Body = "rows"
    /\ task' = [step |-> "sent", row |-> 0, query |-> Plain]
    /\ UNCHANGED <<taskVars, data, loads, asked, errors, busy, dialog, excuses>>

Confirm ==
    /\ Stage = "confirm"
    /\ task' \in {Nothing, [task EXCEPT !.step = "sent"]}
    /\ UNCHANGED <<taskVars, data, loads, asked, errors, busy, dialog, excuses>>

(* A product or a user is gone; a passport is no longer live; a suspended   *)
(* brand stays.                                                             *)
Withdraw(r) ==
    /\ rows' = IF at \in {"passports", "admin"} THEN rows ELSE rows \ {r}
    /\ off' = IF at = "passports" THEN off \cup {r} ELSE off
    /\ excuses' = excuses \cup {<<"shrunk", Main(at)>>}
    /\ UNCHANGED belated

(* What the activity page has read: what it shows, what is on its way, and  *)
(* the cursors it has sent.                                                 *)
Read ==
    LET onTheWay == {j \in DOMAIN loads : loads[j].reply \notin {Nothing, Failed}} IN
    (IF entries = Nothing THEN {} ELSE UNION {entries[i] : i \in DOMAIN entries})
    \cup (UNION {loads[i].reply.ids : i \in onTheWay})
    \cup {loads[i].query.row : i \in DOMAIN loads}

(* A transaction commits: its entry goes where its stamp says.              *)
Add ==
    /\ \E r \in (IF at = "activity" THEN Stamps ELSE {FirstRows + writes + 1}) \ rows :
       /\ rows' = rows \cup {r}
       /\ belated' = IF at = "activity" /\ \E s \in Read : r < s THEN belated \cup {r} ELSE belated
    /\ UNCHANGED <<off, excuses>>

ServeTask ==
    /\ Stage = "sent"
    /\ \/ /\ writes < MaxWrites
          /\ writes' = writes + 1 /\ since' = writes + 1
          /\ IF task.row = 0 THEN Add ELSE Withdraw(task.row)
          /\ task' = [task EXCEPT !.step = "served"]
       \/ /\ task' = [task EXCEPT !.step = "failed"]
          /\ UNCHANGED <<data, excuses>>
    /\ UNCHANGED <<taskVars, loads, asked, errors, busy, dialog>>

(* The list is loaded as it was asked for when the handler was created.     *)
Finish ==
    /\ Stage \in {"served", "failed"}
    /\ task' = Nothing
    /\ IF task.step = "failed"
       THEN /\ errors' = IF at = "admin" THEN errors \cup {"brands"} ELSE errors
            /\ UNCHANGED <<loads, asked, dialog, excuses>>
       ELSE /\ Bounded
            /\ loads' = Append([j \in DOMAIN loads |->
                                   [loads[j] EXCEPT !.old = @ \/ loads[j].list = "detail"]],
                               Load(Main(at), task.query))
            /\ errors' = errors \ {Main(at)}
            /\ dialog' = IF at = "admin" THEN 0 ELSE dialog
            /\ excuses' = IF task.query = Reload THEN excuses
                          ELSE excuses \cup {<<"closure", Main(at)>>}
    /\ UNCHANGED <<taskVars, data, busy>>

(* A colleague writes too. Entries of the log stay; the console's lists     *)
(* only grow, which is left out.                                            *)
Colleague ==
    /\ at \notin {"none", "admin"} /\ writes < MaxWrites
    /\ writes' = writes + 1
    /\ Add \/ (at # "activity" /\ \E r \in rows : Withdraw(r))
    /\ UNCHANGED <<taskVars, since, loads, asked, errors, busy, dialog, task>>

-----------------------------------------------------------------------------
Network(i) == Serve(i) \/ Arrive(i) \/ ArriveEntries(i) \/ Break(i)

DashboardNext ==
    \/ \E p \in Pages : Open(p)
    \/ Leave
    \/ \E i \in 1..MaxLoads : Network(i)
    \/ Type \/ Debounced \/ ChooseFilter \/ ClearFilters \/ ResetFilters \/ GoToPage
    \/ FilterPassports \/ OpenHistory \/ CloseDialog \/ ChooseDays \/ Retry
    \/ ChooseRange \/ ShowOlder \/ OpenSection \/ Submit \/ Refresh \/ Inspect
    \/ Click \/ Invite \/ Confirm \/ ServeTask \/ Finish \/ Colleague

(* Every request is answered, or given up after 15 s.                       *)
DashboardSpec ==
    /\ DashboardInit /\ [][DashboardNext]_dashboardVars
    /\ \A i \in 1..MaxLoads : WF_dashboardVars(Network(i))

-----------------------------------------------------------------------------
(* Properties *)

DashboardTypeOK ==
    /\ at \in Pages \cup {"none"} /\ section \in Sections
    /\ rows \cup belated \subseteq Stamps /\ off \subseteq Nat
    /\ writes \in 0..MaxWrites /\ since \in 0..writes
    /\ search \in BOOLEAN /\ timer \in BOOLEAN /\ busy \in BOOLEAN
    /\ want \in Queries /\ want.row = 0
    /\ loads \in Seq(Loads) /\ Len(loads) <= MaxLoads /\ asked \in Nat
    /\ shown \in [Lists -> Screens \cup {Nothing}] /\ errors \subseteq Lists
    /\ entries \in Seq(SUBSET Nat) \cup {Nothing} /\ cursor \in Nat /\ dialog \in Nat
    /\ task \in Operations \cup {Nothing}
    /\ excuses \subseteq {"overtaken", "failed", "closure", "early", "shrunk"} \X Lists

Rest == loads = <<>> /\ ~timer /\ task = Nothing

Excused(l) == \E e \in excuses : e[2] = l /\ e[1] \notin {"early", "shrunk"}

Visible(l) == shown[l] # Nothing /\ l \notin errors

(* A page at rest shows what its controls ask for, not older than its own   *)
(* last operation, and its page number exists; the open history is that of  *)
(* the passport it is opened for. Otherwise an answer was overtaken, failed *)
(* with only a toast, or was asked for by a handler older than the          *)
(* controls; or the page was chosen from an answer that was not for them,   *)
(* or rows were removed.                                                    *)
ScreenAnswersControls ==
    /\ DashboardTypeOK
    /\ Rest =>
       /\ \A l \in {"products", "audit", "analytics"} :
             Visible(l) => shown[l].query = want \/ Excused(l) \/ (l = "audit" /\ section # l)
       /\ \A l \in {"products", "passports", "users", "brands"} :
             Visible(l) => shown[l].asOf >= since \/ Excused(l)
       /\ dialog # 0 /\ at = "admin" =>
             shown["detail"].asOf >= since \/ Excused("detail")
       /\ dialog # 0 /\ at = "passports" /\ Visible("history") =>
             shown["history"].query.row = dialog \/ Excused("history")
       /\ \A l \in {"products", "audit"} :
             Visible(l) /\ Beyond(shown[l].query, shown[l].total) =>
                shown[l].total = 0 \/ \E e \in excuses : e[2] = l
       /\ at = "passports" /\ Visible("passports") =>
             \/ ~Beyond(want, Cardinality(Filtered)) \/ Filtered = {}
             \/ \E e \in excuses : e[2] = "passports" /\ e[1] \in {"early", "shrunk"}

(* The entries on the screen are a stretch of the log, newest first, each   *)
(* one once and none left out, however the log grows and however the user   *)
(* pages; but for those committed when the page had read younger ones, and  *)
(* unless an answer for the previous range came late.                       *)
EntriesOnce ==
    entries # Nothing /\ <<"overtaken", "activity">> \notin excuses =>
       /\ \A i, j \in DOMAIN entries : i < j => \A r \in entries[i], s \in entries[j] : s < r
       /\ LET all == UNION {entries[i] : i \in DOMAIN entries} IN
          \A r, s \in all : r..s \cap Hits(want) \subseteq all \cup belated

Loading == Body = "spinner" \/ busy

(* Loading ends, except on the two pages where nothing but an answer ends   *)
(* it and the first load fails: the activity page, and the console, which   *)
(* does not even say so.                                                    *)
LoadingEnds ==
    Loading ~> (~Loading \/ (at \in {"activity", "admin"} /\ errors # {}))
=============================================================================
