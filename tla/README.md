# A verification of the DPP platform

TLA+ models of the Digital Product Passport platform (`api/`, a NestJS service on
PostgreSQL and Redis, and `web/`, its Next.js front end), the TLC runs that check them on
small instances and TLAPS proofs of the theorems that matter most. Paths below are relative
to `src/`; `PROJECT.json` maps every definition to the lines it models.

## 1. Inventory

| component | state | operations | hard behaviour |
|---|---|---|---|
| publication (`passports`, `products`, `qr`) | products and child rows, passports, passport_versions, audit entries, QR files | publish, unpublish, update, images / documents / certifications, archive | awaits interleave; row locks in two orders; READ COMMITTED snapshots; storage outside the transaction; lost COMMIT answers |
| public read path (`cache`, `passports.loadPublicByUuid`) | Redis, one memory per replica, loads in flight | getOrSet, get, set, delete; invalidation after commits | load versus invalidation; several replicas; Redis failures; restarts |
| scan queue (`scans`) | Redis list, memory fallback, pump, wake-up, timers | enqueue, take, wait, record, stop | callbacks and stale timers; a push or pop applied but reported failed; two consumers |
| serialised items (`passports.generateItems`) | product items, QR files | generate, list | counting outside a transaction; half-finished batches |
| images and cover (`products/product-images`) | image rows, one cover | add, remove, setCover | partial unique index; locks on several rows |
| uploads and media (`uploads`) | stored files, references | upload, clean-up, serve | check-then-delete; what a published snapshot still needs |
| accounts (`invitations`, `users`, `auth`, `platform-admin`) | users, invitations, brand status, tokens | register, invite, accept, remove, suspend, every guarded request | races on one email; tokens that outlive rights |
| audit log, analytics, taxonomy | rows only read, or written with their subject | list, aggregate, render | cursor pagination |
| web editor (`web/app/(dashboard)/products/[id]`, `hooks`) | draft form, saved copy, guards | edit, save, publish, reload, leave | answers out of order; overlapping dialogs |
| public page and PDF (`web/app/passport`, `passport-pdf`) | copy of the page, session storage, the PDF being laid out | load, report a scan, browse images, export | a copy that outlives a withdrawal; one report per session; page breaks |
| dashboard and console pages (`web/app/(dashboard)`, `web/app/admin`) | lists, controls, requests under way | load, search, filter, page, operate, reload | answers out of order; entries committed out of order; debounce; stale totals; spinners |
| seed (`prisma/seed.ts`, `docker-entrypoint.sh`) | every table | look, then create, one statement at a time | kills and errors between statements, overlapping runs, what users changed since |

Requests of one component reach another through plain calls inside one process
(`ProductsService.getPublishBlockers`, `AuditService.log`, `CacheService.delete`); replicas
share only PostgreSQL, Redis and the file storage. What makes each component correct is stated
by the properties in section 3.

## 2. Modules

| module | models |
|---|---|
| `PassportRegister` | what a passport promises: append-only versions, each an exact copy of a complete draft; a switch; a QR key issued once |
| `Publication` | the requests that change one product, await by await |
| `PublicationProperties` | its properties, the inductive invariants and the refinement mapping |
| `PublicationProofs` | the proofs: locks, versions and audit log, QR files, refinement |
| `PublicCache` | the public read path on top of `PassportRegister` |
| `ScanLog` | what the scan writer promises: a job waits, and is counted or lost once |
| `ScanQueue` | the scan writer of several replicas |
| `ScanQueueProofs` | its proofs |
| `Media` | uploaded files, the rows, logos and snapshots that name them, clean-up |
| `MediaProofs` | its proofs |
| `Membership` | what brands and members may rely on: each operation on the account tables at once |
| `Accounts` | brands, members, invitations, sign-in and suspension, query by query |
| `AccountsProofs` | its proofs |
| `Editor` | the open product editor: loads, tabs, saves, publication, preview, the guard against lost edits |
| `EditorProofs` | its proofs |
| `PassportPdf` | the layout of an exported passport |
| `PublicVisit` | a visitor's tab on the public page, and its export |
| `PublicVisitProofs` | proofs about the layout and the parts of every export, and about scan reports |
| `Dashboard` | the list pages of the dashboard and the platform console |
| `FreshnessProofs` | the proofs of `PublicCache` and `Dashboard`: what readers are shown |
| `Seed` | the seed script, run at every start of a container |
| `SeedProofs` | its proofs |
| `MCPublication`, `MCPublicCache`, `MCScanQueue`, `MCMedia`, `MCAccounts`, `MCEditor`, `MCPublicVisit`, `MCSeed`, `MCDashboard` | constants for TLC |

### Publication

`Requests` is a set of HTTP requests; `kind[r]` says which operation `r` is, `pc[r]` the
await it has reached, `mem[r]` the locals it carries across awaits. `product`, `passport`,
`history`, `audit` are the committed rows; writes of a transaction appear with its commit,
which is how other requests see them. `rowLock` and `keyShare` hold the row locks that
outlive one step: `FOR UPDATE` of publish, the row locks of `UPDATE`, and the `FOR KEY SHARE`
a foreign key takes on the product. A request is at a statement it cannot execute yet while
`Blocking(r)` is not empty.

The content of a draft is reduced to who wrote it and whether it passes
`evaluatePublishBlockers`: `row` for the columns, `kids` for all child rows. Two contents are
equal exactly if no edit lies between them, so "the snapshot is the draft" is exact. The clock
`now` may stand still or advance between two `new Date()`; replicas are taken to have
synchronised clocks.

Failures: `Fail` throws at any await (a blocker found under the locks, a 404, a unique
violation, a deadlock victim, a timeout); `Crash` kills the process; `MakeQrFails` stores a QR
image and then throws; `DiscardFails` loses a clean-up; `CommitUnacked` commits and loses the
answer (`CommitAckLoss` switches it off).

Left out: the duplicate-SKU and taxonomy checks of `update`, which only fail; the locks that
two image operations take on each other's rows; the first unlocked blocker check reads a
product in several queries, here in one step (it only decides whether to go on); the cache
invalidations after the commit, which are `PublicCache`'s subject; the foreign-key lock
`generateItems` takes on the passport.

### PublicCache

The database side is `PassportRegister`'s actions, so the composition reads: publication code
implements the register, the register drives the cache. A request is a read or one of the
writes that invalidate; `loader[p]` is the entry of `inFlight`. A query's effect and its answer
are one step, as are a Redis command and its answer. `excused` is a ghost: the places (a
replica's memory, or Redis) whose copy may be stale because a write overtook its load, because
the writer was another replica, because Redis could not be reached, because the writer died, or
because it lived and learned of an error instead of its commit (`SkipInvalidation`: the answer to
COMMIT was lost, or the brand update's query for its passports failed). An excuse ends with the
copy, so `StaleHasExcuse` says that nothing else in the model makes a copy stale. The excuses are
real: a load in flight stores a passport withdrawn meanwhile, and it stays readable until the entry
expires.

The dashboard tells a user who withdraws a passport that its URL "will immediately stop resolving";
with a second replica that needs no failure to be wrong, since its memory is not invalidated.

### ScanQueue

One step is what JavaScript runs between two awaits. `wake[p]` is the `wake` callback,
`timer[p]` the 200 ms timer of the current wait and `oldTimers[p]` the timers of waits that
ended early, which the code does not clear. All delays are equal, so older timers fire first.
A push is two steps, the LPUSH and its answer: another replica may take and record the job before
the request learns that it was pushed, or learns of an error and puts it in memory too. A push that
has no effect is one step, when it fails; so is a pop, whose lost answer loses the job with it. After
`onModuleDestroy` the last turn of the pump is merged with the stop.

`ScanLog` is the promise without Redis, replicas or timers: a job handed in waits as the copy its
request keeps until the push is answered, perhaps as one on the list too, or not at all; a waiting copy
is counted or lost, and is then gone. `ImplementsLog` maps to it: `Waiting` are the copies in the list,
kept by a request (`Kept`), in a memory or being recorded, `Counted` the page loads with a row. A job
that is popped and not removed, or taken twice, breaks it.

### Media

A task is one thing a user does in a browser tab. `tab[t]` is how far the browser is and
`request[t]` how far the request it sent is; they go on separately, because `client.ts` stops
waiting after 15 s while the API does not. A file is stored by one request and named by a
second. Clean-up is five concurrent queries and then a delete: `cleanup[t]` holds the tables it
has not read yet. The three draft tables are one set `rows`, read at one moment, which is as
good as three because a key is in at most one of them. Publication commits the draft as it is
then, which is what `ImplementsRegister` says, but the logo as it was read earlier, since no
lock covers the organisation. `overtaken` and `moved` are ghosts: keys that nothing named when a
clean-up of them began to look and that were named later; and keys that were named all the time
while the reference moved, from a table the clean-up had still to read to one it had read.

`MissingOnlyByRace` says that a clean-up deletes a file somebody needs in no third case. Both cases
are the code's: the browser times out, asks for a clean-up, and its attach request, still running,
commits (`overtaken`); or a publication copies the rows into a snapshot and a row is removed between
two of the five queries (`moved`). `ForgottenForAReason` lists the
three ways an upload is forgotten. One is an error path: the answer to the upload itself is late or
lost, the catch block has no key yet, and the stored file stays behind.

Left out: who may read a file (`canAccess`; it looks at the draft's rows although the public page is
rendered from the snapshot, so that removing an image hides it from the live page), what a file may
contain, the syntax of keys, tenancy (there is one brand), and generated QR files, which are `Publication`'s.

### Accounts

`Requests` are HTTP requests as in `Publication`. An e-mail names an account. `held` holds the
rows and unique keys a transaction has written or locked and not yet committed: public slugs,
e-mails, invitation rows, and the brand-and-e-mail pairs of
`invitations_one_pending_per_email`. An insert waits for the holder of its key and then finds
it taken or free. The guard of a request (`JwtStrategy.validate`, the permissions of the role)
and the first query after it are one step. Failures are `Fail`. Passwords are taken to match;
`Expire` is the passing of seven days. `Invitations` bounds the invitations of one run.

`Membership` is the promise without requests: `FoundBrand`, `IssueInvitation`, `JoinBrand` and the others
are what a commit does to the tables, all at once. It shares the table variables with `Accounts`, so
`ImplementsMembership` needs no mapping. What it asks for holds at the commit itself: the slug and the
e-mail are free, the invitation still pending, no second one pending for the pair. What it does not
ask for a request may have lost since it checked: the inviter may have been removed, the invitation may
have run out, the account that signs in may be disabled.

### Editor

One page that shows one product. A task is a handler of the page (`save`, `attach`, `images`,
`cover`, `remove`, `publish`) from its click to its end, or a change by a colleague; it asks
(`confirm`), sends its request (`sent`), and goes on when the answer is there (`handled`,
`failed`). `GiveUp` is the client's timeout: the request may have been served, or is served
later (`late`). A load is the two requests of `useProductEditor.load`, served apart, and applied
when both answers are there; loads are not sequenced, so an `overtaken` one may be applied last.
`fields` is what the mounted form says: it starts from the product when the form is mounted and is
not reset while it stays mounted, which `Render` distinguishes. `wanted`, `stale` and `lost` are
ghosts: what the user saved last, whether the screen may be behind for a reason, and what took
unsaved edits away.

Leaving the page is `Leave`: a link or Back, which unmount the form whatever the user answers. The
guard wraps `pushState` and `replaceState`, but the App Router (Next 14, external to the code) calls
them once it has rendered the next page, and Back calls neither; only a reload of the document, or
closing it, can be refused. So `TypingSurvivesAnswers` says what takes typed input away: a failed
load, leaving, or the user's consent, and no answer that arrives. A refused confirmation keeps nobody
on the page.

The model shows two more things worth knowing. A reload that fails replaces the page with an error and
the form with it, and unsaved input is gone without a question although `useUnsavedChanges` is
there to ask (`lost = "failed load"`). And `await reload()` in `page.tsx` waits for nothing,
because `reload` returns at once: the success dialog opens while the page still has the status
from before the publication.

Left out: the inventory tab, the gallery's position, what the fields are, archiving, and the comparison of strings with numbers that keeps a saved sustainability
form dirty. React effects happen with the render that causes them.

### PassportPdf and PublicVisit

`PassportPdf` is the layout machine of `PassportPdfService`: `todo` is what `generate()` has still
to draw, `page` and `y` are the page and `doc.y`, `em` the line height of the text drawn last, in
which `moveDown` counts. A block is what its method asks `ensureSpace` for, how far its ink
reaches and what it adds to `doc.y`; `placed` records where each came to stand. Heights are in
units of 1/10000 pt: Helvetica's line heights are exact in them. Text that flows (the description)
breaks pages as pdfkit does.

`PublicVisit` composes it with the page: the web server's copy of the API's answer (60 s, external
to the code), the tab, its scan beacon, its gallery, and a PDF of the version that is live when the
link is opened, which may be another one than the page shows.

Three things the model shows. The page stays up after a withdrawal: only an answer 200 replaces the
web server's copy, so what `docs/DATA-MODEL.md` calls explicit withdrawal of public access reaches
the page when the copy is gone, not within 60 s. A section title can be alone at the foot of a page:
`sectionTitle` reserves 46 pt for itself, but after metric cards `moveDown(1.2)` skips lines of
their 15 pt text, and title and skip take 52 (`TitleStaysWithSection` excuses exactly this).
And "RECYCLABLE", the only text `generate()` places without `ensureSpace`, can cover the footer's rule
(excused in `NothingOverlaps`, as are lines of a long description).

Left out: `PublicPassportClient`, which no page uses; images that fail in the page; titles and
values longer than their boxes.

### Seed

`docker-entrypoint.sh` runs the seed at every start, so it must leave alone what is there. A step
is one statement; what a run does not find it creates in a later statement. `Stop` ends a run between
any two: the container is killed, or the statement or a file write throws and `main().catch` exits.
`built[p][r]` is how many parts run `r` has made of product `p`; `numbers[p]` is where the five
sustainability numbers of a product come from: the script, a user who typed all or some, or the net
that runs last and fills in the numbers of every product, users' own among them, that lacks one.
`undone`, `cut`, `overlap`, `beside`, `crowded` and `typedLost` are ghosts.

What may go wrong, and what the properties confine: a run that is stopped leaves half a product, and no
later run completes it, because the row is found and returned (`OnlyStopsLeaveHalves` says that
nothing else does, and that it stays so); two runs that overlap duplicate what no index protects
(`SeededOnce`); every run sets back suspensions, removed members, accepted invitations and the numbers
of its own products, and the net replaces what users typed in part (`DecisionsLastUntilReseed`;
complete numbers of a user's own product are replaced only if they were typed beside a run, between its
query and its write, or if runs overlap). `README.md` of the repository calls the seed idempotent. A run that meets a row another run has
just made ends with an error; `RunsComeUp` says that whatever earlier runs left, every run that is
started comes up unless it is stopped, or meets a run that seeds beside it. Nothing is said of a
container that went down: `docker-compose.yml` has no restart policy for the API.

Left out: what the rows say, taxonomy beyond the catalog, and the second and later users of a brand.

### Dashboard

One page is open at a time and starts from nothing, as React mounts it. `want` holds the
dependencies of its effect (search term once debounced, filters, page), `loads` the requests under
way in the order of sending; a request is served or fails (`Serve`) and its answer is applied later,
in any order (`Arrive`, `ArriveEntries`, `Break`). `shown[l]` is the answer on the screen with the
query it answers and `asOf`, how many writes it has seen; `since` is how many there were when the
page's own last operation was served. A search, a filter and a shorter range leave out the same rows
(`off`); on the passports page these are the ones no longer live, filtered in the browser.

`excuses` is a ghost. Nothing in the code sequences answers, so a page may end up showing another
list than its controls say; the model says exactly when: an answer was overtaken by a later one
(`overtaken`), a reload failed with only a toast or next to the old list (`failed`), or a reload was
asked for with older controls: `handleDelete` of the products page calls the `refresh` of the render
in which the dialog was opened (`closure`). A page number may lie beyond the last page if it was chosen
from an answer to other controls, an out-of-date one or with another load under way (`early`: "Next" of
the audit trail is enabled by any finished load) or rows were removed (`shrunk`: the passports page keeps its number). `ScreenAnswersControls` says there is
no other way, and in particular that a debounced search always returns to page 1 and that no operation
leaves its own page stale.

The activity log is ordered by `createdAt`, a time taken when an entry is inserted and not when its
transaction commits: rows of that page are numbered by it, and `Add` commits any number not taken
yet. `EntriesOnce` holds although the log grows while it is paged, because the cursor is a row and not an
offset; but an entry that is committed when the page has read younger ones lies behind the cursor and
is skipped (the ghost `belated`), and an answer for the previous range that arrives late is appended. `LoadingEnds` has
two exceptions that are the code's: a first load of the activity page that fails leaves its spinner below
the error, and the console returns its spinner before it would show the error (`admin/page.tsx:510`).

Left out: creating a product, which leaves the page; the settings page, whose uploads are in `Media`;
the client-side filters of the activity page; CSV and QR downloads; permissions, which hide controls.

## 3. Runs

| run | shows | bounds |
|---|---|---|
| `Publication_safety` | types, gap-free versions, status agrees with the public URL, audit matches history, no false "unpublished changes", only publish/unpublish pairs deadlock, orphaned QR files have an excuse, the QR key is never reissued, refinement of `PassportRegister` | 3 requests of all six kinds, every failure |
| `Publication_liveness` | every request ends; no clean-up deletes the installed QR file | 3 requests that lock in different orders; answers to COMMIT arrive |
| `PublicCache_works` | types; a stale copy has an excuse; staleness ends; every waiting reader is answered | 2 replicas, 3 requests, Redis failures, restarts, commits that are not learned of |
| `ScanQueue_works` | types, limits, one count per page load, no copy recorded twice, a queued job is taken unless every pump that could take it stalled or stopped; refinement of `ScanLog` | 2 replicas, 2 jobs of one page load, faults |
| `Media_safety` | types; clean-up deletes a named file only by one of two races; an upload is forgotten only in one of three ways | 3 tasks of all kinds, 3 files (2 uploads and an earlier logo), late answers, closed tabs, failed clean-ups |
| `Accounts_works` | types; one active owner per brand; every member came from one accepted invitation; the audit log tells how each account came to be; every request ends; refinement of `Membership` | 3 requests of all kinds, 2 brands and one that may be registered, one outstanding invitation, one person everybody wants |
| `Editor_works` | types; no handler waits for a dialog that is gone; a page at rest is up to date or has an excuse; the last save wins; typed input survives every answer but a failed load; the published preview is the version it names | 3 handlers or changes by colleagues (`save`, `remove`, `publish`), 2 loads at a time, 1 late request, 2 publications |
| `PublicVisit_works` | types, and with them the gallery's index; one report per session and way of arriving; nothing in a PDF overlaps; titles stay with their sections; page and PDF have the same parts and the footers the right count | PDFs of 1 632 histories: descriptions of 0 to 36 lines, up to 14 materials, 2 rows of cards, ...; 2 loads from each source per session |
| `Seed_works` | seeded once; only runs that were stopped leave halves, and rows exist with what they refer to; users' decisions last until the next seed; every run that is started comes up | one brand with two kinds of products and a user's own product, two containers, one stop, two changes by users |
| `Dashboard_works` | types; a page at rest shows what its controls ask for and what its operations did, on a page that exists, or has an excuse; no activity entry is repeated, and none skipped but those committed behind the reader; loading ends | all seven pages, 2 rows and one per page, 2 requests at a time, 2 (products) or 3 loads after the first, 1 write |

The shapes of `PublicVisit_works` were chosen so that every excused case is reached: cards right before
each kind of title at the foot of a page, "RECYCLABLE" below the limit, a description that
crosses it. Two brands in `Seed_works` only repeat the steps of one (each brand's rows are its own).

Three requests are enough for the pairwise conflicts of publication with a third in between
(two publishes and an edit, publish-unpublish-publish, two first publishes that lose a QR race
and a later one that sees the result). In `Media` two tasks race and a third publishes or
detaches; in `Accounts` three requests and the outstanding invitation give two brands that want
one person, a link opened twice, a registration in between, or an invitation replaced while it
is accepted. In `Editor` three handlers are two saves and the publication or change in between
whose load can unmount the form; two would never have two saves under way around a load. The kinds
`attach`, `images` and `cover` differ from `remove` only in what they ask, disable and reload and
are left out of the run, which would take too long with them. In `Dashboard` two requests are
an answer and the one that overtakes it, and three loads a filter, its answer and a page chosen from it;
one more row or write multiplies states and adds no kind of step. Symmetry is used in safety runs only.

Runs expected to fail, each a disagreement between the code and what it or its documents say:

| run | disagreement |
|---|---|
| `Publication_missed_changes` | `updatedAt` is taken before the UPDATE waits for the row; an edit committed after a publication can carry an older stamp, and the editor shows no unpublished changes |
| `ScanQueue_stall` | an old timer clears a newer wait's wake-up: that wait's own timer then finds `wake` null too, and the pump never resumes |

Known from the models, without a run of its own: when only the answer to a COMMIT is lost, the
catch block of `publish` deletes the QR file the passport now names (`InstalledQrExists` fails with
`CommitAckLoss = TRUE`). A second replica serves a withdrawn passport from its memory until the copy
expires, and `MissingOnlyByRace` fails without `moved` in it: `uploads.service.spec.ts:28` says that a
clean-up "refuses to delete an upload referenced by live product data", and a reference that moves into
a snapshot between two of its queries is missed. A file whose row is removed is collected by nobody,
though `ARCHITECTURE.md:128` says "orphaned files are garbage-collected". And `TypingSurvivesAnswers`
fails without `"leave"` in it: at the comment "User canceled navigation" (`useUnsavedChanges.ts:112`)
the form is gone.

Fairness. `Publication`: a request's own awaits are answered, and a statement that can no
longer succeed is aborted (PostgreSQL's deadlock detection, the code's own throws).
`PublicCache`: started requests go on and entries expire (their TTL is 300 s).
`ScanQueue`: the event loop runs, timers fire, the database answers, and Redis is not down at
every single RPOP (strong fairness of `PopRedis`). `Accounts`: a request that has begun goes on
unless it waits for a key.
`Dashboard`: a request is answered or given up after 15 s (`lib/api/client.ts`), and its answer is applied.
`Seed`: a run that is started goes on; no container is assumed to be started again. No request is assumed to arrive.

## 4. Proofs

Every safety property, action property and refinement of the passing runs is a theorem. The theorems hold for any
value of the constants that satisfies the named assumptions of the modules, where a run takes one.
Each rests on an inductive invariant that TLC has checked on the run's instance before; below is
what it adds to the property and why.

* `PublicationProofs`, for any set of requests and any subset of the kinds:
  * `TypeCorrect`, `DeadlocksNeedOppositeOrders`. The second rests on `LocksMatchSteps` (a row is
    locked by exactly the request whose step says so) and `KindsMatchSteps`.
  * `VersionsAreContiguous`, `StatusAlwaysAgrees`, `AuditAlwaysMatches`, `QrIsNeverReissued`,
    `NoFalseAnnouncements`. None of these is inductive: at the commit one must know that what the
    publish read under its locks is still so. That is `StillTrue`, and it holds because whoever
    writes a row excludes every publish between its reads and its commit (lemma `NobodyReads`,
    from `LocksMatchSteps`). `Guarded` is the conjunction of the six supporting invariants; each
    theorem adds its own property to it. `NoFalseAnnouncements` also needs `NotYetWritten`: a
    content that names a request is nowhere before that request ends.
  * `InstalledQrAlwaysExists`, `OrphanQrAlwaysHasExcuse`, from `QrOwned` (a generated file is known
    to its publish and to no one else), `QrSeen` (a publish that generated none has seen one
    installed) and `QrInstalled` (the publish whose key is installed has ended). The first assumes
    that no answer to a COMMIT is lost; without it it is false.
  * `PublicationImplementsRegister`: every behaviour of `Publication` is one of
    `PassportRegister`. A commit is `PublishDraft`, the second statement of unpublish
    `WithdrawPassport`, the write of an edit `EditDraft`, and every other step a stutter.

* `FreshnessProofs`, about what readers are shown:
  * `StaleCopiesHaveExcuses` of `PublicCache`. The invariant follows a load through its queries
    (`LoadExact`): until a write overtakes it, what it has read so far is what the database would
    answer, so that what it stores needs no excuse. A writer that never invalidates leaves its excuse
    with the copies there are.
  * `DashboardTypeCorrect`, from `Ground`: the loads under way and the answers shown are of lists of the
    open page, and an answer of the activity page that announces more is not empty, so that it has a
    cursor.
  * `ScreenAlwaysAnswersControls`. What is true of a page at rest is true of the last load of each list that
    nothing overtook, or, when none is under way, of the screen: that it has the query of the
    controls (`QueriesRight`), is no older than the page's last operation (`AnswersFresh`), is of the open
    passport (`HistoryRight`), reaches to its page (`PagesRight`, `PassportsRight`), or has an excuse.
    All steps of a user are described once (`UsualStep`: a list is left alone, `Kept`, or asked for,
    `Sent`), so that an invariant is proved against that and against answers, not against each of
    twenty handlers on seven pages.
  * `EntriesAppearOnce`. An answer of the activity page is a stretch (`Part`) of the entries that did not
    commit too late to be read (`Due`), the entries on the screen are stretches that join and end at
    the cursor (`Fine`), and one load at most may still change them (`OneLeft`); an entry written
    meanwhile is above all that was read, or belated.

  `Dashboard`'s model values for "nothing" and "failed" are no answers or screens (`NoValueAssumption`).

* `MediaProofs`: `TypeCorrect`, `NamedFilesAreDeletedOnlyByRaces`, `UploadsAreForgottenForAReason`. The
  second needs `LooksWell`: a clean-up that has found nothing so far will find its file, if it is named,
  in a table still to be read (`WillBeFound`), unless the file was overtaken or moved. A publication
  between two queries leaves this true, since the rows it copies are still to be read; removing a row
  before they are is what `moved` records. The third needs that
  only committed requests' keys are ever referenced (`OnlyAttached`), so that the clean-up a failed
  attach asks for is of a key no one else has (`OwnKeys`, `CleansOwn`) and must succeed in finding it
  nowhere.

* `AccountsProofs`: `TypeCorrect`, `AccountsArePermanentAlways`, `OneOwnerAlways`,
  `MembersWereAlwaysInvited`, `AuditAlwaysTellsAccounts`, `AccountsImplementMembership`. Each rests on
  `Safe`: a request knows what it read (`Known`), and who creates a brand or an account holds its unique key and finds it free
  until it commits (`Reserved`) - the check for a duplicate is worth nothing, the key is everything.
  `NextUsers` derives from it that a step changes accounts in one of five ways (`UsersStep`), and
  `NextAccounts` what becomes of invitations and the audit log in each of them (`AccountsStep`). The
  entries about an account are counted as a finite set of positions of the log. The
  refinement adds what each request still holds of what it checked (`Placement`): an acceptance its
  pending invitation, an inviter the row that has expired and, from its insert to its commit, the pair,
  so that no second invitation for it is pending. A commit is then an operation of `Membership`,
  and every other step a stutter.

* `ScanQueueProofs`: `AlwaysWithinLimits`, `WakeUpsFindWaiters`, `PageLoadsCountOnce`, `ScansAreLoggedOnce`,
  for any jobs, scans, replicas and limits. The invariant is `Inv`. The limit alone is not inductive: the loop
  checks it before it awaits RPOP and takes the job after, so `SlotKept` says the slot found free is
  still free then - a pump that awaits Redis cannot be woken (`WakeMeansWaiting`, which `WakeUpsFindWaiters` states), and nothing else
  of the replica takes jobs. `Bounded` adds that the sets of jobs are finite. The refinement
  needs that no copy is in two places, or twice in one (`OnePlace`): only then does a copy that
  is recorded no longer wait. The copy a request keeps while its push is not answered is in no memory
  yet (`KeptApart`).

* `EditorProofs`: `NobodyWaitsForEver`, `TypingOutlastsReloads`, `PreviewMatchesCaption`,
  `TheLastSaveStays`, `RestingScreenIsCurrent`, for any handlers and contents, with model values for
  "nothing" and "over" that are no draft, status or task (`NoValueAssumption`). The first three follow from `Sound`: a question and its handler
  name each other (`TasksOK`), and form, busy button and preview belong to a page that is shown
  (`ScreenOK`). `TheLastSaveStays` adds `SaveOK`: while nothing excuses it, no forgotten save is on
  its way, and the one under way keeps Save disabled and carries what was saved last.
  `RestingScreenIsCurrent` says where the present state of the server is, seen from an inexcusably
  stale page (`ScreenRight`): in an answer that will make the page load again, in the load that
  began last, or on the screen. It needs that what a load overtakes is a prefix of those under way
  (`Overtaking`).

* `PublicVisitProofs`:
  * `BlocksNeverOverlap`, `TitlesStay`, for products of any size, where TLC takes some shapes.
    `LayoutInv` carries them: the last block ends above `doc.y` (`LastAbove`), only metric cards
    leave a large line height behind (`SmallText`), and after a title the first block of its section
    still fits (`Reserved`). It needs the order of what is left to draw (`Ordered`, `Stage`), which
    `BlocksWhole` derives from `generate()` part by part, and facts of each block's measures
    (`Sound`, `Fits`): what is asked for it covers what it draws, however far the text before it
    moves it down.
  * `SessionsReportOnce`, from `Counted`: where there is session storage its keys are exactly the ways
    of arriving this session has loaded the page by.
  * `PdfAlwaysMatchesPage`. `Times(k, s)` counts the blocks of kind `k` in `s`; `TimesBlocks` computes it
    for everything `generate()` may have to draw, section by section, and finds what the page shows.
    The invariant then says that what is drawn and what is left to draw add up to it.

* `SeedProofs`: `SeedsOnce`, `StopsLeaveHalves`, `DecisionsAreReset`, for any containers and any script
  with one brand and one product at least (`SeedAssumption`; `BRANDS` is such a constant). `Places` says
  where a run can be and `Behind` that it has made what it refers to. What a run looked for and did not
  find may be there when it creates it, so `SeededOnce` is not inductive; `Alone` says that without an
  overlap no two runs are there at once and what was missing is still missing (`StillMissing`). For the
  products that are not archived it holds even after overlaps, because the unique index makes the
  later insert fail. `MadeSoFar` ties the part a run is at to what it has written, which is what a
  stop leaves. `Net` says that what a run's net has found and not yet patched still lacks a number, unless
  runs overlapped or users worked beside one.

Only model-checked is liveness, since fairness and ENABLED are out of the prover's reach: `EveryRequestEnds`,
`EventuallyFresh`, `EveryReadAnswered`, `DrainsUnlessStalled`, `RunsComeUp`, `LoadingEnds`.

`AccountsArePermanent` and `WakeMeansWaiting` are proved and have no run of their own: the first is what the
steps of `Membership` do to an account, the second is part of the invariant of the limits.

## 5. Not modelled

* Serialised items. `generateItems` counts outside a transaction and no index forbids equal serial
  numbers, so two calls at once repeat numbers, although the comment at `passports.service.ts:421` wants a
  continuous sequence; nothing else in the system reads an item.
* The cover's partial unique index and the locks image operations take on each other's rows
  (`Publication` models them as edits of the draft).
* The daily series of analytics and the taxonomy's lists, which only read; HTTP wiring and logging.
* The session (`auth-context.tsx`), the settings page, presentational components.
