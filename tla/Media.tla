-------------------------------- MODULE Media --------------------------------
(***************************************************************************)
(* Uploaded files and the rows, logos and snapshots that name them: the    *)
(* web client uploads a file, attaches it with a second request and cleans *)
(* up what it could not attach; the API deletes a file only after looking  *)
(* for references to it, and serves it to the public by other rules.       *)
(*                                                                         *)
(* Each element of Tasks is one thing a user does in a browser tab. The    *)
(* tab and the request it sent go on separately, since the client stops    *)
(* waiting after 15 s and the request does not stop with it. There is one  *)
(* brand with one product; a publication commits the draft as it is then,  *)
(* which Publication is shown to do, but reads the brand earlier.          *)
(***************************************************************************)
EXTENDS Naturals, Sequences

CONSTANTS
    Files,       \* storage keys; randomUUID never repeats one
    FirstLogo,   \* the key of a logo that was there before
    NoFile,      \* no key, no logo
    Tasks,       \* what users do in one run
    Kinds,       \* which things they may be
    Unreliable   \* may answers be late or lost, tabs be closed, clean-ups fail?

AllKinds == {"attach", "setLogo", "dropLogo", "detach", "publish", "unpublish"}

ASSUME MediaAssumption ==
    /\ FirstLogo \in Files
    /\ NoFile \notin Files
    /\ Kinds \subseteq AllKinds
    /\ Unreliable \in BOOLEAN

VARIABLES
    stored,     \* the keys that object storage holds
    rows,       \* the keys that image, document and certification rows name
    logo,       \* the key in organisations.logoUrl, or NoFile
    versions,   \* the published snapshots
    live,       \* published and not withdrawn
    kind,       \* kind[t]: what task t is
    tab,        \* tab[t]: how far the browser is
    request,    \* request[t]: the attach or logo request at the API
    mine,       \* mine[t]: the key t's upload made, or NoFile
    old,        \* old[t]: the logo t's settings page, or t's publish, has read
    cleanup,    \* cleanup[t]: the clean-up t asked for
    overtaken,  \* ghost: keys first referenced after a clean-up of them began
    moved       \* ghost: referenced keys that a clean-up of them will not find

ghosts == <<overtaken, moved>>
vars == <<stored, rows, logo, versions, live, kind, tab, request, mine, old, cleanup, ghosts>>

Key       == Files \cup {NoFile}
Tables    == {"rows", "logo", "versions"}
Version   == [files: SUBSET Files, logo: Key]
NoCleanup == [file |-> NoFile, unread |-> Tables, found |-> FALSE]

Working == {"start", "open", "waiting", "cleaning", "deleting", "committing"}
Ended   == {"done", "failed", "refused", "unanswered", "closed", "uncleaned"}

Used == {FirstLogo} \cup {mine[t] : t \in Tasks}

NamedBy(v) == v.files \cup ({v.logo} \ {NoFile})
Referenced == rows \cup ({logo} \ {NoFile}) \cup UNION {NamedBy(versions[i]) : i \in DOMAIN versions}

Goto(t, step) == tab' = [tab EXCEPT ![t] = step]

(* A task that ends forgets what it read; the key it made stays its own.    *)
End(t, step) ==
    /\ Goto(t, step)
    /\ old' = [old EXCEPT ![t] = NoFile]
    /\ cleanup' = [cleanup EXCEPT ![t] = NoCleanup]

(* Broken, for mutation: snapshots are not references.                      *)
FindsInDraftOnly(f, table) ==
    \/ table = "rows" /\ f \in rows
    \/ table = "logo" /\ f = logo

Finds(f, table) ==
    \/ table = "rows" /\ f \in rows
    \/ table = "logo" /\ f = logo
    \/ table = "versions" /\ \E i \in DOMAIN versions : f \in NamedBy(versions[i])

(* These keys are named by one table more. One that nothing named before is *)
(* overtaken if a clean-up of it has begun to look, or is over.             *)
Begun(f) == f \notin stored \/ \E t \in Tasks : cleanup[t].file = f /\ cleanup[t].unread # Tables
Reference(files) == overtaken' = overtaken \cup {f \in files \ Referenced : Begun(f)}

(* A table stops to name f, before a clean-up of f reads it and after that  *)
(* clean-up read, to no avail, another table that names f by now.           *)
SlipsPast(f, table) ==
    \E t \in Tasks : LET c == cleanup[t] IN
        /\ c.file = f /\ ~c.found /\ table \in c.unread
        /\ \E other \in Tables \ c.unread : Finds(f, other)
Dereference(f, table) == moved' = moved \cup {g \in {f} : SlipsPast(g, table)}

-----------------------------------------------------------------------------
Init ==
    /\ logo \in {FirstLogo, NoFile}
    /\ stored = {logo} \ {NoFile}
    /\ rows = {}
    /\ versions = <<>>
    /\ live = FALSE
    /\ kind \in [Tasks -> Kinds]
    /\ tab = [t \in Tasks |-> "start"]
    /\ request = [t \in Tasks |-> "none"]
    /\ mine = [t \in Tasks |-> NoFile]
    /\ old = [t \in Tasks |-> NoFile]
    /\ cleanup = [t \in Tasks |-> NoCleanup]
    /\ overtaken = {} /\ moved = {}

-----------------------------------------------------------------------------
(* The browser: upload, then attach, then clean up *)

(* The settings page loads the brand; what it knows of the logo may be old  *)
(* by the time the user changes it.                                         *)
OpenSettings(t) ==
    /\ kind[t] \in {"setLogo", "dropLogo"} /\ tab[t] = "start"
    /\ old' = [old EXCEPT ![t] = logo]
    /\ Goto(t, "open")
    /\ UNCHANGED <<stored, rows, logo, versions, live, kind, request, mine, cleanup, ghosts>>

(* POST /uploads stores the file under a new key. With its answer the tab   *)
(* sends the request that names the file. If the answer is late or lost,    *)
(* the catch block has no key yet and leaves the stored file behind.        *)
Upload(t) ==
    /\ \/ kind[t] = "attach" /\ tab[t] = "start"
       \/ kind[t] = "setLogo" /\ tab[t] = "open"
    /\ \E f \in Files \ Used :
         /\ stored' = stored \cup {f}
         /\ mine' = [mine EXCEPT ![t] = f]
    /\ \/ Goto(t, "waiting") /\ request' = [request EXCEPT ![t] = "running"] /\ UNCHANGED <<old, cleanup>>
       \/ Unreliable /\ End(t, "unanswered") /\ UNCHANGED request
    /\ UNCHANGED <<rows, logo, versions, live, kind, ghosts>>

(* Removing the logo sends one request, and only if the page shows a logo.  *)
DropLogo(t) ==
    /\ kind[t] = "dropLogo" /\ tab[t] = "open" /\ old[t] # NoFile
    /\ Goto(t, "waiting")
    /\ request' = [request EXCEPT ![t] = "running"]
    /\ UNCHANGED <<stored, rows, logo, versions, live, kind, mine, old, cleanup, ghosts>>

(* Ask for f to be cleaned up, if there is such a key; else the task ends.  *)
CleanUp(t, f, end) ==
    IF f = NoFile THEN End(t, end)
    ELSE /\ Goto(t, "cleaning")
         /\ cleanup' = [cleanup EXCEPT ![t] = [NoCleanup EXCEPT !.file = f]]
         /\ UNCHANGED old

(* A success: a logo that was replaced or removed is cleaned up.            *)
Succeed(t) ==
    /\ tab[t] = "waiting" /\ request[t] = "committed"
    /\ CleanUp(t, IF kind[t] = "attach" THEN NoFile ELSE old[t], "done")
    /\ UNCHANGED <<stored, rows, logo, versions, live, kind, request, mine, ghosts>>

(* Broken, for mutation: the file is kept for another try.                  *)
GiveUpAndKeep(t) ==
    /\ tab[t] = "waiting" /\ (request[t] = "refused" \/ Unreliable)
    /\ End(t, "failed")
    /\ UNCHANGED <<stored, rows, logo, versions, live, kind, request, mine, ghosts>>

(* Any error of the second request, a timeout or a lost answer among them:  *)
(* the new file is cleaned up, wherever that request may be.                *)
GiveUp(t) ==
    /\ tab[t] = "waiting" /\ (request[t] = "refused" \/ Unreliable)
    /\ CleanUp(t, mine[t], "failed")
    /\ UNCHANGED <<stored, rows, logo, versions, live, kind, request, mine, ghosts>>

(* The tab is closed; what it sent goes on.                                 *)
Close(t) ==
    /\ Unreliable /\ tab[t] \in {"open", "waiting"}
    /\ End(t, "closed")
    /\ UNCHANGED <<stored, rows, logo, versions, live, kind, request, mine, ghosts>>

-----------------------------------------------------------------------------
(* The API: the requests that add and remove references *)

CommitAttach(t) ==
    /\ kind[t] = "attach" /\ request[t] = "running"
    /\ rows' = rows \cup {mine[t]}
    /\ Reference({mine[t]}) /\ UNCHANGED moved
    /\ request' = [request EXCEPT ![t] = "committed"]
    /\ UNCHANGED <<stored, logo, versions, live, kind, tab, mine, old, cleanup>>

CommitLogo(t) ==
    /\ kind[t] \in {"setLogo", "dropLogo"} /\ request[t] = "running"
    /\ logo' = mine[t]
    /\ Reference({mine[t]} \ {NoFile}) /\ Dereference(logo, "logo")
    /\ request' = [request EXCEPT ![t] = "committed"]
    /\ UNCHANGED <<stored, rows, versions, live, kind, tab, mine, old, cleanup>>

(* A 4xx or a 5xx: nothing has been written.                                *)
Refuse(t) ==
    /\ request[t] = "running"
    /\ request' = [request EXCEPT ![t] = "refused"]
    /\ UNCHANGED <<stored, rows, logo, versions, live, kind, tab, mine, old, cleanup, ghosts>>

(* Removing an image, document or certification deletes its row and leaves  *)
(* the file, which a snapshot may name.                                     *)
Detach(t) ==
    /\ kind[t] = "detach" /\ tab[t] = "start"
    /\ \E f \in rows : rows' = rows \ {f} /\ Dereference(f, "rows")
    /\ Goto(t, "done")
    /\ UNCHANGED <<stored, logo, versions, live, kind, request, mine, old, cleanup, overtaken>>

(* The snapshot names the logo that publish read, whose row it did not      *)
(* lock, and the draft's files, whose rows cannot change under its locks.   *)
PublishRead(t) ==
    /\ kind[t] = "publish" /\ tab[t] = "start"
    /\ old' = [old EXCEPT ![t] = logo]
    /\ Goto(t, "committing")
    /\ UNCHANGED <<stored, rows, logo, versions, live, kind, request, mine, cleanup, ghosts>>

PublishCommit(t) ==
    LET snapshot == [files |-> rows, logo |-> old[t]] IN
    /\ tab[t] = "committing"
    /\ versions' = Append(versions, snapshot)
    /\ live' = TRUE
    /\ Reference(NamedBy(snapshot)) /\ UNCHANGED moved
    /\ End(t, "done")
    /\ UNCHANGED <<stored, rows, logo, kind, request, mine>>

Unpublish(t) ==
    /\ kind[t] = "unpublish" /\ tab[t] = "start" /\ versions # <<>>
    /\ live' = FALSE
    /\ Goto(t, "done")
    /\ UNCHANGED <<stored, rows, logo, versions, kind, request, mine, old, cleanup, ghosts>>

-----------------------------------------------------------------------------
(* The API: clean-up looks for references with concurrent queries, then     *)
(* deletes                                                                  *)

Look(t) ==
    /\ tab[t] = "cleaning"
    /\ \E table \in cleanup[t].unread :
         LET unread == cleanup[t].unread \ {table}
             found  == cleanup[t].found \/ Finds(cleanup[t].file, table)
         IN IF unread = {} /\ found THEN End(t, "refused")
            ELSE /\ IF unread = {} THEN Goto(t, "deleting") ELSE UNCHANGED tab
                 /\ cleanup' = [cleanup EXCEPT ![t].unread = unread, ![t].found = found]
                 /\ UNCHANGED old
    /\ UNCHANGED <<stored, rows, logo, versions, live, kind, request, mine, ghosts>>

Delete(t) ==
    /\ tab[t] = "deleting"
    /\ stored' = stored \ {cleanup[t].file}
    /\ End(t, "done")
    /\ UNCHANGED <<rows, logo, versions, live, kind, request, mine, ghosts>>

(* The clean-up request does not arrive or fails; its caller ignores that.  *)
CleanUpFails(t) ==
    /\ Unreliable /\ tab[t] \in {"cleaning", "deleting"}
    /\ End(t, "uncleaned")
    /\ UNCHANGED <<stored, rows, logo, versions, live, kind, request, mine, ghosts>>

-----------------------------------------------------------------------------
BrowserStep(t) == OpenSettings(t) \/ Upload(t) \/ DropLogo(t) \/ Succeed(t) \/ GiveUp(t) \/ Close(t)
RequestStep(t) == CommitAttach(t) \/ CommitLogo(t) \/ Refuse(t) \/ Detach(t)
                  \/ PublishRead(t) \/ PublishCommit(t) \/ Unpublish(t)
CleanUpStep(t) == Look(t) \/ Delete(t) \/ CleanUpFails(t)

Next == \E t \in Tasks : BrowserStep(t) \/ RequestStep(t) \/ CleanUpStep(t)

Spec == Init /\ [][Next]_vars

-----------------------------------------------------------------------------
(* Properties *)

(* Every variable stays within its type, and a clean-up names a key.        *)
TypeOK ==
    /\ stored \subseteq Files
    /\ rows \subseteq Files
    /\ logo \in Key
    /\ versions \in Seq(Version)
    /\ live \in BOOLEAN
    /\ kind \in [Tasks -> Kinds]
    /\ tab \in [Tasks -> Working \cup Ended]
    /\ request \in [Tasks -> {"none", "running", "committed", "refused"}]
    /\ mine \in [Tasks -> Key]
    /\ old \in [Tasks -> Key]
    /\ cleanup \in [Tasks -> [file: Key, unread: SUBSET Tables, found: BOOLEAN]]
    /\ overtaken \subseteq Files /\ moved \subseteq Key
    /\ \A t \in Tasks : tab[t] \in {"cleaning", "deleting"} => cleanup[t].file \in Files

(* A file that somebody needs is missing from storage only if nothing named  *)
(* it when its clean-up began to look, or if it moved meanwhile, from a      *)
(* table still to be read to one already read: publish copies the draft's    *)
(* rows into a snapshot and a row is removed, both between two of the        *)
(* clean-up's five queries, which share no snapshot of the database. No      *)
(* other interleaving deletes a file that is named.                          *)
MissingOnlyByRace == Referenced \ stored \subseteq overtaken \cup moved

(* A file that was stored and never attached is still being worked on, or    *)
(* one of three things happened: no answer brought its key to the browser,   *)
(* whose error path forgets it then; the tab was closed; the clean-up        *)
(* failed. An attach that is refused, late or unanswered forgets no file.    *)
ForgottenForAReason ==
    \A t \in Tasks :
        mine[t] \in stored /\ request[t] # "committed" =>
            tab[t] \in Working \cup {"unanswered", "closed", "uncleaned"}
=============================================================================
