--------------------------- MODULE SnapshotImport ---------------------------
(***************************************************************************)
(* Importing Spotify playlists for one browser session:                    *)
(* internal/spotify/imports.go and the reading half of playlists.go.       *)
(*                                                                         *)
(* API requests enqueue imports under the connection's row lock.  Workers  *)
(* read a playlist page by page while its owner may edit it, confirm that  *)
(* its version has not changed, and publish the pages as one immutable     *)
(* snapshot.  The session can expire or be disconnected at any point, and  *)
(* a job can be delivered to two workers at a time.                        *)
(***************************************************************************)
EXTENDS Integers, Sequences, FiniteSets, River

CONSTANTS
    Clients,          \* concurrent POST .../imports requests
    NoClient,         \* no request holds the connection's row lock
    Workers,          \* goroutines of all worker processes
    Imports,          \* import IDs; bounds how many requests are recorded
    NoImport,         \* a worker that has no job
    Playlists,        \* playlists of the account
    Contents,         \* what a playlist may hold, as sequences of occurrences
    PageSize,         \* most items of one page (50)
    MaxItems,         \* maxSnapshotItems (10000)
    ActiveLimits,     \* numbers of active imports a session may have (the code: 10)
    MaxAttempts,      \* the job's MaxAttempts (5)
    MaxErrors,        \* bound: failed calls, queries, commits, crashes, rescues
    MaxRateLimits,    \* bound: 429 answers
    MaxDenied,        \* bound: 401, 403 and 404 answers
    MaxEdits          \* bound: edits by the playlists' owner

Items == UNION {{c[n] : n \in 1..Len(c)} : c \in Contents}

ASSUME PartiesAssumption ==
    NoClient \notin Clients /\ NoImport \notin Imports /\ Playlists # {}
ASSUME ContentsAssumption == Contents \subseteq Seq(Items)
ASSUME LimitsAssumption ==
    /\ PageSize \in Nat \ {0} /\ MaxItems \in Nat
    /\ ActiveLimits \subseteq Nat \ {0} /\ MaxAttempts \in Nat \ {0}
ASSUME BoundsAssumption ==
    /\ MaxErrors \in Nat /\ MaxRateLimits \in Nat
    /\ MaxDenied \in Nat /\ MaxEdits \in Nat

VARIABLES
    conn,       \* the spotify_connections row: live, expired or deleted
    maxActive,  \* the limit of active imports, one of ActiveLimits for good
    connLock,   \* the request that holds the row between two statements
    asked,      \* per request: the playlist and the active imports it saw
    rows,       \* import IDs with a row in spotify_imports
    playlist,   \* playlist_id of each row
    created,    \* the playlist's version when the row was inserted
    code,       \* error_code of each row
    job,        \* the River job of each import
    published,  \* import IDs with a row in spotify_snapshots
    snapshot,   \* its snapshot_id and entries
    history,    \* per playlist, its successive contents; the version is their number
    pc,         \* where each worker is inside Work
    target,     \* the import each worker has
    before,     \* the version ReadSnapshot saw first
    entries,    \* the entries read so far
    failure,    \* the code Work derives from Run's error, "" for none
    attempt,    \* the attempt number each worker was given
    budget      \* what is left of the bounds above

rowVars == <<conn, rows, playlist, created, published, snapshot>>
apiVars == <<maxActive, connLock, asked>>
readVars == <<before, entries>>
workVars == <<pc, target, readVars, failure, attempt>>
vars == <<rowVars, apiVars, code, job, history, workVars, budget>>

Permanent == {"denied", "no_connection", "too_large"}
Codes == {"", "failed", "rate_limited", "changed"} \cup Permanent
PCs == {"idle", "load", "meta", "page", "verify", "save", "note", "report"}
Idle == [state |-> "idle"]
Budgets == [errors : 0..MaxErrors, rateLimits : 0..MaxRateLimits,
            denied : 0..MaxDenied, edits : 0..MaxEdits]

\* At most maxSnapshotItems entries, read or published.
EntryLists == {s \in Seq(Items) : Len(s) <= MaxItems}

RowsType ==
    /\ conn \in {"live", "expired", "gone"}
    /\ rows \subseteq Imports /\ published \subseteq rows
    /\ playlist \in [Imports -> Playlists]
    /\ created \in [Imports -> Nat]
    /\ code \in [Imports -> Codes]
    /\ job \in [Imports -> [state : JobStates, attempt : Nat]]

ApiType ==
    /\ maxActive \in ActiveLimits
    /\ connLock \in Clients \cup {NoClient}
    /\ asked \in [Clients -> {Idle} \cup
                    [state : {"decide"}, playlist : Playlists, active : SUBSET Imports]]
    /\ history \in [Playlists -> Seq(Contents) \ {<<>>}]
    /\ snapshot \in [Imports -> [version : Nat, entries : EntryLists]]

WorkType ==
    /\ pc \in [Workers -> PCs]
    /\ target \in [Workers -> Imports \cup {NoImport}]
    /\ before \in [Workers -> Nat]
    /\ entries \in [Workers -> EntryLists]
    /\ failure \in [Workers -> Codes]
    /\ attempt \in [Workers -> Nat]
    /\ budget \in Budgets

\* Every variable has its type; no worker collects and no snapshot publishes
\* more than maxSnapshotItems entries.
TypeOK == RowsType /\ ApiType /\ WorkType

Init ==
    /\ conn = "live"
    /\ maxActive \in ActiveLimits
    /\ connLock = NoClient
    /\ asked = [c \in Clients |-> Idle]
    /\ rows = {} /\ published = {}
    /\ playlist = [i \in Imports |-> CHOOSE p \in Playlists : TRUE]
    /\ created = [i \in Imports |-> 0]
    /\ code = [i \in Imports |-> ""]
    /\ job = [i \in Imports |-> AbsentJob]
    /\ snapshot = [i \in Imports |-> [version |-> 0, entries |-> <<>>]]
    /\ history \in [Playlists -> {<<c>> : c \in Contents}]
    /\ pc = [w \in Workers |-> "idle"]
    /\ target = [w \in Workers |-> NoImport]
    /\ before = [w \in Workers |-> 0]
    /\ entries = [w \in Workers |-> <<>>]
    /\ failure = [w \in Workers |-> ""]
    /\ attempt = [w \in Workers |-> 0]
    /\ budget = [errors |-> MaxErrors, rateLimits |-> MaxRateLimits,
                 denied |-> MaxDenied, edits |-> MaxEdits]

Spend(kind) == /\ budget[kind] > 0
               /\ budget' = [budget EXCEPT ![kind] = @ - 1]

\* The provider's side: a playlist's version and what it holds now.
Version(p) == Len(history[p])
Current(p) == history[p][Version(p)]

ActiveImports == {i \in rows : job[i].state \in Active}

ConnUnlocked == TRUE

\* SELECT ... FOR UPDATE on the connection gets the row without waiting.
ConnFree == connLock = NoClient

----------------------------------------------------------------------------
(* The HTTP API.                                                           *)

\* Enqueue up to its first write: lock the connection, look for active imports.
EnqueueLock(c, p) ==
    /\ asked[c] = Idle
    /\ ConnFree /\ conn = "live"
    /\ connLock' = c
    /\ asked' = [asked EXCEPT ![c] =
                    [state |-> "decide", playlist |-> p, active |-> ActiveImports]]
    /\ UNCHANGED <<rowVars, maxActive, code, job, history, workVars, budget>>

\* The transaction ends, and with it the row lock.
EnqueueDone(c) ==
    /\ connLock' = IF connLock = c THEN NoClient ELSE connLock
    /\ asked' = [asked EXCEPT ![c] = Idle]
    /\ UNCHANGED maxActive

ExistingIgnored(c) == {}

\* Active imports of the same playlist, one of which is returned.
Existing(c) == {i \in asked[c].active : playlist[i] = asked[c].playlist}

\* ErrTooManyImports.
Refused(c) == Cardinality(asked[c].active) >= maxActive

\* rand.Text(): an ID that no import has had (which one makes no difference).
newID == CHOOSE i \in Imports : job[i] = AbsentJob

\* Reuse an active import, refuse, fail, or insert the job and the request.
EnqueueDecide(c) ==
    /\ asked[c] # Idle
    /\ EnqueueDone(c)
    /\ \/ UNCHANGED <<rowVars, code, job>>
       \/ /\ Existing(c) = {} /\ ~Refused(c)
          /\ \E i \in Imports :
                /\ job[i] = AbsentJob /\ i = newID
                /\ rows' = rows \cup {i}
                /\ playlist' = [playlist EXCEPT ![i] = asked[c].playlist]
                /\ created' = [created EXCEPT ![i] = Version(asked[c].playlist)]
                /\ job' = [job EXCEPT ![i] = InsertedJob]
          /\ UNCHANGED <<conn, published, snapshot, code>>
    /\ UNCHANGED <<history, workVars, budget>>

\* DELETE /api/connections/spotify, a reconnection under a new session, or the
\* removal of expired rows.  Imports and snapshots go with the connection;
\* their jobs stay in the queue.
Disconnect ==
    /\ conn # "gone" /\ ConnFree
    /\ conn' = "gone"
    /\ rows' = {} /\ published' = {}
    /\ UNCHANGED <<playlist, created, snapshot, apiVars, code, job, history,
                   workVars, budget>>

\* expires_at passes.
Expire ==
    /\ conn = "live"
    /\ conn' = "expired"
    /\ UNCHANGED <<rows, playlist, created, published, snapshot, apiVars, code,
                   job, history, workVars, budget>>

----------------------------------------------------------------------------
(* One attempt.                                                            *)

Goto(w, label) == pc' = [pc EXCEPT ![w] = label]

\* Run returns nil.
Succeed(w) == Goto(w, "report") /\ UNCHANGED failure

\* Run returns an error that Work turns into code e.
Fail(w, e) == Goto(w, "note") /\ failure' = [failure EXCEPT ![w] = e]

\* River hands the import's job to a worker.
Fetch(w, i) ==
    /\ pc[w] = "idle" /\ job[i].state \in Waiting
    /\ job' = [job EXCEPT ![i] = DeliveredJob(@)]
    /\ attempt' = [attempt EXCEPT ![w] = job[i].attempt + 1]
    /\ target' = [target EXCEPT ![w] = i]
    /\ Goto(w, "load")
    /\ UNCHANGED <<rowVars, apiVars, code, history, readVars, failure, budget>>

\* Run's first query: is the session live, is the import already published?
Load(w) ==
    /\ pc[w] = "load"
    /\ \/ /\ conn # "live" \/ target[w] \notin rows
          /\ Fail(w, "no_connection")
       \/ /\ conn = "live" /\ target[w] \in published
          /\ Succeed(w)
       \/ /\ conn = "live" /\ target[w] \in rows \ published
          /\ Goto(w, "meta") /\ UNCHANGED failure
    /\ UNCHANGED <<rowVars, apiVars, code, job, history, target, readVars, attempt, budget>>

\* A provider call made through withConnection: it waits for the connection's
\* row, keeps it for one call, and is refused without a live session.
Disconnected(w) == conn # "live" /\ Fail(w, "no_connection") /\ UNCHANGED readVars

NextPage(w, got, total) == Goto(w, IF got < total THEN "page" ELSE "verify")

TooLargeNever(total) == FALSE
TooLarge(total) == total > MaxItems

\* ReadSnapshot: the playlist's version and size.
Meta(w) ==
    LET p == playlist[target[w]]
        total == Len(Current(p))
    IN
    /\ pc[w] = "meta" /\ ConnFree
    /\ \/ Disconnected(w)
       \/ /\ conn = "live" /\ TooLarge(total)
          /\ Fail(w, "too_large")
          /\ UNCHANGED readVars
       \/ /\ conn = "live" /\ ~TooLarge(total)
          /\ before' = [before EXCEPT ![w] = Version(p)]
          /\ entries' = [entries EXCEPT ![w] = <<>>]
          /\ NextPage(w, 0, total)
          /\ UNCHANGED failure
    /\ UNCHANGED <<rowVars, apiVars, code, job, history, target, attempt, budget>>

\* One page, of whatever the playlist holds when it is read.
Page(w) ==
    LET p == playlist[target[w]]
        total == Len(history[p][before[w]])
        got == Len(entries[w])
    IN
    /\ pc[w] = "page" /\ ConnFree
    /\ \/ Disconnected(w)
       \/ /\ conn = "live" /\ Len(Current(p)) # total
          /\ Fail(w, "changed")
          /\ UNCHANGED readVars
       \/ /\ conn = "live" /\ Len(Current(p)) = total
          /\ \E n \in 1..PageSize :
                /\ got + n <= total
                /\ entries' = [entries EXCEPT ![w] =
                                  @ \o SubSeq(Current(p), got + 1, got + n)]
                /\ NextPage(w, got + n, total)
          /\ UNCHANGED <<before, failure>>
    /\ UNCHANGED <<rowVars, apiVars, code, job, history, target, attempt, budget>>

SameTotal(w) ==
    LET p == playlist[target[w]] IN Len(Current(p)) = Len(history[p][before[w]])

\* The metadata read after the last page equals the one read first.
SameVersion(w) ==
    LET p == playlist[target[w]] IN
    Version(p) = before[w] /\ Len(Current(p)) = Len(history[p][before[w]])

Verify(w) ==
    /\ pc[w] = "verify" /\ ConnFree
    /\ \/ Disconnected(w)
       \/ conn = "live" /\ SameVersion(w) /\ Goto(w, "save") /\ UNCHANGED <<failure, readVars>>
       \/ conn = "live" /\ ~SameVersion(w) /\ Fail(w, "changed") /\ UNCHANGED readVars
    /\ UNCHANGED <<rowVars, apiVars, code, job, history, target, attempt, budget>>

\* A call, or the first query, fails.
CallFails(w) ==
    /\ pc[w] \in {"load", "meta", "page", "verify"}
    /\ \/ Spend("errors") /\ Fail(w, "failed")
       \/ pc[w] # "load" /\ Spend("rateLimits") /\ Fail(w, "rate_limited")
       \/ pc[w] # "load" /\ Spend("denied") /\ Fail(w, "denied")
    /\ UNCHANGED <<rowVars, apiVars, code, job, history, target, readVars, attempt>>

Republish(i, version, list) ==
    /\ published' = published \cup {i}
    /\ snapshot' = [snapshot EXCEPT ![i] = [version |-> version, entries |-> list]]
    /\ code' = [code EXCEPT ![i] = ""]

\* INSERT ... ON CONFLICT DO NOTHING, the entries, and error_code = ''.
Publish(i, version, list) ==
    IF i \in published
    THEN UNCHANGED <<published, snapshot, code>>
    ELSE /\ published' = published \cup {i}
         /\ snapshot' = [snapshot EXCEPT ![i] = [version |-> version, entries |-> list]]
         /\ code' = [code EXCEPT ![i] = ""]

SessionUnchecked == TRUE

\* saveSnapshot finds the session's row, not expired, and locks it.
SessionLive == conn = "live"

\* One transaction: committed, failed, or committed with the reply lost.
Save(w) ==
    /\ pc[w] = "save" /\ ConnFree
    /\ \/ /\ ~SessionLive
          /\ Fail(w, "no_connection")
          /\ UNCHANGED <<published, snapshot, code, budget>>
       \/ /\ SessionLive
          /\ Publish(target[w], before[w], entries[w])
          /\ Succeed(w)
          /\ UNCHANGED budget
       \/ /\ SessionLive
          /\ Spend("errors") /\ Fail(w, "failed")
          /\ \/ Publish(target[w], before[w], entries[w])
             \/ UNCHANGED <<published, snapshot, code>>
    /\ UNCHANGED <<conn, rows, playlist, created, apiVars, job, history, target,
                   readVars, attempt>>

\* Work persists the code; the error of that update is ignored.
Note(w) ==
    /\ pc[w] = "note"
    /\ Goto(w, "report")
    /\ \/ /\ code' = IF target[w] \in rows
                     THEN [code EXCEPT ![target[w]] = failure[w]] ELSE code
          /\ UNCHANGED budget
       \/ Spend("errors") /\ UNCHANGED code
    /\ UNCHANGED <<rowVars, apiVars, job, history, target, readVars, failure, attempt>>

WorkReturnsPatient(e) ==
    [c \in Codes |-> CASE c = "" -> "ok"
                       [] c \in Permanent \cup {"rate_limited"} -> "snooze"
                       [] OTHER -> "error"][e]
WorkReturnsLenient(e) ==
    [c \in Codes |-> CASE c \in {"", "changed"} -> "ok"
                       [] c \in Permanent -> "cancel"
                       [] c = "rate_limited" -> "snooze"
                       [] OTHER -> "error"][e]

\* What Work returns to River for a code.
WorkReturns(e) ==
    [c \in Codes |-> CASE c = "" -> "ok"
                       [] c \in Permanent -> "cancel"
                       [] c = "rate_limited" -> "snooze"
                       [] OTHER -> "error"][e]

\* The worker forgets the attempt.
Rest(w) ==
    /\ Goto(w, "idle")
    /\ target' = [target EXCEPT ![w] = NoImport]
    /\ before' = [before EXCEPT ![w] = 0]
    /\ entries' = [entries EXCEPT ![w] = <<>>]
    /\ failure' = [failure EXCEPT ![w] = ""]
    /\ attempt' = [attempt EXCEPT ![w] = 0]

\* Work returns and River settles the job if it is still running.
Report(w) ==
    /\ pc[w] = "report"
    /\ job' = [job EXCEPT ![target[w]] =
                 SettledJob(@, WorkReturns(failure[w]), attempt[w], MaxAttempts)]
    /\ Rest(w)
    /\ UNCHANGED <<rowVars, apiVars, code, history, budget>>

----------------------------------------------------------------------------
(* Faults, River and the playlists' owner.                                 *)

\* The process dies; the database rolls back what it had not committed.
Crash(w) ==
    /\ pc[w] # "idle"
    /\ Spend("errors")
    /\ Rest(w)
    /\ UNCHANGED <<rowVars, apiVars, code, job, history>>

\* The rescuer takes back a running job, perhaps one that is still worked on.
Rescue(i) ==
    /\ job[i].state = "running"
    /\ job' = [job EXCEPT ![i] = RescuedJob(@, MaxAttempts)]
    /\ IF \E w \in Workers : target[w] = i THEN Spend("errors") ELSE UNCHANGED budget
    /\ UNCHANGED <<rowVars, apiVars, code, history, workVars>>

\* The owner edits the playlist and Spotify gives it a new snapshot_id.
Edit(p) ==
    /\ Spend("edits")
    /\ \E c \in Contents \ {Current(p)} :
          history' = [history EXCEPT ![p] = Append(@, c)]
    /\ UNCHANGED <<rowVars, apiVars, code, job, workVars>>

Attempt(w) ==
    \/ Load(w) \/ Meta(w) \/ Page(w) \/ Verify(w) \/ CallFails(w)
    \/ Save(w) \/ Note(w) \/ Report(w)

Next ==
    \/ \E c \in Clients : EnqueueDecide(c) \/ \E p \in Playlists : EnqueueLock(c, p)
    \/ Disconnect \/ Expire
    \/ \E w \in Workers : Attempt(w) \/ Crash(w) \/ \E i \in Imports : Fetch(w, i)
    \/ \E i \in Imports : Rescue(i)
    \/ \E p \in Playlists : Edit(p)

Spec == Init /\ [][Next]_vars

\* Requests end, workers run what they fetch, a job that waits is not passed
\* over for ever, a row lock that is free again and again is granted (the
\* database queues the waiters), and the rescuer runs.
FairSpec ==
    /\ Spec
    /\ \A c \in Clients : WF_vars(EnqueueDecide(c))
    /\ \A w \in Workers : SF_vars(Attempt(w))
    /\ \A i \in Imports : SF_vars(\E w \in Workers : Fetch(w, i))
    /\ \A i \in Imports : WF_vars(Rescue(i))

----------------------------------------------------------------------------
(* Properties.                                                             *)

\* A published snapshot is one version of the playlist, complete and in order,
\* though it was read page by page while the owner edited it; and a version
\* no older than the request.
SnapshotFaithful ==
    \A i \in published :
       LET s == snapshot[i] IN
       /\ s.version \in created[i]..Version(playlist[i])
       /\ s.entries = history[playlist[i]][s.version]

\* Once published, a snapshot never changes, though a second delivery may have
\* read a different version and saves it later.
SnapshotImmutable ==
    [][\A i \in published : i \in published' => snapshot'[i] = snapshot[i]]_vars

\* Repeated or concurrent clicks never give a playlist two active imports.
OneActivePerPlaylist ==
    \A i, j \in ActiveImports : playlist[i] = playlist[j] => i = j

\* Concurrent requests never push a session past its limit of active imports.
ActiveBounded == Cardinality(ActiveImports) <= maxActive

\* Nothing is published for a session that has ended, by whatever attempt was
\* under way, and disconnecting leaves no import and no snapshot behind.
SessionEndIsFinal ==
    [][/\ conn # "live" => published' \subseteq published
       /\ conn' = "gone" => rows' = {} /\ published' = {}]_vars

\* A job River counts as completed has its snapshot, unless the session went.
CompletedHasSnapshot ==
    \A i \in rows : job[i].state = "completed" => i \in published

\* Every job is settled, those whose session was removed included.
JobsSettle ==
    \A i \in Imports : job[i].state \in Active ~> job[i].state \in Settled

\* With fewer failures and edits than attempts, an import is published unless
\* the session ends or Spotify refuses the playlist for good.
EventuallyPublished ==
    \A i \in Imports :
       i \in rows ~> (i \in published \/ conn # "live" \/ job[i].state = "cancelled")
=============================================================================
