---------------------------- MODULE TransferRun ----------------------------
(***************************************************************************)
(* The execution of one transfer run: internal/transfer/worker.go, the run *)
(* half of internal/transfer/store.go, and the two provider adapters it    *)
(* writes through.                                                         *)
(*                                                                         *)
(* A River job delivers the run to workers, possibly more than once and    *)
(* possibly to two of them at a time.  Each delivery is one attempt        *)
(* (runOnce): lock the run and preview rows, find or create the            *)
(* destination playlist, make every position hold the matched track, and   *)
(* record the outcome in the transaction that held the locks.  The         *)
(* provider's library is changed by calls that cannot be rolled back.      *)
(***************************************************************************)
EXTENDS Integers, Sequences, FiniteSets, River

CONSTANTS
    Workers,          \* goroutines of all worker processes that run attempts
    NoWorker,         \* the row locks are free
    Configured,       \* workers whose process has the destination provider
    Tracks,           \* destination track IDs
    Unavailable,      \* a playlist entry the provider returns without a track
    Previews,         \* the matched lists a (re-)preview may persist
    PlaylistIds,      \* IDs the provider can give to a new playlist
    NoPlaylist,       \* the empty destination_playlist_id
    SourceName,       \* the source playlist's name: leading blanks and length
    MaxNameLen,       \* longest name the adapter accepts (100, Apple 255)
    Supported,        \* provider operations that do not answer "unsupported"
    MaxAttempts,      \* the job's MaxAttempts (10)
    MaxErrors,        \* bound: failed calls, failed commits, crashes, rescues
    MaxRateLimits,    \* bound: 429 answers
    MaxLate,          \* bound: writes applied after their caller gave up
    MaxWithdrawn      \* bound: destination entries that lose their track

Operations == {"find", "create", "read", "add"}

ASSUME WorkersAssumption == NoWorker \notin Workers /\ Configured \subseteq Workers
ASSUME TracksAssumption == Unavailable \notin Tracks
ASSUME PreviewsAssumption == Previews \subseteq Seq(Tracks)
ASSUME PlaylistsAssumption == NoPlaylist \notin PlaylistIds
ASSUME NameAssumption == SourceName \in [lead : Nat, len : Nat] /\ MaxNameLen \in Nat
ASSUME SupportedAssumption == Supported \subseteq Operations
ASSUME BoundsAssumption ==
    /\ MaxAttempts \in Nat \ {0}
    /\ MaxErrors \in Nat /\ MaxRateLimits \in Nat
    /\ MaxLate \in Nat /\ MaxWithdrawn \in Nat

VARIABLES
    preview,   \* matched tracks of the persisted preview, in source order
    run,       \* the transfer_runs row
    job,       \* the River job: its state and the attempts it has used
    lock,      \* holder of the run and preview row locks
    pc,        \* where each worker is inside Work
    plan,      \* each attempt's matchedEntries
    dest,      \* each attempt's playlistID
    next,      \* each attempt's next position (0-based, as in the code)
    attempt,   \* the attempt number each worker was given
    result,    \* what runOnce returned to Work
    lib,       \* playlists in the account that this run created
    items,     \* what each of them holds
    late,      \* timed-out writes the provider may still apply
    budget     \* what is left of the bounds above

store == <<preview, run, job, lock>>
local == <<plan, dest, next>>
remote == <<lib, items, late>>
vars == <<store, pc, local, attempt, result, remote, budget>>

RunStates == {"none", "queued", "failed", "completed"}
Locked == Operations \cup {"finish"}
PCs == {"idle", "load", "report"} \cup Locked
Requests == [id : 1..MaxLate, op : {"create"}, playlist : PlaylistIds]
            \cup [id : 1..MaxLate, op : {"add"}, playlist : PlaylistIds, track : Tracks]

Budgets == [errors : 0..MaxErrors, rateLimits : 0..MaxRateLimits,
            late : 0..MaxLate, withdrawn : 0..MaxWithdrawn]

StoreType ==
    /\ preview \in Previews
    /\ run \in [state : RunStates, dest : PlaylistIds \cup {NoPlaylist}, next : Nat]
    /\ job \in [state : JobStates, attempt : Nat]
    /\ lock \in Workers \cup {NoWorker}

AttemptType ==
    /\ pc \in [Workers -> PCs]
    /\ plan \in [Workers -> Seq(Tracks)]
    /\ dest \in [Workers -> PlaylistIds \cup {NoPlaylist}]
    /\ next \in [Workers -> Nat]
    /\ attempt \in [Workers -> Nat]
    /\ result \in [Workers -> Results]

RemoteType ==
    /\ lib \subseteq PlaylistIds
    /\ items \in [PlaylistIds -> Seq(Tracks \cup {Unavailable})]
    /\ late \subseteq Requests
    /\ budget \in Budgets

\* Every variable has its type; in particular no snooze takes back more
\* attempts than were given, and no late write is bigger than its request.
TypeOK == StoreType /\ AttemptType /\ RemoteType

Init ==
    /\ preview \in Previews
    /\ run = [state |-> "none", dest |-> NoPlaylist, next |-> 0]
    /\ job = AbsentJob
    /\ lock = NoWorker
    /\ pc = [w \in Workers |-> "idle"]
    /\ plan = [w \in Workers |-> <<>>]
    /\ dest = [w \in Workers |-> NoPlaylist]
    /\ next = [w \in Workers |-> 0]
    /\ attempt = [w \in Workers |-> 0]
    /\ result = [w \in Workers |-> "ok"]
    /\ lib = {}
    /\ items = [p \in PlaylistIds |-> <<>>]
    /\ late = {}
    /\ budget = [errors |-> MaxErrors, rateLimits |-> MaxRateLimits,
                 late |-> MaxLate, withdrawn |-> MaxWithdrawn]

----------------------------------------------------------------------------
(* Names and bounds.                                                       *)

\* Length of " (transfer " + id[:8] + ")".
SuffixLen == 20

\* The name runOnce looks for, and the name CreatePlaylist sends.
DestName == [lead |-> SourceName.lead, len |-> SourceName.len + SuffixLen]
TrimSpace(name) == [name EXCEPT !.lead = 0]
ValidName == TrimSpace(DestName).len \in 1..MaxNameLen

\* IDs the provider has not used, nor promised to a request it still holds.
FreshIds == PlaylistIds \ (lib \cup {r.playlist : r \in late})

ListedNothing == {}

\* What findPlaylistByName can match: every playlist in lib was created under
\* the trimmed name.
Listed == IF TrimSpace(DestName) = DestName THEN lib ELSE {}

Spend(kind) == /\ budget[kind] > 0
               /\ budget' = [budget EXCEPT ![kind] = @ - 1]

\* Nobody holds the run and preview rows (SELECT ... FOR UPDATE).
RowsNotLocked == TRUE
RowsFree == lock = NoWorker

(* The HTTP API.                                                           *)

\* POST .../runs.  A second request for the preview returns the stored run.
EnqueueRun ==
    /\ run.state = "none"
    /\ run' = [state |-> "queued", dest |-> NoPlaylist, next |-> 0]
    /\ job' = InsertedJob
    /\ UNCHANGED <<preview, lock, pc, local, attempt, result, remote, budget>>

\* POST /api/transfers/previews again for the same snapshot: the upsert waits
\* for the preview row and rewrites every entry's match.
SavePreview ==
    /\ RowsFree
    /\ preview' \in Previews \ {preview}
    /\ UNCHANGED <<run, job, lock, pc, local, attempt, result, remote, budget>>

----------------------------------------------------------------------------
(* One attempt.                                                            *)

Goto(w, label) == pc' = [pc EXCEPT ![w] = label]

KeepRows(w) ==
    /\ lock' = lock
    /\ plan' = [plan EXCEPT ![w] = <<>>]
    /\ dest' = [dest EXCEPT ![w] = NoPlaylist]
    /\ next' = [next EXCEPT ![w] = 0]

\* The attempt's transaction ends, with a commit or the deferred rollback.
Release(w) ==
    /\ lock' = IF lock = w THEN NoWorker ELSE lock
    /\ plan' = [plan EXCEPT ![w] = <<>>]
    /\ dest' = [dest EXCEPT ![w] = NoPlaylist]
    /\ next' = [next EXCEPT ![w] = 0]

\* runOnce returns r to Work.
Return(w, r) ==
    /\ Goto(w, "report")
    /\ result' = [result EXCEPT ![w] = r]
    /\ Release(w)

FailUnrecorded(w, playlist, position) ==
    /\ UNCHANGED <<preview, run, job, attempt, remote, budget>>
    /\ Return(w, "cancel")

\* Record a controlled failure, ignoring whether it could be written.
FailRun(w, playlist, position) ==
    /\ \/ /\ run' = [state |-> "failed", dest |-> playlist, next |-> position]
          /\ UNCHANGED budget
       \/ Spend("errors") /\ UNCHANGED run
    /\ Return(w, "cancel")
    /\ UNCHANGED <<preview, job, attempt, remote>>

FetchUnnumbered(w) ==
    /\ pc[w] = "idle"
    /\ job.state \in Waiting
    /\ job' = DeliveredJob(job)
    /\ Goto(w, "load")
    /\ UNCHANGED <<preview, run, lock, local, attempt, result, remote, budget>>

\* River hands the job to a worker.
Fetch(w) ==
    /\ pc[w] = "idle"
    /\ job.state \in Waiting
    /\ job' = DeliveredJob(job)
    /\ attempt' = [attempt EXCEPT ![w] = job.attempt + 1]
    /\ Goto(w, "load")
    /\ UNCHANGED <<preview, run, lock, local, result, remote, budget>>

ContinueShort(w, list, position) ==
    Goto(w, IF position + 1 < Len(list) THEN "read" ELSE "finish")

\* After the playlist is known: the next position, or the final update.
Continue(w, list, position) ==
    Goto(w, IF position < Len(list) THEN "read" ELSE "finish")

NeverCompleted == FALSE
AlreadyCompleted == run.state = "completed"

\* loadRunForUpdate waits for both row locks and keeps them.
Load(w) ==
    /\ pc[w] = "load" /\ RowsFree
    /\ \/ /\ AlreadyCompleted
          /\ Return(w, "ok")
          /\ UNCHANGED <<preview, run, job, attempt, remote, budget>>
       \/ /\ ~AlreadyCompleted /\ w \notin Configured
          /\ FailRun(w, run.dest, run.next)
       \/ /\ ~AlreadyCompleted /\ w \in Configured
          /\ lock' = w
          /\ plan' = [plan EXCEPT ![w] = preview]
          /\ dest' = [dest EXCEPT ![w] = run.dest]
          /\ next' = [next EXCEPT ![w] = run.next]
          /\ IF run.dest = NoPlaylist THEN Goto(w, "find")
                                      ELSE Continue(w, preview, run.next)
          /\ UNCHANGED <<preview, run, job, attempt, result, remote, budget>>

\* A database error before or at the lock, or when committing an attempt
\* that found the run completed.
LoadFails(w) ==
    /\ pc[w] = "load"
    /\ Spend("errors")
    /\ Return(w, "error")
    /\ UNCHANGED <<preview, run, job, attempt, remote>>

\* A provider call fails and changed nothing at the provider.
CallFails(w) ==
    /\ pc[w] \in Supported
    /\ Spend("errors")
    /\ Return(w, "error")
    /\ UNCHANGED <<preview, run, job, attempt, remote>>

RateLimited(w) ==
    /\ pc[w] \in Supported
    /\ Spend("rateLimits")
    /\ Return(w, "snooze")
    /\ UNCHANGED <<preview, run, job, attempt, remote>>

\* The adapter answers ErrUnsupportedOperation.
Unsupported(w) ==
    /\ pc[w] \in Operations \ Supported
    /\ FailRun(w, dest[w], next[w])

\* findPlaylistByName over every page of the library.
Find(w) ==
    /\ pc[w] = "find" /\ "find" \in Supported
    /\ \/ /\ Listed = {}
          /\ Goto(w, "create")
          /\ UNCHANGED dest
       \/ \E p \in Listed :
             /\ dest' = [dest EXCEPT ![w] = p]
             /\ Continue(w, plan[w], next[w])
    /\ UNCHANGED <<store, plan, next, attempt, result, remote, budget>>

\* CreatePlaylist: rejected locally, answered, answered but the reply is
\* lost, or given up on while the provider still has the request.
Create(w) ==
    /\ pc[w] = "create" /\ "create" \in Supported
    /\ \/ /\ ~ValidName
          /\ Return(w, "error")
          /\ UNCHANGED <<remote, budget>>
       \/ /\ ValidName
          /\ \E p \in FreshIds :
                /\ lib' = lib \cup {p}
                /\ dest' = [dest EXCEPT ![w] = p]
                /\ Continue(w, plan[w], next[w])
                /\ UNCHANGED <<lock, plan, next, result, items, late, budget>>
       \/ /\ ValidName
          /\ Spend("errors")
          /\ \E p \in FreshIds : lib' = lib \cup {p}
          /\ Return(w, "error")
          /\ UNCHANGED <<items, late>>
       \/ /\ ValidName
          /\ Spend("late")
          /\ \E p \in FreshIds :
                late' = late \cup {[id |-> budget.late, op |-> "create", playlist |-> p]}
          /\ Return(w, "error")
          /\ UNCHANGED <<lib, items>>
    /\ UNCHANGED <<preview, run, job, attempt>>

HeldUnread(w) == Unavailable
HeldAnything(w) ==
    IF next[w] < Len(items[dest[w]]) THEN plan[w][next[w] + 1] ELSE Unavailable

\* The track ReadPlaylistEntries returns for the position, if there is one.
Held(w) ==
    IF next[w] < Len(items[dest[w]]) THEN items[dest[w]][next[w] + 1] ELSE Unavailable

\* The first half of ensureEntryState: what does the position hold?
Read(w) ==
    /\ pc[w] = "read" /\ "read" \in Supported
    /\ \/ /\ Held(w) = plan[w][next[w] + 1]
          /\ next' = [next EXCEPT ![w] = @ + 1]
          /\ Continue(w, plan[w], next[w] + 1)
          /\ UNCHANGED <<lock, plan, dest, result>>
       \/ /\ Held(w) \notin {plan[w][next[w] + 1], Unavailable}
          /\ Return(w, "error")
       \/ /\ Held(w) = Unavailable
          /\ Goto(w, "add")
          /\ UNCHANGED <<lock, local, result>>
    /\ UNCHANGED <<preview, run, job, attempt, remote, budget>>

\* The second half: append the track, with the same outcomes as a create.
Add(w) ==
    LET track == plan[w][next[w] + 1]
        appended == [items EXCEPT ![dest[w]] = Append(@, track)]
    IN
    /\ pc[w] = "add" /\ "add" \in Supported
    /\ \/ /\ items' = appended
          /\ next' = [next EXCEPT ![w] = @ + 1]
          /\ Continue(w, plan[w], next[w] + 1)
          /\ UNCHANGED <<lock, plan, dest, result, late, budget>>
       \/ /\ Spend("errors")
          /\ items' = appended
          /\ Return(w, "error")
          /\ UNCHANGED late
       \/ /\ Spend("late")
          /\ late' = late \cup {[id |-> budget.late, op |-> "add",
                                 playlist |-> dest[w], track |-> track]}
          /\ Return(w, "error")
          /\ UNCHANGED items
    /\ UNCHANGED <<preview, run, job, attempt, lib>>

\* updateRunState "completed" and the commit: done, failed, or done with the
\* acknowledgement lost.
Finish(w) ==
    LET completed == [state |-> "completed", dest |-> dest[w], next |-> next[w]]
    IN
    /\ pc[w] = "finish"
    /\ \/ run' = completed /\ Return(w, "ok") /\ UNCHANGED budget
       \/ Spend("errors") /\ run' \in {run, completed} /\ Return(w, "error")
    /\ UNCHANGED <<preview, job, attempt, remote>>

----------------------------------------------------------------------------
(* River, the worker processes and the provider.                           *)

\* Work returns.  River updates the job only if it is still running.
Report(w) ==
    /\ pc[w] = "report"
    /\ job' = SettledJob(job, result[w], attempt[w], MaxAttempts)
    /\ Goto(w, "idle")
    /\ result' = [result EXCEPT ![w] = "ok"]
    /\ attempt' = [attempt EXCEPT ![w] = 0]
    /\ UNCHANGED <<preview, run, lock, local, remote, budget>>

\* The process dies, or is cancelled and its report is lost.  PostgreSQL
\* rolls the transaction back; the provider keeps what it was told.
Crash(w) ==
    /\ pc[w] # "idle"
    /\ Spend("errors")
    /\ Goto(w, "idle")
    /\ Release(w)
    /\ result' = [result EXCEPT ![w] = "ok"]
    /\ attempt' = [attempt EXCEPT ![w] = 0]
    /\ UNCHANGED <<preview, run, job, remote>>

\* The rescuer takes back a job that has been running too long.  When an
\* attempt is still alive the job may be delivered a second time beside it.
Rescue ==
    /\ job.state = "running"
    /\ job' = RescuedJob(job, MaxAttempts)
    /\ \/ /\ \A w \in Workers : pc[w] = "idle"
          /\ UNCHANGED budget
       \/ /\ \E w \in Workers : pc[w] # "idle"
          /\ Spend("errors")
    /\ UNCHANGED <<preview, run, lock, pc, local, attempt, result, remote>>

\* The provider applies a write whose caller has given up.
LateArrives ==
    /\ \E r \in late :
          /\ late' = late \ {r}
          /\ IF r.op = "create"
             THEN lib' = lib \cup {r.playlist} /\ UNCHANGED items
             ELSE items' = [items EXCEPT ![r.playlist] = Append(@, r.track)] /\ UNCHANGED lib
    /\ UNCHANGED <<store, pc, local, attempt, result, budget>>

\* A track is withdrawn from the provider's catalogue: its entry stays.
Withdraw ==
    /\ Spend("withdrawn")
    /\ \E p \in lib : \E i \in 1..Len(items[p]) :
          /\ items[p][i] # Unavailable
          /\ items' = [items EXCEPT ![p][i] = Unavailable]
    /\ UNCHANGED <<store, pc, local, attempt, result, lib, late>>

Attempt(w) ==
    \/ Load(w) \/ LoadFails(w)
    \/ CallFails(w) \/ RateLimited(w) \/ Unsupported(w)
    \/ Find(w) \/ Create(w) \/ Read(w) \/ Add(w) \/ Finish(w)
    \/ Report(w)

Next ==
    \/ EnqueueRun \/ SavePreview
    \/ \E w \in Workers : Fetch(w) \/ Attempt(w) \/ Crash(w)
    \/ Rescue \/ LateArrives \/ Withdraw

Spec == Init /\ [][Next]_vars

\* Workers poll the queue and run what they fetch to its end, and the rescuer
\* runs.  Nothing is assumed of the HTTP client, of faults or of the provider.
FairSpec ==
    /\ Spec
    /\ WF_vars(\E w \in Workers : Fetch(w))
    /\ \A w \in Workers : WF_vars(Attempt(w))
    /\ WF_vars(Rescue)

----------------------------------------------------------------------------
(* Properties.                                                             *)

\* A run makes at most one playlist, whatever is retried, rescued or lost:
\* findPlaylistByName recognises what an earlier attempt created.
OnePlaylist == \A p, q \in lib : p = q

\* Two deliveries of the job never work on the destination at the same time:
\* the row locks of loadRunForUpdate are held across the provider calls.
WritersSerialized ==
    \A v, w \in Workers : pc[v] \in Locked /\ pc[w] \in Locked => v = w

\* Once the run is recorded as completed no delivery, late or duplicated,
\* works on the destination again.
CompletedQuiet ==
    run.state = "completed" => \A w \in Workers : pc[w] \notin Locked

\* When the run becomes completed, its playlist holds the matched tracks in
\* order, duplicates included, and nothing else.
CompletionExact ==
    [][run.state # "completed" /\ run'.state = "completed"
         => run'.dest \in lib /\ items[run'.dest] = preview]_vars

\* Reconciliation never writes a track a second time: with one preview no
\* playlist ever outgrows it.
NoExtraTracks == \A p \in PlaylistIds : Len(items[p]) <= Len(preview)

\* When River is done with the job, the run says how it ended.
SettledJobReported ==
    job.state \in Settled => run.state \in {"failed", "completed"}

\* River is eventually done with the job even when every attempt fails, as
\* with a name the adapter rejects.
JobSettles == job.state = "available" ~> job.state \in Settled

\* A queued run is eventually completed when fewer attempts fail than
\* MaxAttempts allows.
EventuallyCompleted == run.state = "queued" ~> run.state = "completed"

\* What the run promises, as an atomic copy of the persisted preview.
Copy == INSTANCE PlaylistCopy WITH
            plan <- preview,
            done <- IF run.state = "completed" THEN run.dest ELSE NoPlaylist

CopySpec == Copy!Spec
=============================================================================
