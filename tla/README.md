# A TLA+ verification of the music transfer service

The repository is a Go service that moves playlists between Spotify and Apple
Music. An HTTP API connects a browser to the providers, imports Spotify
playlists as immutable snapshots, previews which destination track each entry
matches, and queues transfer runs. Worker processes execute imports and runs as
jobs of a PostgreSQL-backed queue (River). The code is small; what makes it hard
is that jobs are delivered at least once, that a provider's writes cannot be
rolled back with the transaction they belong to, and that sessions, snapshots and
previews change while jobs are under way. This directory models those parts,
checks them with TLC and proves their safety properties with TLAPS.

## 1. Inventory

| component | state it keeps | operations | what must hold |
|---|---|---|---|
| transfer run worker (`transfer/worker.go`, run half of `transfer/store.go`) | `transfer_runs` row (state, playlist, next position); locks on that row and its preview's; the attempt's locals | `EnqueueRun`, `Work`, `runOnce`, `ensureEntryState`, `updateRunState` | one playlist per run; every matched track once and in order; "completed" only when the playlist holds the preview; attempts serialized; the run says how its job ended; a run that can succeed does |
| provider adapters (`transfer/providers.go`, `spotify/playlists.go`, `applemusic/client.go`) | none here; the account's playlists at the provider | list, read one position, create, append, search | the name looked up is the name created; a walk over all pages ends and misses nothing; unsupported operations and 429 are told apart from errors |
| job queue (River, external; `jobs/jobs.go`) | job state and attempt number | deliver, settle, snooze, cancel, discard, rescue | every job is settled |
| Spotify snapshot import (`spotify/imports.go`, reading half of `spotify/playlists.go`) | `spotify_imports`, `spotify_snapshots` and entries, one job each | `Enqueue`, `Run`, `ReadSnapshot`, `saveSnapshot`, error codes | a snapshot is one version of the playlist, never changes, and is not published for an ended session; one active import per playlist and at most ten per session |
| transfer preview (`transfer/service.go`, preview half of the store) | `transfer_previews` and entries, the match cache | `CreatePreview`, `SavePreview`, `LoadPreview`, `EnqueueRun` | a saved plan is whole; repeated tracks are planned alike; one run per preview; an existing run and its preview stay consistent |
| track matcher (`transfer/matcher.go`) | none | `MatchTrack`, `NormalizeText`, `uniqueTracks` | provider ID before ISRC before title, artist and duration; ambiguity is reported, never guessed; the order of the candidates does not matter |
| Spotify connection and token refresh (`spotify/client.go`, `spotify/store.go`, `withConnection`) | encrypted tokens under a session hash | load under a row lock, refresh, save | refreshes do not overwrite each other; a rotated token is not lost |
| OAuth flow (`spotify/auth.go`) | in-memory map of pending authorizations, a state cookie | start, callback | an authorization is used once, by the browser that started it; the map is bounded |
| sessions and Apple Music connection (`applemusic/http.go`, both stores) | one `music_session` cookie, a row per provider | connect, disconnect, expiry | browsers do not disturb each other; what a browser connected is usable |
| database pool (`platform/database.go`) | ten connections | acquire, release | attempts that hold one and need another do not wait on each other |
| migrations (`platform/migrations.go`) | applied versions with checksums | apply under an advisory lock | applied once, in order, unchanged |
| processes, configuration, health (`cmd/*`, `config`, `httpapi`) | none | wiring | - |

Interactions: API handlers and workers share only the database. A handler inserts
a row and its job in one transaction; a worker reads the row again when the job is
delivered. The run worker keeps its two row locks across all its provider calls;
imports take the connection's row lock once for every provider call and once to
publish. Snapshots and imports are deleted with the connection (cascade); jobs are
not. The OAuth map lives in one API process and does not survive a restart.

Hard behaviours: a delivery beside the rescue of a slow one; a write that was
applied but whose reply, process or commit was lost; a write applied after its
caller gave up; a preview replaced between two attempts; a playlist edited between
two pages; a session that ends in the middle; clicks at the same time; callbacks
that overlap; attempts that hold a database connection and wait for another; a refresh
token replaced by the provider and not stored; a library that changes under a walk by
offsets; searches that answer differently each time. `PROJECT.json` lists them as hazards, each at its line.

## 2. Modules

| module | models | role |
|---|---|---|
| `River` | the queue, from how `Work`'s results, `MaxAttempts` and redelivery are used (external) | operators used by both workers |
| `TransferRun` | one transfer run: enqueue, re-preview, every step of an attempt, the provider, faults | core |
| `PlaylistCopy` | what a run promises: an atomic copy of the current preview | abstract specification, implemented by `TransferRun` |
| `TransferRunProofs` | - | TLAPS proofs about `TransferRun`: types, serialization, the copy |
| `TransferJobProofs` | - | more of them: how the run's job ends |
| `SnapshotImport` | imports of one session: requests, paged reads, publication, the session's end, the owner's edits | component |
| `Sessions` | OAuth flow, cookies, both providers' connect and disconnect | component |
| `Connections` | the pools of all processes and the Spotify tokens of one session: `Update`, `withConnection`, `Refresh` | component shared by the workers and the API |
| `Matcher` | `MatchTrack` and its helpers, as operators | used by `Preview` |
| `Preview` | overlapping `CreatePreview` and `EnqueueRun` requests for one snapshot and destination | component |
| `LibraryWalk` | `findPlaylistByName` page by page, the step `TransferRun` calls `Find` | component, also its own TLC module |
| `SnapshotImportProofs`, `SessionsProofs`, `ConnectionsProofs`, `PreviewProofs`, `LibraryWalkProofs` | - | TLAPS proofs about the module each is named after |
| `MatcherProofs` | - | TLAPS proofs about the operators of `Matcher`, used by `PreviewProofs` |
| `MCTransferRun`, `MCSnapshotImport`, `MCSessions`, `MCConnections`, `MCPreview` | - | instances for TLC |

Definitions named `...Hasty`, `...Unchecked`, `KeepRows` and the like, placed just before
a definition that models code, are mutated forms of it. No specification uses them;
each is substituted in turn to show that the property it is meant for notices.

### TransferRun

State: the run's row (`run`), the persisted matched list (`preview`), the River job,
one `lock` for the run and preview rows (both are taken by the same statement, in
`loadRunForUpdate`), and for each worker goroutine its place in `Work` (`pc`) and
the locals `plan` (`matchedEntries`), `dest` (`playlistID`) and `next` (the position,
counted from 0 as in the code). The provider is `lib` (playlists the run created),
`items` (what each holds) and `late` (timed-out writes it may still apply).

| action | code |
|---|---|
| `EnqueueRun` | `Store.EnqueueRun`: row and job in one transaction; a second request returns the stored run |
| `SavePreview` | the upsert of a preview that exists; it waits for the row a running attempt holds |
| `Fetch`, `Report`, `Rescue` | River's delivery, the result of `Work`, the rescuer |
| `Load`, `LoadFails` | `loadRunForUpdate` with its early returns: completed, provider not configured, ready |
| `Find`, `Create`, `Read`, `Add` | `findPlaylistByName`, `CreatePlaylist`, the two halves of `ensureEntryState` |
| `CallFails`, `RateLimited`, `Unsupported` | the three kinds of provider error and what `Work` makes of them |
| `Finish` | `updateRunState("completed")` and the commit, with a lost acknowledgement |
| `Crash` | the process dies or the job is cancelled; the transaction is rolled back, the provider is not |
| `LateArrives`, `Withdraw` | the provider applies an abandoned write; an entry loses its track |

Each provider call is one step with the outcomes a caller can see: answered, failed
without effect, applied with the reply lost, or given up on while the provider still
has the request. Names are abstracted to their leading blanks and length, which is
what `strings.TrimSpace` and the length check tell apart. `Find` is one step over
all pages; `LibraryWalk` takes it apart. Two playlists with the same name from outside the run, and users who
edit the destination, are left out.

### SnapshotImport

State: the connection (`live`, `expired`, `gone`) with its row lock, the rows of
`spotify_imports` and `spotify_snapshots`, a job for each import, each playlist as
the `history` of its contents (Spotify's `snapshot_id` is the position in it), and
each worker's read in progress. `EnqueueLock` and `EnqueueDecide` are the two halves
of `Enqueue`, so that requests overlap; `Meta`, `Page`, `Verify` are the provider
calls of `ReadSnapshot`, each of which waits for the connection's row; `Save` is
`saveSnapshot`'s transaction, `Note` the update of `error_code` whose error `Work`
ignores. The limit of active imports (10 in the code) is `maxActive`, chosen from `ActiveLimits`
at the start and never changed, so that one run checks several limits. A page may be shorter than `PageSize`, as the code allows. Entries are
occurrences, so equal tracks at two positions are two entries.

### Sessions

State: the map of pending flows, the two cookies of each browser, the rows of both
providers' tables, and requests between reading their cookies and answering. A
request uses the cookies it was sent with; its answer may be lost. A connect is `Callback` or
`ConnectApple`, then `Save` and `Answer`; a disconnect is `Disconnect`, `Delete` of the row, and `Clear`, which
takes whatever session the cookie holds by then. If the deletion fails, Spotify's handler
answers with an error and keeps the cookie, Apple's clears it all the same. `connected` is
what a browser was told and has not undone; it only serves to state `ConnectionsKept`.
PKCE, the token exchange and the profile call are success or failure.

### Connections

A task is a goroutine of some process: a transfer attempt, an import attempt or an
HTTP request. `outer` and `inner` are the tasks that hold a connection of their process's
pool for their own transaction (`runOnce`) and for a provider call (`Update`, or the Apple
Music store's `Load`, which gives it back before the call). `rowLock`, `stored` and `due`
are the `spotify_connections` row, `creds` and `refreshed` the locals of `withConnection`,
and `grant` the refresh token that Spotify accepts: a refresh may replace it, and then
the old one is refused. Tokens are numbered; 0 is the one of the first exchange.

| action | code |
|---|---|
| `Start`, `BeginRun`, `NextCall`, `Finish` | a delivery or a request, `runOnce`'s transaction around its provider calls |
| `Acquire`, `LockRow`, `NoConnection` | `pool.Begin` and `SELECT ... FOR UPDATE` in `Update` |
| `Load`, `AppleAnswered` | the same for Apple Music, which locks nothing |
| `RefreshTokensNow`, `RefreshRefused`, `RefreshReplyLost` | `Refresh`: before the call, and again after a 401 (`Unauthorized`) |
| `Answered`, `Commit`, `CommitFails` | the resource request with whatever result, then `UPDATE` and `COMMIT` |
| `Cancelled`, `Crash` | a deadline or a browser that left; the end of a process |
| `Expire`, `Disconnect` | the access token's last minute; the row's removal |

`lost` remembers that a fault (a lost answer, a failed commit, a cancelled transaction)
kept a replaced token from being stored. Nothing in the code can prevent that, and the
guide tells users to reconnect; `RotationKept` and `NoReplay` are about all other histories.

### Matcher and Preview

A text is its normal form and the raw one, cut at the bars in it. `MatchTrack` compares
normal forms; `matchingKey` joins raw texts with bars that nothing escapes, so `Joined` is the
sequence of the pieces between all bars: "A|B" by "C" and "A" by "B" and "C" have the same
one, and local files, which have no ID, then share a key. Provider IDs are no part of the
key. `filterTracks` is a set of positions in the sorted candidates,
and the sort of `uniqueTracks` is `inOrder`: the sequence that lists a set of tracks with
different IDs by increasing ID (after the removal of duplicates no two are equal, so a
stable sort has one result). `Justified` says what a decision must rest on, without
following `MatchTrack`'s order of attempts. `Source` is what a snapshot's items become through
`playlistOccurrence.entry` and `fromSpotifyEntry`. Each request of `Preview` reads the
snapshot's metadata and its entries in two steps (`READ COMMITTED`: a disconnect may fall
between them), then classifies one entry per step: `Skip`, `Reuse` of the cache, `Search`, or
`SearchUnsupported`. A search returns any of `Answers`, so the same query may be answered
differently; without a search term the adapters return nothing, and Spotify's needs no
connection for that. The rows keep, beside each result, the candidates it was computed from
(`seen`), which only the properties use. `CreateEnds` is `SavePreview`'s transaction; every
failure before it is `CreateFails`. `EnqueueCheck` and `EnqueueInsert` are the two halves of
`EnqueueRun`, the second under the table's `UNIQUE (preview_id)`.

### LibraryWalk

The account's library is the sequence of its playlists, the run's `own` one and `other`
ones. A page brings between one and `Limit` playlists, or none once the provider's
listing has gone `hollow` (empty pages although there is more), which Spotify's adapter
refuses and Apple Music's does not. The owner inserts and deletes anywhere while the
walk goes on. `shrunk` remembers a deletion during a walk.

## 3. Runs

Bounds count faults, not steps: within them every order is explored. `CHECK_DEADLOCK
FALSE` appears where the system really comes to rest, when the job is settled and the
bounds are spent.

| run | bounds | shows |
|---|---|---|
| `RunFaults` | 2 workers, plan of 3 with a repeated track, 4 attempts, 3 faults, 1 rate limit | one playlist, no track twice, exact completion, completion under fairness, no job settled with the run still queued |
| `RunReplan` | 3 workers, one without the provider, 4 previews (grown, shrunk, exchanged, empty), 3 attempts, 2 faults | `TransferRun` implements `PlaylistCopy` while the preview is replaced, also after a controlled failure whose record was lost |
| `RunLate` | 2 workers, one plan of 2, 3 attempts, 2 faults, 1 late write, 1 withdrawn track | serialization and quiet after completion do not depend on the provider; the job still settles |
| `RunUnsupported` | a process without the provider, a provider that cannot append, no other faults | a controlled failure is recorded before the job is cancelled |
| `ImportFaults` | 2 workers, 1 import, 3 contents (two orders of the same tracks, one too large), 2 edits, 2 faults, 3 attempts | snapshots are faithful, immutable, bounded, and end with the session |
| `ImportRequests` | 2 requests at a time, 2 playlists, 2 imports, limits 1 and 2, 1 worker, 2 attempts, 1 fault, 1 rate limit, 1 refusal | no second active import, limit kept; jobs settle; an import is published unless its session ends or its attempts are used up |
| `Library` | pages of 2, offsets up to 5, libraries up to 7, both providers | no second playlist; the walk ends |
| `Connections` | 3 transfer attempts (one to Apple Music) and an import, 2 at a time, and a request of another process; pools of 3; 2 rotations | tokens kept and not replayed; no stalled pool; waiters served |
| `Previews` | 2 previews and 2 starts at a time, 3 destinations (one that cannot be searched), 8 entries with a repeated and a relinked track and two local files of one key, 5 answers to a search | whole plans, equal tracks alike, no guess, repeatable, one run |
| `Browsers` | 2 browsers, flows, sessions and overlapping requests (connects and disconnects), 1 pending flow | single use, binding to the browser, bounded map, independence |
| `LongName`, `TwoProviders` | the smallest that show it | violations, section 5 |

Why the bounds are enough. The properties of a run are about a position being
written twice, skipped or misjudged; three positions with a repeated track tell
positions from tracks, and two attempts plus one overlapping delivery are the
longest interaction, since attempts share nothing but the rows, the job and the
provider. Three faults allow a lost create, a lost append and a crash in one run.
For imports two edits reach the case where a playlist changes and changes back to
its former length between two pages, and the case where two deliveries read
different versions. For requests, two imports against a limit of one exceed it by
one; under a limit of two only the search for an existing import keeps a playlist from
having both, and that search is what `OneActivePerPlaylist`'s mutant removes. (A third import
multiplies the states beyond what can be checked with liveness; the two properties are
theorems for any limit and any number of imports.) A library of seven with pages of two has an own playlist on, before and after
every page boundary and offsets beyond the adapter's limit. In `Connections` the
interesting numbers are relative: a pool one larger than the concurrency is the
tightest in which attempts cannot wait on each other, and two rotations let a task
hold a token that is two behind. The answers of `Previews` hold every kind of evidence
alone and together, in both orders, at the tolerance and one millisecond
beyond it, and a candidate without an ID; the local files' answer is right for the first
and wrong for the second, which inherits it. In `Browsers` two sessions have
overlapping reconnects of one browser or a row of the other, not both together; `BrowsersIndependent` has any
number. The theorems remove the bounds for everything but liveness.

`RunUnsupported` has no database faults: `FailRun` ignores the error of the commit that
records the failure, so one fault there leaves the run queued for ever although the
job is cancelled. The hazard list has it (`worker.go:67`).

Symmetry is used only where no property of the run is temporal with fairness and no
value of the set is used apart from the others: the workers of `ImportFaults`, the
requests of `Previews`, everything in `Browsers`.

## 4. Fairness

`TransferRun!FairSpec`: workers poll, so a waiting job is fetched (WF); a fetched job is
run to its end, since every provider call has a client timeout and every wait for
the rows ends with the other attempt's transaction (WF of each worker's `Attempt`);
River's rescuer runs (WF). Nothing is assumed of HTTP clients, faults or the
provider's late writes. Snoozed and retryable jobs become due; time is not modelled,
so a fetch may happen as soon as they wait.

`SnapshotImport!FairSpec` needs strong fairness in two places. A worker waits for the
connection's row between calls of others: PostgreSQL queues waiters, so a lock that
is free again and again is granted. A job waits while workers take other jobs: River
fetches in scheduled order, so it is not passed over for ever. Requests end (WF).

`Connections!FairSpec`: a task that is not waiting goes on (WF of `Work`), because every call
has a client timeout. A task that waits for a pooled connection or for the row is
granted it if it is available again and again (SF): pgxpool and PostgreSQL queue their
waiters. No deadline is relied on, so `Served` says that nobody needs one.

`LibraryWalk!FairSpec`: a page that is asked for is answered, one way or the other (WF).

`EventuallyCompleted` and `EventuallyPublished` hold because the instances have fewer
faults (and edits) than attempts; that is the promise the retry policy makes.

## 5. Findings

Each is a run that TLC must find violated.

- `LongName`: a source name above 80 bytes is rejected locally in every attempt; the job
  is discarded and the run stays queued, without an error code.
- `TwoProviders`: both providers' connects issue a new session in the one cookie, so a
  browser that connects the second provider loses the first, and a preview needs both.

Met while modelling and kept as hazards. Two are shown by a change of one constant in
`RunFaults.cfg`:

- with `MaxLate = 1`, `OnePlaylist` and, checked alone, `CompletionExact` fail: a create or an
  append given up on after the client's timeout and applied by the provider after the
  retry has looked is applied twice, and the run completes (`worker.go:155`; `spotify/playlists.go:317` says retries
  reconcile safely);
- with `SourceName <- PaddedName`, `OnePlaylist` fails: `runOnce` looks for the source name as
  it is, `CreatePlaylist` trims it, so a retry never finds what it created.

The others: with `PoolSize` equal to `MaxWorkers` in `Connections.cfg`, `PoolNotStalled` and
`Served` fail, since all attempts hold one connection and wait for another until their
deadlines end them (the service's README allows a concurrency up to 100 with pools of
10); a snapshot deleted between the two statements that read it gives a saved preview
without entries (`store.go:30`); a playlist deleted during a walk can hide the run's own
(`worker.go:140`, `OneOwn` without its hypothesis); Apple Music's adapter asks for the same
page for ever when it is empty and has a next link (`providers.go:128`, `WalkEnds` without
its exception); the key of the match cache does not escape its separator and ignores the provider IDs
(`service.go:78`), so a local file or a relinked track may be given the match of another that
reads the same: `NoGuess` allows exactly that, and fails if only evidence for the entry's own
track counts; a destination entry that lost its track is
appended again (`worker.go:149`); a preview shortened between attempts completes with a
longer playlist (`store.go:98`; in `RunReplan` this is the case `PlaylistCopy` allows, its
`Conclude` asking only that the playlist begins with the plan); `error_code` written after publication
(`imports.go:269`).

## 6. Proofs

All invariants and action properties of the passing runs are theorems, for every value
of the constants that satisfies the named assumptions of the modules: any number of
workers, processes, browsers, tracks, pages, previews and faults.

| module | theorem | statement | hypotheses |
|---|---|---|---|
| `TransferRunProofs` | `TypeCorrect` | `Spec => []TypeOK` | - |
| | `Serialized` | `Spec => []WritersSerialized` | - |
| | `QuietAfterCompletion` | `Spec => []CompletedQuiet` | - |
| | `AtMostOnePlaylist` | `Spec => []OnePlaylist` | `Reliable` |
| | `ImplementsCopy` | `Spec => CopySpec` | `Reliable` |
| | `NoTrackTwice` | `Spec => []NoExtraTracks` | `Reliable`, `OnePreview` |
| | `CompletesExactly` | `Spec => CompletionExact` | `Reliable`, `OnePreview` |
| `TransferJobProofs` | `NeverGivenUp` | `Spec => []NotGivenUp` | `Feasible` |
| | `SettledIsReported` | `Spec => []SettledJobReported` | `Feasible` |
| `SnapshotImportProofs` | `TypeInvariant` | `Spec => []TypeOK` | - |
| | `PublishedFaithfully` | `Spec => []SnapshotFaithful` | - |
| | `PublishedOnce` | `Spec => SnapshotImmutable` | - |
| | `EndedSessionsStayEmpty` | `Spec => SessionEndIsFinal` | - |
| | `CompletedMeansPublished` | `Spec => []CompletedHasSnapshot` | - |
| | `AtMostOneActive` | `Spec => []OneActivePerPlaylist` | - |
| | `ActiveWithinLimit` | `Spec => []ActiveBounded` | - |
| `ConnectionsProofs` | `TypeInvariant` | `Spec => []TypeOK` | - |
| | `RotationIsKept` | `Spec => []RotationKept` | - |
| | `TokensNotReplayed` | `Spec => []NoReplay` | - |
| | `PoolNeverStalls` | `Spec => []PoolNotStalled` | `MaxWorkers < PoolSize` |
| `SessionsProofs` | `TypeInvariant` | `Spec => []TypeOK` | - |
| | `FlowsUsedOnce` | `Spec => []SingleUse` | - |
| | `SessionsFromOwnFlows` | `Spec => []FlowBoundToBrowser` | - |
| | `BrowsersIndependent` | `Spec => Independent` | - |
| | `PendingWithinLimit` | `Spec => []PendingBounded` | - |
| `LibraryWalkProofs` | `TypeInvariant` | `Spec => []TypeOK` | - |
| | `NoSecondPlaylist` | `Spec => []OneOwn` | - |
| `MatcherProofs` | `MatchIgnoresOrder` | equal sets of candidates give equal results | `Catalogued` |
| | `MatchIsJustified` | `Justified(...)` of what `MatchTrack` returns | `Catalogued` |
| `PreviewProofs` | `TypeInvariant` | `Spec => []TypeOK` | - |
| | `PlansAreWhole` | `Spec => []AllOrNothing` | - |
| | `DuplicatesPlannedAlike` | `Spec => []DuplicatesAgree` | - |
| | `OneRun` | `Spec => []OneRunPerPreview` | - |
| | `PlansNeverGuess` | `Spec => []NoGuess` | `IDsDescribedOnce` |
| | `PlansRepeatable` | `Spec => []Repeatable` | `IDsDescribedOnce` |

### Hypotheses

`Reliable`: no write is applied after its caller gave up, no destination entry loses its
track, the source name has no leading blank. `OnePreview`: the preview is not replaced.
Late writes and a padded name break the properties (section 5), so these are needed.
Lost replies, failed commits, crashes, rescues, duplicate deliveries and rate limits are
covered without a hypothesis.

`Feasible` is the promise of the retry policy: `Reliable` and `OnePreview`, every worker has the
provider, the adapters support the four operations and accept the name, and there are
fewer faults than attempts (`MaxErrors < MaxAttempts`); `Workers` is finite, since the proof counts them.
`LongName` and the remark on `worker.go:67` in section 3 show runs that end otherwise. `RunFaults` is a feasible instance.

`MaxWorkers < PoolSize` holds as deployed (4 and 10); with equality TLC finds the stall.

`Catalogued` and `IDsDescribedOnce`: within one answer a provider gives an ID one description.
`uniqueTracks` keeps the first description of an ID, so without it the order of the
answer shows in the result. Nothing is assumed of the cache keys: where they collide, the
entry has the earlier one's result, and `NoGuess` says so.

Assumptions on constants are in the modules that declare them: parties differ from the
values that stand for none, bounds are natural numbers, `Occurrences` and `Answers` are
sequences of tracks with IDs from `Nat`, and flows are not the two other origins of a session
(`OriginsAssumption`).

### Arguments

`TransferRun`. `WritersSerialized` is not inductive: it says nothing of who holds the rows.
`SerialInv` adds `LockInv` (a worker is inside the body of `runOnce` exactly when it
holds the rows), `LocalInv` (an attempt has a number, a playlist and a track where it
uses them) and `CompletedQuiet`; the type invariant needs `LocalInv` because a snooze
gives an attempt number back. On top of it, `CopyInv` says what a worker knows while
it holds the rows (`AttemptOK`): its plan is the preview, the positions it passed hold
the preview's tracks, it creates only while there is no playlist and appends only at
the end. `SavePreview` cannot break this because it waits for the rows, and no other
worker can because of `LockInv`. `Grows` and `Records` state once how a step may change the
library and the run's row, and every later lemma uses only those two. With one
preview, `PrefixInv` follows (each playlist is a prefix of the preview), and with it exact
completion. The refinement maps `plan` to `preview` and `done` to the playlist of a
completed run; `CopyStep` shows that each step is a step of `PlaylistCopy` or none.

The job. `PaidInv` keeps the books: the attempts that the job has used, plus the attempts
that have failed and not said so yet (`Failing`), never exceed the faults so far, plus one for a
delivery under way. A failure adds one to both sides, a report moves one from the second
term to the first, a snooze gives the attempt back, a rescue beside a live attempt is a
fault of its own, and a rescue with no attempt alive was preceded by the crash that paid
for it. So an attempt that fails is never the last. `AttemptMoves` shows that every step
inside an attempt passes, completes the run, or fails by a fault; with `PrefixInv` the
reconciliation never meets a foreign track, the one failure that no fault explains.

`SnapshotImport`. `ReadOK` is what `ReadSnapshot` knows between two calls: the version of the first
metadata read, how many entries it has, and that they are that version's entries as long
as the version is current, and for good once `Verify` saw it again. That carries
`FaithInv`. `OutcomeInv` ties success to a published snapshot or a row that went with its
session; `ActiveInv` and `LockInv` make the check and the insert of `Enqueue` one decision.

`Connections`. `HolderInv` gives the holders of connections by where tasks are, `PlaceInv` which
tasks can be where, `LockInv` that the row's lock is held from the load to the end of the
call. Then `TokensAgree`: a free row has the token Spotify accepts, and under the lock the
task has it. For the pool, the attempts of a process that River runs (`Busy`) are at most
`MaxWorkers`; each holds at most one outer connection, so outer connections alone never fill
a larger pool, and a pool that is full has an inner one that will be given back.

`Sessions`. `UseInv`: a flow is remembered, taken by one callback, or the origin of one session,
never two of these. `HoldInv`: a session is held by one browser, in its cookie or in a
request of it. `RequestInv` and `FlowInv` tie requests and cookies to the browser that
started the flow.

`LibraryWalk`. `SeenInv`: unless something was deleted under the walk, the run's own playlist is
not before the offset. An insertion moves entries to higher positions only.

`Matcher` and `Preview`. That a finite set of tracks with different IDs can be sorted needs
induction; it is proved from the least number of a set (`LeastNumber`, from the well-founded
order of the naturals), by removing tracks one at a time from a smallest set that cannot
be sorted. `PlanInv` accounts for each classification (`Accounted`): it is what `MatchTrack` makes of the
first entry with the same cache key and one answer. `MatchIsJustified` and `MatchIgnoresOrder` turn that into
`NoGuess` and `Repeatable`; `KeysReadAlike` is the step from equal keys to tracks that read alike.

TLC finds the inductive invariants to hold on the instances of section 3 as well, so no
proof rests on an invariant that those instances would contradict.

### Only model-checked

Liveness: `EventuallyCompleted`, `JobSettles`, `JobsSettle`, `EventuallyPublished`, `Served` and `WalkEnds`,
since fairness and `ENABLED` are outside the prover. `SettledJobReported` where a controlled failure
ends the run (`RunUnsupported`). That `ConnectionsKept` does not hold is a finding, section 5.

## 7. Not modelled

Encryption and hashing, PKCE, JWT signing, HTTP parsing and error pages, JSON
decoding, the static web page, configuration, health endpoints, logging, and the
probe job, which only logs. Operations that only read (`LoadPreview`, `LoadRunStatus`, the
import status and snapshot pages) change no state. Migrations are applied in one
transaction under an exclusive advisory lock, so nothing interleaves with them and no
intermediate state is visible. What Apple Music's library listing uses as the ID of an
appended song is the service's affair; the model takes it to be the appended one, as
the code does. Time is not modelled: timeouts, expiry and back-off are
actions that may happen. `error_code` of a run is abstracted to its state.

## 8. Plan

Every component that changes state is modelled, and every invariant and action property
is proved. What could follow:

1. `SettledJobReported` for runs that fail in a controlled way (no provider, an unsupported
   operation) when no database fault hides the record.
2. `AtMostOnePlaylist` for names with leading blanks, once `runOnce` and `CreatePlaylist` agree on trimming.
3. That `LibraryWalk` implements the step `Find` of `TransferRun`, by a refinement.
