---------------------------- MODULE Connections ----------------------------
(***************************************************************************)
(* The database pool of each process and the Spotify credentials of one    *)
(* browser session: internal/platform/database.go, withConnection in       *)
(* internal/spotify/playlists.go, Update in internal/spotify/store.go and  *)
(* Refresh in internal/spotify/client.go.                                  *)
(*                                                                         *)
(* A task is a goroutine: a transfer attempt, an import attempt or an HTTP *)
(* request.  A transfer attempt keeps one pooled connection for its own    *)
(* transaction and takes a second one for every provider call.  A Spotify  *)
(* call is made inside the transaction that locks the credentials' row,    *)
(* refreshes the tokens if need be and stores them when it commits.        *)
(***************************************************************************)
EXTENDS Integers, FiniteSets

CONSTANTS
    Processes,      \* the API and worker processes, each with a pool
    Tasks,          \* goroutines that use the connection
    Home,           \* the process each task runs in
    Runs,           \* tasks that are transfer attempts
    Jobs,           \* tasks that River starts: transfer and import attempts
    Apple,          \* tasks whose provider is Apple Music
    NoTask,         \* nobody holds the row
    PoolSize,       \* MaxConns of each pool (10)
    MaxWorkers,     \* WORKER_CONCURRENCY (4 unless configured)
    MaxRotations    \* bound: how often Spotify replaces the refresh token

ASSUME TasksAssumption ==
    /\ Home \in [Tasks -> Processes]
    /\ Runs \subseteq Jobs /\ Jobs \subseteq Tasks /\ Apple \subseteq Tasks
    /\ NoTask \notin Tasks /\ IsFiniteSet(Tasks)
ASSUME SizesAssumption ==
    PoolSize \in Nat \ {0} /\ MaxWorkers \in Nat \ {0} /\ MaxRotations \in Nat

VARIABLES
    pc,         \* where each task is
    outer,      \* tasks that hold a connection for their own transaction
    inner,      \* tasks that hold a connection for a provider call
    row,        \* the spotify_connections row: live or gone
    rowLock,    \* the task whose transaction has locked the row
    stored,     \* the refresh token in the row
    due,        \* the row's access token is within a minute of its expiry
    creds,      \* the refresh token each task works with, 0 outside Update
    refreshed,  \* tasks that have replaced their tokens in this transaction
    grant,      \* Spotify's side: the refresh token it accepts
    lost        \* a fault has kept a replaced token from being stored

poolVars == <<outer, inner>>
rowVars == <<row, stored, due>>
workVars == <<creds, refreshed>>
vars == <<pc, poolVars, rowVars, rowLock, workVars, grant, lost>>

RefreshTokens == 0..MaxRotations
Waits == {"begin", "acquire", "lock"}
PCs == Waits \cup {"idle", "ready", "load", "refresh", "call", "commit"}

\* Connections of process p's pool in use.
Held(p) == Cardinality({t \in outer : Home[t] = p}) + Cardinality({t \in inner : Home[t] = p})

\* Every variable has its type, the pools are within MaxConns, and the tasks
\* that hold a connection, the row or tokens are those whose code says so.
TypeOK ==
    /\ pc \in [Tasks -> PCs]
    /\ outer = {t \in Runs : pc[t] \notin {"idle", "begin"}}
    /\ inner = {t \in Tasks : \/ pc[t] \in {"lock", "load"}
                              \/ t \notin Apple /\ pc[t] \in {"refresh", "call", "commit"}}
    /\ \A p \in Processes : Held(p) <= PoolSize
    /\ row \in {"live", "gone"} /\ due \in BOOLEAN /\ lost \in BOOLEAN
    /\ rowLock \in Tasks \cup {NoTask}
    /\ stored \in RefreshTokens /\ grant \in RefreshTokens
    /\ creds \in [Tasks -> RefreshTokens]
    /\ refreshed \subseteq Tasks

Init ==
    /\ pc = [t \in Tasks |-> "idle"]
    /\ outer = {} /\ inner = {}
    /\ row = "live" /\ rowLock = NoTask
    /\ stored = 0 /\ grant = 0
    /\ due \in BOOLEAN
    /\ creds = [t \in Tasks |-> 0]
    /\ refreshed = {}
    /\ lost = FALSE

----------------------------------------------------------------------------
(* The pool, the row lock and the ways out of a transaction.               *)

PoolUnlimited(p) == TRUE

\* pgxpool hands out a connection: fewer than MaxConns are in use.
PoolFree(p) == Held(p) < PoolSize

ConcurrencyUnlimited(p) == TRUE

\* River starts another attempt in process p: fewer than MaxWorkers are running.
WorkerFree(p) == Cardinality({t \in Jobs : Home[t] = p /\ pc[t] # "idle"}) < MaxWorkers

RowUnlocked == TRUE

\* SELECT ... FOR UPDATE gets the row without waiting.
RowFree == rowLock = NoTask

Goto(t, place) == pc' = [pc EXCEPT ![t] = place]

\* t's transaction holds a token that the row does not have yet.
Unsaved(t) == rowLock = t /\ t \in refreshed /\ creds[t] # stored

KeepConnection(t) ==
    /\ inner' = inner
    /\ rowLock' = IF rowLock = t THEN NoTask ELSE rowLock
    /\ refreshed' = refreshed \ {t}
    /\ creds' = [creds EXCEPT ![t] = 0]

\* The transaction of the provider call ends, by commit or rollback: the row is
\* unlocked and the connection goes back to the pool.
EndCall(t) ==
    /\ inner' = inner \ {t}
    /\ rowLock' = IF rowLock = t THEN NoTask ELSE rowLock
    /\ refreshed' = refreshed \ {t}
    /\ creds' = [creds EXCEPT ![t] = 0]

----------------------------------------------------------------------------
(* A task.                                                                 *)

\* River delivers an attempt, or an HTTP request arrives.
Start(t) ==
    /\ pc[t] = "idle"
    /\ t \in Jobs => WorkerFree(Home[t])
    /\ Goto(t, IF t \in Runs THEN "begin" ELSE "ready")
    /\ UNCHANGED <<poolVars, rowVars, rowLock, workVars, grant, lost>>

\* runOnce begins the transaction that it keeps open until it returns.
BeginRun(t) ==
    /\ pc[t] = "begin"
    /\ PoolFree(Home[t])
    /\ outer' = outer \cup {t}
    /\ Goto(t, "ready")
    /\ UNCHANGED <<inner, rowVars, rowLock, workVars, grant, lost>>

\* The next provider call begins.
NextCall(t) ==
    /\ pc[t] = "ready"
    /\ Goto(t, "acquire")
    /\ UNCHANGED <<poolVars, rowVars, rowLock, workVars, grant, lost>>

\* The task has made its calls: its own transaction ends.
Finish(t) ==
    /\ pc[t] = "ready"
    /\ outer' = outer \ {t}
    /\ Goto(t, "idle")
    /\ UNCHANGED <<inner, rowVars, rowLock, workVars, grant, lost>>

\* pool.Begin in Update, or pool.QueryRow in the Apple Music store's Load.
Acquire(t) ==
    /\ pc[t] = "acquire"
    /\ PoolFree(Home[t])
    /\ inner' = inner \cup {t}
    /\ Goto(t, IF t \in Apple THEN "load" ELSE "lock")
    /\ UNCHANGED <<outer, rowVars, rowLock, workVars, grant, lost>>

\* Load reads the row (or finds none) and gives the connection back at once.
Load(t) ==
    /\ pc[t] = "load"
    /\ inner' = inner \ {t}
    /\ \E place \in {"call", "ready"} : Goto(t, place)
    /\ UNCHANGED <<outer, rowVars, rowLock, workVars, grant, lost>>

\* Update locks the row and decrypts it; withConnection refreshes first if the
\* access token is about to expire.
LockRow(t) ==
    /\ pc[t] = "lock"
    /\ RowFree /\ row = "live"
    /\ rowLock' = t
    /\ creds' = [creds EXCEPT ![t] = stored]
    /\ Goto(t, IF due THEN "refresh" ELSE "call")
    /\ UNCHANGED <<poolVars, rowVars, refreshed, grant, lost>>

\* The row is gone: ErrNoConnection.
NoConnection(t) ==
    /\ pc[t] = "lock"
    /\ RowFree /\ row = "gone"
    /\ EndCall(t)
    /\ Goto(t, "ready")
    /\ UNCHANGED <<outer, rowVars, grant, lost>>

\* What Spotify keeps of the grant when it accepts a refresh token: the same
\* one, or a replacement that ends the old one.
Answers == {g \in {grant, grant + 1} : g <= MaxRotations}

\* Refresh succeeds.  An answer without a refresh token keeps the previous one.
RefreshTokensNow(t) ==
    /\ pc[t] = "refresh"
    /\ creds[t] = grant
    /\ \E answer \in Answers :
          /\ grant' = answer
          /\ creds' = [creds EXCEPT ![t] = answer]
    /\ refreshed' = refreshed \cup {t}
    /\ Goto(t, "call")
    /\ UNCHANGED <<poolVars, rowVars, rowLock, lost>>

\* Refresh is refused (invalid_grant for a token Spotify has replaced, or any
\* other status): Update rolls back and the caller gets the error.
RefreshRefused(t) ==
    /\ pc[t] = "refresh"
    /\ EndCall(t)
    /\ Goto(t, "ready")
    /\ UNCHANGED <<outer, rowVars, grant, lost>>

\* Spotify replaced the token and its answer did not arrive.
RefreshReplyLost(t) ==
    /\ pc[t] = "refresh"
    /\ creds[t] = grant /\ grant + 1 <= MaxRotations
    /\ grant' = grant + 1
    /\ lost' = TRUE
    /\ EndCall(t)
    /\ Goto(t, "ready")
    /\ UNCHANGED <<outer, rowVars>>

AnsweredRollback(t) ==
    /\ pc[t] = "call" /\ t \notin Apple
    /\ \/ Goto(t, "commit") /\ UNCHANGED <<inner, rowLock, workVars>>
       \/ Goto(t, "ready") /\ EndCall(t)
    /\ UNCHANGED <<outer, rowVars, grant, lost>>

\* The resource request is answered, with a result or with an error; either way
\* Update goes on to store the credentials.
Answered(t) ==
    /\ pc[t] = "call" /\ t \notin Apple
    /\ Goto(t, "commit")
    /\ UNCHANGED <<poolVars, rowVars, rowLock, workVars, grant, lost>>

\* 401 with tokens that were not refreshed: refresh them and ask again, once.
Unauthorized(t) ==
    /\ pc[t] = "call" /\ t \notin Apple
    /\ t \notin refreshed
    /\ Goto(t, "refresh")
    /\ UNCHANGED <<poolVars, rowVars, rowLock, workVars, grant, lost>>

\* The Apple Music call is answered; it needed no connection.
AppleAnswered(t) ==
    /\ pc[t] = "call" /\ t \in Apple
    /\ Goto(t, "ready")
    /\ UNCHANGED <<poolVars, rowVars, rowLock, workVars, grant, lost>>

\* UPDATE and COMMIT: the row has the tokens t worked with.
Commit(t) ==
    /\ pc[t] = "commit"
    /\ stored' = creds[t]
    /\ due' = IF t \in refreshed THEN FALSE ELSE due
    /\ EndCall(t)
    /\ Goto(t, "ready")
    /\ UNCHANGED <<outer, row, grant, lost>>

\* The statement or the commit fails: everything of the transaction is undone.
CommitFails(t) ==
    /\ pc[t] = "commit"
    /\ EndCall(t)
    /\ lost' = (lost \/ Unsaved(t))
    /\ Goto(t, "ready")
    /\ UNCHANGED <<outer, rowVars, grant>>

----------------------------------------------------------------------------
(* Deadlines, crashes, the clock and the owner.                            *)

\* A set of tasks ends at once, with their transactions rolled back.
Ends(gone) ==
    /\ pc' = [t \in Tasks |-> IF t \in gone THEN "idle" ELSE pc[t]]
    /\ outer' = outer \ gone
    /\ inner' = inner \ gone
    /\ rowLock' = IF rowLock \in gone THEN NoTask ELSE rowLock
    /\ refreshed' = refreshed \ gone
    /\ creds' = [t \in Tasks |-> IF t \in gone THEN 0 ELSE creds[t]]
    /\ lost' = (lost \/ \E t \in gone : Unsaved(t))
    /\ UNCHANGED <<rowVars, grant>>

\* The job's deadline passes or the browser goes away: the context is cancelled
\* and whatever the task waits for fails.
Cancelled(t) == pc[t] # "idle" /\ Ends({t})

\* A process dies; PostgreSQL rolls its transactions back.
Crash(p) == Ends({t \in Tasks : Home[t] = p})

\* Time passes and the stored access token comes within a minute of its expiry.
Expire ==
    /\ ~due /\ due' = TRUE
    /\ UNCHANGED <<pc, poolVars, row, stored, rowLock, workVars, grant, lost>>

\* The user disconnects Spotify: DELETE waits for the row like everybody else.
Disconnect ==
    /\ row = "live" /\ RowFree
    /\ row' = "gone"
    /\ UNCHANGED <<pc, poolVars, stored, due, rowLock, workVars, grant, lost>>

\* The steps a task takes by itself once it is not waiting.
Work(t) ==
    \/ NextCall(t) \/ Finish(t) \/ Load(t)
    \/ RefreshTokensNow(t) \/ RefreshRefused(t)
    \/ Answered(t) \/ Unauthorized(t) \/ AppleAnswered(t)
    \/ Commit(t)

\* The steps a task waits for: pgxpool and PostgreSQL serve waiters in turn.
Granted(t) == BeginRun(t) \/ Acquire(t) \/ LockRow(t) \/ NoConnection(t)

Fault(t) == RefreshReplyLost(t) \/ CommitFails(t) \/ Cancelled(t)

Next ==
    \/ \E t \in Tasks : Start(t) \/ Work(t) \/ Granted(t) \/ Fault(t)
    \/ \E p \in Processes : Crash(p)
    \/ Expire \/ Disconnect

Spec == Init /\ [][Next]_vars

\* A task that can go on does; a waiter that could be served again and again is
\* served.  No deadline is relied on, and no request is bound to arrive.
Fairness == \A t \in Tasks :
    WF_vars(Work(t)) /\ SF_vars(Granted(t))

FairSpec == Spec /\ Fairness

----------------------------------------------------------------------------
(* Properties.                                                             *)

\* Unless a fault dropped an answer or a commit, the row always ends up with
\* the refresh token that Spotify accepts, whatever the resource request did:
\* "a successful rotation is committed even if the following profile request
\* fails" (withConnection).
RotationKept == ~lost /\ row = "live" /\ RowFree => stored = grant

\* Two tasks never present the same refresh token twice: a task about to refresh
\* works with the token Spotify accepts, so nobody is told to reconnect because
\* another task, in this or another process, refreshed first (Update).
NoReplay == \A t \in Tasks : ~lost /\ pc[t] = "refresh" => creds[t] = grant

\* No pool is ever exhausted by tasks that all wait for one more connection of
\* it, which only their deadlines would end (runOnce holds one and needs two).
PoolNotStalled ==
    \A p \in Processes : Held(p) = PoolSize =>
        \E t \in (outer \cup inner) : Home[t] = p /\ pc[t] # "acquire"

\* A task that waits for its transaction, for a connection or for the row is
\* served without the help of a deadline.
Served == \A t \in Tasks : pc[t] \in Waits ~> pc[t] \notin Waits
=============================================================================
