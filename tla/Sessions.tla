------------------------------ MODULE Sessions ------------------------------
(***************************************************************************)
(* Connecting and disconnecting providers from browsers:                   *)
(* internal/spotify/auth.go with its store, and the Apple Music endpoints  *)
(* of internal/applemusic/http.go with theirs.                             *)
(*                                                                         *)
(* The OAuth flow keeps its pending authorizations in the API process.     *)
(* Either provider's connect stores credentials under a new session and    *)
(* hands the browser that session in the one cookie both providers use.    *)
(* A request carries the cookies the browser had when it was sent, and its *)
(* answer changes them later, so requests of one browser overlap.          *)
(***************************************************************************)
EXTENDS Integers, FiniteSets

CONSTANTS
    Browsers,       \* browsers with a cookie jar each
    Flows,          \* OAuth state values; bounds the authorizations started
    SessionIds,     \* session values; bounds the connections stored
    Requests,       \* slots for callbacks, connects and disconnects in progress
    None,           \* no cookie, no flow
    MaxPending      \* authorizations kept in memory (1024)

ASSUME NoneAssumption == None \notin Browsers \cup Flows \cup SessionIds
ASSUME OriginsAssumption == Flows \cap {"unused", "apple"} = {}
ASSUME PendingAssumption == MaxPending \in Nat \ {0}

Providers == {"spotify", "apple"}

VARIABLES
    pending,      \* flows in the map of authorizations
    lapsed,       \* flows older than ten minutes
    owner,        \* the browser that started each flow, None if not started
    flowCookie,   \* spotify_oauth_state of each browser
    cookie,       \* music_session of each browser
    stored,       \* per provider, the sessions with a row
    expired,      \* sessions past their thirty days
    origin,       \* the flow or provider that created each session
    request,      \* requests between consuming their input and their answer
    connected     \* providers each browser was told are connected, and kept

vars == <<pending, lapsed, owner, flowCookie, cookie, stored, expired, origin,
          request, connected>>
flowVars == <<pending, lapsed, owner>>
rowVars == <<stored, expired, origin>>
jarVars == <<flowCookie, cookie, connected>>

Free == [pc |-> "free"]
InProgress ==
    [pc : {"save", "answer", "delete", "clear"}, browser : Browsers, provider : Providers,
     flow : Flows \cup {None}, old : SessionIds \cup {None}, new : SessionIds \cup {None}]

\* Every variable has its type; a session has a row only once created, and
\* never in both providers' tables.
TypeOK ==
    /\ pending \subseteq Flows /\ lapsed \subseteq Flows
    /\ owner \in [Flows -> Browsers \cup {None}]
    /\ flowCookie \in [Browsers -> Flows \cup {None}]
    /\ cookie \in [Browsers -> SessionIds \cup {None}]
    /\ stored \in [Providers -> SUBSET {s \in SessionIds : origin[s] # "unused"}]
    /\ stored["spotify"] \cap stored["apple"] = {}
    /\ expired \subseteq SessionIds
    /\ origin \in [SessionIds -> Flows \cup {"unused", "apple"}]
    /\ request \in [Requests -> {Free} \cup InProgress]
    /\ connected \in [Browsers -> SUBSET Providers]

Init ==
    /\ pending = {} /\ lapsed = {}
    /\ owner = [f \in Flows |-> None]
    /\ flowCookie = [b \in Browsers |-> None]
    /\ cookie = [b \in Browsers |-> None]
    /\ stored = [p \in Providers |-> {}]
    /\ expired = {}
    /\ origin = [s \in SessionIds |-> "unused"]
    /\ request = [r \in Requests |-> Free]
    /\ connected = [b \in Browsers |-> {}]

----------------------------------------------------------------------------
(* The OAuth flow.                                                         *)

FullLate(flows) == Cardinality(flows) > MaxPending
Full(flows) == Cardinality(flows) >= MaxPending

\* GET /auth/spotify: drop what has lapsed, then refuse or remember a new flow.
Start(b, f) ==
    LET kept == pending \ lapsed IN
    /\ owner[f] = None
    /\ IF Full(kept)
       THEN pending' = kept /\ UNCHANGED <<owner, flowCookie>>
       ELSE /\ pending' = kept \cup {f}
            /\ owner' = [owner EXCEPT ![f] = b]
            /\ flowCookie' = [flowCookie EXCEPT ![b] = f]
    /\ UNCHANGED <<lapsed, cookie, connected, rowVars, request>>

\* Ten minutes pass.
Lapse(f) ==
    /\ f \in pending \ lapsed
    /\ lapsed' = lapsed \cup {f}
    /\ UNCHANGED <<pending, owner, jarVars, rowVars, request>>

StateUnchecked(b, f) == TRUE

\* The state of the callback URL is the one in this browser's cookie.
StateMatches(b, f) == flowCookie[b] = f

ConsumeNothing(f) == pending
Consume(f) == pending \ {f}

\* GET /auth/spotify/callback up to the profile: take the flow out of the map
\* and go on if it was there in time, was granted, and Spotify cooperated.
Callback(r, b, f) ==
    /\ request[r] = Free
    /\ owner[f] # None /\ StateMatches(b, f)
    /\ pending' = Consume(f)
    /\ \/ /\ f \in pending \ lapsed
          /\ request' = [request EXCEPT ![r] =
                [pc |-> "save", browser |-> b, provider |-> "spotify", flow |-> f,
                 old |-> cookie[b], new |-> None]]
          /\ UNCHANGED flowCookie
       \/ /\ flowCookie' = [flowCookie EXCEPT ![b] = None]
          /\ UNCHANGED request
    /\ UNCHANGED <<lapsed, owner, cookie, connected, rowVars>>

(* The connections.                                                        *)

\* POST /api/connections/apple-music with a token that Apple accepts.
ConnectApple(r, b) ==
    /\ request[r] = Free
    /\ request' = [request EXCEPT ![r] =
          [pc |-> "save", browser |-> b, provider |-> "apple", flow |-> None,
           old |-> cookie[b], new |-> None]]
    /\ UNCHANGED <<flowVars, jarVars, rowVars>>

PurgeLive(p, old) == stored[p] \cap expired

\* DELETE ... WHERE session_hash = old OR expires_at <= now(), in one table.
Purge(p, old) == (stored[p] \ {old}) \ expired

ReusedSession(q, s) == IF q.old = None THEN origin[s] = "unused" ELSE s = q.old

\* Every connect draws a new random session.
NewSession(q, s) == origin[s] = "unused"

\* Save: replace the old session's row by one for a new session, or fail.
Save(r) ==
    LET q == request[r] IN
    /\ q # Free /\ q.pc = "save"
    /\ \/ \E s \in SessionIds :
             /\ NewSession(q, s)
             /\ stored' = [stored EXCEPT ![q.provider] = Purge(q.provider, q.old) \cup {s}]
             /\ origin' = [origin EXCEPT ![s] = IF q.provider = "apple" THEN "apple" ELSE q.flow]
             /\ request' = [request EXCEPT ![r].pc = "answer", ![r].new = s]
       \/ /\ request' = [request EXCEPT ![r].pc = "answer"]
          /\ UNCHANGED <<stored, origin>>
    /\ UNCHANGED <<flowVars, jarVars, expired>>

\* The browsers whose answers are lost no longer know what is connected.
Unanswered(lost) ==
    connected' = [b \in Browsers |->
        connected[b] \ {request[r].provider :
                           r \in {r \in lost : request[r] # Free /\ request[r].browser = b}}]

\* The answer sets the session cookie, if there is a new session, and a
\* callback's clears the flow cookie; or the answer never arrives.
Answer(r) ==
    LET q == request[r] IN
    /\ q # Free /\ q.pc = "answer"
    /\ request' = [request EXCEPT ![r] = Free]
    /\ \/ Unanswered({r}) /\ UNCHANGED <<flowCookie, cookie>>
       \/ /\ flowCookie' = IF q.flow # None
                           THEN [flowCookie EXCEPT ![q.browser] = None] ELSE flowCookie
          /\ IF q.new = None
             THEN UNCHANGED <<cookie, connected>>
             ELSE /\ cookie' = [cookie EXCEPT ![q.browser] = q.new]
                  /\ connected' = [connected EXCEPT ![q.browser] = @ \cup {q.provider}]
    /\ UNCHANGED <<flowVars, rowVars>>

\* DELETE /api/connections/<provider> from the page's own origin.
Disconnect(r, b, p) ==
    /\ request[r] = Free
    /\ request' = [request EXCEPT ![r] =
          [pc |-> "delete", browser |-> b, provider |-> p, flow |-> None,
           old |-> cookie[b], new |-> None]]
    /\ UNCHANGED <<flowVars, jarVars, rowVars>>

\* Delete the row of the session the request came with, in that provider's
\* table.  If that fails, Spotify's handler answers with an error and leaves
\* the cookie; Apple's does not look.
Delete(r) ==
    LET q == request[r] IN
    /\ q # Free /\ q.pc = "delete"
    /\ \/ /\ stored' = [stored EXCEPT ![q.provider] = @ \ {q.old}]
          /\ request' = [request EXCEPT ![r].pc = "clear"]
       \/ /\ q.old # None
          /\ request' = [request EXCEPT ![r].pc =
                            IF q.provider = "apple" THEN "clear" ELSE "answer"]
          /\ UNCHANGED stored
    /\ UNCHANGED <<flowVars, jarVars, expired, origin>>

\* The answer to a disconnect clears the cookie both providers share, whatever
\* session it holds by then; or the answer never arrives.
Clear(r) ==
    LET q == request[r] IN
    /\ q # Free /\ q.pc = "clear"
    /\ request' = [request EXCEPT ![r] = Free]
    /\ \/ Unanswered({r}) /\ UNCHANGED cookie
       \/ /\ cookie' = [cookie EXCEPT ![q.browser] = None]
          /\ connected' = [connected EXCEPT ![q.browser] = {}]
    /\ UNCHANGED <<flowVars, rowVars, flowCookie>>

\* Thirty days pass for a session.
Expire(s) ==
    /\ s \in (stored["spotify"] \cup stored["apple"]) \ expired
    /\ expired' = expired \cup {s}
    /\ UNCHANGED <<flowVars, jarVars, stored, origin, request>>

\* The API restarts: pending authorizations and open requests are lost.
Restart ==
    /\ pending' = {}
    /\ request' = [r \in Requests |-> Free]
    /\ Unanswered(Requests)
    /\ UNCHANGED <<lapsed, owner, flowCookie, cookie, rowVars>>

Next ==
    \/ \E b \in Browsers, f \in Flows : Start(b, f)
    \/ \E f \in Flows : Lapse(f)
    \/ \E r \in Requests, b \in Browsers, f \in Flows : Callback(r, b, f)
    \/ \E r \in Requests, b \in Browsers : ConnectApple(r, b)
    \/ \E r \in Requests : Save(r) \/ Answer(r) \/ Delete(r) \/ Clear(r)
    \/ \E r \in Requests, b \in Browsers, p \in Providers : Disconnect(r, b, p)
    \/ \E s \in SessionIds : Expire(s)
    \/ Restart

Spec == Init /\ [][Next]_vars

----------------------------------------------------------------------------
(* Properties.                                                             *)

\* An authorization is used once: two callbacks with the same state, sent
\* before either is answered, never store two connections.
SingleUse ==
    \A s, t \in SessionIds : origin[s] \in Flows /\ origin[s] = origin[t] => s = t

\* A browser only ever gets a Spotify session from a flow it started itself,
\* whoever opens the callback URL.
FlowBoundToBrowser ==
    \A b \in Browsers :
       cookie[b] # None /\ origin[cookie[b]] \in Flows => owner[origin[cookie[b]]] = b

\* Abandoned authorizations never take more than their share of memory.
PendingBounded == Cardinality(pending) <= MaxPending

\* What one browser does never removes the credentials another browser's
\* session stands for, unless they have expired.
Independent ==
    [][\A b \in Browsers, p \in Providers :
          cookie[b] \in stored[p] /\ cookie[b] \notin stored'[p]
             => \/ cookie[b] \in expired
                \/ cookie'[b] # cookie[b]
                \/ \E r \in Requests : request[r] # Free /\ request[r].browser = b]_vars

\* A provider a browser has connected and not disconnected is connected under
\* its session, while no request is changing that, until it expires: what a
\* preview needs of both providers.
ConnectionsKept ==
    \A b \in Browsers :
       (\A r \in Requests : request[r] # Free => request[r].browser # b)
          => \A p \in connected[b] : cookie[b] \in expired \cup stored[p]
=============================================================================
