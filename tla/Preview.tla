------------------------------ MODULE Preview ------------------------------
(***************************************************************************)
(* Planning a transfer and starting its run: CreatePreview in              *)
(* internal/transfer/service.go, the store behind it in                    *)
(* internal/transfer/store.go and the two POST handlers of                 *)
(* internal/transfer/http.go, for one session's published snapshot and one *)
(* destination: the key that transfer_previews is unique in.               *)
(*                                                                         *)
(* Requests overlap: each reads the snapshot in two statements, searches   *)
(* the destination for one entry after the other, and saves its plan in    *)
(* one transaction, over the plan that was there.                          *)
(***************************************************************************)
EXTENDS Matcher

CONSTANTS
    Requests,       \* concurrent POST /api/transfers/previews
    Starters,       \* concurrent POST /api/transfers/previews/{id}/runs
    Destinations,   \* providers that the API process is configured with
    Searching,      \* the ones that can be searched; the others say they cannot
    Spotify,        \* the provider whose searches need this session's connection
    Occurrences,    \* the playlist's items as Spotify returned them, in order
    Answers(_)      \* what a search for a track may return, as sequences of tracks

\* An occurrence whose item Spotify has withdrawn.
NoItem == [id |-> 0]

\* playlistOccurrence.entry, made when the snapshot was imported: local files
\* count as available, other items need an ID and must not be unplayable.
entry(o) ==
    LET m == o.item
        local == o.isLocal \/ (m # NoItem /\ m.isLocal)
    IN IF m = NoItem
       THEN [item |-> m, unsupported |-> FALSE, unavailable |-> TRUE]
       ELSE [item |-> m, unsupported |-> m.type # "track",
             unavailable |-> ~local /\ (m.id = 0 \/ ~m.isPlayable)]

\* fromSpotifyEntry: the Spotify ID to look for is the one the track was linked
\* from, if any.
fromSpotifyEntry(e) ==
    [track |-> IF e.item = NoItem \/ (e.item.id = 0 /\ e.item.name = NoText) THEN NoTrack
               ELSE [id |-> e.item.id, name |-> e.item.name, artists |-> e.item.artists,
                     isrc |-> e.item.isrc, duration |-> e.item.duration,
                     providerIDs |-> [p \in Destinations |->
                        IF p # Spotify THEN 0
                        ELSE IF e.item.linkedFrom # 0 THEN e.item.linkedFrom ELSE e.item.id]],
     unsupported |-> e.unsupported,
     unavailable |-> e.unavailable]

\* The snapshot's entries, in order, as LoadSpotifySnapshot returns them.
Source == [n \in DOMAIN Occurrences |-> fromSpotifyEntry(entry(Occurrences[n]))]

ASSUME OccurrencesAssumption == Occurrences \in Seq(ToSet(Occurrences))

\* What searches for the snapshot's tracks may return.
AllAnswers == UNION {Answers(Source[n].track) : n \in DOMAIN Source}

ASSUME AnswersAssumption ==
    \A answer \in AllAnswers :
        answer \in Seq(ToSet(answer)) /\ \A t \in ToSet(answer) : t # NoTrack /\ t.id \in Nat

VARIABLES
    dest,       \* the destination provider of all these requests
    conn,       \* the session's spotify_connections row: live, expired or gone
    request,    \* per request: its step, the entries it read and its results
    starting,   \* run requests that have found the preview and no run
    saved,      \* the transfer_previews row exists
    rows,       \* its transfer_preview_entries, by position
    run,        \* the transfer_runs row exists
    jobs        \* transfer_run jobs inserted

planVars == <<saved, rows>>
runVars == <<starting, run, jobs>>
vars == <<dest, conn, request, planVars, runVars>>

Idle == [step |-> "idle"]
Positions == DOMAIN Source
NotSearched == <<NoTrack>>

\* A classified entry: the result, and the candidates the search had returned.
Results ==
    {Unsupported("source_entry_unsupported"), Unsupported("destination_search_unsupported")}
    \cup {MatchTrack(Source[n], p, answer) :
             n \in Positions, p \in Destinations, answer \in AllAnswers \cup {<<>>}}
Classified == [result : Results, seen : AllAnswers \cup {<<>>, NotSearched}]

\* Every variable has its type; no more is classified than was read, and no more
\* is saved than there is.
TypeOK ==
    /\ dest \in Destinations
    /\ conn \in {"live", "expired", "gone"}
    /\ request \in [Requests -> {Idle} \cup
          [step : {"entries", "match"}, entries : {<<>>, Source}, results : Seq(Classified)]]
    /\ \A r \in Requests : request[r] # Idle =>
          Len(request[r].results) <= Len(request[r].entries)
    /\ saved \in BOOLEAN /\ run \in BOOLEAN /\ jobs \in Nat
    /\ \E P \in SUBSET Positions : rows \in [P -> Classified]
    /\ starting \subseteq Starters

Init ==
    /\ dest \in Destinations
    /\ conn = "live"
    /\ request = [r \in Requests |-> Idle]
    /\ starting = {}
    /\ saved = FALSE /\ run = FALSE
    /\ rows = <<>>
    /\ jobs = 0

----------------------------------------------------------------------------
(* POST /api/transfers/previews.                                           *)

SetRequest(r, value) == request' = [request EXCEPT ![r] = value]

\* LoadSpotifySnapshot, first statement: the snapshot's metadata, for a session
\* that is still connected.
ReadMetadata(r) ==
    /\ request[r] = Idle
    /\ conn = "live"
    /\ SetRequest(r, [step |-> "entries", entries |-> <<>>, results |-> <<>>])
    /\ UNCHANGED <<dest, conn, planVars, runVars>>

\* The second statement reads what is there by then: the entries, or nothing if
\* a disconnection has deleted them in between.
ReadEntries(r) ==
    /\ request[r].step = "entries"
    /\ LET found == IF conn = "gone" THEN <<>> ELSE Source
       IN SetRequest(r, [request[r] EXCEPT !.step = "match", !.entries = found])
    /\ UNCHANGED <<dest, conn, planVars, runVars>>

\* The entry that is classified next.
Position(r) == Len(request[r].results) + 1
Current(r) == request[r].entries[Position(r)]
Matching(r) == request[r].step = "match" /\ Position(r) <= Len(request[r].entries)

\* The texts of a track joined with bars, which nothing escapes: the pieces that
\* the joined text has between its bars.  (No artists at all join to the empty text.)
Joined(track) ==
    LET artists == IF track.artists = <<>> THEN <<NoText>> ELSE track.artists
    IN track.name.raw \o FlattenSeq([n \in DOMAIN artists |-> artists[n].raw]) \o track.isrc.raw

\* matchingKey: what two occurrences must share to share a result.  The ID in front
\* and the duration at the end have no bars, so they stand for themselves.
matchingKey(track) == <<track.id, Joined(track), track.duration>>

CachedNever(r) == {}

\* Earlier positions whose result the cache holds for the current entry.
Cached(r) ==
    {n \in 1..(Position(r) - 1) :
        /\ ~Skipped(request[r].entries[n])
        /\ matchingKey(request[r].entries[n].track) = matchingKey(Current(r).track)}

Classify(r, result, seen) ==
    /\ SetRequest(r, [request[r] EXCEPT
            !.results = Append(@, [result |-> result, seen |-> seen])])
    /\ UNCHANGED <<dest, conn, planVars, runVars>>

\* An entry that is not a playable track is not looked up.
Skip(r) ==
    /\ Matching(r) /\ Skipped(Current(r))
    /\ Classify(r, Unsupported("source_entry_unsupported"), NotSearched)

\* The track has been classified in this request already.
Reuse(r) ==
    /\ Matching(r) /\ ~Skipped(Current(r))
    /\ \E n \in Cached(r) :
          Classify(r, request[r].results[n].result, request[r].results[n].seen)

\* The provider is asked.
Lookup(r) == Matching(r) /\ ~Skipped(Current(r)) /\ Cached(r) = {}

\* strings.TrimSpace leaves nothing of the text.
Blank(text) == text.raw \in {<<"">>, <<" ">>}

\* A track without a name, an artist and an ISRC gives no search term.
NoTerm(track) ==
    Blank(track.name) /\ (\A a \in ToSet(track.artists) : Blank(a)) /\ track.isrc = NoText

\* What the adapters return; Apple Music's takes 404 for no songs.
SpotifySearch(track) == IF NoTerm(track) THEN {<<>>} ELSE Answers(track)
AppleSearch(track) == IF NoTerm(track) THEN {<<>>} ELSE Answers(track) \cup {<<>>}
SearchTracks(track) == IF dest = Spotify THEN SpotifySearch(track) ELSE AppleSearch(track)

\* SearchTracks answers, and MatchTrack classifies by what it returned.  Spotify's
\* adapter needs the session's connection, unless there is nothing to search for.
Search(r) ==
    /\ Lookup(r)
    /\ dest \in Searching
    /\ dest = Spotify /\ ~NoTerm(Current(r).track) => conn = "live"
    /\ \E answer \in SearchTracks(Current(r).track) :
          Classify(r, MatchTrack(Current(r), dest, answer), answer)

\* ErrUnsupportedOperation: recorded, not an error.
SearchUnsupported(r) ==
    /\ Lookup(r)
    /\ dest \notin Searching
    /\ Classify(r, Unsupported("destination_search_unsupported"), NotSearched)

UpsertAfter(old, new) == old \o new

\* ON CONFLICT DO UPDATE: new positions over old ones.
Upsert(old, new) ==
    [n \in DOMAIN old \cup DOMAIN new |-> IF n \in DOMAIN new THEN new[n] ELSE old[n]]

\* SavePreview: the preview and all its entries in one transaction.
SavePreview(r) ==
    /\ saved' = TRUE
    /\ rows' = Upsert(rows, request[r].results)

AbortSaves(r) == SavePreview(r)

\* An error of the search (no connection, a rate limit, a lost reply), of a
\* statement or of the commit, or a cancelled request: nothing is kept.
Abort(r) == UNCHANGED planVars

\* CreatePreview fails at any point before its commit.
CreateFails(r) ==
    /\ request[r] # Idle
    /\ Abort(r)
    /\ SetRequest(r, Idle)
    /\ UNCHANGED <<dest, conn, runVars>>

\* All entries are classified: CreatePreview saves them and answers.
CreateEnds(r) ==
    /\ request[r].step = "match"
    /\ Len(request[r].results) = Len(request[r].entries)
    /\ SavePreview(r)
    /\ SetRequest(r, Idle)
    /\ UNCHANGED <<dest, conn, runVars>>

----------------------------------------------------------------------------
(* POST /api/transfers/previews/{id}/runs.                                 *)

\* EnqueueRun finds the preview and no run of it.  (With a run, it returns it.)
EnqueueCheck(s) ==
    /\ s \notin starting
    /\ saved /\ ~run
    /\ starting' = starting \cup {s}
    /\ UNCHANGED <<dest, conn, request, planVars, run, jobs>>

InsertAnyway == TRUE

\* UNIQUE (preview_id): the insert succeeds only if no other run is there.
NoRunYet == ~run

\* The job and the run are inserted in one transaction.
EnqueueInsert(s) ==
    /\ s \in starting
    /\ NoRunYet
    /\ run' = TRUE
    /\ jobs' = jobs + 1
    /\ starting' = starting \ {s}
    /\ UNCHANGED <<dest, conn, request, planVars>>

\* The insert or the commit fails: the job goes with the transaction.
EnqueueFails(s) ==
    /\ s \in starting
    /\ starting' = starting \ {s}
    /\ UNCHANGED <<dest, conn, request, planVars, run, jobs>>

----------------------------------------------------------------------------

\* The session's thirty days are over.
Expire ==
    /\ conn = "live" /\ conn' = "expired"
    /\ UNCHANGED <<dest, request, planVars, runVars>>

\* The connection is deleted, and with it (ON DELETE CASCADE) the import, its
\* snapshot and the snapshot's entries; previews and runs stay.
Disconnect ==
    /\ conn # "gone" /\ conn' = "gone"
    /\ UNCHANGED <<dest, request, planVars, runVars>>

Next ==
    \/ \E r \in Requests :
          \/ ReadMetadata(r) \/ ReadEntries(r)
          \/ Skip(r) \/ Reuse(r) \/ Search(r) \/ SearchUnsupported(r)
          \/ CreateFails(r) \/ CreateEnds(r)
    \/ \E s \in Starters : EnqueueCheck(s) \/ EnqueueInsert(s) \/ EnqueueFails(s)
    \/ Expire \/ Disconnect

Spec == Init /\ [][Next]_vars

----------------------------------------------------------------------------
(* Properties.                                                             *)

\* A saved plan covers the whole snapshot or nothing of it, whichever requests
\* failed half-way (CreatePreview returns before SavePreview; one transaction).
\* Nothing of it: the snapshot vanished between the two statements.
AllOrNothing == DOMAIN rows \in {{}, Positions}

\* Occurrences of the same track are planned alike, although every search may
\* answer differently and requests save over each other (the cache of
\* CreatePreview, SavePreview's one transaction).
DuplicatesAgree ==
    \A m, n \in DOMAIN rows :
        Source[m].track = Source[n].track /\ Skipped(Source[m]) = Skipped(Source[n])
            => rows[m].result = rows[n].result

\* Two tracks that read the same once their texts are joined with bars: local files
\* of different titles and artists may, and one track linked from two.
ReadAlike(s, t) == s.id = t.id /\ s.duration = t.duration /\ Joined(s) = Joined(t)

\* The run only ever writes a recording that the search returned and for which there
\* is better evidence than for every other one returned: evidence for the entry's own
\* track, or for an earlier one that reads the same, never for any other; an entry is
\* called missing only if none of the recordings has that track's title and artist,
\* ISRC or ID; and nothing is written for an entry that is not a playable track
\* (MatchTrack, through the cache and overlapping saves).
NoGuess ==
    \A n \in DOMAIN rows :
        IF Skipped(Source[n]) THEN rows[n].result.matched = 0
        ELSE \E m \in 1..n :
                /\ ~Skipped(Source[m]) /\ ReadAlike(Source[m].track, Source[n].track)
                /\ Justified(Source[m].track, dest,
                             {t \in ToSet(rows[n].seen) : t.id # 0}, rows[n].result)

\* Planning again from the same recordings gives the same plan, whatever order
\* the provider lists them in (uniqueTracks sorts; resolveSingle never prefers).
Repeatable ==
    \A r \in Requests : request[r] # Idle =>
        \A n \in DOMAIN rows \cap DOMAIN request[r].results :
            ToSet(request[r].results[n].seen) = ToSet(rows[n].seen)
                => request[r].results[n].result = rows[n].result

\* A preview has at most one run, and a run exactly one job: requests that pass
\* the check together do not start the transfer twice (EnqueueRun).
OneRunPerPreview == jobs = IF run THEN 1 ELSE 0
=============================================================================
