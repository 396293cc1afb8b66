---------------------------- MODULE LibraryWalk ----------------------------
(***************************************************************************)
(* Looking for the playlist an earlier attempt created: findPlaylistByName *)
(* in internal/transfer/worker.go, over the pages that ListPlaylists of    *)
(* internal/transfer/providers.go makes of what the providers answer.      *)
(*                                                                         *)
(* TransferRun takes the listing as one step.  Here it is a walk by        *)
(* offsets over a library that its owner adds to and deletes from while    *)
(* the walk goes on, and whose pages may be short or empty.                *)
(***************************************************************************)
EXTENDS Integers, Sequences, FiniteSets

CONSTANTS
    Limit,          \* playlists asked for per page (50)
    MaxOffset,      \* the largest offset Spotify's Playlists accepts (100000)
    MaxLibrary      \* bound: playlists in the library

ASSUME LimitsAssumption ==
    Limit \in Nat \ {0} /\ MaxOffset \in Nat /\ MaxLibrary \in Nat

VARIABLES
    provider,   \* the destination: spotify or apple
    library,    \* the account's playlists in listing order: the run's own, or other
    hollow,     \* the provider's pages come without items from now on
    pc,         \* the attempt: idle, walk, absent or done
    offset,     \* where the next page begins
    shrunk      \* a playlist has been deleted while a walk went on

vars == <<provider, library, hollow, pc, offset, shrunk>>

Libraries == {s \in Seq({"own", "other"}) : Len(s) <= MaxLibrary}
Own == {n \in DOMAIN library : library[n] = "own"}

\* Every variable has its type; offsets stay within the library they walk, as
\* long as nothing is deleted.
TypeOK ==
    /\ provider \in {"spotify", "apple"}
    /\ library \in Libraries
    /\ hollow \in BOOLEAN /\ shrunk \in BOOLEAN
    /\ pc \in {"idle", "walk", "absent", "done"}
    /\ offset \in 0..MaxLibrary
    /\ ~shrunk /\ offset > 0 => offset < Len(library)

Init ==
    /\ provider \in {"spotify", "apple"}
    /\ \E n \in 0..MaxLibrary : library \in [1..n -> {"own", "other"}]
    /\ Cardinality(Own) <= 1
    /\ hollow = FALSE /\ shrunk = FALSE
    /\ pc = "idle" /\ offset = 0

----------------------------------------------------------------------------
(* The attempt.                                                            *)

\* An attempt of the run begins, without a recorded playlist.
StartWalk ==
    /\ pc = "idle"
    /\ pc' = "walk" /\ offset' = 0
    /\ UNCHANGED <<provider, library, hollow, shrunk>>

\* The attempt fails and is retried from the start.
Fail == pc' = "idle" /\ offset' = 0

\* How many playlists a page may bring: at most Limit, at least one if there are
\* any left and the provider keeps to its contract.
PageSizes ==
    LET left == Len(library) - offset
    IN IF left <= 0 \/ hollow THEN {0} ELSE {k \in 1..Limit : k <= left}

Page(k) == {library[n] : n \in (offset + 1)..(offset + k)}

PageTrusted(k) == FALSE

\* Playlists refuses a page without items before the end.
InvalidPage(k) == k = 0 /\ offset < Len(library)

NextSkipsOne(k) == offset + k + 1

\* The offset of the page after this one.
NextOffset(k) == offset + k

\* findPlaylistByName goes through a page: the name is found, there is no next
\* page, or the walk goes on.
Scan(k, next) ==
    IF "own" \in Page(k) THEN pc' = "done" /\ offset' = 0
    ELSE IF ~next THEN pc' = "absent" /\ offset' = 0
    ELSE pc' = pc /\ offset' = NextOffset(k)

\* Spotify: a next page is computed from the total.
SpotifyNext(k) == NextOffset(k) < Len(library)

\* Apple Music: a next page is announced by a link, and only its presence counts.
AppleNext(k) == offset + k < Len(library)

\* One page of either provider.
SpotifyPage ==
    /\ pc = "walk" /\ provider = "spotify"
    /\ \E k \in PageSizes :
          IF offset > MaxOffset \/ InvalidPage(k) THEN Fail
          ELSE Scan(k, SpotifyNext(k))
    /\ UNCHANGED <<provider, library, hollow, shrunk>>

ApplePage ==
    /\ pc = "walk" /\ provider = "apple"
    /\ \E k \in PageSizes : Scan(k, AppleNext(k))
    /\ UNCHANGED <<provider, library, hollow, shrunk>>

\* A page cannot be read (an error, a rate limit, a crash, a deadline).
PageFails ==
    /\ pc = "walk" /\ Fail
    /\ UNCHANGED <<provider, library, hollow, shrunk>>

InsertAt(s, n, e) == SubSeq(s, 1, n) \o <<e>> \o SubSeq(s, n + 1, Len(s))
DeleteAt(s, n) == SubSeq(s, 1, n - 1) \o SubSeq(s, n + 1, Len(s))

\* No playlist of that name: CreatePlaylist.  The library may list it anywhere,
\* and the attempt may fail before or after with nothing recorded.
Create ==
    /\ pc = "absent" /\ Len(library) < MaxLibrary
    /\ \E n \in 0..Len(library) : library' = InsertAt(library, n, "own")
    /\ pc' \in {"done", "idle"}
    /\ UNCHANGED <<provider, hollow, offset, shrunk>>

CreateFails ==
    /\ pc = "absent" /\ pc' = "idle"
    /\ UNCHANGED <<provider, library, hollow, offset, shrunk>>

\* The attempt ends without its commit: the playlist it has is not recorded.
Forgotten ==
    /\ pc = "done" /\ pc' = "idle"
    /\ UNCHANGED <<provider, library, hollow, offset, shrunk>>

----------------------------------------------------------------------------
(* The provider and the owner.                                             *)

GoHollow ==
    /\ ~hollow /\ hollow' = TRUE
    /\ UNCHANGED <<provider, library, pc, offset, shrunk>>

\* The owner creates a playlist, of another name, anywhere in the listing.
OwnerAdds ==
    /\ Len(library) < MaxLibrary
    /\ \E n \in 0..Len(library) : library' = InsertAt(library, n, "other")
    /\ UNCHANGED <<provider, hollow, pc, offset, shrunk>>

\* The owner deletes a playlist, possibly the run's own.
OwnerDeletes ==
    /\ \E n \in DOMAIN library : library' = DeleteAt(library, n)
    /\ shrunk' = (shrunk \/ pc = "walk")
    /\ UNCHANGED <<provider, hollow, pc, offset>>

Next ==
    \/ StartWalk \/ SpotifyPage \/ ApplePage \/ PageFails
    \/ Create \/ CreateFails \/ Forgotten
    \/ GoHollow \/ OwnerAdds \/ OwnerDeletes

Spec == Init /\ [][Next]_vars

\* Requests are answered, one way or the other.
FairSpec == Spec /\ WF_vars(SpotifyPage \/ ApplePage)

----------------------------------------------------------------------------
(* Properties.                                                             *)

\* Retried attempts never leave a second playlist of the run, whatever the owner
\* adds in the meantime and however short the pages are.  Only a deletion while
\* a walk goes on can make it miss the first one (findPlaylistByName).
OneOwn == ~shrunk => Cardinality(Own) <= 1

\* A walk ends by itself, even over pages that stay empty.  The exception is
\* Apple Music's listing, which asks for the same offset again when a page has a
\* next link and no items (ListPlaylists).
WalkEnds == pc = "walk" ~> (pc # "walk" \/ (provider = "apple" /\ hollow))
=============================================================================
