----------------------------- MODULE MCPreview -----------------------------
(***************************************************************************)
(* An instance of Preview for TLC.                                         *)
(***************************************************************************)
EXTENDS Preview

CONSTANTS r1, r2, s1, s2

TwoRequests == {r1, r2}
TwoStarters == {s1, s2}
RequestSymmetry == Permutations(TwoRequests) \cup Permutations(TwoStarters)
BothProviders == {"spotify", "apple"}
ThreeProviders == BothProviders \cup {"unsearched"}

Text(norm, raw) == [norm |-> norm, raw |-> <<raw>>]
Ids(spotify, apple) == [p \in BothProviders |-> IF p = "spotify" THEN spotify ELSE apple]
Track(id, ids, isrc, name, artist, duration) ==
    [id |-> id, providerIDs |-> ids, isrc |-> isrc, name |-> name,
     artists |-> <<artist>>, duration |-> duration]

\* The source: a withdrawn item; a track, played in place of the one it is linked
\* from; an episode; the track again, and then linked from another one; two local
\* files that read the same when joined ("A|B" by "C", and "A" by "B" and "C"); a
\* track that there is no search term for.
Item(type, from) ==
    [id |-> 8, type |-> type, linkedFrom |-> from, isrc |-> Text("AA11", "AA11"),
     name |-> Text("song", "Song"), artists |-> <<Text("artist", "Artist")>>,
     duration |-> 200000, isLocal |-> FALSE, isPlayable |-> TRUE]
LocalFile(name, artists) ==
    [id |-> 0, type |-> "track", linkedFrom |-> 0, isrc |-> NoText,
     name |-> name, artists |-> artists, duration |-> 200000,
     isLocal |-> TRUE, isPlayable |-> FALSE]
Nameless == [Item("track", 0) EXCEPT !.id = 9, !.isrc = NoText,
                !.name = Text("", " "), !.artists = <<>>]
TheItems == <<
    NoItem, Item("track", 7), Item("episode", 7), Item("track", 7), Item("track", 6),
    LocalFile([norm |-> "ab", raw |-> <<"A", "B">>], <<Text("c", "C")>>),
    LocalFile(Text("a", "A"), <<Text("b", "B"), Text("c", "C")>>),
    Nameless >>
TheOccurrences == [n \in DOMAIN TheItems |-> [item |-> TheItems[n], isLocal |-> FALSE]]

\* Candidates: the track itself, one with its ISRC, two with its title and artist
\* within and one outside the tolerance, and one without an ID.
ById == Track(7, Ids(7, 0), NoText, Text("other", "Other"), Text("", "!?"), 0)
ByISRC == Track(3, Ids(3, 3), Text("AA11", "aa11"), Text("other", "Other"), Text("x", "X"), 0)
Near == Track(4, Ids(4, 4), NoText, Text("song", "Song!"), Text("artist", "artist"), 202500)
Nearer == Track(2, Ids(2, 2), NoText, Text("song", "Song"), Text("artist", "Artist"), 200001)
Far == Track(5, Ids(5, 5), NoText, Text("song", "Song"), Text("artist", "Artist"), 202501)
Unnamed == Track(0, Ids(0, 0), NoText, Text("song", "Song"), Text("artist", "Artist"), 200000)
\* What the first local file is a copy of.
Album == Track(1, Ids(1, 1), NoText, Text("ab", "AB"), Text("c", "C"), 200000)

TheAnswers(track) ==
    IF track.id = 0 THEN {<<Album>>}
    ELSE {<<>>, <<Near, Far, Nearer>>, <<Nearer, Near, Far>>,
          <<Near, ByISRC, Unnamed, Near>>, <<ById, ByISRC, Near>>}
=============================================================================
