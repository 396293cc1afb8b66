------------------------------ MODULE Matcher ------------------------------
(***************************************************************************)
(* Choosing a destination recording: internal/transfer/matcher.go.         *)
(*                                                                         *)
(* A text is a record of its normal form and of the text as it is written, *)
(* cut at its bars: "A|B" is <<"A", "B">>.  An ISRC likewise.  IDs are     *)
(* numbers, 0 for none, and ordered as the code orders its strings.        *)
(***************************************************************************)
EXTENDS Integers, Sequences, FiniteSets, SequencesExt

NoText == [norm |-> "", raw |-> <<"">>]

\* NormalizeText: case, spacing and everything but letters and digits go, bars too.
NormalizeText(text) == text.norm

\* strings.ToUpper(strings.TrimSpace(isrc))
NormalizeISRC(isrc) == isrc.norm

\* Artists that still have a name after normalization.
normalizedArtists(artists) == {NormalizeText(a) : a \in ToSet(artists)} \ {""}

durationTolerance == 2500

\* What a classification holds: a match, or the candidates a user could pick.
Unsupported(reason) ==
    [status |-> "unsupported", reason |-> reason, matched |-> 0, candidates |-> <<>>]
Missing(reason) ==
    [status |-> "missing", reason |-> reason, matched |-> 0, candidates |-> <<>>]
Ambiguous(reason, options) ==
    [status |-> "ambiguous", reason |-> reason, matched |-> 0, candidates |-> options]
Matched(reason, option) ==
    [status |-> "matched", reason |-> reason, matched |-> option.id, candidates |-> <<>>]

NoTrack == [id |-> 0]

\* Entries that are never looked up: no track, not a track, or not available.
Skipped(entry) == entry.track = NoTrack \/ entry.unsupported \/ entry.unavailable

resolveFirst(reason, unique, options) ==
    Matched(reason, unique[CHOOSE n \in options : \A m \in options : n <= m])

\* Options are positions in the candidates.  One option is a match, several are
\* for the user to decide (the suffix that the reason then gets says no more than
\* the status).
resolveSingle(reason, unique, options) ==
    IF Cardinality(options) = 1 THEN Matched(reason, unique[CHOOSE n \in options : TRUE])
    ELSE Ambiguous(reason, Restrict(unique, options))

\* Tracks of different IDs, sorted by them.
inOrder(S) ==
    CHOOSE s \in [1..Cardinality(S) -> S] : \A m, n \in DOMAIN s : m < n => s[m].id < s[n].id

uniqueUnsorted(in) == SelectSeq(in, LAMBDA t : t.id # 0)

\* The first candidate of each ID, candidates without one dropped, by ID.
uniqueTracks(in) ==
    LET first == {n \in DOMAIN in : in[n].id # 0 /\ \A m \in 1..(n - 1) : in[m].id # in[n].id}
    IN inOrder({in[n] : n \in first})

\* The evidence that candidate t is the recording of track s at a provider.
SameProviderID(s, t, provider) ==
    /\ s.providerIDs[provider] # 0
    /\ s.providerIDs[provider] \in {t.id, t.providerIDs[provider]}
SameISRC(s, t) == s.isrc # NoText /\ NormalizeISRC(s.isrc) = NormalizeISRC(t.isrc)
SameMetadata(s, t) ==
    /\ NormalizeText(s.name) # "" /\ NormalizeText(s.name) = NormalizeText(t.name)
    /\ normalizedArtists(s.artists) \cap normalizedArtists(t.artists) # {}
SameDuration(s, t) ==
    /\ s.duration > 0 /\ t.duration > 0
    /\ t.duration - s.duration \in -durationTolerance..durationTolerance

\* MatchTrack: the strongest kind of evidence any candidate has decides.
MatchTrack(entry, provider, candidates) ==
    LET s == entry.track
        unique == uniqueTracks(candidates)
        byID == {n \in DOMAIN unique : SameProviderID(s, unique[n], provider)}
        byISRC == {n \in DOMAIN unique : SameISRC(s, unique[n])}
        meta == {n \in DOMAIN unique : SameMetadata(s, unique[n])}
        close == {n \in meta : SameDuration(s, unique[n])}
    IN IF Skipped(entry) THEN Unsupported("source_entry_unsupported")
       ELSE IF unique = <<>> THEN Missing("no_candidates")
       ELSE IF byID # {} THEN resolveSingle("provider_id", unique, byID)
       ELSE IF byISRC # {} THEN resolveSingle("isrc", unique, byISRC)
       ELSE IF meta = {} THEN Missing("no_metadata_match")
       ELSE IF close # {} THEN resolveSingle("metadata_duration", unique, close)
       ELSE Ambiguous("metadata_without_duration_confidence", Restrict(unique, meta))

----------------------------------------------------------------------------
(* What it is to decide.                                                   *)

\* How good the evidence is that t is the recording of s at a provider.
Evidence(s, t, provider) ==
    IF SameProviderID(s, t, provider) THEN 3
    ELSE IF SameISRC(s, t) THEN 2
    ELSE IF SameMetadata(s, t) /\ SameDuration(s, t) THEN 1 ELSE 0

\* A match is one of the recordings found, with better evidence than every other;
\* missing is a track none of them has the title and artist, ISRC or ID of.
Justified(s, provider, found, result) ==
    /\ result.status = "matched" <=> result.matched # 0
    /\ result.status = "matched" =>
          \E t \in found :
              /\ t.id = result.matched
              /\ Evidence(s, t, provider) > 0
              /\ \A u \in found : u.id # t.id =>
                    Evidence(s, u, provider) < Evidence(s, t, provider)
    /\ result.status = "missing" =>
          \A t \in found : Evidence(s, t, provider) = 0 /\ ~SameMetadata(s, t)
=============================================================================
