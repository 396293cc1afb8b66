--------------------------- MODULE MatcherProofs ---------------------------
(***************************************************************************)
(* What MatchTrack of internal/transfer/matcher.go decides, for every      *)
(* source track and every answer of a search.                              *)
(***************************************************************************)
EXTENDS Matcher, FiniteSetTheorems, WellFoundedInduction, TLAPS

\* What is taken of the tracks a provider returned: their IDs are strings, and a
\* provider describes one ID in one way.
Catalogued(tracks) ==
    /\ \A t \in tracks : t.id \in Nat
    /\ \A t, u \in tracks : t.id = u.id /\ t.id # 0 => t = u

\* The candidates that have an ID.
Named(tracks) == {t \in tracks : t.id # 0}

----------------------------------------------------------------------------
(* Sorting.                                                                *)

\* Every set of naturals that has a member has a least one.
LEMMA LeastNumber ==
    ASSUME NEW T \in SUBSET Nat, T # {}
    PROVE  \E x \in T : \A y \in T : x <= y
<1> DEFINE R == {ss \in Nat \X Nat : ss[1] < ss[2]}
<1>1. IsWellFoundedOn(R, Nat)
  BY NatLessThanWellFounded DEF OpToRel
<1>2. PICK x \in T : \A y \in T : <<y, x>> \notin R
  <2> HIDE DEF R
  <2>1. QED
    BY <1>1, WFMin
<1>3. ASSUME NEW y \in T PROVE x <= y
  <2>1. <<y, x>> \in Nat \X Nat /\ <<y, x>>[1] = y /\ <<y, x>>[2] = x
    OBVIOUS
  <2>2. y < x => <<y, x>> \in R
    BY <2>1
  <2>3. x \in Nat /\ y \in Nat
    OBVIOUS
  <2> HIDE DEF R
  <2>4. ~(y < x)
    BY <1>2, <2>2
  <2>5. QED
    BY <2>3, <2>4
<1>4. QED
  BY <1>3

\* Sequence s lists the tracks of S by increasing ID.
Sorts(s, S) ==
    /\ s \in [1..Cardinality(S) -> S]
    /\ \A m, n \in DOMAIN s : m < n => s[m].id < s[n].id

\* A set of tracks with different IDs can be sorted.
Sortable(S) == IsFiniteSet(S) /\ (\A t \in S : t.id \in Nat) /\ \A t, u \in S : t.id = u.id => t = u

\* One more track before the ones that are sorted.
LEMMA SortOneMore ==
    ASSUME NEW S, Sortable(S), NEW x \in S, \A t \in S : x.id <= t.id,
           NEW f, Sorts(f, S \ {x})
    PROVE  \E s : Sorts(s, S)
<1> DEFINE k == Cardinality(S \ {x})
           s == [n \in 1..(k + 1) |-> IF n = 1 THEN x ELSE f[n - 1]]
<1>1. Cardinality(S) = k + 1 /\ k \in Nat
  <2>1. IsFiniteSet(S) /\ IsFiniteSet(S \ {x})
    BY FS_RemoveElement DEF Sortable
  <2>2. Cardinality(S \ {x}) = Cardinality(S) - 1 /\ Cardinality(S) \in Nat /\ k \in Nat
    BY <2>1, FS_RemoveElement, FS_CardinalityType
  <2>3. QED
    BY <2>2
<1>2. /\ f \in [1..k -> S \ {x}]
      /\ \A m, n \in 1..k : m < n => f[m].id < f[n].id
  BY DEF Sorts
<1> HIDE DEF k
<1>3. s \in [1..(k + 1) -> S]
  <2>1. ASSUME NEW n \in 1..(k + 1) PROVE (IF n = 1 THEN x ELSE f[n - 1]) \in S
    <3>1. n # 1 => n - 1 \in 1..k
      BY <1>1
    <3>2. QED
      BY <1>2, <3>1
  <2>2. QED
    BY <2>1
<1>4. ASSUME NEW m \in 1..(k + 1), NEW n \in 1..(k + 1), m < n PROVE s[m].id < s[n].id
  <2>1. n # 1 /\ n - 1 \in 1..k /\ s[n] = f[n - 1]
    BY <1>1, <1>4
  <2>2. CASE m = 1
    <3>1. s[m] = x
      BY <2>2
    <3>2. f[n - 1] \in S /\ f[n - 1] # x
      BY <1>2, <2>1
    <3>3. /\ x.id \in Nat /\ f[n - 1].id \in Nat
          /\ x.id <= f[n - 1].id /\ x.id # f[n - 1].id
      BY <3>2 DEF Sortable
    <3>4. QED
      BY <2>1, <3>1, <3>3
  <2>3. CASE m # 1
    <3>1. m - 1 \in 1..k /\ m - 1 < n - 1 /\ s[m] = f[m - 1]
      BY <1>1, <1>4, <2>3
    <3>2. QED
      BY <1>2, <2>1, <3>1
  <2>4. QED
    BY <2>2, <2>3
<1>5. DOMAIN s = 1..(k + 1)
  OBVIOUS
<1> HIDE DEF s
<1>6. Sorts(s, S)
  BY <1>1, <1>3, <1>4, <1>5 DEF Sorts
<1>7. QED
  BY <1>6

\* Every such set can be sorted: a smallest one that cannot be would be its first
\* track followed by a smaller one.
LEMMA SortExists ==
    ASSUME NEW S, Sortable(S)
    PROVE  \E s : Sorts(s, S)
<1> DEFINE Bad == {V \in SUBSET S : ~\E s : Sorts(s, V)}
           T == {Cardinality(V) : V \in Bad}
<1>0. IsFiniteSet(S)
  BY DEF Sortable
<1>1. ASSUME NEW V \in SUBSET S PROVE IsFiniteSet(V) /\ Cardinality(V) \in Nat /\ Sortable(V)
  <2>1. IsFiniteSet(V)
    BY <1>0, FS_Subset
  <2>2. QED
    BY <2>1, FS_CardinalityType DEF Sortable
<1>2. SUFFICES ASSUME Bad # {} PROVE FALSE
  OBVIOUS
<1>3. T \in SUBSET Nat /\ T # {}
  BY <1>1, <1>2
<1>4. PICK k \in T : \A j \in T : k <= j
  <2> HIDE DEF T
  <2>1. QED
    BY <1>3, LeastNumber
<1>5. PICK V \in Bad : k = Cardinality(V)
  OBVIOUS
<1>6. V \in SUBSET S /\ ~\E s : Sorts(s, V)
  OBVIOUS
<1>7. IsFiniteSet(V) /\ Cardinality(V) \in Nat /\ Sortable(V)
  BY <1>1, <1>6
<1>8. CASE V = {}
  <2>1. Cardinality(V) = 0
    BY <1>8, FS_EmptySet
  <2> DEFINE s == [n \in {} |-> n]
  <2>2. s \in [{} -> V] /\ DOMAIN s = {} /\ 1..0 = {}
    OBVIOUS
  <2> HIDE DEF s
  <2>3. Sorts(s, V)
    BY <2>1, <2>2 DEF Sorts
  <2>4. QED
    BY <1>6, <2>3
<1>9. CASE V # {}
  <2> DEFINE I == {t.id : t \in V}
  <2>1. I \in SUBSET Nat /\ I # {}
    BY <1>7, <1>9 DEF Sortable
  <2>2. PICK i \in I : \A j \in I : i <= j
    <3> HIDE DEF I
    <3>1. QED
      BY <2>1, LeastNumber
  <2>3. PICK x \in V : x.id = i
    OBVIOUS
  <2>4. \A t \in V : x.id <= t.id
    BY <2>2, <2>3
  <2> HIDE DEF I
  <2>5. Cardinality(V \ {x}) = Cardinality(V) - 1
    BY <1>7, FS_RemoveElement
  <2>6. V \ {x} \notin Bad
    <3>1. V \ {x} \in Bad => Cardinality(V \ {x}) \in T
      OBVIOUS
    <3> HIDE DEF T, Bad
    <3>2. QED
      BY <1>4, <1>5, <1>7, <2>5, <3>1
  <2>7. PICK f : Sorts(f, V \ {x})
    BY <1>6, <2>6
  <2> HIDE DEF T, Bad
  <2>8. QED
    BY <1>6, <1>7, <2>4, <2>7, SortOneMore
<1>10. QED
  BY <1>8, <1>9

\* inOrder lists every track of a set once.
LEMMA InOrder ==
    ASSUME NEW S, Sortable(S)
    PROVE  /\ Cardinality(S) \in Nat
           /\ inOrder(S) \in [1..Cardinality(S) -> S]
           /\ \A m, n \in DOMAIN inOrder(S) : m # n => inOrder(S)[m].id # inOrder(S)[n].id
           /\ \A t \in S : \E n \in DOMAIN inOrder(S) : inOrder(S)[n] = t
<1> DEFINE k == Cardinality(S)
           s == inOrder(S)
<1>0. IsFiniteSet(S) /\ k \in Nat
  BY FS_CardinalityType DEF Sortable
<1>1. Sorts(s, S)
  <2>1. PICK f : Sorts(f, S)
    BY SortExists
  <2>2. \E g \in [1..Cardinality(S) -> S] : \A m, n \in DOMAIN g : m < n => g[m].id < g[n].id
    BY <2>1 DEF Sorts
  <2>3. QED
    BY <2>2 DEF Sorts, inOrder
<1> HIDE DEF s
<1>2. /\ s \in [1..k -> S] /\ DOMAIN s = 1..k
      /\ \A m, n \in 1..k : m < n => s[m].id < s[n].id
  BY <1>1 DEF Sorts
<1> HIDE DEF k
<1>3. ASSUME NEW m \in 1..k, NEW n \in 1..k, m # n PROVE s[m].id # s[n].id
  <2>1. s[m].id \in Nat /\ s[n].id \in Nat
    BY <1>2 DEF Sortable
  <2>2. m < n \/ n < m
    BY <1>0, <1>3
  <2>3. s[m].id < s[n].id \/ s[n].id < s[m].id
    BY <1>2, <2>2
  <2>4. QED
    BY <2>1, <2>3
<1>4. s \in Injection(1..k, S)
  BY <1>2, <1>3 DEF Injection, IsInjective
<1>5. Cardinality(1..k) = k
  <2>1. Cardinality(1..k) = IF 1 > k THEN 0 ELSE k - 1 + 1
    BY <1>0, FS_Interval
  <2>2. QED
    BY <1>0, <2>1
<1>6. s \in Surjection(1..k, S)
  BY <1>0, <1>4, <1>5, FS_Injection DEF k
<1>7. \A t \in S : \E n \in 1..k : s[n] = t
  BY <1>6 DEF Surjection
<1>8. QED
  BY <1>0, <1>2, <1>3, <1>7 DEF k, s

----------------------------------------------------------------------------
(* Matching.                                                               *)

\* uniqueTracks lists the candidates that have an ID, each once, whatever the
\* order and the repetitions of the answer.
LEMMA UniqueTracks ==
    ASSUME NEW in, in \in Seq(ToSet(in)), Catalogued(ToSet(in))
    PROVE  uniqueTracks(in) = inOrder(Named(ToSet(in))) /\ Sortable(Named(ToSet(in)))
<1> DEFINE all == ToSet(in)
           first == {n \in DOMAIN in : in[n].id # 0 /\ \A m \in 1..(n - 1) : in[m].id # in[n].id}
<1>1. /\ Len(in) \in Nat /\ DOMAIN in = 1..Len(in)
      /\ all = {in[n] : n \in 1..Len(in)} /\ in \in [1..Len(in) -> all]
  <2>1. Len(in) \in Nat /\ DOMAIN in = 1..Len(in) /\ in \in [1..Len(in) -> all]
    OBVIOUS
  <2>2. QED
    BY <2>1 DEF ToSet
<1>2. (\A t \in all : t.id \in Nat) /\ \A t, u \in all : t.id = u.id /\ t.id # 0 => t = u
  BY DEF Catalogued
<1> HIDE DEF all
<1>3. IsFiniteSet(all)
  <2>1. in \in Surjection(1..Len(in), all)
    BY <1>1 DEF Surjection
  <2>2. IsFiniteSet(1..Len(in))
    <3>1. 1 \in Int /\ Len(in) \in Int
      BY <1>1
    <3>2. QED
      BY <3>1, FS_Interval
  <2>3. QED
    BY <2>1, <2>2, FS_Surjection
<1>4. Sortable(Named(all))
  <2>1. Named(all) \in SUBSET all
    BY DEF Named
  <2>2. IsFiniteSet(Named(all))
    BY <1>3, <2>1, FS_Subset
  <2>3. QED
    BY <1>2, <2>2 DEF Sortable, Named
<1>5. {in[n] : n \in first} = Named(all)
  <2>1. {in[n] : n \in first} \subseteq Named(all)
    BY <1>1 DEF Named
  <2>2. ASSUME NEW t \in Named(all) PROVE \E n \in first : in[n] = t
    <3> DEFINE T == {n \in 1..Len(in) : in[n].id = t.id}
    <3>1. t \in all /\ t.id # 0
      BY <2>2 DEF Named
    <3>2. T \in SUBSET Nat /\ T # {}
      BY <1>1, <3>1
    <3>3. PICK n \in T : \A m \in T : n <= m
      <4> HIDE DEF T
      <4>1. QED
        BY <3>2, LeastNumber
    <3>4. n \in 1..Len(in) /\ in[n].id = t.id /\ in[n] \in all
      BY <1>1
    <3>5. in[n] = t
      BY <1>2, <3>1, <3>4
    <3>6. ASSUME NEW m \in 1..(n - 1) PROVE in[m].id # in[n].id
      <4>0. Len(in) \in Nat /\ n \in 1..Len(in)
        BY <1>1, <3>4
      <4> HIDE DEF T, first
      <4>1. n \in Nat /\ n <= Len(in) /\ m \in Nat /\ m >= 1 /\ m <= n - 1
        BY <4>0
      <4>2. m \in 1..Len(in) /\ ~(n <= m)
        BY <1>1, <4>1
      <4>3. QED
        BY <3>3, <3>4, <4>2 DEF T
    <3>7. n \in first
      BY <1>1, <3>1, <3>4, <3>6
    <3>8. QED
      BY <3>5, <3>7
  <2>3. QED
    BY <2>1, <2>2
<1>6. uniqueTracks(in) = inOrder({in[n] : n \in first})
  BY DEF uniqueTracks
<1>7. QED
  BY <1>4, <1>5, <1>6 DEF all

\* MatchTrack does not depend on the order in which a search returns the
\* candidates, nor on how often it returns one (uniqueTracks, resolveSingle).
THEOREM MatchIgnoresOrder ==
    ASSUME NEW entry, NEW provider, NEW a, NEW b,
           a \in Seq(ToSet(a)), b \in Seq(ToSet(b)), ToSet(a) = ToSet(b), Catalogued(ToSet(a))
    PROVE  MatchTrack(entry, provider, a) = MatchTrack(entry, provider, b)
<1>1. uniqueTracks(a) = uniqueTracks(b)
  BY UniqueTracks
<1>2. QED
  BY <1>1 DEF MatchTrack

\* A sequence lists each of some tracks once.
Lists(s, S) ==
    /\ IsFiniteSet(DOMAIN s)
    /\ \A n \in DOMAIN s : s[n] \in S
    /\ \A m, n \in DOMAIN s : m # n => s[m].id # s[n].id
    /\ \A t \in S : \E n \in DOMAIN s : s[n] = t

\* uniqueTracks lists the candidates that have an ID.
LEMMA UniqueTracksList ==
    ASSUME NEW in, in \in Seq(ToSet(in)), Catalogued(ToSet(in))
    PROVE  Lists(uniqueTracks(in), Named(ToSet(in)))
<1> DEFINE S == Named(ToSet(in))
<1>1. uniqueTracks(in) = inOrder(S) /\ Sortable(S)
  BY UniqueTracks
<1> HIDE DEF S
<1>2. /\ Cardinality(S) \in Nat
      /\ inOrder(S) \in [1..Cardinality(S) -> S]
      /\ \A m, n \in DOMAIN inOrder(S) : m # n => inOrder(S)[m].id # inOrder(S)[n].id
      /\ \A t \in S : \E n \in DOMAIN inOrder(S) : inOrder(S)[n] = t
  BY <1>1, InOrder
<1>3. IsFiniteSet(DOMAIN inOrder(S))
  <2>1. DOMAIN inOrder(S) = 1..Cardinality(S) /\ 1 \in Int /\ Cardinality(S) \in Int
    BY <1>2
  <2>2. QED
    BY <2>1, FS_Interval
<1>4. Lists(inOrder(S), S)
  BY <1>2, <1>3 DEF Lists
<1>5. QED
  BY <1>1, <1>4 DEF S

\* resolveSingle matches the only option, or leaves the choice to the user.
LEMMA ResolveSingle ==
    ASSUME NEW reason, NEW unique, NEW S, Lists(unique, S), NEW options \in SUBSET DOMAIN unique
    PROVE  \/ \E n \in options : /\ options = {n}
                                 /\ resolveSingle(reason, unique, options) = Matched(reason, unique[n])
           \/ /\ resolveSingle(reason, unique, options).status = "ambiguous"
              /\ resolveSingle(reason, unique, options).matched = 0
<1>1. IsFiniteSet(options)
  BY FS_Subset DEF Lists
<1>2. CASE Cardinality(options) = 1
  <2>1. PICK n : options = {n}
    BY <1>1, <1>2, FS_Singleton
  <2>2. (CHOOSE m \in options : TRUE) = n
    BY <2>1
  <2>3. resolveSingle(reason, unique, options) = Matched(reason, unique[n])
    BY <1>2, <2>2 DEF resolveSingle
  <2>4. QED
    BY <2>1, <2>3
<1>3. CASE Cardinality(options) # 1
  <2>1. resolveSingle(reason, unique, options) = Ambiguous(reason, Restrict(unique, options))
    BY <1>3 DEF resolveSingle
  <2>2. QED
    BY <2>1 DEF Ambiguous
<1>4. QED
  BY <1>2, <1>3

\* One option among tracks none of which has better evidence is justified.
LEMMA SingleJustified ==
    ASSUME NEW s, NEW provider, NEW reason, NEW unique, NEW S, Lists(unique, S),
           \A t \in S : t.id \in Nat /\ t.id # 0,
           NEW options \in SUBSET DOMAIN unique, NEW level \in 1..3,
           \A n \in options : Evidence(s, unique[n], provider) = level,
           \A n \in DOMAIN unique \ options : Evidence(s, unique[n], provider) < level
    PROVE  Justified(s, provider, S, resolveSingle(reason, unique, options))
<1> DEFINE result == resolveSingle(reason, unique, options)
<1>1. CASE \E n \in options : options = {n} /\ result = Matched(reason, unique[n])
  <2>1. PICK n \in options : options = {n} /\ result = Matched(reason, unique[n])
    BY <1>1
  <2> DEFINE t == unique[n]
  <2>2. /\ t \in S /\ t.id # 0 /\ Evidence(s, t, provider) = level /\ level > 0
    BY DEF Lists
  <2>3. result.status = "matched" /\ result.matched = t.id
    BY <2>1 DEF Matched
  <2>4. ASSUME NEW u \in S, u.id # t.id PROVE Evidence(s, u, provider) < Evidence(s, t, provider)
    <3>1. PICK m \in DOMAIN unique : unique[m] = u
      BY DEF Lists
    <3>2. m \in DOMAIN unique \ options
      BY <2>1, <2>4, <3>1
    <3>3. QED
      BY <2>2, <3>1, <3>2
  <2> HIDE DEF result, t
  <2>5. QED
    BY <2>2, <2>3, <2>4 DEF Justified, result
<1>2. CASE result.status = "ambiguous" /\ result.matched = 0
  <2> HIDE DEF result
  <2>1. QED
    BY <1>2 DEF Justified, result
<1>3. QED
  BY <1>1, <1>2, ResolveSingle

\* MatchTrack never guesses: what it matches has better evidence than every other
\* candidate, and it calls missing only what no candidate resembles.
THEOREM MatchIsJustified ==
    ASSUME NEW entry, NEW provider, NEW candidates,
           candidates \in Seq(ToSet(candidates)), Catalogued(ToSet(candidates))
    PROVE  Justified(entry.track, provider, Named(ToSet(candidates)),
                     MatchTrack(entry, provider, candidates))
<1> DEFINE s == entry.track
           S == Named(ToSet(candidates))
           unique == uniqueTracks(candidates)
           byID == {n \in DOMAIN unique : SameProviderID(s, unique[n], provider)}
           byISRC == {n \in DOMAIN unique : SameISRC(s, unique[n])}
           meta == {n \in DOMAIN unique : SameMetadata(s, unique[n])}
           close == {n \in meta : SameDuration(s, unique[n])}
           result == MatchTrack(entry, provider, candidates)
<1>0. SUFFICES Justified(s, provider, S, result)
  OBVIOUS
<1>1. Lists(unique, S)
  BY UniqueTracksList
<1>2. \A t \in S : t.id \in Nat /\ t.id # 0
  BY DEF Catalogued, Named
<1>3. result =
        IF Skipped(entry) THEN Unsupported("source_entry_unsupported")
        ELSE IF unique = <<>> THEN Missing("no_candidates")
        ELSE IF byID # {} THEN resolveSingle("provider_id", unique, byID)
        ELSE IF byISRC # {} THEN resolveSingle("isrc", unique, byISRC)
        ELSE IF meta = {} THEN Missing("no_metadata_match")
        ELSE IF close # {} THEN resolveSingle("metadata_duration", unique, close)
        ELSE Ambiguous("metadata_without_duration_confidence", Restrict(unique, meta))
  BY DEF MatchTrack
<1> HIDE DEF S, unique, result
<1>4. CASE Skipped(entry)
  BY <1>3, <1>4 DEF Unsupported, Justified
<1>5. CASE ~Skipped(entry) /\ unique = <<>>
  <2>1. S = {}
    BY <1>1, <1>5 DEF Lists
  <2>2. result = Missing("no_candidates")
    BY <1>3, <1>5
  <2>3. QED
    BY <2>1, <2>2 DEF Missing, Justified
<1>6. CASE ~Skipped(entry) /\ unique # <<>> /\ byID # {}
  <2>1. result = resolveSingle("provider_id", unique, byID)
    BY <1>3, <1>6
  <2>2. /\ \A n \in byID : Evidence(s, unique[n], provider) = 3
        /\ \A n \in DOMAIN unique \ byID : Evidence(s, unique[n], provider) < 3
    BY DEF Evidence
  <2>3. byID \in SUBSET DOMAIN unique /\ 3 \in 1..3
    OBVIOUS
  <2> HIDE DEF byID, s
  <2>4. QED
    BY <1>1, <1>2, <2>1, <2>2, <2>3, SingleJustified
<1>7. CASE ~Skipped(entry) /\ unique # <<>> /\ byID = {} /\ byISRC # {}
  <2>1. result = resolveSingle("isrc", unique, byISRC)
    BY <1>3, <1>7
  <2>2. /\ \A n \in byISRC : Evidence(s, unique[n], provider) = 2
        /\ \A n \in DOMAIN unique \ byISRC : Evidence(s, unique[n], provider) < 2
    BY <1>7 DEF Evidence
  <2>3. byISRC \in SUBSET DOMAIN unique /\ 2 \in 1..3
    OBVIOUS
  <2> HIDE DEF byISRC, s
  <2>4. QED
    BY <1>1, <1>2, <2>1, <2>2, <2>3, SingleJustified
<1>8. CASE ~Skipped(entry) /\ unique # <<>> /\ byID = {} /\ byISRC = {} /\ meta = {}
  <2>1. result = Missing("no_metadata_match")
    BY <1>3, <1>8
  <2>2. ASSUME NEW t \in S PROVE Evidence(s, t, provider) = 0 /\ ~SameMetadata(s, t)
    <3>1. PICK n \in DOMAIN unique : unique[n] = t
      BY <1>1 DEF Lists
    <3>2. QED
      BY <1>8, <3>1 DEF Evidence
  <2> HIDE DEF s
  <2>3. QED
    BY <2>1, <2>2 DEF Missing, Justified, s
<1>9. CASE ~Skipped(entry) /\ unique # <<>> /\ byID = {} /\ byISRC = {} /\ meta # {} /\ close # {}
  <2>1. result = resolveSingle("metadata_duration", unique, close)
    BY <1>3, <1>9
  <2>2. /\ \A n \in close : Evidence(s, unique[n], provider) = 1
        /\ \A n \in DOMAIN unique \ close : Evidence(s, unique[n], provider) < 1
    BY <1>9 DEF Evidence
  <2>3. close \in SUBSET DOMAIN unique /\ 1 \in 1..3
    OBVIOUS
  <2> HIDE DEF close, s
  <2>4. QED
    BY <1>1, <1>2, <2>1, <2>2, <2>3, SingleJustified
<1>10. CASE ~Skipped(entry) /\ unique # <<>> /\ byID = {} /\ byISRC = {} /\ meta # {} /\ close = {}
  <2>1. result = Ambiguous("metadata_without_duration_confidence", Restrict(unique, meta))
    BY <1>3, <1>10
  <2>2. QED
    BY <2>1 DEF Ambiguous, Justified
<1>11. QED
  BY <1>4, <1>5, <1>6, <1>7, <1>8, <1>9, <1>10
=============================================================================
