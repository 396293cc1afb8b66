------------------------- MODULE LibraryWalkProofs -------------------------
(***************************************************************************)
(* Proofs about LibraryWalk, for every page size, every offset limit and   *)
(* every library.                                                          *)
(***************************************************************************)
EXTENDS LibraryWalk, FiniteSetTheorems, SequenceTheorems, TLAPS

\* Offsets belong to a walk.
OffsetInv == pc # "walk" => offset = 0

\* Unless a deletion shifted the library under a walk: there is at most one
\* playlist of the run, a walk has not passed it, and an attempt that found
\* none is right.
SeenInv ==
    ~shrunk => /\ \A m, n \in Own : m = n
               /\ pc = "walk" => \A n \in Own : n > offset
               /\ pc = "absent" => Own = {}

WalkInv == TypeOK /\ OffsetInv /\ SeenInv

\* A finite set with no two different members has at most one member.
LEMMA AtMostOne ==
    ASSUME NEW S, IsFiniteSet(S)
    PROVE  Cardinality(S) <= 1 <=> \A x, y \in S : x = y
<1>1. Cardinality(S) \in Nat /\ (Cardinality(S) = 0 <=> S = {})
  BY FS_EmptySet, FS_CardinalityType
<1>2. Cardinality(S) = 1 <=> \E x : S = {x}
  BY FS_Singleton
<1>3. QED
  BY <1>1, <1>2

----------------------------------------------------------------------------
(* Listings.                                                               *)

\* A concatenation, position by position.
LEMMA ConcatAt ==
    ASSUME NEW S, NEW s \in Seq(S), NEW t \in Seq(S)
    PROVE  /\ s \o t \in Seq(S) /\ Len(s \o t) = Len(s) + Len(t)
           /\ \A k \in 1..Len(s) : (s \o t)[k] = s[k]
           /\ \A k \in 1..Len(t) : (s \o t)[Len(s) + k] = t[k]
<1>1. Len(s) \in Nat /\ Len(t) \in Nat
  OBVIOUS
<1>2. /\ s \o t \in Seq(S) /\ Len(s \o t) = Len(s) + Len(t)
      /\ \A k \in 1..(Len(s) + Len(t)) :
            (s \o t)[k] = IF k <= Len(s) THEN s[k] ELSE t[k - Len(s)]
  BY ConcatProperties
<1>3. ASSUME NEW k \in 1..Len(t) PROVE (s \o t)[Len(s) + k] = t[k]
  <2>1. Len(s) + k \in 1..(Len(s) + Len(t)) /\ ~(Len(s) + k <= Len(s)) /\ (Len(s) + k) - Len(s) = k
    BY <1>1
  <2>2. QED
    BY <1>2, <2>1
<1>4. QED
  BY <1>1, <1>2, <1>3

\* Part of a sequence, position by position.
LEMMA PartAt ==
    ASSUME NEW S, NEW s \in Seq(S), NEW a \in Nat \ {0}, NEW b \in Nat,
           a <= b + 1, b <= Len(s)
    PROVE  /\ SubSeq(s, a, b) \in Seq(S) /\ Len(SubSeq(s, a, b)) = b - a + 1
           /\ \A k \in 1..(b - a + 1) : SubSeq(s, a, b)[k] = s[a + k - 1]
<1>1. Len(s) \in Nat /\ \A k \in a..b : s[k] \in S
  OBVIOUS
<1>2. QED
  BY <1>1, SubSeqProperties

\* t is s with e at a place of the listing: what was before it stays, and what
\* was after it moves on by one.
Inserts(S, s, n, e, t) ==
    /\ t \in Seq(S) /\ Len(t) = Len(s) + 1
    /\ \A k \in 1..n : t[k] = s[k]
    /\ t[n + 1] = e
    /\ \A k \in (n + 2)..(Len(s) + 1) : t[k] = s[k - 1]

\* InsertAt does that.
LEMMA InsertAtProperties ==
    ASSUME NEW S, NEW s \in Seq(S), NEW n \in 0..Len(s), NEW e \in S
    PROVE  Inserts(S, s, n, e, InsertAt(s, n, e))
<1> DEFINE head == SubSeq(s, 1, n)
           tail == SubSeq(s, n + 1, Len(s))
           mid == head \o <<e>>
<1>0. Len(s) \in Nat /\ n \in Nat /\ n <= Len(s)
  OBVIOUS
<1>1. head \in Seq(S) /\ Len(head) = n /\ \A k \in 1..n : head[k] = s[k]
  BY <1>0, PartAt
<1>2. tail \in Seq(S) /\ Len(tail) = Len(s) - n /\ \A k \in 1..(Len(s) - n) : tail[k] = s[n + k]
  BY <1>0, PartAt
<1>3. <<e>> \in Seq(S) /\ Len(<<e>>) = 1 /\ <<e>>[1] = e
  OBVIOUS
<1> HIDE DEF head, tail
<1>4. /\ mid \in Seq(S) /\ Len(mid) = n + 1
      /\ \A k \in 1..n : mid[k] = s[k]
      /\ mid[n + 1] = e
  <2>1. /\ mid \in Seq(S) /\ Len(mid) = Len(head) + Len(<<e>>)
        /\ \A k \in 1..Len(head) : mid[k] = head[k]
        /\ \A k \in 1..Len(<<e>>) : mid[Len(head) + k] = <<e>>[k]
    BY <1>1, <1>3, ConcatAt
  <2> HIDE DEF mid
  <2>2. 1 \in 1..Len(<<e>>)
    BY <1>3
  <2>3. mid[n + 1] = e
    BY <1>1, <1>3, <2>1, <2>2
  <2>4. QED
    BY <1>1, <1>3, <2>1, <2>3
<1> HIDE DEF mid
<1>5. /\ mid \o tail \in Seq(S) /\ Len(mid \o tail) = (n + 1) + (Len(s) - n)
      /\ \A k \in 1..(n + 1) : (mid \o tail)[k] = mid[k]
      /\ \A k \in 1..(Len(s) - n) : (mid \o tail)[(n + 1) + k] = tail[k]
  <2>0. mid \in Seq(S) /\ tail \in Seq(S)
    BY <1>2, <1>4
  <2>1. /\ mid \o tail \in Seq(S) /\ Len(mid \o tail) = Len(mid) + Len(tail)
        /\ \A k \in 1..Len(mid) : (mid \o tail)[k] = mid[k]
        /\ \A k \in 1..Len(tail) : (mid \o tail)[Len(mid) + k] = tail[k]
    BY <2>0, ConcatAt
  <2>2. QED
    BY <1>2, <1>4, <2>1
<1>6. InsertAt(s, n, e) = mid \o tail
  BY DEF InsertAt, mid, head, tail
<1>7. ASSUME NEW k \in (n + 2)..(Len(s) + 1) PROVE (mid \o tail)[k] = s[k - 1]
  <2>1. k - (n + 1) \in 1..(Len(s) - n) /\ (n + 1) + (k - (n + 1)) = k /\ n + (k - (n + 1)) = k - 1
    BY <1>0
  <2>2. (mid \o tail)[(n + 1) + (k - (n + 1))] = tail[k - (n + 1)]
    BY <1>5, <2>1
  <2>3. tail[k - (n + 1)] = s[n + (k - (n + 1))]
    BY <1>2, <2>1
  <2>4. QED
    BY <2>1, <2>2, <2>3
<1>8. Inserts(S, s, n, e, mid \o tail)
  BY <1>0, <1>4, <1>5, <1>7 DEF Inserts
<1>9. QED
  BY <1>6, <1>8

\* A playlist disappears from the listing: what was after it moves up by one.
LEMMA DeleteAtProperties ==
    ASSUME NEW S, NEW s \in Seq(S), NEW n \in 1..Len(s)
    PROVE  /\ DeleteAt(s, n) \in Seq(S) /\ Len(DeleteAt(s, n)) = Len(s) - 1
           /\ \A k \in 1..(n - 1) : DeleteAt(s, n)[k] = s[k]
           /\ \A k \in n..(Len(s) - 1) : DeleteAt(s, n)[k] = s[k + 1]
<1> DEFINE head == SubSeq(s, 1, n - 1)
           tail == SubSeq(s, n + 1, Len(s))
<1>0. Len(s) \in Nat /\ n \in Nat /\ n <= Len(s) /\ n >= 1
  OBVIOUS
<1>1. head \in Seq(S) /\ Len(head) = n - 1 /\ \A k \in 1..(n - 1) : head[k] = s[k]
  BY <1>0, PartAt
<1>2. tail \in Seq(S) /\ Len(tail) = Len(s) - n /\ \A k \in 1..(Len(s) - n) : tail[k] = s[n + k]
  BY <1>0, PartAt
<1> HIDE DEF head, tail
<1>3. /\ head \o tail \in Seq(S) /\ Len(head \o tail) = (n - 1) + (Len(s) - n)
      /\ \A k \in 1..(n - 1) : (head \o tail)[k] = head[k]
      /\ \A k \in 1..(Len(s) - n) : (head \o tail)[(n - 1) + k] = tail[k]
  <2>0. head \in Seq(S) /\ tail \in Seq(S)
    BY <1>1, <1>2
  <2>1. /\ head \o tail \in Seq(S) /\ Len(head \o tail) = Len(head) + Len(tail)
        /\ \A k \in 1..Len(head) : (head \o tail)[k] = head[k]
        /\ \A k \in 1..Len(tail) : (head \o tail)[Len(head) + k] = tail[k]
    BY <2>0, ConcatAt
  <2>2. QED
    BY <1>1, <1>2, <2>1
<1>4. DeleteAt(s, n) = head \o tail
  BY DEF DeleteAt, head, tail
<1>5. ASSUME NEW k \in n..(Len(s) - 1) PROVE (head \o tail)[k] = s[k + 1]
  <2>1. k - (n - 1) \in 1..(Len(s) - n) /\ (n - 1) + (k - (n - 1)) = k /\ n + (k - (n - 1)) = k + 1
    BY <1>0
  <2>2. (head \o tail)[(n - 1) + (k - (n - 1))] = tail[k - (n - 1)]
    BY <1>3, <2>1
  <2>3. tail[k - (n - 1)] = s[n + (k - (n - 1))]
    BY <1>2, <2>1
  <2>4. QED
    BY <2>1, <2>2, <2>3
<1>6. QED
  BY <1>0, <1>1, <1>3, <1>4, <1>5

----------------------------------------------------------------------------
(* Steps of the attempt and of the owner.                                  *)

\* What the type says of the listing.
LEMMA Listing ==
    ASSUME TypeOK
    PROVE  /\ library \in Seq({"own", "other"}) /\ Len(library) \in Nat
           /\ Len(library) <= MaxLibrary
           /\ Own = {n \in 1..Len(library) : library[n] = "own"}
           /\ offset \in Nat
<1>1. library \in Seq({"own", "other"}) /\ Len(library) <= MaxLibrary
  BY DEF TypeOK, Libraries
<1>2. Len(library) \in Nat /\ DOMAIN library = 1..Len(library)
  BY <1>1
<1>3. offset \in Nat
  BY LimitsAssumption DEF TypeOK
<1>4. QED
  BY <1>1, <1>2, <1>3 DEF Own

\* Where the run's playlists are after one is listed anew.
LEMMA Inserted ==
    ASSUME TypeOK, Len(library) < MaxLibrary,
           NEW n \in 0..Len(library), NEW e \in {"own", "other"},
           library' = InsertAt(library, n, e)
    PROVE  /\ library' \in Libraries /\ Len(library') = Len(library) + 1
           /\ \A m \in Own' : m \in Nat /\ (m <= n => m \in Own)
                                        /\ (m = n + 1 => e = "own")
                                        /\ (m > n + 1 => m - 1 \in Own)
<1>1. /\ library \in Seq({"own", "other"}) /\ Len(library) \in Nat
      /\ Own = {m \in 1..Len(library) : library[m] = "own"}
      /\ n \in Nat /\ n <= Len(library)
  BY Listing
<1>2. /\ library' \in Seq({"own", "other"}) /\ Len(library') = Len(library) + 1
      /\ \A k \in 1..n : library'[k] = library[k]
      /\ library'[n + 1] = e
      /\ \A k \in (n + 2)..(Len(library) + 1) : library'[k] = library[k - 1]
  <2>1. library \in Seq({"own", "other"}) /\ library' = InsertAt(library, n, e)
    BY <1>1
  <2> DEFINE S == {"own", "other"}
  <2>2. library \in Seq(S) /\ e \in S
    BY <1>1
  <2> HIDE DEF S
  <2>3. Inserts(S, library, n, e, InsertAt(library, n, e))
    BY <2>2, InsertAtProperties
  <2>4. QED
    BY <2>1, <2>3 DEF Inserts, S
<1>3. library' \in Libraries
  BY <1>1, <1>2, LimitsAssumption DEF Libraries
<1>4. Own' = {m \in 1..(Len(library) + 1) : library'[m] = "own"}
  <2>1. DOMAIN library' = 1..(Len(library) + 1)
    BY <1>2
  <2>2. QED
    BY <2>1 DEF Own
<1>5. ASSUME NEW m \in Own'
      PROVE  m \in Nat /\ (m <= n => m \in Own) /\ (m = n + 1 => e = "own")
                       /\ (m > n + 1 => m - 1 \in Own)
  <2>1. m \in 1..(Len(library) + 1) /\ library'[m] = "own"
    BY <1>4, <1>5
  <2>2. m \in Nat /\ m >= 1 /\ m <= Len(library) + 1
    BY <1>1, <2>1
  <2>3. ASSUME m <= n PROVE m \in Own
    <3>1. m \in 1..n /\ m \in 1..Len(library)
      BY <1>1, <2>2, <2>3
    <3>2. QED
      BY <1>1, <1>2, <2>1, <3>1
  <2>4. ASSUME m > n + 1 PROVE m - 1 \in Own
    <3>1. m \in (n + 2)..(Len(library) + 1) /\ m - 1 \in 1..Len(library)
      BY <1>1, <2>2, <2>4
    <3>2. library[m - 1] = "own"
      BY <1>2, <2>1, <3>1
    <3>3. QED
      BY <1>1, <3>1, <3>2
  <2>5. m = n + 1 => e = "own"
    BY <1>2, <2>1
  <2>6. QED
    BY <2>2, <2>3, <2>4, <2>5
<1>6. QED
  BY <1>2, <1>3, <1>5

\* Where the run's playlists are after one is deleted.
LEMMA Deleted ==
    ASSUME TypeOK, NEW n \in DOMAIN library, library' = DeleteAt(library, n)
    PROVE  /\ library' \in Libraries
           /\ \A m \in Own' : m \in Nat /\ (m < n => m \in Own) /\ (m >= n => m + 1 \in Own)
           /\ n \in Nat
<1>1. /\ library \in Seq({"own", "other"}) /\ Len(library) \in Nat
      /\ Len(library) <= MaxLibrary
      /\ Own = {m \in 1..Len(library) : library[m] = "own"}
  BY Listing
<1>2. n \in 1..Len(library)
  BY <1>1
<1>3. /\ library' \in Seq({"own", "other"}) /\ Len(library') = Len(library) - 1
      /\ \A k \in 1..(n - 1) : library'[k] = library[k]
      /\ \A k \in n..(Len(library) - 1) : library'[k] = library[k + 1]
  <2>1. library \in Seq({"own", "other"}) /\ library' = DeleteAt(library, n)
    BY <1>1
  <2>2. QED
    BY <1>2, <2>1, DeleteAtProperties
<1>4. library' \in Libraries
  BY <1>1, <1>3, LimitsAssumption DEF Libraries
<1>5. Own' = {m \in 1..(Len(library) - 1) : library'[m] = "own"}
  <2>1. DOMAIN library' = 1..(Len(library) - 1)
    BY <1>3
  <2>2. QED
    BY <2>1 DEF Own
<1>6. ASSUME NEW m \in Own'
      PROVE  m \in Nat /\ (m < n => m \in Own) /\ (m >= n => m + 1 \in Own)
  <2>1. m \in 1..(Len(library) - 1) /\ library'[m] = "own"
    BY <1>5, <1>6
  <2>2. m \in Nat /\ m >= 1 /\ m <= Len(library) - 1 /\ n \in Nat
    BY <1>1, <1>2, <2>1
  <2>3. ASSUME m < n PROVE m \in Own
    <3>1. m \in 1..(n - 1) /\ m \in 1..Len(library)
      BY <1>1, <2>2, <2>3
    <3>2. QED
      BY <1>1, <1>3, <2>1, <3>1
  <2>4. ASSUME m >= n PROVE m + 1 \in Own
    <3>1. m \in n..(Len(library) - 1) /\ m + 1 \in 1..Len(library)
      BY <1>1, <2>2, <2>4
    <3>2. library[m + 1] = "own"
      BY <1>3, <2>1, <3>1
    <3>3. QED
      BY <1>1, <3>1, <3>2
  <2>5. QED
    BY <2>2, <2>3, <2>4
<1>7. QED
  BY <1>1, <1>2, <1>4, <1>6

\* A page that does not end the walk brings it past playlists that are not the
\* run's, and the last page shows that there is none.
LEMMA ScanStep ==
    ASSUME WalkInv, pc = "walk", NEW k \in PageSizes, NEW next \in BOOLEAN,
           next <=> offset + k < Len(library), Scan(k, next),
           UNCHANGED <<provider, library, hollow, shrunk>>
    PROVE  WalkInv'
<1>1. /\ library \in Seq({"own", "other"}) /\ Len(library) \in Nat
      /\ Len(library) <= MaxLibrary
      /\ Own = {n \in 1..Len(library) : library[n] = "own"} /\ offset \in Nat
  BY Listing DEF WalkInv
<1>2. k \in Nat
  BY <1>1, LimitsAssumption DEF PageSizes
<1>3. Own' = Own /\ library' = library /\ shrunk' = shrunk
  BY DEF Own
<1>4. CASE "own" \in Page(k)
  BY <1>1, <1>3, <1>4, LimitsAssumption DEF Scan, WalkInv, TypeOK, OffsetInv, SeenInv
<1>5. CASE "own" \notin Page(k) /\ ~next
  <2>1. pc' = "absent" /\ offset' = 0
    BY <1>5 DEF Scan
  <2>2. ~shrunk => Own = {}
    <3>1. SUFFICES ASSUME ~shrunk, NEW n \in Own PROVE FALSE
      OBVIOUS
    <3>2. n > offset /\ n \in Nat /\ n <= Len(library) /\ library[n] = "own"
      BY <1>1, <3>1 DEF WalkInv, SeenInv
    <3>3. n \in (offset + 1)..(offset + k)
      BY <1>1, <1>2, <1>5, <3>2
    <3>4. QED
      BY <1>5, <3>2, <3>3 DEF Page
  <2>3. QED
    BY <1>1, <1>3, <2>1, <2>2, LimitsAssumption DEF WalkInv, TypeOK, OffsetInv, SeenInv
<1>6. CASE "own" \notin Page(k) /\ next
  <2>1. pc' = "walk" /\ offset' = offset + k /\ offset + k < Len(library)
    BY <1>6 DEF Scan, NextOffset
  <2>2. ASSUME ~shrunk, NEW n \in Own PROVE n > offset'
    <3>1. n > offset /\ n \in Nat /\ library[n] = "own"
      BY <1>1, <2>2 DEF WalkInv, SeenInv
    <3>2. n \notin (offset + 1)..(offset + k)
      BY <1>6, <3>1 DEF Page
    <3>3. QED
      BY <1>1, <1>2, <2>1, <3>1, <3>2
  <2>3. TypeOK'
    BY <1>1, <1>2, <1>3, <2>1, LimitsAssumption DEF WalkInv, TypeOK
  <2>4. QED
    BY <1>3, <2>1, <2>2, <2>3 DEF WalkInv, OffsetInv, SeenInv
<1>7. QED
  BY <1>4, <1>5, <1>6

\* At most one playlist of the run is there to begin with.
LEMMA InitWalk == Init => WalkInv
<1> SUFFICES ASSUME Init PROVE WalkInv
  OBVIOUS
<1>1. /\ provider \in {"spotify", "apple"} /\ hollow = FALSE /\ shrunk = FALSE
      /\ pc = "idle" /\ offset = 0 /\ Cardinality(Own) <= 1
  BY DEF Init
<1>2. PICK n \in 0..MaxLibrary : library \in [1..n -> {"own", "other"}]
  BY DEF Init
<1>3. n \in Nat /\ n <= MaxLibrary
  BY <1>2, LimitsAssumption
<1>4. library \in Seq({"own", "other"}) /\ Len(library) = n /\ DOMAIN library = 1..n
  BY <1>2, <1>3
<1>5. TypeOK
  <2>1. library \in Libraries
    BY <1>3, <1>4 DEF Libraries
  <2>2. offset \in 0..MaxLibrary /\ ~(offset > 0)
    BY <1>1, LimitsAssumption
  <2>3. QED
    BY <1>1, <2>1, <2>2 DEF TypeOK
<1>6. IsFiniteSet(Own)
  <2>1. IsFiniteSet(1..n)
    BY <1>3, FS_Interval
  <2>2. Own \subseteq 1..n
    BY <1>4 DEF Own
  <2>3. QED
    BY <2>1, <2>2, FS_Subset
<1>7. \A x, y \in Own : x = y
  BY <1>1, <1>6, AtMostOne
<1>8. QED
  BY <1>1, <1>5, <1>7 DEF WalkInv, OffsetInv, SeenInv

\* No step leaves a second playlist of the run, or passes the first.
LEMMA WalkStep == WalkInv /\ [Next]_vars => WalkInv'
<1> SUFFICES ASSUME WalkInv, [Next]_vars PROVE WalkInv'
  OBVIOUS
<1>0. TypeOK /\ OffsetInv /\ SeenInv
  BY DEF WalkInv
<1>1. CASE StartWalk
  <2>1. Own' = Own /\ \A n \in Own : n > 0
    BY <1>0, <1>1, Listing DEF StartWalk, Own
  <2>2. QED
    BY <1>0, <1>1, <2>1, LimitsAssumption DEF StartWalk, WalkInv, TypeOK, OffsetInv, SeenInv
<1>2. ASSUME pc = "walk", Fail, UNCHANGED <<provider, library, hollow, shrunk>>
      PROVE  WalkInv'
  <2>1. Own' = Own
    BY <1>2 DEF Own
  <2>2. QED
    BY <1>0, <1>2, <2>1, LimitsAssumption DEF Fail, WalkInv, TypeOK, OffsetInv, SeenInv
<1>3. CASE SpotifyPage
  <2>1. PICK k \in PageSizes : IF offset > MaxOffset \/ InvalidPage(k) THEN Fail
                               ELSE Scan(k, SpotifyNext(k))
    BY <1>3 DEF SpotifyPage
  <2>2. pc = "walk" /\ UNCHANGED <<provider, library, hollow, shrunk>>
    BY <1>3 DEF SpotifyPage
  <2>3. CASE offset > MaxOffset \/ InvalidPage(k)
    BY <1>2, <2>1, <2>2, <2>3
  <2>4. CASE ~(offset > MaxOffset \/ InvalidPage(k))
    <3>1. SpotifyNext(k) \in BOOLEAN /\ (SpotifyNext(k) <=> offset + k < Len(library))
      BY DEF SpotifyNext, NextOffset
    <3>2. Scan(k, SpotifyNext(k))
      BY <2>1, <2>4
    <3>3. QED
      BY <2>2, <3>1, <3>2, ScanStep
  <2>5. QED
    BY <2>3, <2>4
<1>4. CASE ApplePage
  <2>1. PICK k \in PageSizes : Scan(k, AppleNext(k))
    BY <1>4 DEF ApplePage
  <2>2. pc = "walk" /\ UNCHANGED <<provider, library, hollow, shrunk>>
    BY <1>4 DEF ApplePage
  <2>3. AppleNext(k) \in BOOLEAN /\ (AppleNext(k) <=> offset + k < Len(library))
    BY DEF AppleNext
  <2>4. QED
    BY <2>1, <2>2, <2>3, ScanStep
<1>5. CASE PageFails
  BY <1>2, <1>5 DEF PageFails
<1>6. CASE Create
  <2>1. /\ pc = "absent" /\ Len(library) < MaxLibrary /\ pc' \in {"done", "idle"}
        /\ UNCHANGED <<provider, hollow, offset, shrunk>>
    BY <1>6 DEF Create
  <2>2. PICK n \in 0..Len(library) : library' = InsertAt(library, n, "own")
    BY <1>6 DEF Create
  <2>3. /\ library' \in Libraries /\ Len(library') = Len(library) + 1
        /\ \A m \in Own' : m \in Nat /\ (m <= n => m \in Own) /\ (m > n + 1 => m - 1 \in Own)
    BY <1>0, <2>1, <2>2, Inserted
  <2>4. n \in Nat /\ Len(library) \in Nat /\ offset = 0
    BY <1>0, <2>1, Listing DEF OffsetInv
  <2>5. ~shrunk => \A m \in Own' : m = n + 1
    BY <1>0, <2>1, <2>3, <2>4 DEF SeenInv
  <2>6. TypeOK'
    BY <1>0, <2>1, <2>3, <2>4 DEF TypeOK
  <2>7. QED
    BY <2>1, <2>4, <2>5, <2>6 DEF WalkInv, OffsetInv, SeenInv
<1>7. CASE CreateFails \/ Forgotten
  <2>1. Own' = Own
    BY <1>7 DEF CreateFails, Forgotten, Own
  <2>2. QED
    BY <1>0, <1>7, <2>1 DEF CreateFails, Forgotten, WalkInv, TypeOK, OffsetInv, SeenInv
<1>8. CASE GoHollow
  <2>1. Own' = Own
    BY <1>8 DEF GoHollow, Own
  <2>2. QED
    BY <1>0, <1>8, <2>1 DEF GoHollow, WalkInv, TypeOK, OffsetInv, SeenInv
<1>9. CASE OwnerAdds
  <2>1. Len(library) < MaxLibrary /\ UNCHANGED <<provider, hollow, pc, offset, shrunk>>
    BY <1>9 DEF OwnerAdds
  <2>2. PICK n \in 0..Len(library) : library' = InsertAt(library, n, "other")
    BY <1>9 DEF OwnerAdds
  <2>3. /\ library' \in Libraries /\ Len(library') = Len(library) + 1
        /\ \A m \in Own' : m \in Nat /\ (m <= n => m \in Own) /\ m # n + 1
                                     /\ (m > n + 1 => m - 1 \in Own)
    BY <1>0, <2>1, <2>2, Inserted
  <2>4. n \in Nat /\ Len(library) \in Nat /\ offset \in Nat
    BY <1>0, Listing
  <2>5. ASSUME ~shrunk, NEW x \in Own', NEW y \in Own' PROVE x = y
    <3>1. (x <= n /\ x \in Own) \/ (x > n + 1 /\ x - 1 \in Own)
      BY <2>3, <2>4
    <3>2. (y <= n /\ y \in Own) \/ (y > n + 1 /\ y - 1 \in Own)
      BY <2>3, <2>4
    <3>3. \A u, v \in Own : u = v
      BY <1>0, <2>5 DEF SeenInv
    <3>4. x \in Nat /\ y \in Nat
      BY <2>3
    <3>5. QED
      BY <2>4, <3>1, <3>2, <3>3, <3>4
  <2>6. ASSUME ~shrunk, pc = "walk", NEW m \in Own' PROVE m > offset
    <3>1. \A u \in Own : u > offset
      BY <1>0, <2>6 DEF SeenInv
    <3>2. m \in Nat /\ (m \in Own \/ m - 1 \in Own)
      BY <2>3, <2>4
    <3>3. QED
      BY <2>4, <3>1, <3>2
  <2>7. ASSUME ~shrunk, pc = "absent" PROVE Own' = {}
    BY <1>0, <2>3, <2>4, <2>7 DEF SeenInv
  <2>8. TypeOK'
    BY <1>0, <2>1, <2>3, <2>4 DEF TypeOK
  <2>9. QED
    BY <1>0, <2>1, <2>5, <2>6, <2>7, <2>8 DEF WalkInv, OffsetInv, SeenInv
<1>10. CASE OwnerDeletes
  <2>1. shrunk' = (shrunk \/ pc = "walk") /\ UNCHANGED <<provider, hollow, pc, offset>>
    BY <1>10 DEF OwnerDeletes
  <2>2. PICK n \in DOMAIN library : library' = DeleteAt(library, n)
    BY <1>10 DEF OwnerDeletes
  <2>3. /\ library' \in Libraries /\ n \in Nat
        /\ \A m \in Own' : m \in Nat /\ (m < n => m \in Own) /\ (m >= n => m + 1 \in Own)
    BY <1>0, <2>2, Deleted
  <2>4. ~shrunk' => ~shrunk /\ pc # "walk" /\ offset = 0
    BY <1>0, <2>1 DEF OffsetInv
  <2>5. ASSUME ~shrunk', NEW x \in Own', NEW y \in Own' PROVE x = y
    <3>1. (x < n /\ x \in Own) \/ (x >= n /\ x + 1 \in Own)
      BY <2>3
    <3>2. (y < n /\ y \in Own) \/ (y >= n /\ y + 1 \in Own)
      BY <2>3
    <3>3. \A u, v \in Own : u = v
      BY <1>0, <2>4, <2>5 DEF SeenInv
    <3>4. x \in Nat /\ y \in Nat
      BY <2>3
    <3>5. QED
      BY <2>3, <3>1, <3>2, <3>3, <3>4
  <2>6. ASSUME ~shrunk', pc = "absent" PROVE Own' = {}
    BY <1>0, <2>3, <2>4, <2>6 DEF SeenInv
  <2>7. shrunk' \in BOOLEAN
    BY <1>0, <2>1 DEF TypeOK
  <2>8. TypeOK'
    BY <1>0, <2>1, <2>3, <2>4, <2>7 DEF TypeOK
  <2>9. QED
    BY <1>0, <2>1, <2>4, <2>5, <2>6, <2>8 DEF WalkInv, OffsetInv, SeenInv
<1>11. CASE UNCHANGED vars
  <2>1. Own' = Own
    BY <1>11 DEF vars, Own
  <2>2. QED
    BY <1>0, <1>11, <2>1 DEF vars, WalkInv, TypeOK, OffsetInv, SeenInv
<1>12. QED
  BY <1>1, <1>3, <1>4, <1>5, <1>6, <1>7, <1>8, <1>9, <1>10, <1>11 DEF Next

----------------------------------------------------------------------------
(* Theorems.                                                               *)

\* The invariant of the walk, for every page size and every library.
LEMMA AlwaysWalkInv == Spec => []WalkInv
<1>1. QED
  BY InitWalk, WalkStep, PTL DEF Spec

\* TypeOK, offsets within the library included: findPlaylistByName never asks
\* for a page past the end of a library that nothing was deleted from.
THEOREM TypeInvariant == Spec => []TypeOK
<1>1. WalkInv => TypeOK
  BY DEF WalkInv
<1>2. QED
  BY <1>1, AlwaysWalkInv, PTL

\* OneOwn: retried attempts never leave a second playlist of the run, however the
\* pages fall and wherever playlists are added (findPlaylistByName, CreatePlaylist).
THEOREM NoSecondPlaylist == Spec => []OneOwn
<1>1. ASSUME WalkInv, ~shrunk PROVE Cardinality(Own) <= 1
  <2>1. \A x, y \in Own : x = y
    BY <1>1 DEF WalkInv, SeenInv
  <2>2. IsFiniteSet(Own)
    <3>1. Len(library) \in Nat /\ Own \subseteq 1..Len(library)
      BY <1>1, Listing DEF WalkInv
    <3>2. IsFiniteSet(1..Len(library))
      BY <3>1, FS_Interval
    <3>3. QED
      BY <3>1, <3>2, FS_Subset
  <2>3. QED
    BY <2>1, <2>2, AtMostOne
<1>2. WalkInv => OneOwn
  BY <1>1 DEF OneOwn
<1>3. QED
  BY <1>2, AlwaysWalkInv, PTL
=============================================================================
