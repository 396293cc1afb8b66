--------------------------- MODULE PreviewProofs ---------------------------
(***************************************************************************)
(* Proofs about Preview, for every snapshot, every set of answers a search *)
(* may return, and any number of overlapping requests.  The plan invariant *)
(* only uses that MatchTrack is a function of the entry, the destination   *)
(* and the answer; what it decides comes from MatcherProofs.               *)
(***************************************************************************)
EXTENDS Preview, MatcherProofs, SequenceTheorems

\* The cache key of an occurrence, and whether it is looked up at all.
KeyOf(n) == matchingKey(Source[n].track)
Plain(n) == ~Skipped(Source[n])

\* The first occurrence of a track: the one the cache of CreatePreview is
\* filled for.
Leads(m, key) == Plain(m) /\ KeyOf(m) = key /\ \A j \in 1..(m - 1) : ~(Plain(j) /\ KeyOf(j) = key)
Lead(key) == CHOOSE m \in Positions : Leads(m, key)

\* Where the classification of entry n comes from: it was not a track to look
\* up, destination d does not search, or the first occurrence was matched.
Accounted(d, n, c) ==
    IF Plain(n)
    THEN \/ c.seen = NotSearched /\ c.result = Unsupported("destination_search_unsupported")
         \/ /\ c.seen \in AllAnswers \cup {<<>>}
            /\ c.result = MatchTrack(Source[Lead(KeyOf(n))], d, c.seen)
    ELSE c.seen = NotSearched /\ c.result = Unsupported("source_entry_unsupported")

\* A plan that one request made: occurrences of one track share one answer.
PlanOK(d, plan) ==
    /\ \A n \in DOMAIN plan : Accounted(d, n, plan[n])
    /\ \A m, n \in DOMAIN plan :
          Plain(m) /\ Plain(n) /\ KeyOf(m) = KeyOf(n) => plan[m] = plan[n]

\* A request under way.
Shape == [step : {"entries", "match"}, entries : {<<>>, Source}, results : Seq(Classified)]
\* It has classified a prefix of the entries it read, under one plan.
GoodRequest(d, v) ==
    /\ v \in Shape
    /\ Len(v.results) <= Len(v.entries)
    /\ PlanOK(d, v.results)
    /\ v.step = "entries" => v.results = <<>>
RequestsOK ==
    /\ request \in [Requests -> {Idle} \cup Shape]
    /\ \A r \in Requests : request[r] # Idle => GoodRequest(dest, request[r])

\* What is saved is one request's plan of the whole snapshot, or nothing.
RowsInv ==
    /\ rows \in [{} -> Classified] \cup [Positions -> Classified]
    /\ PlanOK(dest, rows)

\* The other variables; a run has one job.
RestOK ==
    /\ dest \in Destinations /\ conn \in {"live", "expired", "gone"}
    /\ saved \in BOOLEAN /\ run \in BOOLEAN /\ jobs = (IF run THEN 1 ELSE 0)
    /\ starting \subseteq Starters

PlanInv == RequestsOK /\ RowsInv /\ RestOK

----------------------------------------------------------------------------
(* The snapshot and its plans.                                             *)

\* The snapshot's entries are a sequence.
LEMMA SourceIsSequence ==
    /\ Len(Source) \in Nat /\ DOMAIN Source = 1..Len(Source)
    /\ Positions = 1..Len(Source) /\ Len(<<>>) = 0 /\ DOMAIN <<>> = {}
<1>1. DOMAIN Occurrences = 1..Len(Occurrences) /\ Len(Occurrences) \in Nat
  BY OccurrencesAssumption
<1> DEFINE f(n) == fromSpotifyEntry(entry(Occurrences[n]))
<1>2. Source = [n \in 1..Len(Occurrences) |-> f(n)]
  BY <1>1 DEF Source
<1> HIDE DEF f
<1>3. DOMAIN Source = 1..Len(Occurrences) /\ Len(Source) = Len(Occurrences)
  BY <1>1, <1>2
<1>4. QED
  BY <1>1, <1>3 DEF Positions

\* Nothing planned is a plan.
LEMMA EmptyPlan == \A d : PlanOK(d, <<>>)
<1>1. DOMAIN <<>> = {}
  OBVIOUS
<1>2. QED
  BY <1>1 DEF PlanOK

\* The first occurrence of a track leads it.
LEMMA LeadIsFirst ==
    ASSUME NEW n \in Positions, Leads(n, KeyOf(n))
    PROVE  Lead(KeyOf(n)) = n
<1> DEFINE m == Lead(KeyOf(n))
<1>1. m \in Positions /\ Leads(m, KeyOf(n))
  BY DEF Lead
<1>2. m \in Nat /\ n \in Nat /\ m >= 1 /\ n >= 1
  BY <1>1, SourceIsSequence
<1> HIDE DEF m
<1>3. ~(m < n)
  <2>1. m < n => m \in 1..(n - 1)
    BY <1>2
  <2>2. QED
    BY <1>1, <2>1 DEF Leads
<1>4. ~(n < m)
  <2>1. n < m => n \in 1..(m - 1)
    BY <1>2
  <2>2. Plain(n) /\ KeyOf(n) = KeyOf(n)
    BY DEF Leads
  <2>3. QED
    BY <1>1, <2>1, <2>2 DEF Leads
<1>5. m = n
  BY <1>2, <1>3, <1>4
<1>6. QED
  BY <1>5 DEF m

\* A plan grows by an entry that is accounted for and agrees with the earlier
\* occurrences of its track.
LEMMA PlanGrows ==
    ASSUME NEW d, NEW S, NEW plan \in Seq(S), NEW c \in S, PlanOK(d, plan),
           Accounted(d, Len(plan) + 1, c),
           Plain(Len(plan) + 1) =>
              \A n \in 1..Len(plan) :
                 Plain(n) /\ KeyOf(n) = KeyOf(Len(plan) + 1) => plan[n] = c
    PROVE  PlanOK(d, Append(plan, c))
<1> DEFINE L == Len(plan)
           new == Append(plan, c)
<1>1. L \in Nat /\ DOMAIN plan = 1..L
  OBVIOUS
<1>2. /\ DOMAIN new = 1..(L + 1) /\ new[L + 1] = c
      /\ \A n \in 1..L : new[n] = plan[n]
  OBVIOUS
<1>3. \A n \in 1..(L + 1) : n \in 1..L \/ n = L + 1
  BY <1>1
<1>4. \A n \in 1..L : Accounted(d, n, plan[n])
  BY <1>1 DEF PlanOK
<1>5. \A m, n \in 1..L : Plain(m) /\ Plain(n) /\ KeyOf(m) = KeyOf(n) => plan[m] = plan[n]
  BY <1>1 DEF PlanOK
<1>6. Accounted(d, L + 1, c)
  OBVIOUS
<1>7. Plain(L + 1) => \A n \in 1..L : Plain(n) /\ KeyOf(n) = KeyOf(L + 1) => plan[n] = c
  OBVIOUS
<1> HIDE DEF L, new
<1>8. \A n \in DOMAIN new : Accounted(d, n, new[n])
  BY <1>2, <1>3, <1>4, <1>6
<1>9. ASSUME NEW m \in DOMAIN new, NEW n \in DOMAIN new,
             Plain(m), Plain(n), KeyOf(m) = KeyOf(n)
      PROVE  new[m] = new[n]
  <2>1. CASE m \in 1..L /\ n \in 1..L
    BY <1>2, <1>5, <1>9, <2>1
  <2>2. CASE m \in 1..L /\ n = L + 1
    BY <1>2, <1>7, <1>9, <2>2
  <2>3. CASE m = L + 1 /\ n \in 1..L
    BY <1>2, <1>7, <1>9, <2>3
  <2>4. CASE m = L + 1 /\ n = L + 1
    BY <2>4
  <2>5. QED
    BY <1>2, <1>3, <2>1, <2>2, <2>3, <2>4
<1>10. PlanOK(d, new)
  BY <1>8, <1>9 DEF PlanOK
<1>11. QED
  BY <1>10 DEF new

----------------------------------------------------------------------------
(* Steps of a request.                                                     *)

\* One request changes, the others stay as they are.
LEMMA OneRequest ==
    ASSUME RequestsOK, NEW r \in Requests, NEW v, SetRequest(r, v), dest' = dest,
           v = Idle \/ GoodRequest(dest, v)
    PROVE  RequestsOK'
<1>1. request \in [Requests -> {Idle} \cup Shape] /\ v \in {Idle} \cup Shape
  BY DEF RequestsOK, GoodRequest
<1>2. request' = [request EXCEPT ![r] = v]
  BY DEF SetRequest
<1>3. request' \in [Requests -> {Idle} \cup Shape]
  BY <1>1, <1>2
<1>4. ASSUME NEW q \in Requests, request'[q] # Idle PROVE GoodRequest(dest, request'[q])
  BY <1>1, <1>2, <1>4 DEF RequestsOK
<1>5. QED
  BY <1>3, <1>4 DEF RequestsOK

\* A request whose step is not idle's is under way.
LEMMA UnderWay ==
    ASSUME RequestsOK, NEW r \in Requests, request[r].step \in {"entries", "match"}
    PROVE  GoodRequest(dest, request[r])
<1>1. Idle.step = "idle"
  BY DEF Idle
<1>2. request[r] # Idle
  BY <1>1
<1>3. QED
  BY <1>2 DEF RequestsOK

\* An entry is classified.
LEMMA ClassifyStep ==
    ASSUME RequestsOK, NEW r \in Requests, Matching(r), NEW result, NEW seen,
           Classify(r, result, seen), [result |-> result, seen |-> seen] \in Classified,
           Accounted(dest, Position(r), [result |-> result, seen |-> seen]),
           Plain(Position(r)) =>
              \A n \in Cached(r) : request[r].results[n] = [result |-> result, seen |-> seen]
    PROVE  RequestsOK'
<1> DEFINE plan == request[r].results
           c == [result |-> result, seen |-> seen]
           v == [request[r] EXCEPT !.results = Append(@, c)]
<1>1. request[r].step = "match"
  BY DEF Matching
<1>2. GoodRequest(dest, request[r])
  BY <1>1, UnderWay
<1>3. /\ plan \in Seq(Classified) /\ Len(plan) \in Nat
      /\ PlanOK(dest, plan) /\ request[r] \in Shape
  BY <1>2 DEF GoodRequest, Shape
<1>4. Position(r) = Len(plan) + 1 /\ Len(plan) + 1 <= Len(request[r].entries)
  BY DEF Matching, Position
<1>5. request[r].entries = Source
  <2>1. request[r].entries \in {<<>>, Source}
    BY <1>3 DEF Shape
  <2>2. Len(<<>>) = 0 /\ Len(Source) \in Nat
    BY SourceIsSequence
  <2>3. QED
    BY <1>3, <1>4, <2>1, <2>2
<1>6. Cached(r) = {n \in 1..Len(plan) : Plain(n) /\ KeyOf(n) = KeyOf(Position(r))}
  <2>1. Position(r) - 1 = Len(plan)
    BY <1>3, <1>4
  <2>2. QED
    BY <1>5, <2>1 DEF Cached, Current, Plain, KeyOf
<1>7. Plain(Len(plan) + 1) =>
        \A n \in 1..Len(plan) : Plain(n) /\ KeyOf(n) = KeyOf(Len(plan) + 1) => plan[n] = c
  BY <1>4, <1>6
<1>8. c \in Classified /\ Accounted(dest, Len(plan) + 1, c)
  BY <1>4
<1>9. SetRequest(r, v) /\ dest' = dest
  BY DEF Classify
<1> HIDE DEF plan, c
<1>10. PlanOK(dest, Append(plan, c))
  BY <1>3, <1>7, <1>8, PlanGrows
<1>11. Append(plan, c) \in Seq(Classified) /\ Len(Append(plan, c)) = Len(plan) + 1
  BY <1>3, <1>8
<1>12. v = [step |-> "match", entries |-> Source, results |-> Append(plan, c)]
  <2>1. request[r] = [step |-> "match", entries |-> Source, results |-> plan]
    BY <1>1, <1>3, <1>5 DEF Shape, plan
  <2>2. QED
    BY <2>1
<1> HIDE DEF v
<1>13. GoodRequest(dest, v)
  <2>1. v \in Shape
    BY <1>11, <1>12 DEF Shape
  <2>2. v.step = "match" /\ v.entries = Source /\ v.results = Append(plan, c)
    BY <1>12
  <2>3. Len(v.results) <= Len(v.entries)
    BY <1>4, <1>5, <1>11, <2>2
  <2>4. QED
    BY <1>10, <2>1, <2>2, <2>3 DEF GoodRequest
<1>14. QED
  BY <1>9, <1>13, OneRequest

\* The entry in question is one of the snapshot's.
LEMMA CurrentEntry ==
    ASSUME RequestsOK, NEW r \in Requests, Matching(r)
    PROVE  /\ Position(r) \in Positions /\ Current(r) = Source[Position(r)]
           /\ request[r].entries = Source
           /\ request[r].results \in Seq(Classified)
           /\ PlanOK(dest, request[r].results)
           /\ Position(r) = Len(request[r].results) + 1
           /\ Len(request[r].results) \in Nat
<1>1. GoodRequest(dest, request[r])
  BY UnderWay DEF Matching
<1>2. /\ request[r].results \in Seq(Classified) /\ Len(request[r].results) \in Nat
      /\ PlanOK(dest, request[r].results) /\ request[r].entries \in {<<>>, Source}
  BY <1>1 DEF GoodRequest, Shape
<1>3. /\ Position(r) = Len(request[r].results) + 1
      /\ Position(r) <= Len(request[r].entries)
  BY DEF Matching, Position
<1>4. request[r].entries = Source
  BY <1>2, <1>3, SourceIsSequence
<1>5. Position(r) \in Positions
  BY <1>2, <1>3, <1>4, SourceIsSequence
<1>6. QED
  BY <1>2, <1>3, <1>4, <1>5 DEF Current

\* A saved plan takes the place of the one that was there, or leaves it if the
\* snapshot was gone.
LEMMA SavedPlan ==
    ASSUME RequestsOK, NEW r \in Requests, request[r].step = "match",
           Len(request[r].results) = Len(request[r].entries),
           RowsInv
    PROVE  \/ Upsert(rows, request[r].results) = rows
           \/ /\ Upsert(rows, request[r].results) = request[r].results
              /\ request[r].results \in [Positions -> Classified]
<1> DEFINE plan == request[r].results
<1>1. GoodRequest(dest, request[r])
  BY UnderWay
<1>2. plan \in Seq(Classified) /\ request[r].entries \in {<<>>, Source}
  BY <1>1 DEF GoodRequest, Shape
<1>3. plan \in [1..Len(plan) -> Classified] /\ Len(plan) = Len(request[r].entries)
  BY <1>2
<1> HIDE DEF plan
<1>4. CASE request[r].entries = <<>>
  <2>1. 1..Len(plan) = {}
    BY <1>3, <1>4, SourceIsSequence
  <2>2. DOMAIN plan = {}
    BY <1>3, <2>1
  <2>3. Upsert(rows, plan) = [n \in DOMAIN rows |-> rows[n]]
    BY <2>2 DEF Upsert
  <2>4. rows = [n \in DOMAIN rows |-> rows[n]]
    BY DEF RowsInv
  <2>5. QED
    BY <2>3, <2>4 DEF plan
<1>5. CASE request[r].entries = Source
  <2>1. plan \in [Positions -> Classified]
    BY <1>3, <1>5, SourceIsSequence
  <2>2. DOMAIN rows \cup DOMAIN plan = Positions /\ DOMAIN plan = Positions
    BY <2>1 DEF RowsInv
  <2>3. Upsert(rows, plan) = [n \in Positions |-> plan[n]]
    BY <2>2 DEF Upsert
  <2>4. QED
    BY <2>1, <2>3 DEF plan
<1>6. QED
  BY <1>2, <1>4, <1>5

\* An entry that is not looked up.
LEMMA SkipStep ==
    ASSUME RequestsOK, NEW r \in Requests, Skip(r)
    PROVE  RequestsOK'
<1> DEFINE c == [result |-> Unsupported("source_entry_unsupported"), seen |-> NotSearched]
<1>1. Matching(r) /\ Skipped(Current(r))
  BY DEF Skip
<1>2. Classify(r, Unsupported("source_entry_unsupported"), NotSearched)
  BY DEF Skip
<1>3. ~Plain(Position(r))
  BY <1>1, CurrentEntry DEF Plain
<1>4. c \in Classified
  BY DEF Classified, Results
<1>5. Accounted(dest, Position(r), c)
  BY <1>3 DEF Accounted
<1>6. QED
  BY <1>1, <1>2, <1>3, <1>4, <1>5, ClassifyStep

\* A track that was classified earlier in the request.
LEMMA ReuseStep ==
    ASSUME RequestsOK, NEW r \in Requests, Reuse(r)
    PROVE  RequestsOK'
<1> DEFINE plan == request[r].results
<1>1. Matching(r) /\ ~Skipped(Current(r))
  BY DEF Reuse
<1>2. /\ Current(r) = Source[Position(r)] /\ request[r].entries = Source
      /\ plan \in Seq(Classified) /\ PlanOK(dest, plan)
      /\ Position(r) = Len(plan) + 1 /\ Len(plan) \in Nat
  BY <1>1, CurrentEntry
<1>3. Cached(r) = {m \in 1..Len(plan) : Plain(m) /\ KeyOf(m) = KeyOf(Position(r))}
  <2>1. Position(r) - 1 = Len(plan)
    BY <1>2
  <2>2. QED
    BY <1>2, <2>1 DEF Cached, Plain, KeyOf
<1>4. Plain(Position(r))
  BY <1>1, <1>2 DEF Plain
<1>5. PICK n \in Cached(r) : Classify(r, plan[n].result, plan[n].seen)
  BY DEF Reuse
<1>6. n \in 1..Len(plan) /\ Plain(n) /\ KeyOf(n) = KeyOf(Position(r))
  BY <1>3
<1>7. plan[n] \in Classified /\ DOMAIN plan = 1..Len(plan)
  BY <1>2, <1>6
<1> HIDE DEF plan
<1>8. plan[n] = [result |-> plan[n].result, seen |-> plan[n].seen]
  BY <1>7 DEF Classified
<1>9. Accounted(dest, n, plan[n])
  BY <1>2, <1>6, <1>7 DEF PlanOK
<1>10. Accounted(dest, Position(r), plan[n])
  BY <1>4, <1>6, <1>9 DEF Accounted
<1>11. \A m \in Cached(r) : plan[m] = plan[n]
  BY <1>2, <1>3, <1>6, <1>7 DEF PlanOK
<1> DEFINE result == plan[n].result
           seen == plan[n].seen
<1>12. /\ Classify(r, result, seen) /\ [result |-> result, seen |-> seen] \in Classified
       /\ Accounted(dest, Position(r), [result |-> result, seen |-> seen])
       /\ \A m \in Cached(r) : request[r].results[m] = [result |-> result, seen |-> seen]
  <2>1. [result |-> result, seen |-> seen] = plan[n]
    BY <1>8
  <2> HIDE DEF result, seen
  <2>2. QED
    BY <1>5, <1>7, <1>10, <1>11, <2>1 DEF plan, result, seen
<1> HIDE DEF result, seen
<1>13. QED
  BY <1>1, <1>12, ClassifyStep

\* A track that the destination is asked for.
LEMMA LookupStep ==
    ASSUME RequestsOK, dest \in Destinations, NEW r \in Requests,
           Search(r) \/ SearchUnsupported(r)
    PROVE  RequestsOK'
<1>1. Matching(r) /\ ~Skipped(Current(r)) /\ Cached(r) = {}
  BY DEF Search, SearchUnsupported, Lookup
<1>2. /\ Current(r) = Source[Position(r)] /\ request[r].entries = Source
      /\ Position(r) \in Positions
  BY <1>1, CurrentEntry
<1>3. Plain(Position(r))
  BY <1>1, <1>2 DEF Plain
<1>4. Lead(KeyOf(Position(r))) = Position(r)
  <2>1. Leads(Position(r), KeyOf(Position(r)))
    BY <1>1, <1>2, <1>3 DEF Leads, Cached, Plain, KeyOf
  <2>2. QED
    BY <1>2, <2>1, LeadIsFirst
<1>5. CASE Search(r)
  <2>1. PICK answer \in SearchTracks(Current(r).track) :
            Classify(r, MatchTrack(Current(r), dest, answer), answer)
    BY <1>5 DEF Search
  <2>2. answer \in AllAnswers \cup {<<>>}
    <3>1. answer \in Answers(Source[Position(r)].track) \cup {<<>>}
      BY <1>2, <2>1 DEF SearchTracks, SpotifySearch, AppleSearch
    <3>2. Answers(Source[Position(r)].track) \subseteq AllAnswers
      BY <1>2 DEF AllAnswers, Positions
    <3>3. QED
      BY <3>1, <3>2
  <2> DEFINE result == MatchTrack(Source[Position(r)], dest, answer)
             c == [result |-> result, seen |-> answer]
  <2>3. result \in Results
    BY <1>2, <2>2 DEF Results
  <2>4. Classify(r, result, answer)
    BY <1>2, <2>1
  <2>5. c \in Classified
    BY <2>2, <2>3 DEF Classified
  <2>6. Accounted(dest, Position(r), c)
    BY <1>3, <1>4, <2>2 DEF Accounted
  <2> HIDE DEF result
  <2>7. QED
    BY <1>1, <2>4, <2>5, <2>6, ClassifyStep
<1>6. CASE SearchUnsupported(r)
  <2> DEFINE c == [result |-> Unsupported("destination_search_unsupported"),
                   seen |-> NotSearched]
  <2>1. Classify(r, Unsupported("destination_search_unsupported"), NotSearched)
    BY <1>6 DEF SearchUnsupported
  <2>2. c \in Classified
    BY DEF Classified, Results
  <2>3. Accounted(dest, Position(r), c)
    BY <1>3 DEF Accounted
  <2>4. QED
    BY <1>1, <2>1, <2>2, <2>3, ClassifyStep
<1>7. QED
  BY <1>5, <1>6

----------------------------------------------------------------------------
(* The invariant.                                                          *)

\* Nothing is planned and nothing started at first.
LEMMA InitPlan == Init => PlanInv
<1> SUFFICES ASSUME Init PROVE PlanInv
  OBVIOUS
<1>1. /\ dest \in Destinations /\ conn = "live" /\ request = [r \in Requests |-> Idle]
      /\ starting = {} /\ saved = FALSE /\ run = FALSE /\ rows = <<>> /\ jobs = 0
  BY DEF Init
<1>2. RequestsOK
  BY <1>1 DEF RequestsOK
<1>3. PlanOK(dest, rows)
  BY <1>1, EmptyPlan
<1>4. rows \in [{} -> Classified]
  BY <1>1
<1>5. QED
  BY <1>1, <1>2, <1>3, <1>4 DEF PlanInv, RowsInv, RestOK

\* No step makes two occurrences of a track differ, saves part of a snapshot or
\* starts a second run.
LEMMA PlanStep == PlanInv /\ [Next]_vars => PlanInv'
<1> SUFFICES ASSUME PlanInv, [Next]_vars PROVE PlanInv'
  OBVIOUS
<1>0. RequestsOK /\ RowsInv /\ RestOK
  BY DEF PlanInv
<1>1. ASSUME RequestsOK', UNCHANGED <<dest, conn, planVars, runVars>> PROVE PlanInv'
  <2>1. RowsInv'
    BY <1>0, <1>1 DEF RowsInv, planVars
  <2>2. RestOK'
    BY <1>0, <1>1 DEF RestOK, planVars, runVars
  <2>3. QED
    BY <1>1, <2>1, <2>2 DEF PlanInv
<1>2. ASSUME request' = request, UNCHANGED <<dest, planVars>>, RestOK' PROVE PlanInv'
  <2>1. RequestsOK' /\ RowsInv'
    BY <1>0, <1>2 DEF RequestsOK, RowsInv, planVars
  <2>2. QED
    BY <1>2, <2>1 DEF PlanInv
<1>3. ASSUME NEW r \in Requests, ReadMetadata(r) PROVE PlanInv'
  <2> DEFINE v == [step |-> "entries", entries |-> <<>>, results |-> <<>>]
  <2>1. SetRequest(r, v) /\ UNCHANGED <<dest, conn, planVars, runVars>>
    BY <1>3 DEF ReadMetadata
  <2>2. v \in Shape /\ Len(v.results) <= Len(v.entries) /\ v.results = <<>>
    BY DEF Shape
  <2>3. GoodRequest(dest, v)
    BY <2>2, EmptyPlan DEF GoodRequest
  <2> HIDE DEF v
  <2>4. RequestsOK'
    BY <1>0, <2>1, <2>3, OneRequest
  <2>5. QED
    BY <1>1, <2>1, <2>4
<1>4. ASSUME NEW r \in Requests, ReadEntries(r) PROVE PlanInv'
  <2> DEFINE found == IF conn = "gone" THEN <<>> ELSE Source
             v == [request[r] EXCEPT !.step = "match", !.entries = found]
  <2>1. SetRequest(r, v) /\ UNCHANGED <<dest, conn, planVars, runVars>>
    BY <1>4 DEF ReadEntries
  <2>2. GoodRequest(dest, request[r]) /\ request[r].step = "entries"
    BY <1>0, <1>4, UnderWay DEF ReadEntries
  <2>3. request[r].results = <<>> /\ request[r] \in Shape
    BY <2>2 DEF GoodRequest
  <2>4. found \in {<<>>, Source} /\ Len(found) >= 0
    BY SourceIsSequence
  <2> HIDE DEF found
  <2>5. v \in Shape /\ v.results = <<>> /\ v.entries = found
    BY <2>3, <2>4 DEF Shape
  <2> HIDE DEF v
  <2>6. Len(v.results) <= Len(v.entries)
    BY <2>4, <2>5
  <2>7. GoodRequest(dest, v)
    BY <2>5, <2>6, EmptyPlan DEF GoodRequest
  <2>8. RequestsOK'
    BY <1>0, <2>1, <2>7, OneRequest
  <2>9. QED
    BY <1>1, <2>1, <2>8
<1>5. ASSUME NEW r \in Requests,
             Skip(r) \/ Reuse(r) \/ Search(r) \/ SearchUnsupported(r)
      PROVE  PlanInv'
  <2>1. RequestsOK'
    BY <1>0, <1>5, SkipStep, ReuseStep, LookupStep DEF RestOK
  <2>2. UNCHANGED <<dest, conn, planVars, runVars>>
    BY <1>5 DEF Skip, Reuse, Search, SearchUnsupported, Classify
  <2>3. QED
    BY <1>1, <2>1, <2>2
<1>6. ASSUME NEW r \in Requests, CreateFails(r) PROVE PlanInv'
  <2>1. SetRequest(r, Idle) /\ UNCHANGED <<dest, conn, planVars, runVars>>
    BY <1>6 DEF CreateFails, Abort
  <2>2. RequestsOK'
    BY <1>0, <2>1, OneRequest
  <2>3. QED
    BY <1>1, <2>1, <2>2
<1>7. ASSUME NEW r \in Requests, CreateEnds(r) PROVE PlanInv'
  <2>1. /\ SetRequest(r, Idle) /\ UNCHANGED <<dest, conn, runVars>>
        /\ saved' = TRUE /\ rows' = Upsert(rows, request[r].results)
        /\ request[r].step = "match" /\ Len(request[r].results) = Len(request[r].entries)
    BY <1>7 DEF CreateEnds, SavePreview
  <2>2. RequestsOK'
    BY <1>0, <2>1, OneRequest
  <2>3. PlanOK(dest, request[r].results)
    BY <1>0, <2>1, UnderWay DEF GoodRequest
  <2>4. \/ rows' = rows
        \/ rows' = request[r].results /\ request[r].results \in [Positions -> Classified]
    BY <1>0, <2>1, SavedPlan
  <2>5. RowsInv'
    BY <1>0, <2>1, <2>3, <2>4 DEF RowsInv
  <2>6. RestOK'
    BY <1>0, <2>1 DEF RestOK, runVars
  <2>7. QED
    BY <2>2, <2>5, <2>6 DEF PlanInv
<1>8. ASSUME NEW s \in Starters, EnqueueCheck(s) \/ EnqueueInsert(s) \/ EnqueueFails(s)
      PROVE  PlanInv'
  <2>1. request' = request /\ UNCHANGED <<dest, planVars>>
    BY <1>8 DEF EnqueueCheck, EnqueueInsert, EnqueueFails
  <2>2. RestOK'
    <3>1. /\ dest \in Destinations /\ conn \in {"live", "expired", "gone"}
          /\ saved \in BOOLEAN /\ run \in BOOLEAN /\ jobs = (IF run THEN 1 ELSE 0)
          /\ starting \subseteq Starters
      BY <1>0 DEF RestOK
    <3>2. dest' = dest /\ conn' = conn /\ saved' = saved /\ starting' \subseteq Starters
      BY <1>8, <3>1 DEF EnqueueCheck, EnqueueInsert, EnqueueFails, planVars
    <3>3. run' \in BOOLEAN /\ jobs' = (IF run' THEN 1 ELSE 0)
      <4>1. CASE run' = run /\ jobs' = jobs
        BY <3>1, <4>1
      <4>2. CASE run = FALSE /\ run' = TRUE /\ jobs' = jobs + 1
        <5>1. jobs' = 1
          BY <3>1, <4>2
        <5>2. QED
          BY <4>2, <5>1
      <4>3. QED
        BY <1>8, <3>1, <4>1, <4>2 DEF EnqueueCheck, EnqueueInsert, EnqueueFails, NoRunYet
    <3>4. QED
      BY <3>1, <3>2, <3>3 DEF RestOK
  <2>3. QED
    BY <1>2, <2>1, <2>2
<1>9. CASE Expire \/ Disconnect
  <2>1. request' = request /\ UNCHANGED <<dest, planVars>>
    BY <1>9 DEF Expire, Disconnect
  <2>2. RestOK'
    BY <1>0, <1>9 DEF RestOK, Expire, Disconnect, planVars, runVars
  <2>3. QED
    BY <1>2, <2>1, <2>2
<1>10. CASE UNCHANGED vars
  <2>1. request' = request /\ UNCHANGED <<dest, conn, planVars, runVars>>
    BY <1>10 DEF vars
  <2>2. RestOK'
    BY <1>0, <2>1 DEF RestOK, planVars, runVars
  <2>3. QED
    BY <1>2, <2>1, <2>2
<1>11. QED
  BY <1>3, <1>4, <1>5, <1>6, <1>7, <1>8, <1>9, <1>10 DEF Next

----------------------------------------------------------------------------
(* Theorems.                                                               *)

\* The invariant of overlapping requests.
LEMMA AlwaysPlanInv == Spec => []PlanInv
<1>1. QED
  BY InitPlan, PlanStep, PTL DEF Spec

\* TypeOK: every variable has its type, and no request classifies more entries
\* than it read (the loop of CreatePreview).
THEOREM TypeInvariant == Spec => []TypeOK
<1>1. ASSUME PlanInv PROVE TypeOK
  <2>1. RequestsOK /\ RowsInv /\ RestOK
    BY <1>1 DEF PlanInv
  <2>2. \A r \in Requests : request[r] # Idle =>
            Len(request[r].results) <= Len(request[r].entries)
    BY <2>1 DEF RequestsOK, GoodRequest
  <2>3. request \in [Requests -> {Idle} \cup
            [step : {"entries", "match"}, entries : {<<>>, Source}, results : Seq(Classified)]]
    BY <2>1 DEF RequestsOK, Shape
  <2>4. \E P \in SUBSET Positions : rows \in [P -> Classified]
    BY <2>1 DEF RowsInv
  <2>5. QED
    BY <2>1, <2>2, <2>3, <2>4 DEF TypeOK, RestOK
<1>2. QED
  BY <1>1, AlwaysPlanInv, PTL

\* AllOrNothing: a saved plan covers the whole snapshot or nothing of it, however
\* many requests overlap and fail (CreatePreview, SavePreview).
THEOREM PlansAreWhole == Spec => []AllOrNothing
<1>1. PlanInv => AllOrNothing
  BY DEF PlanInv, RowsInv, AllOrNothing
<1>2. QED
  BY <1>1, AlwaysPlanInv, PTL

\* DuplicatesAgree: occurrences of one track are planned alike, although every
\* search may answer differently (the cache of CreatePreview).
THEOREM DuplicatesPlannedAlike == Spec => []DuplicatesAgree
<1>1. ASSUME PlanInv PROVE DuplicatesAgree
  <2>1. SUFFICES ASSUME NEW m \in DOMAIN rows, NEW n \in DOMAIN rows,
                        Source[m].track = Source[n].track,
                        Skipped(Source[m]) = Skipped(Source[n])
                 PROVE  rows[m].result = rows[n].result
    BY DEF DuplicatesAgree
  <2>2. PlanOK(dest, rows)
    BY <1>1 DEF PlanInv, RowsInv
  <2>3. CASE Skipped(Source[m])
    <3>1. ~Plain(m) /\ ~Plain(n)
      BY <2>1, <2>3 DEF Plain
    <3>2. QED
      BY <2>2, <3>1 DEF PlanOK, Accounted
  <2>4. CASE ~Skipped(Source[m])
    <3>1. Plain(m) /\ Plain(n) /\ KeyOf(m) = KeyOf(n)
      BY <2>1, <2>4 DEF Plain, KeyOf
    <3>2. QED
      BY <2>2, <3>1 DEF PlanOK
  <2>5. QED
    BY <2>3, <2>4
<1>2. QED
  BY <1>1, AlwaysPlanInv, PTL

\* OneRunPerPreview: requests that find no run together start one transfer and
\* insert one job (EnqueueRun).
THEOREM OneRun == Spec => []OneRunPerPreview
<1>1. PlanInv => OneRunPerPreview
  BY DEF PlanInv, RestOK, OneRunPerPreview
<1>2. QED
  BY <1>1, AlwaysPlanInv, PTL

----------------------------------------------------------------------------
(* What the plans hold.                                                    *)

\* Within one answer, a provider describes an ID in one way.
IDsDescribedOnce == \A answer \in AllAnswers : Catalogued(ToSet(answer))

\* What searches return, the empty answer included.
LEMMA AnswersAreTracks ==
    ASSUME IDsDescribedOnce, NEW answer \in AllAnswers \cup {<<>>}
    PROVE  /\ answer \in Seq(ToSet(answer)) /\ Catalogued(ToSet(answer))
           /\ NoTrack \notin ToSet(answer)
<1>1. CASE answer \in AllAnswers
  BY <1>1, AnswersAssumption DEF IDsDescribedOnce
<1>2. CASE answer = <<>>
  <2>1. ToSet(answer) = {}
    BY <1>2 DEF ToSet
  <2>2. QED
    BY <1>2, <2>1 DEF Catalogued
<1>3. QED
  BY <1>1, <1>2

\* Every track that is looked up has a first occurrence.
LEMMA LeadExists ==
    ASSUME NEW n \in Positions, Plain(n)
    PROVE  Lead(KeyOf(n)) \in 1..n /\ Leads(Lead(KeyOf(n)), KeyOf(n))
<1> DEFINE T == {m \in Positions : Plain(m) /\ KeyOf(m) = KeyOf(n)}
<1>1. T \in SUBSET Nat /\ T # {}
  BY SourceIsSequence
<1>2. PICK k \in T : \A m \in T : k <= m
  <2> HIDE DEF T
  <2>1. QED
    BY <1>1, LeastNumber
<1>3. k \in Positions /\ Plain(k) /\ KeyOf(k) = KeyOf(n)
  OBVIOUS
<1>4. ASSUME NEW j \in 1..(k - 1) PROVE ~(Plain(j) /\ KeyOf(j) = KeyOf(n))
  <2>1. k \in Nat /\ k <= Len(Source) /\ Len(Source) \in Nat
    BY <1>3, SourceIsSequence
  <2>2. j \in Positions /\ ~(k <= j)
    BY <2>1, SourceIsSequence
  <2>3. QED
    BY <1>2, <2>2
<1> HIDE DEF T
<1>5. Leads(k, KeyOf(n))
  BY <1>3, <1>4 DEF Leads
<1> DEFINE m == Lead(KeyOf(n))
<1>6. m \in Positions /\ Leads(m, KeyOf(n))
  BY <1>3, <1>5 DEF Lead
<1> HIDE DEF m
<1>7. m \in Nat /\ n \in Nat /\ m >= 1 /\ n >= 1
  BY <1>6, SourceIsSequence
<1>8. ~(n < m)
  <2>1. n < m => n \in 1..(m - 1)
    BY <1>7
  <2>2. QED
    BY <1>6, <2>1 DEF Leads
<1>9. m \in 1..n
  BY <1>7, <1>8
<1>10. QED
  BY <1>6, <1>9 DEF m

\* Entries of one key read alike.
LEMMA KeysReadAlike ==
    ASSUME NEW m, NEW n, KeyOf(m) = KeyOf(n)
    PROVE  ReadAlike(Source[m].track, Source[n].track)
BY DEF KeyOf, matchingKey, ReadAlike

\* NoGuess: whatever is planned to be written is one of the recordings found, with
\* better evidence than every other for the entry's track or for an earlier one that
\* reads the same; what is called missing resembles none; and nothing is written for
\* an entry that is not a playable track (MatchTrack, through the cache and
\* overlapping saves).  The hypothesis: within an answer an ID stands for one
\* recording.
THEOREM PlansNeverGuess ==
    ASSUME IDsDescribedOnce
    PROVE  Spec => []NoGuess
<1>1. ASSUME PlanInv PROVE NoGuess
  <2> DEFINE found(n) == {t \in ToSet(rows[n].seen) : t.id # 0}
             Fits(m, n) == /\ ~Skipped(Source[m]) /\ ReadAlike(Source[m].track, Source[n].track)
                           /\ Justified(Source[m].track, dest, found(n), rows[n].result)
  <2>1. SUFFICES ASSUME NEW n \in DOMAIN rows
                 PROVE  IF Skipped(Source[n]) THEN rows[n].result.matched = 0
                        ELSE \E m \in 1..n : Fits(m, n)
    BY DEF NoGuess
  <2>2. PlanOK(dest, rows) /\ n \in Positions
    BY <1>1 DEF PlanInv, RowsInv
  <2>3. Accounted(dest, n, rows[n])
    BY <2>2 DEF PlanOK
  <2>4. n \in 1..n
    BY <2>2, SourceIsSequence
  <2>5. CASE ~Plain(n)
    BY <2>3, <2>5 DEF Accounted, Plain, Unsupported
  <2>6. CASE Plain(n) /\ rows[n].result = Unsupported("destination_search_unsupported")
    <3>1. rows[n].result.status = "unsupported" /\ rows[n].result.matched = 0
      BY <2>6 DEF Unsupported
    <3>2. Justified(Source[n].track, dest, found(n), rows[n].result)
      BY <3>1 DEF Justified
    <3>3. ReadAlike(Source[n].track, Source[n].track)
      BY DEF ReadAlike
    <3>4. QED
      BY <2>4, <2>6, <3>2, <3>3 DEF Plain
  <2>7. CASE /\ Plain(n) /\ rows[n].seen \in AllAnswers \cup {<<>>}
             /\ rows[n].result = MatchTrack(Source[Lead(KeyOf(n))], dest, rows[n].seen)
    <3> DEFINE m == Lead(KeyOf(n))
               answer == rows[n].seen
    <3>1. m \in 1..n /\ Plain(m) /\ KeyOf(m) = KeyOf(n)
      BY <2>2, <2>7, LeadExists DEF Leads
    <3>2. answer \in Seq(ToSet(answer)) /\ Catalogued(ToSet(answer))
      BY <2>7, AnswersAreTracks
    <3>3. rows[n].result = MatchTrack(Source[m], dest, answer)
      BY <2>7
    <3> HIDE DEF m, answer
    <3>4. Justified(Source[m].track, dest, Named(ToSet(answer)), rows[n].result)
      BY <3>2, <3>3, MatchIsJustified
    <3>5. Named(ToSet(answer)) = found(n)
      BY DEF Named, answer
    <3>6. ReadAlike(Source[m].track, Source[n].track)
      BY <3>1, KeysReadAlike
    <3>7. Fits(m, n)
      BY <3>1, <3>4, <3>5, <3>6 DEF Plain
    <3>8. QED
      BY <2>7, <3>1, <3>7 DEF Plain
  <2>8. QED
    BY <2>3, <2>5, <2>6, <2>7 DEF Accounted
<1>2. QED
  BY <1>1, AlwaysPlanInv, PTL

\* Repeatable: planning again from the same recordings gives the same plan, in
\* whatever order the provider lists them (uniqueTracks sorts; resolveSingle never
\* prefers), if within an answer an ID stands for one recording.
THEOREM PlansRepeatable ==
    ASSUME IDsDescribedOnce
    PROVE  Spec => []Repeatable
<1>1. ASSUME PlanInv PROVE Repeatable
  <2>1. SUFFICES ASSUME NEW r \in Requests, request[r] # Idle,
                        NEW n \in DOMAIN rows \cap DOMAIN request[r].results,
                        ToSet(request[r].results[n].seen) = ToSet(rows[n].seen)
                 PROVE  request[r].results[n].result = rows[n].result
    BY DEF Repeatable
  <2> DEFINE c == request[r].results[n]
             d == rows[n]
  <2>2. Accounted(dest, n, c) /\ Accounted(dest, n, d)
    BY <1>1, <2>1 DEF PlanInv, RequestsOK, GoodRequest, RowsInv, PlanOK
  <2>3. ToSet(c.seen) = ToSet(d.seen)
    BY <2>1
  <2> HIDE DEF c, d
  <2>4. CASE ~Plain(n)
    BY <2>2, <2>4 DEF Accounted, c, d
  <2>5. CASE Plain(n)
    <3> DEFINE other == Unsupported("destination_search_unsupported")
               found(x) == MatchTrack(Source[Lead(KeyOf(n))], dest, x)
    <3>1. /\ \/ c.seen = NotSearched /\ c.result = other
             \/ c.seen \in AllAnswers \cup {<<>>} /\ c.result = found(c.seen)
          /\ \/ d.seen = NotSearched /\ d.result = other
             \/ d.seen \in AllAnswers \cup {<<>>} /\ d.result = found(d.seen)
      BY <2>2, <2>5 DEF Accounted
    <3>2. NoTrack \in ToSet(NotSearched)
      BY DEF ToSet, NotSearched
    <3>3. \A x \in AllAnswers \cup {<<>>} :
              x \in Seq(ToSet(x)) /\ Catalogued(ToSet(x)) /\ NoTrack \notin ToSet(x)
      BY AnswersAreTracks
    <3>4. ASSUME NEW x \in AllAnswers \cup {<<>>}, NEW y \in AllAnswers \cup {<<>>}, ToSet(x) = ToSet(y)
          PROVE  found(x) = found(y)
      BY <3>3, <3>4, MatchIgnoresOrder
    <3> HIDE DEF other, found
    <3>5. QED
      BY <2>3, <3>1, <3>2, <3>3, <3>4 DEF c, d
  <2>6. QED
    BY <2>4, <2>5
<1>2. QED
  BY <1>1, AlwaysPlanInv, PTL
=============================================================================
