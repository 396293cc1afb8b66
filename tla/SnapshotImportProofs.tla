------------------------ MODULE SnapshotImportProofs ------------------------
(***************************************************************************)
(* Proofs about SnapshotImport, for every number of requests, workers,     *)
(* imports and playlists, and every bound.                                 *)
(***************************************************************************)
EXTENDS SnapshotImport, FiniteSetTheorems, SequenceTheorems, TLAPS

\* A request between its two halves holds the connection's row, and the row is
\* not deleted under it.
LockInv ==
    /\ \A c \in Clients : asked[c] # Idle <=> connLock = c
    /\ conn = "gone" => connLock = NoClient

\* Rows and jobs are inserted together; jobs outlive the rows, and rows only go
\* with the connection.
RowInv ==
    /\ conn = "gone" => rows = {}
    /\ \A i \in Imports : i \in rows => job[i].state # "absent"
    /\ \A i \in Imports : conn # "gone" /\ job[i].state # "absent" => i \in rows

\* An attempt under way has an import that was inserted, and a number.
AttemptOK(w) ==
    pc[w] # "idle" => /\ target[w] \in Imports
                      /\ job[target[w]].state # "absent"
                      /\ attempt[w] > 0

\* What ReadSnapshot knows between its calls: the version it began with, and how
\* much of it has been read.  While that version is current, and for good once
\* it was verified, the entries are the version's own.
ReadOK(w) ==
    LET h == history[playlist[target[w]]] IN
    pc[w] \in {"page", "verify", "save"} =>
        /\ before[w] \in 1..Len(h) /\ created[target[w]] <= before[w]
        /\ Len(h[before[w]]) <= MaxItems
        /\ pc[w] = "page" => Len(entries[w]) < Len(h[before[w]])
        /\ pc[w] # "page" => Len(entries[w]) = Len(h[before[w]])
        /\ pc[w] = "save" \/ before[w] = Len(h) =>
              \A k \in 1..Len(entries[w]) : entries[w][k] = h[before[w]][k]

ReadInv == \A w \in Workers : AttemptOK(w) /\ ReadOK(w)

\* A request is recorded with a version the playlist already has.
CreatedInv == \A i \in Imports : created[i] <= Version(playlist[i])

BaseInv == TypeOK /\ LockInv /\ RowInv /\ CreatedInv /\ ReadInv

\* What was published is a version the playlist has had.
FaithInv ==
    \A i \in published :
       /\ snapshot[i].version \in 1..Version(playlist[i])
       /\ created[i] <= snapshot[i].version
       /\ snapshot[i].entries = history[playlist[i]][snapshot[i].version]

\* An attempt that will report success found or made its snapshot, unless the
\* row has gone with the session.
OutcomeInv ==
    \A w \in Workers :
       /\ pc[w] = "note" => failure[w] # ""
       /\ pc[w] = "report" /\ failure[w] = "" => target[w] \in published \/ target[w] \notin rows

\* The active imports a request saw under the lock still cover the active ones
\* when it decides: none is added while it holds the row.
ActiveInv ==
    /\ IsFiniteSet(ActiveImports)
    /\ \A c \in Clients : asked[c] # Idle =>
          ActiveImports \subseteq asked[c].active /\ IsFiniteSet(asked[c].active)

----------------------------------------------------------------------------
(* Types.                                                                  *)

\* A version of a playlist's history is a sequence of items.
LEMMA VersionType ==
    ASSUME ApiType, NEW p \in Playlists, NEW n \in 1..Len(history[p])
    PROVE  /\ history[p][n] \in Contents /\ history[p][n] \in Seq(Items)
           /\ Len(history[p][n]) \in Nat
<1>1. history[p] \in Seq(Contents)
  BY DEF ApiType
<1>2. history[p][n] \in Contents
  BY <1>1
<1>3. QED
  BY <1>2, ContentsAssumption

\* A playlist always has a current version.
LEMMA CurrentType ==
    ASSUME ApiType, NEW p \in Playlists
    PROVE  /\ Version(p) \in Nat \ {0} /\ Version(p) \in 1..Len(history[p])
           /\ Current(p) \in Contents /\ Current(p) \in Seq(Items)
           /\ Len(Current(p)) \in Nat
<1>1. history[p] \in Seq(Contents) /\ history[p] # <<>>
  BY DEF ApiType
<1>2. Version(p) \in Nat \ {0}
  BY <1>1, EmptySeq DEF Version
<1>3. Version(p) \in 1..Len(history[p])
  BY <1>2 DEF Version
<1>4. history[p][Version(p)] \in Contents /\ history[p][Version(p)] \in Seq(Items)
  BY <1>3, VersionType
<1>5. QED
  BY <1>2, <1>3, <1>4 DEF Current

\* Spending what is left of a bound keeps its type.
LEMMA SpendType ==
    ASSUME budget \in Budgets, NEW kind \in {"errors", "rateLimits", "denied", "edits"},
           Spend(kind)
    PROVE  budget' \in Budgets
  BY BoundsAssumption DEF Budgets, Spend

\* River's settling of a running job gives a job again.
LEMMA SettledType ==
    ASSUME NEW j \in [state : JobStates, attempt : Nat], NEW r \in Results,
           NEW n \in Nat, n > 0
    PROVE  SettledJob(j, r, n, MaxAttempts) \in [state : JobStates, attempt : Nat]
<1>1. CASE r = "ok"
  BY <1>1 DEF SettledJob, Outcome, JobStates
<1>2. CASE r = "cancel"
  BY <1>2 DEF SettledJob, Outcome, JobStates
<1>3. CASE r = "snooze"
  BY <1>3 DEF SettledJob, Outcome, JobStates
<1>4. CASE r = "error"
  BY <1>4 DEF SettledJob, Outcome, AfterFailure, JobStates
<1>5. QED
  BY <1>1, <1>2, <1>3, <1>4 DEF Results

\* What Work returns for a code.
LEMMA ReturnsType == \A e \in Codes : WorkReturns(e) \in Results
  BY DEF WorkReturns, Results, Codes, Permanent

\* The initial states satisfy the base of the invariants.
LEMMA InitBase == Init => BaseInv
<1> SUFFICES ASSUME Init PROVE BaseInv
  OBVIOUS
<1>0. <<>> \in EntryLists
  BY LimitsAssumption, EmptySeq DEF EntryLists
<1>1. RowsType
  <2>1. (CHOOSE p \in Playlists : TRUE) \in Playlists
    BY PartiesAssumption
  <2>2. playlist \in [Imports -> Playlists]
    BY <2>1 DEF Init
  <2>3. QED
    BY <2>2 DEF Init, RowsType, Codes, Permanent, JobStates, AbsentJob
<1>2. ApiType
  <2>1. ASSUME NEW c \in Contents PROVE <<c>> \in Seq(Contents) /\ <<c>> # <<>>
    <3>1. Len(<<c>>) = 1 /\ Len(<<>>) = 0
      OBVIOUS
    <3>2. QED
      BY <3>1
  <2>2. history \in [Playlists -> Seq(Contents) \ {<<>>}]
    <3>1. history \in [Playlists -> {<<c>> : c \in Contents}]
      BY DEF Init
    <3>2. {<<c>> : c \in Contents} \subseteq Seq(Contents) \ {<<>>}
      BY <2>1, Zenon
    <3>3. QED
      BY <3>1, <3>2
  <2>3. snapshot \in [Imports -> [version : Nat, entries : EntryLists]]
    BY <1>0 DEF Init
  <2>4. /\ connLock \in Clients \cup {NoClient} /\ maxActive \in ActiveLimits
        /\ asked \in [Clients -> {Idle} \cup
                        [state : {"decide"}, playlist : Playlists, active : SUBSET Imports]]
    BY DEF Init
  <2>5. QED
    BY <2>2, <2>3, <2>4 DEF ApiType
<1>3. WorkType
  <2>1. budget \in Budgets
    <3>1. budget = [errors |-> MaxErrors, rateLimits |-> MaxRateLimits,
                    denied |-> MaxDenied, edits |-> MaxEdits]
      BY DEF Init
    <3>2. QED
      BY <3>1, BoundsAssumption DEF Budgets
  <2>2. entries \in [Workers -> EntryLists]
    BY <1>0 DEF Init
  <2>3. pc \in [Workers -> PCs] /\ failure \in [Workers -> Codes]
    BY DEF Init, PCs, Codes
  <2>4. /\ target \in [Workers -> Imports \cup {NoImport}]
        /\ before \in [Workers -> Nat] /\ attempt \in [Workers -> Nat]
    BY DEF Init
  <2>5. QED
    BY <2>1, <2>2, <2>3, <2>4 DEF WorkType
<1>4. LockInv /\ RowInv /\ ReadInv
  BY PartiesAssumption
  DEF Init, LockInv, RowInv, ReadInv, AttemptOK, ReadOK, AbsentJob
<1>5. CreatedInv
  <2>1. \A i \in Imports : playlist[i] \in Playlists /\ created[i] = 0
    BY <1>1 DEF Init, RowsType
  <2>2. QED
    BY <1>2, <2>1, CurrentType DEF CreatedInv
<1>6. QED
  BY <1>1, <1>2, <1>3, <1>4, <1>5 DEF BaseInv, TypeOK

\* An attempt that saves while the session lives has its import's row.
LEMMA SavedHasRow ==
    ASSUME BaseInv, NEW w \in Workers, pc[w] = "save", SessionLive
    PROVE  target[w] \in rows
  BY DEF BaseInv, TypeOK, RowsType, RowInv, ReadInv, AttemptOK, SessionLive

\* The rows of imports, snapshots and jobs keep their types.
LEMMA RowsStep == BaseInv /\ [Next]_vars => RowsType'
<1> SUFFICES ASSUME BaseInv, [Next]_vars PROVE RowsType'
  OBVIOUS
<1>0. RowsType /\ ApiType /\ WorkType
  BY DEF BaseInv, TypeOK
<1>1. ASSUME NEW c \in Clients, EnqueueDecide(c) PROVE RowsType'
  <2>1. CASE UNCHANGED <<rowVars, code, job>>
    BY <1>0, <2>1 DEF RowsType, rowVars
  <2>2. CASE \E i \in Imports :
                /\ rows' = rows \cup {i}
                /\ playlist' = [playlist EXCEPT ![i] = asked[c].playlist]
                /\ created' = [created EXCEPT ![i] = Version(asked[c].playlist)]
                /\ job' = [job EXCEPT ![i] = InsertedJob]
                /\ UNCHANGED <<conn, published, snapshot, code>>
    <3>1. asked[c].playlist \in Playlists
      BY <1>0, <1>1 DEF EnqueueDecide, ApiType
    <3>2. Version(asked[c].playlist) \in Nat
      BY <1>0, <3>1, CurrentType
    <3>3. InsertedJob \in [state : JobStates, attempt : Nat]
      BY DEF InsertedJob, JobStates
    <3>4. QED
      BY <1>0, <2>2, <3>1, <3>2, <3>3 DEF RowsType
  <2>3. QED
    BY <1>1, <2>1, <2>2 DEF EnqueueDecide
<1>2. ASSUME NEW c \in Clients, NEW p \in Playlists, EnqueueLock(c, p) PROVE RowsType'
  BY <1>0, <1>2 DEF EnqueueLock, rowVars, RowsType
<1>3. CASE Disconnect \/ Expire
  BY <1>0, <1>3 DEF Disconnect, Expire, RowsType
<1>4. ASSUME NEW w \in Workers,
             Load(w) \/ Meta(w) \/ Page(w) \/ Verify(w) \/ CallFails(w) \/ Crash(w)
      PROVE  RowsType'
  BY <1>0, <1>4 DEF Load, Meta, Page, Verify, CallFails, Crash, rowVars, RowsType
<1>5. ASSUME NEW w \in Workers, Save(w) PROVE RowsType'
  <2>1. CASE Publish(target[w], before[w], entries[w]) /\ SessionLive
    <3>1. target[w] \in rows
      BY <1>5, <2>1, SavedHasRow DEF Save
    <3>2. UNCHANGED <<conn, rows, playlist, created, job>>
      BY <1>5 DEF Save
    <3>3. QED
      BY <1>0, <2>1, <3>1, <3>2 DEF Publish, RowsType, Codes
  <2>2. CASE UNCHANGED <<published, snapshot, code>>
    BY <1>0, <1>5, <2>2 DEF Save, RowsType
  <2>3. QED
    BY <1>5, <2>1, <2>2 DEF Save
<1>6. ASSUME NEW w \in Workers, Note(w) PROVE RowsType'
  <2>1. UNCHANGED <<rowVars, job>>
    BY <1>6 DEF Note
  <2>2. code' \in [Imports -> Codes]
    BY <1>0, <1>6 DEF Note, RowsType, WorkType
  <2>3. QED
    BY <1>0, <2>1, <2>2 DEF RowsType, rowVars
<1>7. ASSUME NEW w \in Workers, Report(w) PROVE RowsType'
  <2>1. target[w] \in Imports /\ attempt[w] \in Nat /\ attempt[w] > 0
    BY <1>0, <1>7 DEF Report, BaseInv, ReadInv, AttemptOK, WorkType
  <2>2. WorkReturns(failure[w]) \in Results
    BY <1>0, ReturnsType DEF WorkType
  <2>3. SettledJob(job[target[w]], WorkReturns(failure[w]), attempt[w], MaxAttempts)
           \in [state : JobStates, attempt : Nat]
    BY <1>0, <2>1, <2>2, SettledType DEF RowsType
  <2>4. QED
    BY <1>0, <1>7, <2>1, <2>3 DEF Report, RowsType, rowVars
<1>8. ASSUME NEW w \in Workers, NEW i \in Imports, Fetch(w, i) PROVE RowsType'
  <2>1. DeliveredJob(job[i]) \in [state : JobStates, attempt : Nat]
    BY <1>0 DEF DeliveredJob, JobStates, RowsType
  <2>2. QED
    BY <1>0, <1>8, <2>1 DEF Fetch, RowsType, rowVars
<1>9. ASSUME NEW i \in Imports, Rescue(i) PROVE RowsType'
  <2>1. RescuedJob(job[i], MaxAttempts) \in [state : JobStates, attempt : Nat]
    BY <1>0 DEF RescuedJob, AfterFailure, JobStates, RowsType
  <2>2. QED
    BY <1>0, <1>9, <2>1 DEF Rescue, RowsType, rowVars
<1>10. ASSUME NEW p \in Playlists, Edit(p) PROVE RowsType'
  BY <1>0, <1>10 DEF Edit, RowsType, rowVars
<1>11. CASE UNCHANGED vars
  BY <1>0, <1>11 DEF vars, rowVars, RowsType
<1>12. QED
  BY <1>1, <1>2, <1>3, <1>4, <1>5, <1>6, <1>7, <1>8, <1>9, <1>10, <1>11 DEF Next, Attempt

----------------------------------------------------------------------------
(* What every step keeps.                                                  *)

\* A playlist's history only grows: the versions read before stay as they were.
LEMMA HistoryGrows ==
    ASSUME BaseInv, [Next]_vars, NEW p \in Playlists
    PROVE  /\ history' \in [Playlists -> Seq(Contents) \ {<<>>}]
           /\ Len(history'[p]) \in Nat /\ Len(history[p]) <= Len(history'[p])
           /\ \A n \in 1..Len(history[p]) : history'[p][n] = history[p][n]
<1>0. RowsType /\ ApiType /\ WorkType
  BY DEF BaseInv, TypeOK
<1>1. history[p] \in Seq(Contents) /\ Len(history[p]) \in Nat
  BY <1>0 DEF ApiType
<1>2. CASE \E q \in Playlists : Edit(q)
  <2>1. PICK q \in Playlists, c \in Contents : history' = [history EXCEPT ![q] = Append(@, c)]
    BY <1>2 DEF Edit
  <2>2. history[q] \in Seq(Contents)
    BY <1>0 DEF ApiType
  <2>3. /\ Append(history[q], c) \in Seq(Contents)
        /\ Len(Append(history[q], c)) = Len(history[q]) + 1
        /\ \A n \in 1..Len(history[q]) : Append(history[q], c)[n] = history[q][n]
    BY <2>2, AppendProperties
  <2>4. Append(history[q], c) # <<>>
    BY <2>2, <2>3
  <2>5. history' \in [Playlists -> Seq(Contents) \ {<<>>}]
    BY <1>0, <2>1, <2>3, <2>4 DEF ApiType
  <2>6. CASE p = q
    <3>1. history'[p] = Append(history[q], c)
      BY <1>0, <2>1, <2>6 DEF ApiType
    <3>2. QED
      BY <1>1, <2>3, <2>5, <2>6, <3>1
  <2>7. CASE p # q
    BY <1>0, <1>1, <2>1, <2>5, <2>7 DEF ApiType
  <2>8. QED
    BY <2>6, <2>7
<1>3. CASE UNCHANGED history
  BY <1>0, <1>1, <1>3 DEF ApiType
<1>4. [Next]_vars => (\E q \in Playlists : Edit(q)) \/ UNCHANGED history
  BY DEF Next, EnqueueDecide, EnqueueLock, Disconnect, Expire, Attempt, Load, Meta, Page,
         Verify, CallFails, Save, Note, Report, Crash, Fetch, Rescue, vars
<1>5. QED
  BY <1>2, <1>3, <1>4

\* What a step does to a job that exists: it stays, and it can become active
\* only if it was.
LEMMA JobStep ==
    ASSUME BaseInv, [Next]_vars, NEW i \in Imports, job[i].state # "absent"
    PROVE  /\ job'[i].state # "absent"
           /\ job'[i].state \in Active => job[i].state \in Active
           /\ playlist'[i] = playlist[i] /\ created'[i] = created[i]
<1>0. RowsType /\ ApiType /\ WorkType
  BY DEF BaseInv, TypeOK
<1>1. ASSUME NEW c \in Clients, EnqueueDecide(c)
      PROVE  UNCHANGED <<job[i], playlist[i], created[i]>>
  <2>1. CASE UNCHANGED <<rowVars, code, job>>
    BY <2>1 DEF rowVars
  <2>2. CASE \E k \in Imports :
                /\ job[k] = AbsentJob
                /\ playlist' = [playlist EXCEPT ![k] = asked[c].playlist]
                /\ created' = [created EXCEPT ![k] = Version(asked[c].playlist)]
                /\ job' = [job EXCEPT ![k] = InsertedJob]
    BY <1>0, <2>2 DEF RowsType, AbsentJob
  <2>3. QED
    BY <1>1, <2>1, <2>2 DEF EnqueueDecide
<1>2. ASSUME NEW w \in Workers, Report(w)
      PROVE  /\ job'[i].state # "absent"
             /\ job'[i].state \in Active => job[i].state \in Active
  <2>1. WorkReturns(failure[w]) \in Results
    BY <1>0, ReturnsType DEF WorkType
  <2>2. target[w] \in Imports /\ attempt[w] \in Nat
    BY <1>0, <1>2 DEF Report, BaseInv, ReadInv, AttemptOK, WorkType
  <2>3. CASE target[w] = i /\ job[i].state = "running"
    <3>1. job'[i] = Outcome(job[i], WorkReturns(failure[w]), attempt[w], MaxAttempts)
      BY <1>0, <1>2, <2>3 DEF Report, RowsType, SettledJob
    <3>2. job'[i].state \in {"completed", "cancelled", "scheduled", "retryable", "discarded"}
      BY <2>1, <3>1 DEF Outcome, AfterFailure, Results
    <3>3. QED
      BY <2>3, <3>2 DEF Active
  <2>4. CASE ~(target[w] = i /\ job[i].state = "running")
    BY <1>0, <1>2, <2>2, <2>4 DEF Report, RowsType, SettledJob
  <2>5. QED
    BY <2>3, <2>4
<1>3. ASSUME NEW w \in Workers, NEW k \in Imports, Fetch(w, k)
      PROVE  /\ job'[i].state # "absent"
             /\ job'[i].state \in Active => job[i].state \in Active
  BY <1>0, <1>3 DEF Fetch, RowsType, DeliveredJob, Active, Waiting
<1>4. ASSUME NEW k \in Imports, Rescue(k)
      PROVE  /\ job'[i].state # "absent"
             /\ job'[i].state \in Active => job[i].state \in Active
  BY <1>0, <1>4 DEF Rescue, RowsType, RescuedJob, AfterFailure, Active, Waiting
<1>5. CASE UNCHANGED <<playlist, created>>
  <2>1. \/ UNCHANGED job
        \/ \E c \in Clients : EnqueueDecide(c)
        \/ \E w \in Workers : Report(w) \/ \E k \in Imports : Fetch(w, k)
        \/ \E k \in Imports : Rescue(k)
    BY DEF Next, EnqueueLock, Disconnect, Expire, Attempt, Load, Meta, Page, Verify,
           CallFails, Save, Note, Crash, Edit, vars
  <2>2. QED
    BY <1>1, <1>2, <1>3, <1>4, <1>5, <2>1
<1>6. UNCHANGED <<playlist, created>> \/ \E c \in Clients : EnqueueDecide(c)
  BY DEF Next, EnqueueLock, Disconnect, Expire, Attempt, Load, Meta, Page, Verify,
         CallFails, Save, Note, Crash, Edit, Report, Fetch, Rescue, vars, rowVars
<1>7. QED
  BY <1>1, <1>5, <1>6

\* A worker that stands still keeps what its attempt knows, whatever the others do.
LEMMA StandStill ==
    ASSUME BaseInv, [Next]_vars, NEW w \in Workers,
           pc'[w] = pc[w], target'[w] = target[w], before'[w] = before[w],
           entries'[w] = entries[w], attempt'[w] = attempt[w]
    PROVE  AttemptOK(w)' /\ ReadOK(w)'
<1>0. RowsType /\ ApiType /\ WorkType /\ AttemptOK(w) /\ ReadOK(w)
  BY DEF BaseInv, TypeOK, ReadInv
<1>1. CASE pc[w] = "idle"
  BY <1>1 DEF AttemptOK, ReadOK
<1>2. CASE pc[w] # "idle"
  <2>1. target[w] \in Imports /\ job[target[w]].state # "absent" /\ attempt[w] > 0
    BY <1>0, <1>2 DEF AttemptOK
  <2>2. AttemptOK(w)'
    BY <2>1, JobStep DEF AttemptOK
  <2> DEFINE p == playlist[target[w]]
  <2>3. p \in Playlists /\ playlist'[target'[w]] = p /\ created'[target'[w]] = created[target[w]]
    BY <1>0, <2>1, JobStep DEF RowsType
  <2>4. /\ Len(history'[p]) \in Nat /\ Len(history[p]) \in Nat
        /\ Len(history[p]) <= Len(history'[p])
        /\ \A n \in 1..Len(history[p]) : history'[p][n] = history[p][n]
    <3>1. history[p] \in Seq(Contents)
      BY <1>0, <2>3 DEF ApiType
    <3>2. QED
      BY <2>3, <3>1, HistoryGrows
  <2>5. ReadOK(w)'
    <3> SUFFICES ASSUME pc[w] \in {"page", "verify", "save"}
                 PROVE  LET h == history'[p] IN
                        /\ before[w] \in 1..Len(h) /\ created[target[w]] <= before[w]
                        /\ Len(h[before[w]]) <= MaxItems
                        /\ pc[w] = "page" => Len(entries[w]) < Len(h[before[w]])
                        /\ pc[w] # "page" => Len(entries[w]) = Len(h[before[w]])
                        /\ pc[w] = "save" \/ before[w] = Len(h) =>
                              \A k \in 1..Len(entries[w]) : entries[w][k] = h[before[w]][k]
      BY <2>3 DEF ReadOK
    <3>1. before[w] \in 1..Len(history[p])
      BY <1>0 DEF ReadOK
    <3>2. history'[p][before[w]] = history[p][before[w]] /\ before[w] \in 1..Len(history'[p])
      BY <2>4, <3>1
    <3>3. before[w] = Len(history'[p]) => before[w] = Len(history[p])
      BY <2>4, <3>1
    <3>4. QED
      BY <1>0, <3>2, <3>3 DEF ReadOK
  <2>6. QED
    BY <2>2, <2>5
<1>3. QED
  BY <1>1, <1>2

\* Appending the next n entries of a list to a prefix of the same length as one
\* already read, position by position.
LEMMA PageExtends ==
    ASSUME NEW S, NEW s \in Seq(S), NEW c \in Seq(S), NEW n \in Nat \ {0},
           Len(s) + n <= Len(c)
    PROVE  LET e == s \o SubSeq(c, Len(s) + 1, Len(s) + n) IN
           /\ e \in Seq(S) /\ Len(e) = Len(s) + n
           /\ \A k \in 1..Len(s) : e[k] = s[k]
           /\ \A k \in (Len(s) + 1)..(Len(s) + n) : e[k] = c[k]
<1> DEFINE part == SubSeq(c, Len(s) + 1, Len(s) + n)
<1>1. Len(s) \in Nat /\ Len(c) \in Nat
  OBVIOUS
<1>2. /\ part \in Seq(S) /\ Len(part) = n
      /\ \A k \in 1..n : part[k] = c[Len(s) + k]
  BY <1>1
<1>3. /\ s \o part \in Seq(S) /\ Len(s \o part) = Len(s) + n
      /\ \A k \in 1..(Len(s) + n) :
            (s \o part)[k] = IF k <= Len(s) THEN s[k] ELSE part[k - Len(s)]
  <2> HIDE DEF part
  <2>1. QED
    BY <1>1, <1>2, ConcatProperties
<1>4. ASSUME NEW k \in (Len(s) + 1)..(Len(s) + n) PROVE (s \o part)[k] = c[k]
  <2>1. k - Len(s) \in 1..n /\ k \in 1..(Len(s) + n) /\ ~(k <= Len(s))
    BY <1>1
  <2>2. part[k - Len(s)] = c[Len(s) + (k - Len(s))]
    BY <1>2, <2>1
  <2>3. Len(s) + (k - Len(s)) = k
    BY <1>1
  <2>4. QED
    BY <1>3, <2>1, <2>2, <2>3
<1>5. QED
  BY <1>1, <1>3, <1>4

\* An attempt that goes on with the same import keeps its claim to it.
LEMMA GoesOn ==
    ASSUME BaseInv, [Next]_vars, NEW w \in Workers, pc[w] # "idle",
           target'[w] = target[w], attempt'[w] = attempt[w]
    PROVE  AttemptOK(w)'
<1>1. target[w] \in Imports /\ job[target[w]].state # "absent" /\ attempt[w] > 0
  BY DEF BaseInv, ReadInv, AttemptOK
<1>2. QED
  BY <1>1, JobStep DEF AttemptOK

\* The first metadata: the version read is current, and nothing has been read of it.
LEMMA MetaReads ==
    ASSUME BaseInv, [Next]_vars, NEW w \in Workers, Meta(w)
    PROVE  AttemptOK(w)' /\ ReadOK(w)' /\ entries' \in [Workers -> EntryLists]
           /\ before' \in [Workers -> Nat] /\ pc' \in [Workers -> PCs]
           /\ failure' \in [Workers -> Codes]
<1>0. RowsType /\ ApiType /\ WorkType /\ CreatedInv
  BY DEF BaseInv, TypeOK
<1>1. pc[w] # "idle" /\ UNCHANGED <<target, attempt, playlist, created, history>>
  BY DEF Meta, rowVars
<1>2. AttemptOK(w)'
  BY <1>1, GoesOn
<1> DEFINE p == playlist[target[w]]
<1>3. target[w] \in Imports /\ p \in Playlists
  BY <1>0, <1>1 DEF RowsType, BaseInv, ReadInv, AttemptOK
<1>4. CASE \E e \in Codes : Fail(w, e) /\ UNCHANGED readVars
  BY <1>0, <1>2, <1>4 DEF Fail, Goto, readVars, ReadOK, WorkType, PCs
<1>5. CASE /\ ~TooLarge(Len(Current(p)))
           /\ before' = [before EXCEPT ![w] = Version(p)]
           /\ entries' = [entries EXCEPT ![w] = <<>>]
           /\ NextPage(w, 0, Len(Current(p)))
           /\ UNCHANGED failure
  <2>1. /\ Version(p) \in Nat /\ Version(p) \in 1..Len(history[p])
        /\ Len(Current(p)) \in Nat
    BY <1>0, <1>3, CurrentType
  <2>2. Len(Current(p)) <= MaxItems /\ Current(p) = history[p][Version(p)]
    BY <1>5, <2>1, LimitsAssumption DEF TooLarge, Current
  <2>3. <<>> \in EntryLists /\ Len(<<>>) = 0
    BY LimitsAssumption, EmptySeq DEF EntryLists
  <2>4. /\ entries' \in [Workers -> EntryLists] /\ entries'[w] = <<>>
        /\ before' \in [Workers -> Nat] /\ before'[w] = Version(p)
    BY <1>0, <1>5, <2>1, <2>3 DEF WorkType
  <2>5. /\ pc' \in [Workers -> PCs]
        /\ \/ pc'[w] = "page" /\ 0 < Len(Current(p))
           \/ pc'[w] = "verify" /\ Len(Current(p)) = 0
    BY <1>0, <1>5, <2>1 DEF WorkType, NextPage, Goto, PCs
  <2>6. created[target[w]] <= Version(p)
    BY <1>0, <1>3 DEF CreatedInv
  <2>7. \A k \in 1..Len(entries'[w]) : entries'[w][k] = history[p][Version(p)][k]
    BY <2>3, <2>4
  <2>8. ReadOK(w)'
    BY <1>1, <2>1, <2>2, <2>3, <2>4, <2>5, <2>6, <2>7 DEF ReadOK
  <2>9. QED
    BY <1>0, <1>2, <1>5, <2>4, <2>5, <2>8 DEF WorkType
<1>6. QED
  BY <1>4, <1>5 DEF Meta, Disconnected, Codes, Permanent

\* A page: as long as the version that was read first is current, the page is
\* the next part of it; and the total never passes the limit.
LEMMA PageReads ==
    ASSUME BaseInv, [Next]_vars, NEW w \in Workers, Page(w)
    PROVE  AttemptOK(w)' /\ ReadOK(w)' /\ entries' \in [Workers -> EntryLists]
           /\ before' \in [Workers -> Nat] /\ pc' \in [Workers -> PCs]
           /\ failure' \in [Workers -> Codes]
<1>0. RowsType /\ ApiType /\ WorkType /\ AttemptOK(w) /\ ReadOK(w)
  BY DEF BaseInv, TypeOK, ReadInv
<1>1. pc[w] = "page" /\ UNCHANGED <<target, attempt, playlist, created, history>>
  BY DEF Page, rowVars
<1>2. AttemptOK(w)'
  BY <1>1, GoesOn
<1> DEFINE p == playlist[target[w]]
           b == before[w]
           got == Len(entries[w])
           total == Len(history[p][b])
<1>3. target[w] \in Imports /\ p \in Playlists
  BY <1>0, <1>1 DEF RowsType, AttemptOK
<1>4. CASE \E e \in Codes : Fail(w, e) /\ UNCHANGED readVars
  BY <1>0, <1>2, <1>4 DEF Fail, Goto, readVars, ReadOK, WorkType, PCs
<1>5. CASE /\ Len(Current(p)) = total
           /\ \E n \in 1..PageSize :
                 /\ got + n <= total
                 /\ entries' = [entries EXCEPT ![w] =
                                   @ \o SubSeq(Current(p), got + 1, got + n)]
                 /\ NextPage(w, got + n, total)
           /\ UNCHANGED <<before, failure>>
  <2>1. PICK n \in 1..PageSize :
            /\ got + n <= total
            /\ entries' = [entries EXCEPT ![w] =
                              @ \o SubSeq(Current(p), got + 1, got + n)]
            /\ NextPage(w, got + n, total)
    BY <1>5
  <2> DEFINE e == entries[w] \o SubSeq(Current(p), got + 1, got + n)
  <2>2. n \in Nat \ {0}
    BY LimitsAssumption
  <2>3. /\ b \in 1..Len(history[p]) /\ created[target[w]] <= b
        /\ total <= MaxItems
        /\ b = Len(history[p]) => \A k \in 1..got : entries[w][k] = history[p][b][k]
    BY <1>0, <1>1 DEF ReadOK
  <2>4. Current(p) \in Seq(Items) /\ Current(p) = history[p][Len(history[p])]
    BY <1>0, <1>3, CurrentType DEF Current, Version
  <2>5. total \in Nat
    BY <1>0, <1>3, <2>3, VersionType
  <2>6. entries[w] \in Seq(Items) /\ got \in Nat
    BY <1>0 DEF WorkType, EntryLists
  <2>7. /\ e \in Seq(Items) /\ Len(e) = got + n
        /\ \A k \in 1..got : e[k] = entries[w][k]
        /\ \A k \in (got + 1)..(got + n) : e[k] = Current(p)[k]
    <3>1. Len(entries[w]) + n <= Len(Current(p))
      BY <1>5, <2>1
    <3>2. entries[w] \in Seq(Items) /\ Current(p) \in Seq(Items) /\ n \in Nat \ {0}
      BY <2>2, <2>4, <2>6
    <3> HIDE DEF p, total
    <3>3. QED
      BY <3>1, <3>2, PageExtends
  <2> HIDE DEF e
  <2>8. e \in EntryLists
    <3> HIDE DEF got, total
    <3>1. Len(e) <= MaxItems
      BY <2>1, <2>2, <2>3, <2>5, <2>6, <2>7, LimitsAssumption
    <3>2. QED
      BY <2>7, <3>1 DEF EntryLists
  <2>9. entries' \in [Workers -> EntryLists] /\ entries'[w] = e
    BY <1>0, <2>1, <2>8 DEF WorkType, e
  <2>10. /\ pc' \in [Workers -> PCs]
         /\ \/ pc'[w] = "page" /\ Len(e) < total
            \/ pc'[w] = "verify" /\ Len(e) = total
    <3> HIDE DEF got, total
    <3>1. Len(e) < total \/ (Len(e) = total /\ ~(Len(e) < total))
      BY <2>1, <2>2, <2>5, <2>6, <2>7
    <3>2. pc' = [pc EXCEPT ![w] = IF Len(e) < total THEN "page" ELSE "verify"]
      BY <2>1, <2>7 DEF NextPage, Goto
    <3>3. QED
      BY <1>0, <3>1, <3>2 DEF WorkType, PCs
  <2>11. b = Len(history[p]) => \A k \in 1..Len(e) : e[k] = history[p][b][k]
    <3> SUFFICES ASSUME b = Len(history[p]), NEW k \in 1..Len(e)
                 PROVE  e[k] = history[p][b][k]
      OBVIOUS
    <3>1. CASE k \in 1..got
      BY <2>3, <2>7, <3>1
    <3>2. CASE k \in (got + 1)..(got + n)
      BY <2>4, <2>7, <3>2
    <3>3. QED
      BY <2>2, <2>6, <2>7, <3>1, <3>2
  <2>12. ReadOK(w)'
    BY <1>1, <1>5, <2>3, <2>9, <2>10, <2>11 DEF ReadOK
  <2>13. QED
    BY <1>0, <1>2, <1>5, <2>9, <2>10, <2>12 DEF WorkType
<1>6. QED
  BY <1>4, <1>5 DEF Page, Disconnected, Codes, Permanent

\* The confirmation: only an attempt whose version is still current goes on to
\* save, and then its entries are that version's own.
LEMMA VerifyReads ==
    ASSUME BaseInv, [Next]_vars, NEW w \in Workers, Verify(w)
    PROVE  AttemptOK(w)' /\ ReadOK(w)' /\ UNCHANGED readVars
           /\ pc' \in [Workers -> PCs] /\ failure' \in [Workers -> Codes]
<1>0. RowsType /\ ApiType /\ WorkType /\ AttemptOK(w) /\ ReadOK(w)
  BY DEF BaseInv, TypeOK, ReadInv
<1>1. pc[w] = "verify" /\ UNCHANGED <<target, attempt, playlist, created, history>>
  BY DEF Verify, rowVars
<1>2. AttemptOK(w)'
  BY <1>1, GoesOn
<1>3. CASE \E e \in Codes : Fail(w, e) /\ UNCHANGED readVars
  BY <1>0, <1>2, <1>3 DEF Fail, Goto, ReadOK, WorkType, PCs
<1>4. CASE SameVersion(w) /\ Goto(w, "save") /\ UNCHANGED <<failure, readVars>>
  <2>1. before[w] = Len(history[playlist[target[w]]])
    BY <1>4 DEF SameVersion, Version
  <2>2. pc' \in [Workers -> PCs] /\ pc'[w] = "save"
    BY <1>0, <1>4 DEF Goto, WorkType, PCs
  <2>3. before' = before /\ entries' = entries
    BY <1>4 DEF readVars
  <2>4. ReadOK(w)'
    BY <1>0, <1>1, <2>1, <2>2, <2>3 DEF ReadOK
  <2>5. QED
    BY <1>0, <1>2, <1>4, <2>2, <2>4 DEF WorkType
<1>5. QED
  BY <1>3, <1>4 DEF Verify, Disconnected, Codes, Permanent

\* The limit of active imports is what it was.
LEMMA LimitStays == [Next]_vars => maxActive' = maxActive
BY DEF Next, EnqueueDecide, EnqueueDone, EnqueueLock, Disconnect, Expire, Attempt, Load,
       Meta, Page, Verify, CallFails, Save, Note, Report, Crash, Fetch, Rescue, Edit, vars,
       apiVars

\* Requests, playlists and snapshots keep their types.
LEMMA ApiStep == BaseInv /\ [Next]_vars => ApiType'
<1> SUFFICES ASSUME BaseInv, [Next]_vars PROVE ApiType'
  OBVIOUS
<1>0. RowsType /\ ApiType /\ WorkType
  BY DEF BaseInv, TypeOK
<1>1. connLock' \in Clients \cup {NoClient} /\ asked' \in
         [Clients -> {Idle} \cup [state : {"decide"}, playlist : Playlists, active : SUBSET Imports]]
  <2>1. ASSUME NEW c \in Clients, EnqueueDecide(c) PROVE <1>1!:
    BY <1>0, <2>1 DEF EnqueueDecide, EnqueueDone, ApiType
  <2>2. ASSUME NEW c \in Clients, NEW p \in Playlists, EnqueueLock(c, p) PROVE <1>1!:
    <3>1. ActiveImports \in SUBSET Imports
      BY <1>0 DEF ActiveImports, RowsType
    <3>2. QED
      BY <1>0, <2>2, <3>1 DEF EnqueueLock, ApiType
  <2>3. CASE UNCHANGED apiVars
    BY <1>0, <2>3 DEF apiVars, ApiType
  <2>4. QED
    BY <2>1, <2>2, <2>3
    DEF Next, Disconnect, Expire, Attempt, Load, Meta, Page, Verify, CallFails, Save, Note,
        Report, Crash, Fetch, Rescue, Edit, vars
<1>2. history' \in [Playlists -> Seq(Contents) \ {<<>>}]
  <2>1. CASE UNCHANGED history
    BY <1>0, <2>1 DEF ApiType
  <2>2. ASSUME NEW p \in Playlists, Edit(p) PROVE <1>2!:
    BY HistoryGrows
  <2>3. QED
    BY <2>1, <2>2
    DEF Next, EnqueueDecide, EnqueueLock, Disconnect, Expire, Attempt, Load, Meta, Page,
        Verify, CallFails, Save, Note, Report, Crash, Fetch, Rescue, vars
<1>3. snapshot' \in [Imports -> [version : Nat, entries : EntryLists]]
  <2>1. CASE UNCHANGED snapshot
    BY <1>0, <2>1 DEF ApiType
  <2>2. ASSUME NEW w \in Workers, Publish(target[w], before[w], entries[w]) PROVE <1>3!:
    <3>1. [version |-> before[w], entries |-> entries[w]] \in [version : Nat, entries : EntryLists]
      BY <1>0 DEF WorkType
    <3>2. QED
      BY <1>0, <2>2, <3>1 DEF Publish, ApiType
  <2>3. QED
    BY <2>1, <2>2
    DEF Next, EnqueueDecide, EnqueueLock, Disconnect, Expire, Attempt, Load, Meta, Page,
        Verify, CallFails, Save, Note, Report, Crash, Fetch, Rescue, Edit, vars, rowVars
<1>4. maxActive' \in ActiveLimits
  BY <1>0, LimitStays DEF ApiType
<1>5. QED
  BY <1>1, <1>2, <1>3, <1>4 DEF ApiType

\* Whoever is between its two statements has the row, and only it.
LEMMA LockStep == BaseInv /\ [Next]_vars => LockInv'
<1> SUFFICES ASSUME BaseInv, [Next]_vars PROVE LockInv'
  OBVIOUS
<1>0. RowsType /\ ApiType /\ LockInv
  BY DEF BaseInv, TypeOK
<1>1. ASSUME NEW c \in Clients, EnqueueDecide(c) PROVE LockInv'
  BY <1>0, <1>1, PartiesAssumption DEF EnqueueDecide, EnqueueDone, ApiType, LockInv, rowVars
<1>2. ASSUME NEW c \in Clients, NEW p \in Playlists, EnqueueLock(c, p) PROVE LockInv'
  <2>1. [state |-> "decide", playlist |-> p, active |-> ActiveImports] # Idle
    <3>1. [state |-> "decide", playlist |-> p, active |-> ActiveImports].state # Idle.state
      BY DEF Idle
    <3>2. QED
      BY <3>1
  <2>2. \A d \in Clients : asked'[d] # Idle <=> d = c
    BY <1>0, <1>2, <2>1, PartiesAssumption DEF EnqueueLock, ConnFree, ApiType, LockInv
  <2>3. QED
    BY <1>2, <2>2 DEF EnqueueLock, LockInv, rowVars
<1>3. CASE Disconnect
  BY <1>0, <1>3 DEF Disconnect, ConnFree, apiVars, LockInv
<1>4. CASE Expire
  BY <1>0, <1>4 DEF Expire, apiVars, LockInv
<1>5. CASE UNCHANGED <<conn, apiVars>>
  BY <1>0, <1>5 DEF apiVars, LockInv
<1>6. QED
  BY <1>1, <1>2, <1>3, <1>4, <1>5
  DEF Next, Attempt, Load, Meta, Page, Verify, CallFails, Save, Note, Report, Crash, Fetch,
      Rescue, Edit, vars, rowVars

\* Rows go with the connection and jobs do not.
LEMMA RowStep == BaseInv /\ [Next]_vars => RowInv'
<1> SUFFICES ASSUME BaseInv, [Next]_vars PROVE RowInv'
  OBVIOUS
<1>0. RowsType /\ ApiType /\ WorkType /\ LockInv /\ RowInv
  BY DEF BaseInv, TypeOK
<1>1. ASSUME NEW c \in Clients, EnqueueDecide(c) PROVE RowInv'
  <2>1. conn # "gone" /\ conn' = conn
    BY <1>0, <1>1, PartiesAssumption DEF EnqueueDecide, LockInv, rowVars
  <2>2. CASE UNCHANGED <<rowVars, code, job>>
    BY <1>0, <2>2 DEF rowVars, RowInv
  <2>3. CASE \E i \in Imports : rows' = rows \cup {i} /\ job' = [job EXCEPT ![i] = InsertedJob]
    <3>1. PICK i \in Imports : rows' = rows \cup {i} /\ job' = [job EXCEPT ![i] = InsertedJob]
      BY <2>3
    <3>2. job'[i].state = "available" /\ \A k \in Imports : k # i => job'[k] = job[k]
      BY <1>0, <3>1 DEF RowsType, InsertedJob
    <3>3. QED
      BY <1>0, <2>1, <3>1, <3>2 DEF RowInv
  <2>4. QED
    BY <1>1, <2>2, <2>3 DEF EnqueueDecide
<1>2. CASE Disconnect
  BY <1>2 DEF Disconnect, RowInv
<1>3. CASE Expire
  BY <1>0, <1>3 DEF Expire, RowInv
<1>4. CASE UNCHANGED <<conn, rows>> /\ \A i \in Imports : job[i].state = "absent" => job'[i] = job[i]
  <2>1. \A i \in Imports : job[i].state # "absent" <=> job'[i].state # "absent"
    BY <1>4, JobStep
  <2>2. QED
    BY <1>0, <1>4, <2>1 DEF RowInv
<1>5. ASSUME NEW w \in Workers, Report(w)
      PROVE  \A i \in Imports : job[i].state = "absent" => job'[i] = job[i]
  BY <1>0, <1>5 DEF Report, SettledJob, RowsType
<1>6. ASSUME NEW w \in Workers, NEW k \in Imports, Fetch(w, k)
      PROVE  \A i \in Imports : job[i].state = "absent" => job'[i] = job[i]
  BY <1>0, <1>6 DEF Fetch, Waiting, RowsType
<1>7. ASSUME NEW k \in Imports, Rescue(k)
      PROVE  \A i \in Imports : job[i].state = "absent" => job'[i] = job[i]
  BY <1>0, <1>7 DEF Rescue, RowsType
<1>8. \/ \E c \in Clients : EnqueueDecide(c)
      \/ Disconnect \/ Expire
      \/ UNCHANGED <<conn, rows>> /\ (\/ UNCHANGED job
                                      \/ \E w \in Workers : Report(w) \/ \E k \in Imports : Fetch(w, k)
                                      \/ \E k \in Imports : Rescue(k))
  BY ZenonT(40)
     DEF Next, EnqueueLock, Attempt, Load, Meta, Page, Verify, CallFails, Save, Note, Report,
         Crash, Fetch, Rescue, Edit, vars, rowVars
<1>9. QED
  BY <1>1, <1>2, <1>3, <1>4, <1>5, <1>6, <1>7, <1>8

\* The version recorded with a request is never ahead of the playlist.
LEMMA CreatedStep == BaseInv /\ [Next]_vars => CreatedInv'
<1> SUFFICES ASSUME BaseInv, [Next]_vars PROVE CreatedInv'
  OBVIOUS
<1>0. RowsType /\ ApiType /\ WorkType /\ LockInv /\ RowInv /\ CreatedInv
  BY DEF BaseInv, TypeOK
<1>1. \A p \in Playlists : Version(p) \in Nat /\ Version(p)' \in Nat /\ Version(p) <= Version(p)'
  BY <1>0, HistoryGrows, CurrentType DEF Version
<1>2. CASE UNCHANGED <<playlist, created>>
  <2> SUFFICES ASSUME NEW i \in Imports PROVE created[i] <= Version(playlist[i])'
    BY <1>2 DEF CreatedInv
  <2>1. created[i] <= Version(playlist[i]) /\ created[i] \in Nat /\ playlist[i] \in Playlists
    BY <1>0 DEF CreatedInv, RowsType
  <2>2. playlist'[i] = playlist[i]
    BY <1>2
  <2>3. created[i] <= Len(history'[playlist[i]])
    BY <1>1, <2>1 DEF Version
  <2>4. QED
    BY <2>2, <2>3 DEF Version
<1>3. ASSUME NEW c \in Clients, EnqueueDecide(c), ~UNCHANGED <<playlist, created>> PROVE CreatedInv'
  <2>1. PICK i \in Imports :
            /\ playlist' = [playlist EXCEPT ![i] = asked[c].playlist]
            /\ created' = [created EXCEPT ![i] = Version(asked[c].playlist)]
    BY <1>3 DEF EnqueueDecide, rowVars
  <2>2. asked[c].playlist \in Playlists
    BY <1>0, <1>3 DEF EnqueueDecide, ApiType
  <2>3. history' = history
    BY <1>3 DEF EnqueueDecide
  <2> SUFFICES ASSUME NEW k \in Imports PROVE created'[k] <= Len(history[playlist'[k]])
    BY <2>3 DEF CreatedInv, Version
  <2>4. CASE k = i
    BY <1>0, <1>1, <2>1, <2>2, <2>4 DEF RowsType, Version
  <2>5. CASE k # i
    BY <1>0, <2>1, <2>5 DEF RowsType, CreatedInv, Version
  <2>6. QED
    BY <2>4, <2>5
<1>4. QED
  BY <1>2, <1>3
  DEF Next, EnqueueLock, Disconnect, Expire, Attempt, Load, Meta, Page, Verify, CallFails,
      Save, Note, Report, Crash, Fetch, Rescue, Edit, vars, rowVars

\* Every attempt keeps what it knows, its own steps and the others' considered.
LEMMA ReadStep == BaseInv /\ [Next]_vars => ReadInv'
<1> SUFFICES ASSUME BaseInv, [Next]_vars, NEW v \in Workers PROVE AttemptOK(v)' /\ ReadOK(v)'
  BY DEF ReadInv
<1>0. RowsType /\ ApiType /\ WorkType /\ AttemptOK(v) /\ ReadOK(v)
  BY DEF BaseInv, TypeOK, ReadInv
<1>1. CASE UNCHANGED <<pc, target, before, entries, attempt>>
  BY <1>1, StandStill
<1>2. ASSUME NEW w \in Workers, w # v,
             Attempt(w) \/ Crash(w) \/ \E i \in Imports : Fetch(w, i)
      PROVE  AttemptOK(v)' /\ ReadOK(v)'
  <2>1. /\ pc'[v] = pc[v] /\ target'[v] = target[v] /\ before'[v] = before[v]
        /\ entries'[v] = entries[v] /\ attempt'[v] = attempt[v]
    BY <1>0, <1>2
    DEF Attempt, Load, Meta, Page, Verify, CallFails, Save, Note, Report, Crash, Fetch, Rest,
        Disconnected, NextPage, Succeed, Fail, Goto, readVars, WorkType
  <2>2. QED
    BY <2>1, StandStill
<1>3. CASE Load(v) \/ CallFails(v) \/ Save(v) \/ Note(v)
  <2>1. /\ pc[v] # "idle" /\ target'[v] = target[v] /\ attempt'[v] = attempt[v]
        /\ pc'[v] \in {"meta", "note", "report"}
    BY <1>0, <1>3 DEF Load, CallFails, Save, Note, Succeed, Fail, Goto, WorkType
  <2>2. QED
    BY <2>1, GoesOn DEF ReadOK
<1>4. CASE Report(v) \/ Crash(v)
  <2>1. pc'[v] = "idle"
    BY <1>0, <1>4 DEF Report, Crash, Rest, Goto, WorkType
  <2>2. QED
    BY <2>1 DEF AttemptOK, ReadOK
<1>5. ASSUME NEW i \in Imports, Fetch(v, i) PROVE AttemptOK(v)' /\ ReadOK(v)'
  <2>1. /\ pc'[v] = "load" /\ target'[v] = i /\ attempt'[v] = job[i].attempt + 1
        /\ job[i].state # "absent"
    BY <1>0, <1>5 DEF Fetch, Goto, WorkType, Waiting
  <2>2. job[i].attempt \in Nat /\ job'[i].state # "absent"
    BY <1>0, <2>1, JobStep DEF RowsType
  <2>3. QED
    BY <2>1, <2>2 DEF AttemptOK, ReadOK
<1>6. QED
  BY <1>1, <1>2, <1>3, <1>4, <1>5, MetaReads, PageReads, VerifyReads
  DEF Next, Attempt, EnqueueDecide, EnqueueLock, Disconnect, Expire, Rescue, Edit, vars,
      workVars, readVars

\* The workers' variables and the bounds keep their types.
LEMMA WorkStep == BaseInv /\ [Next]_vars => WorkType'
<1> SUFFICES ASSUME BaseInv, [Next]_vars PROVE WorkType'
  OBVIOUS
<1>0. RowsType /\ ApiType /\ WorkType
  BY DEF BaseInv, TypeOK
<1>1. budget' \in Budgets
  <2>1. \/ UNCHANGED budget
        \/ \E kind \in {"errors", "rateLimits", "denied", "edits"} : Spend(kind)
    BY DEF Next, EnqueueDecide, EnqueueLock, Disconnect, Expire, Attempt, Load, Meta, Page,
           Verify, CallFails, Save, Note, Report, Crash, Fetch, Rescue, Edit, vars
  <2>2. QED
    BY <1>0, <2>1, SpendType DEF WorkType
<1>2. ASSUME NEW w \in Workers, Load(w) \/ CallFails(w) \/ Save(w) \/ Note(w) PROVE WorkType'
  <2>1. UNCHANGED <<target, readVars, attempt>>
    BY <1>2 DEF Load, CallFails, Save, Note
  <2>2. pc' \in [Workers -> PCs] /\ failure' \in [Workers -> Codes]
    BY <1>0, <1>2 DEF Load, CallFails, Save, Note, Succeed, Fail, Goto, WorkType, PCs, Codes, Permanent
  <2>3. QED
    BY <1>0, <1>1, <2>1, <2>2 DEF WorkType, readVars
<1>3. ASSUME NEW w \in Workers, Meta(w) PROVE WorkType'
  BY <1>0, <1>1, <1>3, MetaReads DEF Meta, WorkType
<1>4. ASSUME NEW w \in Workers, Page(w) PROVE WorkType'
  BY <1>0, <1>1, <1>4, PageReads DEF Page, WorkType
<1>5. ASSUME NEW w \in Workers, Verify(w) PROVE WorkType'
  BY <1>0, <1>1, <1>5, VerifyReads DEF Verify, WorkType, readVars
<1>6. ASSUME NEW w \in Workers, Report(w) \/ Crash(w) PROVE WorkType'
  <2>1. <<>> \in EntryLists
    BY LimitsAssumption, EmptySeq DEF EntryLists
  <2>2. Rest(w)
    BY <1>6 DEF Report, Crash
  <2>3. entries' \in [Workers -> EntryLists]
    BY <1>0, <2>1, <2>2 DEF Rest, WorkType
  <2>4. /\ pc' \in [Workers -> PCs] /\ target' \in [Workers -> Imports \cup {NoImport}]
        /\ before' \in [Workers -> Nat] /\ failure' \in [Workers -> Codes]
        /\ attempt' \in [Workers -> Nat]
    BY <1>0, <2>2 DEF Rest, Goto, WorkType, PCs, Codes
  <2>5. QED
    BY <1>1, <2>3, <2>4 DEF WorkType
<1>7. ASSUME NEW w \in Workers, NEW i \in Imports, Fetch(w, i) PROVE WorkType'
  <2>1. job[i].attempt \in Nat
    BY <1>0 DEF RowsType
  <2>2. /\ pc' \in [Workers -> PCs] /\ target' \in [Workers -> Imports \cup {NoImport}]
        /\ attempt' \in [Workers -> Nat] /\ UNCHANGED <<readVars, failure>>
    BY <1>0, <1>7, <2>1 DEF Fetch, Goto, WorkType, PCs
  <2>3. QED
    BY <1>0, <1>1, <2>2 DEF WorkType, readVars
<1>8. CASE UNCHANGED workVars
  BY <1>0, <1>1, <1>8 DEF WorkType, workVars, readVars
<1>9. QED
  BY <1>2, <1>3, <1>4, <1>5, <1>6, <1>7, <1>8
  DEF Next, Attempt, EnqueueDecide, EnqueueLock, Disconnect, Expire, Rescue, Edit, vars

\* The base of the invariants is inductive.
LEMMA BaseInvariant == Spec => []BaseInv
<1>1. BaseInv /\ [Next]_vars => BaseInv'
  BY RowsStep, ApiStep, WorkStep, LockStep, RowStep, CreatedStep, ReadStep DEF BaseInv, TypeOK
<1>2. QED
  BY InitBase, <1>1, PTL DEF Spec

\* Every variable of an import keeps its type, and whatever the page size no
\* attempt collects more than maxSnapshotItems entries.
THEOREM TypeInvariant == Spec => []TypeOK
<1>1. BaseInv => TypeOK
  BY DEF BaseInv
<1>2. QED
  BY BaseInvariant, <1>1, PTL

----------------------------------------------------------------------------
(* What is published.                                                      *)

\* Snapshots appear only by an attempt's save, in a live session, for an import
\* that has none; those that stay are left alone.
LEMMA PublishedStep ==
    ASSUME BaseInv, [Next]_vars, NEW i \in published'
    PROVE  \/ i \in published /\ snapshot'[i] = snapshot[i]
           \/ /\ i \notin published /\ conn = "live"
              /\ UNCHANGED <<playlist, created, history>>
              /\ \E w \in Workers :
                    /\ pc[w] = "save" /\ target[w] = i
                    /\ snapshot'[i] = [version |-> before[w], entries |-> entries[w]]
<1>0. RowsType /\ ApiType /\ WorkType
  BY DEF BaseInv, TypeOK
<1>1. ASSUME NEW w \in Workers, Save(w), Publish(target[w], before[w], entries[w]), SessionLive,
             target[w] \notin published
      PROVE  \/ i \in published /\ snapshot'[i] = snapshot[i]
             \/ /\ i \notin published /\ conn = "live"
                /\ UNCHANGED <<playlist, created, history>>
                /\ \E v \in Workers :
                      /\ pc[v] = "save" /\ target[v] = i
                      /\ snapshot'[i] = [version |-> before[v], entries |-> entries[v]]
  <2>1. /\ pc[w] = "save" /\ conn = "live" /\ UNCHANGED <<playlist, created, history>>
        /\ published' = published \cup {target[w]}
        /\ snapshot' = [snapshot EXCEPT ![target[w]] = [version |-> before[w], entries |-> entries[w]]]
    BY <1>1 DEF Save, SessionLive, Publish
  <2>2. target[w] \in Imports
    BY <2>1 DEF BaseInv, ReadInv, AttemptOK
  <2>3. CASE i = target[w]
    <3>1. snapshot'[i] = [version |-> before[w], entries |-> entries[w]]
      BY <1>0, <2>1, <2>2, <2>3 DEF ApiType
    <3>2. QED
      BY <1>1, <2>1, <2>3, <3>1
  <2>4. CASE i # target[w]
    BY <1>0, <2>1, <2>4 DEF ApiType
  <2>5. QED
    BY <2>3, <2>4
<1>2. CASE published' \subseteq published /\ snapshot' = snapshot
  BY <1>2
<1>3. QED
  BY <1>1, <1>2
  DEF Next, Attempt, EnqueueDecide, EnqueueLock, Disconnect, Expire, Load, Meta, Page, Verify,
      CallFails, Save, Publish, Note, Report, Crash, Fetch, Rescue, Edit, vars, rowVars

\* Every step keeps the published snapshots faithful.
LEMMA FaithStep == BaseInv /\ FaithInv /\ [Next]_vars => FaithInv'
<1> SUFFICES ASSUME BaseInv, FaithInv, [Next]_vars, NEW i \in published'
             PROVE  LET h == history'[playlist'[i]]
                        s == snapshot'[i]
                    IN  s.version \in 1..Len(h) /\ created'[i] <= s.version /\ s.entries = h[s.version]
  BY DEF FaithInv, Version
<1>0. RowsType /\ ApiType /\ WorkType /\ RowInv
  BY DEF BaseInv, TypeOK
<1>1. CASE i \in published /\ snapshot'[i] = snapshot[i]
  <2>1. i \in Imports /\ job[i].state # "absent"
    BY <1>0, <1>1 DEF RowsType, RowInv
  <2>2. playlist'[i] = playlist[i] /\ created'[i] = created[i] /\ playlist[i] \in Playlists
    BY <1>0, <2>1, JobStep DEF RowsType
  <2> DEFINE p == playlist[i]
             s == snapshot[i]
  <2>3. s.version \in 1..Len(history[p]) /\ created[i] <= s.version /\ s.entries = history[p][s.version]
    BY <1>1 DEF FaithInv, Version
  <2>4. /\ Len(history[p]) \in Nat /\ Len(history'[p]) \in Nat /\ Len(history[p]) <= Len(history'[p])
        /\ history'[p][s.version] = history[p][s.version]
    <3>1. Len(history[p]) \in Nat
      BY <1>0, <2>2, CurrentType DEF Version
    <3> HIDE DEF s
    <3>2. QED
      BY <2>2, <2>3, <3>1, HistoryGrows
  <2>5. s.version \in 1..Len(history'[p])
    BY <2>3, <2>4
  <2>6. QED
    BY <1>1, <2>2, <2>3, <2>4, <2>5
<1>2. ASSUME NEW w \in Workers, UNCHANGED <<playlist, created, history>>,
             pc[w] = "save", target[w] = i,
             snapshot'[i] = [version |-> before[w], entries |-> entries[w]]
      PROVE  LET h == history'[playlist'[i]]
                 s == snapshot'[i]
             IN  s.version \in 1..Len(h) /\ created'[i] <= s.version /\ s.entries = h[s.version]
  <2> DEFINE h == history[playlist[i]]
  <2>1. i \in Imports /\ playlist[i] \in Playlists
    BY <1>0, <1>2 DEF RowsType, BaseInv, ReadInv, AttemptOK
  <2>2. /\ before[w] \in 1..Len(h) /\ created[i] <= before[w]
        /\ Len(entries[w]) = Len(h[before[w]])
        /\ \A k \in 1..Len(entries[w]) : entries[w][k] = h[before[w]][k]
    BY <1>2 DEF BaseInv, ReadInv, ReadOK
  <2>3. entries[w] \in Seq(Items) /\ h[before[w]] \in Seq(Items)
    BY <1>0, <2>1, <2>2, VersionType DEF WorkType, EntryLists
  <2>4. entries[w] = h[before[w]]
    <3> HIDE DEF h
    <3>1. QED
      BY <2>2, <2>3, SeqEqual
  <2>5. QED
    BY <1>2, <2>2, <2>4
<1>3. QED
  BY <1>1, <1>2, PublishedStep

\* What is published is a version of the playlist, in every reachable state.
LEMMA FaithInvariant == Spec => [](BaseInv /\ FaithInv)
<1>1. Init => FaithInv
  BY DEF Init, FaithInv
<1>2. QED
  BY <1>1, BaseInvariant, FaithStep, PTL DEF Spec

\* A snapshot read page by page, while the owner edits the playlist and other
\* deliveries read it too, is one version of it, whole and in order, and no
\* older than the request: the second metadata read is enough.
THEOREM PublishedFaithfully == Spec => []SnapshotFaithful
<1>1. BaseInv /\ FaithInv => SnapshotFaithful
  <2> SUFFICES ASSUME BaseInv, FaithInv, NEW i \in published
               PROVE  /\ snapshot[i].version \in created[i]..Version(playlist[i])
                      /\ snapshot[i].entries = history[playlist[i]][snapshot[i].version]
    BY DEF SnapshotFaithful
  <2>1. i \in Imports /\ playlist[i] \in Playlists /\ created[i] \in Nat
    BY DEF BaseInv, TypeOK, RowsType
  <2>2. Version(playlist[i]) \in Nat
    BY <2>1, CurrentType DEF BaseInv, TypeOK
  <2>3. QED
    BY <2>1, <2>2 DEF FaithInv
<1>2. QED
  BY <1>1, FaithInvariant, PTL

\* Whatever a second delivery read, a published snapshot never changes.
THEOREM PublishedOnce == Spec => SnapshotImmutable
<1>1. ASSUME BaseInv, [Next]_vars
      PROVE  \A i \in published : i \in published' => snapshot'[i] = snapshot[i]
  BY <1>1, PublishedStep
<1>2. QED
  BY <1>1, BaseInvariant, PTL DEF Spec, SnapshotImmutable

\* No attempt publishes for a session that expired or was removed under it, and
\* a removed session leaves no import and no snapshot.
THEOREM EndedSessionsStayEmpty == Spec => SessionEndIsFinal
<1>1. ASSUME BaseInv, [Next]_vars
      PROVE  /\ conn # "live" => published' \subseteq published
             /\ conn' = "gone" => rows' = {} /\ published' = {}
  <2>1. RowInv' /\ RowsType'
    BY <1>1, RowStep, RowsStep
  <2>2. QED
    BY <1>1, <2>1, PublishedStep DEF RowInv, RowsType
<1>2. QED
  BY <1>1, BaseInvariant, PTL DEF Spec, SessionEndIsFinal

----------------------------------------------------------------------------
(* What a completed job means.                                             *)

\* An import that has its snapshot keeps it for as long as it has its row.
LEMMA ServedStays ==
    ASSUME BaseInv, [Next]_vars, NEW i \in Imports, job[i].state # "absent",
           i \in published \/ i \notin rows
    PROVE  i \in published' \/ i \notin rows'
<1>1. ASSUME NEW c \in Clients, EnqueueDecide(c) PROVE i \in published' \/ i \notin rows'
  BY <1>1 DEF EnqueueDecide, rowVars, AbsentJob
<1>2. ASSUME NEW w \in Workers, Save(w) PROVE i \in published' \/ i \notin rows'
  BY <1>2 DEF Save, Publish
<1>3. CASE UNCHANGED <<rows, published>> \/ rows' = {}
  BY <1>3
<1>4. QED
  BY <1>1, <1>2, <1>3
  DEF Next, Attempt, EnqueueLock, Disconnect, Expire, Load, Meta, Page, Verify, CallFails,
      Note, Report, Crash, Fetch, Rescue, Edit, vars, rowVars

\* Only a failed attempt notes a code, and only a served one reports success.
LEMMA OutcomeStep == BaseInv /\ OutcomeInv /\ [Next]_vars => OutcomeInv'
<1> SUFFICES ASSUME BaseInv, OutcomeInv, [Next]_vars, NEW v \in Workers
             PROVE  /\ pc'[v] = "note" => failure'[v] # ""
                    /\ pc'[v] = "report" /\ failure'[v] = ""
                          => target'[v] \in published' \/ target'[v] \notin rows'
  BY DEF OutcomeInv
<1>0. RowsType /\ WorkType /\ AttemptOK(v)
  BY DEF BaseInv, TypeOK, ReadInv
<1>1. CASE UNCHANGED <<pc[v], failure[v], target[v]>>
  <2>1. pc[v] = "report" => target[v] \in Imports /\ job[target[v]].state # "absent"
    BY <1>0 DEF AttemptOK
  <2>2. QED
    BY <1>1, <2>1, ServedStays DEF OutcomeInv
<1>2. ASSUME NEW e \in Codes \ {""}, Fail(v, e)
      PROVE  pc'[v] = "note" /\ failure'[v] # ""
  BY <1>0, <1>2 DEF Fail, Goto, WorkType
<1>3. CASE Load(v)
  <2>1. CASE \E e \in Codes \ {""} : Fail(v, e)
    BY <1>2, <2>1
  <2>2. CASE target[v] \in published /\ UNCHANGED <<rowVars, target>> /\ Succeed(v)
    BY <1>0, <2>2 DEF Succeed, Goto, WorkType, rowVars
  <2>3. CASE Goto(v, "meta")
    BY <1>0, <2>3 DEF Goto, WorkType
  <2>4. QED
    BY <1>3, <2>1, <2>2, <2>3 DEF Load, Codes, Permanent
<1>4. CASE Meta(v) \/ Page(v) \/ Verify(v) \/ CallFails(v)
  <2>1. (\E e \in Codes \ {""} : Fail(v, e)) \/ (\E l \in {"page", "verify", "save"} : Goto(v, l))
    BY <1>4 DEF Meta, Page, Verify, CallFails, Disconnected, NextPage, Codes, Permanent
  <2>2. QED
    BY <1>0, <1>2, <2>1 DEF Goto, WorkType
<1>5. CASE Save(v)
  <2>1. CASE \E e \in Codes \ {""} : Fail(v, e)
    BY <1>2, <2>1
  <2>2. CASE Publish(target[v], before[v], entries[v]) /\ Succeed(v)
    <3>1. target'[v] \in published'
      BY <1>5, <2>2 DEF Save, Publish
    <3>2. pc'[v] = "report"
      BY <1>0, <2>2 DEF Succeed, Goto, WorkType
    <3>3. QED
      BY <3>1, <3>2
  <2>3. QED
    BY <1>5, <2>1, <2>2 DEF Save, Codes, Permanent
<1>6. CASE Note(v)
  <2>1. pc[v] = "note" /\ pc'[v] = "report" /\ failure'[v] = failure[v]
    BY <1>0, <1>6 DEF Note, Goto, WorkType
  <2>2. QED
    BY <2>1 DEF OutcomeInv
<1>7. CASE Report(v) \/ Crash(v) \/ \E i \in Imports : Fetch(v, i)
  <2>1. pc'[v] \in {"idle", "load"}
    BY <1>0, <1>7 DEF Report, Crash, Rest, Fetch, Goto, WorkType
  <2>2. QED
    BY <2>1
<1>8. ASSUME NEW w \in Workers, w # v,
             Attempt(w) \/ Crash(w) \/ \E i \in Imports : Fetch(w, i)
      PROVE  UNCHANGED <<pc[v], failure[v], target[v]>>
  BY <1>0, <1>8
  DEF Attempt, Load, Meta, Page, Verify, CallFails, Save, Note, Report, Crash, Fetch, Rest,
      Disconnected, NextPage, Succeed, Fail, Goto, WorkType
<1>9. QED
  BY <1>1, <1>3, <1>4, <1>5, <1>6, <1>7, <1>8
  DEF Next, Attempt, EnqueueDecide, EnqueueLock, Disconnect, Expire, Rescue, Edit, vars, workVars

\* A job becomes completed only when its attempt reports success.
LEMMA CompletedStep ==
    BaseInv /\ OutcomeInv /\ CompletedHasSnapshot /\ [Next]_vars => CompletedHasSnapshot'
<1> SUFFICES ASSUME BaseInv, OutcomeInv, CompletedHasSnapshot, [Next]_vars,
                    NEW i \in rows', job'[i].state = "completed"
             PROVE  i \in published'
  BY DEF CompletedHasSnapshot
<1>0. RowsType /\ RowsType' /\ WorkType
  BY RowsStep DEF BaseInv, TypeOK
<1>1. i \in Imports
  BY <1>0 DEF RowsType
<1>2. CASE job[i].state = "completed"
  BY <1>1, <1>2, ServedStays DEF CompletedHasSnapshot
<1>3. CASE job[i].state # "completed"
  <2>1. ASSUME NEW c \in Clients, EnqueueDecide(c) PROVE job'[i].state # "completed"
    BY <1>0, <1>1, <1>3, <2>1 DEF EnqueueDecide, InsertedJob, RowsType
  <2>2. ASSUME NEW w \in Workers, NEW k \in Imports, Fetch(w, k) PROVE job'[i].state # "completed"
    BY <1>0, <1>1, <1>3, <2>2 DEF Fetch, DeliveredJob, RowsType
  <2>3. ASSUME NEW k \in Imports, Rescue(k) PROVE job'[i].state # "completed"
    BY <1>0, <1>1, <1>3, <2>3 DEF Rescue, RescuedJob, AfterFailure, RowsType
  <2>4. ASSUME NEW w \in Workers, Report(w) PROVE i \in published'
    <3>1. target[w] = i /\ job[i].state = "running"
          /\ job'[i] = Outcome(job[i], WorkReturns(failure[w]), attempt[w], MaxAttempts)
      BY <1>0, <1>1, <1>3, <2>4 DEF Report, SettledJob, RowsType
    <3>2. WorkReturns(failure[w]) = "ok"
      <4>1. WorkReturns(failure[w]) \in Results
        BY <1>0, ReturnsType DEF WorkType
      <4>2. QED
        BY <3>1, <4>1 DEF Outcome, AfterFailure, Results
    <3>3. failure[w] = ""
      BY <1>0, <3>2 DEF WorkReturns, WorkType, Codes, Permanent
    <3>4. i \in published \/ i \notin rows
      BY <2>4, <3>1, <3>3 DEF Report, OutcomeInv
    <3>5. QED
      BY <1>1, <3>1, <3>4, ServedStays
  <2>5. \/ UNCHANGED job
        \/ \E c \in Clients : EnqueueDecide(c)
        \/ \E w \in Workers : Report(w) \/ \E k \in Imports : Fetch(w, k)
        \/ \E k \in Imports : Rescue(k)
    BY DEF Next, EnqueueLock, Disconnect, Expire, Attempt, Load, Meta, Page, Verify,
           CallFails, Save, Note, Crash, Edit, vars
  <2>6. QED
    BY <1>3, <2>1, <2>2, <2>3, <2>4, <2>5
<1>4. QED
  BY <1>2, <1>3

\* A job that River counts as completed has a snapshot for as long as its
\* session lasts, lost commit replies, crashes and double deliveries included.
THEOREM CompletedMeansPublished == Spec => []CompletedHasSnapshot
<1>1. Init => OutcomeInv /\ CompletedHasSnapshot
  BY DEF Init, OutcomeInv, CompletedHasSnapshot
<1>2. QED
  BY <1>1, BaseInvariant, OutcomeStep, CompletedStep, PTL DEF Spec

----------------------------------------------------------------------------
(* How many imports are active.                                            *)

\* The active imports only shrink, but for the one a request inserts while it
\* holds the connection's row.
LEMMA ActiveStep ==
    ASSUME BaseInv, ActiveInv, [Next]_vars
    PROVE  \/ ActiveImports' \subseteq ActiveImports
           \/ \E c \in Clients, i \in Imports :
                 /\ EnqueueDecide(c) /\ Existing(c) = {} /\ ~Refused(c)
                 /\ job[i] = AbsentJob
                 /\ playlist' = [playlist EXCEPT ![i] = asked[c].playlist]
                 /\ ActiveImports' \subseteq ActiveImports \cup {i}
<1>0. RowsType /\ RowsType'
  BY RowsStep DEF BaseInv, TypeOK
<1>1. ASSUME NEW c \in Clients, EnqueueDecide(c), ~UNCHANGED <<rows, job>>
      PROVE  \E i \in Imports :
                 /\ EnqueueDecide(c) /\ Existing(c) = {} /\ ~Refused(c)
                 /\ job[i] = AbsentJob
                 /\ playlist' = [playlist EXCEPT ![i] = asked[c].playlist]
                 /\ ActiveImports' \subseteq ActiveImports \cup {i}
  <2>1. PICK i \in Imports :
           /\ job[i] = AbsentJob
           /\ rows' = rows \cup {i}
           /\ playlist' = [playlist EXCEPT ![i] = asked[c].playlist]
           /\ job' = [job EXCEPT ![i] = InsertedJob]
    BY <1>1 DEF EnqueueDecide, rowVars
  <2>2. ActiveImports' \subseteq ActiveImports \cup {i}
    BY <1>0, <2>1 DEF ActiveImports, RowsType
  <2>3. QED
    BY <1>1, <2>1, <2>2 DEF EnqueueDecide, rowVars
<1>2. CASE rows' \subseteq rows
  <2>1. ASSUME NEW i \in rows, job'[i].state \in Active PROVE job[i].state \in Active
    <3>1. i \in Imports /\ job[i].state # "absent"
      BY <1>0 DEF RowsType, BaseInv, RowInv
    <3>2. QED
      BY <2>1, <3>1, JobStep
  <2>2. QED
    BY <1>2, <2>1 DEF ActiveImports
<1>3. rows' \subseteq rows \/ \E c \in Clients : EnqueueDecide(c)
  BY DEF Next, EnqueueLock, Disconnect, Expire, Attempt, Load, Meta, Page, Verify,
         CallFails, Save, Note, Crash, Edit, Report, Fetch, Rescue, vars, rowVars
<1>4. QED
  BY <1>1, <1>2, <1>3

\* What a request saw under the lock covers the active imports until it decides.
LEMMA ActiveInvStep == BaseInv /\ ActiveInv /\ [Next]_vars => ActiveInv'
<1> SUFFICES ASSUME BaseInv, ActiveInv, [Next]_vars PROVE ActiveInv'
  OBVIOUS
<1>0. ApiType /\ LockInv
  BY DEF BaseInv, TypeOK
<1>1. IsFiniteSet(ActiveImports)
  BY DEF ActiveInv
<1>2. IsFiniteSet(ActiveImports')
  <2>1. CASE ActiveImports' \subseteq ActiveImports
    BY <1>1, <2>1, FS_Subset
  <2>2. ASSUME NEW i \in Imports, ActiveImports' \subseteq ActiveImports \cup {i}
        PROVE  IsFiniteSet(ActiveImports')
    <3>1. IsFiniteSet(ActiveImports \cup {i})
      BY <1>1, FS_AddElement
    <3>2. QED
      BY <2>2, <3>1, FS_Subset
  <2>3. QED
    BY <2>1, <2>2, ActiveStep
<1>3. ASSUME NEW c \in Clients, asked'[c] # Idle
      PROVE  ActiveImports' \subseteq asked'[c].active /\ IsFiniteSet(asked'[c].active)
  <2>1. CASE \E d \in Clients : EnqueueDecide(d)
    BY <1>0, <1>3, <2>1 DEF EnqueueDecide, EnqueueDone, LockInv, ApiType
  <2>2. CASE ~\E d \in Clients : EnqueueDecide(d)
    <3>1. ActiveImports' \subseteq ActiveImports
      BY <2>2, ActiveStep
    <3>2. CASE asked'[c] = asked[c]
      BY <1>3, <3>1, <3>2 DEF ActiveInv
    <3>3. CASE \E p \in Playlists : EnqueueLock(c, p)
      <4>1. asked'[c].active = ActiveImports
        BY <1>0, <3>3 DEF EnqueueLock, ApiType
      <4>2. QED
        BY <1>1, <3>1, <4>1
    <3>4. ASSUME NEW d \in Clients, NEW p \in Playlists, d # c, EnqueueLock(d, p)
          PROVE  asked'[c] = asked[c]
      BY <1>0, <3>4 DEF EnqueueLock, ApiType
    <3>5. QED
      BY <2>2, <3>2, <3>3, <3>4
      DEF Next, Disconnect, Expire, Attempt, Load, Meta, Page, Verify, CallFails, Save, Note,
          Report, Crash, Fetch, Rescue, Edit, vars, apiVars
  <2>3. QED
    BY <2>1, <2>2
<1>4. QED
  BY <1>2, <1>3 DEF ActiveInv

\* In every reachable state the request that holds the row knows all the active
\* imports.
LEMMA ActiveInvariant == Spec => [](BaseInv /\ ActiveInv)
<1>1. Init => ActiveInv
  <2> SUFFICES ASSUME Init PROVE ActiveInv
    OBVIOUS
  <2>1. ActiveImports = {}
    BY DEF Init, ActiveImports
  <2>2. \A c \in Clients : asked[c] = Idle
    BY DEF Init
  <2>3. QED
    BY <2>1, <2>2, FS_EmptySet DEF ActiveInv
<1>2. QED
  BY <1>1, BaseInvariant, ActiveInvStep, PTL DEF Spec

\* Whatever requests race, a playlist has at most one active import: the check
\* and the insert are under one row lock.
THEOREM AtMostOneActive == Spec => []OneActivePerPlaylist
<1>1. Init => OneActivePerPlaylist
  BY DEF Init, ActiveImports, OneActivePerPlaylist
<1>2. ASSUME BaseInv, ActiveInv, OneActivePerPlaylist, [Next]_vars
      PROVE  OneActivePerPlaylist'
  <2>0. RowsType /\ RowInv
    BY <1>2 DEF BaseInv, TypeOK
  <2>1. \A i \in ActiveImports : i \in Imports /\ job[i].state # "absent" /\ playlist'[i] = playlist[i]
    BY <1>2, <2>0, JobStep DEF ActiveImports, RowsType, RowInv
  <2>2. CASE ActiveImports' \subseteq ActiveImports
    BY <1>2, <2>1, <2>2 DEF OneActivePerPlaylist
  <2>3. ASSUME NEW c \in Clients, NEW k \in Imports,
               EnqueueDecide(c), Existing(c) = {}, job[k] = AbsentJob,
               playlist' = [playlist EXCEPT ![k] = asked[c].playlist],
               ActiveImports' \subseteq ActiveImports \cup {k}
        PROVE  OneActivePerPlaylist'
    <3>1. ActiveImports \subseteq asked[c].active
      BY <1>2, <2>3 DEF EnqueueDecide, ActiveInv
    <3>2. \A i \in ActiveImports : playlist[i] # asked[c].playlist
      BY <2>3, <3>1 DEF Existing
    <3>3. playlist'[k] = asked[c].playlist
      BY <2>0, <2>3 DEF RowsType
    <3>4. QED
      BY <1>2, <2>1, <2>3, <3>2, <3>3 DEF OneActivePerPlaylist
  <2>4. QED
    BY <1>2, <2>2, <2>3, ActiveStep
<1>3. QED
  BY <1>1, <1>2, ActiveInvariant, PTL DEF Spec

\* Whatever requests race, a session never has more active imports than the
\* limit, whatever that is.
THEOREM ActiveWithinLimit == Spec => []ActiveBounded
<1>1. Init => ActiveBounded
  <2> SUFFICES ASSUME Init PROVE ActiveBounded
    OBVIOUS
  <2>1. ActiveImports = {}
    BY DEF Init, ActiveImports
  <2>2. maxActive \in Nat
    BY LimitsAssumption DEF Init
  <2>3. QED
    BY <2>1, <2>2, FS_EmptySet DEF ActiveBounded
<1>2. ASSUME BaseInv, ActiveInv, ActiveBounded, [Next]_vars
      PROVE  ActiveBounded'
  <2>0. maxActive \in Nat /\ maxActive' = maxActive
    BY <1>2, LimitStays, LimitsAssumption DEF BaseInv, TypeOK, ApiType
  <2>1. IsFiniteSet(ActiveImports) /\ Cardinality(ActiveImports) \in Nat
    BY <1>2, FS_CardinalityType DEF ActiveInv
  <2>2. IsFiniteSet(ActiveImports') /\ Cardinality(ActiveImports') \in Nat
    BY <1>2, ActiveInvStep, FS_CardinalityType DEF ActiveInv
  <2>3. CASE ActiveImports' \subseteq ActiveImports
    <3>1. Cardinality(ActiveImports') <= Cardinality(ActiveImports)
      BY <2>1, <2>3, FS_Subset
    <3>2. QED
      BY <1>2, <2>0, <2>1, <2>2, <3>1 DEF ActiveBounded
  <2>4. ASSUME NEW c \in Clients, NEW i \in Imports,
               EnqueueDecide(c), ~Refused(c), ActiveImports' \subseteq ActiveImports \cup {i}
        PROVE  ActiveBounded'
    <3>1. ActiveImports \subseteq asked[c].active /\ IsFiniteSet(asked[c].active)
      BY <1>2, <2>4 DEF EnqueueDecide, ActiveInv
    <3>2. Cardinality(asked[c].active) \in Nat /\ Cardinality(ActiveImports) <= Cardinality(asked[c].active)
      BY <3>1, FS_Subset, FS_CardinalityType
    <3>3. Cardinality(asked[c].active) < maxActive
      BY <2>0, <2>4, <3>2 DEF Refused
    <3>4. /\ IsFiniteSet(ActiveImports \cup {i})
          /\ Cardinality(ActiveImports \cup {i}) <= Cardinality(ActiveImports) + 1
      <4>1. /\ IsFiniteSet(ActiveImports \cup {i})
            /\ \/ Cardinality(ActiveImports \cup {i}) = Cardinality(ActiveImports)
               \/ Cardinality(ActiveImports \cup {i}) = Cardinality(ActiveImports) + 1
        BY <2>1, FS_AddElement, Zenon
      <4>2. QED
        BY <2>1, <4>1
    <3>5. Cardinality(ActiveImports') <= Cardinality(ActiveImports \cup {i})
      BY <2>4, <3>4, FS_Subset
    <3>6. Cardinality(ActiveImports \cup {i}) \in Nat
      BY <3>4, FS_CardinalityType
    <3>7. QED
      BY <2>0, <2>1, <2>2, <3>2, <3>3, <3>4, <3>5, <3>6 DEF ActiveBounded
  <2>5. QED
    BY <1>2, <2>3, <2>4, ActiveStep
<1>3. QED
  BY <1>1, <1>2, ActiveInvariant, PTL DEF Spec
=============================================================================
