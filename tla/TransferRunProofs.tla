------------------------- MODULE TransferRunProofs -------------------------
(***************************************************************************)
(* Proofs about TransferRun, for every number of workers, tracks, previews *)
(* and attempts.                                                           *)
(*                                                                         *)
(* The first part assumes nothing of the provider: late writes and         *)
(* withdrawn tracks included, the attempts stay serialized by the row      *)
(* locks and a completed run is left alone.                                *)
(***************************************************************************)
EXTENDS TransferRun, TLAPS

\* The row locks are held by exactly the worker inside runOnce's body.
LockInv == \A w \in Workers : pc[w] \in Locked <=> lock = w

\* What an attempt's local variables satisfy while it uses them.
LocalInv ==
    \A w \in Workers :
        /\ pc[w] # "idle" => attempt[w] > 0
        /\ pc[w] \in {"read", "add", "finish"} => dest[w] # NoPlaylist
        /\ pc[w] \in {"read", "add"} => next[w] < Len(plan[w])

SerialInv == TypeOK /\ LockInv /\ LocalInv /\ CompletedQuiet

\* The initial states satisfy the invariant of the locks.
LEMMA InitSerial == Init => SerialInv
<1> SUFFICES ASSUME Init PROVE SerialInv
  OBVIOUS
<1>1. StoreType
  BY PreviewsAssumption DEF Init, StoreType, RunStates, JobStates, AbsentJob
<1>2. AttemptType
  BY DEF Init, AttemptType, PCs, Results
<1>3. RemoteType
  BY BoundsAssumption DEF Init, RemoteType, Budgets
<1>4. LockInv /\ LocalInv /\ CompletedQuiet
  BY WorkersAssumption DEF Init, LockInv, LocalInv, CompletedQuiet, Locked, Operations
<1>5. QED
  BY <1>1, <1>2, <1>3, <1>4 DEF SerialInv, TypeOK

\* The database rows keep their types.
LEMMA StoreStep == SerialInv /\ [Next]_vars => StoreType'
<1> SUFFICES ASSUME SerialInv, [Next]_vars PROVE StoreType'
  OBVIOUS
<1> USE DEF SerialInv, TypeOK, StoreType
<1>1. CASE EnqueueRun
  BY <1>1 DEF EnqueueRun, RunStates, JobStates, InsertedJob
<1>2. CASE SavePreview
  BY <1>2 DEF SavePreview
<1>3. ASSUME NEW w \in Workers, Fetch(w) PROVE StoreType'
  BY <1>3 DEF Fetch, JobStates, DeliveredJob
<1>4. ASSUME NEW w \in Workers, Load(w) PROVE StoreType'
  BY <1>4 DEF Load, FailRun, Return, Release, RunStates
<1>5. ASSUME NEW w \in Workers, LoadFails(w) \/ CallFails(w) \/ RateLimited(w) PROVE StoreType'
  BY <1>5 DEF LoadFails, CallFails, RateLimited, Return, Release
<1>6. ASSUME NEW w \in Workers, Unsupported(w) PROVE StoreType'
  BY <1>6 DEF Unsupported, FailRun, Return, Release, RunStates, AttemptType
<1>7. ASSUME NEW w \in Workers, Find(w) PROVE StoreType'
  BY <1>7 DEF Find, store
<1>8. ASSUME NEW w \in Workers, Create(w) PROVE StoreType'
  BY <1>8 DEF Create, Return, Release
<1>9. ASSUME NEW w \in Workers, Read(w) PROVE StoreType'
  BY <1>9 DEF Read, Return, Release
<1>10. ASSUME NEW w \in Workers, Add(w) PROVE StoreType'
  BY <1>10 DEF Add, Return, Release
<1>11. ASSUME NEW w \in Workers, Finish(w) PROVE StoreType'
  BY <1>11 DEF Finish, Return, Release, RunStates, AttemptType
<1>12. ASSUME NEW w \in Workers, Report(w) PROVE StoreType'
  <2>1. result[w] \in {"ok", "error", "snooze", "cancel"} /\ attempt[w] \in Nat \ {0}
    <3>1. pc[w] = "report"
      BY <1>12 DEF Report
    <3>2. result[w] \in Results /\ attempt[w] \in Nat
      BY DEF AttemptType
    <3>3. QED
      BY <3>1, <3>2 DEF LocalInv, Results
  <2>2. Outcome(job, result[w], attempt[w], MaxAttempts) \in [state : JobStates, attempt : Nat]
    <3>1. CASE result[w] = "snooze"
      BY <2>1, <3>1 DEF Outcome, JobStates
    <3>2. CASE result[w] = "error"
      BY <2>1, <3>2 DEF Outcome, AfterFailure, JobStates
    <3>3. CASE result[w] = "ok"
      BY <3>3 DEF Outcome, JobStates
    <3>4. CASE result[w] = "cancel"
      BY <3>4 DEF Outcome, JobStates
    <3>5. QED
      BY <2>1, <3>1, <3>2, <3>3, <3>4
  <2>3. QED
    BY <1>12, <2>2 DEF Report, SettledJob
<1>13. ASSUME NEW w \in Workers, Crash(w) PROVE StoreType'
  BY <1>13 DEF Crash, Release
<1>14. CASE Rescue
  BY <1>14 DEF Rescue, RescuedJob, AfterFailure, JobStates
<1>15. CASE LateArrives
  BY <1>15 DEF LateArrives, store
<1>16. CASE Withdraw
  BY <1>16 DEF Withdraw, store
<1>17. CASE UNCHANGED vars
  BY <1>17 DEF vars, store
<1>18. QED
  BY <1>1, <1>2, <1>3, <1>4, <1>5, <1>6, <1>7, <1>8, <1>9, <1>10, <1>11, <1>12, <1>13,
     <1>14, <1>15, <1>16, <1>17 DEF Next, Attempt

\* Leaving runOnce keeps the attempts' types.
LEMMA ReturnType ==
    ASSUME AttemptType, NEW w \in Workers, NEW r \in Results, Return(w, r), attempt' = attempt
    PROVE  AttemptType'
  BY DEF AttemptType, Return, Release, Goto, PCs

\* So does moving on to the next position.
LEMMA ContinueType ==
    ASSUME AttemptType, NEW w \in Workers, NEW list, NEW n, Continue(w, list, n)
    PROVE  pc' \in [Workers -> PCs]
  BY DEF AttemptType, Continue, Goto, PCs, Locked, Operations

\* The attempts' local state keeps its types.
LEMMA AttemptStep == SerialInv /\ [Next]_vars => AttemptType'
<1> SUFFICES ASSUME SerialInv, [Next]_vars PROVE AttemptType'
  OBVIOUS
<1>0. AttemptType /\ StoreType /\ RemoteType
  BY DEF SerialInv, TypeOK
<1>r. {"ok", "error", "snooze", "cancel"} = Results
  BY DEF Results
<1>l. {"find", "create", "add", "load", "idle"} \subseteq PCs
  BY DEF PCs, Locked, Operations
<1>1. CASE EnqueueRun \/ SavePreview
  BY <1>0, <1>1 DEF EnqueueRun, SavePreview, local, AttemptType
<1>2. ASSUME NEW w \in Workers, Fetch(w) PROVE AttemptType'
  BY <1>0, <1>2, <1>l DEF Fetch, Goto, local, StoreType, AttemptType
<1>3. ASSUME NEW w \in Workers, Load(w) PROVE AttemptType'
  <2>1. CASE Return(w, "ok") /\ UNCHANGED attempt
    BY <1>0, <1>r, <2>1, ReturnType
  <2>2. CASE FailRun(w, run.dest, run.next)
    BY <1>0, <1>r, <2>2, ReturnType DEF FailRun
  <2>3. CASE /\ plan' = [plan EXCEPT ![w] = preview]
             /\ dest' = [dest EXCEPT ![w] = run.dest]
             /\ next' = [next EXCEPT ![w] = run.next]
             /\ IF run.dest = NoPlaylist THEN Goto(w, "find")
                                         ELSE Continue(w, preview, run.next)
             /\ UNCHANGED <<attempt, result>>
    <3>1. pc' \in [Workers -> PCs]
      <4>1. CASE Goto(w, "find")
        BY <1>0, <1>l, <4>1 DEF Goto, AttemptType
      <4>2. CASE Continue(w, preview, run.next)
        BY <1>0, <4>2, ContinueType
      <4>3. QED
        BY <2>3, <4>1, <4>2
    <3>2. preview \in Seq(Tracks) /\ run.dest \in PlaylistIds \cup {NoPlaylist} /\ run.next \in Nat
      BY <1>0, PreviewsAssumption DEF StoreType
    <3>3. QED
      BY <1>0, <2>3, <3>1, <3>2 DEF AttemptType
  <2>4. QED
    BY <1>3, <2>1, <2>2, <2>3 DEF Load
<1>4. ASSUME NEW w \in Workers, LoadFails(w) \/ CallFails(w) \/ RateLimited(w) PROVE AttemptType'
  BY <1>0, <1>r, <1>4, ReturnType DEF LoadFails, CallFails, RateLimited
<1>5. ASSUME NEW w \in Workers, Unsupported(w) PROVE AttemptType'
  BY <1>0, <1>r, <1>5, ReturnType DEF Unsupported, FailRun
<1>6. ASSUME NEW w \in Workers, Find(w) PROVE AttemptType'
  <2>1. CASE Goto(w, "create") /\ UNCHANGED dest
    BY <1>0, <1>l, <1>6, <2>1 DEF Find, Goto, AttemptType
  <2>2. CASE \E p \in Listed : /\ dest' = [dest EXCEPT ![w] = p]
                               /\ Continue(w, plan[w], next[w])
    <3>1. pc' \in [Workers -> PCs]
      BY <1>0, <2>2, ContinueType
    <3>2. QED
      BY <1>0, <1>6, <2>2, <3>1 DEF Find, Listed, AttemptType, RemoteType
  <2>3. QED
    BY <1>6, <2>1, <2>2 DEF Find
<1>7. ASSUME NEW w \in Workers, Create(w) PROVE AttemptType'
  <2>1. CASE Return(w, "error")
    BY <1>0, <1>r, <1>7, <2>1, ReturnType DEF Create
  <2>2. CASE \E p \in FreshIds : /\ dest' = [dest EXCEPT ![w] = p]
                                 /\ Continue(w, plan[w], next[w])
                                 /\ UNCHANGED <<plan, next, result>>
    <3>1. pc' \in [Workers -> PCs]
      BY <1>0, <2>2, ContinueType
    <3>2. QED
      BY <1>0, <1>7, <2>2, <3>1 DEF Create, FreshIds, AttemptType
  <2>3. QED
    BY <1>7, <2>1, <2>2 DEF Create
<1>8. ASSUME NEW w \in Workers, Read(w) PROVE AttemptType'
  <2>1. CASE Return(w, "error")
    BY <1>0, <1>r, <1>8, <2>1, ReturnType DEF Read
  <2>2. CASE Goto(w, "add") /\ UNCHANGED <<local, result>>
    BY <1>0, <1>l, <1>8, <2>2 DEF Read, Goto, AttemptType, local
  <2>3. CASE /\ next' = [next EXCEPT ![w] = @ + 1]
             /\ Continue(w, plan[w], next[w] + 1)
             /\ UNCHANGED <<plan, dest, result>>
    <3>1. pc' \in [Workers -> PCs]
      BY <1>0, <2>3, ContinueType
    <3>2. attempt' = attempt
      BY <1>8 DEF Read
    <3>3. next' \in [Workers -> Nat]
      <4>1. next \in [Workers -> Nat] /\ next[w] + 1 \in Nat
        BY <1>0 DEF AttemptType
      <4>2. QED
        BY <2>3, <4>1
    <3>4. UNCHANGED <<plan, dest, result>>
      BY <2>3
    <3>5. QED
      BY <1>0, <3>1, <3>2, <3>3, <3>4 DEF AttemptType
  <2>4. QED
    BY <1>8, <2>1, <2>2, <2>3 DEF Read
<1>9. ASSUME NEW w \in Workers, Add(w) PROVE AttemptType'
  <2>1. CASE Return(w, "error")
    BY <1>0, <1>r, <1>9, <2>1, ReturnType DEF Add
  <2>2. CASE /\ next' = [next EXCEPT ![w] = @ + 1]
             /\ Continue(w, plan[w], next[w] + 1)
             /\ UNCHANGED <<plan, dest, result>>
    <3>1. pc' \in [Workers -> PCs]
      BY <1>0, <2>2, ContinueType
    <3>2. attempt' = attempt
      BY <1>9 DEF Add
    <3>3. next' \in [Workers -> Nat]
      <4>1. next \in [Workers -> Nat] /\ next[w] + 1 \in Nat
        BY <1>0 DEF AttemptType
      <4>2. QED
        BY <2>2, <4>1
    <3>4. UNCHANGED <<plan, dest, result>>
      BY <2>2
    <3>5. QED
      BY <1>0, <3>1, <3>2, <3>3, <3>4 DEF AttemptType
  <2>3. QED
    BY <1>9, <2>1, <2>2 DEF Add
<1>10. ASSUME NEW w \in Workers, Finish(w) PROVE AttemptType'
  BY <1>0, <1>r, <1>10, ReturnType DEF Finish
<1>11. ASSUME NEW w \in Workers, Report(w) PROVE AttemptType'
  BY <1>0, <1>r, <1>l, <1>11 DEF Report, Goto, local, AttemptType
<1>12. ASSUME NEW w \in Workers, Crash(w) PROVE AttemptType'
  BY <1>0, <1>r, <1>l, <1>12 DEF Crash, Release, Goto, AttemptType
<1>13. CASE Rescue \/ LateArrives \/ Withdraw
  BY <1>0, <1>13 DEF Rescue, LateArrives, Withdraw, local, AttemptType
<1>14. CASE UNCHANGED vars
  BY <1>0, <1>14 DEF vars, local, AttemptType
<1>15. QED
  BY <1>1, <1>2, <1>3, <1>4, <1>5, <1>6, <1>7, <1>8, <1>9, <1>10, <1>11, <1>12, <1>13,
     <1>14 DEF Next, Attempt

\* Spending what is left of a bound keeps its type.
LEMMA SpendType ==
    ASSUME RemoteType, NEW kind \in {"errors", "rateLimits", "late", "withdrawn"}, Spend(kind)
    PROVE  budget' \in Budgets
  BY BoundsAssumption DEF RemoteType, Budgets, Spend

\* So does appending a track to a playlist.
LEMMA AppendedType ==
    ASSUME RemoteType, NEW p \in PlaylistIds, NEW t \in Tracks
    PROVE  [items EXCEPT ![p] = Append(@, t)] \in [PlaylistIds -> Seq(Tracks \cup {Unavailable})]
<1>1. Append(items[p], t) \in Seq(Tracks \cup {Unavailable})
  BY DEF RemoteType
<1>2. QED
  BY <1>1 DEF RemoteType

\* The provider's library, the late writes and the bounds keep their types.
LEMMA RemoteStep == SerialInv /\ [Next]_vars => RemoteType'
<1> SUFFICES ASSUME SerialInv, [Next]_vars PROVE RemoteType'
  OBVIOUS
<1>0. RemoteType
  BY DEF SerialInv, TypeOK
<1>1. CASE EnqueueRun \/ SavePreview
  BY <1>0, <1>1 DEF EnqueueRun, SavePreview, remote, RemoteType
<1>2. ASSUME NEW w \in Workers, Fetch(w) \/ Report(w) \/ Find(w) \/ Read(w) PROVE RemoteType'
  <2>1. UNCHANGED <<remote, budget>>
    BY <1>2 DEF Fetch, Report, Find, Read
  <2>2. QED
    BY <1>0, <2>1 DEF remote, RemoteType
<1>3. ASSUME UNCHANGED remote, budget' = budget \/ Spend("errors") \/ Spend("rateLimits")
      PROVE  RemoteType'
  <2>1. budget' \in Budgets
    BY <1>0, <1>3, SpendType DEF RemoteType
  <2>2. QED
    BY <1>0, <1>3, <2>1 DEF remote, RemoteType
<1>4. ASSUME NEW w \in Workers,
             \/ Load(w) \/ LoadFails(w) \/ CallFails(w) \/ RateLimited(w)
             \/ Unsupported(w) \/ Finish(w) \/ Crash(w)
      PROVE  RemoteType'
  <2>1. CASE Load(w)
    BY <1>3, <2>1 DEF Load, FailRun
  <2>2. CASE Unsupported(w)
    BY <1>3, <2>2 DEF Unsupported, FailRun
  <2>3. CASE LoadFails(w) \/ CallFails(w) \/ RateLimited(w) \/ Finish(w) \/ Crash(w)
    BY <1>3, <2>3 DEF LoadFails, CallFails, RateLimited, Finish, Crash
  <2>4. QED
    BY <1>4, <2>1, <2>2, <2>3
<1>5. CASE Rescue
  BY <1>3, <1>5 DEF Rescue
<1>6. ASSUME NEW w \in Workers, Create(w) PROVE RemoteType'
  <2>1. budget' \in Budgets
    BY <1>0, <1>6, SpendType DEF Create, RemoteType
  <2>2. lib' \subseteq PlaylistIds
    BY <1>0, <1>6 DEF Create, FreshIds, remote, RemoteType
  <2>3. items' = items
    BY <1>6 DEF Create, remote
  <2>4. late' \subseteq Requests
    <3>1. CASE late' = late
      BY <1>0, <3>1 DEF RemoteType
    <3>2. CASE /\ budget.late > 0
               /\ \E p \in FreshIds :
                    late' = late \cup {[id |-> budget.late, op |-> "create", playlist |-> p]}
      BY <1>0, <3>2, BoundsAssumption DEF RemoteType, FreshIds, Requests, Budgets
    <3>3. QED
      BY <1>6, <3>1, <3>2 DEF Create, Spend, remote
  <2>5. QED
    BY <1>0, <2>1, <2>2, <2>3, <2>4 DEF RemoteType
<1>7. ASSUME NEW w \in Workers, Add(w) PROVE RemoteType'
  <2>1. dest[w] \in PlaylistIds /\ plan[w][next[w] + 1] \in Tracks
    BY <1>7 DEF Add, SerialInv, TypeOK, LocalInv, AttemptType
  <2>2. budget' \in Budgets
    BY <1>0, <1>7, SpendType DEF Add, RemoteType
  <2>3. lib' = lib
    BY <1>7 DEF Add
  <2>4. items' \in [PlaylistIds -> Seq(Tracks \cup {Unavailable})]
    <3>1. \/ items' = items
          \/ items' = [items EXCEPT ![dest[w]] = Append(@, plan[w][next[w] + 1])]
      BY <1>7 DEF Add
    <3>2. [items EXCEPT ![dest[w]] = Append(@, plan[w][next[w] + 1])]
            \in [PlaylistIds -> Seq(Tracks \cup {Unavailable})]
      BY <1>0, <2>1, AppendedType
    <3>3. QED
      BY <1>0, <3>1, <3>2 DEF RemoteType
  <2>5. late' \subseteq Requests
    <3>1. CASE late' = late
      BY <1>0, <3>1 DEF RemoteType
    <3>2. CASE /\ budget.late > 0
               /\ late' = late \cup {[id |-> budget.late, op |-> "add", playlist |-> dest[w],
                                      track |-> plan[w][next[w] + 1]]}
      BY <1>0, <2>1, <3>2, BoundsAssumption DEF RemoteType, Requests, Budgets
    <3>3. QED
      BY <1>7, <3>1, <3>2 DEF Add, Spend
  <2>6. QED
    BY <1>0, <2>2, <2>3, <2>4, <2>5 DEF RemoteType
<1>8. CASE LateArrives
  <2>1. PICK r \in late : LateArrives!1!(r)
    BY <1>8 DEF LateArrives
  <2>2. budget' = budget
    BY <1>8 DEF LateArrives
  <2>3. r \in Requests
    BY <1>0 DEF RemoteType
  <2>4. CASE r.op = "create"
    BY <1>0, <2>1, <2>2, <2>3, <2>4 DEF RemoteType, Requests
  <2>5. CASE r.op # "create"
    <3>1. r.playlist \in PlaylistIds /\ r.track \in Tracks
      BY <2>3, <2>5 DEF Requests
    <3>2. items' \in [PlaylistIds -> Seq(Tracks \cup {Unavailable})]
      <4>1. items' = [items EXCEPT ![r.playlist] = Append(@, r.track)]
        BY <2>1, <2>5
      <4>2. QED
        BY <1>0, <3>1, <4>1, AppendedType
    <3>3. lib' = lib /\ late' \subseteq Requests
      BY <1>0, <2>1, <2>5 DEF RemoteType
    <3>4. QED
      BY <1>0, <2>2, <3>2, <3>3 DEF RemoteType
  <2>6. QED
    BY <2>4, <2>5
<1>9. CASE Withdraw
  <2>1. budget' \in Budgets
    BY <1>0, <1>9, SpendType DEF Withdraw
  <2>2. items' \in [PlaylistIds -> Seq(Tracks \cup {Unavailable})]
    BY <1>0, <1>9 DEF Withdraw, RemoteType
  <2>3. UNCHANGED <<lib, late>>
    BY <1>9 DEF Withdraw
  <2>4. QED
    BY <1>0, <2>1, <2>2, <2>3 DEF RemoteType
<1>10. CASE UNCHANGED vars
  BY <1>0, <1>10 DEF vars, remote, RemoteType
<1>11. QED
  BY <1>1, <1>2, <1>4, <1>5, <1>6, <1>7, <1>8, <1>9, <1>10 DEF Next, Attempt

----------------------------------------------------------------------------

\* Leaving runOnce frees the rows of the worker that leaves, and only those.
LEMMA ReturnLock ==
    ASSUME AttemptType, LockInv, NEW w \in Workers, NEW r, Return(w, r)
    PROVE  LockInv' /\ pc' = [pc EXCEPT ![w] = "report"]
  BY WorkersAssumption DEF AttemptType, LockInv, Return, Release, Goto, Locked, Operations

\* An attempt that goes on keeps its rows.
LEMMA MoveLock ==
    ASSUME AttemptType, LockInv, NEW w \in Workers, NEW label \in Locked, Goto(w, label),
           pc[w] \in Locked, lock' = lock
    PROVE  LockInv'
  BY DEF AttemptType, LockInv, Goto

\* Moving to the next position stays inside the body of runOnce.
LEMMA ContinueLabel ==
    ASSUME NEW w \in Workers, NEW list, NEW n, Continue(w, list, n)
    PROVE  \E label \in Locked : Goto(w, label)
  BY DEF Continue, Locked, Operations

\* Whoever is inside the body of runOnce holds the rows, and keeps them.
LEMMA LockStep == SerialInv /\ [Next]_vars => LockInv'
<1> SUFFICES ASSUME SerialInv, [Next]_vars PROVE LockInv'
  OBVIOUS
<1>0. AttemptType /\ StoreType /\ LockInv
  BY DEF SerialInv, TypeOK
<1>l. {"find", "create", "read", "add", "finish"} = Locked
  BY DEF Locked, Operations
<1>1. CASE EnqueueRun \/ SavePreview \/ Rescue
  BY <1>0, <1>1 DEF EnqueueRun, SavePreview, Rescue, LockInv
<1>2. ASSUME NEW w \in Workers, Fetch(w) PROVE LockInv'
  BY <1>0, <1>2 DEF Fetch, Goto, LockInv, AttemptType, Locked, Operations
<1>3. ASSUME NEW w \in Workers, Load(w) PROVE LockInv'
  <2>1. CASE \E r \in Results : Return(w, r)
    BY <1>0, <2>1, ReturnLock
  <2>2. CASE lock' = w /\ \E label \in Locked : Goto(w, label)
    <3>1. lock = NoWorker
      BY <1>3 DEF Load, RowsFree
    <3>2. QED
      BY <1>0, <2>2, <3>1, WorkersAssumption DEF LockInv, Goto, AttemptType
  <2>3. \A n : Continue(w, preview, n) => \E label \in Locked : Goto(w, label)
    BY ContinueLabel
  <2>4. \/ \E r \in Results : Return(w, r)
        \/ lock' = w /\ (Goto(w, "find") \/ Continue(w, preview, run.next))
    BY <1>3 DEF Load, FailRun, Results
  <2>5. QED
    BY <1>l, <2>1, <2>2, <2>3, <2>4
<1>4. ASSUME NEW w \in Workers,
             LoadFails(w) \/ CallFails(w) \/ RateLimited(w) \/ Unsupported(w) \/ Finish(w)
      PROVE  LockInv'
  <2>1. \E r \in Results : Return(w, r)
    BY <1>4 DEF LoadFails, CallFails, RateLimited, Unsupported, Finish, FailRun, Results
  <2>2. QED
    BY <1>0, <2>1, ReturnLock
<1>5. ASSUME NEW w \in Workers, Find(w) \/ Create(w) \/ Read(w) \/ Add(w) PROVE LockInv'
  <2>1. pc[w] \in Locked
    BY <1>5, <1>l DEF Find, Create, Read, Add
  <2>2. \/ Return(w, "error")
        \/ /\ lock' = lock
           /\ \/ Goto(w, "create") \/ Goto(w, "add")
              \/ Continue(w, plan[w], next[w]) \/ Continue(w, plan[w], next[w] + 1)
    <3>1. CASE Find(w)
      BY <3>1 DEF Find, store
    <3>2. CASE Create(w)
      BY <3>2 DEF Create
    <3>3. CASE Read(w)
      BY <3>3 DEF Read
    <3>4. CASE Add(w)
      BY <3>4 DEF Add
    <3>5. QED
      BY <1>5, <3>1, <3>2, <3>3, <3>4
  <2>3. CASE Return(w, "error")
    BY <1>0, <2>3, ReturnLock
  <2>4. CASE lock' = lock /\ \E label \in Locked : Goto(w, label)
    BY <1>0, <2>1, <2>4, MoveLock
  <2>5. QED
    BY <1>l, <2>2, <2>3, <2>4, ContinueLabel
<1>6. ASSUME NEW w \in Workers, Report(w) PROVE LockInv'
  BY <1>0, <1>6 DEF Report, Goto, LockInv, AttemptType, Locked, Operations
<1>7. ASSUME NEW w \in Workers, Crash(w) PROVE LockInv'
  BY <1>0, <1>7, WorkersAssumption
  DEF Crash, Release, Goto, LockInv, AttemptType, Locked, Operations
<1>8. CASE LateArrives \/ Withdraw
  BY <1>0, <1>8 DEF LateArrives, Withdraw, store, LockInv
<1>9. CASE UNCHANGED vars
  BY <1>0, <1>9 DEF vars, store, LockInv
<1>10. QED
  BY <1>1, <1>2, <1>3, <1>4, <1>5, <1>6, <1>7, <1>8, <1>9 DEF Next, Attempt

\* The step that completes the run leaves no attempt inside its body.
LEMMA QuietStep == SerialInv /\ [Next]_vars => CompletedQuiet'
<1> SUFFICES ASSUME SerialInv, [Next]_vars, run'.state = "completed",
                    NEW v \in Workers, pc'[v] \in Locked
             PROVE  FALSE
  BY DEF CompletedQuiet
<1>0. AttemptType /\ StoreType /\ LockInv /\ CompletedQuiet
  BY DEF SerialInv, TypeOK
<1>a. LockInv' /\ StoreType' /\ AttemptType'
  BY LockStep, StoreStep, AttemptStep
<1>1. ASSUME run' = run, pc'[v] = pc[v] PROVE FALSE
  BY <1>0, <1>1 DEF CompletedQuiet
<1>2. ASSUME NEW w \in Workers, NEW r, Return(w, r), v # w => run' = run PROVE FALSE
  <2>1. pc' = [pc EXCEPT ![w] = "report"]
    BY <1>2 DEF Return, Goto
  <2>2. v # w /\ pc'[v] = pc[v]
    BY <1>0, <2>1 DEF AttemptType, Locked, Operations
  <2>3. QED
    BY <1>1, <1>2, <2>2
<1>3. ASSUME NEW w \in Workers, pc[w] \in Locked, run' = run PROVE FALSE
  BY <1>0, <1>3 DEF CompletedQuiet
<1>4. CASE EnqueueRun
  BY <1>4 DEF EnqueueRun
<1>5. CASE SavePreview \/ Rescue \/ LateArrives \/ Withdraw \/ UNCHANGED vars
  BY <1>1, <1>5 DEF SavePreview, Rescue, LateArrives, Withdraw, store, vars
<1>6. ASSUME NEW w \in Workers, Fetch(w) PROVE FALSE
  <2>1. run' = run /\ pc' = [pc EXCEPT ![w] = "load"]
    BY <1>6 DEF Fetch, Goto
  <2>2. pc'[v] = pc[v]
    BY <1>0, <2>1 DEF AttemptType, Locked, Operations
  <2>3. QED
    BY <1>1, <2>1, <2>2
<1>7. ASSUME NEW w \in Workers, Load(w) PROVE FALSE
  <2>1. CASE run.state # "completed" /\ run' = run
    BY <2>1
  <2>2. CASE Return(w, "ok") /\ run' = run
    BY <1>2, <2>2
  <2>3. CASE FailRun(w, run.dest, run.next)
    <3>1. CASE run' = run
      BY <1>2, <2>3, <3>1 DEF FailRun
    <3>2. CASE run'.state = "failed"
      BY <3>2
    <3>3. QED
      BY <2>3, <3>1, <3>2 DEF FailRun
  <2>4. QED
    BY <1>7, <2>1, <2>2, <2>3 DEF Load, AlreadyCompleted
<1>8. ASSUME NEW w \in Workers, LoadFails(w) \/ CallFails(w) \/ RateLimited(w) PROVE FALSE
  BY <1>2, <1>8 DEF LoadFails, CallFails, RateLimited
<1>9. ASSUME NEW w \in Workers, Unsupported(w) PROVE FALSE
  <2>1. CASE run' = run
    BY <1>2, <1>9, <2>1 DEF Unsupported, FailRun
  <2>2. CASE run'.state = "failed"
    BY <2>2
  <2>3. QED
    BY <1>9, <2>1, <2>2 DEF Unsupported, FailRun
<1>10. ASSUME NEW w \in Workers, Find(w) \/ Create(w) \/ Read(w) \/ Add(w) PROVE FALSE
  <2>1. run' = run
    BY <1>10 DEF Find, Create, Read, Add, store
  <2>2. pc[w] \in Locked
    BY <1>10 DEF Find, Create, Read, Add, Locked, Operations
  <2>3. QED
    BY <1>3, <2>1, <2>2
<1>11. ASSUME NEW w \in Workers, Finish(w) PROVE FALSE
  <2>1. pc[w] \in Locked /\ lock = w
    BY <1>0, <1>11 DEF Finish, LockInv, Locked, Operations
  <2>2. lock' = NoWorker
    BY <1>11, <2>1 DEF Finish, Return, Release
  <2>3. QED
    BY <1>a, <2>2, WorkersAssumption DEF LockInv
<1>12. ASSUME NEW w \in Workers, Report(w) \/ Crash(w) PROVE FALSE
  <2>1. run' = run /\ pc' = [pc EXCEPT ![w] = "idle"]
    BY <1>12 DEF Report, Crash, Goto
  <2>2. pc'[v] = pc[v]
    BY <1>0, <2>1 DEF AttemptType, Locked, Operations
  <2>3. QED
    BY <1>1, <2>1, <2>2
<1>13. QED
  BY <1>4, <1>5, <1>6, <1>7, <1>8, <1>9, <1>10, <1>11, <1>12 DEF Next, Attempt

\* LocalInv for one worker.
LocalOK(w) ==
    /\ pc[w] # "idle" => attempt[w] > 0
    /\ pc[w] \in {"read", "add", "finish"} => dest[w] # NoPlaylist
    /\ pc[w] \in {"read", "add"} => next[w] < Len(plan[w])

\* The local variables of the workers that take no step are left alone.
LEMMA OthersStep ==
    ASSUME SerialInv, Next, NEW v \in Workers,
           \A w \in Workers : Fetch(w) \/ Attempt(w) \/ Crash(w) => v # w
    PROVE  /\ pc'[v] = pc[v] /\ plan'[v] = plan[v] /\ dest'[v] = dest[v]
           /\ next'[v] = next[v] /\ attempt'[v] = attempt[v]
<1>0. AttemptType
  BY DEF SerialInv, TypeOK
<1>1. CASE EnqueueRun \/ SavePreview \/ Rescue \/ LateArrives \/ Withdraw
  BY <1>1 DEF EnqueueRun, SavePreview, Rescue, LateArrives, Withdraw, local
<1>2. ASSUME NEW w \in Workers, v # w, NEW r, Return(w, r), attempt' = attempt
      PROVE  /\ pc'[v] = pc[v] /\ plan'[v] = plan[v] /\ dest'[v] = dest[v]
             /\ next'[v] = next[v] /\ attempt'[v] = attempt[v]
  BY <1>0, <1>2 DEF Return, Release, Goto, AttemptType
<1>3. ASSUME NEW w \in Workers, v # w, Fetch(w) \/ Attempt(w) \/ Crash(w)
      PROVE  /\ pc'[v] = pc[v] /\ plan'[v] = plan[v] /\ dest'[v] = dest[v]
             /\ next'[v] = next[v] /\ attempt'[v] = attempt[v]
  <2>1. CASE Fetch(w) \/ Report(w) \/ Crash(w)
    BY <1>0, <1>3, <2>1 DEF Fetch, Report, Crash, Release, Goto, local, AttemptType
  <2>2. CASE Load(w)
    <3>1. CASE \E r \in Results : Return(w, r) /\ attempt' = attempt
      BY <1>2, <1>3, <3>1
    <3>2. CASE lock' = w
      BY <1>0, <1>3, <2>2, <3>2, WorkersAssumption
      DEF Load, FailRun, Return, Release, RowsFree, Continue, Goto, AttemptType
    <3>3. QED
      BY <2>2, <3>1, <3>2 DEF Load, FailRun, Results
  <2>3. CASE LoadFails(w) \/ CallFails(w) \/ RateLimited(w) \/ Unsupported(w) \/ Finish(w)
    BY <1>2, <1>3, <2>3 DEF LoadFails, CallFails, RateLimited, Unsupported, Finish, FailRun
  <2>4. CASE Find(w)
    BY <1>0, <1>3, <2>4 DEF Find, Continue, Goto, AttemptType
  <2>5. CASE Create(w)
    <3>1. CASE Return(w, "error")
      BY <1>2, <1>3, <2>5, <3>1 DEF Create
    <3>2. CASE ~Return(w, "error")
      BY <1>0, <1>3, <2>5, <3>2 DEF Create, Continue, Goto, AttemptType
    <3>3. QED
      BY <3>1, <3>2
  <2>6. CASE Read(w)
    <3>1. CASE Return(w, "error")
      BY <1>2, <1>3, <2>6, <3>1 DEF Read
    <3>2. CASE ~Return(w, "error")
      BY <1>0, <1>3, <2>6, <3>2 DEF Read, Continue, Goto, AttemptType, local
    <3>3. QED
      BY <3>1, <3>2
  <2>7. CASE Add(w)
    <3>1. CASE Return(w, "error")
      BY <1>2, <1>3, <2>7, <3>1 DEF Add
    <3>2. CASE ~Return(w, "error")
      BY <1>0, <1>3, <2>7, <3>2 DEF Add, Continue, Goto, AttemptType
    <3>3. QED
      BY <3>1, <3>2
  <2>8. QED
    BY <1>3, <2>1, <2>2, <2>3, <2>4, <2>5, <2>6, <2>7 DEF Attempt
<1>4. QED
  BY <1>1, <1>3 DEF Next

\* An attempt about to read or add a position has a track for it.
LEMMA LocalStep == SerialInv /\ [Next]_vars => LocalInv'
<1> SUFFICES ASSUME SerialInv, [Next]_vars, NEW v \in Workers PROVE LocalOK(v)'
  BY DEF LocalInv, LocalOK
<1>0. AttemptType /\ StoreType /\ RemoteType /\ LocalOK(v)
  BY DEF SerialInv, TypeOK, LocalInv, LocalOK
<1>1. CASE UNCHANGED vars
  BY <1>0, <1>1 DEF vars, local, LocalOK
<1>2. CASE Next /\ \A w \in Workers : Fetch(w) \/ Attempt(w) \/ Crash(w) => v # w
  <2>1. /\ pc'[v] = pc[v] /\ plan'[v] = plan[v] /\ dest'[v] = dest[v]
        /\ next'[v] = next[v] /\ attempt'[v] = attempt[v]
    BY <1>2, OthersStep
  <2>2. QED
    BY <1>0, <2>1 DEF LocalOK
<1>3. ASSUME NEW r, Return(v, r), attempt' = attempt, pc[v] # "idle" PROVE LocalOK(v)'
  BY <1>0, <1>3 DEF LocalOK, Return, Goto, AttemptType
<1>4. CASE Fetch(v)
  BY <1>0, <1>4 DEF Fetch, Goto, LocalOK, AttemptType, StoreType
<1>5. CASE Report(v) \/ Crash(v)
  BY <1>0, <1>5 DEF Report, Crash, Goto, LocalOK, AttemptType
<1>6. CASE LoadFails(v) \/ CallFails(v) \/ RateLimited(v) \/ Unsupported(v) \/ Finish(v)
  <2>1. pc[v] # "idle" /\ attempt' = attempt
    BY <1>6, SupportedAssumption
    DEF LoadFails, CallFails, RateLimited, Unsupported, Finish, FailRun, Operations
  <2>2. \E r \in Results : Return(v, r)
    BY <1>6 DEF LoadFails, CallFails, RateLimited, Unsupported, Finish, FailRun, Results
  <2>3. QED
    BY <1>3, <2>1, <2>2
<1>7. ASSUME NEW list, NEW n, Continue(v, list, n), attempt' = attempt, pc[v] # "idle",
             dest'[v] # NoPlaylist, plan'[v] = list, next'[v] = n
      PROVE  LocalOK(v)'
  BY <1>0, <1>7 DEF LocalOK, Continue, Goto, AttemptType
<1>8. CASE Load(v)
  <2>1. pc[v] = "load" /\ attempt' = attempt
    BY <1>8 DEF Load, FailRun
  <2>2. CASE \E r \in Results : Return(v, r)
    BY <1>3, <2>1, <2>2
  <2>3. CASE /\ plan' = [plan EXCEPT ![v] = preview]
             /\ dest' = [dest EXCEPT ![v] = run.dest]
             /\ next' = [next EXCEPT ![v] = run.next]
             /\ IF run.dest = NoPlaylist THEN Goto(v, "find")
                                         ELSE Continue(v, preview, run.next)
    <3>1. plan'[v] = preview /\ dest'[v] = run.dest /\ next'[v] = run.next
      BY <1>0, <2>3 DEF AttemptType
    <3>2. CASE Goto(v, "find")
      BY <1>0, <2>1, <3>2 DEF LocalOK, Goto, AttemptType
    <3>3. CASE run.dest # NoPlaylist /\ Continue(v, preview, run.next)
      BY <1>7, <2>1, <3>1, <3>3
    <3>4. QED
      BY <2>3, <3>2, <3>3
  <2>4. QED
    BY <1>8, <2>2, <2>3 DEF Load, FailRun, Results
<1>9. CASE Find(v)
  <2>1. pc[v] = "find" /\ UNCHANGED <<plan, next, attempt>>
    BY <1>9 DEF Find
  <2>2. CASE Goto(v, "create")
    BY <1>0, <2>1, <2>2 DEF LocalOK, Goto, AttemptType
  <2>3. CASE \E p \in Listed : /\ dest' = [dest EXCEPT ![v] = p]
                               /\ Continue(v, plan[v], next[v])
    <3>1. dest'[v] # NoPlaylist
      BY <1>0, <2>3, PlaylistsAssumption DEF Listed, AttemptType, RemoteType
    <3>2. QED
      BY <1>7, <2>1, <2>3, <3>1
  <2>4. QED
    BY <1>9, <2>2, <2>3 DEF Find
<1>10. CASE Create(v)
  <2>1. pc[v] = "create" /\ attempt' = attempt
    BY <1>10 DEF Create
  <2>2. CASE Return(v, "error")
    BY <1>3, <2>1, <2>2
  <2>3. CASE \E p \in FreshIds : /\ dest' = [dest EXCEPT ![v] = p]
                                 /\ Continue(v, plan[v], next[v])
                                 /\ UNCHANGED <<plan, next>>
    <3>1. dest'[v] # NoPlaylist
      BY <1>0, <2>3, PlaylistsAssumption DEF FreshIds, AttemptType
    <3>2. QED
      BY <1>7, <2>1, <2>3, <3>1
  <2>4. QED
    BY <1>10, <2>2, <2>3 DEF Create
<1>11. CASE Read(v) \/ Add(v)
  <2>1. pc[v] \in {"read", "add"} /\ attempt' = attempt
    BY <1>11 DEF Read, Add
  <2>2. CASE Return(v, "error")
    BY <1>3, <2>1, <2>2
  <2>3. CASE Goto(v, "add") /\ UNCHANGED local
    BY <1>0, <2>1, <2>3 DEF LocalOK, Goto, AttemptType, local
  <2>4. CASE /\ next' = [next EXCEPT ![v] = @ + 1]
             /\ Continue(v, plan[v], next[v] + 1)
             /\ UNCHANGED <<plan, dest>>
    <3>1. next'[v] = next[v] + 1 /\ plan'[v] = plan[v] /\ dest'[v] = dest[v]
      BY <1>0, <2>4 DEF AttemptType
    <3>2. dest[v] # NoPlaylist
      BY <1>0, <2>1 DEF LocalOK
    <3>3. QED
      BY <1>7, <2>1, <2>4, <3>1, <3>2
  <2>5. QED
    BY <1>11, <2>2, <2>3, <2>4 DEF Read, Add
<1>12. QED
  BY <1>1, <1>2, <1>4, <1>5, <1>6, <1>8, <1>9, <1>10, <1>11 DEF Next, Attempt

\* The locking invariant holds in every reachable state.
LEMMA SerialInvariant == Spec => []SerialInv
<1>1. SerialInv /\ [Next]_vars => SerialInv'
  BY StoreStep, AttemptStep, RemoteStep, LockStep, LocalStep, QuietStep DEF SerialInv, TypeOK
<1>2. QED
  BY InitSerial, <1>1, PTL DEF Spec

\* Every variable keeps its type, whatever fails: a duplicated delivery that
\* snoozes never drives the attempt count below zero, and a write that
\* arrives late is still a write of a planned track to a created playlist.
THEOREM TypeCorrect == Spec => []TypeOK
  BY SerialInvariant, PTL DEF SerialInv

\* For any number of workers, deliveries, crashes and rescues, two attempts
\* are never between loadRunForUpdate and their commit at the same time.
THEOREM Serialized == Spec => []WritersSerialized
<1>1. SerialInv => WritersSerialized
  BY DEF SerialInv, LockInv, WritersSerialized
<1>2. QED
  BY <1>1, SerialInvariant, PTL

\* After the commit that completes the run no attempt reads or writes the
\* destination again, and none that had started is still in progress.
THEOREM QuietAfterCompletion == Spec => []CompletedQuiet
  BY SerialInvariant, PTL DEF SerialInv

----------------------------------------------------------------------------
(***************************************************************************)
(* The second part: when the provider applies every write before its       *)
(* caller gives up, keeps the tracks it was given and the source name has  *)
(* no leading blanks, the run implements PlaylistCopy, through any number  *)
(* of errors, lost replies, crashes, rescues, rate limits and re-previews. *)
(***************************************************************************)
Reliable == MaxLate = 0 /\ MaxWithdrawn = 0 /\ SourceName.lead = 0

\* What one attempt knows of the destination: once it has a playlist, the
\* positions it has passed hold the preview's tracks, and it appends only at
\* the end.  Positions are never skipped without a read.
AttemptOK(w) ==
    pc[w] \in Locked =>
        /\ plan[w] = preview
        /\ pc[w] \in {"find", "create"} => next[w] = 0 /\ dest[w] = NoPlaylist
        /\ pc[w] = "create" => lib = {}
        /\ pc[w] \in {"read", "add", "finish"} =>
              /\ dest[w] \in lib
              /\ next[w] <= Len(items[dest[w]]) /\ next[w] <= Len(preview)
              /\ \A i \in 1..next[w] : items[dest[w]][i] = preview[i]
              /\ next[w] > 0 => "read" \in Supported
        /\ pc[w] = "add" => Len(items[dest[w]]) = next[w] /\ "read" \in Supported
        /\ pc[w] = "finish" => next[w] = Len(preview)

\* An unfinished run starts at position 0 and knows only created playlists.
RunInv ==
    /\ run.dest # NoPlaylist => run.dest \in lib
    /\ run.state # "completed" => run.next = 0
    /\ run.state = "completed" => run.dest # NoPlaylist

\* The provider holds only what attempts appended.
CleanInv ==
    /\ items \in [PlaylistIds -> Seq(Tracks)]
    /\ "add" \notin Supported => \A p \in PlaylistIds : items[p] = <<>>

CopyInv == OnePlaylist /\ RunInv /\ CleanInv /\ \A w \in Workers : AttemptOK(w)

\* The initial states satisfy the invariant of the copy.
LEMMA InitCopy == Init => CopyInv
  BY DEF Init, CopyInv, OnePlaylist, RunInv, CleanInv, AttemptOK, Locked, Operations

\* Without late writes the provider has nothing pending.
LEMMA NothingLate ==
    ASSUME Reliable, RemoteType
    PROVE  late = {} /\ ~(budget.late > 0) /\ ~(budget.withdrawn > 0)
  BY DEF Reliable, RemoteType, Budgets, Requests

\* The name the playlist was created under is the name that is looked for.
LEMMA NameFound == ASSUME Reliable PROVE Listed = lib
  BY NameAssumption DEF Reliable, Listed, DestName, TrimSpace

\* What a step can do to the provider's library: nothing, create the one
\* playlist, or append the next planned track.
Grows ==
    \/ UNCHANGED <<lib, items>>
    \/ /\ \E w \in Workers : pc[w] = "create" /\ Create(w)
       /\ \E p \in PlaylistIds : lib' = {p}
       /\ lib = {} /\ items' = items
    \/ \E w \in Workers :
          /\ pc[w] = "add" /\ Add(w)
          /\ lib' = lib
          /\ items' = [items EXCEPT ![dest[w]] = Append(@, plan[w][next[w] + 1])]

\* How a step may change the library: one create, or one append of the next
\* planned track by the attempt that holds the rows.
LEMMA GrowsStep == ASSUME Reliable, SerialInv, CopyInv, [Next]_vars PROVE Grows
<1>0. RemoteType /\ \A w \in Workers : AttemptOK(w)
  BY DEF SerialInv, TypeOK, CopyInv
<1>1. late = {} /\ ~Spend("late") /\ ~Spend("withdrawn")
  BY <1>0, NothingLate DEF Spend
<1>2. CASE EnqueueRun \/ SavePreview \/ Rescue \/ UNCHANGED vars
  BY <1>2 DEF EnqueueRun, SavePreview, Rescue, vars, remote, Grows
<1>3. CASE LateArrives \/ Withdraw
  BY <1>1, <1>3 DEF LateArrives, Withdraw
<1>4. ASSUME NEW w \in Workers,
             \/ Fetch(w) \/ Load(w) \/ LoadFails(w) \/ CallFails(w) \/ RateLimited(w)
             \/ Unsupported(w) \/ Find(w) \/ Read(w) \/ Finish(w) \/ Report(w) \/ Crash(w)
      PROVE  Grows
  <2>1. UNCHANGED remote
    BY <1>4 DEF Fetch, Load, LoadFails, CallFails, RateLimited, Unsupported, FailRun, Find,
                Read, Finish, Report, Crash
  <2>2. QED
    BY <2>1 DEF remote, Grows
<1>5. ASSUME NEW w \in Workers, Create(w) PROVE Grows
  <2>1. pc[w] = "create" /\ lib = {}
    BY <1>0, <1>5 DEF Create, AttemptOK, Locked, Operations
  <2>2. \/ UNCHANGED <<lib, items>>
        \/ items' = items /\ \E p \in FreshIds : lib' = lib \cup {p}
    BY <1>1, <1>5 DEF Create, remote
  <2>3. QED
    BY <1>5, <2>1, <2>2 DEF Grows, FreshIds
<1>6. ASSUME NEW w \in Workers, Add(w) PROVE Grows
  BY <1>1, <1>6 DEF Add, Grows
<1>7. QED
  BY <1>2, <1>3, <1>4, <1>5, <1>6 DEF Next, Attempt

\* What a step can do to the run's row.
Records ==
    \/ run' = run
    \/ /\ run.state = "none" /\ UNCHANGED <<preview, lib, items>>
       /\ run' = [state |-> "queued", dest |-> NoPlaylist, next |-> 0]
    \/ /\ run.state # "completed" /\ UNCHANGED <<preview, lib, items>>
       /\ \E p \in lib \cup {NoPlaylist} : run' = [state |-> "failed", dest |-> p, next |-> 0]
    \/ /\ run.state # "completed" /\ UNCHANGED <<preview, lib, items>>
       /\ \E w \in Workers :
             pc[w] = "finish" /\ run' = [state |-> "completed", dest |-> dest[w], next |-> next[w]]

\* How a step may change the run row: a controlled failure, or the completion
\* written by an attempt that has reached the end of its plan.
LEMMA RecordsStep == ASSUME SerialInv, CopyInv, [Next]_vars PROVE Records
<1>0. StoreType /\ AttemptType /\ CompletedQuiet /\ RunInv /\ CleanInv
      /\ \A w \in Workers : AttemptOK(w)
  BY DEF SerialInv, TypeOK, CopyInv
<1>1. CASE EnqueueRun
  BY <1>1 DEF EnqueueRun, remote, Records
<1>2. CASE SavePreview \/ Rescue \/ LateArrives \/ Withdraw \/ UNCHANGED vars
  BY <1>2 DEF SavePreview, Rescue, LateArrives, Withdraw, vars, store, Records
<1>3. ASSUME NEW w \in Workers,
             \/ Fetch(w) \/ LoadFails(w) \/ CallFails(w) \/ RateLimited(w)
             \/ Find(w) \/ Create(w) \/ Read(w) \/ Add(w) \/ Report(w) \/ Crash(w)
      PROVE  Records
  BY <1>3 DEF Fetch, LoadFails, CallFails, RateLimited, Find, Create, Read, Add, Report, Crash,
              store, Records
<1>4. ASSUME NEW w \in Workers, NEW p \in lib \cup {NoPlaylist}, FailRun(w, p, 0),
             run.state # "completed"
      PROVE  Records
  BY <1>4 DEF FailRun, remote, Records
<1>5. ASSUME NEW w \in Workers, Load(w) PROVE Records
  <2>1. CASE run' = run
    BY <2>1 DEF Records
  <2>2. CASE run.state # "completed" /\ FailRun(w, run.dest, run.next)
    <3>1. run.next = 0 /\ run.dest \in lib \cup {NoPlaylist}
      BY <1>0, <2>2 DEF RunInv
    <3>2. QED
      BY <1>4, <2>2, <3>1
  <2>3. QED
    BY <1>5, <2>1, <2>2 DEF Load, AlreadyCompleted
<1>6. ASSUME NEW w \in Workers, Unsupported(w) PROVE Records
  <2>1. pc[w] \in Operations \ Supported /\ pc[w] \in Locked
    BY <1>6 DEF Unsupported, Locked
  <2>2. run.state # "completed"
    BY <1>0, <2>1 DEF CompletedQuiet
  <2>3. AttemptOK(w) /\ next[w] \in Nat
    BY <1>0 DEF AttemptType
  <2>4. CASE pc[w] \in {"find", "create"}
    <3>1. next[w] = 0 /\ dest[w] = NoPlaylist
      BY <2>1, <2>3, <2>4 DEF AttemptOK
    <3>2. QED
      BY <1>4, <1>6, <2>2, <3>1 DEF Unsupported
  <2>5. CASE pc[w] \in {"read", "add"}
    <3>1. dest[w] \in lib
      BY <2>1, <2>3, <2>5 DEF AttemptOK
    <3>2. next[w] = 0
      <4>1. CASE pc[w] = "read"
        BY <2>1, <2>3, <4>1 DEF AttemptOK
      <4>2. CASE pc[w] = "add"
        <5>1. Len(items[dest[w]]) = next[w] /\ "add" \notin Supported
          BY <2>1, <2>3, <4>2 DEF AttemptOK
        <5>2. items[dest[w]] = <<>>
          BY <1>0, <3>1, <5>1 DEF CleanInv, SerialInv, TypeOK, RemoteType
        <5>3. QED
          BY <5>1, <5>2
      <4>3. QED
        BY <2>5, <4>1, <4>2
    <3>3. QED
      BY <1>4, <1>6, <2>2, <3>1, <3>2 DEF Unsupported
  <2>6. QED
    BY <2>1, <2>4, <2>5 DEF Operations
<1>7. ASSUME NEW w \in Workers, Finish(w) PROVE Records
  <2>1. pc[w] = "finish" /\ run.state # "completed"
    BY <1>0, <1>7 DEF Finish, CompletedQuiet, Locked
  <2>2. QED
    BY <1>7, <2>1 DEF Finish, remote, Records
<1>8. QED
  BY <1>1, <1>2, <1>3, <1>5, <1>6, <1>7 DEF Next, Attempt

\* Appending at the end leaves the earlier positions as they were.
LEMMA AppendAt ==
    ASSUME NEW S, NEW q \in Seq(S), NEW t \in S
    PROVE  /\ Append(q, t) \in Seq(S)
           /\ Len(Append(q, t)) = Len(q) + 1
           /\ \A i \in 1..Len(q) : Append(q, t)[i] = q[i]
           /\ Append(q, t)[Len(q) + 1] = t
  OBVIOUS

\* At most one playlist, holding only what attempts appended.
LEMMA CleanStep == ASSUME Reliable, SerialInv, CopyInv, [Next]_vars PROVE CleanInv' /\ OnePlaylist'
<1>0. CleanInv /\ OnePlaylist /\ AttemptType /\ LocalInv /\ Grows
  BY GrowsStep DEF SerialInv, TypeOK, CopyInv
<1>1. CASE UNCHANGED <<lib, items>>
  BY <1>0, <1>1 DEF CleanInv, OnePlaylist
<1>2. CASE items' = items /\ \E p \in PlaylistIds : lib' = {p}
  BY <1>0, <1>2 DEF CleanInv, OnePlaylist
<1>3. ASSUME NEW w \in Workers, Add(w), lib' = lib,
             items' = [items EXCEPT ![dest[w]] = Append(@, plan[w][next[w] + 1])]
      PROVE  CleanInv' /\ OnePlaylist'
  <2>1. pc[w] = "add" /\ "add" \in Supported
    BY <1>3 DEF Add
  <2>2. dest[w] \in PlaylistIds /\ plan[w][next[w] + 1] \in Tracks
    BY <1>0, <2>1 DEF AttemptType, LocalInv
  <2>3. Append(items[dest[w]], plan[w][next[w] + 1]) \in Seq(Tracks)
    BY <1>0, <2>2 DEF CleanInv
  <2>4. items' \in [PlaylistIds -> Seq(Tracks)]
    BY <1>0, <1>3, <2>3 DEF CleanInv
  <2>5. QED
    BY <1>0, <1>3, <2>1, <2>4 DEF CleanInv, OnePlaylist
<1>4. QED
  BY <1>0, <1>1, <1>2, <1>3 DEF Grows

\* What the run row records stays true of the library.
LEMMA RunStep == ASSUME Reliable, SerialInv, CopyInv, [Next]_vars PROVE RunInv'
<1>0. RunInv /\ StoreType /\ RemoteType /\ AttemptType /\ Grows /\ Records
      /\ \A w \in Workers : AttemptOK(w)
  BY GrowsStep, RecordsStep DEF SerialInv, TypeOK, CopyInv
<1>1. lib \subseteq lib'
  BY <1>0 DEF Grows
<1>2. CASE run' = run
  BY <1>0, <1>1, <1>2 DEF RunInv
<1>3. CASE run' = [state |-> "queued", dest |-> NoPlaylist, next |-> 0]
  BY <1>3 DEF RunInv
<1>4. CASE \E p \in lib \cup {NoPlaylist} : run' = [state |-> "failed", dest |-> p, next |-> 0]
  BY <1>1, <1>4 DEF RunInv
<1>5. ASSUME NEW w \in Workers, pc[w] = "finish",
             run' = [state |-> "completed", dest |-> dest[w], next |-> next[w]]
      PROVE  RunInv'
  <2>1. dest[w] \in lib
    BY <1>0, <1>5 DEF AttemptOK, Locked
  <2>2. dest[w] # NoPlaylist
    BY <1>0, <2>1, PlaylistsAssumption DEF RemoteType
  <2>3. QED
    BY <1>1, <1>5, <2>1, <2>2 DEF RunInv
<1>6. QED
  BY <1>0, <1>2, <1>3, <1>4, <1>5 DEF Records

\* What an attempt knows of its playlist stays true of the library.
LEMMA AttemptOKStep ==
    ASSUME Reliable, SerialInv, CopyInv, [Next]_vars, NEW v \in Workers
    PROVE  AttemptOK(v)'
<1> SUFFICES ASSUME pc'[v] \in Locked PROVE AttemptOK(v)'
  BY DEF AttemptOK
<1>0. /\ AttemptType /\ StoreType /\ RemoteType /\ LockInv /\ LocalInv /\ CompletedQuiet
      /\ RunInv /\ CleanInv /\ OnePlaylist /\ AttemptOK(v) /\ Grows
      /\ \A w \in Workers : pc[w] \in Locked => w = lock
  BY GrowsStep DEF SerialInv, TypeOK, CopyInv, LockInv
<1>p. preview \in Seq(Tracks) /\ Len(preview) \in Nat
  BY <1>0, PreviewsAssumption DEF StoreType
<1>a. ASSUME NEW list, NEW n \in Nat, Continue(v, list, n), list = preview',
             plan'[v] = list, next'[v] = n, dest'[v] \in lib', n <= Len(list),
             n <= Len(items'[dest'[v]]), n > 0 => "read" \in Supported,
             \A i \in 1..n : items'[dest'[v]][i] = list[i],
             Len(list) \in Nat
      PROVE  AttemptOK(v)'
  <2>1. pc'[v] = IF n < Len(list) THEN "read" ELSE "finish"
    BY <1>0, <1>a DEF Continue, Goto, AttemptType
  <2>2. CASE n < Len(list)
    BY <1>a, <2>1, <2>2 DEF AttemptOK
  <2>3. CASE ~(n < Len(list))
    BY <1>a, <2>1, <2>3 DEF AttemptOK
  <2>4. QED
    BY <2>2, <2>3
<1>1. CASE UNCHANGED vars
  BY <1>0, <1>1 DEF vars, store, local, remote, AttemptOK
<1>2. CASE Next /\ \A w \in Workers : Fetch(w) \/ Attempt(w) \/ Crash(w) => v # w
  <2>1. /\ pc'[v] = pc[v] /\ plan'[v] = plan[v] /\ dest'[v] = dest[v]
        /\ next'[v] = next[v]
    BY <1>2, OthersStep
  <2>2. pc[v] \in Locked /\ lock = v
    BY <1>0, <2>1 DEF LockInv
  <2>3. UNCHANGED <<lib, items>>
    BY <1>0, <1>2, <2>2 DEF Grows, Attempt, Locked, Operations
  <2>4. preview' = preview
    <3>1. ~SavePreview
      BY <2>2, WorkersAssumption DEF SavePreview, RowsFree
    <3>2. QED
      BY <1>2, <3>1 DEF Next, Attempt, EnqueueRun, Rescue, LateArrives, Withdraw, store,
         Fetch, Crash, Report, Load, LoadFails, CallFails, RateLimited, Unsupported, FailRun,
         Find, Create, Read, Add, Finish
  <2>5. QED
    BY <1>0, <2>1, <2>2, <2>3, <2>4 DEF AttemptOK
<1>3. ASSUME NEW label \in {"idle", "load", "report"}, Goto(v, label) PROVE FALSE
  BY <1>0, <1>3 DEF Goto, AttemptType, Locked, Operations
<1>4. CASE \/ Fetch(v) \/ Report(v) \/ Crash(v) \/ LoadFails(v) \/ CallFails(v)
           \/ RateLimited(v) \/ Unsupported(v) \/ Finish(v)
  BY <1>3, <1>4 DEF Fetch, Report, Crash, LoadFails, CallFails, RateLimited, Unsupported,
     FailRun, Finish, Return
<1>5. CASE Load(v)
  <2>1. ~Return(v, "ok") /\ ~Return(v, "cancel")
    BY <1>3 DEF Return
  <2>2. /\ UNCHANGED <<preview, lib, items>> /\ run.state # "completed"
        /\ plan' = [plan EXCEPT ![v] = preview]
        /\ dest' = [dest EXCEPT ![v] = run.dest]
        /\ next' = [next EXCEPT ![v] = run.next]
        /\ IF run.dest = NoPlaylist THEN Goto(v, "find")
                                    ELSE Continue(v, preview, run.next)
    BY <1>5, <2>1 DEF Load, FailRun, AlreadyCompleted, remote
  <2>3. plan'[v] = preview /\ dest'[v] = run.dest /\ next'[v] = 0 /\ run.next = 0
    BY <1>0, <2>2 DEF AttemptType, RunInv
  <2>4. CASE run.dest = NoPlaylist
    <3>1. pc'[v] = "find"
      BY <1>0, <2>2, <2>4 DEF Goto, AttemptType
    <3>2. QED
      BY <2>2, <2>3, <2>4, <3>1 DEF AttemptOK
  <2>5. CASE run.dest # NoPlaylist
    <3>1. run.dest \in lib /\ Len(items[run.dest]) \in Nat
      BY <1>0, <2>5 DEF RunInv, RemoteType
    <3>2. QED
      BY <1>a, <1>p, <2>2, <2>3, <2>5, <3>1
  <2>6. QED
    BY <2>4, <2>5
<1>6. CASE Find(v)
  <2>1. pc[v] = "find" /\ UNCHANGED <<preview, plan, next, lib, items>>
    BY <1>6 DEF Find, store, remote
  <2>2. plan[v] = preview /\ next[v] = 0 /\ dest[v] = NoPlaylist
    BY <1>0, <2>1 DEF AttemptOK, Locked, Operations
  <2>3. CASE Listed = {} /\ Goto(v, "create") /\ UNCHANGED dest
    <3>1. lib = {}
      BY <2>3, NameFound
    <3>2. pc'[v] = "create"
      BY <1>0, <2>3 DEF Goto, AttemptType
    <3>3. QED
      BY <2>1, <2>2, <2>3, <3>1, <3>2 DEF AttemptOK
  <2>4. ASSUME NEW p \in Listed, dest' = [dest EXCEPT ![v] = p], Continue(v, plan[v], next[v])
        PROVE  AttemptOK(v)'
    <3>1. dest'[v] = p /\ p \in lib /\ Len(items[p]) \in Nat
      BY <1>0, <2>4, NameFound DEF AttemptType, RemoteType
    <3>2. QED
      BY <1>a, <1>p, <2>1, <2>2, <2>4, <3>1
  <2>5. QED
    BY <1>6, <2>3, <2>4 DEF Find
<1>7. CASE Create(v)
  <2>1. pc[v] = "create" /\ UNCHANGED preview
    BY <1>7 DEF Create
  <2>2. plan[v] = preview /\ next[v] = 0
    BY <1>0, <2>1 DEF AttemptOK, Locked, Operations
  <2>3. ~Return(v, "error")
    BY <1>3 DEF Return
  <2>4. PICK p \in FreshIds : /\ lib' = lib \cup {p}
                              /\ dest' = [dest EXCEPT ![v] = p]
                              /\ Continue(v, plan[v], next[v])
                              /\ UNCHANGED <<plan, next, items>>
    BY <1>7, <2>3 DEF Create
  <2>5. dest'[v] = p /\ p \in lib' /\ Len(items[p]) \in Nat
    BY <1>0, <2>4 DEF AttemptType, RemoteType, FreshIds
  <2>6. QED
    BY <1>a, <1>p, <2>1, <2>2, <2>4, <2>5
<1>8. CASE Read(v)
  <2>1. pc[v] = "read" /\ "read" \in Supported /\ UNCHANGED <<preview, lib, items>>
    BY <1>8 DEF Read, remote
  <2>2. /\ plan[v] = preview /\ dest[v] \in lib /\ dest[v] \in PlaylistIds
        /\ next[v] \in Nat /\ next[v] <= Len(items[dest[v]])
        /\ \A i \in 1..next[v] : items[dest[v]][i] = preview[i]
    BY <1>0, <2>1 DEF AttemptOK, Locked, Operations, AttemptType, RemoteType
  <2>3. next[v] < Len(preview)
    BY <1>0, <2>1, <2>2 DEF LocalInv
  <2>4. items[dest[v]] \in Seq(Tracks) /\ Len(items[dest[v]]) \in Nat
    BY <1>0, <2>2 DEF CleanInv
  <2>5. ~Return(v, "error")
    BY <1>3 DEF Return
  <2>6. CASE /\ Held(v) = plan[v][next[v] + 1]
             /\ next' = [next EXCEPT ![v] = @ + 1]
             /\ Continue(v, plan[v], next[v] + 1)
             /\ UNCHANGED <<plan, dest>>
    <3>1. next'[v] = next[v] + 1 /\ plan'[v] = preview /\ dest'[v] = dest[v]
      BY <1>0, <2>2, <2>6 DEF AttemptType
    <3>2. preview[next[v] + 1] \in Tracks
      BY <1>p, <2>2, <2>3
    <3>3. next[v] < Len(items[dest[v]]) /\ items[dest[v]][next[v] + 1] = preview[next[v] + 1]
      BY <2>2, <2>6, <3>2, TracksAssumption DEF Held
    <3>4. \A i \in 1..(next[v] + 1) : items[dest[v]][i] = preview[i]
      BY <2>2, <3>3
    <3>5. next[v] + 1 <= Len(items[dest[v]]) /\ next[v] + 1 <= Len(preview)
      BY <1>p, <2>2, <2>3, <2>4, <3>3
    <3>6. QED
      BY <1>a, <1>p, <2>1, <2>2, <2>6, <3>1, <3>4, <3>5, SMTT(20)
  <2>7. CASE Held(v) = Unavailable /\ Goto(v, "add") /\ UNCHANGED local
    <3>1. pc'[v] = "add"
      BY <1>0, <2>7 DEF Goto, AttemptType
    <3>2. ~(next[v] < Len(items[dest[v]]))
      BY <2>2, <2>4, <2>7, TracksAssumption DEF Held
    <3>3. Len(items[dest[v]]) = next[v]
      BY <2>2, <2>4, <3>2
    <3>4. UNCHANGED <<plan, dest, next>>
      BY <2>7 DEF local
    <3>5. QED
      BY <1>p, <2>1, <2>2, <2>3, <3>1, <3>3, <3>4 DEF AttemptOK
  <2>8. QED
    BY <1>8, <2>5, <2>6, <2>7 DEF Read
<1>9. CASE Add(v)
  <2>1. pc[v] = "add" /\ UNCHANGED <<preview, lib>>
    BY <1>9 DEF Add
  <2>2. /\ plan[v] = preview /\ dest[v] \in lib /\ dest[v] \in PlaylistIds
        /\ next[v] \in Nat /\ next[v] = Len(items[dest[v]])
        /\ \A i \in 1..next[v] : items[dest[v]][i] = preview[i]
        /\ "read" \in Supported
    BY <1>0, <2>1 DEF AttemptOK, Locked, Operations, AttemptType, RemoteType
  <2>3. next[v] < Len(preview)
    BY <1>0, <2>1, <2>2 DEF LocalInv
  <2>4. ~Return(v, "error")
    BY <1>3 DEF Return
  <2>5. /\ items' = [items EXCEPT ![dest[v]] = Append(@, plan[v][next[v] + 1])]
        /\ next' = [next EXCEPT ![v] = @ + 1]
        /\ Continue(v, plan[v], next[v] + 1)
        /\ UNCHANGED <<plan, dest>>
    BY <1>9, <2>4 DEF Add
  <2>6. next'[v] = next[v] + 1 /\ plan'[v] = preview /\ dest'[v] = dest[v]
    BY <1>0, <2>2, <2>5 DEF AttemptType
  <2>7. items[dest[v]] \in Seq(Tracks) /\ preview[next[v] + 1] \in Tracks
    BY <1>0, <1>p, <2>2, <2>3 DEF CleanInv
  <2>8. items'[dest[v]] = Append(items[dest[v]], preview[next[v] + 1])
    BY <1>0, <2>2, <2>5 DEF RemoteType
  <2>9. /\ Len(items'[dest[v]]) = next[v] + 1
        /\ \A i \in 1..(next[v] + 1) : items'[dest[v]][i] = preview[i]
    BY <2>2, <2>7, <2>8, AppendAt
  <2>10. QED
    BY <1>a, <1>p, <2>1, <2>2, <2>3, <2>5, <2>6, <2>9
<1>10. QED
  BY <1>1, <1>2, <1>4, <1>5, <1>6, <1>7, <1>8, <1>9 DEF Next, Attempt

\* With a reliable provider the invariant of the copy holds throughout.
LEMMA CopyInvariant == ASSUME Reliable PROVE Spec => [](SerialInv /\ CopyInv)
<1>1. SerialInv /\ CopyInv /\ [Next]_vars => CopyInv'
  BY CleanStep, RunStep, AttemptOKStep DEF CopyInv
<1>2. QED
  BY <1>1, InitCopy, SerialInvariant, PTL DEF Spec

\* A run creates at most one destination playlist: a create whose reply was
\* lost, or whose attempt crashed, is found again by name.
THEOREM AtMostOnePlaylist == ASSUME Reliable PROVE Spec => []OnePlaylist
  BY CopyInvariant, PTL DEF CopyInv

----------------------------------------------------------------------------

\* Every step of a run is a step of PlaylistCopy or leaves it unchanged.
LEMMA CopyStep ==
    ASSUME Reliable, SerialInv, CopyInv, [Next]_vars
    PROVE  [Copy!Next]_(Copy!copyVars)
<1>0. /\ AttemptType /\ StoreType /\ RemoteType /\ LocalInv /\ CompletedQuiet /\ RunInv
      /\ CleanInv /\ Grows /\ Records
      /\ \A w \in Workers : AttemptOK(w)
  BY GrowsStep, RecordsStep DEF SerialInv, TypeOK, CopyInv
<1>1. CASE UNCHANGED vars
  BY <1>1 DEF vars, store, remote, Copy!copyVars
<1>2. CASE SavePreview
  <2>1. preview' \in Previews /\ UNCHANGED <<run, lib, items>>
    BY <1>2 DEF SavePreview, remote
  <2>2. QED
    BY <2>1 DEF Copy!Next, Copy!Replan
<1>3. CASE preview' = preview /\ run' = run
  <2>1. CASE UNCHANGED <<lib, items>>
    BY <1>3, <2>1 DEF Copy!copyVars
  <2>2. ASSUME NEW w \in Workers, pc[w] = "create", lib = {}, items' = items,
               \E p \in PlaylistIds : lib' = {p}
        PROVE  Copy!CreateOnce
    <3>1. run.state # "completed"
      BY <1>0, <2>2 DEF CompletedQuiet, Locked, Operations
    <3>2. QED
      BY <1>3, <2>2, <3>1 DEF Copy!CreateOnce
  <2>3. ASSUME NEW w \in Workers, pc[w] = "add", lib' = lib,
               items' = [items EXCEPT ![dest[w]] = Append(@, plan[w][next[w] + 1])]
        PROVE  Copy!AppendNext
    <3>1. run.state # "completed"
      BY <1>0, <2>3 DEF CompletedQuiet, Locked, Operations
    <3>2. /\ plan[w] = preview /\ dest[w] \in lib /\ next[w] = Len(items[dest[w]])
          /\ \A i \in 1..next[w] : items[dest[w]][i] = preview[i]
      BY <1>0, <2>3 DEF AttemptOK, Locked, Operations
    <3>3. next[w] < Len(preview)
      BY <1>0, <2>3, <3>2 DEF LocalInv
    <3>4. next[w] \in Nat /\ Len(preview) \in Nat
      BY <1>0, PreviewsAssumption DEF AttemptType, StoreType
    <3>5. Copy!Agrees(dest[w], Len(items[dest[w]]))
      BY <3>2, <3>3, <3>4 DEF Copy!Agrees
    <3>6. items' = [items EXCEPT ![dest[w]] = Append(@, preview[Len(@) + 1])]
      BY <2>3, <3>2
    <3>7. QED
      BY <1>3, <2>3, <3>1, <3>2, <3>3, <3>5, <3>6 DEF Copy!AppendNext
  <2>4. QED
    BY <1>0, <2>1, <2>2, <2>3 DEF Grows, Copy!Next
<1>4. CASE UNCHANGED <<preview, lib, items>> /\ run.state # "completed" /\ run'.state # "completed"
  BY <1>4 DEF Copy!copyVars
<1>5. ASSUME NEW w \in Workers, pc[w] = "finish", run.state # "completed",
             UNCHANGED <<preview, lib, items>>,
             run' = [state |-> "completed", dest |-> dest[w], next |-> next[w]]
      PROVE  Copy!Conclude
  <2>1. /\ dest[w] \in lib /\ next[w] = Len(preview) /\ next[w] <= Len(items[dest[w]])
        /\ \A i \in 1..next[w] : items[dest[w]][i] = preview[i]
    BY <1>0, <1>5 DEF AttemptOK, Locked
  <2>2. Len(preview) \in Nat
    BY <1>0, PreviewsAssumption DEF StoreType
  <2>3. Copy!Agrees(dest[w], Len(preview))
    BY <2>1, <2>2 DEF Copy!Agrees
  <2>4. QED
    BY <1>5, <2>1, <2>3 DEF Copy!Conclude
<1>6. SavePreview \/ preview' = preview
  BY DEF Next, Attempt, EnqueueRun, Rescue, LateArrives, Withdraw, store, vars,
     Fetch, Crash, Report, Load, LoadFails, CallFails, RateLimited, Unsupported, FailRun,
     Find, Create, Read, Add, Finish
<1>7. QED
  <2>1. CASE run' = run
    BY <1>2, <1>3, <1>6, <2>1
  <2>2. CASE run' # run
    <3>1. CASE run'.state # "completed"
      BY <1>0, <1>4, <2>2, <3>1 DEF Records
    <3>2. CASE run'.state = "completed"
      BY <1>0, <1>5, <2>2, <3>2 DEF Records, Copy!Next
    <3>3. QED
      BY <3>1, <3>2
  <2>3. QED
    BY <2>1, <2>2

\* The run implements the atomic copy: one playlist, grown in the preview's
\* order and only while it agrees with the preview, and recorded as
\* completed only when it holds the preview at the moment of the commit.
THEOREM ImplementsCopy == ASSUME Reliable PROVE Spec => CopySpec
<1>1. Init => Copy!Init
  BY DEF Init, Copy!Init
<1>2. SerialInv /\ CopyInv /\ [Next]_vars => [Copy!Next]_(Copy!copyVars)
  BY CopyStep
<1>3. QED
  BY <1>1, <1>2, CopyInvariant, PTL DEF Spec, CopySpec, Copy!Spec

----------------------------------------------------------------------------
(* When the preview is not replaced, the copy is exact.                    *)

\* No re-preview changes what was matched.
OnePreview == \A q, r \in Previews : q = r

\* Every playlist is a prefix of the preview.
PrefixInv ==
    \A p \in PlaylistIds :
        /\ Len(items[p]) <= Len(preview)
        /\ \A i \in 1..Len(items[p]) : items[p][i] = preview[i]

\* The initial states satisfy the prefix invariant.
LEMMA InitPrefix == Init => PrefixInv
<1> SUFFICES ASSUME Init PROVE PrefixInv
  OBVIOUS
<1>1. Len(preview) \in Nat
  BY PreviewsAssumption DEF Init
<1>2. QED
  BY <1>1 DEF Init, PrefixInv

\* With one preview, the playlists hold a prefix of it after every step.
LEMMA PrefixStep ==
    ASSUME Reliable, OnePreview, SerialInv, CopyInv, PrefixInv, [Next]_vars
    PROVE  PrefixInv'
<1>0. /\ AttemptType /\ StoreType /\ StoreType' /\ RemoteType /\ LocalInv /\ CleanInv /\ Grows
      /\ \A w \in Workers : AttemptOK(w)
  BY GrowsStep, StoreStep DEF SerialInv, TypeOK, CopyInv
<1>1. preview' = preview
  BY <1>0 DEF StoreType, OnePreview
<1>2. CASE items' = items
  BY <1>1, <1>2 DEF PrefixInv
<1>3. ASSUME NEW w \in Workers, pc[w] = "add",
             items' = [items EXCEPT ![dest[w]] = Append(@, plan[w][next[w] + 1])]
      PROVE  PrefixInv'
  <2>1. /\ plan[w] = preview /\ dest[w] \in PlaylistIds /\ next[w] = Len(items[dest[w]])
        /\ \A i \in 1..next[w] : items[dest[w]][i] = preview[i]
    BY <1>0, <1>3 DEF AttemptOK, RemoteType, Locked, Operations
  <2>2. next[w] < Len(preview) /\ next[w] \in Nat /\ preview \in Seq(Tracks)
    BY <1>0, <1>3, <2>1, PreviewsAssumption DEF LocalInv, AttemptType, StoreType
  <2>3. items[dest[w]] \in Seq(Tracks) /\ preview[next[w] + 1] \in Tracks
    BY <1>0, <2>1, <2>2 DEF CleanInv
  <2>4. ASSUME NEW p \in PlaylistIds, p # dest[w] PROVE items'[p] = items[p]
    BY <1>0, <1>3, <2>4 DEF RemoteType
  <2>5. items'[dest[w]] = Append(items[dest[w]], preview[next[w] + 1])
    BY <1>0, <1>3, <2>1 DEF RemoteType
  <2>6. /\ Len(items'[dest[w]]) = next[w] + 1
        /\ \A i \in 1..(next[w] + 1) : items'[dest[w]][i] = preview[i]
    BY <2>1, <2>2, <2>3, <2>5, AppendAt
  <2>7. Len(items'[dest[w]]) <= Len(preview)
    BY <2>2, <2>6
  <2>8. QED
    BY <1>1, <2>4, <2>6, <2>7 DEF PrefixInv
<1>4. QED
  BY <1>0, <1>2, <1>3 DEF Grows

\* With one preview, the playlists always hold a prefix of it.
LEMMA PrefixInvariant ==
    ASSUME Reliable, OnePreview
    PROVE  Spec => [](SerialInv /\ CopyInv /\ PrefixInv)
  BY InitPrefix, PrefixStep, CopyInvariant, PTL DEF Spec

\* However often positions are re-read and writes retried, no playlist ever
\* holds more entries than the preview has matched tracks.
THEOREM NoTrackTwice == ASSUME Reliable, OnePreview PROVE Spec => []NoExtraTracks
<1>1. PrefixInv => NoExtraTracks
  BY DEF PrefixInv, NoExtraTracks
<1>2. QED
  BY <1>1, PrefixInvariant, PTL

\* The commit that completes the run happens when the destination is the
\* preview's matched list, position by position and no longer.
THEOREM CompletesExactly == ASSUME Reliable, OnePreview PROVE Spec => CompletionExact
<1>1. ASSUME SerialInv, CopyInv, PrefixInv, [Next]_vars,
             run.state # "completed", run'.state = "completed"
      PROVE  run'.dest \in lib /\ items[run'.dest] = preview
  <2>0. StoreType /\ RemoteType /\ CleanInv /\ Records /\ \A w \in Workers : AttemptOK(w)
    BY <1>1, RecordsStep DEF SerialInv, TypeOK, CopyInv
  <2>1. PICK w \in Workers :
           /\ pc[w] = "finish"
           /\ run' = [state |-> "completed", dest |-> dest[w], next |-> next[w]]
    BY <1>1, <2>0 DEF Records
  <2>2. run'.dest = dest[w] /\ dest[w] \in lib /\ next[w] = Len(preview)
        /\ next[w] <= Len(items[dest[w]])
    BY <2>0, <2>1 DEF AttemptOK, Locked
  <2>3. items[dest[w]] \in Seq(Tracks) /\ preview \in Seq(Tracks)
    BY <2>0, <2>2, PreviewsAssumption DEF CleanInv, StoreType, RemoteType
  <2>4. /\ Len(items[dest[w]]) = Len(preview)
        /\ \A i \in 1..Len(preview) : items[dest[w]][i] = preview[i]
    BY <1>1, <2>0, <2>2, <2>3 DEF PrefixInv, RemoteType
  <2>5. items[dest[w]] = preview
    BY <2>3, <2>4
  <2>6. QED
    BY <2>2, <2>5
<1>2. QED
  BY <1>1, PrefixInvariant, PTL DEF Spec, CompletionExact
=============================================================================
