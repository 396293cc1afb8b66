-------------------------- MODULE TransferJobProofs --------------------------
(***************************************************************************)
(* How a run's River job ends.  With fewer faults than attempts River does *)
(* not give the job up, however faults, rescues and duplicate deliveries   *)
(* interleave: the job is settled only after the run was recorded as       *)
(* completed.                                                              *)
(***************************************************************************)
EXTENDS TransferRunProofs, FiniteSetTheorems

\* The provider keeps its word, the plan is one the adapters can carry out, and
\* there are fewer faults than attempts.
Feasible ==
    /\ Reliable /\ OnePreview
    /\ Configured = Workers /\ Supported = Operations /\ ValidName
    /\ MaxErrors < MaxAttempts
    /\ IsFiniteSet(Workers)

\* Attempts that have failed and are still to say so.
Failing == {w \in Workers : pc[w] = "report" /\ result[w] = "error"}
Failures == Cardinality(Failing)
\* Faults so far.
Faults == MaxErrors - budget.errors

\* Every attempt that the job has used was paid for by a fault, except the one
\* under way; failures that are not reported yet are paid for as well.
PaidInv ==
    /\ Failures <= Faults
    /\ job.state \in Waiting => job.attempt + Failures <= Faults
    /\ job.state = "running" => job.attempt + Failures <= Faults + 1
    /\ job.state = "running" /\ (\A w \in Workers : pc[w] = "idle") => job.attempt <= Faults
    /\ \A w \in Workers : pc[w] # "idle" => attempt[w] + Failures <= Faults + 1

\* River is done with the job only when the run is completed.
NotGivenUp == job.state \in Settled => run.state = "completed"

\* No attempt gives up for good, and one that succeeded has completed the run.
ReturnInv ==
    /\ \A w \in Workers : pc[w] = "report" =>
          result[w] # "cancel" /\ (result[w] = "ok" => run.state = "completed")
    /\ NotGivenUp

JobInv == PaidInv /\ ReturnInv

----------------------------------------------------------------------------
(* What the steps of an attempt come to.                                   *)

\* Worker w alone moves within its attempt.
Moves(w) ==
    /\ job' = job /\ attempt' = attempt
    /\ pc[w] \notin {"idle", "report"} /\ pc'[w] # "idle"
    /\ \A v \in Workers \ {w} : pc'[v] = pc[v] /\ result'[v] = result[v]
    /\ run.state = "completed" => run'.state = "completed"

\* It goes on, is asked to come back later, or has completed the run.
Passes(w) ==
    /\ Moves(w) /\ budget'.errors = budget.errors
    /\ pc'[w] = "report" =>
          \/ result'[w] = "snooze"
          \/ result'[w] = "ok" /\ run'.state = "completed"

\* It fails, by a fault.
Fails(w) ==
    /\ Moves(w) /\ budget.errors > 0 /\ budget'.errors = budget.errors - 1
    /\ pc'[w] = "report" /\ result'[w] = "error"

\* Leaving runOnce with r.
LEMMA ReturnMoves ==
    ASSUME AttemptType, NEW w \in Workers, NEW r \in Results, Return(w, r),
           job' = job, attempt' = attempt, pc[w] \notin {"idle", "report"},
           run.state = "completed" => run'.state = "completed"
    PROVE  Moves(w) /\ pc'[w] = "report" /\ result'[w] = r
  BY DEF AttemptType, Return, Goto, Moves

\* Going on inside runOnce.
LEMMA ContinueMoves ==
    ASSUME AttemptType, NEW w \in Workers, NEW label \in PCs \ {"idle", "report"},
           Goto(w, label), result' = result,
           job' = job, run' = run, attempt' = attempt, budget' = budget,
           pc[w] \notin {"idle", "report"}
    PROVE  Passes(w)
<1>1. pc'[w] = label /\ \A v \in Workers \ {w} : pc'[v] = pc[v]
  BY DEF AttemptType, Goto
<1>2. QED
  BY <1>1 DEF Moves, Passes

\* A fault is paid for from the budget.
LEMMA SpendOne ==
    ASSUME RemoteType, Spend("errors")
    PROVE  budget.errors > 0 /\ budget'.errors = budget.errors - 1
  BY DEF RemoteType, Budgets, Spend

\* With one preview the reconciliation never meets a foreign track.
LEMMA NoForeignTrack ==
    ASSUME SerialInv, CopyInv, PrefixInv, NEW w \in Workers, pc[w] = "read"
    PROVE  Held(w) \in {plan[w][next[w] + 1], Unavailable}
<1>1. /\ plan[w] = preview /\ dest[w] \in PlaylistIds
  BY DEF CopyInv, AttemptOK, SerialInv, TypeOK, RemoteType, Locked, Operations
<1>2. next[w] \in Nat /\ Len(items[dest[w]]) \in Nat
  BY <1>1 DEF SerialInv, TypeOK, AttemptType, RemoteType
<1>3. CASE next[w] < Len(items[dest[w]])
  <2>1. next[w] + 1 \in 1..Len(items[dest[w]])
    BY <1>2, <1>3
  <2>2. QED
    BY <1>1, <1>3, <2>1 DEF Held, PrefixInv
<1>4. QED
  BY <1>3 DEF Held

\* Every step of a feasible attempt passes or fails by a fault.
LEMMA AttemptMoves ==
    ASSUME Feasible, SerialInv, CopyInv, PrefixInv, NEW w \in Workers,
           Attempt(w), ~Report(w)
    PROVE  Passes(w) \/ Fails(w)
<1>0. AttemptType /\ RemoteType /\ StoreType
  BY DEF SerialInv, TypeOK
<1>1. Configured = Workers /\ Supported = Operations /\ ValidName /\ ~Spend("late")
  BY <1>0, NothingLate DEF Feasible, Spend
<1>2. ASSUME pc[w] \notin {"idle", "report"}, Return(w, "error"), Spend("errors"),
             job' = job, attempt' = attempt, run.state = "completed" => run'.state = "completed"
      PROVE  Fails(w)
  <2>1. Moves(w) /\ pc'[w] = "report" /\ result'[w] = "error"
    BY <1>0, <1>2, ReturnMoves DEF Results
  <2>2. QED
    BY <1>0, <1>2, <2>1, SpendOne DEF Fails
<1>3. ASSUME pc[w] \notin {"idle", "report"}, NEW n, NEW list, Continue(w, list, n), result' = result,
             job' = job, run' = run, attempt' = attempt, budget' = budget
      PROVE  Passes(w)
  <2>1. PICK label \in {"read", "finish"} : Goto(w, label)
    BY <1>3 DEF Continue
  <2>2. label \in PCs \ {"idle", "report"}
    BY DEF PCs, Locked, Operations
  <2>3. QED
    BY <1>0, <1>3, <2>1, <2>2, ContinueMoves
<1>4. CASE Load(w)
  <2>1. pc[w] = "load"
    BY <1>4 DEF Load
  <2>2. CASE AlreadyCompleted /\ Return(w, "ok") /\ UNCHANGED <<preview, run, job, attempt, remote, budget>>
    <3>1. Moves(w) /\ pc'[w] = "report" /\ result'[w] = "ok"
      BY <1>0, <2>1, <2>2, ReturnMoves DEF Results
    <3>2. QED
      BY <2>2, <3>1 DEF Passes, AlreadyCompleted
  <2>3. CASE /\ IF run.dest = NoPlaylist THEN Goto(w, "find") ELSE Continue(w, preview, run.next)
             /\ UNCHANGED <<preview, run, job, attempt, result, remote, budget>>
    <3>1. CASE Goto(w, "find")
      <4>1. "find" \in PCs \ {"idle", "report"}
        BY DEF PCs, Locked, Operations
      <4>2. QED
        BY <1>0, <2>1, <2>3, <3>1, <4>1, ContinueMoves
    <3>2. QED
      BY <1>3, <2>1, <2>3, <3>1
  <2>4. QED
    BY <1>1, <1>4, <2>2, <2>3 DEF Load
<1>5. CASE LoadFails(w) \/ CallFails(w)
  BY <1>2, <1>5, SupportedAssumption DEF LoadFails, CallFails, Operations
<1>6. CASE RateLimited(w)
  <2>1. /\ pc[w] \notin {"idle", "report"} /\ Return(w, "snooze") /\ Spend("rateLimits")
        /\ UNCHANGED <<preview, run, job, attempt, remote>>
    BY <1>6, SupportedAssumption DEF RateLimited, Operations
  <2>2. Moves(w) /\ pc'[w] = "report" /\ result'[w] = "snooze"
    BY <1>0, <2>1, ReturnMoves DEF Results
  <2>3. budget'.errors = budget.errors
    BY <1>0, <2>1 DEF Spend, RemoteType, Budgets
  <2>4. QED
    BY <2>2, <2>3 DEF Passes
<1>7. CASE Unsupported(w)
  BY <1>1, <1>7 DEF Unsupported
<1>8. CASE Find(w)
  <2>1. pc[w] = "find" /\ UNCHANGED <<store, attempt, result, budget>>
    BY <1>8 DEF Find
  <2>2. job' = job /\ run' = run
    BY <2>1 DEF store
  <2>3. CASE Goto(w, "create")
    <3>1. "create" \in PCs \ {"idle", "report"}
      BY DEF PCs, Locked, Operations
    <3>2. QED
      BY <1>0, <2>1, <2>2, <2>3, <3>1, ContinueMoves
  <2>4. CASE Continue(w, plan[w], next[w])
    BY <1>3, <2>1, <2>2, <2>4
  <2>5. QED
    BY <1>8, <2>3, <2>4 DEF Find
<1>9. CASE Create(w)
  <2>1. pc[w] = "create" /\ UNCHANGED <<preview, run, job, attempt>>
    BY <1>9 DEF Create
  <2>2. CASE Continue(w, plan[w], next[w]) /\ result' = result /\ budget' = budget
    BY <1>3, <2>1, <2>2
  <2>3. CASE Spend("errors") /\ Return(w, "error")
    BY <1>2, <2>1, <2>3
  <2>4. QED
    BY <1>1, <1>9, <2>2, <2>3 DEF Create
<1>10. CASE Read(w)
  <2>1. pc[w] = "read" /\ UNCHANGED <<preview, run, job, attempt, remote, budget>>
    BY <1>10 DEF Read
  <2>2. CASE Continue(w, plan[w], next[w] + 1) /\ result' = result
    BY <1>3, <2>1, <2>2
  <2>3. CASE Goto(w, "add") /\ UNCHANGED <<lock, local, result>>
    <3>1. "add" \in PCs \ {"idle", "report"}
      BY DEF PCs, Locked, Operations
    <3>2. QED
      BY <1>0, <2>1, <2>3, <3>1, ContinueMoves
  <2>4. QED
    BY <1>10, <2>1, <2>2, <2>3, NoForeignTrack DEF Read
<1>11. CASE Add(w)
  <2>1. pc[w] = "add" /\ UNCHANGED <<preview, run, job, attempt, lib>>
    BY <1>11 DEF Add
  <2>2. CASE Continue(w, plan[w], next[w] + 1) /\ result' = result /\ budget' = budget
    BY <1>3, <2>1, <2>2
  <2>3. CASE Spend("errors") /\ Return(w, "error")
    BY <1>2, <2>1, <2>3
  <2>4. QED
    BY <1>1, <1>11, <2>2, <2>3 DEF Add
<1>12. CASE Finish(w)
  <2> DEFINE completed == [state |-> "completed", dest |-> dest[w], next |-> next[w]]
  <2>1. pc[w] = "finish" /\ UNCHANGED <<preview, job, attempt, remote>>
    BY <1>12 DEF Finish
  <2>2. completed.state = "completed"
    OBVIOUS
  <2>3. \/ run' = completed /\ Return(w, "ok") /\ budget' = budget
        \/ Spend("errors") /\ run' \in {run, completed} /\ Return(w, "error")
    BY <1>12 DEF Finish
  <2> HIDE DEF completed
  <2>4. CASE run' = completed /\ Return(w, "ok") /\ budget' = budget
    <3>1. Moves(w) /\ pc'[w] = "report" /\ result'[w] = "ok"
      BY <1>0, <2>1, <2>2, <2>4, ReturnMoves DEF Results
    <3>2. QED
      BY <2>2, <2>4, <3>1 DEF Passes
  <2>5. CASE Spend("errors") /\ run' \in {run, completed} /\ Return(w, "error")
    BY <1>2, <2>1, <2>2, <2>5
  <2>6. QED
    BY <2>3, <2>4, <2>5
<1>13. QED
  BY <1>4, <1>5, <1>6, <1>7, <1>8, <1>9, <1>10, <1>11, <1>12 DEF Attempt

----------------------------------------------------------------------------
(* The books balance after every step.                                     *)

\* The quantities that the books are kept in are numbers.
LEMMA Numbers ==
    ASSUME Feasible, SerialInv
    PROVE  /\ IsFiniteSet(Failing) /\ Failures \in Nat
           /\ Faults \in Nat /\ Faults <= MaxErrors
           /\ job.attempt \in Nat
           /\ \A w \in Workers : attempt[w] \in Nat
<1>1. Failing \in SUBSET Workers /\ IsFiniteSet(Workers)
  BY DEF Failing, Feasible
<1>2. IsFiniteSet(Failing)
  BY <1>1, FS_Subset
<1>3. Failures \in Nat
  BY <1>2, FS_CardinalityType DEF Failures
<1>4. budget.errors \in 0..MaxErrors
  BY DEF SerialInv, TypeOK, RemoteType, Budgets
<1>5. Faults \in Nat /\ Faults <= MaxErrors
  BY <1>4, BoundsAssumption DEF Faults
<1>6. job.attempt \in Nat /\ \A w \in Workers : attempt[w] \in Nat
  BY DEF SerialInv, TypeOK, StoreType, AttemptType
<1>7. QED
  BY <1>2, <1>3, <1>5, <1>6

\* A step that fails, reports or loses one attempt changes the count by one.
LEMMA CountOne ==
    ASSUME Feasible, SerialInv, NEW w \in Workers
    PROVE  /\ w \notin Failing /\ Failing' = Failing \cup {w} => Failures' = Failures + 1
           /\ w \in Failing /\ Failing' = Failing \ {w} => Failures' = Failures - 1
           /\ w \notin Failing /\ Failing' = Failing \ {w} => Failures' = Failures
<1>1. IsFiniteSet(Failing)
  BY Numbers
<1>2. Failures = Cardinality(Failing) /\ Failures' = Cardinality(Failing')
  BY DEF Failures
<1> HIDE DEF Failures
<1>3. ASSUME w \notin Failing, Failing' = Failing \cup {w} PROVE Failures' = Failures + 1
  <2>1. Cardinality(Failing \cup {w}) = Cardinality(Failing) + 1
    BY <1>1, <1>3, FS_AddElement
  <2>2. QED
    BY <1>2, <1>3, <2>1
<1>4. ASSUME w \in Failing, Failing' = Failing \ {w} PROVE Failures' = Failures - 1
  <2>1. Cardinality(Failing \ {w}) = Cardinality(Failing) - 1
    BY <1>1, <1>4, FS_RemoveElement
  <2>2. QED
    BY <1>2, <1>4, <2>1
<1>5. ASSUME w \notin Failing, Failing' = Failing \ {w} PROVE Failures' = Failures
  <2>1. Failing \ {w} = Failing
    BY <1>5
  <2>2. QED
    BY <1>2, <1>5, <2>1
<1>6. QED
  BY <1>3, <1>4, <1>5

\* The initial states satisfy the invariant of the job.
LEMMA InitJob == ASSUME Feasible PROVE Init => JobInv
<1> SUFFICES ASSUME Init PROVE JobInv
  OBVIOUS
<1>1. Failing = {}
  BY DEF Init, Failing
<1>2. Failures = 0 /\ Faults = 0
  BY <1>1, FS_EmptySet, BoundsAssumption DEF Init, Failures, Faults
<1>3. job.state = "absent" /\ \A w \in Workers : pc[w] = "idle"
  BY DEF Init, AbsentJob
<1>4. PaidInv
  BY <1>2, <1>3 DEF PaidInv, Waiting
<1>5. ReturnInv
  BY <1>3 DEF ReturnInv, NotGivenUp, Settled
<1>6. QED
  BY <1>4, <1>5 DEF JobInv

\* A step inside an attempt keeps the books balanced: a new failure comes with
\* the fault that caused it.
LEMMA MovePaid ==
    ASSUME Feasible, SerialInv, JobInv, NEW w \in Workers, Passes(w) \/ Fails(w)
    PROVE  PaidInv'
<1>0. Moves(w) /\ PaidInv
  BY DEF Passes, Fails, JobInv
<1>1. w \notin Failing
  BY <1>0 DEF Moves, Failing
<1>2. /\ job' = job /\ attempt' = attempt /\ pc[w] # "idle" /\ pc'[w] # "idle"
      /\ \A v \in Workers : pc'[v] # "idle" <=> pc[v] # "idle"
  BY <1>0 DEF Moves
<1>3. \/ Failures' = Failures /\ Faults' = Faults
      \/ Failures' = Failures + 1 /\ Faults' = Faults + 1
  <2>1. CASE Passes(w)
    <3>1. Failing' = Failing
      BY <1>0, <1>1, <2>1 DEF Moves, Passes, Failing
    <3>2. QED
      BY <2>1, <3>1 DEF Passes, Failures, Faults
  <2>2. CASE Fails(w)
    <3>1. Failing' = Failing \cup {w}
      BY <1>0, <2>2 DEF Moves, Fails, Failing
    <3>2. budget'.errors = budget.errors - 1 /\ budget.errors \in Int /\ MaxErrors \in Int
      BY <2>2, BoundsAssumption DEF Fails, SerialInv, TypeOK, RemoteType, Budgets
    <3>3. QED
      BY <1>1, <3>1, <3>2, CountOne DEF Faults
  <2>3. QED
    BY <2>1, <2>2
<1>4. /\ Failures \in Nat /\ Faults \in Nat /\ job.attempt \in Nat
      /\ \A v \in Workers : attempt[v] \in Nat
  BY Numbers
<1> HIDE DEF Failures, Faults
<1>5. QED
  BY <1>0, <1>2, <1>3, <1>4 DEF PaidInv

\* An attempt that ended, one way or the other, is no longer counted.
LEMMA Leaves ==
    ASSUME SerialInv, NEW w \in Workers, Goto(w, "idle"),
           result' = [result EXCEPT ![w] = "ok"], attempt' = [attempt EXCEPT ![w] = 0]
    PROVE  /\ Failing' = Failing \ {w} /\ pc'[w] = "idle"
           /\ \A v \in Workers \ {w} :
                 pc'[v] = pc[v] /\ result'[v] = result[v] /\ attempt'[v] = attempt[v]
<1>1. AttemptType
  BY DEF SerialInv, TypeOK
<1>2. /\ pc'[w] = "idle"
      /\ \A v \in Workers \ {w} :
            pc'[v] = pc[v] /\ result'[v] = result[v] /\ attempt'[v] = attempt[v]
  BY <1>1 DEF AttemptType, Goto
<1>3. Failing' = Failing \ {w}
  BY <1>2 DEF Failing
<1>4. QED
  BY <1>2, <1>3

\* What River makes of a report that it still waits for: no attempt that
\* failed was the last.
LEMMA ReportOutcome ==
    ASSUME Feasible, SerialInv, JobInv, NEW w \in Workers, Report(w), job.state = "running"
    PROVE  \/ w \in Failing /\ job'.state = "retryable" /\ job'.attempt = job.attempt
           \/ w \notin Failing /\ job'.state = "scheduled" /\ job'.attempt = attempt[w] - 1
           \/ w \notin Failing /\ job'.state = "completed" /\ run.state = "completed"
<1>1. pc[w] = "report" /\ result[w] \in {"ok", "snooze", "error"}
      /\ (result[w] = "ok" => run.state = "completed")
  BY DEF Report, JobInv, ReturnInv, NotGivenUp, SerialInv, TypeOK, AttemptType, Results
<1>2. job' = Outcome(job, result[w], attempt[w], MaxAttempts)
  BY DEF Report, SettledJob
<1>3. CASE result[w] = "error"
  <2>1. w \in Failing
    BY <1>1, <1>3 DEF Failing
  <2>2. Failures # 0
    BY <2>1, Numbers, FS_EmptySet DEF Failures
  <2>3. attempt[w] + Failures <= Faults + 1
    BY <1>1 DEF JobInv, PaidInv
  <2>4. Failures \in Nat /\ Faults \in Nat /\ Faults <= MaxErrors /\ attempt[w] \in Nat
    BY Numbers
  <2>5. MaxErrors \in Nat /\ MaxAttempts \in Nat /\ MaxErrors < MaxAttempts
    BY BoundsAssumption DEF Feasible
  <2> HIDE DEF Failures, Faults
  <2>6. ~(attempt[w] >= MaxAttempts)
    BY <2>2, <2>3, <2>4, <2>5
  <2>7. job'.state = "retryable" /\ job'.attempt = job.attempt
    BY <1>2, <1>3, <2>6 DEF Outcome, AfterFailure
  <2>8. QED
    BY <2>1, <2>7
<1>4. CASE result[w] = "snooze"
  <2>1. job'.state = "scheduled" /\ job'.attempt = attempt[w] - 1
    BY <1>2, <1>4 DEF Outcome
  <2>2. QED
    BY <1>4, <2>1 DEF Failing
<1>5. CASE result[w] = "ok"
  <2>1. job'.state = "completed"
    BY <1>2, <1>5 DEF Outcome
  <2>2. QED
    BY <1>1, <1>5, <2>1 DEF Failing
<1>6. QED
  BY <1>1, <1>3, <1>4, <1>5

\* A report settles what its attempt owed.
LEMMA ReportPaid ==
    ASSUME Feasible, SerialInv, JobInv, NEW w \in Workers, Report(w)
    PROVE  PaidInv'
<1>0. PaidInv /\ Faults' = Faults /\ pc[w] # "idle"
  BY DEF JobInv, Report, Faults
<1>1. /\ Failing' = Failing \ {w} /\ pc'[w] = "idle"
      /\ \A v \in Workers \ {w} : pc'[v] = pc[v] /\ attempt'[v] = attempt[v]
  BY Leaves DEF Report
<1>2. \/ w \in Failing /\ Failures' = Failures - 1
      \/ w \notin Failing /\ Failures' = Failures
  BY <1>1, CountOne
<1>3. /\ Failures \in Nat /\ Faults \in Nat /\ job.attempt \in Nat
      /\ \A v \in Workers : attempt[v] \in Nat
  BY Numbers
<1>4. attempt[w] + Failures <= Faults + 1
  BY <1>0 DEF PaidInv
<1>5. w \in Failing => Failures # 0
  BY Numbers, FS_EmptySet DEF Failures
<1>6. CASE job.state = "running"
  <2>1. \/ w \in Failing /\ job'.state = "retryable" /\ job'.attempt = job.attempt
        \/ w \notin Failing /\ job'.state = "scheduled" /\ job'.attempt = attempt[w] - 1
        \/ w \notin Failing /\ job'.state = "completed"
    BY <1>6, ReportOutcome
  <2>2. job'.state # "running" /\ (job'.state \in Waiting => job'.state # "completed")
    BY <2>1 DEF Waiting
  <2> HIDE DEF Failures, Faults, Failing
  <2>3. job'.state \in Waiting => job'.attempt + Failures' <= Faults'
    BY <1>0, <1>2, <1>3, <1>4, <1>6, <2>1, <2>2 DEF PaidInv
  <2>4. Failures' <= Faults'
    BY <1>0, <1>2, <1>3 DEF PaidInv
  <2>5. \A v \in Workers : pc'[v] # "idle" => attempt'[v] + Failures' <= Faults' + 1
    BY <1>0, <1>1, <1>2, <1>3 DEF PaidInv
  <2>6. QED
    BY <2>2, <2>3, <2>4, <2>5 DEF PaidInv
<1>7. CASE job.state # "running"
  <2>1. job' = job
    BY <1>7 DEF Report, SettledJob
  <2> HIDE DEF Failures, Faults, Failing
  <2>2. QED
    BY <1>0, <1>1, <1>2, <1>3, <1>7, <2>1 DEF PaidInv
<1>8. QED
  BY <1>6, <1>7

\* A crash is a fault of its own.
LEMMA CrashPaid ==
    ASSUME Feasible, SerialInv, JobInv, NEW w \in Workers, Crash(w)
    PROVE  PaidInv'
<1>0. PaidInv /\ job' = job /\ pc[w] # "idle"
  BY DEF JobInv, Crash
<1>1. /\ Failing' = Failing \ {w} /\ pc'[w] = "idle"
      /\ \A v \in Workers \ {w} : pc'[v] = pc[v] /\ attempt'[v] = attempt[v]
  BY Leaves DEF Crash
<1>2. Failures' = Failures - 1 \/ Failures' = Failures
  BY <1>1, CountOne
<1>3. Faults' = Faults + 1
  <2>1. budget'.errors = budget.errors - 1
    BY SpendOne DEF Crash, SerialInv, TypeOK
  <2>2. budget.errors \in Int /\ MaxErrors \in Int
    BY BoundsAssumption DEF SerialInv, TypeOK, RemoteType, Budgets
  <2>3. QED
    BY <2>1, <2>2 DEF Faults
<1>4. /\ Failures \in Nat /\ Faults \in Nat /\ job.attempt \in Nat
      /\ \A v \in Workers : attempt[v] \in Nat
  BY Numbers
<1> HIDE DEF Failures, Faults, Failing
<1>5. QED
  BY <1>0, <1>1, <1>2, <1>3, <1>4 DEF PaidInv

\* The rescuer takes back an attempt that crashed, which was a fault, or one
\* that is still alive, which is one.
LEMMA RescuePaid ==
    ASSUME Feasible, SerialInv, JobInv, Rescue
    PROVE  PaidInv' /\ job'.state = "retryable"
<1>0. PaidInv /\ job.state = "running" /\ pc' = pc /\ attempt' = attempt /\ Failing' = Failing
  BY DEF JobInv, Rescue, Failing
<1>1. Failures' = Failures
  BY <1>0 DEF Failures
<1>2. \/ Faults' = Faults /\ job.attempt + Failures <= Faults
      \/ Faults' = Faults + 1
  <2>1. CASE (\A w \in Workers : pc[w] = "idle") /\ UNCHANGED budget
    <3>1. Failing = {} /\ Faults' = Faults
      BY <2>1 DEF Failing, Faults
    <3>2. Failures = 0
      BY <3>1, FS_EmptySet DEF Failures
    <3>3. job.attempt <= Faults /\ job.attempt \in Nat /\ Faults \in Nat
      BY <1>0, <2>1, Numbers DEF PaidInv
    <3> HIDE DEF Failures, Faults
    <3>4. QED
      BY <3>1, <3>2, <3>3
  <2>2. CASE Spend("errors")
    <3>1. budget'.errors = budget.errors - 1
      BY <2>2, SpendOne DEF SerialInv, TypeOK
    <3>2. budget.errors \in Int /\ MaxErrors \in Int
      BY BoundsAssumption DEF SerialInv, TypeOK, RemoteType, Budgets
    <3>3. QED
      BY <3>1, <3>2 DEF Faults
  <2>3. QED
    BY <2>1, <2>2 DEF Rescue
<1>3. /\ Failures \in Nat /\ Faults \in Nat /\ job.attempt \in Nat /\ Faults <= MaxErrors
      /\ \A v \in Workers : attempt[v] \in Nat
  BY Numbers
<1>4. Faults' \in Nat /\ Faults' <= MaxErrors
  <2>1. RemoteType'
    BY RemoteStep DEF Next
  <2>2. budget'.errors \in 0..MaxErrors
    BY <2>1 DEF RemoteType, Budgets
  <2>3. QED
    BY <2>2, BoundsAssumption DEF Faults
<1>5. MaxErrors \in Nat /\ MaxAttempts \in Nat /\ MaxErrors < MaxAttempts
  BY BoundsAssumption DEF Feasible
<1> HIDE DEF Failures, Faults, Failing
<1>6. job.attempt + Failures <= Faults'
  BY <1>0, <1>2, <1>3 DEF PaidInv
<1>7. ~(job.attempt >= MaxAttempts)
  BY <1>3, <1>4, <1>5, <1>6
<1>8. job' = [state |-> "retryable", attempt |-> job.attempt]
  BY <1>7 DEF Rescue, RescuedJob, AfterFailure
<1>9. job'.state = "retryable" /\ job'.attempt = job.attempt
  BY <1>8
<1>10. PaidInv'
  BY <1>0, <1>1, <1>2, <1>3, <1>6, <1>9 DEF PaidInv
<1>11. QED
  BY <1>9, <1>10

\* A new delivery is not paid for until it ends.
LEMMA FetchPaid ==
    ASSUME Feasible, SerialInv, JobInv, NEW w \in Workers, Fetch(w)
    PROVE  PaidInv' /\ job'.state = "running"
<1>0. /\ PaidInv /\ AttemptType /\ job.state \in Waiting /\ pc[w] = "idle"
      /\ result' = result /\ Faults' = Faults
  BY DEF JobInv, SerialInv, TypeOK, Fetch, Faults
<1>1. /\ pc'[w] = "load" /\ attempt'[w] = job.attempt + 1
      /\ \A v \in Workers \ {w} : pc'[v] = pc[v] /\ attempt'[v] = attempt[v]
  BY <1>0 DEF Fetch, Goto, AttemptType
<1>2. job'.state = "running" /\ job'.attempt = job.attempt + 1
  BY DEF Fetch, DeliveredJob
<1>3. Failing' = Failing
  BY <1>0, <1>1 DEF Failing
<1>4. Failures' = Failures
  BY <1>3 DEF Failures
<1>5. /\ Failures \in Nat /\ Faults \in Nat /\ job.attempt \in Nat
      /\ \A v \in Workers : attempt[v] \in Nat
  BY Numbers
<1> HIDE DEF Failures, Faults, Failing
<1>6. PaidInv'
  BY <1>0, <1>1, <1>2, <1>4, <1>5 DEF PaidInv, Waiting
<1>7. QED
  BY <1>2, <1>6

\* Every step keeps the invariant of the job.
LEMMA JobStep ==
    ASSUME Feasible, SerialInv, CopyInv, PrefixInv, JobInv, [Next]_vars
    PROVE  JobInv'
<1>0. PaidInv /\ ReturnInv /\ AttemptType /\ RemoteType
  BY DEF JobInv, SerialInv, TypeOK
<1>1. CASE EnqueueRun
  <2>1. /\ run.state = "none" /\ run'.state = "queued" /\ pc' = pc /\ result' = result
        /\ job'.state = "available" /\ job'.attempt = 0
        /\ Faults' = Faults /\ attempt' = attempt
    BY <1>1 DEF EnqueueRun, InsertedJob, Faults
  <2>2. Failures' = Failures
    BY <2>1 DEF Failures, Failing
  <2>3. Failures \in Nat /\ Faults \in Nat
    BY Numbers
  <2> HIDE DEF Failures, Faults
  <2>4. PaidInv'
    BY <1>0, <2>1, <2>2, <2>3 DEF PaidInv
  <2>5. ReturnInv'
    BY <1>0, <2>1 DEF ReturnInv, NotGivenUp, Settled
  <2>6. QED
    BY <2>4, <2>5 DEF JobInv
<1>2. CASE SavePreview \/ UNCHANGED vars
  <2>1. run' = run /\ job' = job /\ pc' = pc /\ attempt' = attempt /\ result' = result /\ budget' = budget
    BY <1>2 DEF SavePreview, vars, store
  <2>2. QED
    BY <1>0, <2>1 DEF JobInv, PaidInv, ReturnInv, NotGivenUp, Failures, Failing, Faults
<1>3. ASSUME NEW w \in Workers, Fetch(w) PROVE JobInv'
  <2>1. PaidInv' /\ job'.state = "running"
    BY <1>3, FetchPaid
  <2>2. /\ pc'[w] = "load" /\ run' = run /\ result' = result
        /\ \A v \in Workers \ {w} : pc'[v] = pc[v]
    BY <1>0, <1>3 DEF Fetch, Goto, AttemptType
  <2>3. ReturnInv'
    BY <1>0, <2>1, <2>2 DEF ReturnInv, NotGivenUp, Settled
  <2>4. QED
    BY <2>1, <2>3 DEF JobInv
<1>4. ASSUME NEW w \in Workers, Attempt(w), ~Report(w) PROVE JobInv'
  <2>1. Passes(w) \/ Fails(w)
    BY <1>4, AttemptMoves
  <2>2. PaidInv'
    BY <2>1, MovePaid
  <2>3. ReturnInv'
    BY <1>0, <2>1 DEF ReturnInv, NotGivenUp, Passes, Fails, Moves
  <2>4. QED
    BY <2>2, <2>3 DEF JobInv
<1>5. ASSUME NEW w \in Workers, Report(w) PROVE JobInv'
  <2>1. PaidInv'
    BY <1>5, ReportPaid
  <2>2. /\ run' = run /\ pc'[w] = "idle"
        /\ \A v \in Workers \ {w} : pc'[v] = pc[v] /\ result'[v] = result[v]
    BY <1>5, Leaves DEF Report
  <2>3. job'.state \in Settled => run.state = "completed"
    <3>1. CASE job.state = "running"
      BY <1>5, <3>1, ReportOutcome DEF Settled
    <3>2. CASE job.state # "running"
      BY <1>0, <1>5, <3>2 DEF Report, SettledJob, ReturnInv, NotGivenUp
    <3>3. QED
      BY <3>1, <3>2
  <2>4. ReturnInv'
    BY <1>0, <2>2, <2>3 DEF ReturnInv, NotGivenUp
  <2>5. QED
    BY <2>1, <2>4 DEF JobInv
<1>6. ASSUME NEW w \in Workers, Crash(w) PROVE JobInv'
  <2>1. PaidInv'
    BY <1>6, CrashPaid
  <2>2. /\ run' = run /\ job' = job /\ pc'[w] = "idle"
        /\ \A v \in Workers \ {w} : pc'[v] = pc[v] /\ result'[v] = result[v]
    BY <1>6, Leaves DEF Crash
  <2>3. ReturnInv'
    BY <1>0, <2>2 DEF ReturnInv, NotGivenUp
  <2>4. QED
    BY <2>1, <2>3 DEF JobInv
<1>7. CASE Rescue
  <2>1. PaidInv' /\ job'.state = "retryable"
    BY <1>7, RescuePaid
  <2>2. run' = run /\ pc' = pc /\ result' = result
    BY <1>7 DEF Rescue
  <2>3. ReturnInv'
    BY <1>0, <2>1, <2>2 DEF ReturnInv, NotGivenUp, Settled
  <2>4. QED
    BY <2>1, <2>3 DEF JobInv
<1>8. CASE LateArrives \/ Withdraw
  BY <1>0, <1>8, NothingLate DEF Feasible, LateArrives, Withdraw, Spend
<1>9. QED
  BY <1>1, <1>2, <1>3, <1>4, <1>5, <1>6, <1>7, <1>8 DEF Next

\* Fewer faults than attempts never use the job up: the snooze gives its
\* attempt back, a rescue beside a live attempt and the failure of that
\* attempt are not both charged to the job, and a report for a job that was
\* taken back meanwhile is not counted.
LEMMA JobInvariant == ASSUME Feasible PROVE Spec => []JobInv
<1>1. Reliable /\ OnePreview
  BY DEF Feasible
<1>2. Spec => [](SerialInv /\ CopyInv /\ PrefixInv)
  BY <1>1, PrefixInvariant
<1>3. Init => JobInv
  BY InitJob
<1>4. SerialInv /\ CopyInv /\ PrefixInv /\ JobInv /\ [Next]_vars => JobInv'
  BY JobStep
<1>5. QED
  BY <1>2, <1>3, <1>4, PTL DEF Spec

\* Under Feasible River never gives up a run that could still be completed: no
\* failed, crashed or rescued attempt is the last one, and a job is settled only
\* by an attempt that found or made the run completed.
THEOREM NeverGivenUp == ASSUME Feasible PROVE Spec => []NotGivenUp
<1>1. JobInv => NotGivenUp
  BY DEF JobInv, ReturnInv
<1>2. QED
  BY <1>1, JobInvariant, PTL

\* When River is done with the job the run says how it ended: updateRunState
\* was committed before Work returned what settles the job.
THEOREM SettledIsReported == ASSUME Feasible PROVE Spec => []SettledJobReported
<1>1. NotGivenUp => SettledJobReported
  BY DEF NotGivenUp, SettledJobReported
<1>2. QED
  BY <1>1, NeverGivenUp, PTL
=============================================================================
