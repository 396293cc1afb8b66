------------------------- MODULE ConnectionsProofs -------------------------
(***************************************************************************)
(* Proofs about Connections, for every set of processes and tasks, every   *)
(* pool size and every number of rotations.                                *)
(***************************************************************************)
EXTENDS Connections, FiniteSetTheorems, TLAPS

\* From the time the tokens are read to the end of the provider call.
InCall == {"refresh", "call", "commit"}

\* Only transfer attempts begin a transaction of their own, only Apple Music
\* calls load without a lock, and only Spotify calls lock the row.
PlaceInv ==
    \A t \in Tasks : /\ pc[t] = "begin" => t \in Runs
                     /\ pc[t] = "load" => t \in Apple
                     /\ pc[t] \in {"lock", "refresh", "commit"} => t \notin Apple

\* The row is locked by the Spotify call that is under way, a locked row is not
\* deleted, and tokens are replaced only under the lock.
LockInv ==
    /\ \A t \in Tasks : rowLock = t <=> t \notin Apple /\ pc[t] \in InCall
    /\ rowLock # NoTask => row = "live"
    /\ \A t \in refreshed : rowLock = t /\ pc[t] \in {"call", "commit"}

\* A free row has the token Spotify accepts; under the lock the task has it, and
\* the row too unless the task has replaced it.
TokensAgree ==
    /\ rowLock = NoTask /\ row = "live" => stored = grant
    /\ \A t \in Tasks : rowLock = t => creds[t] = grant /\ (t \notin refreshed => stored = grant)

\* So it is unless a fault has dropped a token.
TokenInv == ~lost => TokensAgree

BaseInv == TypeOK /\ PlaceInv /\ LockInv /\ TokenInv

\* The attempts of process p that River has running.
Busy(p) == {t \in Jobs : Home[t] = p /\ pc[t] # "idle"}

WorkersInv == \A p \in Processes : Cardinality(Busy(p)) <= MaxWorkers

----------------------------------------------------------------------------
(* The parts of the type invariant.                                        *)

\* The parts of TypeOK: types of the variables, holders and the pool limit.
StateType ==
    /\ pc \in [Tasks -> PCs]
    /\ row \in {"live", "gone"} /\ due \in BOOLEAN /\ lost \in BOOLEAN
    /\ rowLock \in Tasks \cup {NoTask}
    /\ stored \in RefreshTokens /\ grant \in RefreshTokens
    /\ creds \in [Tasks -> RefreshTokens]
    /\ refreshed \subseteq Tasks

\* Who holds connections, by where the tasks are.
HolderInv ==
    /\ outer = {t \in Runs : pc[t] \notin {"idle", "begin"}}
    /\ inner = {t \in Tasks : \/ pc[t] \in {"lock", "load"}
                              \/ t \notin Apple /\ pc[t] \in InCall}

\* pgxpool lends no more connections than it has.
PoolInv == \A p \in Processes : Held(p) <= PoolSize

\* TypeOK is its three parts.
LEMMA TypeParts == TypeOK <=> StateType /\ HolderInv /\ PoolInv
  BY DEF TypeOK, StateType, HolderInv, PoolInv, InCall

\* The initial states satisfy the base of the invariants.
LEMMA InitBase == Init => BaseInv
<1> SUFFICES ASSUME Init PROVE BaseInv
  OBVIOUS
<1>1. StateType
  <2>1. 0 \in RefreshTokens
    BY SizesAssumption DEF RefreshTokens
  <2>2. pc \in [Tasks -> PCs] /\ creds \in [Tasks -> RefreshTokens]
    BY <2>1 DEF Init, PCs
  <2>3. QED
    BY <2>1, <2>2 DEF Init, StateType
<1>2. HolderInv
  BY TasksAssumption DEF Init, HolderInv, InCall
<1>3. PoolInv
  <2> SUFFICES ASSUME NEW p \in Processes PROVE Held(p) <= PoolSize
    BY DEF PoolInv
  <2>1. {t \in outer : Home[t] = p} = {} /\ {t \in inner : Home[t] = p} = {}
    BY DEF Init
  <2>2. Held(p) = 0
    BY <2>1, FS_EmptySet DEF Held
  <2>3. QED
    BY <2>2, SizesAssumption
<1>4. PlaceInv /\ LockInv /\ TokenInv
  BY TasksAssumption DEF Init, PlaceInv, LockInv, TokenInv, TokensAgree, InCall
<1>5. QED
  BY <1>1, <1>2, <1>3, <1>4, TypeParts DEF BaseInv

\* A call's transaction ends: the tokens in use are forgotten.
LEMMA EndCallType ==
    ASSUME StateType, NEW t \in Tasks, EndCall(t)
    PROVE  /\ rowLock' \in Tasks \cup {NoTask} /\ creds' \in [Tasks -> RefreshTokens]
           /\ refreshed' \subseteq Tasks
  BY SizesAssumption DEF StateType, EndCall, RefreshTokens

\* The variables keep their types.
LEMMA StateStep == StateType /\ [Next]_vars => StateType'
<1> SUFFICES ASSUME StateType, [Next]_vars PROVE StateType'
  OBVIOUS
<1>1. ASSUME NEW t \in Tasks, NEW place \in PCs, Goto(t, place) PROVE pc' \in [Tasks -> PCs]
  BY <1>1 DEF Goto, StateType
<1>2. ASSUME NEW t \in Tasks, Start(t) PROVE StateType'
  <2>1. pc' \in [Tasks -> PCs]
    BY <1>1, <1>2 DEF Start, PCs, Waits
  <2>2. QED
    BY <1>2, <2>1 DEF Start, StateType, rowVars, workVars
<1>3. ASSUME NEW t \in Tasks,
             BeginRun(t) \/ NextCall(t) \/ Finish(t) \/ Acquire(t) \/ Load(t)
             \/ Answered(t) \/ Unauthorized(t) \/ AppleAnswered(t)
      PROVE  StateType'
  <2>1. pc' \in [Tasks -> PCs]
    BY <1>1, <1>3
    DEF BeginRun, NextCall, Finish, Acquire, Load, Answered, Unauthorized, AppleAnswered, PCs, Waits
  <2>2. UNCHANGED <<rowVars, rowLock, workVars, grant, lost>>
    BY <1>3 DEF BeginRun, NextCall, Finish, Acquire, Load, Answered, Unauthorized, AppleAnswered
  <2>3. QED
    BY <2>1, <2>2 DEF StateType, rowVars, workVars
<1>4. ASSUME NEW t \in Tasks, LockRow(t) PROVE StateType'
  <2>1. pc' \in [Tasks -> PCs]
    BY <1>1, <1>4 DEF LockRow, PCs
  <2>2. QED
    BY <1>4, <2>1 DEF LockRow, StateType, rowVars
<1>5. ASSUME NEW t \in Tasks, RefreshTokensNow(t) PROVE StateType'
  <2>1. pc' \in [Tasks -> PCs]
    BY <1>1, <1>5 DEF RefreshTokensNow, PCs
  <2>2. PICK answer \in Answers : grant' = answer /\ creds' = [creds EXCEPT ![t] = answer]
    BY <1>5 DEF RefreshTokensNow
  <2>3. answer \in RefreshTokens
    BY SizesAssumption DEF Answers, RefreshTokens, StateType
  <2>4. QED
    BY <1>5, <2>1, <2>2, <2>3 DEF RefreshTokensNow, StateType, rowVars
<1>6. ASSUME NEW t \in Tasks,
             NoConnection(t) \/ RefreshRefused(t) \/ RefreshReplyLost(t) \/ Commit(t) \/ CommitFails(t)
      PROVE  StateType'
  <2>1. pc' \in [Tasks -> PCs]
    BY <1>1, <1>6 DEF NoConnection, RefreshRefused, RefreshReplyLost, Commit, CommitFails, PCs
  <2>2. EndCall(t)
    BY <1>6 DEF NoConnection, RefreshRefused, RefreshReplyLost, Commit, CommitFails
  <2>3. row' \in {"live", "gone"} /\ lost' \in BOOLEAN
    BY <1>6
    DEF StateType, NoConnection, RefreshRefused, RefreshReplyLost, Commit, CommitFails, rowVars
  <2>4. due' \in BOOLEAN
    <3>1. due' = due \/ due' = FALSE
      BY <1>6 DEF NoConnection, RefreshRefused, RefreshReplyLost, Commit, CommitFails, rowVars
    <3>2. QED
      BY <3>1 DEF StateType
  <2>5. stored' \in RefreshTokens /\ grant' \in RefreshTokens
    <3>1. stored' \in {stored, creds[t]} /\ (grant' = grant \/ (grant' = grant + 1 /\ grant + 1 <= MaxRotations))
      BY <1>6 DEF NoConnection, RefreshRefused, RefreshReplyLost, Commit, CommitFails, rowVars
    <3>2. QED
      BY <3>1, SizesAssumption DEF StateType, RefreshTokens
  <2>6. QED
    BY <2>1, <2>2, <2>3, <2>4, <2>5, EndCallType DEF StateType
<1>7. ASSUME NEW gone, Ends(gone) PROVE StateType'
  <2>1. pc' \in [Tasks -> PCs] /\ creds' \in [Tasks -> RefreshTokens]
    BY <1>7, SizesAssumption DEF StateType, Ends, PCs, RefreshTokens
  <2>2. rowLock' \in Tasks \cup {NoTask} /\ refreshed' \subseteq Tasks /\ lost' \in BOOLEAN
    BY <1>7 DEF StateType, Ends
  <2>3. UNCHANGED <<rowVars, grant>>
    BY <1>7 DEF Ends
  <2>4. QED
    BY <2>1, <2>2, <2>3 DEF StateType, rowVars
<1>8. CASE Expire \/ Disconnect
  BY <1>8 DEF Expire, Disconnect, StateType, workVars
<1>9. CASE UNCHANGED vars
  BY <1>9 DEF StateType, vars, rowVars, workVars
<1>10. QED
  BY <1>2, <1>3, <1>4, <1>5, <1>6, <1>7, <1>8, <1>9
  DEF Next, Work, Granted, Fault, Cancelled, Crash

----------------------------------------------------------------------------
(* Places and holders.                                                     *)

\* A task goes only to the places its kind of call has.
LEMMA PlaceStep == StateType /\ PlaceInv /\ [Next]_vars => PlaceInv'
<1> SUFFICES ASSUME StateType, PlaceInv, [Next]_vars PROVE PlaceInv'
  OBVIOUS
<1>1. ASSUME NEW t \in Tasks,
             Start(t) \/ BeginRun(t) \/ NextCall(t) \/ Finish(t) \/ Acquire(t) \/ Load(t)
             \/ Answered(t) \/ Unauthorized(t) \/ AppleAnswered(t)
      PROVE  PlaceInv'
  BY <1>1
  DEF Start, BeginRun, NextCall, Finish, Acquire, Load, Answered, Unauthorized, AppleAnswered,
      Goto, StateType, PlaceInv
<1>2. ASSUME NEW t \in Tasks,
             LockRow(t) \/ RefreshTokensNow(t) \/ NoConnection(t) \/ RefreshRefused(t)
             \/ RefreshReplyLost(t) \/ Commit(t) \/ CommitFails(t)
      PROVE  PlaceInv'
  BY <1>2
  DEF LockRow, RefreshTokensNow, NoConnection, RefreshRefused, RefreshReplyLost, Commit,
      CommitFails, Goto, StateType, PlaceInv
<1>3. ASSUME NEW gone, Ends(gone) PROVE PlaceInv'
  BY <1>3 DEF Ends, StateType, PlaceInv
<1>4. CASE UNCHANGED pc
  BY <1>4 DEF PlaceInv
<1>5. QED
  BY <1>1, <1>2, <1>3, <1>4
  DEF Next, Work, Granted, Fault, Cancelled, Crash, Expire, Disconnect, vars

\* A connection is taken and given back where the task's place changes.
LEMMA HolderStep == StateType /\ PlaceInv /\ HolderInv /\ [Next]_vars => HolderInv'
<1> SUFFICES ASSUME StateType, PlaceInv, HolderInv, [Next]_vars PROVE HolderInv'
  OBVIOUS
<1> USE TasksAssumption
<1>1. ASSUME NEW t \in Tasks, Start(t) \/ BeginRun(t) \/ NextCall(t) \/ Finish(t) PROVE HolderInv'
  BY <1>1 DEF Start, BeginRun, NextCall, Finish, Goto, StateType, PlaceInv, HolderInv, poolVars, InCall
<1>2. ASSUME NEW t \in Tasks, Acquire(t) \/ Load(t) PROVE HolderInv'
  BY <1>2 DEF Acquire, Load, Goto, StateType, PlaceInv, HolderInv, InCall
<1>3. ASSUME NEW t \in Tasks,
             Answered(t) \/ Unauthorized(t) \/ AppleAnswered(t) \/ LockRow(t) \/ RefreshTokensNow(t)
      PROVE  HolderInv'
  BY <1>3
  DEF Answered, Unauthorized, AppleAnswered, LockRow, RefreshTokensNow, Goto, StateType, PlaceInv,
      HolderInv, poolVars, InCall
<1>4. ASSUME NEW t \in Tasks,
             NoConnection(t) \/ RefreshRefused(t) \/ RefreshReplyLost(t) \/ Commit(t) \/ CommitFails(t)
      PROVE  HolderInv'
  BY <1>4
  DEF NoConnection, RefreshRefused, RefreshReplyLost, Commit, CommitFails, EndCall, Goto, StateType,
      PlaceInv, HolderInv, InCall
<1>5. ASSUME NEW gone, Ends(gone) PROVE HolderInv'
  BY <1>5 DEF Ends, StateType, HolderInv, InCall
<1>6. CASE UNCHANGED <<pc, poolVars>>
  BY <1>6 DEF HolderInv, poolVars
<1>7. QED
  BY <1>1, <1>2, <1>3, <1>4, <1>5, <1>6
  DEF Next, Work, Granted, Fault, Cancelled, Crash, Expire, Disconnect, vars

----------------------------------------------------------------------------
(* The pools.                                                              *)

\* The connections one process has lent, to transactions and to calls inside.
OuterOf(p) == {t \in outer : Home[t] = p}
InnerOf(p) == {t \in inner : Home[t] = p}

\* The holders are finitely many.
LEMMA HoldersFinite ==
    ASSUME HolderInv, NEW p \in Processes
    PROVE  /\ IsFiniteSet(OuterOf(p)) /\ Cardinality(OuterOf(p)) \in Nat
           /\ IsFiniteSet(InnerOf(p)) /\ Cardinality(InnerOf(p)) \in Nat
           /\ Held(p) = Cardinality(OuterOf(p)) + Cardinality(InnerOf(p))
<1>1. OuterOf(p) \subseteq Tasks /\ InnerOf(p) \subseteq Tasks
  BY TasksAssumption DEF HolderInv, OuterOf, InnerOf
<1>2. IsFiniteSet(OuterOf(p)) /\ IsFiniteSet(InnerOf(p))
  BY <1>1, TasksAssumption, FS_Subset
<1>3. QED
  BY <1>2, FS_CardinalityType DEF Held, OuterOf, InnerOf

\* One connection is taken at a time, and only from a pool that has one left.
LEMMA PoolStep == StateType /\ PlaceInv /\ HolderInv /\ PoolInv /\ [Next]_vars => PoolInv'
<1> SUFFICES ASSUME StateType, PlaceInv, HolderInv, PoolInv, [Next]_vars, NEW p \in Processes
             PROVE  Held(p)' <= PoolSize
  BY DEF PoolInv
<1>0. /\ Cardinality(OuterOf(p)) \in Nat /\ Cardinality(InnerOf(p)) \in Nat
      /\ IsFiniteSet(OuterOf(p)) /\ IsFiniteSet(InnerOf(p))
      /\ Held(p) = Cardinality(OuterOf(p)) + Cardinality(InnerOf(p)) /\ Held(p) <= PoolSize
  BY HoldersFinite DEF PoolInv
<1>1. /\ Cardinality(OuterOf(p)') \in Nat /\ Cardinality(InnerOf(p)') \in Nat
      /\ Held(p)' = Cardinality(OuterOf(p)') + Cardinality(InnerOf(p)')
  <2>1. HolderInv'
    BY HolderStep
  <2>2. OuterOf(p)' \subseteq Tasks /\ InnerOf(p)' \subseteq Tasks
    BY <2>1, TasksAssumption DEF HolderInv, OuterOf, InnerOf
  <2>3. IsFiniteSet(OuterOf(p)') /\ IsFiniteSet(InnerOf(p)')
    BY <2>2, TasksAssumption, FS_Subset
  <2>4. QED
    BY <2>3, FS_CardinalityType DEF Held, OuterOf, InnerOf
<1>2. ASSUME NEW S, IsFiniteSet(S), NEW t
      PROVE  Cardinality(S \cup {t}) = Cardinality(S) \/ Cardinality(S \cup {t}) = Cardinality(S) + 1
  BY <1>2, FS_AddElement, Zenon
<1>3. ASSUME NEW t \in Tasks, BeginRun(t) PROVE Held(p)' <= PoolSize
  <2>1. InnerOf(p)' = InnerOf(p)
    BY <1>3 DEF BeginRun, InnerOf
  <2>2. CASE Home[t] = p
    <3>1. OuterOf(p)' = OuterOf(p) \cup {t} /\ Held(p) < PoolSize
      BY <1>3, <2>2 DEF BeginRun, OuterOf, PoolFree
    <3>2. Cardinality(OuterOf(p)') = Cardinality(OuterOf(p))
          \/ Cardinality(OuterOf(p)') = Cardinality(OuterOf(p)) + 1
      BY <1>0, <1>2, <3>1
    <3>3. QED
      BY <1>0, <1>1, <2>1, <3>1, <3>2, SizesAssumption
  <2>3. CASE Home[t] # p
    <3>1. OuterOf(p)' = OuterOf(p)
      BY <1>3, <2>3 DEF BeginRun, OuterOf
    <3>2. QED
      BY <1>0, <1>1, <2>1, <3>1
  <2>4. QED
    BY <2>2, <2>3
<1>4. ASSUME NEW t \in Tasks, Acquire(t) PROVE Held(p)' <= PoolSize
  <2>1. OuterOf(p)' = OuterOf(p)
    BY <1>4 DEF Acquire, OuterOf
  <2>2. CASE Home[t] = p
    <3>1. InnerOf(p)' = InnerOf(p) \cup {t} /\ Held(p) < PoolSize
      BY <1>4, <2>2 DEF Acquire, InnerOf, PoolFree
    <3>2. Cardinality(InnerOf(p)') = Cardinality(InnerOf(p))
          \/ Cardinality(InnerOf(p)') = Cardinality(InnerOf(p)) + 1
      BY <1>0, <1>2, <3>1
    <3>3. QED
      BY <1>0, <1>1, <2>1, <3>1, <3>2, SizesAssumption
  <2>3. CASE Home[t] # p
    <3>1. InnerOf(p)' = InnerOf(p)
      BY <1>4, <2>3 DEF Acquire, InnerOf
    <3>2. QED
      BY <1>0, <1>1, <2>1, <3>1
  <2>4. QED
    BY <2>2, <2>3
<1>5. CASE outer' \subseteq outer /\ inner' \subseteq inner
  <2>1. OuterOf(p)' \subseteq OuterOf(p) /\ InnerOf(p)' \subseteq InnerOf(p)
    BY <1>5 DEF OuterOf, InnerOf
  <2>2. /\ Cardinality(OuterOf(p)') <= Cardinality(OuterOf(p))
        /\ Cardinality(InnerOf(p)') <= Cardinality(InnerOf(p))
    BY <1>0, <2>1, FS_Subset
  <2>3. QED
    BY <1>0, <1>1, <2>2, SizesAssumption
<1>6. QED
  BY <1>3, <1>4, <1>5
  DEF Next, Start, Work, Granted, Fault, NextCall, Finish, Load, RefreshTokensNow, RefreshRefused,
      Answered, Unauthorized, AppleAnswered, Commit, LockRow, NoConnection, RefreshReplyLost,
      CommitFails, Cancelled, Crash, Ends, EndCall, Expire, Disconnect, vars, poolVars

----------------------------------------------------------------------------
(* The row lock and the tokens.                                            *)

\* The lock follows the Spotify call; a crash or a deadline frees it.
LEMMA LockStep == StateType /\ PlaceInv /\ LockInv /\ [Next]_vars => LockInv'
<1> SUFFICES ASSUME StateType, PlaceInv, LockInv, [Next]_vars PROVE LockInv'
  OBVIOUS
<1> USE TasksAssumption
<1>1. ASSUME NEW t \in Tasks,
             Start(t) \/ BeginRun(t) \/ NextCall(t) \/ Finish(t) \/ Acquire(t) \/ Load(t)
             \/ AppleAnswered(t)
      PROVE  LockInv'
  <2>1. pc[t] \notin InCall \/ t \in Apple
    BY <1>1 DEF Start, BeginRun, NextCall, Finish, Acquire, Load, AppleAnswered, InCall
  <2>2. PICK place \in PCs : Goto(t, place) /\ (place \notin InCall \/ t \in Apple)
    BY <1>1
    DEF Start, BeginRun, NextCall, Finish, Acquire, Load, AppleAnswered, InCall, PCs, Waits, PlaceInv
  <2>3. UNCHANGED <<rowVars, rowLock, workVars>>
    BY <1>1 DEF Start, BeginRun, NextCall, Finish, Acquire, Load, AppleAnswered
  <2>4. t \notin refreshed
    BY <2>1 DEF LockInv, InCall
  <2>5. QED
    BY <2>1, <2>2, <2>3, <2>4 DEF Goto, StateType, LockInv, rowVars, workVars
<1>2. ASSUME NEW t \in Tasks, Answered(t) \/ Unauthorized(t) PROVE LockInv'
  BY <1>2 DEF Answered, Unauthorized, Goto, StateType, LockInv, rowVars, workVars, InCall
<1>3. ASSUME NEW t \in Tasks, LockRow(t) PROVE LockInv'
  BY <1>3 DEF LockRow, RowFree, Goto, StateType, PlaceInv, LockInv, rowVars, InCall
<1>4. ASSUME NEW t \in Tasks, RefreshTokensNow(t) PROVE LockInv'
  BY <1>4 DEF RefreshTokensNow, Goto, StateType, PlaceInv, LockInv, rowVars, InCall
<1>5. ASSUME NEW t \in Tasks,
             NoConnection(t) \/ RefreshRefused(t) \/ RefreshReplyLost(t) \/ Commit(t) \/ CommitFails(t)
      PROVE  LockInv'
  <2>1. EndCall(t) /\ Goto(t, "ready") /\ row' = row
    BY <1>5 DEF NoConnection, RefreshRefused, RefreshReplyLost, Commit, CommitFails, rowVars
  <2>2. QED
    BY <2>1 DEF EndCall, Goto, StateType, LockInv, InCall
<1>6. ASSUME NEW gone, Ends(gone) PROVE LockInv'
  BY <1>6 DEF Ends, StateType, LockInv, InCall, rowVars
<1>7. CASE Expire \/ Disconnect \/ UNCHANGED vars
  BY <1>7 DEF Expire, Disconnect, RowFree, LockInv, workVars, vars, rowVars
<1>8. QED
  BY <1>1, <1>2, <1>3, <1>4, <1>5, <1>6, <1>7
  DEF Next, Work, Granted, Fault, Cancelled, Crash

\* A call's transaction ends without a commit: the row keeps the accepted token
\* unless the fault is recorded.
LEMMA RollbackKeeps ==
    ASSUME StateType, LockInv, TokenInv, NEW t \in Tasks, ~lost,
           rowLock = t, ~Unsaved(t)
    PROVE  stored = grant
  BY DEF TokenInv, TokensAgree, Unsaved

\* Without a fault, the row's token and Spotify's stay the same one.
LEMMA TokenStep == StateType /\ PlaceInv /\ LockInv /\ TokenInv /\ [Next]_vars => TokenInv'
<1> SUFFICES ASSUME StateType, PlaceInv, LockInv, TokenInv, [Next]_vars, ~lost'
             PROVE  TokensAgree'
  BY DEF TokenInv
<1> USE TasksAssumption DEF TokensAgree
<1>1. CASE UNCHANGED <<row, stored, rowLock, workVars, grant, lost>>
  BY <1>1 DEF TokenInv, workVars
<1>2. ASSUME NEW t \in Tasks, LockRow(t) PROVE TokensAgree'
  BY <1>2 DEF LockRow, RowFree, StateType, TokenInv, rowVars
<1>3. ASSUME NEW t \in Tasks, RefreshTokensNow(t) PROVE TokensAgree'
  <2>1. rowLock = t /\ rowLock' = t
    BY <1>3 DEF RefreshTokensNow, PlaceInv, LockInv, InCall
  <2>2. creds'[t] = grant' /\ t \in refreshed'
    BY <1>3 DEF RefreshTokensNow, StateType
  <2>3. QED
    BY <2>1, <2>2
<1>4. ASSUME NEW t \in Tasks, NoConnection(t) PROVE TokensAgree'
  <2>1. UNCHANGED <<row, stored, rowLock, grant, lost>> /\ rowLock = NoTask
    BY <1>4 DEF NoConnection, EndCall, RowFree, rowVars
  <2>2. QED
    BY <2>1 DEF TokenInv
<1>5. ASSUME NEW t \in Tasks, RefreshRefused(t) PROVE TokensAgree'
  <2>1. rowLock = t /\ t \notin refreshed
    BY <1>5 DEF RefreshRefused, PlaceInv, LockInv, InCall
  <2>2. UNCHANGED <<row, stored, grant, lost>> /\ rowLock' = NoTask
    BY <1>5, <2>1 DEF RefreshRefused, EndCall, rowVars
  <2>3. QED
    BY <2>1, <2>2 DEF TokenInv
<1>6. ASSUME NEW t \in Tasks, Commit(t) PROVE TokensAgree'
  <2>1. rowLock = t
    BY <1>6 DEF Commit, PlaceInv, LockInv, InCall
  <2>2. stored' = creds[t] /\ UNCHANGED <<grant, lost>> /\ rowLock' = NoTask
    BY <1>6, <2>1 DEF Commit, EndCall
  <2>3. QED
    BY <2>1, <2>2 DEF TokenInv
<1>7. ASSUME NEW t \in Tasks, CommitFails(t) PROVE TokensAgree'
  <2>1. rowLock = t
    BY <1>7 DEF CommitFails, PlaceInv, LockInv, InCall
  <2>2. UNCHANGED <<row, stored, grant>> /\ rowLock' = NoTask /\ ~lost /\ ~Unsaved(t)
    BY <1>7, <2>1 DEF CommitFails, EndCall, rowVars
  <2>3. QED
    BY <2>1, <2>2, RollbackKeeps
<1>8. ASSUME NEW gone \in SUBSET Tasks, Ends(gone) PROVE TokensAgree'
  <2>1. UNCHANGED <<row, stored, grant>> /\ ~lost /\ \A t \in gone : ~Unsaved(t)
    BY <1>8 DEF Ends, rowVars
  <2>2. CASE rowLock \in gone
    <3>1. rowLock' = NoTask /\ stored = grant
      BY <1>8, <2>1, <2>2, RollbackKeeps DEF Ends
    <3>2. QED
      BY <2>1, <3>1
  <2>3. CASE rowLock \notin gone
    <3>1. rowLock' = rowLock /\ \A t \in Tasks : rowLock = t =>
             creds'[t] = creds[t] /\ (t \in refreshed' <=> t \in refreshed)
      BY <1>8, <2>3 DEF Ends, StateType
    <3>2. QED
      BY <2>1, <3>1 DEF TokenInv
  <2>4. QED
    BY <2>2, <2>3
<1>9. CASE Disconnect
  BY <1>9 DEF Disconnect, RowFree, TokenInv
<1>10. ASSUME NEW t \in Tasks, RefreshReplyLost(t) PROVE FALSE
  BY <1>10 DEF RefreshReplyLost
<1>11. ASSUME NEW t \in Tasks,
              Start(t) \/ BeginRun(t) \/ NextCall(t) \/ Finish(t) \/ Acquire(t) \/ Load(t)
              \/ Answered(t) \/ Unauthorized(t) \/ AppleAnswered(t)
       PROVE  UNCHANGED <<row, stored, rowLock, workVars, grant, lost>>
  BY <1>11
  DEF Start, BeginRun, NextCall, Finish, Acquire, Load, Answered, Unauthorized, AppleAnswered, rowVars
<1>12. CASE Expire \/ UNCHANGED vars
  BY <1>1, <1>12 DEF Expire, vars, rowVars
<1>13. QED
  BY <1>1, <1>2, <1>3, <1>4, <1>5, <1>6, <1>7, <1>8, <1>9, <1>10, <1>11, <1>12
  DEF Next, Work, Granted, Fault, Cancelled, Crash

\* The base of the invariants is inductive.
LEMMA BaseInvariant == Spec => []BaseInv
<1>1. BaseInv /\ [Next]_vars => BaseInv'
  <2> SUFFICES ASSUME BaseInv, [Next]_vars PROVE BaseInv'
    OBVIOUS
  <2>1. StateType /\ HolderInv /\ PoolInv /\ PlaceInv /\ LockInv /\ TokenInv
    BY TypeParts DEF BaseInv
  <2>2. StateType' /\ HolderInv' /\ PoolInv' /\ PlaceInv' /\ LockInv' /\ TokenInv'
    BY <2>1, StateStep, HolderStep, PoolStep, PlaceStep, LockStep, TokenStep
  <2>3. TypeOK'
    BY <2>2 DEF TypeOK, StateType, HolderInv, PoolInv, InCall
  <2>4. QED
    BY <2>2, <2>3 DEF BaseInv
<1>2. QED
  BY InitBase, <1>1, PTL DEF Spec

\* Connections are held exactly where the code holds them, and no pool ever
\* hands out more than MaxConns, for every size and number of tasks.
THEOREM TypeInvariant == Spec => []TypeOK
<1>1. BaseInv => TypeOK
  BY DEF BaseInv
<1>2. QED
  BY BaseInvariant, <1>1, PTL

\* Without a lost answer or a failed commit, a free row has the refresh token
\* that Spotify accepts, however tasks of several processes interleave and
\* whatever their resource requests answer.
THEOREM RotationIsKept == Spec => []RotationKept
<1>1. BaseInv => RotationKept
  BY DEF BaseInv, TokenInv, TokensAgree, RotationKept, RowFree
<1>2. QED
  BY BaseInvariant, <1>1, PTL

\* No task presents a refresh token that another one has already used up.
THEOREM TokensNotReplayed == Spec => []NoReplay
<1>1. BaseInv => NoReplay
  BY DEF BaseInv, PlaceInv, LockInv, TokenInv, TokensAgree, NoReplay, InCall
<1>2. QED
  BY BaseInvariant, <1>1, PTL

----------------------------------------------------------------------------
(* The pool's size against the number of workers.                          *)

\* The busy workers of a process are finitely many.
LEMMA BusyFinite ==
    ASSUME NEW p \in Processes
    PROVE  IsFiniteSet(Busy(p)) /\ Cardinality(Busy(p)) \in Nat
<1>1. Busy(p) \subseteq Tasks
  BY TasksAssumption DEF Busy
<1>2. QED
  BY <1>1, TasksAssumption, FS_Subset, FS_CardinalityType

\* River keeps its limit on running attempts; crashes and deadlines only free
\* workers.
LEMMA WorkersStep == StateType /\ WorkersInv /\ [Next]_vars => WorkersInv'
<1> SUFFICES ASSUME StateType, WorkersInv, [Next]_vars, NEW p \in Processes
             PROVE  Cardinality(Busy(p)') <= MaxWorkers
  BY DEF WorkersInv
<1>0. IsFiniteSet(Busy(p)) /\ Cardinality(Busy(p)) \in Nat /\ Cardinality(Busy(p)) <= MaxWorkers
  BY BusyFinite DEF WorkersInv
<1>1. Cardinality(Busy(p)') \in Nat
  <2>1. Busy(p)' \subseteq Tasks
    BY TasksAssumption DEF Busy
  <2>2. QED
    BY <2>1, TasksAssumption, FS_Subset, FS_CardinalityType
<1>2. CASE Busy(p)' \subseteq Busy(p)
  <2>1. Cardinality(Busy(p)') <= Cardinality(Busy(p))
    BY <1>0, <1>2, FS_Subset
  <2>2. QED
    BY <1>0, <1>1, <2>1, SizesAssumption
<1>3. ASSUME NEW t \in Tasks, Start(t) PROVE Cardinality(Busy(p)') <= MaxWorkers
  <2>1. CASE t \in Jobs /\ Home[t] = p
    <3>1. Cardinality(Busy(p)) < MaxWorkers
      BY <1>3, <2>1 DEF Start, WorkerFree, Busy
    <3>2. Busy(p)' = Busy(p) \cup {t}
      BY <1>3, <2>1 DEF Start, Goto, Busy, StateType
    <3>3. Cardinality(Busy(p) \cup {t}) = Cardinality(Busy(p))
          \/ Cardinality(Busy(p) \cup {t}) = Cardinality(Busy(p)) + 1
      BY <1>0, FS_AddElement, Zenon
    <3>4. QED
      BY <1>0, <1>1, <3>1, <3>2, <3>3, SizesAssumption
  <2>2. CASE ~(t \in Jobs /\ Home[t] = p)
    <3>1. Busy(p)' \subseteq Busy(p)
      BY <1>3, <2>2, TasksAssumption DEF Start, Goto, Busy, StateType
    <3>2. QED
      BY <1>2, <3>1
  <2>3. QED
    BY <2>1, <2>2
<1>4. ASSUME NEW t \in Tasks, Work(t) \/ Granted(t) \/ Fault(t) PROVE Busy(p)' \subseteq Busy(p)
  BY <1>4, TasksAssumption
  DEF Work, Granted, Fault, NextCall, Finish, Load, RefreshTokensNow, RefreshRefused, Answered,
      Unauthorized, AppleAnswered, Commit, BeginRun, Acquire, LockRow, NoConnection,
      RefreshReplyLost, CommitFails, Cancelled, Ends, Goto, Busy, StateType
<1>5. ASSUME NEW q \in Processes, Crash(q) PROVE Busy(p)' \subseteq Busy(p)
  BY <1>5, TasksAssumption DEF Crash, Ends, Busy
<1>6. CASE UNCHANGED pc
  BY <1>2, <1>6 DEF Busy
<1>7. QED
  BY <1>2, <1>3, <1>4, <1>5, <1>6 DEF Next, Expire, Disconnect, vars

\* With fewer workers than pooled connections (4 and 10 as deployed), attempts
\* that each hold a connection and wait for a second one never exhaust a pool.
THEOREM PoolNeverStalls == ASSUME MaxWorkers < PoolSize PROVE Spec => []PoolNotStalled
<1>1. Init => WorkersInv
  <2> SUFFICES ASSUME Init, NEW p \in Processes PROVE Cardinality(Busy(p)) <= MaxWorkers
    BY DEF WorkersInv
  <2>1. Busy(p) = {}
    BY TasksAssumption DEF Init, Busy
  <2>2. QED
    BY <2>1, FS_EmptySet, SizesAssumption
<1>2. BaseInv => StateType
  BY TypeParts DEF BaseInv
<1>3. ASSUME BaseInv, WorkersInv PROVE PoolNotStalled
  <2> SUFFICES ASSUME NEW p \in Processes, Held(p) = PoolSize,
                      \A t \in outer \cup inner : Home[t] = p => pc[t] = "acquire"
               PROVE  FALSE
    BY DEF PoolNotStalled
  <2>1. StateType /\ HolderInv
    BY <1>3, TypeParts DEF BaseInv
  <2>2. InnerOf(p) = {}
    BY <2>1 DEF HolderInv, InnerOf, InCall
  <2>3. OuterOf(p) \subseteq Busy(p)
    BY <2>1, TasksAssumption DEF HolderInv, OuterOf, Busy
  <2>4. Cardinality(OuterOf(p)) <= Cardinality(Busy(p)) /\ Cardinality(Busy(p)) \in Nat
    BY <2>3, BusyFinite, FS_Subset
  <2>5. Held(p) = Cardinality(OuterOf(p)) /\ Cardinality(OuterOf(p)) \in Nat
    BY <2>1, <2>2, HoldersFinite, FS_EmptySet
  <2>6. Cardinality(Busy(p)) <= MaxWorkers
    BY <1>3 DEF WorkersInv
  <2>7. QED
    BY <2>4, <2>5, <2>6, SizesAssumption
<1>4. QED
  BY <1>1, <1>2, <1>3, BaseInvariant, WorkersStep, PTL DEF Spec
=============================================================================
