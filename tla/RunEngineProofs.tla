--------------------------- MODULE RunEngineProofs ---------------------------
(***************************************************************************)
(* Proofs about RunEngine for every set of runs and workers, both kinds of *)
(* isolation and every combination of failures: its invariants, and that   *)
(* it implements RunLifecycle and ProcessLife.                             *)
(***************************************************************************)
EXTENDS RunEngine, TLAPS

\* Closing or terminating a job leaves proc well typed.
LEMMA DoomType ==
  ASSUME TypeOK, NEW r \in Runs, Doom(r)
  PROVE  proc' \in [Runs -> ProcStates]
<1>1. proc[r] \in ProcStates /\ "dying" \in ProcStates
  BY DEF TypeOK, ProcStates
<1> DEFINE p == IF proc[r] = "alive" THEN "dying" ELSE proc[r]
<1>2. p \in ProcStates
  BY <1>1
<1>3. proc' = [proc EXCEPT ![r] = p]
  BY DEF Doom, TypeOK
<1> HIDE DEF p
<1> QED BY <1>2, <1>3 DEF TypeOK

\* _finish leaves the table well typed and touches the state only.
LEMMA FinishType ==
  ASSUME TypeOK, NEW r \in Runs, NEW s \in FINAL_STATES \cup {"running"}, Finish(r, s)
  PROVE  /\ state' \in [Runs -> RowStates]
         /\ UNCHANGED <<created_at, clock, seen>>
<1> DEFINE p == IF state[r] = "removed" THEN state[r] ELSE s
<1>1. p \in RowStates
  BY DEF TypeOK, RowStates, Unclaimed, FINAL_STATES
<1>2. state' = [state EXCEPT ![r] = p]
  BY DEF Finish, TypeOK
<1> HIDE DEF p
<1> QED BY <1>1, <1>2 DEF TypeOK, Finish

\* The session variables of TypeOK.
SessionType ==
  /\ lock \in Workers \cup {NoWorker}
  /\ pc \in [Workers -> PCs]
  /\ mode \in [Workers -> {"none", "queue", "direct"}]
  /\ cur \in [Workers -> Runs \cup {NoRun}]
  /\ verdict \in [Workers -> FINAL_STATES \cup {"none"}]
  /\ expired \in [Workers -> BOOLEAN]

\* The end of execute_run leaves the session variables well typed.
LEMMA ReturnType ==
  ASSUME TypeOK, NEW w \in Workers, Return(w)
  PROVE  SessionType'
BY DEF TypeOK, SessionType, Return, Release, Goto, PCs

\* A claim gives the session a run that never had a process, and no other
\* session attends one.
LEMMA ClaimProc ==
  ASSUME IInv, NEW w \in Workers, NEW r \in Runs, pc[w] \in PCs \ (Exec \cup {"idle"}), state[r] = "queued", Claim(w, r)
  PROVE ProcInv'
<1>1. proc[r] = "none"
  BY DEF IInv, ProcInv, Unclaimed
<1>2. \A v \in Workers \ {w} : pc[v] = "idle" /\ pc'[v] = "idle"
  BY DEF IInv, HolderInv, TypeOK, Claim, Goto
<1>3. pc'[w] = "validate" /\ cur'[w] = r /\ state'[r] = "starting"
  BY DEF IInv, TypeOK, Claim, Goto
<1>4. \A q \in Runs : proc[q] # "alive"
  BY <1>2 DEF IInv, ProcInv, Exec, Attending
<1> QED BY <1>1, <1>2, <1>3, <1>4 DEF IInv, ProcInv, TypeOK, Claim, Launching, Exec, Attending, Unclaimed
-----------------------------------------------------------------------------
(* IInv is inductive: one lemma per group of actions, one step per action. *)

\* Nothing has been enqueued, nobody holds the mutex.
LEMMA InitIInv == Init => IInv
BY ConstantsAssumption DEF Init, IInv, TypeOK, HolderInv, CurInv, ProcInv, VerdictInv,
   Chosen, Exec, Launching, Attending, PCs, RowStates, Unclaimed, FINAL_STATES, ProcStates, Gone, Cancellable

\* The operator.
LEMMA OperatorStep ==
  ASSUME IInv, NEW r \in Runs, Operator(r)
  PROVE  IInv'
<1> USE DEF IInv, TypeOK, HolderInv, CurInv, ProcInv, VerdictInv,
             Chosen, Exec, Launching, Attending, PCs, RowStates, Unclaimed, FINAL_STATES,
             ProcStates, Gone, Cancellable, rows, session
<1>1. CASE Enqueue(r) \/ EnqueueFlush(r) \/ EnqueueCommit(r)
  BY <1>1 DEF Enqueue, EnqueueFlush, EnqueueCommit, Fresh, Insert, Publish
<1>2. CASE Cancel(r)
  BY <1>2 DEF Cancel, Cancelled, Cancellable
<1>3. CASE CancelRead(r)
  BY <1>3 DEF CancelRead, Cancellable
<1>4. CASE CancelWrite(r)
  BY <1>4 DEF CancelWrite, Cancelled, Cancellable
<1>5. CASE RemoveRun(r)
  BY <1>5 DEF RemoveRun
<1> QED BY <1>1, <1>2, <1>3, <1>4, <1>5 DEF Operator

\* The robot and the system.
LEMMA EnvironmentStep ==
  ASSUME IInv, NEW r \in Runs, RobotExits(r) \/ KillTakesEffect(r)
  PROVE  IInv'
<1> USE DEF IInv, TypeOK, HolderInv, CurInv, ProcInv, VerdictInv,
             Chosen, Exec, Launching, Attending, PCs, RowStates, Unclaimed, FINAL_STATES,
             ProcStates, Gone, Cancellable, rows, session
<1>1. CASE RobotExits(r)
  BY <1>1 DEF RobotExits
<1>2. CASE KillTakesEffect(r)
  BY <1>2 DEF KillTakesEffect
<1> QED BY <1>1, <1>2

\* The mutex.
LEMMA AcquireStep ==
  ASSUME IInv, NEW w \in Workers, StartQueue(w) \/ \E r \in Runs : StartDirect(w, r)
  PROVE  IInv'
<1> USE DEF IInv, TypeOK, HolderInv, CurInv, ProcInv, VerdictInv,
             Chosen, Exec, Launching, Attending, PCs, RowStates, Unclaimed, FINAL_STATES,
             ProcStates, Gone, Cancellable, rows, session
<1>1. CASE StartQueue(w)
  BY <1>1, ConstantsAssumption DEF StartQueue, Available, Goto
<1>2. ASSUME NEW r \in Runs, StartDirect(w, r) PROVE IInv'
  BY <1>2, ConstantsAssumption DEF StartDirect, Available, Goto
<1> QED BY <1>1, <1>2

\* Reconciliation, due schedules and claims.
LEMMA ClaimStep ==
  ASSUME IInv, NEW w \in Workers, Reconcile(w) \/ EnqueueDue(w) \/ DueFlush(w) \/ DueCommit(w) \/ ClaimNext(w) \/ ClaimNextRead(w)
         \/ ClaimNextWrite(w) \/ QueueEmpty(w) \/ ClaimSpecific(w) \/ Skip(w)
  PROVE  IInv'
<1> USE DEF IInv, TypeOK, HolderInv, CurInv, ProcInv, VerdictInv,
             Chosen, Exec, Launching, Attending, PCs, RowStates, Unclaimed, FINAL_STATES,
             ProcStates, Gone, Cancellable, rows, session
<1>1. CASE Reconcile(w)
  BY <1>1 DEF Reconcile, Reconciled, LeftoverState, Goto
<1>2. CASE EnqueueDue(w) \/ DueFlush(w) \/ DueCommit(w)
  BY <1>2 DEF EnqueueDue, DueFlush, DueCommit, Fresh, Insert, Publish, Goto
<1>3. CASE ClaimNext(w)
  BY <1>3 DEF ClaimNext, Oldest, Claim, Goto
<1>4. CASE ClaimNextRead(w)
  BY <1>4 DEF ClaimNextRead, Oldest, Goto
<1>5. CASE ClaimNextWrite(w)
  <2>1. TypeOK' /\ HolderInv' /\ CurInv' /\ VerdictInv'
    BY <1>5 DEF ClaimNextWrite, Claim, Goto
  <2>2. ProcInv'
    <3>1. cur[w] \in Runs /\ Claim(w, cur[w])
      BY <1>5 DEF ClaimNextWrite
    <3> QED BY <1>5, <3>1, ClaimProc DEF ClaimNextWrite
  <2> QED BY <2>1, <2>2 DEF IInv
<1>6. CASE QueueEmpty(w)
  BY <1>6, ConstantsAssumption DEF QueueEmpty, Release, Goto
<1>7. CASE ClaimSpecific(w)
  <2>1. TypeOK' /\ HolderInv' /\ CurInv' /\ VerdictInv'
    BY <1>7 DEF ClaimSpecific, Claim, Goto
  <2>2. ProcInv'
    <3>1. cur[w] \in Runs /\ Claim(w, cur[w])
      BY <1>7 DEF ClaimSpecific
    <3> QED BY <1>7, <3>1, ClaimProc DEF ClaimSpecific
  <2> QED BY <2>1, <2>2 DEF IInv
<1>8. CASE Skip(w)
  BY <1>8, ConstantsAssumption DEF Skip, Release, Goto
<1> QED BY <1>1, <1>2, <1>3, <1>4, <1>5, <1>6, <1>7, <1>8

\* execute_run.
LEMMA ExecuteStep ==
  ASSUME IInv, NEW w \in Workers, Validate(w) \/ Reject(w) \/ MakeRunDir(w) \/ CreateSuspended(w) \/ AssignAndResume(w)
         \/ MarkRunning(w) \/ Poll(w) \/ StopCancelled(w) \/ StopTimedOut(w)
         \/ KeepPolling(w) \/ Drain(w) \/ Record(w) \/ RecordFailure(w)
  PROVE  IInv'
<1> USE DEF IInv, TypeOK, HolderInv, CurInv, ProcInv, VerdictInv,
             Chosen, Exec, Launching, Attending, PCs, RowStates, Unclaimed, FINAL_STATES,
             ProcStates, Gone, Cancellable, rows, session
<1>1. CASE Validate(w)
  BY <1>1 DEF Validate, Goto
<1>2. CASE Reject(w)
  <2>1. cur[w] \in Runs /\ "failed" \in FINAL_STATES \cup {"running"}
    BY <1>2 DEF Reject
  <2>2. state' \in [Runs -> RowStates] /\ UNCHANGED <<created_at, clock, seen>>
    BY <1>2, <2>1, FinishType DEF IInv, Reject
  <2>3. SessionType' /\ UNCHANGED proc
    BY <1>2, ReturnType DEF IInv, Reject
  <2>4. TypeOK'
    BY <2>2, <2>3 DEF IInv, SessionType
  <2>5. HolderInv' /\ CurInv' /\ ProcInv' /\ VerdictInv'
    BY <1>2, ConstantsAssumption DEF Reject, Finish, Return, Release, Goto
  <2> QED BY <2>4, <2>5 DEF IInv
<1>3. CASE MakeRunDir(w)
  BY <1>3 DEF MakeRunDir, Goto
<1>4. CASE CreateSuspended(w)
  BY <1>4 DEF CreateSuspended, Goto
<1>5. CASE AssignAndResume(w)
  BY <1>5 DEF AssignAndResume, Goto
<1>6. CASE MarkRunning(w)
  BY <1>6 DEF MarkRunning, Finish, Goto
<1>7. CASE Poll(w)
  BY <1>7 DEF Poll, Goto
<1>8. CASE StopCancelled(w)
  <2>1. cur[w] \in Runs /\ Doom(cur[w])
    BY <1>8 DEF StopCancelled, Stop
  <2>2. proc' \in [Runs -> ProcStates]
    BY <2>1, DoomType DEF IInv
  <2>3. TypeOK'
    BY <1>8, <2>2 DEF StopCancelled, Stop, Goto
  <2>4. HolderInv' /\ CurInv' /\ ProcInv' /\ VerdictInv'
    BY <1>8 DEF StopCancelled, Stop, Doom, Goto
  <2> QED BY <2>3, <2>4 DEF IInv
<1>9. CASE StopTimedOut(w)
  <2>1. cur[w] \in Runs /\ Doom(cur[w])
    BY <1>9 DEF StopTimedOut, Stop
  <2>2. proc' \in [Runs -> ProcStates]
    BY <2>1, DoomType DEF IInv
  <2>3. TypeOK'
    BY <1>9, <2>2 DEF StopTimedOut, Stop, Goto
  <2>4. HolderInv' /\ CurInv' /\ ProcInv' /\ VerdictInv'
    BY <1>9 DEF StopTimedOut, Stop, Doom, Goto
  <2> QED BY <2>3, <2>4 DEF IInv
<1>10. CASE KeepPolling(w)
  BY <1>10 DEF KeepPolling, Goto
<1>11. CASE Drain(w)
  <2>1. cur[w] \in Runs /\ Doom(cur[w])
    BY <1>11 DEF Drain
  <2>2. proc' \in [Runs -> ProcStates]
    BY <2>1, DoomType DEF IInv
  <2>3. TypeOK'
    BY <1>11, <2>2 DEF Drain, ExitState, Goto
  <2>4. HolderInv' /\ CurInv' /\ ProcInv' /\ VerdictInv'
    BY <1>11 DEF Drain, ExitState, Doom, Goto
  <2> QED BY <2>3, <2>4 DEF IInv
<1>12. CASE Record(w)
  <2>1. cur[w] \in Runs /\ verdict[w] \in FINAL_STATES \cup {"running"}
    BY <1>12 DEF Record
  <2>2. state' \in [Runs -> RowStates] /\ UNCHANGED <<created_at, clock, seen>>
    BY <1>12, <2>1, FinishType DEF IInv, Record
  <2>3. SessionType' /\ UNCHANGED proc
    BY <1>12, ReturnType DEF IInv, Record
  <2>4. TypeOK'
    BY <2>2, <2>3 DEF IInv, SessionType
  <2>5. HolderInv' /\ CurInv' /\ ProcInv' /\ VerdictInv'
    BY <1>12, ConstantsAssumption DEF Record, Finish, Return, Release, Goto
  <2> QED BY <2>4, <2>5 DEF IInv
<1>13. CASE RecordFailure(w)
  <2>1. cur[w] \in Runs /\ "failed" \in FINAL_STATES \cup {"running"}
    BY <1>13 DEF RecordFailure
  <2>2. state' \in [Runs -> RowStates] /\ UNCHANGED <<created_at, clock, seen>>
    BY <1>13, <2>1, FinishType DEF IInv, RecordFailure
  <2>3. SessionType' /\ UNCHANGED proc
    BY <1>13, ReturnType DEF IInv, RecordFailure
  <2>4. TypeOK'
    BY <2>2, <2>3 DEF IInv, SessionType
  <2>5. HolderInv' /\ CurInv' /\ ProcInv' /\ VerdictInv'
    BY <1>13, ConstantsAssumption DEF RecordFailure, Finish, Return, Release, Goto
  <2> QED BY <2>4, <2>5 DEF IInv
<1> QED BY <1>1, <1>2, <1>3, <1>4, <1>5, <1>6, <1>7, <1>8, <1>9, <1>10, <1>11, <1>12, <1>13

\* Failures and the deadline.
LEMMA FailureStep ==
  ASSUME IInv, NEW w \in Workers, SpawnFails(w) \/ RaiseInside(w) \/ Abort(w) \/ Crash(w) \/ DeadlinePasses(w)
  PROVE  IInv'
<1> USE DEF IInv, TypeOK, HolderInv, CurInv, ProcInv, VerdictInv,
             Chosen, Exec, Launching, Attending, PCs, RowStates, Unclaimed, FINAL_STATES,
             ProcStates, Gone, Cancellable, rows, session
<1>1. CASE SpawnFails(w)
  BY <1>1 DEF SpawnFails, Goto
<1>2. CASE RaiseInside(w)
  <2>1. cur[w] \in Runs /\ Doom(cur[w])
    BY <1>2 DEF RaiseInside
  <2>2. proc' \in [Runs -> ProcStates]
    BY <2>1, DoomType DEF IInv
  <2>3. TypeOK'
    BY <1>2, <2>2 DEF RaiseInside, Goto
  <2>4. HolderInv' /\ CurInv' /\ ProcInv' /\ VerdictInv'
    BY <1>2 DEF RaiseInside, Doom, Goto
  <2> QED BY <2>3, <2>4 DEF IInv
<1>3. CASE Abort(w)
  BY <1>3, ConstantsAssumption DEF Abort, Release, RollBack, Goto
<1>4. CASE Crash(w)
  BY <1>4, ConstantsAssumption DEF Crash, Release, RollBack, Doom, Goto
<1>5. CASE DeadlinePasses(w)
  BY <1>5 DEF DeadlinePasses
<1> QED BY <1>1, <1>2, <1>3, <1>4, <1>5

\* Every step, and every stuttering step, preserves the invariant.
LEMMA NextIInv == IInv /\ [Next]_vars => IInv'
<1> SUFFICES ASSUME IInv, [Next]_vars PROVE IInv'
  OBVIOUS
<1>1. ASSUME NEW r \in Runs, Operator(r) \/ RobotExits(r) \/ KillTakesEffect(r) PROVE IInv'
  BY <1>1, OperatorStep, EnvironmentStep
<1>2. ASSUME NEW w \in Workers,
             \/ StartQueue(w) \/ Step(w) \/ Crash(w) \/ DeadlinePasses(w)
             \/ \E r \in Runs : StartDirect(w, r)
      PROVE  IInv'
  BY <1>2, AcquireStep, ClaimStep, ExecuteStep, FailureStep DEF Step, Work
<1>3. CASE Tick
  BY <1>3, ConstantsAssumption DEF Tick, IInv, TypeOK, HolderInv, CurInv, ProcInv, VerdictInv, session
<1>4. CASE UNCHANGED vars
  BY <1>4 DEF vars, rows, session, IInv, TypeOK, HolderInv, CurInv, ProcInv, VerdictInv
<1> QED BY <1>1, <1>2, <1>3, <1>4 DEF Next

\* The invariant holds in every reachable state of every instance.
THEOREM Invariance == Spec => []IInv
BY InitIInv, NextIInv, PTL DEF Spec

\* Every variable keeps its type.
THEOREM TypeCorrect == Spec => []TypeOK
BY Invariance, PTL DEF IInv
-----------------------------------------------------------------------------
\* At most one robot is alive and not told to stop: the session that attends it
\* holds the mutex, and there is one holder.
THEOREM OneAlive == Spec => []AtMostOneAlive
<1>1. IInv => AtMostOneAlive
  BY DEF IInv, HolderInv, ProcInv, Attending, AtMostOneAlive
<1> QED BY <1>1, Invariance, PTL

\* A run is recorded as completed only when its process exited with code zero.
THEOREM CompletedIsExitZero == Spec => []CompletedMeansExitZero
<1>1. IInv => CompletedMeansExitZero
  BY DEF IInv, VerdictInv, CompletedMeansExitZero
<1> QED BY <1>1, Invariance, PTL
-----------------------------------------------------------------------------
(* The queue is first in, first out. *)

Serializable == Isolation = "serializable"

\* claim_next is one step, and only a direct session claims a run by its id.
OrderInv ==
  \A w \in Workers :
    /\ pc[w] # "claim_write"
    /\ pc[w] = "claim_specific" => mode[w] = "direct"

\* The session that acts is the only one whose place changes.
LEMMA OrderStep ==
  ASSUME Serializable, IInv, OrderInv, NEW w \in Workers,
         \/ StartQueue(w) \/ (\E r \in Runs : StartDirect(w, r)) \/ Step(w)
         \/ Crash(w) \/ DeadlinePasses(w)
  PROVE  OrderInv'
<1> USE DEF Goto, IInv, TypeOK, OrderInv
<1>1. CASE StartQueue(w) \/ (\E r \in Runs : StartDirect(w, r)) \/ DeadlinePasses(w)
  BY <1>1 DEF StartQueue, StartDirect, DeadlinePasses
<1>2. CASE Reconcile(w)
  BY <1>2 DEF Reconcile, CurInv
<1>3. CASE EnqueueDue(w) \/ DueFlush(w) \/ DueCommit(w)
  BY <1>3 DEF EnqueueDue, DueFlush, DueCommit, session
<1>4. CASE ClaimNext(w) \/ ClaimNextRead(w) \/ ClaimNextWrite(w) \/ ClaimSpecific(w)
  BY <1>4 DEF ClaimNext, ClaimNextRead, ClaimNextWrite, ClaimSpecific, Claim, Serializable
<1>5. CASE QueueEmpty(w) \/ Skip(w) \/ Abort(w) \/ Crash(w)
  BY <1>5 DEF QueueEmpty, Skip, Abort, Crash, Release
<1>6. CASE Reject(w) \/ Record(w) \/ RecordFailure(w)
  BY <1>6 DEF Reject, Record, RecordFailure, Return, Release
<1>7. CASE \/ Validate(w) \/ MakeRunDir(w) \/ CreateSuspended(w) \/ AssignAndResume(w)
           \/ MarkRunning(w) \/ Poll(w) \/ StopCancelled(w) \/ StopTimedOut(w)
           \/ KeepPolling(w) \/ Drain(w) \/ SpawnFails(w) \/ RaiseInside(w)
  BY <1>7 DEF Validate, MakeRunDir, CreateSuspended, AssignAndResume, MarkRunning, Poll,
     StopCancelled, StopTimedOut, Stop, KeepPolling, Drain, SpawnFails, RaiseInside
<1> QED BY <1>1, <1>2, <1>3, <1>4, <1>5, <1>6, <1>7 DEF Step, Work

\* Every step preserves it.
LEMMA OrderNext == Serializable /\ IInv /\ OrderInv /\ [Next]_vars => OrderInv'
<1> SUFFICES ASSUME Serializable, IInv, OrderInv, [Next]_vars PROVE OrderInv'
  OBVIOUS
<1>1. ASSUME NEW r \in Runs, Operator(r) \/ RobotExits(r) \/ KillTakesEffect(r) PROVE OrderInv'
  BY <1>1 DEF Operator, Enqueue, EnqueueFlush, EnqueueCommit, Cancel, CancelRead, CancelWrite,
     RemoveRun, RobotExits, KillTakesEffect, session, OrderInv
<1>2. ASSUME NEW w \in Workers,
             \/ StartQueue(w) \/ Step(w) \/ Crash(w) \/ DeadlinePasses(w)
             \/ \E r \in Runs : StartDirect(w, r)
      PROVE  OrderInv'
  BY <1>2, OrderStep
<1>3. CASE Tick \/ UNCHANGED vars
  BY <1>3 DEF Tick, vars, session, OrderInv
<1> QED BY <1>1, <1>2, <1>3 DEF Next

\* The clock and the dates are numbers.
LEMMA Dates == TypeOK => clock \in Nat /\ \A r \in Runs : created_at[r] \in Nat
BY ConstantsAssumption DEF TypeOK

\* A claim that a session makes takes a run than which no queued one is older,
\* or the run that Play names.
LEMMA ClaimTakesOldest ==
  ASSUME IInv, OrderInv, NEW w \in Workers,
         ClaimNext(w) \/ ClaimNextWrite(w) \/ ClaimSpecific(w),
         NEW r \in Runs, NEW s \in Runs,
         state[r] = "queued", state[s] = "queued", state'[s] # "queued",
         created_at[r] < created_at[s]
  PROVE  mode[w] = "direct" /\ cur[w] = s
<1>1. created_at[r] \in Nat /\ created_at[s] \in Nat /\ r # s
  BY Dates DEF IInv
<1>2. CASE ClaimNext(w)
  <2>1. PICK q \in Runs : Oldest(q) /\ Claim(w, q)
    BY <1>2 DEF ClaimNext
  <2>2. q = s
    BY <2>1 DEF Claim, IInv, TypeOK
  <2>3. Before(s, r)
    BY <2>1, <2>2, <1>1 DEF Oldest
  <2> QED BY <1>1, <2>3 DEF Before
<1>3. CASE ClaimNextWrite(w)
  BY <1>3 DEF ClaimNextWrite, OrderInv
<1>4. CASE ClaimSpecific(w)
  BY <1>4 DEF ClaimSpecific, Claim, IInv, TypeOK, OrderInv
<1> QED BY <1>2, <1>3, <1>4

\* Only a claim makes a queued run start.
LEMMA ClaimOnly ==
  ASSUME IInv, [Next]_vars, NEW s \in Runs, state[s] = "queued", state'[s] = "starting"
  PROVE  \E w \in Workers : ClaimNext(w) \/ ClaimNextWrite(w) \/ ClaimSpecific(w)
<1> USE DEF IInv, TypeOK
<1>1. ASSUME NEW r \in Runs, Operator(r) PROVE FALSE
  BY <1>1 DEF Operator, Enqueue, EnqueueFlush, EnqueueCommit, Insert, Publish, Cancel, CancelRead, CancelWrite, RemoveRun, Cancelled
<1>2. ASSUME NEW w \in Workers, Reconcile(w) \/ EnqueueDue(w) \/ DueFlush(w) \/ DueCommit(w)
      PROVE  FALSE
  BY <1>2 DEF Reconcile, Reconciled, LeftoverState, EnqueueDue, DueFlush, DueCommit, Insert, Publish
<1>3. ASSUME NEW w \in Workers, Reject(w) \/ MarkRunning(w) \/ Record(w) \/ RecordFailure(w)
      PROVE  FALSE
  BY <1>3 DEF Reject, MarkRunning, Record, RecordFailure, Finish, VerdictInv
<1>4. ASSUME NEW w \in Workers,
             \/ StartQueue(w) \/ (\E r \in Runs : StartDirect(w, r)) \/ ClaimNextRead(w)
             \/ QueueEmpty(w) \/ Skip(w) \/ Validate(w) \/ MakeRunDir(w) \/ CreateSuspended(w)
             \/ AssignAndResume(w) \/ Poll(w) \/ StopCancelled(w) \/ StopTimedOut(w)
             \/ KeepPolling(w) \/ Drain(w) \/ SpawnFails(w) \/ RaiseInside(w) \/ Abort(w)
             \/ Crash(w) \/ DeadlinePasses(w)
      PROVE  FALSE
  BY <1>4 DEF StartQueue, StartDirect, ClaimNextRead, QueueEmpty, Skip, Validate, MakeRunDir,
     CreateSuspended, AssignAndResume, Poll, StopCancelled, StopTimedOut, Stop, KeepPolling,
     Drain, SpawnFails, RaiseInside, Abort, Crash, RollBack, DeadlinePasses, rows
<1>5. ASSUME NEW r \in Runs, RobotExits(r) \/ KillTakesEffect(r) PROVE FALSE
  BY <1>5 DEF RobotExits, KillTakesEffect, rows
<1>6. CASE Tick \/ UNCHANGED vars
  BY <1>6 DEF Tick, vars, rows
<1> QED BY <1>1, <1>2, <1>3, <1>4, <1>5, <1>6 DEF Next, Step, Work

\* With serializable transactions only Play lets a run pass an older one that is
\* still waiting, whatever fails.
THEOREM Fifo == Serializable => (Spec => FifoClaims)
<1> SUFFICES ASSUME Serializable PROVE Spec => FifoClaims
  OBVIOUS
<1>1. Init => OrderInv
  BY DEF Init, OrderInv
<1>2. IInv /\ OrderInv /\ [Next]_vars =>
        \A r, s \in Runs :
          /\ state[r] = "queued" /\ state'[r] = "queued"
          /\ state[s] = "queued" /\ state'[s] = "starting"
          /\ created_at[r] < created_at[s]
          => \E w \in Workers : mode[w] = "direct" /\ cur[w] = s
  <2> SUFFICES ASSUME IInv, OrderInv, [Next]_vars, NEW r \in Runs, NEW s \in Runs,
                      state[r] = "queued", state[s] = "queued", state'[s] = "starting",
                      created_at[r] < created_at[s]
               PROVE  \E w \in Workers : mode[w] = "direct" /\ cur[w] = s
    OBVIOUS
  <2>1. PICK w \in Workers : ClaimNext(w) \/ ClaimNextWrite(w) \/ ClaimSpecific(w)
    BY ClaimOnly
  <2> QED BY <2>1, ClaimTakesOldest
<1> QED BY <1>1, <1>2, OrderNext, Invariance, PTL DEF Spec, FifoClaims
-----------------------------------------------------------------------------
(* With serializable transactions the row of a run follows its session. *)

\* The operator.
LEMMA SupervisionOperator ==
  ASSUME Serializable, IInv, SupervisionInv, NEW r \in Runs,
         Operator(r)
  PROVE  SupervisionInv'
<1> USE DEF Serializable, IInv, TypeOK, HolderInv, CurInv, ProcInv, VerdictInv,
             SupervisionInv, Supervised, Chosen, Exec, Launching, Attending, PCs,
             RowStates, Unclaimed, FINAL_STATES, ProcStates, Gone, Cancellable, rows, session
<1>1. CASE Enqueue(r) \/ EnqueueFlush(r) \/ EnqueueCommit(r)
  BY <1>1 DEF Enqueue, EnqueueFlush, EnqueueCommit, Fresh, Insert, Publish
<1>2. CASE Cancel(r)
  BY <1>2 DEF Cancel, Cancelled, Cancellable
<1>3. CASE CancelRead(r)
  BY <1>3 DEF CancelRead, Cancellable
<1>4. CASE CancelWrite(r)
  BY <1>4 DEF CancelWrite, Cancelled, Cancellable
<1>5. CASE RemoveRun(r)
  BY <1>5 DEF RemoveRun
<1> QED BY <1>1, <1>2, <1>3, <1>4, <1>5 DEF Operator

\* The robot and the system.
LEMMA SupervisionEnvironment ==
  ASSUME Serializable, IInv, SupervisionInv, NEW r \in Runs,
         RobotExits(r) \/ KillTakesEffect(r)
  PROVE  SupervisionInv'
<1> USE DEF Serializable, IInv, TypeOK, HolderInv, CurInv, ProcInv, VerdictInv,
             SupervisionInv, Supervised, Chosen, Exec, Launching, Attending, PCs,
             RowStates, Unclaimed, FINAL_STATES, ProcStates, Gone, Cancellable, rows, session
<1>1. CASE RobotExits(r)
  BY <1>1 DEF RobotExits
<1>2. CASE KillTakesEffect(r)
  BY <1>2 DEF KillTakesEffect
<1> QED BY <1>1, <1>2

\* The mutex.
LEMMA SupervisionAcquire ==
  ASSUME Serializable, IInv, SupervisionInv, NEW w \in Workers,
         StartQueue(w) \/ \E r \in Runs : StartDirect(w, r)
  PROVE  SupervisionInv'
<1> USE DEF Serializable, IInv, TypeOK, HolderInv, CurInv, ProcInv, VerdictInv,
             SupervisionInv, Supervised, Chosen, Exec, Launching, Attending, PCs,
             RowStates, Unclaimed, FINAL_STATES, ProcStates, Gone, Cancellable, rows, session
<1>1. CASE StartQueue(w)
  BY <1>1, ConstantsAssumption DEF StartQueue, Available, Goto
<1>2. ASSUME NEW r \in Runs, StartDirect(w, r) PROVE SupervisionInv'
  BY <1>2, ConstantsAssumption DEF StartDirect, Available, Goto
<1> QED BY <1>1, <1>2

\* Reconciliation, due schedules and claims.
LEMMA SupervisionClaim ==
  ASSUME Serializable, IInv, SupervisionInv, NEW w \in Workers,
         Reconcile(w) \/ EnqueueDue(w) \/ DueFlush(w) \/ DueCommit(w) \/ ClaimNext(w) \/ ClaimNextRead(w) \/ ClaimNextWrite(w)
         \/ QueueEmpty(w) \/ ClaimSpecific(w) \/ Skip(w)
  PROVE  SupervisionInv'
<1> USE DEF Serializable, IInv, TypeOK, HolderInv, CurInv, ProcInv, VerdictInv,
             SupervisionInv, Supervised, Chosen, Exec, Launching, Attending, PCs,
             RowStates, Unclaimed, FINAL_STATES, ProcStates, Gone, Cancellable, rows, session
<1>1. CASE Reconcile(w)
  BY <1>1 DEF Reconcile, Reconciled, LeftoverState, Goto
<1>2. CASE EnqueueDue(w) \/ DueFlush(w) \/ DueCommit(w)
  BY <1>2 DEF EnqueueDue, DueFlush, DueCommit, Fresh, Insert, Publish, Goto
<1>3. CASE ClaimNext(w)
  BY <1>3, ConstantsAssumption DEF ClaimNext, Oldest, Claim, Goto
<1>4. CASE ClaimNextRead(w)
  BY <1>4 DEF ClaimNextRead, Oldest, Goto
<1>5. CASE ClaimNextWrite(w)
  BY <1>5, ConstantsAssumption DEF ClaimNextWrite, Claim, Goto
<1>6. CASE QueueEmpty(w)
  BY <1>6, ConstantsAssumption DEF QueueEmpty, Release, Goto
<1>7. CASE ClaimSpecific(w)
  BY <1>7, ConstantsAssumption DEF ClaimSpecific, Claim, Goto
<1>8. CASE Skip(w)
  BY <1>8, ConstantsAssumption DEF Skip, Release, Goto
<1> QED BY <1>1, <1>2, <1>3, <1>4, <1>5, <1>6, <1>7, <1>8

\* execute_run.
LEMMA SupervisionExecute ==
  ASSUME Serializable, IInv, SupervisionInv, NEW w \in Workers,
         Validate(w) \/ Reject(w) \/ MakeRunDir(w) \/ CreateSuspended(w) \/ AssignAndResume(w)
         \/ MarkRunning(w) \/ Poll(w) \/ StopCancelled(w) \/ StopTimedOut(w) \/ KeepPolling(w)
         \/ Drain(w) \/ Record(w) \/ RecordFailure(w)
  PROVE  SupervisionInv'
<1> USE DEF Serializable, IInv, TypeOK, HolderInv, CurInv, ProcInv, VerdictInv,
             SupervisionInv, Supervised, Chosen, Exec, Launching, Attending, PCs,
             RowStates, Unclaimed, FINAL_STATES, ProcStates, Gone, Cancellable, rows, session
<1>1. CASE Validate(w)
  BY <1>1 DEF Validate, Goto
<1>2. CASE Reject(w)
  BY <1>2, ConstantsAssumption DEF Reject, Finish, Return, Release, Goto
<1>3. CASE MakeRunDir(w)
  BY <1>3 DEF MakeRunDir, Goto
<1>4. CASE CreateSuspended(w)
  BY <1>4 DEF CreateSuspended, Goto
<1>5. CASE AssignAndResume(w)
  BY <1>5 DEF AssignAndResume, Goto
<1>6. CASE MarkRunning(w)
  BY <1>6 DEF MarkRunning, Finish, Goto
<1>7. CASE Poll(w)
  BY <1>7 DEF Poll, Goto
<1>8. CASE StopCancelled(w)
  BY <1>8 DEF StopCancelled, Stop, Doom, Goto
<1>9. CASE StopTimedOut(w)
  BY <1>9 DEF StopTimedOut, Stop, Doom, Goto
<1>10. CASE KeepPolling(w)
  BY <1>10 DEF KeepPolling, Goto
<1>11. CASE Drain(w)
  BY <1>11 DEF Drain, ExitState, Doom, Goto
<1>12. CASE Record(w)
  BY <1>12, ConstantsAssumption DEF Record, Finish, Return, Release, Goto
<1>13. CASE RecordFailure(w)
  BY <1>13, ConstantsAssumption DEF RecordFailure, Finish, Return, Release, Goto
<1> QED BY <1>1, <1>2, <1>3, <1>4, <1>5, <1>6, <1>7, <1>8, <1>9, <1>10, <1>11, <1>12, <1>13

\* Failures and the deadline.
LEMMA SupervisionFailure ==
  ASSUME Serializable, IInv, SupervisionInv, NEW w \in Workers,
         SpawnFails(w) \/ RaiseInside(w) \/ Abort(w) \/ Crash(w) \/ DeadlinePasses(w)
  PROVE  SupervisionInv'
<1> USE DEF Serializable, IInv, TypeOK, HolderInv, CurInv, ProcInv, VerdictInv,
             SupervisionInv, Supervised, Chosen, Exec, Launching, Attending, PCs,
             RowStates, Unclaimed, FINAL_STATES, ProcStates, Gone, Cancellable, rows, session
<1>1. CASE SpawnFails(w)
  BY <1>1 DEF SpawnFails, Goto
<1>2. CASE RaiseInside(w)
  BY <1>2 DEF RaiseInside, Doom, Goto
<1>3. CASE Abort(w)
  BY <1>3, ConstantsAssumption DEF Abort, Release, RollBack, Goto
<1>4. CASE Crash(w)
  BY <1>4, ConstantsAssumption DEF Crash, Release, RollBack, Doom, Goto
<1>5. CASE DeadlinePasses(w)
  BY <1>5 DEF DeadlinePasses
<1> QED BY <1>1, <1>2, <1>3, <1>4, <1>5

\* Every step preserves it.
LEMMA SupervisionNext ==
  ASSUME Serializable, IInv, SupervisionInv, [Next]_vars PROVE SupervisionInv'
<1>1. ASSUME NEW r \in Runs, Operator(r) \/ RobotExits(r) \/ KillTakesEffect(r) PROVE SupervisionInv'
  BY <1>1, SupervisionOperator, SupervisionEnvironment
<1>2. ASSUME NEW w \in Workers,
             \/ StartQueue(w) \/ Step(w) \/ Crash(w) \/ DeadlinePasses(w)
             \/ \E r \in Runs : StartDirect(w, r)
      PROVE  SupervisionInv'
  BY <1>2, SupervisionAcquire, SupervisionClaim, SupervisionExecute, SupervisionFailure DEF Step, Work
<1>3. CASE Tick
  BY <1>3 DEF Tick, session, SupervisionInv
<1>4. CASE UNCHANGED vars
  BY <1>4 DEF vars, rows, session, SupervisionInv
<1> QED BY <1>1, <1>2, <1>3, <1>4 DEF Next

\* Nothing is supervised at the start.
LEMMA InitSupervision == Init => SupervisionInv
BY ConstantsAssumption
   DEF Init, SupervisionInv, Supervised, Exec, Launching

\* The row of the run in hand follows its session; a supervised row without a
\* session is a leftover, alone, and waits for the next reconciliation.
THEOREM Supervision == Serializable => (Spec => []SupervisionInv)
<1> SUFFICES ASSUME Serializable PROVE Spec => []SupervisionInv
  OBVIOUS
<1>1. IInv /\ SupervisionInv /\ [Next]_vars => SupervisionInv'
  BY SupervisionNext
<1> QED BY InitSupervision, Invariance, <1>1, PTL DEF Spec
-----------------------------------------------------------------------------
(* The refinement. *)

\* A claim is made only when no run is supervised.
LEMMA ClaimIsClaim ==
  ASSUME IInv, SupervisionInv, NEW w \in Workers, NEW r \in Runs,
         pc[w] \in {"claim", "claim_write", "claim_specific"}, state[r] = "queued", Claim(w, r)
  PROVE  Lifecycle!Next
<1>1. lock = w /\ w # NoWorker
  BY ConstantsAssumption DEF IInv, HolderInv
<1>2. \A v \in Workers : pc[v] # "reconcile" /\ pc[v] \notin Exec
  BY <1>1 DEF IInv, HolderInv, Exec
<1>3. \A s \in Runs : state[s] \notin Supervised
  BY <1>1, <1>2 DEF SupervisionInv
<1>4. Lifecycle!Claim(r)
  BY <1>3 DEF Claim, Lifecycle!Claim, Supervised, Lifecycle!Supervised
<1> QED BY <1>4 DEF Lifecycle!Next

\* The engine's write to a supervised row settles the run.
LEMMA FinishIsSettle ==
  ASSUME NEW r \in Runs, NEW s \in FINAL_STATES, state[r] \in Supervised, Finish(r, s)
  PROVE  Lifecycle!Next
<1>1. Lifecycle!Settle(r, s)
  BY DEF Finish, Supervised, Lifecycle!Settle, Lifecycle!Supervised
<1> QED BY <1>1 DEF Lifecycle!Next, Lifecycle!Final, FINAL_STATES

\* Rows are inserted for fresh runs.
LEMMA InsertIsEnqueue ==
  ASSUME NEW S \in SUBSET Fresh, Insert(S, "queued")
  PROVE  Lifecycle!Next
<1>1. Lifecycle!Enqueue(S) /\ S \in SUBSET Runs
  BY DEF Insert, Fresh, Lifecycle!Enqueue
<1> QED BY <1>1 DEF Lifecycle!Next

\* Every step of the operator is a step of the life of a run.
LEMMA OperatorRefines ==
  ASSUME Serializable, IInv, SupervisionInv, NEW r \in Runs, Operator(r)
  PROVE  [Lifecycle!Next]_state
<1>1. CASE Enqueue(r) \/ EnqueueFlush(r) \/ EnqueueCommit(r)
  BY <1>1, InsertIsEnqueue DEF Enqueue, EnqueueFlush, EnqueueCommit, Fresh, Serializable, SupervisionInv
<1>2. CASE Cancel(r)
  <2>1. CASE state[r] = "queued"
    <3>1. Lifecycle!Withdraw(r)
      BY <1>2, <2>1 DEF Cancel, Cancelled, Lifecycle!Withdraw
    <3> QED BY <3>1 DEF Lifecycle!Next
  <2>2. CASE state[r] \in {"starting", "running"}
    <3>1. Lifecycle!RequestCancel(r)
      BY <1>2, <2>2 DEF Cancel, Cancelled, Lifecycle!RequestCancel
    <3> QED BY <3>1 DEF Lifecycle!Next
  <2> QED BY <1>2, <2>1, <2>2 DEF Cancel, Cancellable
<1>3. CASE CancelRead(r)
  BY <1>3 DEF CancelRead, Serializable
<1>4. CASE CancelWrite(r)
  BY <1>4 DEF CancelWrite, SupervisionInv
<1>5. CASE RemoveRun(r)
  <2>1. Lifecycle!Remove(r)
    BY <1>5 DEF RemoveRun, FINAL_STATES, Lifecycle!Remove, Lifecycle!Final
  <2> QED BY <2>1 DEF Lifecycle!Next
<1> QED BY <1>1, <1>2, <1>3, <1>4, <1>5 DEF Operator

\* A serializable transaction is never left open.
LEMMA NothingToRollBack ==
  ASSUME IInv, SupervisionInv, RollBack
  PROVE  UNCHANGED rows
BY DEF IInv, TypeOK, SupervisionInv, RollBack, rows

\* Every step of a session is one, or leaves the table alone.
LEMMA StepRefines ==
  ASSUME Serializable, IInv, SupervisionInv, NEW w \in Workers, Step(w)
  PROVE  [Lifecycle!Next]_state
<1>1. CASE Reconcile(w)
  <2>1. CASE \E r \in Runs : state[r] \in Supervised
    <3>1. PICK r \in Runs : state[r] \in Supervised
      BY <2>1
    <3>2. \A s \in Runs \ {r} : state[s] \notin Supervised
      BY <3>1 DEF SupervisionInv
    <3>3. Lifecycle!Settle(r, "interrupted")
      BY <1>1, <3>1, <3>2 DEF Reconcile, Reconciled, LeftoverState, Supervised, IInv, TypeOK,
         Lifecycle!Settle, Lifecycle!Supervised
    <3> QED BY <3>3 DEF Lifecycle!Next, Lifecycle!Final
  <2>2. CASE \A r \in Runs : state[r] \notin Supervised
    BY <1>1, <2>2 DEF Reconcile, Reconciled, Supervised, IInv, TypeOK
  <2> QED BY <2>1, <2>2
<1>2. CASE EnqueueDue(w) \/ DueFlush(w) \/ DueCommit(w)
  BY <1>2, InsertIsEnqueue DEF EnqueueDue, DueFlush, DueCommit, Serializable
<1>3. CASE ClaimNext(w) \/ ClaimNextWrite(w) \/ ClaimSpecific(w)
  <2>1. PICK r \in Runs : state[r] = "queued" /\ Claim(w, r)
    BY <1>3 DEF ClaimNext, Oldest, ClaimNextWrite, ClaimSpecific, IInv, CurInv, Chosen
  <2>2. pc[w] \in {"claim", "claim_write", "claim_specific"}
    BY <1>3 DEF ClaimNext, ClaimNextWrite, ClaimSpecific
  <2> QED BY <2>1, <2>2, ClaimIsClaim
<1>4. CASE MarkRunning(w)
  <2>1. cur[w] \in Runs /\ state[cur[w]] \in {"starting", "cancelling"}
    BY <1>4 DEF MarkRunning, IInv, CurInv, Chosen, Exec, SupervisionInv
  <2>2. Lifecycle!Start(cur[w])
    BY <1>4, <2>1 DEF MarkRunning, Finish, Lifecycle!Start
  <2> QED BY <2>1, <2>2 DEF Lifecycle!Next
<1>5. CASE Reject(w) \/ Record(w) \/ RecordFailure(w)
  <2>1. cur[w] \in Runs /\ state[cur[w]] \in Supervised
    BY <1>5 DEF Reject, Record, RecordFailure, IInv, CurInv, Chosen, Exec, SupervisionInv
  <2>2. \E s \in FINAL_STATES : Finish(cur[w], s)
    BY <1>5 DEF Reject, Record, RecordFailure, IInv, VerdictInv, FINAL_STATES
  <2> QED BY <2>1, <2>2, FinishIsSettle
<1>6. CASE \/ ClaimNextRead(w) \/ QueueEmpty(w) \/ Skip(w) \/ Validate(w) \/ MakeRunDir(w)
           \/ CreateSuspended(w) \/ AssignAndResume(w) \/ Poll(w) \/ StopCancelled(w)
           \/ StopTimedOut(w) \/ KeepPolling(w) \/ Drain(w) \/ SpawnFails(w)
           \/ RaiseInside(w)
  BY <1>6 DEF rows, ClaimNextRead, QueueEmpty, Skip, Validate, MakeRunDir, CreateSuspended,
     AssignAndResume, Poll, StopCancelled, StopTimedOut, KeepPolling, Stop, Drain, SpawnFails,
     RaiseInside
<1>7. CASE Abort(w)
  BY <1>7, NothingToRollBack DEF Abort, rows
<1> QED BY <1>1, <1>2, <1>3, <1>4, <1>5, <1>6, <1>7 DEF Step, Work

\* RunEngine implements RunLifecycle when transactions are serializable.
THEOREM Refinement == Serializable => (Spec => ImplementsLifecycle)
<1> SUFFICES ASSUME Serializable PROVE Spec => ImplementsLifecycle
  OBVIOUS
<1>1. Init => Lifecycle!Init
  BY DEF Init, Lifecycle!Init
<1>2. IInv /\ SupervisionInv /\ [Next]_vars => [Lifecycle!Next]_state
  <2> SUFFICES ASSUME IInv, SupervisionInv, [Next]_vars PROVE [Lifecycle!Next]_state
    OBVIOUS
  <2>1. ASSUME NEW r \in Runs, Operator(r) PROVE [Lifecycle!Next]_state
    BY <2>1, OperatorRefines
  <2>2. ASSUME NEW w \in Workers, Step(w) PROVE [Lifecycle!Next]_state
    BY <2>2, StepRefines
  <2>3. ASSUME NEW r \in Runs, RobotExits(r) \/ KillTakesEffect(r) PROVE UNCHANGED state
    BY <2>3 DEF RobotExits, KillTakesEffect, rows
  <2>4. ASSUME NEW w \in Workers,
               \/ StartQueue(w) \/ Crash(w) \/ DeadlinePasses(w)
               \/ \E r \in Runs : StartDirect(w, r)
        PROVE  UNCHANGED state
    BY <2>4, NothingToRollBack DEF StartQueue, StartDirect, Crash, DeadlinePasses, rows
  <2>5. CASE Tick \/ UNCHANGED vars
    BY <2>5 DEF Tick, vars, rows
  <2> QED BY <2>1, <2>2, <2>3, <2>4, <2>5 DEF Next
<1> QED BY <1>1, <1>2, Invariance, Supervision, PTL DEF Spec, ImplementsLifecycle, Lifecycle!Spec
-----------------------------------------------------------------------------
(* The processes of the runs live as OwnedProcess says one does. *)

\* Closing or terminating a job is a step of the life of a process, or nothing.
LEMMA DoomIsDoom ==
  ASSUME IInv, NEW r \in Runs, Doom(r)
  PROVE  [Processes!Next]_proc
<1> USE DEF IInv, TypeOK
<1>1. CASE proc[r] = "alive"
  <2>1. Processes!Doom(r)
    BY <1>1 DEF Doom, Processes!Doom, Processes!Becomes
  <2> QED BY <2>1 DEF Processes!Next
<1>2. CASE proc[r] # "alive"
  BY <1>2 DEF Doom
<1> QED BY <1>1, <1>2

\* The robot and the system move a process as its life allows.
LEMMA RobotRefines ==
  ASSUME IInv, NEW r \in Runs, RobotExits(r) \/ KillTakesEffect(r)
  PROVE  Processes!Next
<1>1. Processes!Exit(r) \/ Processes!Kill(r)
  BY DEF RobotExits, KillTakesEffect, Processes!Exit, Processes!Kill, Processes!Becomes
<1> QED BY <1>1 DEF Processes!Next

\* So does the session that owns it.
LEMMA SessionRefines ==
  ASSUME IInv, NEW w \in Workers, Step(w) \/ Crash(w)
  PROVE  [Processes!Next]_proc
<1> USE DEF IInv, TypeOK
<1>1. CASE CreateSuspended(w)
  <2>1. cur[w] \in Runs /\ proc[cur[w]] = "none"
    BY <1>1 DEF CreateSuspended, CurInv, Chosen, Exec, ProcInv, Launching
  <2>2. Processes!Create(cur[w])
    BY <1>1, <2>1 DEF CreateSuspended, Processes!Create, Processes!Becomes
  <2> QED BY <2>1, <2>2 DEF Processes!Next
<1>2. CASE AssignAndResume(w)
  <2>1. cur[w] \in Runs /\ proc[cur[w]] = "suspended"
    BY <1>2 DEF AssignAndResume, CurInv, Chosen, Exec, ProcInv
  <2>2. Processes!Resume(cur[w])
    BY <1>2, <2>1 DEF AssignAndResume, Processes!Resume, Processes!Becomes
  <2> QED BY <2>1, <2>2 DEF Processes!Next
<1>3. CASE StopCancelled(w) \/ StopTimedOut(w) \/ Drain(w) \/ RaiseInside(w)
  <2>1. cur[w] \in Runs /\ Doom(cur[w])
    BY <1>3 DEF StopCancelled, StopTimedOut, Stop, Drain, RaiseInside, CurInv, Chosen, Exec
  <2> QED BY <2>1, DoomIsDoom
<1>4. CASE SpawnFails(w)
  <2>1. cur[w] \in Runs
    BY <1>4 DEF SpawnFails, CurInv, Chosen, Exec
  <2>2. CASE proc[cur[w]] = "suspended"
    <3>1. Processes!Discard(cur[w])
      BY <1>4, <2>2 DEF SpawnFails, Processes!Discard, Processes!Becomes
    <3> QED BY <2>1, <3>1 DEF Processes!Next
  <2>3. CASE proc[cur[w]] # "suspended"
    BY <1>4, <2>1, <2>3 DEF SpawnFails
  <2> QED BY <2>2, <2>3
<1>5. CASE Crash(w)
  BY <1>5, DoomIsDoom DEF Crash
<1>6. CASE \/ Reconcile(w) \/ EnqueueDue(w) \/ DueFlush(w) \/ DueCommit(w) \/ ClaimNext(w) \/ ClaimNextRead(w)
           \/ ClaimNextWrite(w) \/ QueueEmpty(w) \/ ClaimSpecific(w) \/ Skip(w)
  BY <1>6 DEF Reconcile, EnqueueDue, DueFlush, DueCommit, session, ClaimNext, ClaimNextRead, ClaimNextWrite, QueueEmpty,
     ClaimSpecific, Skip, Claim
<1>7. CASE \/ Validate(w) \/ Reject(w) \/ MakeRunDir(w) \/ MarkRunning(w) \/ Poll(w)
           \/ KeepPolling(w) \/ Record(w) \/ RecordFailure(w) \/ Abort(w)
  BY <1>7 DEF Validate, Reject, MakeRunDir, MarkRunning, Poll, KeepPolling, Record,
     RecordFailure, Abort
<1> QED BY <1>1, <1>2, <1>3, <1>4, <1>5, <1>6, <1>7 DEF Step, Work

\* RunEngine implements ProcessLife, whatever fails and whatever the isolation:
\* in particular no run gets a second process.
THEOREM ProcessRefinement == Spec => ImplementsProcessLife
<1>1. Init => Processes!Init
  BY DEF Init, Processes!Init
<1>2. IInv /\ [Next]_vars => [Processes!Next]_proc
  <2> SUFFICES ASSUME IInv, [Next]_vars PROVE [Processes!Next]_proc
    OBVIOUS
  <2>1. ASSUME NEW r \in Runs, Operator(r) PROVE UNCHANGED proc
    BY <2>1 DEF Operator, Enqueue, EnqueueFlush, EnqueueCommit, Cancel, CancelRead, CancelWrite, RemoveRun
  <2>2. ASSUME NEW r \in Runs, RobotExits(r) \/ KillTakesEffect(r) PROVE Processes!Next
    BY <2>2, RobotRefines
  <2>3. ASSUME NEW w \in Workers, Step(w) \/ Crash(w) PROVE [Processes!Next]_proc
    BY <2>3, SessionRefines
  <2>4. ASSUME NEW w \in Workers,
               StartQueue(w) \/ DeadlinePasses(w) \/ \E r \in Runs : StartDirect(w, r)
        PROVE  UNCHANGED proc
    BY <2>4 DEF StartQueue, DeadlinePasses, StartDirect
  <2>5. CASE Tick \/ UNCHANGED vars
    BY <2>5 DEF Tick, vars
  <2> QED BY <2>1, <2>2, <2>3, <2>4, <2>5 DEF Next
<1> QED BY <1>1, <1>2, Invariance, PTL DEF Spec, ImplementsProcessLife, Processes!Spec

-----------------------------------------------------------------------------
(* No process is ever created for a run that is settled. *)

\* CreateProcess is the only step that makes a process appear.
LEMMA Launch ==
  ASSUME IInv, [Next]_vars, NEW r \in Runs, proc'[r] = "suspended", proc[r] # "suspended"
  PROVE  \E w \in Workers : pc[w] = "spawn" /\ cur[w] = r
<1> USE DEF IInv, TypeOK
<1>1. ASSUME NEW q \in Runs, Operator(q) \/ RobotExits(q) \/ KillTakesEffect(q) PROVE FALSE
  BY <1>1 DEF Operator, Enqueue, EnqueueFlush, EnqueueCommit, Cancel, CancelRead, CancelWrite, RemoveRun, RobotExits,
     KillTakesEffect
<1>2. ASSUME NEW w \in Workers, CreateSuspended(w) PROVE pc[w] = "spawn" /\ cur[w] = r
  BY <1>2 DEF CreateSuspended
<1>3. ASSUME NEW w \in Workers,
             AssignAndResume(w) \/ StopCancelled(w) \/ StopTimedOut(w) \/ Drain(w)
             \/ SpawnFails(w) \/ RaiseInside(w) \/ Crash(w)
      PROVE  FALSE
  BY <1>3 DEF AssignAndResume, StopCancelled, StopTimedOut, Stop, Drain, SpawnFails, RaiseInside,
     Crash, Doom
<1>4. CASE UNCHANGED proc
  BY <1>4
<1>5. ASSUME NEW w \in Workers,
             \/ StartQueue(w) \/ DeadlinePasses(w) \/ \E q \in Runs : StartDirect(w, q)
      PROVE  UNCHANGED proc
  BY <1>5 DEF StartQueue, DeadlinePasses, StartDirect
<1>6. ASSUME NEW w \in Workers,
             \/ Reconcile(w) \/ EnqueueDue(w) \/ DueFlush(w) \/ DueCommit(w) \/ ClaimNext(w) \/ ClaimNextRead(w)
             \/ ClaimNextWrite(w) \/ QueueEmpty(w) \/ ClaimSpecific(w) \/ Skip(w)
      PROVE  UNCHANGED proc
  BY <1>6 DEF Reconcile, EnqueueDue, DueFlush, DueCommit, session, ClaimNext, ClaimNextRead, ClaimNextWrite, QueueEmpty,
     ClaimSpecific, Skip, Claim
<1>7. ASSUME NEW w \in Workers,
             \/ Validate(w) \/ Reject(w) \/ MakeRunDir(w) \/ MarkRunning(w) \/ Poll(w)
             \/ KeepPolling(w) \/ Record(w) \/ RecordFailure(w) \/ Abort(w)
      PROVE  UNCHANGED proc
  BY <1>7 DEF Validate, Reject, MakeRunDir, MarkRunning, Poll, KeepPolling, Record,
     RecordFailure, Abort
<1>8. CASE Tick \/ UNCHANGED vars
  BY <1>4, <1>8 DEF Tick, vars
<1> QED BY <1>1, <1>2, <1>3, <1>4, <1>5, <1>6, <1>7, <1>8 DEF Next, Step, Work

\* No process is created for a run that is settled (serializable transactions).
THEOREM LaunchIsOwned == Serializable => (Spec => SettledNeverStarts)
<1> SUFFICES ASSUME Serializable PROVE Spec => SettledNeverStarts
  OBVIOUS
<1>1. IInv /\ SupervisionInv /\ [Next]_vars =>
        \A r \in Runs :
          proc[r] = "none" /\ proc'[r] = "suspended" => state[r] \notin FINAL_STATES
  BY Launch DEF SupervisionInv, Launching, FINAL_STATES
<1> QED BY <1>1, Invariance, Supervision, PTL DEF Spec, SettledNeverStarts
-----------------------------------------------------------------------------
(* A session that ends has settled what it began, unless it failed. *)

\* Nothing breaks a session off.
SessionsComplete == Faults = {}

\* Every supervised row has its session.
InHandInv ==
  \A r \in Runs : state[r] \in Supervised => \E w \in Workers : pc[w] \in Exec /\ cur[w] = r

\* A session lets go of a run only after it has settled it.
LEMMA InHandStep ==
  ASSUME Serializable, SessionsComplete, IInv, SupervisionInv, InHandInv, NEW w \in Workers, Step(w)
  PROVE  InHandInv'
<1> USE DEF IInv, TypeOK, CurInv, Chosen, Exec, InHandInv, Supervised, Goto
<1>1. CASE Reconcile(w)
  BY <1>1 DEF Reconcile, Reconciled, LeftoverState
<1>2. CASE EnqueueDue(w) \/ DueFlush(w) \/ DueCommit(w)
  BY <1>2 DEF EnqueueDue, DueFlush, DueCommit, Insert, Publish, session
<1>3. CASE ClaimNext(w) \/ ClaimNextWrite(w) \/ ClaimSpecific(w)
  BY <1>3 DEF ClaimNext, ClaimNextWrite, ClaimSpecific, Claim
<1>4. CASE ClaimNextRead(w) \/ QueueEmpty(w) \/ Skip(w)
  BY <1>4 DEF ClaimNextRead, QueueEmpty, Skip, Release, rows
<1>5. CASE Reject(w) \/ Record(w) \/ RecordFailure(w)
  BY <1>5 DEF Reject, Record, RecordFailure, Finish, Return, Release, VerdictInv, FINAL_STATES,
     HolderInv
<1>6. CASE MarkRunning(w)
  BY <1>6 DEF MarkRunning, Finish
<1>7. CASE \/ Validate(w) \/ MakeRunDir(w) \/ CreateSuspended(w) \/ AssignAndResume(w)
           \/ Poll(w) \/ KeepPolling(w)
  BY <1>7 DEF Validate, MakeRunDir, CreateSuspended, AssignAndResume, Poll, KeepPolling, rows
<1>8. CASE StopCancelled(w) \/ StopTimedOut(w) \/ Drain(w)
  BY <1>8 DEF StopCancelled, StopTimedOut, Stop, Drain, rows
<1>9. ~SpawnFails(w) /\ ~RaiseInside(w) /\ ~Abort(w)
  BY DEF SpawnFails, RaiseInside, Abort, SessionsComplete, SupervisionInv
<1> QED BY <1>1, <1>2, <1>3, <1>4, <1>5, <1>6, <1>7, <1>8, <1>9 DEF Step, Work

\* Every step preserves it.
LEMMA InHandNext ==
  ASSUME Serializable, SessionsComplete, IInv, SupervisionInv, InHandInv, [Next]_vars
  PROVE  InHandInv'
<1>1. ASSUME NEW r \in Runs, Operator(r) PROVE InHandInv'
  <2>1. UNCHANGED <<pc, cur>>
    BY <1>1 DEF Operator, Enqueue, EnqueueFlush, EnqueueCommit, Cancel, CancelRead, CancelWrite, RemoveRun, session
  <2>2. \A q \in Runs : state'[q] \in Supervised => state[q] \in Supervised
    BY <1>1 DEF Operator, Enqueue, EnqueueFlush, EnqueueCommit, Insert, Publish, Cancel, CancelRead, CancelWrite, RemoveRun, Cancelled,
       Cancellable, SupervisionInv, Supervised, FINAL_STATES, IInv, TypeOK
  <2> QED BY <2>1, <2>2 DEF InHandInv
<1>2. ASSUME NEW w \in Workers, Step(w) PROVE InHandInv'
  BY <1>2, InHandStep
<1>3. ASSUME NEW w \in Workers,
             StartQueue(w) \/ DeadlinePasses(w) \/ \E r \in Runs : StartDirect(w, r)
      PROVE  InHandInv'
  BY <1>3 DEF StartQueue, StartDirect, DeadlinePasses, rows, IInv, TypeOK, Goto, InHandInv, Exec
<1>4. ASSUME NEW w \in Workers PROVE ~Crash(w)
  BY DEF Crash, SessionsComplete
<1>5. ASSUME NEW r \in Runs, RobotExits(r) \/ KillTakesEffect(r) PROVE InHandInv'
  BY <1>5 DEF RobotExits, KillTakesEffect, rows, session, InHandInv
<1>6. CASE Tick \/ UNCHANGED vars
  BY <1>6 DEF Tick, vars, rows, session, InHandInv
<1> QED BY <1>1, <1>2, <1>3, <1>4, <1>5, <1>6 DEF Next

\* When the mutex is free no run waits for a supervisor, as long as nothing
\* breaks a session off.
THEOREM NothingLeft == Serializable /\ SessionsComplete => (Spec => []NothingAbandoned)
<1> SUFFICES ASSUME Serializable, SessionsComplete PROVE Spec => []NothingAbandoned
  OBVIOUS
<1>1. Init => InHandInv
  BY DEF Init, InHandInv, Supervised
<1>2. IInv /\ SupervisionInv /\ InHandInv /\ [Next]_vars => InHandInv'
  BY InHandNext
<1>3. IInv /\ InHandInv => NothingAbandoned
  <2> SUFFICES ASSUME IInv, InHandInv, lock = NoWorker, NEW r \in Runs, state[r] \in Supervised
               PROVE  FALSE
    BY DEF NothingAbandoned
  <2>1. PICK w \in Workers : pc[w] \in Exec
    BY DEF InHandInv
  <2>2. lock = w
    BY <2>1 DEF IInv, HolderInv, Exec
  <2> QED BY <2>2, ConstantsAssumption
<1> QED BY <1>1, <1>2, <1>3, Invariance, Supervision, PTL DEF Spec
=============================================================================
