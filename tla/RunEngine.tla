------------------------------ MODULE RunEngine ------------------------------
(***************************************************************************)
(* The execution engine of Zanella Orchestrator and everything that races  *)
(* with it.                                                                *)
(*                                                                         *)
(* Workers are the threads and processes that call run_engine (the UI's    *)
(* "Executar fila", `rcc engine`, the Windows scheduled task) or           *)
(* run_engine_direct (the Play button).  A session holds the installation  *)
(* mutex from its first step to its last.  Beside them the operator        *)
(* enqueues, cancels and removes runs, robots run and exit by themselves,  *)
(* and the operating system finishes the kills it was asked for.           *)
(*                                                                         *)
(* One action is one database transaction or one call to the operating     *)
(* system: the points between which the other actors can move.             *)
(***************************************************************************)
EXTENDS Naturals

CONSTANTS
  Runs,       \* identifiers of runs; numbers, so that ties of created_at have an order
  NoRun,      \* "no run"
  Workers,    \* threads and processes that may start an engine session
  NoWorker,   \* "the mutex is free"
  Limited,    \* the runs whose snapshot carries a maximum execution time
  Isolation,  \* what a read-then-write transaction gets from the database
  Faults,     \* the kinds of failure that may happen
  MaxClock    \* bound: values of time.time() told apart

FaultKinds == {"crash", "db", "os", "report"}
  \* crash: a worker's process dies     db: a transaction raises
  \* os: an operating system call fails
  \* report: a robot leaves a result.json that is valid JSON but not an object

\* SQLite holds a shared lock from the first read to the commit: a competing
\* writer makes one of the two fail, so the transaction is one step or none.
\* PostgreSQL runs READ COMMITTED: the read and the write are two steps, and so
\* are an INSERT and the commit that shows its row to the others.
Isolations == {"serializable", "read_committed"}

ASSUME ConstantsAssumption ==
  /\ Runs \subseteq Nat /\ NoRun \notin Runs
  /\ NoWorker \notin Workers
  /\ Limited \subseteq Runs
  /\ Isolation \in Isolations
  /\ Faults \subseteq FaultKinds
  /\ MaxClock \in Nat

VARIABLES
  state,       \* state[r]: column Run.state; "fresh" before the row and "removed" after it,
               \* "inserted" and "due" while the transaction that inserts it is open
  created_at,  \* created_at[r]: column Run.created_at
  clock,       \* time.time()
  seen,        \* seen[r]: Run.state as an open cancel() read it, else "none"
  lock,        \* the owner of the installation mutex
  pc,          \* pc[w]: where the session of w is; "idle" outside a session
  mode,        \* mode[w]: "queue" (run_engine), "direct" (run_engine_direct) or "none"
  cur,         \* cur[w]: the run_id w works on
  verdict,     \* verdict[w]: final_state in execute_run, "none" until it is set
  expired,     \* expired[w]: time.monotonic() has passed the deadline
  proc         \* proc[r]: the root process of r, the one that the engine waits for

rows == <<state, created_at, clock, seen>>
session == <<lock, pc, mode, cur, verdict, expired>>
vars == <<rows, session, proc>>
-----------------------------------------------------------------------------
FINAL_STATES == {"completed", "failed", "cancelled", "timed_out", "interrupted"}

\* No session has claimed the run: of these rows only the queued are visible.
Unclaimed == {"fresh", "inserted", "due", "queued"}
RowStates == Unclaimed \cup {"starting", "running", "cancelling", "removed"} \cup FINAL_STATES

\* suspended: created, not yet in the job; alive: in the job and resumed;
\* dying: told to terminate, or the system is closing its job after its engine;
\* ok, error: exited by itself; killed: terminated.
Gone == {"ok", "error", "killed"}
ProcStates == {"none", "suspended", "alive", "dying"} \cup Gone

Exec == {"validate", "mkdir", "spawn", "resume", "mark", "poll", "check", "drain", "record", "fail"}
PCs == {"idle", "reconcile", "schedule", "claim", "claim_write", "claim_specific"} \cup Exec

Init ==
  /\ state = [r \in Runs |-> "fresh"]
  /\ created_at = [r \in Runs |-> 0]
  /\ clock = 0
  /\ seen = [r \in Runs |-> "none"]
  /\ lock = NoWorker
  /\ pc = [w \in Workers |-> "idle"]
  /\ mode = [w \in Workers |-> "none"]
  /\ cur = [w \in Workers |-> NoRun]
  /\ verdict = [w \in Workers |-> "none"]
  /\ expired = [w \in Workers |-> FALSE]
  /\ proc = [r \in Runs |-> "none"]
-----------------------------------------------------------------------------
(* The run table as the operator changes it. *)

Fresh == {r \in Runs : state[r] = "fresh"}

\* The INSERT of the rows of S, stamped with the present time, which the others
\* will see as s.
Insert(S, s) ==
  /\ state' = [r \in Runs |-> IF r \in S THEN s ELSE state[r]]
  /\ created_at' = [r \in Runs |-> IF r \in S THEN clock ELSE created_at[r]]
  /\ UNCHANGED <<clock, seen>>

\* The commit of the rows inserted as s: they join the queue as they were stamped.
Publish(S, s) ==
  /\ state' = [r \in Runs |-> IF r \in S /\ state[r] = s THEN "queued" ELSE state[r]]
  /\ UNCHANGED <<created_at, clock, seen>>

\* enqueue() as one step: no other transaction came between.
Enqueue(r) ==
  /\ Isolation = "serializable"
  /\ r \in Fresh
  /\ Insert({r}, "queued")
  /\ UNCHANGED <<session, proc>>

\* enqueue() under READ COMMITTED: session.flush stamps the row ...
EnqueueFlush(r) ==
  /\ Isolation = "read_committed"
  /\ r \in Fresh
  /\ Insert({r}, "inserted")
  /\ UNCHANGED <<session, proc>>

\* ... and the commit shows it. (One that is never committed stays invisible.)
EnqueueCommit(r) ==
  /\ state[r] = "inserted"
  /\ Publish({r}, "inserted")
  /\ UNCHANGED <<session, proc>>

\* What cancel() writes to a run it read in state s: queued runs leave the
\* queue, runs with a supervisor wait for it, the others are left alone.
Cancelled(s) ==
  IF s = "queued" THEN "cancelled"
  ELSE IF s \in {"starting", "running"} THEN "cancelling" ELSE s

Cancellable == {"queued", "starting", "running"}

\* cancel() as one step: no other transaction came between.
Cancel(r) ==
  /\ Isolation = "serializable"
  /\ state[r] \in Cancellable
  /\ state' = [state EXCEPT ![r] = Cancelled(state[r])]
  /\ UNCHANGED <<created_at, clock, seen, session, proc>>

\* cancel() under READ COMMITTED: session.get ...
CancelRead(r) ==
  /\ Isolation = "read_committed"
  /\ seen[r] = "none" /\ state[r] \in Cancellable
  /\ seen' = [seen EXCEPT ![r] = state[r]]
  /\ UNCHANGED <<state, created_at, clock, session, proc>>

\* ... and the UPDATE by id at the commit, or StaleDataError when the row went.
CancelWrite(r) ==
  /\ seen[r] # "none"
  /\ seen' = [seen EXCEPT ![r] = "none"]
  /\ state' = [state EXCEPT ![r] = IF @ = "removed" THEN @ ELSE Cancelled(seen[r])]
  /\ UNCHANGED <<created_at, clock, session, proc>>

\* Mutant: remove_run does not look at the state.
RemoveRun_Any(r) ==
  /\ state[r] \notin {"fresh", "removed"}
  /\ state' = [state EXCEPT ![r] = "removed"]
  /\ UNCHANGED <<created_at, clock, seen, session, proc>>

\* remove_run: only a settled run can be deleted.
RemoveRun(r) ==
  /\ state[r] \in FINAL_STATES
  /\ state' = [state EXCEPT ![r] = "removed"]
  /\ UNCHANGED <<created_at, clock, seen, session, proc>>

Tick ==
  /\ clock < MaxClock
  /\ clock' = clock + 1
  /\ UNCHANGED <<state, created_at, seen, session, proc>>
-----------------------------------------------------------------------------
(* Steps that the session actions are built from. *)

Goto(w, label) == pc' = [pc EXCEPT ![w] = label]

\* InstallationLock.__exit__, or the system abandoning the mutex of a dead thread.
Release(w) ==
  /\ lock' = IF lock = w THEN NoWorker ELSE lock
  /\ Goto(w, "idle")
  /\ mode' = [mode EXCEPT ![w] = "none"]
  /\ cur' = [cur EXCEPT ![w] = NoRun]
  /\ verdict' = [verdict EXCEPT ![w] = "none"]
  /\ expired' = [expired EXCEPT ![w] = FALSE]

\* execute_run returned: the queue loop goes on, a direct session ends.
Return(w) ==
  \/ /\ mode[w] = "queue"
     /\ Goto(w, "schedule")
     /\ cur' = [cur EXCEPT ![w] = NoRun]
     /\ verdict' = [verdict EXCEPT ![w] = "none"]
     /\ expired' = [expired EXCEPT ![w] = FALSE]
     /\ UNCHANGED <<lock, mode>>
  \/ /\ mode[w] = "direct"
     /\ Release(w)

\* Mutant: _finish spares a row that somebody cancels.
Finish_NotCancelling(r, s) ==
  /\ state' = [state EXCEPT ![r] = IF @ \in {"removed", "cancelling"} THEN @ ELSE s]
  /\ UNCHANGED <<created_at, clock, seen>>

\* _finish: an UPDATE by id whatever the state; it matches no row once removed.
Finish(r, s) ==
  /\ state' = [state EXCEPT ![r] = IF @ = "removed" THEN @ ELSE s]
  /\ UNCHANGED <<created_at, clock, seen>>

\* Mutant: the job is made without KILL_ON_JOB_CLOSE.
Doom_NotKilled(r) == UNCHANGED proc

\* Closing the last job handle kills what is in the job (KILL_ON_JOB_CLOSE);
\* TerminateJobObject does the same. Both return before the processes are gone.
Doom(r) == proc' = [proc EXCEPT ![r] = IF @ = "alive" THEN "dying" ELSE @]
-----------------------------------------------------------------------------
(* A session: the mutex, reconciliation, claiming. *)

\* Mutant: the result of the wait is not looked at.
Available_Always == TRUE

\* WaitForSingleObject(mutex, 0): an owned mutex is InstallationBusy, and the
\* caller stays as it was.
Available == lock = NoWorker

StartQueue(w) ==
  /\ pc[w] = "idle" /\ Available
  /\ lock' = w
  /\ Goto(w, "reconcile")
  /\ mode' = [mode EXCEPT ![w] = "queue"]
  /\ UNCHANGED <<rows, cur, verdict, expired, proc>>

\* Play: the UI has just enqueued r.
StartDirect(w, r) ==
  /\ pc[w] = "idle" /\ Available
  /\ state[r] = "queued"
  /\ lock' = w
  /\ Goto(w, "reconcile")
  /\ mode' = [mode EXCEPT ![w] = "direct"]
  /\ cur' = [cur EXCEPT ![w] = r]
  /\ UNCHANGED <<rows, verdict, expired, proc>>

\* Mutants: a state is forgotten, or interrupted runs are tried again.
Reconciled_NotCancelling == {"starting", "running"}
LeftoverState_Queued == "queued"

Reconciled == {"starting", "running", "cancelling"}
LeftoverState == "interrupted"

Reconcile(w) ==
  /\ pc[w] = "reconcile"
  /\ state' = [r \in Runs |-> IF state[r] \in Reconciled THEN LeftoverState ELSE state[r]]
  /\ Goto(w, IF mode[w] = "queue" THEN "schedule" ELSE "claim_specific")
  /\ UNCHANGED <<created_at, clock, seen, lock, mode, cur, verdict, expired, proc>>

\* enqueue_due_schedules: one transaction, any number of due schedules.
EnqueueDue(w) ==
  /\ pc[w] = "schedule"
  /\ Isolation = "serializable"
  /\ \E S \in SUBSET Fresh : Insert(S, "queued")
  /\ Goto(w, "claim")
  /\ UNCHANGED <<lock, mode, cur, verdict, expired, proc>>

\* Under READ COMMITTED: a row at each turn of its loop ...
DueFlush(w) ==
  /\ pc[w] = "schedule"
  /\ Isolation = "read_committed"
  /\ \E r \in Fresh : Insert({r}, "due")
  /\ UNCHANGED <<session, proc>>

\* ... and one commit for all.
DueCommit(w) ==
  /\ pc[w] = "schedule"
  /\ Isolation = "read_committed"
  /\ Publish(Runs, "due")
  /\ Goto(w, "claim")
  /\ UNCHANGED <<lock, mode, cur, verdict, expired, proc>>

\* The session ends with that transaction open: its rows were never there.
RollBack ==
  /\ state' = [r \in Runs |-> IF state[r] = "due" THEN "fresh" ELSE state[r]]
  /\ UNCHANGED <<created_at, clock, seen>>

\* Mutant: ORDER BY id only.
Before_ById(r, s) == r < s

Before(r, s) == created_at[r] < created_at[s] \/ (created_at[r] = created_at[s] /\ r < s)

\* SELECT ... WHERE state = 'queued' ORDER BY created_at, id LIMIT 1
Oldest(r) ==
  /\ state[r] = "queued"
  /\ \A s \in Runs \ {r} : state[s] = "queued" => Before(r, s)

Claim(w, r) ==
  /\ state' = [state EXCEPT ![r] = "starting"]
  /\ cur' = [cur EXCEPT ![w] = r]
  /\ Goto(w, "validate")
  /\ UNCHANGED <<created_at, clock, seen, lock, mode, verdict, expired, proc>>

ClaimNext(w) ==
  /\ pc[w] = "claim"
  /\ Isolation = "serializable"
  /\ \E r \in Runs : Oldest(r) /\ Claim(w, r)

\* READ COMMITTED: the subquery's candidate, then the UPDATE that checks it again.
ClaimNextRead(w) ==
  /\ pc[w] = "claim"
  /\ Isolation = "read_committed"
  /\ \E r \in Runs : Oldest(r) /\ cur' = [cur EXCEPT ![w] = r]
  /\ Goto(w, "claim_write")
  /\ UNCHANGED <<rows, lock, mode, verdict, expired, proc>>

ClaimNextWrite(w) ==
  /\ pc[w] = "claim_write"
  /\ state[cur[w]] = "queued"
  /\ Claim(w, cur[w])

\* claim_next returned None: run_engine leaves its loop.
QueueEmpty(w) ==
  /\ \/ pc[w] = "claim" /\ \A r \in Runs : state[r] # "queued"
     \/ pc[w] = "claim_write" /\ state[cur[w]] # "queued"
  /\ Release(w)
  /\ UNCHANGED <<rows, proc>>

ClaimSpecific(w) ==
  /\ pc[w] = "claim_specific"
  /\ state[cur[w]] = "queued"
  /\ Claim(w, cur[w])

\* run_engine_direct returns "skipped".
Skip(w) ==
  /\ pc[w] = "claim_specific"
  /\ state[cur[w]] # "queued"
  /\ Release(w)
  /\ UNCHANGED <<rows, proc>>
-----------------------------------------------------------------------------
(* execute_run. *)

\* The snapshot names paths that exist.
Validate(w) ==
  /\ pc[w] = "validate"
  /\ state[cur[w]] # "removed"
  /\ Goto(w, "mkdir")
  /\ UNCHANGED <<rows, lock, mode, cur, verdict, expired, proc>>

\* validate_command_paths found an error.
Reject(w) ==
  /\ pc[w] = "validate"
  /\ state[cur[w]] # "removed"
  /\ Finish(cur[w], "failed")
  /\ Return(w)
  /\ UNCHANGED proc

MakeRunDir(w) ==
  /\ pc[w] = "mkdir"
  /\ Goto(w, "spawn")
  /\ UNCHANGED <<rows, lock, mode, cur, verdict, expired, proc>>

\* CreateProcess with CREATE_SUSPENDED
CreateSuspended(w) ==
  /\ pc[w] = "spawn"
  /\ proc' = [proc EXCEPT ![cur[w]] = "suspended"]
  /\ Goto(w, "resume")
  /\ UNCHANGED <<rows, lock, mode, cur, verdict, expired>>

\* AssignProcessToJobObject and ResumeThread
AssignAndResume(w) ==
  /\ pc[w] = "resume"
  /\ proc' = [proc EXCEPT ![cur[w]] = "alive"]
  /\ Goto(w, "mark")
  /\ UNCHANGED <<rows, lock, mode, cur, verdict, expired>>

\* The process is announced; the deadline is counted from here.
MarkRunning(w) ==
  /\ pc[w] = "mark"
  /\ Finish(cur[w], "running")
  /\ Goto(w, "poll")
  /\ UNCHANGED <<lock, mode, cur, verdict, expired, proc>>

\* Mutant: every poll refreshes the state.
Poll_Heartbeat(w) ==
  /\ pc[w] = "poll"
  /\ Finish(cur[w], "running")
  /\ Goto(w, IF proc[cur[w]] \in Gone THEN "drain" ELSE "check")
  /\ UNCHANGED <<lock, mode, cur, verdict, expired, proc>>

\* Mutant: the deadline is counted anew at every poll.
Poll_DeadlineAnew(w) ==
  /\ pc[w] = "poll"
  /\ Goto(w, IF proc[cur[w]] \in Gone THEN "drain" ELSE "check")
  /\ expired' = [expired EXCEPT ![w] = FALSE]
  /\ UNCHANGED <<rows, lock, mode, cur, verdict, proc>>

\* process.wait(0.1)
Poll(w) ==
  /\ pc[w] = "poll"
  /\ Goto(w, IF proc[cur[w]] \in Gone THEN "drain" ELSE "check")
  /\ UNCHANGED <<rows, lock, mode, cur, verdict, expired, proc>>

\* process.stop() with the final state that goes with it
Stop(w, s) ==
  /\ Doom(cur[w])
  /\ verdict' = [verdict EXCEPT ![w] = s]
  /\ Goto(w, "drain")
  /\ UNCHANGED <<rows, lock, mode, cur, expired>>

StopCancelled(w) ==
  /\ pc[w] = "check"
  /\ state[cur[w]] = "cancelling"
  /\ Stop(w, "cancelled")

StopTimedOut(w) ==
  /\ pc[w] = "check"
  /\ state[cur[w]] # "cancelling" /\ expired[w]
  /\ Stop(w, "timed_out")

KeepPolling(w) ==
  /\ pc[w] = "check"
  /\ state[cur[w]] # "cancelling" /\ ~expired[w]
  /\ Goto(w, "poll")
  /\ UNCHANGED <<rows, lock, mode, cur, verdict, expired, proc>>

\* Mutant: any exit is a success.
ExitState_AnyCode(r) == "completed"

\* The final state when the engine did not stop the process: its exit code.
ExitState(r) == IF proc[r] = "ok" THEN "completed" ELSE "failed"

\* process.wait(10), exit_code() and the end of the with block. The wait ends
\* with the process or with its ten seconds, and its result is not looked at.
Drain(w) ==
  /\ pc[w] = "drain"
  /\ verdict' = [verdict EXCEPT ![w] = IF @ = "none" THEN ExitState(cur[w]) ELSE @]
  /\ Doom(cur[w])
  /\ Goto(w, "record")
  /\ UNCHANGED <<rows, lock, mode, cur, expired>>

\* The last _finish.
Record(w) ==
  /\ pc[w] = "record"
  /\ Finish(cur[w], verdict[w])
  /\ Return(w)
  /\ UNCHANGED proc

\* The _finish of the except clause.
RecordFailure(w) ==
  /\ pc[w] = "fail"
  /\ Finish(cur[w], "failed")
  /\ Return(w)
  /\ UNCHANGED proc
-----------------------------------------------------------------------------
(* Failures. *)

\* ProcessTree.__init__ raises: nothing was created, or a process that could
\* not be assigned and resumed is terminated.
SpawnFails(w) ==
  /\ "os" \in Faults
  /\ pc[w] \in {"spawn", "resume"}
  /\ proc' = [proc EXCEPT ![cur[w]] = IF @ = "suspended" THEN "dying" ELSE @]
  /\ Goto(w, "fail")
  /\ UNCHANGED <<rows, lock, mode, cur, verdict, expired>>

\* A system call or a transaction inside the with block raises: the job is
\* closed and the except clause runs.
RaiseInside(w) ==
  /\ \/ "os" \in Faults /\ pc[w] \in {"mark", "poll", "check", "drain"}
     \/ "db" \in Faults /\ pc[w] \in {"mark", "check"}
  /\ Doom(cur[w])
  /\ Goto(w, "fail")
  /\ UNCHANGED <<rows, lock, mode, cur, verdict, expired>>

\* An exception nobody in engine.py catches ends the session: a transaction
\* outside the try, a run directory that cannot be made, the snapshot of a row
\* that is gone, or payload.get on a report that is not an object. The run keeps
\* the state it had.
Abort(w) ==
  /\ \/ "db" \in Faults /\ pc[w] \in {"reconcile", "schedule", "claim", "claim_write",
                                     "claim_specific", "validate", "record", "fail"}
     \/ "os" \in Faults /\ pc[w] = "mkdir"
     \/ "report" \in Faults /\ pc[w] = "record"
     \/ pc[w] = "validate" /\ state[cur[w]] = "removed"
  /\ Release(w)
  /\ RollBack
  /\ UNCHANGED proc

\* The process of w dies: Windows abandons the mutex and closes the job.
Crash(w) ==
  /\ "crash" \in Faults
  /\ pc[w] # "idle"
  /\ Release(w)
  /\ RollBack
  /\ IF cur[w] \in Runs THEN Doom(cur[w]) ELSE UNCHANGED proc
-----------------------------------------------------------------------------
(* The robot, the system and time. *)

RobotExits(r) ==
  /\ proc[r] = "alive"
  /\ \E how \in {"ok", "error"} : proc' = [proc EXCEPT ![r] = how]
  /\ UNCHANGED <<rows, session>>

KillTakesEffect(r) ==
  /\ proc[r] = "dying"
  /\ proc' = [proc EXCEPT ![r] = "killed"]
  /\ UNCHANGED <<rows, session>>

DeadlinePasses(w) ==
  /\ pc[w] \in {"poll", "check"} /\ cur[w] \in Limited /\ ~expired[w]
  /\ expired' = [expired EXCEPT ![w] = TRUE]
  /\ UNCHANGED <<rows, lock, pc, mode, cur, verdict, proc>>
-----------------------------------------------------------------------------
\* What the thread of w does by itself once its session has begun.
Work(w) ==
  \/ Reconcile(w) \/ EnqueueDue(w) \/ DueFlush(w) \/ DueCommit(w)
  \/ ClaimNext(w) \/ ClaimNextRead(w) \/ ClaimNextWrite(w) \/ QueueEmpty(w)
  \/ ClaimSpecific(w) \/ Skip(w)
  \/ Validate(w) \/ Reject(w) \/ MakeRunDir(w)
  \/ CreateSuspended(w) \/ AssignAndResume(w) \/ MarkRunning(w)
  \/ Poll(w) \/ StopCancelled(w) \/ StopTimedOut(w) \/ KeepPolling(w)
  \/ Drain(w) \/ Record(w) \/ RecordFailure(w)

Step(w) == Work(w) \/ SpawnFails(w) \/ RaiseInside(w) \/ Abort(w)

Operator(r) ==
  \/ Enqueue(r) \/ EnqueueFlush(r) \/ EnqueueCommit(r)
  \/ Cancel(r) \/ CancelRead(r) \/ CancelWrite(r) \/ RemoveRun(r)

Next ==
  \/ \E r \in Runs : Operator(r) \/ RobotExits(r) \/ KillTakesEffect(r)
  \/ \E w \in Workers :
       \/ StartQueue(w) \/ Step(w) \/ Crash(w) \/ DeadlinePasses(w)
       \/ \E r \in Runs : StartDirect(w, r)
  \/ Tick

Spec == Init /\ [][Next]_vars

\* The thread of a session is scheduled, a kill takes effect, and a deadline
\* that is set comes. Nothing makes a call fail, a robot exit, an operator act
\* or a worker start a session. (At "validate" a row that is gone ends it.)
Fairness ==
  /\ \A w \in Workers : /\ WF_vars(Work(w) \/ (pc[w] = "validate" /\ Abort(w)))
                         /\ WF_vars(DeadlinePasses(w))
  /\ \A r \in Runs : WF_vars(KillTakesEffect(r))

FairSpec == Spec /\ Fairness

\* A session that ends in a way only a failure explains.
Broken(w) == (Crash(w) \/ Abort(w)) /\ ~Work(w)

\* The Windows scheduled task starts a queue session again and again, and the
\* failures that end a session stop one day.
TaskSpec ==
  /\ FairSpec
  /\ WF_vars(\E w \in Workers : StartQueue(w))
  /\ <>[][~\E w \in Workers : Broken(w)]_vars
-----------------------------------------------------------------------------
TypeOK ==
  /\ state \in [Runs -> RowStates]
  /\ created_at \in [Runs -> 0..MaxClock]
  /\ clock \in 0..MaxClock
  /\ seen \in [Runs -> Cancellable \cup {"none"}]
  /\ lock \in Workers \cup {NoWorker}
  /\ pc \in [Workers -> PCs]
  /\ mode \in [Workers -> {"none", "queue", "direct"}]
  /\ cur \in [Workers -> Runs \cup {NoRun}]
  /\ verdict \in [Workers -> FINAL_STATES \cup {"none"}]
  /\ expired \in [Workers -> BOOLEAN]
  /\ proc \in [Runs -> ProcStates]

(* The inductive invariant, part by part. *)

\* A session holds the mutex from its first step to its last.
HolderInv == \A w \in Workers : (pc[w] # "idle") <=> (lock = w)

\* From its claim on, a session knows which run it is at.
Chosen == Exec \cup {"claim_write", "claim_specific"}

CurInv ==
  \A w \in Workers :
    /\ pc[w] \in Chosen => cur[w] \in Runs
    /\ pc[w] # "idle" => mode[w] \in {"queue", "direct"}
    /\ pc[w] = "reconcile" /\ mode[w] = "direct" => cur[w] \in Runs

\* The process of a run is as far as the session that executes it.
Launching == {"validate", "mkdir", "spawn"}
Attending == {"mark", "poll", "check", "drain"}

ProcInv ==
  /\ \A r \in Runs : state[r] \in Unclaimed => proc[r] = "none"
  /\ \A w \in Workers :
       /\ pc[w] \in Launching => proc[cur[w]] = "none"
       /\ pc[w] = "resume" => proc[cur[w]] = "suspended"
       /\ pc[w] \in Exec => state[cur[w]] \notin Unclaimed
  /\ \A r \in Runs :
       proc[r] = "alive" => \E w \in Workers : cur[w] = r /\ pc[w] \in Attending

\* What a session will record agrees with how the process ended.
VerdictInv ==
  /\ \A r \in Runs : seen[r] # "completed" /\ (state[r] = "completed" => proc[r] = "ok")
  /\ \A w \in Workers :
       /\ pc[w] = "drain" => \/ verdict[w] \in {"cancelled", "timed_out"}
                             \/ verdict[w] = "none" /\ proc[cur[w]] \in Gone
       /\ pc[w] = "record" => \/ verdict[w] \in {"failed", "cancelled", "timed_out"}
                              \/ verdict[w] = "completed" /\ proc[cur[w]] = "ok"
       /\ pc[w] \notin {"drain", "record", "fail"} => verdict[w] = "none"

IInv == TypeOK /\ HolderInv /\ CurInv /\ ProcInv /\ VerdictInv

\* With serializable transactions the row of the run in hand follows its session,
\* and every other supervised row is a leftover that awaits the next reconciliation.
Supervised == {"starting", "running", "cancelling"}

SupervisionInv ==
  /\ \A r \in Runs : seen[r] = "none" /\ state[r] \notin {"inserted", "due"}
  /\ \A w \in Workers :
       /\ pc[w] \in Launching \cup {"resume", "mark"} => state[cur[w]] \in {"starting", "cancelling"}
       /\ pc[w] \in Exec => state[cur[w]] \in Supervised
  /\ \A r \in Runs :
       state[r] \in Supervised =>
         \/ lock = NoWorker
         \/ \E w \in Workers : pc[w] = "reconcile"
         \/ \E w \in Workers : pc[w] \in Exec /\ cur[w] = r
  /\ \A r, s \in Runs : state[r] \in Supervised /\ state[s] \in Supervised => r = s
-----------------------------------------------------------------------------
(* Safety. *)

\* At most one robot runs whose end is not on its way, whatever fails and
\* whichever database is used (MVP.md:120; ProcessTree and InstallationLock):
\* a robot never outlives its engine unattended to meet the next one.
AtMostOneAlive ==
  \A r, s \in Runs : proc[r] = "alive" /\ proc[s] = "alive" => r = s

\* "completed" is a claim about the robot: its process exited by itself with
\* code zero (MVP.md:43), however cancellations, deadlines and failures raced it.
CompletedMeansExitZero ==
  \A r \in Runs : state[r] = "completed" => proc[r] = "ok"

\* The processes of the runs live as OwnedProcess says one does, whatever fails:
\* a run gets a process once (MVP.md:87, nothing is repeated automatically), it
\* is resumed or discarded, and what has ended stays ended.
Processes == INSTANCE ProcessLife WITH Trees <- Runs, life <- proc
ImplementsProcessLife == Processes!Spec

\* The run table keeps the promise of RunLifecycle: claims only when nothing is
\* supervised, and final states that stay.
Lifecycle == INSTANCE RunLifecycle
ImplementsLifecycle == Lifecycle!Spec

\* No process is launched for a run that has been withdrawn or settled: what the
\* engine claimed is still its own when it gets to CreateProcess (MVP.md:45).
SettledNeverStarts ==
  [][\A r \in Runs :
       proc[r] = "none" /\ proc'[r] = "suspended" => state[r] \notin FINAL_STATES]_vars

\* FIFO (README.md:33): with serializable transactions only Play lets a run pass
\* one that was enqueued earlier and is still waiting, whichever of the operator
\* and the schedules enqueued them.
FifoClaims ==
  [][\A r, s \in Runs :
       /\ state[r] = "queued" /\ state'[r] = "queued"
       /\ state[s] = "queued" /\ state'[s] = "starting"
       /\ created_at[r] < created_at[s]
       => \E w \in Workers : mode[w] = "direct" /\ cur[w] = s]_vars

\* A session that ends leaves nothing half done: when the mutex is free no run
\* waits for a supervisor that is not there (MVP.md:70 and MVP.md:115).
NothingAbandoned ==
  lock = NoWorker => \A r \in Runs : state[r] \notin Supervised
-----------------------------------------------------------------------------
(* Liveness. *)

Settled(r) == state[r] \in FINAL_STATES \cup {"removed"}

\* A robot that hangs does not hold the queue when its run has a limit: the run
\* is settled, whatever the robot does (MVP.md:116).
LimitedRunsSettle ==
  \A r \in Limited : (state[r] \in Supervised) ~> Settled(r)

\* A cancellation that finds the run running is honoured, with or without a limit.
RunningCancelHonoured ==
  \A w \in Workers, r \in Runs :
    (pc[w] \in {"poll", "check"} /\ cur[w] = r /\ state[r] = "cancelling") ~> Settled(r)

\* Every cancellation that was accepted is honoured (MVP.md:42, README.md:42).
CancelHonoured == \A r \in Runs : (state[r] = "cancelling") ~> Settled(r)

\* With the scheduled task installed, a run left behind by a dead or failed
\* engine is settled by a later one.
LeftoversSettle ==
  \A r \in Runs : (state[r] \in Supervised) ~> Settled(r)

\* With the scheduled task installed, every queued run gets its turn.
QueueServed == \A r \in Runs : (state[r] = "queued") ~> (state[r] # "queued")
=============================================================================
