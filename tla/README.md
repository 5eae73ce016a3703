# Verification of Zanella Orchestrator

TLA+ specifications, model-checking runs and machine-checked proofs for
`zanella-orchestrator`: a local orchestrator of Windows automations ("robots")
with a panel, a command line and a Windows scheduled task over one SQL database
(SQLite, or PostgreSQL). The specifications are translated from
`src/src/rpa_control_center/`; file names below are relative to that directory.
`MVP.md`, `README.md` and `MANUAL` (`docs/MANUAL-USUARIO.md`) with a line number
are the repository's own text.

## 1. The system

| Component | State | Operations | Hard behaviour |
|---|---|---|---|
| Run table (`models.py`, `service.py`, `store.py`) | `Run.state`, `created_at` | `enqueue`, `cancel`, `remove_run`, `claim_next`, `claim_specific`, `reconcile`, `_finish` | every one is a transaction of its own; on PostgreSQL a read and a later write by id |
| Engine (`engine.py`) | where a session is, the run in hand, the deadline, the verdict | `run_engine` (queue), `run_engine_direct` (Play), `execute_run` | races with `cancel`, with the exit of the robot and with the deadline; failures at every call; death of the process |
| Installation mutex and process tree (`windows.py`) | the owner of the mutex; the process, its job object, its handles | `InstallationLock`, `ProcessTree` | abandoned mutex; a kill that is asked for before it takes effect; a constructor that fails half way; a process created and never resumed |
| Window activation (`windows.py`) | a thread, the windows it tried | `_watch`, `_activate`, `close` | runs beside `ProcessTree.close`; window handles are reused |
| Schedules (`scheduler.py`) | rows of `schedules` | `add_schedule`, `set_schedule_active`, `remove_schedule`, `enqueue_due_schedules`, `next_occurrence` | the operator acts between the SELECT and the conditional UPDATE; missed occurrences; calendar arithmetic |
| Windows scheduled task (`scheduler.py`) | the task, its former name, the runner, the interval file | install, migrate, remove | several system commands, each may fail; calls overlap and outlive their window |
| Registry (`service.py`) | rows of `robots`, log directories | add, update, activate, remove, clear | checks "no active run", then writes; rows first, directories afterwards |
| Maintenance (`maintenance.py`, `database.py`) | the database file, its copies, the schema revision | retention, import, limits, backup, restore, upgrade | checks and replaces in different transactions; a crash or a failure in between |
| Panel (`ui.py`) | page, filter, form, dialog, buttons, a thread per session | everything above | acts on what was drawn earlier; several sessions at once; a refresh that raises |
| Command line (`cli.py`) | none | `robot-add`, `enqueue`, `cancel`, `engine`, `scheduler` | a process beside all the others |
| Executors, credentials, packaging, demo | none | command lines, credential store | strings and pure input/output |

How they interact: panel and command line write rows; whoever starts a session
(panel thread, `rcc engine`, scheduled task) takes the mutex, reconciles what a
dead session left, and then alternates "enqueue what is due", "claim the
oldest", "execute it". The engine and the operator meet only in the database:
`cancel` writes `cancelling` and the engine's polling loop reads it. The robot
and the engine meet only in the process: the engine polls it and terminates its
job. Removal of the limits and schema upgrades take the engine's mutex; the
other operations of maintenance only look for active runs. What is hard to test
about this, line by line, is the list `hazards` of `PROJECT.json`.

What makes each part correct:

* run table: a run has at most one supervisor at a time, is executed once, and
  its final state stays;
* engine: the state recorded is what happened to the process; a cancellation or
  a limit ends the robot; a failure never blocks the queue;
* process tree: no robot outlives its engine unattended, none that was not told to
  end meets the next, and only its own windows are brought to the front;
* schedules: one run at most for an occurrence, none for an occurrence that
  passed before a reactivation, none skipped, a backlog makes one run;
* scheduled task: there is a trigger if there was one, and one only;
* registry and maintenance: nothing changes under a run that is queued or
  supervised, no run is launched twice, a failed restore leaves the previous
  database, and nothing is migrated without a copy;
* panel: what it shows exists, what it saves is not older than what it showed,
  and its buttons come back.

Not all of this is so in every case: section 3 lists where the code does otherwise.

## 2. The modules

| Module | Role |
|---|---|
| `RunLifecycle` | abstract: the life of a row of `runs`, and nothing else |
| `ProcessLife` | abstract: the life of the root process of a run |
| `RunEngine`, `RunEngineMC` | the engine, its mutex, its processes, the operator, failures, time; instances |
| `OwnedProcess` | `ProcessTree` and `OwnedWindowActivation`, call by call |
| `NextOccurrence` | the weekday mask and `next_occurrence`, as operators, with the reference definition `IsFirstSlotAfter` |
| `Scheduling`, `SchedulingMC` | the schedules, the session's transaction and the operator; instances |
| `Registry` | what the database holds, and what each transaction makes of it: operators used by the two modules that follow |
| `Maintenance`, `MaintenanceMC` | the operations of registry and maintenance beside a session and the command line; instances |
| `TaskTrigger`, `TaskTriggerMC` | the Windows scheduled task and the panel's controls of it; instances |
| `Panel`, `PanelMC` | the panel's page, form, dialogs and sessions; instances |
| `RunLifecycleProofs`, `RunEngineProofs`, `SchedulingProofs` (with `NextOccurrence`), `OwnedProcessProofs`, `MaintenanceProofs`, `TaskTriggerProofs`, `PanelProofs` | theorems |
| `RegistryProofs` | lemmas: what each operator of `Registry` makes of a database, used by the proofs of its two users |

Refinements: `RunEngine` implements `RunLifecycle` (its rows) and `ProcessLife`
(its processes); `OwnedProcess` implements `ProcessLife` too, so the process that
`RunEngine` takes for one variable is what the class really makes of one. Both
directions of that interface are thereby checked against the same text.

### RunEngine and the code

One action is one transaction or one system call: the points between which
others can move. `pc[w]` is the place of a session in the code:

| `pc` | code |
|---|---|
| `idle` | no session; `StartQueue`/`StartDirect` is `InstallationLock.__enter__` with a free mutex (busy raises, and nothing changes) |
| `reconcile` | `reconcile()` in `run_engine` / `run_engine_direct` |
| `schedule` | `enqueue_due_schedules` in the queue loop: any set of runs is inserted (which ones is the subject of `Scheduling`), in one step or, under READ COMMITTED, row by row with one commit (`DueFlush`, `DueCommit`) |
| `claim`, `claim_write`, `claim_specific` | `claim_next` (one step, or the subquery and the UPDATE), `claim_specific` |
| `validate`, `mkdir` | snapshot, `validate_command_paths`, run directory (outside the `try`) |
| `spawn`, `resume` | `ProcessTree.__init__`: CreateProcess suspended; assign to the job and resume |
| `mark` | the unconditional write of `running` |
| `poll`, `check` | `process.wait(0.1)`; the look at the state and the deadline |
| `drain` | `process.wait(10)`, whose result nobody looks at, `exit_code()`, `close()`: the process may still be dying when it ends |
| `record`, `fail` | the last `_finish`, in the normal path and in `except` |

`proc[r]` is the root process of the run, the only one the engine waits for (its
descendants are in `OwnedProcess`): `suspended` (created, outside the job),
`alive`, `dying` (told to terminate), `ok`/`error` (exited by itself), `killed`.
`Faults` says which failures an instance has: `crash`, `db` (a transaction
raises), `os` (a system call raises), `report` (a `result.json` that is JSON but
not an object). A kill that outlasts `wait(10)` is no failure of an instance but
part of every `Drain`.

`Isolation` is `serializable` for SQLite and `read_committed` for PostgreSQL. On
SQLite `make_engine` opens each transaction with BEGIN, so a reader's shared lock
keeps a competing commit out (one of the two fails), and an INSERT keeps its lock
until the commit: a transaction is one step. On PostgreSQL it is as many as others
can come between. `seen[r]` is a `cancel()` between its read and its write. A row
is `inserted` (by `enqueue`) or `due` (by the session) from the flush that stamps
its `created_at` until the commit that shows it (`EnqueueFlush`, `EnqueueCommit`).

Abstracted: log and result contents, reasons, snapshots (only "has a limit"),
ids (numbers, ordered like the text ids), descendants and handles (those are in
`OwnedProcess`).

### OwnedProcess and the code

`owner` runs through the constructor (`new` … `resumed`), the `with` block of
`execute_run` (`body`, `watched`, `drained`, `stopping`) and its ends; `failing`
and `unwinding` are the exceptional end, in which `__exit__` closes the tree
before the `finally` stops the activation thread. The robot may start a child,
which the engine never waits for. `doomed` are processes told to end; the kill
comes later. `act` is the thread: list the windows (`scan`), take one (`pick`),
look again whose it is (`recheck`), then attach, bring forward, detach.
`window` belongs to a process of the run, of the job the engine itself runs in
(`site`), or to another, and may change hands at any step.

### Scheduling and the code

`DueRead`, `Claim`/`Pass` per schedule, `Commit` and `Rollback` are the one
transaction of `enqueue_due_schedules`. Its claimed rows are locked until it
ends; under `serializable` no operator writes while it is open. The order of
the loop is abstracted (the transaction commits as a whole). `Activate` is
`set_schedule_active(s, True)`; under `read_committed` it is the read of row
and clock, then an UPDATE of the columns that differ from what was read.
`since` and `served` are history variables. Time is counted in instants,
`DayLength` of them a day; changes of daylight saving time are left out, and so
is a clock that is set back.

### Registry, Maintenance and the code

A database is one value, so a copy of it is that value. `starting` counts as
`running`, and of a limit only its presence is kept. The panel does one
operation at a time: `step` is where it is, `txn` what it has read.

| `step` | code |
|---|---|
| `commit` | a transaction of `service.py` between its check and its commit; on SQLite nobody else commits meanwhile, on PostgreSQL anybody may |
| `logs` | `_remove_log_directory` for each run read, after the commit |
| `purge`, `import` | `purge_old_runs` and `import_robots` between the transaction that checks and the one that writes |
| `limits_*` | `remove_execution_limits` under the mutex: check, backup (with `fila.json`), read, write |
| `restore_safety`, `restore_replace`, `putback` | `restore_sqlite`: the `.before-restore` copy, the copy over the database, the `except` |
| `upgrade`, `copy`, `migrate` | `upgrade_database`: the revision, the mutex, the `.before-rc6` copy, the migrations (one commit each on SQLite) |

The session beside it claims, makes the run directory (`mkdir`), launches
(`launch`), writes `running` whatever the row says by then (`MarkRunning`), and
ends. On PostgreSQL `cancel()` and `enqueue()` are a read and a later write
(`asked`, `pending`). `putback` may raise (`PutBackFails`): the safety copy is
gone all the same.

`Menus` splits the operations into groups of which one behaviour uses one: the
registry with its removals, retention, import and limits; removals with restore;
backup with restore. The last two are offered on SQLite only, where restore is. `executed` and `relaunched` are history
variables, and so is `stranded`: a put-back has raised and nothing has brought the
database to the newest revision since.

### TaskTrigger and the code

`old` and `new` are the two names of the task. Each command of
`_migrate_legacy_windows_task`'s script, of `install_windows_task` and
`remove_windows_task` is an action of a call `th[t]`; with `Fails` it is the call
that raises. The panel opens (its constructor migrates), installs, removes, and
nothing keeps the operator from a second click while a thread works. `Close` may
come between any two steps: of the calls in progress any set goes on without
their window (`left`), the threads of `asyncio.to_thread` and the programs they
started; the others are cut short. Calls that were left report to nobody and may
overlap the constructor and the clicks of the next window.

`alone` and `live` are history: no other call was in progress meanwhile; and the
task that the migration goes by (the new name if there is one, else the old) was
enabled when it began. `failures` counts the failing calls while any call is in
progress, and starts anew when none is.

### Panel and the code

A handler is one step up to its first `await`. `view` is what was drawn last and
what the buttons are bound to; handlers check it against nothing but the service
they call. `Play` and `ExecuteQueue` start a thread (`jobs[j]`) and keep a
handler that polls it (`watched`). `Refresh` may fail before or after the count
of the runs.

`refresh()` reads the runs once (`ui.py:731`) and, when the page turns out to lie
beyond the last one, again (`ui.py:742`), in another session. `Drawn` is the first
read; `todo` holds what is still to do when a second one is needed, and `Redraw` is
that read with what the handler does afterwards (start the session of Play, go on
waiting). Threads, the scheduled task and the command line commit in between, the
event loop does nothing else. `stale` is a history variable: the total shown is of
another database than the rows. The other queries of `refresh()` (automations,
schedules) are taken from the same snapshot as the rows: no property relates them
to it. `lifted` is a history variable: the automations of which the page has shown
that their limits are gone, until the operator types or imports one.

## 3. What is checked

The bounds are small on purpose and the interesting cases are inside them: two
sessions suffice for every conflict over the mutex (only one can hold it), two
runs for every order of the queue and every overlap. The failures named in `Faults`
hit the steps named with them, any number of times; in `TaskTrigger` any call may
fail, but one only while calls are in progress.

| Run | Instance | Shows |
|---|---|---|
| `engine` | `RunEngine`, 2 workers, 2 runs (both limited: a robot without a limit may hold the queue for ever), serializable, all failures, the scheduled task | `IInv`, `SupervisionInv`, `FifoClaims`, `ImplementsLifecycle`, `LeftoversSettle`, `QueueServed` |
| `postgres` | 2 workers, 2 runs (one limited), READ COMMITTED, all failures | `AtMostOneAlive`, `CompletedMeansExitZero`, `ImplementsProcessLife` (a run gets a process once) |
| `live` | 2 workers, 2 runs (one limited), no failures, robots may hang for ever | `NothingAbandoned`, `LimitedRunsSettle`, `RunningCancelHonoured` |
| `schedules_sqlite` | one schedule, three kinds of calendar, 15 instants of 2 a day (Monday to the second Monday) | `FirstChosenSlot` (the rows follow the chosen calendar, mask included), `Coalesced`, `InactiveNotEnqueued`, `DueServed` |
| `schedules_postgres` | two daily schedules of a robot, READ COMMITTED, a day of one instant: three instants, each an occurrence | `IInv`, `NoStaleFiring` |
| `maintenance` | one automation, two runs, two revisions; backups of the older one with a run queued or running; both databases; crashes, a safety copy that cannot be created, failing replacements, put-backs and migrations | `IInv` (mutex, and no run without its automation), `IdleAtHead`, `NoSecondLaunch`, `RunsUndisturbed`, `RowKeepsLogs`, `LimitsAccounted`, `FailedRestoreKeepsRows`, `CopyBeforeMigration` |
| `windows` | one tree with a child, one window, three attempts, any call may fail at any time, the engine may die | `IInv` (nothing runs unowned), `TouchesOwnWindows`, `ImplementsProcessLife`, `TreeEnds`, `ActivationEnds` |
| `trigger` | two calls at a time, windows closed over them and opened beside them, two intervals, one failing call | `IInv`, `MigrationKeepsTrigger`, `ReportsAreTrue` |
| `panel` | one automation, two runs on pages of one, two handlers or tasks in progress, failing refreshes and sessions, a scheduled task beside | `IInv`, `PageInRange`, `LimitsStayLifted`, `ButtonReturns` |

Every property of these runs has a mutant in the manifest: a changed definition,
the way a plausible mistake would change the code, under which TLC finds the
property violated.

**Bounds.** `MaxClock` bounds `time.time()`: the values of `created_at` that
are told apart in `RunEngine`, instants in `Scheduling`. `Runs` bounds the rows;
a run is never created again. `Horizon` bounds `next_run_at`, which lies at most
eight days after the clock. `Menus`, in `Maintenance` and `Panel`, says which
groups of operations a behaviour may mix. One automation is enough there: no
operation relates two of them, except those that take all. Two revisions give a
database that must be migrated and one that must not, and on SQLite a schema
that is half migrated. In `Maintenance` one `cancel()` at a time is between its
read and its write. `MaxAttempts` is that of the code.

In `Panel` two runs on pages of one row give a first and a last page, and a page
that is past the end; the filter for runs that have ended is offered where runs
are removed; the scheduled task does not take the one free place of a session that
Play is about to start (the places, `Jobs`, are the bound). A filter meets sessions
in the menu of sessions with the history, which is where the rows change between
the two reads of a refresh.

In `TaskTrigger` `Threads` bounds the calls in progress, of whichever window, and
one window is open at a time. `MaxFailures` is 1 because the migration answers for
one failing call; with two it does not hold (below). The operator switches the task
on and off in the Windows scheduler (`UserToggles`) only while no call is in
progress: a migration answers for the trigger it found.

**Fairness.** `RunEngine`: the thread of a session is scheduled,
`TerminateJobObject` takes effect, a deadline that is set arrives. Nothing makes
a robot exit, an operator act or a session begin. `TaskSpec` adds what the
Windows scheduled task gives (it starts a session every minute) and that crashes
and aborted sessions stop one day: without that assumption no queue need ever be
served. `Broken` excludes only the ends that nothing but a failure explains: a
crash of a session that finds the queue empty looks like its normal end, which
must stay possible. In `Scheduling`, the transaction of the due schedules is
repeated by the same task, and rollbacks stop one day. `OwnedProcess`: `execute_run`
leaves its `with` block once it is on the way out, the activation thread runs on
and a set event ends its wait, a kill takes effect; no robot need exit, no stop
need be asked for. `Panel`: threads of sessions run on and their robots end
(that they do is the business of `live`); a refresh that reads the runs a second
time comes to its end; and a handler whose thread has ended is resumed by the event
loop. That last fairness is strong: each refresh of another handler that is not
over yet goes before it, and the loop, which is first come, first served, gets to
it among them. `Maintenance` and `TaskTrigger` state no fairness: a panel may be
closed at any step for good.

`CHECK_DEADLOCK FALSE` is said of `windows` (a tree that is over) and `panel`
(every run used, and no handler left that changes anything).

### Where code and documents disagree

These runs end in a violation; each states what a document says.

| Run | Property | What happens |
|---|---|---|
| `lost_cancel` | `CancelHonoured` | `cancel()` during `starting` is overwritten by the write of `running` (`engine.py:94`); the robot runs on (`MVP.md:42`, `MANUAL:71`) |
| `bad_report` | `NothingAbandoned` | a `result.json` holding a list raises `AttributeError` out of the engine: the run stays `running`, the queue stops (`MVP.md:70`, `MVP.md:115`) |
| `restore_unvalidated` | `ValidatedDatabase` | the safety copy of a restore fails after its file was created: the empty file, or the one an interrupted restore left, is copied over a database that nobody had touched (`MANUAL:126`) |

Seen in the same models, and without a run of their own:

* PostgreSQL, `cancel()`: one that read `running` writes `cancelling` over the
  final state that the engine has committed since (`service.py:107`, against
  `MVP.md:49`); one that read `queued` meets the claim, and the cancelled run is
  launched (`SettledNeverStarts` holds for serializable transactions only).
* The robot exits between the poll and the look at the state: it is recorded as
  cancelled or timed out and its result is lost (`engine.py:108`, against
  `MVP.md:51`).
* PostgreSQL: a robot that is deactivated while its due schedules are being
  claimed gets a new run (`scheduler.py:130`, against `MANUAL:72`); a run
  withdrawn between `claim_next`'s subquery and its UPDATE is skipped and the
  session ends although others are queued; and a reactivation of a schedule that
  is already active, open across two sessions, may restore an occurrence that
  has fired.
* A robot that is deactivated and reactivated fires at once the occurrence it
  missed meanwhile, unlike a schedule that is (`set_robot_active` does not
  recompute `next_run_at`).
* The engine goes on while the robot before may still be there. The result of
  `wait(10)` is not looked at and the wait is for the root process only
  (`engine.py:116`, `windows.py:289`), so "cancelled" and "timed out" may be recorded
  of a robot that is still being killed, and the next run may start beside what is
  left of it, without any failure; after a crash the abandoned mutex is free before
  the job's kill is done. Against `MVP.md:45`, `MVP.md:46`, `MVP.md:51` and
  `MVP.md:87`. What holds is `AtMostOneAlive`: all but one have been told to end.
* PostgreSQL: `created_at` is stamped at the flush and the row is visible at the
  commit, so a row may join the queue after a younger one has been chosen or even
  executed (`models.py:49`, `service.py:84`, against the FIFO queue of
  `README.md:33`).
* Play does not wait when another engine is busy: the run stays queued and the
  panel says so (`windows.py:220`, against `MANUAL:74`).
* Between `__exit__` and the `finally` of `execute_run` the activation thread asks
  for the processes of a closed job: the handle is `None`, which names the job
  that the engine itself is in, so a window of another process there may be
  brought to the front once. `TouchesOwnWindows` excepts this moment.
* An engine that dies between CreateProcess and AssignProcessToJobObject leaves a
  suspended process behind; it never runs. `TreeEnds` excepts it.
* Restore and import look for active runs and replace or write later, without the
  mutex: a session that starts in between finds its rows changed. The two clear
  operations on PostgreSQL delete the runs that came after their check, and the
  other removals, too, may delete the row of a run that is executing: a `cancel()`
  that read `queued` before the claim writes `cancelled` after it, and `remove_run`
  reads that (`service.py:107`, `service.py:207`).
* A restore whose put-back raises as well, on a full disk for one
  (`maintenance.py:202`), loses the only safety copy, since the `finally` removes it;
  the panel goes on with the database as it is, which may be the restored one at an
  older revision or a part of it (`MANUAL:126`). `IdleAtHead` and
  `FailedRestoreKeepsRows` except it.
* Scheduled task: two failing calls, or a switch-off between "disable the old"
  and "register the new", leave a trigger that is disabled, and the panel, which
  asks only whether the task exists (`scheduler.py:301`), shows it as installed.
  Calls that overlap (`ui.py:1053`, `ui.py:1069`: nothing is disabled while the
  thread works, and it outlives the window) may lose the trigger or show what is
  not so: of two constructors that overlap, the second one opened while a migration
  goes on that its window left, one may export the old task disabled by the other
  and register it so, while the other's roll-back enables the old one again; the next
  migration, although it runs alone, goes by the new name and removes the one that
  was alive (`MigrationKeepsTrigger` speaks of the task that it goes by). A crash
  between the creation and the interval file leaves the wrong interval on the page.
  After an error the page keeps what it showed, although the task may have been
  created before the interval file failed, or one of two tasks deleted.
* Panel: a second click on "Executar fila" ends busy at once and enables the
  button while the first session runs, and so does a refresh that raises in the
  waiting loop; an import does not reset an open form; a refresh that raises after
  the limits were removed leaves the page as it was, and a form filled from it
  brings a limit back (`ui.py:1261`); between the two reads of a refresh a claim
  may empty the filtered page whose total is shown, until the next refresh.

## 4. What is proved

TLAPS checks the following for every value of the constants: any runs, workers,
failures, either isolation, where the theorem does not restrict it.

* **`RunEngineProofs!Invariance`**: `Spec => []IInv`. `IInv` is inductive and
  has five parts. `TypeOK`; `HolderInv`, a session is out of `idle` exactly when
  it holds the mutex, so two sessions are never inside together; `CurInv`, it
  knows its run from the claim on; `ProcInv`, a run that was not claimed has no
  process, the process of the run in hand is as far as `pc` says, and an `alive`
  process is attended; `VerdictInv`, what will be recorded agrees with how the
  process ended. `AtMostOneAlive` needs the third clause of `ProcInv` with
  `HolderInv`; `CompletedMeansExitZero` is not inductive without `VerdictInv`,
  because the verdict is fixed before it is written. Corollaries: `TypeCorrect`,
  `OneAlive`, `CompletedIsExitZero`.
* **`RunEngineProofs`, refinements**: `ProcessRefinement`, `Spec =>
  ImplementsProcessLife`, either isolation: a process is created only in `spawn`,
  where `ProcInv` says there is none, and every later step is one of
  `ProcessLife`. With serializable transactions: `Supervision`, the row of the run
  in hand is supervised and any other supervised row is alone and awaits
  `reconcile`; `LaunchIsOwned`; `Refinement`, `Spec => ImplementsLifecycle`, every
  step of the engine is a step of `RunLifecycle` or a stutter (the claim needs
  `SupervisionInv`: nothing else is supervised when it happens).
* **`RunEngineProofs!Fifo`** (`FifoClaims`, serializable transactions, any failure):
  only Play lets a run pass an older one. `OrderInv`: only a direct session claims a
  run by its identifier; the other claim is one step and takes the oldest. It rests
  on a clock that is not set back. Under READ COMMITTED it does not hold (above).
* **`RunEngineProofs!NothingLeft`** (`NothingAbandoned`) assumes `Serializable` and
  `SessionsComplete`, no failure at all: TLC finds it violated with any kind of
  failure. What is left is the race of cancels, exits and deadlines. `InHandInv`:
  every supervised row has its session, and a session lets go of a run only after it
  has settled it.
* **`RunLifecycleProofs`**: `OneSupervised` and `FinalStays` of the abstract
  specification; through `Refinement` they hold of the engine.
* **`SchedulingProofs`, the calendar**: `NextOccurrenceCorrect`, for every length of the
  day, calendar and instant: `next_occurrence` returns a time the operator chose,
  after the instant, within eight days, and none lies between. The argument: an
  instant is its date and its time of day (`Decompose`), instants are ordered by
  date first (`LaterDate`), the seven dates after the present one bear every
  weekday (`OffsetExists`: the loop never falls through to its ValueError), and a
  slot before the result would be an earlier offset. `MaskRoundTrip`: the column
  `weekday` keeps the chosen days.
* **`SchedulingProofs`, the rows**: `Invariance` (`IInv`, either isolation): `TickInv`, a
  claimed row is locked and stays as it was read; `SinceInv`, a row's next
  occurrence is later than its activation, which a reactivation still open under
  READ COMMITTED could break unless what it read has not been overtaken. From it
  `NothingStale` (`NoStaleFiring`). With serializable transactions
  `SerialInvariance` adds that the calendar is followed (by
  `NextOccurrenceCorrect`) and that what a session has read stays true, hence
  `RowsFollowCalendars`, `AtMostOneRun` (`OncePerOccurrence`), `OneRunForABacklog`
  (`Coalesced`) and `ActiveOnly` (`InactiveNotEnqueued`).
* **`OwnedProcessProofs`**: `Invariance` (`IInv`): `BuildInv`, what the object
  owns follows the place in `execute_run`; `MemberInv`, no process is in a job
  that would not end it; `NothingRunsUnowned`, which is not inductive without the
  two; `ThreadInv`, when the activation thread may live. From it `NoneUnowned`,
  `OwnWindows` (`TouchesOwnWindows`: outside the moment after `__exit__` a thread
  that has not been stopped asks an open job) and `ProcessRefinement`, `Spec =>
  ImplementsProcessLife`. With `RunEngineProofs!ProcessRefinement` both sides
  of the interface are proved against `ProcessLife`.
* **`MaintenanceProofs`**, for both databases, any automations, runs, backups and
  number of revisions, and any failure except where said:
  * `MaintenanceInvariant` (`IInv`). `NoOrphanRun` ranges over the database and
    every copy of it, so that a restore cannot bring an orphan back. What makes it
    inductive is `KnownInv` (a run that is in any copy has had its identifier given
    out, and a pending INSERT of PostgreSQL is for a run that has no row yet) and
    `OpInv` (which operation may be at which step).
  * `SecondLaunchImpossible` (`NoSecondLaunch`): a run that a restore brings back
    as queued meets the directory of its first execution. `LaunchInv`: what was
    launched and not removed since has its directory.
  * `ReadInv`, what an operation has read and what of it still holds when it
    writes: on SQLite its transaction keeps the others out; on PostgreSQL a state may
    change under it, but a run that was inserted meanwhile is none of those it read.
    From it `LogsOutliveRows` (`RowKeepsLogs`) and `LimitsAreAccounted`
    (`LimitsAccounted`) on both databases, and `ActiveRunsUndisturbed`
    (`RunsUndisturbed`), which speaks of SQLite.
  * `IdleIsAtHead` (`IdleAtHead`) and `FailedRestoreGivesBack`
    (`FailedRestoreKeepsRows`) assume `SafetySound`: SQLite leaves no empty safety
    copy behind. Without it both fail, which is what `restore_unvalidated` shows.
    Both except a put-back that raises, after which the only copy is gone; `stranded`
    keeps that in mind until an upgrade has succeeded. `BackInv`: from the safety copy
    on there is a copy that has every row the check saw, at the newest revision unless
    the panel is stranded, until the restore is over.
  * `CopiedBeforeMigration` (`CopyBeforeMigration`), through every failure and every
    restore of an older backup.
* **`TaskTriggerProofs`**: `TaskTriggerInvariant` (`IInv`) and `ReportsHold`
  (`ReportsAreTrue`) for any number of calls and failures: `AloneInv` says how far a
  call that no other overlaps has got. `TriggerSurvives` (`MigrationKeepsTrigger`)
  assumes `OneFailure`: at most one call fails while calls are in progress. With two
  TLC finds it violated (the registration fails, then the roll-back does). The number
  of calls is not bounded, and the calls a closed window left count like the others:
  a migration that they overlap is not alone. A migration that is alone starts from
  whatever earlier ones left: `MigrationInv` is what it knows of the two tasks at each
  step, and where the trigger is that was enabled when it began; that it is rolling
  back means that the one failure is spent.
* **`PanelProofs`**, for every set of automations and runs, every page size, any
  number of handlers and any failure: `PanelInvariant` (`IInv`): whoever has the
  mutex is at work and the button is out of reach only while a handler is there to
  give it back. `PageExists` (`PageInRange`): a refresh brings the page number back
  to the last page, and when it raises half way, or others commit between its two
  reads, the number still fits the total that is shown (`TodoInv`: that total is the
  one of the first read). A page that exists is not empty unless it is `stale`,
  because the rows of a finite history have ranks without a gap (`RankIs`: counting
  the rows above a row is injective, hence onto), which needs `DbInv`: the rows are
  among the finitely many runs created so far. `LimitsStay` (`LimitsStayLifted`):
  `FormInv`, neither the database nor the page nor the form has a limit of an
  automation that is `lifted`, so a form filled from the page has none either.

The assumptions are the named ASSUMEs of the modules, which TLC evaluates: types
of the constants, a day that is not empty, calendars that `next_occurrence`
does not reject, identifiers that are distinct from the null values. Theorems
about serializable transactions assume `Serializable`.

Only model-checked: what is stated under fairness (`LimitedRunsSettle`,
`RunningCancelHonoured`, `LeftoversSettle`, `QueueServed`, `DueServed`,
`TreeEnds`, `ActivationEnds`, `ButtonReturns`), since liveness is out of the
prover's reach. Every invariant, action property and refinement of the passing runs
is a theorem. Nothing is proved of the three properties that the code violates.

## 5. Plan

Done: the engine, first because every other part meets it; the schedules; process
tree and activation; registry and maintenance; the scheduled task; the panel; and
the proofs of all of them. Left, in this order:

1. Abstract specifications that `Maintenance` and `Panel` implement, as `RunEngine`
   does, in place of their separate properties (a restore as one step that happens
   or does not; the session of the panel as the engine's).
2. The schedules form of the panel, whose handlers act on rows as stale as those
   of the history.

## 6. Not modelled

* `migrate_legacy_data` (`database.py:31-46`): copies the data of an older
  installation once, file by file, before anything else runs. A crash after the
  target file exists leaves the copy unfinished and it is not tried again; there
  is nothing concurrent about it to check.
* `scripts/setup_postgresql.py`: provisioning, run once by hand. (It changes the
  password of the role before it stores it in the credential store.)
* Executors' command lines, credentials, the format of an export, log tails,
  layout and wording: strings, pure input and output.
* `DesktopTrace`: writes diagnostics and decides nothing.
* The demo robots, the installer and the build scripts: no state of the running
  system.
* A clock that is set back or changes to daylight saving time.
