---------------------------- MODULE Maintenance ----------------------------
(***************************************************************************)
(* The registry and the maintenance operations of the panel beside an      *)
(* engine session and the command line: registration, bulk removal,        *)
(* retention, import, removal of the limits, backup, restore, and the      *)
(* upgrade of the schema when the panel opens.                             *)
(*                                                                         *)
(* The panel does one operation at a time (its handlers run on the event   *)
(* loop); `step` is where it is.  An operation is several transactions,    *)
(* file copies and system calls, and between any two of them a session, a  *)
(* command line or a crash may come.                                       *)
(***************************************************************************)
EXTENDS Registry

CONSTANTS
  Menus,       \* bound: the operations offered in one behaviour, by database
  OldBackups,  \* backup files that an older version of the program left
  Faults       \* the kinds of failure that may happen

FaultKinds == {"crash", "create", "safety", "replace", "migrate", "putback"}
  \* crash: the panel or the engine dies    create: the file of the safety copy cannot
  \* be created    safety: the copy into it fails
  \* replace: the copy over the database fails    migrate: a migration raises
  \* putback: the copy of the safety copy over the database fails

Backends == {"sqlite", "postgresql"}
Operations == {"configure", "remove", "retain", "import", "limits", "backup", "restore"}

ASSUME MaintenanceAssumption ==
  /\ Menus \in [Backends -> SUBSET SUBSET Operations]
  /\ OldBackups \subseteq {d \in Contents : d.revision > 0 /\ ReferencesHold(d)}
  /\ Faults \subseteq FaultKinds

VARIABLES
  backend,   \* engine.dialect.name
  menu,      \* the operations that the operator uses in this behaviour
  db,        \* the database in use
  logs,      \* the runs that have a directory under logs_root
  lock,      \* the owner of the installation mutex
  engine,    \* where the session is, "idle" outside one
  cur,       \* the run it executes, as a set
  step,      \* where the panel is, "closed" without a panel
  txn,       \* what the operation has read: [op, robots, runs], and the limits in fila.json
  pending,   \* enqueue() under READ COMMITTED between its read and its INSERT
  asked,     \* cancel() under READ COMMITTED between its read and its UPDATE
  file,      \* the backup file the operator has, as a set
  safety,    \* the .before-restore copy, as a set
  copies,    \* the revisions of which this upgrade has made a .before-rc6 copy
  used,      \* run identifiers ever given out
  executed,  \* runs that were launched and not removed since
  relaunched,\* history: a run of `executed` was launched again
  stranded   \* history: a put-back has raised, and nothing has succeeded since

site == <<backend, menu>>
panel == <<step, txn>>
session == <<engine, cur>>
files == <<file, safety, copies>>
history == <<used, executed, relaunched, stranded>>
vars == <<site, db, logs, lock, session, panel, pending, asked, files, history>>

NoTxn == [op |-> "none", robots |-> {}, runs |-> {}, fila |-> {}]
Ops == {"none", "update", "activate", "deactivate", "remove", "clear", "limits", "start", "restore"}

\* Steps at which the panel holds the installation mutex.
Locked == {"limits_check", "limits_backup", "limits_read", "limits_write", "copy", "migrate"}
Steps == Locked \cup
  {"closed", "idle", "commit", "logs", "purge", "import", "restore_safety", "restore_replace",
   "putback", "upgrade"}

Init ==
  /\ backend \in Backends /\ menu \in Menus[backend]
  /\ file \in {{}} \cup (IF "restore" \in menu THEN {{d} : d \in OldBackups} ELSE {})
  /\ db = Blank /\ logs = {} /\ pending = {} /\ asked = {}
  /\ lock = "free" /\ engine = "idle" /\ cur = {}
  /\ step = "closed" /\ txn = NoTxn
  /\ safety = {} /\ copies = {}
  /\ used = UNION {Rows(d) : d \in file}
  /\ executed = {} /\ relaunched = FALSE /\ stranded = FALSE

\* SQLite: a transaction that has read keeps others from committing until it
\* ends (BEGIN, shared lock).  PostgreSQL lets them.
Writable == db.revision > 0 /\ (backend = "sqlite" => step \notin {"commit", "limits_write"})
-----------------------------------------------------------------------------
(* The command line and the engine. *)

RobotAdd(b) ==
  /\ Writable /\ b \notin Registered(db)
  /\ \E limit \in BOOLEAN :
       LimitAccepted(db, limit) /\ db' = WithRobot(db, b, "active", limit)
  /\ UNCHANGED <<site, logs, lock, session, panel, pending, asked, files, history>>

Enqueue(x) ==
  /\ backend = "sqlite" /\ Writable
  /\ x \notin used /\ db.robot[RobotOf[x]] = "active"
  /\ db' = WithRun(db, x, RobotOf[x] \in db.limited)
  /\ used' = used \cup {x}
  /\ UNCHANGED <<site, logs, lock, session, panel, pending, asked, files, executed, relaunched,
                 stranded>>

EnqueueRead(x) ==
  /\ backend = "postgresql" /\ Writable
  /\ x \notin used /\ db.robot[RobotOf[x]] = "active"
  /\ pending' = pending \cup {[run |-> x, capped |-> RobotOf[x] \in db.limited]}
  /\ used' = used \cup {x}
  /\ UNCHANGED <<site, db, logs, lock, session, panel, asked, files, executed, relaunched,
                 stranded>>

\* The INSERT, refused when the automation has gone.
EnqueueWrite(p) ==
  /\ pending' = pending \ {p}
  /\ LET after == WithRun(db, p.run, p.capped) IN
       db' = IF ReferencesHold(after) THEN after ELSE db
  /\ UNCHANGED <<site, logs, lock, session, panel, asked, files, history>>

Cancel(x) ==
  /\ backend = "sqlite" /\ Writable
  /\ db.state[x] \in Cancellable
  /\ db' = CancelOf(db, x)
  /\ UNCHANGED <<site, logs, lock, session, panel, pending, asked, files, history>>

\* Bound: one cancel() at a time is between its read and its write.
CancelRead(x) ==
  /\ backend = "postgresql" /\ Writable
  /\ db.state[x] \in Cancellable /\ asked = {}
  /\ asked' = asked \cup {[run |-> x, seen |-> db.state[x]]}
  /\ UNCHANGED <<site, db, logs, lock, session, panel, pending, files, history>>

\* The UPDATE by id of what was read, whatever became of the run since; or
\* StaleDataError when the row has gone.
CancelWrite(c) ==
  /\ asked' = asked \ {c}
  /\ db' = IF c.run \in Rows(db) THEN InState(db, c.run, Cancelled(c.seen)) ELSE db
  /\ UNCHANGED <<site, logs, lock, session, panel, pending, files, history>>

StartSession ==
  /\ engine = "idle" /\ lock = "free" /\ db.revision > 0
  /\ lock' = "engine" /\ engine' = "reconcile"
  /\ UNCHANGED <<site, db, logs, cur, panel, pending, asked, files, history>>

Reconcile ==
  /\ engine = "reconcile" /\ Writable
  /\ db' = Reconciled(db) /\ engine' = "claim"
  /\ UNCHANGED <<site, logs, lock, cur, panel, pending, asked, files, history>>

Claim(x) ==
  /\ engine = "claim" /\ Writable
  /\ db.state[x] = "queued"
  /\ db' = InState(db, x, "running") /\ cur' = {x} /\ engine' = "mkdir"
  /\ UNCHANGED <<site, logs, lock, panel, pending, asked, files, history>>

Return ==
  /\ lock' = "free" /\ engine' = "idle" /\ cur' = {}
  /\ UNCHANGED <<site, db, logs, panel, pending, asked, files, history>>

\* The queue is empty, or this was a session of Play and its run is done or gone.
EndSession == engine = "claim" /\ Return

Launched(x) ==
  /\ logs' = logs \cup {x} /\ engine' = "launch"
  /\ executed' = executed \cup {x}
  /\ relaunched' = (relaunched \/ x \in executed)
  /\ UNCHANGED <<site, db, lock, cur, panel, pending, asked, files, used, stranded>>

\* Mutant: mkdir(exist_ok=True).
MakeRunDir_ExistOk == engine = "mkdir" /\ \E x \in cur : Launched(x)

\* mkdir(exist_ok=False), outside the try: an old directory ends the session.
MakeRunDir ==
  /\ engine = "mkdir"
  /\ \E x \in cur : x \notin logs /\ Launched(x)

DirectoryExists == engine = "mkdir" /\ cur \subseteq logs /\ Return

\* The row has gone before execute_run reads it: None has no configuration.
RunGone == engine = "mkdir" /\ cur \cap Rows(db) = {} /\ Return

\* _finish: an UPDATE by id, of a row that may have gone.
Write(s) == \E x \in cur : db' = IF x \in Rows(db) THEN InState(db, x, s) ELSE db

\* The process exists, and the row says so whatever it said before.
MarkRunning ==
  /\ engine = "launch" /\ Writable
  /\ Write("running") /\ engine' = "run"
  /\ UNCHANGED <<site, logs, lock, cur, panel, pending, asked, files, history>>

\* A command that is not valid, a process that does not start, or the verdict.
Finish ==
  /\ engine \in {"mkdir", "launch", "run"} /\ Writable
  /\ Write("final")
  /\ engine' = "claim" /\ cur' = {}
  /\ UNCHANGED <<site, logs, lock, panel, pending, asked, files, history>>

EngineCrash == "crash" \in Faults /\ engine # "idle" /\ Return

External ==
  \/ \E b \in Robots : RobotAdd(b)
  \/ \E x \in Runs : Enqueue(x) \/ EnqueueRead(x) \/ Cancel(x) \/ CancelRead(x) \/ Claim(x)
  \/ \E p \in pending : EnqueueWrite(p)
  \/ \E c \in asked : CancelWrite(c)
  \/ StartSession \/ Reconcile \/ EndSession \/ MakeRunDir \/ DirectoryExists \/ RunGone
  \/ MarkRunning \/ Finish \/ EngineCrash
-----------------------------------------------------------------------------
(* The registry: one transaction that reads, and then writes. *)

Goto(from, to) == step = from /\ step' = to

Begin(from, op, B, S) ==
  /\ Goto(from, "commit") /\ db.revision > 0
  /\ txn' = [NoTxn EXCEPT !.op = op, !.robots = B, !.runs = S]
  /\ UNCHANGED <<site, db, logs, lock, session, pending, asked, files, history>>

UpdateRobot(b) ==
  "configure" \in menu /\ b \in Registered(db) /\ ~Busy(db, b) /\ Begin("idle", "update", {b}, {})

SetRobotActive(b, active) ==
  /\ "configure" \in menu /\ b \in Registered(db) /\ (active \/ ~Busy(db, b))
  /\ Begin("idle", IF active THEN "activate" ELSE "deactivate", {b}, {})

RemoveRobot(b) ==
  /\ "remove" \in menu /\ db.robot[b] = "active" /\ ~Busy(db, b)
  /\ Begin("idle", "remove", {b}, {x \in Rows(db) : RobotOf[x] = b})

ClearAllRobots == "remove" \in menu /\ ~AnyActive(db) /\ Begin("idle", "clear", Robots, Rows(db))
ClearAllRuns == "remove" \in menu /\ ~AnyActive(db) /\ Begin("idle", "clear", {}, Rows(db))

\* Mutant: remove_run does not look at the state.
RemoveRun_Any(x) == "remove" \in menu /\ x \in Rows(db) /\ Begin("idle", "remove", {}, {x})

RemoveRun(x) == "remove" \in menu /\ db.state[x] = "final" /\ Begin("idle", "remove", {}, {x})

\* purge_old_runs: the check is a transaction of its own; any of the settled
\* runs may be old enough.
PurgeCheck ==
  /\ "retain" \in menu /\ Goto("idle", "purge") /\ ~AnyActive(db)
  /\ UNCHANGED <<site, db, logs, lock, session, txn, pending, asked, files, history>>

PurgeSelect == \E S \in SUBSET RowsIn(db, {"final"}) : Begin("purge", "remove", {}, S)

End(to) == step' = to /\ txn' = IF to = "logs" THEN txn ELSE NoTxn

CommitChange ==
  /\ step = "commit" /\ txn.op \in {"update", "activate", "deactivate"}
  /\ \E b \in txn.robots, limit \in BOOLEAN :
       /\ LimitAccepted(db, limit) /\ (txn.op = "update" \/ limit = (b \in db.limited))
       /\ db' = WithRobot(db, b, IF txn.op = "update" THEN db.robot[b]
                                 ELSE IF txn.op = "activate" THEN "active" ELSE "inactive", limit)
  /\ End("idle")
  /\ UNCHANGED <<site, logs, lock, session, pending, asked, files, history>>

\* The clear operations delete without a WHERE, the others by the ids read.
Removed == IF txn.op = "clear" THEN Rows(db) ELSE txn.runs

CommitRemoval ==
  /\ step = "commit" /\ txn.op \in {"remove", "clear"}
  /\ db' = Without(db, Removed, txn.robots)
  /\ ReferencesHold(db')
  /\ End("logs")
  /\ UNCHANGED <<site, logs, lock, session, pending, asked, files, history>>

\* Mutant: the directories go although the rows stay.
Rollback_Logs ==
  /\ step = "commit" /\ txn.op \in {"remove", "clear"}
  /\ ~ReferencesHold(Without(db, Removed, txn.robots))
  /\ End("logs")
  /\ UNCHANGED <<site, db, logs, lock, session, pending, asked, files, history>>

\* A run inserted meanwhile still refers to the automation: IntegrityError.
Rollback ==
  /\ step = "commit" /\ txn.op \in {"remove", "clear"}
  /\ ~ReferencesHold(Without(db, Removed, txn.robots))
  /\ End("idle")
  /\ UNCHANGED <<site, db, logs, lock, session, pending, asked, files, history>>

\* _remove_log_directory of each run that was read; a busy directory stays.
RemoveLogs ==
  /\ step = "logs"
  /\ \E S \in SUBSET txn.runs : logs' = logs \ S
  /\ executed' = executed \ txn.runs
  /\ End("idle")
  /\ UNCHANGED <<site, db, lock, session, pending, asked, files, used, relaunched, stranded>>
-----------------------------------------------------------------------------
(* Import, limits and backup. *)

ImportCheck ==
  /\ "import" \in menu /\ Goto("idle", "import") /\ ~AnyActive(db)
  /\ UNCHANGED <<site, db, logs, lock, session, txn, pending, asked, files, history>>

\* Every automation of the file is created or overwritten, active or not; an
\* invalid file raises and nothing is written.
ImportWrite ==
  /\ Goto("import", "idle")
  /\ \/ \E B \in SUBSET Robots, A \in SUBSET Robots, L \in SUBSET Robots :
          db' = [db EXCEPT
                   !.robot = [b \in Robots |-> IF b \notin B THEN @[b]
                                               ELSE IF b \in A THEN "active" ELSE "inactive"],
                   !.limited = (@ \ B) \cup (L \cap B)]
     \/ UNCHANGED db
  /\ UNCHANGED <<site, logs, lock, session, txn, pending, asked, files, history>>

LimitsLock ==
  /\ "limits" \in menu /\ Goto("idle", "limits_check") /\ lock = "free"
  /\ lock' = "panel"
  /\ UNCHANGED <<site, db, logs, session, txn, pending, asked, files, history>>

LimitsCheck ==
  /\ step = "limits_check"
  /\ IF RowsIn(db, {"running", "cancelling"}) = {}
     THEN step' = "limits_backup" /\ UNCHANGED lock
     ELSE step' = "idle" /\ lock' = "free"
  /\ UNCHANGED <<site, db, logs, session, txn, pending, asked, files, history>>

\* cadastros.json, and on SQLite a copy of the database in the same directory.
LimitsBackup ==
  /\ Goto("limits_backup", "limits_read")
  /\ UNCHANGED <<site, db, logs, lock, session, txn, pending, asked, files, history>>

LimitsRead ==
  /\ Goto("limits_read", "limits_write")
  /\ txn' = [NoTxn EXCEPT !.op = "limits", !.runs = RowsIn(db, {"queued"}),
                         !.fila = RowsIn(db, {"queued"}) \cap db.capped]
  /\ UNCHANGED <<site, db, logs, lock, session, pending, asked, files, history>>

\* Mutant: the queue is updated by its state and not by the rows read.
LimitsWrite_ByState ==
  /\ step = "limits_write"
  /\ db' = Unlimited(db, RowsIn(db, {"queued"})) /\ lock' = "free"
  /\ End("idle")
  /\ UNCHANGED <<site, logs, session, pending, asked, files, history>>

LimitsWrite ==
  /\ step = "limits_write"
  /\ db' = Unlimited(db, txn.runs) /\ lock' = "free"
  /\ End("idle")
  /\ UNCHANGED <<site, logs, session, pending, asked, files, history>>

Backup ==
  /\ "backup" \in menu /\ backend = "sqlite" /\ step = "idle"
  /\ file' = {db}
  /\ UNCHANGED <<site, db, logs, lock, session, panel, pending, asked, safety, copies, history>>
-----------------------------------------------------------------------------
(* Restore, and the upgrade of the schema. *)

\* Mutant: the copy of an interrupted restore is kept.
SafetyCopy_Keep ==
  /\ Goto("restore_safety", "restore_replace")
  /\ safety' = IF safety = {} THEN {db} ELSE safety
  /\ UNCHANGED <<site, db, logs, lock, session, txn, pending, asked, file, copies, history>>

\* No active run, and a file that passed integrity_check and has the tables.
RestoreCheck ==
  /\ "restore" \in menu /\ backend = "sqlite" /\ file # {}
  /\ Goto("idle", "restore_safety") /\ db.revision > 0 /\ ~AnyActive(db)
  /\ txn' = [NoTxn EXCEPT !.op = "restore", !.robots = Registered(db), !.runs = Rows(db)]
  /\ UNCHANGED <<site, db, logs, lock, session, pending, asked, files, history>>

SafetyCopy ==
  /\ Goto("restore_safety", "restore_replace")
  /\ safety' = {db}
  /\ UNCHANGED <<site, db, logs, lock, session, txn, pending, asked, file, copies, history>>

\* sqlite3.connect cannot create the file; or it has, and current.backup(safety)
\* raises: what lies there is empty, or the copy that an interrupted restore left.
SafetyCopyFails ==
  /\ Goto("restore_safety", "putback")
  /\ \E f \in Faults \cap {"create", "safety"} :
       /\ f = "create" => safety = {}
       /\ safety' = IF safety = {} /\ f = "safety" THEN {Blank} ELSE safety
  /\ UNCHANGED <<site, db, logs, lock, session, txn, pending, asked, file, copies, history>>

Replace ==
  /\ Goto("restore_replace", "upgrade")
  /\ \E d \in file : db' = d
  /\ UNCHANGED <<site, logs, lock, session, txn, pending, asked, files, history>>

ReplaceFails ==
  /\ "replace" \in Faults /\ Goto("restore_replace", "putback")
  /\ UNCHANGED <<site, db, logs, lock, session, txn, pending, asked, files, history>>

\* Mutant: a failed upgrade of a restored backup is only reported.
Raise_Report ==
  /\ step' = (IF txn.op = "restore" THEN "idle" ELSE "closed")
  /\ txn' = NoTxn /\ copies' = {} /\ UNCHANGED <<safety, stranded>>

\* The end of restore_sqlite or of the opening, with or without an exception.
Raise ==
  /\ step' = (IF txn.op = "restore" THEN "putback" ELSE "closed")
  /\ txn' = (IF txn.op = "restore" THEN txn ELSE NoTxn)
  /\ copies' = {} /\ UNCHANGED <<safety, stranded>>

Succeed ==
  /\ step' = "idle" /\ txn' = NoTxn /\ copies' = {} /\ stranded' = FALSE
  /\ safety' = (IF txn.op = "restore" THEN {} ELSE safety)

PutBack ==
  /\ Goto("putback", "idle") /\ txn' = NoTxn
  /\ safety' = {}
  /\ db' = IF safety = {} THEN db ELSE CHOOSE d \in safety : TRUE
  /\ UNCHANGED <<site, logs, lock, session, pending, asked, file, copies, history>>

\* safety.backup(current) raises, and the finally removes the copy all the same.
PutBackFails ==
  /\ "putback" \in Faults /\ Goto("putback", "idle") /\ txn' = NoTxn
  /\ safety # {} /\ safety' = {}
  /\ stranded' = TRUE
  /\ UNCHANGED <<site, db, logs, lock, session, pending, asked, file, copies, used, executed,
                 relaunched>>

OpenPanel ==
  /\ Goto("closed", "upgrade")
  /\ txn' = [NoTxn EXCEPT !.op = "start"]
  /\ UNCHANGED <<site, db, logs, lock, session, pending, asked, files, history>>

\* upgrade_database: the mutex is taken unless the revision is the newest;
\* InstallationBusy is an exception like any other.
ReadRevision ==
  /\ step = "upgrade"
  /\ \/ db.revision = HeadRev /\ Succeed /\ UNCHANGED lock
     \/ /\ db.revision < HeadRev /\ lock = "free"
        /\ lock' = "panel" /\ step' = "copy" /\ UNCHANGED <<txn, safety, copies, stranded>>
     \/ db.revision < HeadRev /\ lock # "free" /\ Raise /\ UNCHANGED lock
  /\ UNCHANGED <<site, db, logs, session, pending, asked, file, used, executed, relaunched>>

\* Mutant: no copy when an older backup is restored.
CopyOld_NotRestored ==
  /\ Goto("copy", "migrate")
  /\ copies' = IF backend = "sqlite" /\ txn.op = "start"
               THEN {db.revision} ELSE {}
  /\ UNCHANGED <<site, db, logs, lock, session, txn, pending, asked, file, safety, history>>

\* The .before-rc6 copy of a SQLite file; one without a revision has nothing to
\* copy, and counts as copied.
CopyOld ==
  /\ Goto("copy", "migrate")
  /\ copies' = IF backend = "sqlite" THEN {db.revision} ELSE {}
  /\ UNCHANGED <<site, db, logs, lock, session, txn, pending, asked, file, safety, history>>

\* One migration: SQLite commits each, PostgreSQL all of them together.
Migrate ==
  /\ step = "migrate" /\ db.revision < HeadRev
  /\ db' = [db EXCEPT !.revision = IF backend = "sqlite" THEN @ + 1 ELSE HeadRev]
  /\ UNCHANGED <<site, logs, lock, session, panel, pending, asked, files, history>>

Migrated ==
  /\ step = "migrate" /\ db.revision = HeadRev
  /\ lock' = "free" /\ Succeed
  /\ UNCHANGED <<site, db, logs, session, pending, asked, file, used, executed, relaunched>>

MigrateFails ==
  /\ "migrate" \in Faults /\ step = "migrate" /\ db.revision < HeadRev
  /\ lock' = "free" /\ Raise
  /\ UNCHANGED <<site, db, logs, session, pending, asked, file, used, executed, relaunched>>

\* The window is closed, or the process dies, at any step: files stay.
PanelCrash ==
  /\ step # "closed" /\ ("crash" \in Faults \/ step = "idle")
  /\ step' = "closed" /\ txn' = NoTxn
  /\ lock' = (IF step \in Locked THEN "free" ELSE lock) /\ copies' = {}
  /\ UNCHANGED <<site, db, logs, session, pending, asked, file, safety, history>>

Restoring ==
  \/ RestoreCheck \/ SafetyCopy \/ SafetyCopyFails \/ Replace \/ ReplaceFails
  \/ PutBack \/ PutBackFails
  \/ OpenPanel \/ ReadRevision \/ CopyOld \/ Migrate \/ Migrated \/ MigrateFails

Next ==
  \/ External
  \/ \E b \in Robots : UpdateRobot(b) \/ RemoveRobot(b) \/ \E a \in BOOLEAN : SetRobotActive(b, a)
  \/ \E x \in Runs : RemoveRun(x)
  \/ ClearAllRobots \/ ClearAllRuns \/ PurgeCheck \/ PurgeSelect
  \/ CommitChange \/ CommitRemoval \/ Rollback \/ RemoveLogs
  \/ ImportCheck \/ ImportWrite
  \/ LimitsLock \/ LimitsCheck \/ LimitsBackup \/ LimitsRead \/ LimitsWrite \/ Backup
  \/ Restoring \/ PanelCrash

Spec == Init /\ [][Next]_vars
-----------------------------------------------------------------------------
TypeOK ==
  /\ backend \in Backends /\ menu \subseteq Operations /\ db \in Contents
  /\ logs \subseteq Runs /\ cur \subseteq Runs
  /\ lock \in {"free", "engine", "panel"}
  /\ engine \in {"idle", "reconcile", "claim", "mkdir", "launch", "run"}
  /\ step \in Steps
  /\ txn \in [op : Ops, robots : SUBSET Robots, runs : SUBSET Runs, fila : SUBSET Runs]
  /\ pending \subseteq [run : Runs, capped : BOOLEAN]
  /\ asked \subseteq [run : Runs, seen : Cancellable]
  /\ file \subseteq Contents /\ safety \subseteq Contents
  /\ copies \subseteq 0..HeadRev
  /\ used \subseteq Runs /\ executed \subseteq Runs
  /\ relaunched \in BOOLEAN /\ stranded \in BOOLEAN

\* The mutex is the panel's or the engine's exactly at the steps that take it.
HolderInv ==
  /\ lock = "panel" <=> step \in Locked
  /\ lock = "engine" <=> engine # "idle"

\* Every database, the copies included, keeps the references of its runs,
\* whatever is removed while runs are being inserted (service.remove_robot,
\* clear_all_robots beside enqueue).
NoOrphanRun ==
  \A d \in {db} \cup file \cup safety :
    \A x \in Runs : d.state[x] # "absent" => d.robot[RobotOf[x]] # "absent"

\* A panel that is not opening or putting a database back has one of the newest
\* revision, as long as no put-back has raised: neither an older backup, nor a
\* migration that failed, nor a crash in between may leave the program on another
\* (restore_sqlite, upgrade_database).
IdleAtHead ==
  step \notin {"closed", "upgrade", "copy", "migrate", "putback"} /\ ~stranded
    => db.revision = HeadRev

\* A run is not launched twice, although a restore may bring back as queued a
\* run that has been executed: the directory of its logs stops execute_run
\* (mkdir, exist_ok=False) until the operator removes the run.
NoSecondLaunch == ~relaunched

IInv == TypeOK /\ HolderInv /\ NoOrphanRun

\* On SQLite the registry, the retention and the removals never touch an active
\* run: its row stays, and its automation stays as it is unless it is being
\* activated (the has_active_run checks of service.py).  On PostgreSQL a cancel()
\* may write in between what it read before, and an active run may lose its row.
RunsUndisturbed ==
  [][backend = "sqlite" /\ step = "commit" /\ step' # "closed" =>
     \A x \in RowsIn(db, Active) :
       /\ x \in Rows(db')
       /\ txn.op # "activate" =>
            /\ db'.robot[RobotOf[x]] = db.robot[RobotOf[x]]
            /\ RobotOf[x] \in db'.limited <=> RobotOf[x] \in db.limited]_vars

\* Log directories are removed only for runs whose rows are gone: a rollback, a
\* crash or a run that came meanwhile never costs the logs of a row that stays.
RowKeepsLogs == [][\A x \in logs \ logs' : db.state[x] = "absent"]_vars

\* remove_execution_limits takes no limit from a queued run that fila.json does
\* not hold, and on SQLite leaves none behind.
LimitsAccounted ==
  [][step = "limits_write" /\ step' = "idle" =>
     /\ db.capped \ db'.capped \subseteq txn.fila
     /\ backend = "sqlite" => db'.limited = {} /\ db'.capped \cap RowsIn(db', {"queued"}) = {}]_vars

\* A restore that fails gives back every automation and every run that its
\* check saw, also after an earlier restore was cut short, unless the put-back
\* raises as well.
FailedRestoreKeepsRows ==
  [][step = "putback" /\ step' = "idle" /\ ~PutBackFails =>
     txn.robots \subseteq Registered(db') /\ txn.runs \subseteq Rows(db')]_vars

\* On SQLite no migration runs on a database of which no copy was made.
CopyBeforeMigration ==
  [][backend = "sqlite" /\ step = "migrate" /\ db'.revision # db.revision
     => \E r \in copies : r <= db.revision]_vars

\* docs/MANUAL-USUARIO.md:126: a restore validates the integrity and the
\* structure of what replaces the database.
ValidatedDatabase == step = "idle" => db.revision > 0
=============================================================================
