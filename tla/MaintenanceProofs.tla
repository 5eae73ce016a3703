-------------------------- MODULE MaintenanceProofs --------------------------
(***************************************************************************)
(* Proofs about Maintenance for every set of automations and runs, every   *)
(* backup that an older version left, both databases and every combination *)
(* of failures, except where a theorem names the one it excludes.          *)
(***************************************************************************)
EXTENDS Maintenance, RegistryProofs

(* What the command line and the engine do to the database. *)

\* A run that was not in the table before: its id is new, or this is its INSERT.
New(x) == (x \notin used /\ x \in used') \/ \E p \in pending \ pending' : p.run = x

\* Rows are added and never removed, automations stay as they are, and an open
\* transaction on SQLite sees nothing of it.
Grows ==
  /\ db' \in Contents
  /\ db'.revision = db.revision
  /\ ReferencesHold(db) => ReferencesHold(db')
  /\ \A b \in Robots : db.robot[b] # "absent" => db'.robot[b] = db.robot[b]
  /\ \A x \in Runs : db.state[x] # "absent" => db'.state[x] # "absent"
  /\ \A x \in Runs : db.state[x] = "absent" /\ db'.state[x] # "absent" => New(x)
  /\ \A x \in Runs : x \notin db.capped /\ x \in db'.capped => New(x)
  /\ ~Writable /\ pending = {} /\ asked = {} => db' = db

\* Nothing happens to the database.
LEMMA SameGrows == ASSUME TypeOK, db' = db PROVE Grows
BY DEF Grows, TypeOK

\* A change of state that respects the table.
LEMMA StateGrows ==
  ASSUME TypeOK, Writable \/ asked # {}, NEW x \in Runs, NEW s \in RunStates \ {"absent"},
         db.state[x] # "absent", db' = InState(db, x, s)
  PROVE  Grows
<1>1. /\ db \in Contents /\ db' \in Contents /\ db'.revision = db.revision /\ db'.robot = db.robot
      /\ db'.state = [db.state EXCEPT ![x] = s] /\ db'.capped = db.capped
  BY InStateIs DEF TypeOK
<1>2. \A y \in Runs : db'.state[y] = IF y = x THEN s ELSE db.state[y]
  BY <1>1 DEF Contents
<1>3. ReferencesHold(db) => ReferencesHold(db')
  BY <1>1, <1>2, KeepsReferences
<1> QED BY <1>1, <1>2, <1>3 DEF Grows

\* The command line adds an automation.
LEMMA RobotAddGrows ==
  ASSUME TypeOK, NEW b \in Robots, RobotAdd(b)
  PROVE  Grows
<1>1. PICK limit \in BOOLEAN : db' = WithRobot(db, b, "active", limit)
  BY DEF RobotAdd
<1>2. /\ db \in Contents /\ db' \in Contents /\ db'.revision = db.revision
      /\ db'.robot = [db.robot EXCEPT ![b] = "active"]
      /\ db'.state = db.state /\ db'.capped = db.capped
  <2>1. "active" \in RobotStates /\ db \in Contents
    BY DEF RobotStates, TypeOK
  <2> QED BY <1>1, <2>1, WithRobotIs
<1>3. db.robot[b] = "absent" /\ Writable
  BY DEF RobotAdd, Registered
<1>4. \A c \in Robots : db.robot[c] # "absent" => db'.robot[c] = db.robot[c]
  BY <1>2, <1>3 DEF Contents
<1>5. ReferencesHold(db) => ReferencesHold(db')
  BY <1>2, <1>4, KeepsReferences
<1> QED BY <1>2, <1>3, <1>4, <1>5 DEF Grows

\* A new row of runs.
LEMMA RunGrows ==
  ASSUME TypeOK, NEW x \in Runs, NEW cap \in BOOLEAN, db' = WithRun(db, x, cap), New(x),
         Writable \/ pending # {},
         ReferencesHold(db) => ReferencesHold(db')
  PROVE  Grows
<1>1. /\ db \in Contents /\ db' \in Contents /\ db'.revision = db.revision /\ db'.robot = db.robot
      /\ db'.state = [db.state EXCEPT ![x] = "queued"]
      /\ \A y \in Runs \ {x} : y \in db'.capped <=> y \in db.capped
  BY WithRunIs DEF TypeOK
<1>2. \A y \in Runs : db'.state[y] = IF y = x THEN "queued" ELSE db.state[y]
  BY <1>1 DEF Contents
<1> HIDE DEF New
<1> QED BY <1>1, <1>2 DEF Grows

\* Identifiers are never given out twice: every row, also of a copy, has one that
\* was, and one whose INSERT is pending has no row yet. SQLite has no such gaps.
KnownInv ==
  /\ \A d \in {db} \cup file \cup safety : \A x \in Runs : d.state[x] # "absent" => x \in used
  /\ backend = "sqlite" => pending = {} /\ asked = {}
  /\ \A p \in pending : p.run \in used /\ db.state[p.run] = "absent"
  /\ \A p, q \in pending : p.run = q.run => p = q

\* enqueue() on SQLite, and its INSERT on PostgreSQL.
LEMMA EnqueueGrows ==
  ASSUME TypeOK, KnownInv, (\E x \in Runs : Enqueue(x)) \/ (\E p \in pending : EnqueueWrite(p))
  PROVE  Grows
<1>1. ASSUME NEW x \in Runs, Enqueue(x) PROVE Grows
  <2> DEFINE cap == RobotOf[x] \in db.limited
  <2>1. /\ db' = WithRun(db, x, cap) /\ Writable
        /\ x \notin used /\ used' = used \cup {x} /\ db.robot[RobotOf[x]] = "active"
    BY <1>1 DEF Enqueue
  <2>2. New(x) /\ cap \in BOOLEAN /\ db.state[x] = "absent"
    BY <2>1 DEF New, KnownInv
  <2> HIDE DEF cap
  <2>3. /\ db \in Contents /\ db'.robot = db.robot /\ db'.state = [db.state EXCEPT ![x] = "queued"]
    BY <2>1, <2>2, WithRunIs DEF TypeOK
  <2>4. \A y \in Runs : db'.state[y] = IF y = x THEN "queued" ELSE db.state[y]
    BY <2>3 DEF Contents
  <2>5. ReferencesHold(db) => ReferencesHold(db')
    BY <2>1, <2>3, <2>4, ReferencesAre
  <2> HIDE DEF New
  <2> QED BY <2>1, <2>2, <2>5, RunGrows
<1>2. ASSUME NEW p \in pending, EnqueueWrite(p) PROVE Grows
  <2>1. CASE ~ReferencesHold(WithRun(db, p.run, p.capped))
    <3>1. db' = db
      BY <1>2, <2>1 DEF EnqueueWrite
    <3> QED BY <3>1, SameGrows
  <2>2. CASE ReferencesHold(WithRun(db, p.run, p.capped))
    <3>1. db' = WithRun(db, p.run, p.capped) /\ ReferencesHold(db')
      BY <1>2, <2>2 DEF EnqueueWrite
    <3>2. p.run \in Runs /\ p.capped \in BOOLEAN /\ New(p.run) /\ pending # {}
      BY <1>2 DEF EnqueueWrite, TypeOK, New
    <3> HIDE DEF New
    <3> QED BY <3>1, <3>2, RunGrows
  <2> QED BY <2>1, <2>2
<1> QED BY <1>1, <1>2

\* So do all the transactions of the command line and the engine.
LEMMA ExternalGrows ==
  ASSUME TypeOK, KnownInv, External
  PROVE  Grows
<1>1. ASSUME NEW b \in Robots, RobotAdd(b) PROVE Grows
  BY <1>1, RobotAddGrows
<1>2. CASE (\E x \in Runs : Enqueue(x)) \/ (\E p \in pending : EnqueueWrite(p))
  BY <1>2, EnqueueGrows
<1>3. ASSUME NEW x \in Runs, Cancel(x) PROVE Grows
  <2> DEFINE s == Cancelled(db.state[x])
  <2>1. db' = InState(db, x, s) /\ Writable /\ db.state[x] # "absent"
    BY <1>3 DEF Cancel, CancelOf, Cancellable
  <2>2. s \in RunStates \ {"absent"}
    BY DEF Cancelled, RunStates, Active
  <2> HIDE DEF s
  <2> QED BY <2>1, <2>2, StateGrows
<1>4. ASSUME NEW x \in Runs, Claim(x) PROVE Grows
  <2>1. db' = InState(db, x, "running") /\ Writable /\ db.state[x] = "queued"
    BY <1>4 DEF Claim
  <2>2. "running" \in RunStates \ {"absent"}
    BY DEF RunStates, Active
  <2> QED BY <2>1, <2>2, StateGrows
<1>5. ASSUME NEW s \in {"running", "final"}, Write(s), Writable PROVE Grows
  <2>1. PICK x \in cur : db' = IF x \in Rows(db) THEN InState(db, x, s) ELSE db
    BY <1>5 DEF Write
  <2>2. x \in Runs /\ s \in RunStates \ {"absent"}
    BY DEF TypeOK, RunStates, Active
  <2> QED BY <1>5, <2>1, <2>2, StateGrows, SameGrows DEF Rows
<1>8. ASSUME NEW c \in asked, CancelWrite(c) PROVE Grows
  <2> DEFINE s == Cancelled(c.seen)
  <2>1. db' = IF c.run \in Rows(db) THEN InState(db, c.run, s) ELSE db
    BY <1>8 DEF CancelWrite
  <2>2. c.run \in Runs /\ asked # {} /\ s \in RunStates \ {"absent"}
    BY DEF TypeOK, Cancelled, RunStates, Active
  <2> HIDE DEF s
  <2> QED BY <2>1, <2>2, StateGrows, SameGrows DEF Rows
<1>9. CASE MarkRunning \/ Finish
  BY <1>5, <1>9 DEF MarkRunning, Finish
<1>6. CASE Reconcile
  <2>1. /\ db \in Contents /\ db' \in Contents /\ db'.revision = db.revision /\ db'.robot = db.robot
        /\ db'.capped = db.capped
        /\ \A x \in Runs : db'.state[x] =
             IF db.state[x] \in {"running", "cancelling"} THEN "final" ELSE db.state[x]
    BY <1>6, ReconciledIs DEF Reconcile, TypeOK
  <2>2. ReferencesHold(db) => ReferencesHold(db')
    BY <2>1, KeepsReferences
  <2>3. Writable
    BY <1>6 DEF Reconcile
  <2> QED BY <2>1, <2>2, <2>3 DEF Grows
<1>7. CASE \/ \E x \in Runs : EnqueueRead(x) \/ CancelRead(x)
           \/ StartSession \/ EndSession \/ MakeRunDir \/ DirectoryExists \/ RunGone \/ EngineCrash
  <2>1. db' = db
    BY <1>7 DEF EnqueueRead, CancelRead, StartSession, EndSession, MakeRunDir, Launched,
       DirectoryExists, RunGone, EngineCrash, Return
  <2> QED BY <2>1, SameGrows
<1> QED BY <1>1, <1>2, <1>3, <1>4, <1>6, <1>7, <1>8, <1>9 DEF External

\* Beside the database they touch the session and the lists of runs only.
LEMMA ExternalSession ==
  ASSUME TypeOK, HolderInv, External
  PROVE  /\ UNCHANGED <<site, panel, files>>
         /\ lock' \in {"free", "engine", "panel"} /\ (lock' = "panel" <=> lock = "panel")
         /\ engine' \in {"idle", "reconcile", "claim", "mkdir", "launch", "run"}
         /\ lock' = "engine" <=> engine' # "idle"
         /\ cur' \subseteq Runs /\ logs \subseteq logs' /\ logs' \subseteq Runs
<1> USE DEF TypeOK, HolderInv
<1>1. ASSUME NEW b \in Robots, RobotAdd(b) PROVE UNCHANGED <<site, panel, files, lock, session, logs>>
  BY <1>1 DEF RobotAdd
<1>2. ASSUME NEW x \in Runs, Enqueue(x) \/ EnqueueRead(x) \/ Cancel(x) \/ CancelRead(x)
      PROVE  UNCHANGED <<site, panel, files, lock, session, logs>>
  BY <1>2 DEF Enqueue, EnqueueRead, Cancel, CancelRead
<1>3. ASSUME (\E p \in pending : EnqueueWrite(p)) \/ \E c \in asked : CancelWrite(c)
      PROVE  UNCHANGED <<site, panel, files, lock, session, logs>>
  BY <1>3 DEF EnqueueWrite, CancelWrite
<1>4. UNCHANGED <<site, panel, files, lock, session, logs>> =>
        /\ UNCHANGED <<site, panel, files>>
        /\ lock' \in {"free", "engine", "panel"} /\ (lock' = "panel" <=> lock = "panel")
        /\ engine' \in {"idle", "reconcile", "claim", "mkdir", "launch", "run"}
        /\ lock' = "engine" <=> engine' # "idle"
        /\ cur' \subseteq Runs /\ logs \subseteq logs' /\ logs' \subseteq Runs
  BY DEF session
<1>5. CASE StartSession \/ Reconcile
  BY <1>5 DEF StartSession, Reconcile
<1>6. ASSUME NEW x \in Runs, Claim(x)
      PROVE  /\ UNCHANGED <<site, panel, files, lock, logs>>
             /\ engine = "claim" /\ engine' = "mkdir" /\ cur' = {x}
  BY <1>6 DEF Claim
<1>7. CASE EndSession \/ DirectoryExists \/ RunGone \/ EngineCrash
  BY <1>7 DEF EndSession, DirectoryExists, RunGone, EngineCrash, Return
<1>8. CASE MakeRunDir
  BY <1>8 DEF MakeRunDir, Launched
<1>9. CASE MarkRunning \/ Finish
  BY <1>9 DEF MarkRunning, Finish
<1> QED BY <1>1, <1>2, <1>3, <1>4, <1>5, <1>6, <1>7, <1>8, <1>9 DEF External

\* The identifiers and the launches they record.
LEMMA ExternalHistory ==
  ASSUME TypeOK, External
  PROVE  /\ used \subseteq used' /\ used' \subseteq Runs
         /\ executed' \subseteq Runs /\ relaunched' \in BOOLEAN /\ stranded' = stranded
         /\ asked' \subseteq [run : Runs, seen : Cancellable]
         /\ backend = "sqlite" => asked' \subseteq asked
         /\ \/ pending' \subseteq pending
            \/ /\ db' = db /\ backend = "postgresql"
               /\ \E x \in Runs \ used, c \in BOOLEAN :
                    pending' = pending \cup {[run |-> x, capped |-> c]} /\ used' = used \cup {x}
<1> USE DEF TypeOK, history
<1>1. ASSUME NEW b \in Robots, RobotAdd(b) PROVE UNCHANGED <<pending, asked, history>>
  BY <1>1 DEF RobotAdd
<1>2. ASSUME NEW x \in Runs, Cancel(x) \/ Claim(x) PROVE UNCHANGED <<pending, asked, history>>
  BY <1>2 DEF Cancel, Claim
<1>3. CASE StartSession \/ Reconcile \/ EndSession \/ DirectoryExists \/ RunGone \/ MarkRunning
           \/ Finish \/ EngineCrash
  <2>1. UNCHANGED <<pending, asked, history>>
    BY <1>3 DEF StartSession, Reconcile, EndSession, DirectoryExists, RunGone, MarkRunning, Finish,
       EngineCrash, Return
  <2> QED BY <2>1
<1>8. ASSUME NEW x \in Runs, CancelRead(x)
      PROVE  /\ UNCHANGED <<pending, history>> /\ backend # "sqlite"
             /\ asked' \subseteq [run : Runs, seen : Cancellable]
  BY <1>8 DEF CancelRead
<1>9. ASSUME NEW c \in asked, CancelWrite(c)
      PROVE  /\ UNCHANGED <<pending, history>> /\ asked' \subseteq asked
  BY <1>9 DEF CancelWrite
<1>4. ASSUME NEW x \in Runs, Enqueue(x)
      PROVE  /\ used' = used \cup {x}
             /\ UNCHANGED <<pending, asked, executed, relaunched, stranded>>
  BY <1>4 DEF Enqueue
<1>5. ASSUME NEW x \in Runs, EnqueueRead(x)
      PROVE  /\ db' = db /\ backend = "postgresql"
             /\ UNCHANGED <<asked, executed, relaunched, stranded>>
             /\ \E c \in BOOLEAN :
                  /\ x \notin used /\ used' = used \cup {x}
                  /\ pending' = pending \cup {[run |-> x, capped |-> c]}
  <2> DEFINE c == RobotOf[x] \in db.limited
  <2>1. /\ db' = db /\ backend = "postgresql" /\ UNCHANGED <<asked, executed, relaunched, stranded>>
        /\ x \notin used /\ used' = used \cup {x}
        /\ pending' = pending \cup {[run |-> x, capped |-> c]}
    BY <1>5 DEF EnqueueRead
  <2>2. c \in BOOLEAN
    OBVIOUS
  <2> HIDE DEF c
  <2> QED BY <2>1, <2>2
<1>6. ASSUME NEW p \in pending, EnqueueWrite(p)
      PROVE  pending' \subseteq pending /\ UNCHANGED <<asked, history>>
  BY <1>6 DEF EnqueueWrite
<1>7. CASE MakeRunDir
  <2>1. PICK x \in cur : Launched(x)
    BY <1>7 DEF MakeRunDir
  <2>2. executed' = executed \cup {x} /\ UNCHANGED <<pending, asked, used, stranded>>
    BY <2>1 DEF Launched
  <2>3. relaunched' \in BOOLEAN
    BY <2>1 DEF Launched
  <2> QED BY <2>2, <2>3
<1> QED BY <1>1, <1>2, <1>3, <1>4, <1>5, <1>6, <1>7, <1>8, <1>9 DEF External
-----------------------------------------------------------------------------
(* The invariant: types, mutex and references, what is known of the runs, and *)
(* which operation is at which step.                                          *)

RegistryOps == {"update", "activate", "deactivate", "remove", "clear"}
Opening == {"upgrade", "copy", "migrate"}
Bare == {"idle", "closed", "purge", "import", "limits_check", "limits_backup", "limits_read"}
Restores == {"restore_safety", "restore_replace", "putback"}

OpInv ==
  /\ txn.op = "restore" => backend = "sqlite"
  /\ step \in Bare => txn = NoTxn
  /\ step = "commit" => txn.op \in RegistryOps
  /\ step = "logs" => txn.op \in {"remove", "clear"}
  /\ step = "limits_write" => txn.op = "limits"
  /\ step \in Restores => txn.op = "restore"
  /\ step \in Opening => txn.op \in {"start", "restore"}

FullInv == IInv /\ KnownInv /\ OpInv

\* The references in the form of NoOrphanRun.
LEMMA OrphanFree ==
  NoOrphanRun <=> \A d \in {db} \cup file \cup safety : ReferencesHold(d)
BY ReferencesAre DEF NoOrphanRun

\* The same after a step.
LEMMA OrphanFreeNext ==
  NoOrphanRun' <=> \A d \in {db'} \cup file' \cup safety' : ReferencesHold(d)
BY ReferencesAre DEF NoOrphanRun

\* The command line and the engine preserve it.
LEMMA ExternalInv ==
  ASSUME FullInv, External
  PROVE  FullInv'
<1>1. Grows
  BY ExternalGrows DEF FullInv, IInv
<1>2. /\ UNCHANGED <<site, panel, files>>
      /\ lock' \in {"free", "engine", "panel"} /\ (lock' = "panel" <=> lock = "panel")
      /\ engine' \in {"idle", "reconcile", "claim", "mkdir", "launch", "run"}
      /\ lock' = "engine" <=> engine' # "idle"
      /\ cur' \subseteq Runs /\ logs' \subseteq Runs
  BY ExternalSession DEF FullInv, IInv
<1>3. /\ used \subseteq used' /\ used' \subseteq Runs
      /\ executed' \subseteq Runs /\ relaunched' \in BOOLEAN /\ stranded' = stranded
      /\ asked' \subseteq [run : Runs, seen : Cancellable]
      /\ backend = "sqlite" => asked' \subseteq asked
      /\ \/ pending' \subseteq pending
         \/ /\ db' = db /\ backend = "postgresql"
            /\ \E x \in Runs \ used, c \in BOOLEAN :
                 pending' = pending \cup {[run |-> x, capped |-> c]} /\ used' = used \cup {x}
  BY ExternalHistory DEF FullInv, IInv
<1>4. TypeOK'
  <2>1. pending' \subseteq [run : Runs, capped : BOOLEAN]
    BY <1>3 DEF FullInv, IInv, TypeOK
  <2>2. db' \in Contents
    BY <1>1 DEF Grows
  <2> QED BY <1>2, <1>3, <2>1, <2>2 DEF FullInv, IInv, TypeOK, site, panel, files
<1>5. HolderInv'
  BY <1>2 DEF FullInv, IInv, HolderInv, panel
<1>6. NoOrphanRun'
  BY <1>1, <1>2, OrphanFree, OrphanFreeNext DEF FullInv, IInv, Grows, files
<1>7. KnownInv'
  <2>1. \A x \in Runs : db'.state[x] # "absent" => x \in used'
    BY <1>1, <1>3 DEF Grows, New, FullInv, KnownInv, IInv, TypeOK
  <2>2. \A d \in {db'} \cup file' \cup safety' : \A x \in Runs : d.state[x] # "absent" => x \in used'
    BY <1>2, <1>3, <2>1 DEF FullInv, KnownInv, files
  <2>3. CASE pending' \subseteq pending
    <3>1. ASSUME NEW p \in pending' PROVE p.run \in used' /\ db'.state[p.run] = "absent"
      <4>1. p.run \in used /\ p.run \in Runs /\ db.state[p.run] = "absent"
        BY <2>3 DEF FullInv, KnownInv, IInv, TypeOK
      <4>2. ~New(p.run)
        BY <2>3, <4>1 DEF New, FullInv, KnownInv
      <4> QED BY <1>1, <1>3, <4>1, <4>2 DEF Grows
    <3>2. backend' = "sqlite" => pending' = {} /\ asked' = {}
      BY <1>2, <1>3, <2>3 DEF FullInv, KnownInv, site
    <3>3. \A p, q \in pending' : p.run = q.run => p = q
      BY <2>3 DEF FullInv, KnownInv
    <3> QED BY <2>2, <3>1, <3>2, <3>3 DEF KnownInv
  <2>4. CASE /\ db' = db /\ backend = "postgresql"
             /\ \E x \in Runs \ used, c \in BOOLEAN :
                  pending' = pending \cup {[run |-> x, capped |-> c]} /\ used' = used \cup {x}
    <3>1. PICK x \in Runs \ used, c \in BOOLEAN :
            pending' = pending \cup {[run |-> x, capped |-> c]} /\ used' = used \cup {x}
      BY <2>4
    <3>2. db.state[x] = "absent"
      BY DEF FullInv, KnownInv
    <3>3. backend' # "sqlite"
      BY <1>2, <2>4 DEF site
    <3>4. \A p \in pending' : p.run \in used' /\ db'.state[p.run] = "absent"
      BY <2>4, <3>1, <3>2 DEF FullInv, KnownInv
    <3>5. \A p, q \in pending' : p.run = q.run => p = q
      BY <3>1 DEF FullInv, KnownInv
    <3> QED BY <2>2, <3>3, <3>4, <3>5 DEF KnownInv
  <2> QED BY <1>3, <2>3, <2>4
<1>8. OpInv'
  BY <1>2 DEF FullInv, OpInv, site, panel
<1> QED BY <1>4, <1>5, <1>6, <1>7, <1>8 DEF FullInv, IInv

\* What a transaction is started with.
LEMMA TxnIs ==
  ASSUME NEW op \in Ops, NEW B \in SUBSET Robots, NEW S \in SUBSET Runs, NEW F \in SUBSET Runs
  PROVE  /\ [op |-> op, robots |-> B, runs |-> S, fila |-> F]
              \in [op : Ops, robots : SUBSET Robots, runs : SUBSET Runs, fila : SUBSET Runs]
         /\ NoTxn \in [op : Ops, robots : SUBSET Robots, runs : SUBSET Runs, fila : SUBSET Runs]
BY DEF NoTxn, Ops

\* A step of the panel that leaves every database, and the lists of runs, alone.
LEMMA DataKept ==
  ASSUME FullInv, UNCHANGED <<backend, db, file, safety, used, pending, asked>>
  PROVE  NoOrphanRun' /\ KnownInv'
BY DEF FullInv, IInv, NoOrphanRun, KnownInv

\* A transaction of the panel begins.
LEMMA BeginInv ==
  ASSUME FullInv, NEW from \in {"idle", "purge"}, NEW op \in RegistryOps,
         NEW B \in SUBSET Robots, NEW S \in SUBSET Runs, Begin(from, op, B, S)
  PROVE  FullInv'
<1>1. /\ step \in {"idle", "purge"} /\ step' = "commit"
      /\ txn' = [op |-> op, robots |-> B, runs |-> S, fila |-> {}]
      /\ UNCHANGED <<site, db, logs, lock, session, pending, asked, files, history>>
  BY DEF Begin, Goto, NoTxn
<1>2. op \in Ops /\ op # "restore"
  BY DEF RegistryOps, Ops
<1>3. TypeOK'
  <2>1. txn' \in [op : Ops, robots : SUBSET Robots, runs : SUBSET Runs, fila : SUBSET Runs]
    BY <1>1, <1>2, TxnIs
  <2> QED BY <1>1, <2>1 DEF FullInv, IInv, TypeOK, Steps, site, session, files, history
<1>4. HolderInv'
  BY <1>1 DEF FullInv, IInv, HolderInv, Locked, session
<1>5. OpInv'
  BY <1>1, <1>2 DEF OpInv, Bare, Restores, Opening
<1> QED BY <1>1, <1>3, <1>4, <1>5, DataKept DEF FullInv, IInv, site, files, history

\* The transactions of the registry and the retention.
LEMMA RegistryInv ==
  ASSUME FullInv,
         \/ \E b \in Robots : UpdateRobot(b) \/ RemoveRobot(b) \/ \E a \in BOOLEAN : SetRobotActive(b, a)
         \/ \E x \in Runs : RemoveRun(x)
         \/ ClearAllRobots \/ ClearAllRuns \/ PurgeSelect
  PROVE  FullInv'
<1> USE DEF RegistryOps
<1>1. ASSUME NEW b \in Robots,
             UpdateRobot(b) \/ RemoveRobot(b) \/ \E a \in BOOLEAN : SetRobotActive(b, a)
      PROVE  \E op \in RegistryOps, S \in SUBSET Runs : Begin("idle", op, {b}, S)
  BY <1>1 DEF UpdateRobot, RemoveRobot, SetRobotActive, Rows
<1>2. ASSUME NEW x \in Runs, RemoveRun(x) PROVE FullInv'
  BY <1>2, BeginInv DEF RemoveRun
<1>3. CASE ClearAllRobots \/ ClearAllRuns
  BY <1>3, BeginInv DEF ClearAllRobots, ClearAllRuns, Rows
<1>4. CASE PurgeSelect
  BY <1>4, BeginInv DEF PurgeSelect, RowsIn
<1> QED BY <1>1, <1>2, <1>3, <1>4, BeginInv

\* A step of the panel that ends at a step of the same holder, with the lists of
\* runs and the databases as they were.
LEMMA ControlInv ==
  ASSUME FullInv, step' \in Steps, OpInv',
         txn' \in [op : Ops, robots : SUBSET Robots, runs : SUBSET Runs, fila : SUBSET Runs],
         \/ lock' = lock /\ (step' \in Locked <=> step \in Locked)
         \/ lock = "free" /\ lock' = "panel" /\ step' \in Locked
         \/ step \in Locked /\ lock' = "free" /\ step' \notin Locked,
         UNCHANGED <<site, db, session, pending, asked, file, safety, used, relaunched, stranded>>,
         logs' \subseteq logs, executed' \subseteq executed, copies' \subseteq 0..HeadRev
  PROVE  FullInv'
<1>1. TypeOK'
  BY DEF FullInv, IInv, TypeOK, site, session
<1>2. HolderInv'
  BY DEF FullInv, IInv, HolderInv, session
<1> QED BY <1>1, <1>2, DataKept DEF FullInv, IInv, site

\* The operations that change no database.
LEMMA ControlSteps ==
  ASSUME FullInv,
         \/ PurgeCheck \/ Rollback \/ RemoveLogs \/ ImportCheck
         \/ LimitsLock \/ LimitsCheck \/ LimitsBackup \/ LimitsRead
         \/ RestoreCheck \/ ReplaceFails \/ OpenPanel \/ CopyOld \/ PanelCrash
  PROVE  FullInv'
<1>1. /\ copies \in SUBSET (0..HeadRev) /\ db.revision \in 0..HeadRev /\ {} \subseteq 0..HeadRev
      /\ txn \in [op : Ops, robots : SUBSET Robots, runs : SUBSET Runs, fila : SUBSET Runs]
      /\ NoTxn \in [op : Ops, robots : SUBSET Robots, runs : SUBSET Runs, fila : SUBSET Runs]
  BY TxnIs DEF FullInv, IInv, TypeOK, Contents
<1> USE DEF Goto, End, Steps, Locked, OpInv, Bare, Restores, Opening, files, history, panel, site
<1>2. CASE PurgeCheck
  <2>1. txn' = NoTxn /\ step \in Bare
    BY <1>2 DEF PurgeCheck, FullInv
  <2>2. OpInv' /\ step' \in Steps
    BY <1>2, <2>1 DEF PurgeCheck, NoTxn
  <2> QED BY <1>1, <1>2, <2>1, <2>2, ControlInv DEF PurgeCheck
<1>3. CASE Rollback
  BY <1>1, <1>3, ControlInv DEF Rollback, NoTxn
<1>4. CASE RemoveLogs
  BY <1>1, <1>4, ControlInv DEF RemoveLogs, NoTxn
<1>5. CASE ImportCheck
  <2>1. txn' = NoTxn /\ step \in Bare
    BY <1>5 DEF ImportCheck, FullInv
  <2>2. OpInv' /\ step' \in Steps
    BY <1>5, <2>1 DEF ImportCheck, NoTxn
  <2> QED BY <1>1, <1>5, <2>1, <2>2, ControlInv DEF ImportCheck
<1>6. CASE LimitsLock
  <2>1. txn' = NoTxn /\ step \in Bare
    BY <1>6 DEF LimitsLock, FullInv
  <2>2. OpInv' /\ step' \in Steps
    BY <1>6, <2>1 DEF LimitsLock, NoTxn
  <2> QED BY <1>1, <1>6, <2>1, <2>2, ControlInv DEF LimitsLock
<1>7. CASE LimitsCheck
  <2>1. txn' = NoTxn /\ step \in Bare
    BY <1>7 DEF LimitsCheck, FullInv
  <2>2. OpInv' /\ step' \in Steps
    BY <1>7, <2>1 DEF LimitsCheck, NoTxn
  <2> QED BY <1>1, <1>7, <2>1, <2>2, ControlInv DEF LimitsCheck
<1>8. CASE LimitsBackup
  <2>1. txn' = NoTxn /\ step \in Bare
    BY <1>8 DEF LimitsBackup, FullInv
  <2>2. OpInv' /\ step' \in Steps
    BY <1>8, <2>1 DEF LimitsBackup, NoTxn
  <2> QED BY <1>1, <1>8, <2>1, <2>2, ControlInv DEF LimitsBackup
<1>9. CASE LimitsRead
  BY <1>1, <1>9, ControlInv, TxnIs DEF LimitsRead, NoTxn, RowsIn, Ops
<1>10. CASE RestoreCheck
  BY <1>1, <1>10, ControlInv, TxnIs DEF RestoreCheck, NoTxn, Rows, Registered, Ops, site
<1>11. CASE ReplaceFails
  BY <1>1, <1>11, ControlInv DEF ReplaceFails, FullInv, site
<1>12. CASE OpenPanel
  BY <1>1, <1>12, ControlInv, TxnIs DEF OpenPanel, NoTxn, Ops
<1>13. CASE CopyOld
  BY <1>1, <1>13, ControlInv DEF CopyOld, FullInv, site
<1>14. CASE PanelCrash
  BY <1>1, <1>14, ControlInv DEF PanelCrash, NoTxn
<1> QED BY <1>2, <1>3, <1>4, <1>5, <1>6, <1>7, <1>8, <1>9, <1>10, <1>11, <1>12, <1>13, <1>14

\* A database that may stand beside the runs that are known.
Fits(d) ==
  /\ d \in Contents /\ ReferencesHold(d)
  /\ \A x \in Runs : d.state[x] # "absent" => x \in used
  /\ \A p \in pending : d.state[p.run] = "absent"

\* A change of the registry leaves every run where it is.
LEMMA CommitChangeFits ==
  ASSUME FullInv, CommitChange
  PROVE  Fits(db') /\ db'.revision = db.revision
<1> DEFINE state(b) == IF txn.op = "update" THEN db.robot[b]
                       ELSE IF txn.op = "activate" THEN "active" ELSE "inactive"
<1>1. PICK b \in txn.robots, limit \in BOOLEAN : db' = WithRobot(db, b, state(b), limit)
  BY DEF CommitChange
<1>2. b \in Robots /\ db \in Contents /\ state(b) \in RobotStates
  BY DEF FullInv, IInv, TypeOK, Contents, RobotStates
<1>3. db.robot[b] # "absent" => state(b) # "absent"
  OBVIOUS
<1> HIDE DEF state
<1>4. /\ db' \in Contents /\ db'.revision = db.revision
      /\ db'.robot = [db.robot EXCEPT ![b] = state(b)] /\ db'.state = db.state
  BY <1>1, <1>2, WithRobotIs
<1>5. \A c \in Robots : db.robot[c] # "absent" => db'.robot[c] # "absent"
  BY <1>2, <1>3, <1>4 DEF Contents
<1>6. ReferencesHold(db')
  BY <1>4, <1>5, KeepsReferences, OrphanFree DEF FullInv, IInv
<1> QED BY <1>4, <1>6 DEF Fits, FullInv, KnownInv

\* A removal takes rows away, and the foreign key keeps it from orphans.
LEMMA CommitRemovalFits ==
  ASSUME FullInv, CommitRemoval
  PROVE  Fits(db') /\ db'.revision = db.revision
<1>1. Removed \in SUBSET Runs /\ txn.robots \in SUBSET Robots /\ db \in Contents
  BY DEF Removed, Rows, FullInv, IInv, TypeOK
<1>2. db' = Without(db, Removed, txn.robots) /\ ReferencesHold(db')
  BY DEF CommitRemoval
<1>3. ASSUME NEW S \in SUBSET Runs, NEW B \in SUBSET Robots, db' = Without(db, S, B)
      PROVE  /\ db' \in Contents /\ db'.revision = db.revision
             /\ \A x \in Runs : db'.state[x] # "absent" => db.state[x] # "absent"
  <2>1. /\ Without(db, S, B) \in Contents /\ Without(db, S, B).revision = db.revision
        /\ \A x \in Runs : Without(db, S, B).state[x] = IF x \in S THEN "absent" ELSE db.state[x]
    BY <1>1, WithoutIs
  <2> QED BY <1>3, <2>1
<1>4. \A p \in pending : p.run \in Runs
  BY DEF FullInv, IInv, TypeOK
<1> HIDE DEF Removed
<1>5. /\ db' \in Contents /\ db'.revision = db.revision
      /\ \A x \in Runs : db'.state[x] # "absent" => db.state[x] # "absent"
  BY <1>1, <1>2, <1>3
<1> QED BY <1>2, <1>4, <1>5 DEF Fits, FullInv, KnownInv

\* An import touches the automations only.
LEMMA ImportWriteFits ==
  ASSUME FullInv, ImportWrite
  PROVE  Fits(db') /\ db'.revision = db.revision
<1>1. Fits(db) /\ db \in Contents
  BY OrphanFree DEF Fits, FullInv, IInv, TypeOK, KnownInv
<1>2. CASE UNCHANGED db
  BY <1>1, <1>2 DEF Fits
<1>3. ASSUME NEW B \in SUBSET Robots, NEW A \in SUBSET Robots, NEW L \in SUBSET Robots,
             db' = [db EXCEPT
                     !.robot = [b \in Robots |-> IF b \notin B THEN @[b]
                                                 ELSE IF b \in A THEN "active" ELSE "inactive"],
                     !.limited = (@ \ B) \cup (L \cap B)]
      PROVE  Fits(db') /\ db'.revision = db.revision
  <2> DEFINE R == [b \in Robots |-> IF b \notin B THEN db.robot[b]
                                    ELSE IF b \in A THEN "active" ELSE "inactive"]
  <2>1. db' = [db EXCEPT !.robot = R, !.limited = (db.limited \ B) \cup (L \cap B)]
    BY <1>3
  <2>2. R \in [Robots -> RobotStates]
    BY <1>1 DEF Contents, RobotStates
  <2>3. \A b \in Robots : db.robot[b] # "absent" => R[b] # "absent"
    OBVIOUS
  <2> HIDE DEF R
  <2>4. /\ db' \in Contents /\ db'.revision = db.revision
        /\ db'.robot = R /\ db'.state = db.state
    BY <1>1, <2>1, <2>2 DEF Contents
  <2>5. ReferencesHold(db')
    BY <1>1, <2>3, <2>4, KeepsReferences DEF Fits
  <2> QED BY <1>1, <2>4, <2>5 DEF Fits
<1> QED BY <1>2, <1>3 DEF ImportWrite

\* So does the removal of the limits, and a migration touches nothing.
LEMMA SameRowsFit ==
  ASSUME FullInv, db' \in Contents, db'.robot = db.robot, db'.state = db.state
  PROVE  Fits(db')
<1>1. ReferencesHold(db')
  BY ReferencesAre, OrphanFree DEF FullInv, IInv
<1> QED BY <1>1 DEF Fits, FullInv, KnownInv

\* What is restored or put back was a database before.
LEMMA CopyFits ==
  ASSUME FullInv, backend = "sqlite", NEW d \in {db} \cup file \cup safety
  PROVE  Fits(d)
BY OrphanFree DEF Fits, FullInv, IInv, TypeOK, KnownInv

\* A step of the panel that leaves a fitting database and fitting copies.
LEMMA WriteInv ==
  ASSUME FullInv, step' \in Steps, OpInv',
         txn' \in [op : Ops, robots : SUBSET Robots, runs : SUBSET Runs, fila : SUBSET Runs],
         \/ lock' = lock /\ (step' \in Locked <=> step \in Locked)
         \/ lock = "free" /\ lock' = "panel" /\ step' \in Locked
         \/ step \in Locked /\ lock' = "free" /\ step' \notin Locked,
         UNCHANGED <<site, session, pending, asked, logs, used, executed, relaunched>>,
         stranded' \in BOOLEAN, copies' \subseteq 0..HeadRev, Fits(db'),
         file' \subseteq file \cup {db}, safety' \subseteq safety \cup {db, Blank}
  PROVE  FullInv'
<1>1. file' \subseteq Contents /\ safety' \subseteq Contents
  BY BlankIs DEF FullInv, IInv, TypeOK
<1>2. TypeOK'
  BY <1>1 DEF FullInv, IInv, TypeOK, site, session, Fits
<1>3. HolderInv'
  BY DEF FullInv, IInv, HolderInv, session
<1>4. \A x \in Runs : Blank.state[x] = "absent"
  BY DEF Blank
<1>5. NoOrphanRun'
  <2>1. ReferencesHold(Blank)
    BY <1>4, ReferencesAre
  <2> QED BY <2>1, OrphanFree, OrphanFreeNext DEF FullInv, IInv, Fits
<1>6. KnownInv'
  BY <1>4 DEF FullInv, KnownInv, Fits, site
<1> QED BY <1>2, <1>3, <1>5, <1>6 DEF FullInv, IInv

\* The operations that write the database or a copy of it.
LEMMA WriteSteps ==
  ASSUME FullInv,
         \/ CommitChange \/ CommitRemoval \/ ImportWrite \/ LimitsWrite \/ Backup
         \/ SafetyCopy \/ SafetyCopyFails \/ Replace \/ PutBack \/ PutBackFails
         \/ ReadRevision \/ Migrate \/ Migrated \/ MigrateFails
  PROVE  FullInv'
<1>1. /\ copies \in SUBSET (0..HeadRev) /\ {} \subseteq 0..HeadRev
      /\ txn \in [op : Ops, robots : SUBSET Robots, runs : SUBSET Runs, fila : SUBSET Runs]
      /\ NoTxn \in [op : Ops, robots : SUBSET Robots, runs : SUBSET Runs, fila : SUBSET Runs]
      /\ stranded \in BOOLEAN
  BY TxnIs DEF FullInv, IInv, TypeOK
<1>2. db \in Contents /\ OpInv /\ HeadRev \in Nat \ {0}
  BY RegistryAssumption DEF FullInv, IInv, TypeOK
<1>3. Fits(db)
  BY <1>2, SameRowsFit, OrphanFree DEF Fits, FullInv, IInv, KnownInv
<1> USE DEF Goto, End, Steps, Locked, OpInv, Bare, Restores, Opening, files, history, panel, site
<1>4. CASE CommitChange
  BY <1>1, <1>4, CommitChangeFits, WriteInv DEF CommitChange, NoTxn
<1>5. CASE CommitRemoval
  BY <1>1, <1>5, CommitRemovalFits, WriteInv DEF CommitRemoval
<1>6. CASE ImportWrite
  <2>1. OpInv' /\ step' \in Steps
    BY <1>2, <1>6 DEF ImportWrite, NoTxn
  <2> QED BY <1>1, <1>6, <2>1, ImportWriteFits, WriteInv DEF ImportWrite
<1>7. CASE LimitsWrite
  <2>1. db' = Unlimited(db, txn.runs) /\ txn.runs \in SUBSET Runs
    BY <1>1, <1>7 DEF LimitsWrite
  <2>2. Fits(db')
    BY <1>2, <2>1, UnlimitedIs, SameRowsFit
  <2> QED BY <1>1, <1>7, <2>2, WriteInv DEF LimitsWrite, NoTxn
<1>8. CASE Backup
  <2>1. OpInv' /\ step' \in Steps
    BY <1>2, <1>8 DEF Backup, NoTxn
  <2> QED BY <1>1, <1>3, <1>8, <2>1, WriteInv DEF Backup
<1>9. CASE SafetyCopy
  <2>1. OpInv' /\ step' \in Steps
    BY <1>2, <1>9 DEF SafetyCopy
  <2> QED BY <1>1, <1>3, <1>9, <2>1, WriteInv DEF SafetyCopy
<1>10. CASE SafetyCopyFails
  <2>1. OpInv' /\ step' \in Steps
    BY <1>2, <1>10 DEF SafetyCopyFails
  <2>2. safety' \subseteq safety \cup {db, Blank}
    BY <1>10 DEF SafetyCopyFails
  <2> QED BY <1>1, <1>3, <1>10, <2>1, <2>2, WriteInv DEF SafetyCopyFails
<1>11. CASE Replace
  <2>1. OpInv' /\ step' \in Steps /\ backend = "sqlite"
    BY <1>2, <1>11 DEF Replace
  <2>2. Fits(db')
    BY <1>11, <2>1, CopyFits DEF Replace
  <2> QED BY <1>1, <1>11, <2>1, <2>2, WriteInv DEF Replace
<1>12. CASE PutBack
  <2>1. OpInv' /\ step' \in Steps /\ backend = "sqlite"
    BY <1>2, <1>12 DEF PutBack, NoTxn
  <2>2. db' \in {db} \cup file \cup safety
    BY <1>12 DEF PutBack
  <2>3. Fits(db')
    BY <2>1, <2>2, CopyFits
  <2> QED BY <1>1, <1>12, <2>1, <2>3, WriteInv DEF PutBack
<1>17. CASE PutBackFails
  <2>1. OpInv' /\ step' \in Steps
    BY <1>2, <1>17 DEF PutBackFails, NoTxn
  <2> QED BY <1>1, <1>3, <1>17, <2>1, WriteInv DEF PutBackFails
<1>13. CASE ReadRevision
  <2>1. Fits(db') /\ safety' \subseteq safety
    BY <1>3, <1>13 DEF ReadRevision, Succeed, Raise
  <2>2. OpInv' /\ step' \in Steps
    BY <1>2, <1>13 DEF ReadRevision, Succeed, Raise, NoTxn
  <2> QED BY <1>1, <1>13, <2>1, <2>2, WriteInv DEF ReadRevision, Succeed, Raise
<1>14. CASE Migrate
  <2> DEFINE n == IF backend = "sqlite" THEN db.revision + 1 ELSE HeadRev
  <2>1. n \in 0..HeadRev
    BY <1>2, <1>14 DEF Migrate, Contents
  <2>2. db' = [db EXCEPT !.revision = n]
    BY <1>14 DEF Migrate
  <2> HIDE DEF n
  <2>3. Fits(db')
    BY <1>2, <2>1, <2>2, RevisionIs, SameRowsFit
  <2>4. OpInv' /\ step' \in Steps
    BY <1>2, <1>14 DEF Migrate
  <2> QED BY <1>1, <1>14, <2>3, <2>4, WriteInv DEF Migrate
<1>15. CASE Migrated
  <2>1. OpInv' /\ step' \in Steps
    BY <1>2, <1>15 DEF Migrated, Succeed, NoTxn
  <2> QED BY <1>1, <1>3, <1>15, <2>1, WriteInv DEF Migrated, Succeed
<1>16. CASE MigrateFails
  <2>1. OpInv' /\ step' \in Steps
    BY <1>2, <1>16 DEF MigrateFails, Raise, NoTxn
  <2> QED BY <1>1, <1>3, <1>16, <2>1, WriteInv DEF MigrateFails, Raise
<1> QED BY <1>4, <1>5, <1>6, <1>7, <1>8, <1>9, <1>10, <1>11, <1>12, <1>13, <1>14, <1>15, <1>16, <1>17

\* The program is not installed yet; an older backup may lie about.
LEMMA InitInv == Init => FullInv
<1> SUFFICES ASSUME Init PROVE FullInv
  OBVIOUS
<1>1. Blank \in Contents /\ \A x \in Runs : Blank.state[x] = "absent"
  BY BlankIs DEF Blank
<1>2. file \subseteq OldBackups /\ OldBackups \subseteq Contents /\ \A d \in file : ReferencesHold(d)
  BY MaintenanceAssumption DEF Init
<1>3. menu \subseteq Operations
  BY MaintenanceAssumption DEF Init
<1>4. NoTxn \in [op : Ops, robots : SUBSET Robots, runs : SUBSET Runs, fila : SUBSET Runs]
  BY TxnIs DEF Ops
<1>5. TypeOK
  BY <1>1, <1>2, <1>3, <1>4 DEF Init, TypeOK, Rows, Steps
<1>6. HolderInv
  BY DEF Init, HolderInv, Locked
<1>7. NoOrphanRun
  BY <1>1, <1>2, OrphanFree, ReferencesAre DEF Init
<1>8. KnownInv
  BY <1>1 DEF Init, KnownInv, Rows
<1>9. OpInv
  BY DEF Init, OpInv, Bare, Restores, Opening, NoTxn
<1> QED BY <1>5, <1>6, <1>7, <1>8, <1>9 DEF FullInv, IInv

\* Every step preserves the invariant.
LEMMA NextInv == FullInv /\ [Next]_vars => FullInv'
<1> SUFFICES ASSUME FullInv, [Next]_vars PROVE FullInv'
  OBVIOUS
<1>1. CASE UNCHANGED vars
  BY <1>1 DEF vars, site, session, panel, files, history, FullInv, IInv, TypeOK, HolderInv,
     NoOrphanRun, KnownInv, OpInv
<1>2. CASE Next
  BY <1>2, ExternalInv, RegistryInv, ControlSteps, WriteSteps DEF Next, Restoring
<1> QED BY <1>1, <1>2

\* The invariant holds in every reachable state of every instance.
LEMMA Reachable == Spec => []FullInv
BY InitInv, NextInv, PTL DEF Spec

\* Types, the mutex at the steps that take it, and no run without its automation
\* in any database or copy, whatever races and whatever fails.
THEOREM MaintenanceInvariant == Spec => []IInv
<1>1. FullInv => IInv
  BY DEF FullInv
<1> QED BY <1>1, Reachable, PTL
-----------------------------------------------------------------------------
(* No run is launched twice. *)

\* Only a session makes log directories, and only RemoveLogs takes them away.
LEMMA LogsKept ==
  ASSUME [Next]_vars, ~External, ~RemoveLogs
  PROVE  UNCHANGED <<logs, used, executed, relaunched>>
<1> USE DEF history
<1>1. ASSUME NEW b \in Robots,
             UpdateRobot(b) \/ RemoveRobot(b) \/ \E a \in BOOLEAN : SetRobotActive(b, a)
      PROVE  UNCHANGED <<logs, used, executed, relaunched>>
  BY <1>1 DEF UpdateRobot, RemoveRobot, SetRobotActive, Begin
<1>2. ASSUME NEW x \in Runs, RemoveRun(x) PROVE UNCHANGED <<logs, used, executed, relaunched>>
  BY <1>2 DEF RemoveRun, Begin
<1>3. CASE ClearAllRobots \/ ClearAllRuns \/ PurgeCheck \/ PurgeSelect
  BY <1>3 DEF ClearAllRobots, ClearAllRuns, PurgeCheck, PurgeSelect, Begin
<1>4. CASE CommitChange \/ CommitRemoval \/ Rollback
  BY <1>4 DEF CommitChange, CommitRemoval, Rollback
<1>5. CASE ImportCheck \/ ImportWrite
  BY <1>5 DEF ImportCheck, ImportWrite
<1>6. CASE LimitsLock \/ LimitsCheck \/ LimitsBackup \/ LimitsRead \/ LimitsWrite \/ Backup
  BY <1>6 DEF LimitsLock, LimitsCheck, LimitsBackup, LimitsRead, LimitsWrite, Backup
<1>7. CASE \/ RestoreCheck \/ SafetyCopy \/ SafetyCopyFails \/ Replace \/ ReplaceFails \/ PutBack
           \/ PutBackFails \/ OpenPanel \/ PanelCrash
  BY <1>7 DEF PutBackFails, RestoreCheck, SafetyCopy, SafetyCopyFails, Replace, ReplaceFails, PutBack, OpenPanel,
     PanelCrash
<1>8. CASE ReadRevision \/ CopyOld \/ Migrate \/ Migrated \/ MigrateFails
  BY <1>8 DEF ReadRevision, CopyOld, Migrate, Migrated, MigrateFails
<1>9. CASE UNCHANGED vars
  BY <1>9 DEF vars
<1> QED BY <1>1, <1>2, <1>3, <1>4, <1>5, <1>6, <1>7, <1>8, <1>9 DEF Next, Restoring

\* What was launched and not removed since has its directory.
LaunchInv == executed \subseteq logs /\ ~relaunched

\* Every step preserves it.
LEMMA LaunchNext ==
  ASSUME FullInv, LaunchInv, [Next]_vars
  PROVE  LaunchInv'
<1>1. CASE MakeRunDir
  <2>1. PICK x \in cur : x \notin logs /\ Launched(x)
    BY <1>1 DEF MakeRunDir
  <2>2. /\ logs' = logs \cup {x} /\ executed' = executed \cup {x}
        /\ relaunched' = (relaunched \/ x \in executed)
    BY <2>1 DEF Launched
  <2>3. ~relaunched'
    BY <2>1, <2>2 DEF LaunchInv
  <2> QED BY <2>2, <2>3 DEF LaunchInv
<1>2. CASE External /\ ~MakeRunDir
  <2>1. ASSUME NEW b \in Robots, RobotAdd(b) PROVE UNCHANGED <<logs, executed, relaunched>>
    BY <2>1 DEF RobotAdd, history
  <2>2. ASSUME NEW x \in Runs, Enqueue(x) \/ EnqueueRead(x) \/ Cancel(x) \/ CancelRead(x) \/ Claim(x)
        PROVE  UNCHANGED <<logs, executed, relaunched>>
    BY <2>2 DEF Enqueue, EnqueueRead, Cancel, CancelRead, Claim, history
  <2>3. ASSUME (\E p \in pending : EnqueueWrite(p)) \/ \E c \in asked : CancelWrite(c)
        PROVE  UNCHANGED <<logs, executed, relaunched>>
    BY <2>3 DEF EnqueueWrite, CancelWrite, history
  <2>4. CASE StartSession \/ Reconcile \/ EndSession \/ DirectoryExists \/ RunGone \/ MarkRunning
             \/ Finish \/ EngineCrash
    BY <2>4 DEF StartSession, Reconcile, EndSession, DirectoryExists, RunGone, MarkRunning, Finish,
       EngineCrash, Return, history, LaunchInv
  <2>5. UNCHANGED <<logs, executed, relaunched>> => LaunchInv'
    BY DEF LaunchInv
  <2> QED BY <1>2, <2>1, <2>2, <2>3, <2>4, <2>5 DEF External
<1>3. CASE RemoveLogs
  BY <1>3 DEF RemoveLogs, LaunchInv
<1>4. CASE ~External /\ ~RemoveLogs
  BY <1>4, LogsKept DEF LaunchInv
<1> QED BY <1>1, <1>2, <1>3, <1>4

\* A run that a restore brings back as queued is not executed again: whatever is
\* restored, crashes or fails, the directory of its logs stands in the way.
THEOREM SecondLaunchImpossible == Spec => []NoSecondLaunch
<1>1. Init => LaunchInv
  BY DEF Init, LaunchInv
<1>2. FullInv /\ LaunchInv /\ [Next]_vars => LaunchInv'
  BY LaunchNext
<1>3. LaunchInv => NoSecondLaunch
  BY DEF LaunchInv, NoSecondLaunch
<1> QED BY <1>1, <1>2, <1>3, Reachable, PTL DEF Spec
-----------------------------------------------------------------------------
(* What an operation read still holds when it writes. *)

Reading == {"commit", "logs", "limits_write"}

ReadInv ==
  /\ step \in Reading => txn.runs \subseteq used /\ \A p \in pending : p.run \notin txn.runs
  /\ step = "logs" => \A x \in txn.runs : db.state[x] = "absent"
  /\ step = "limits_write" => db.capped \cap txn.runs \subseteq txn.fila
  /\ backend = "sqlite" /\ step = "limits_write" =>
       \A x \in Runs : db.state[x] = "queued" => x \in txn.runs
  /\ backend = "sqlite" /\ step = "commit" /\ txn.op = "clear" =>
       \A x \in Runs : db.state[x] \notin Active
  /\ backend = "sqlite" /\ step = "commit" /\ txn.op = "remove" =>
       \A x \in txn.runs : db.state[x] = "final"
  /\ backend = "sqlite" /\ step = "commit" /\ txn.op \in {"update", "deactivate", "remove"} =>
       \A x \in Runs : RobotOf[x] \in txn.robots => db.state[x] \notin Active

\* A transaction on SQLite keeps the others out while it is open.
LEMMA OpenTransaction ==
  ASSUME FullInv, External, backend = "sqlite", step \in {"commit", "limits_write"}
  PROVE  db' = db
<1>1. Grows
  BY ExternalGrows DEF FullInv, IInv
<1> QED BY <1>1 DEF Grows, Writable, FullInv, KnownInv

\* A run that the operation read is none of those that arrive.
LEMMA ReadNotNew ==
  ASSUME FullInv, ReadInv, External, step \in Reading, NEW x \in txn.runs
  PROVE  ~New(x) /\ x \in Runs
BY DEF ReadInv, New, FullInv, IInv, TypeOK

\* The command line and the engine.
LEMMA ReadExternal ==
  ASSUME FullInv, ReadInv, External
  PROVE  ReadInv'
<1>1. Grows /\ UNCHANGED <<site, panel, files>>
  BY ExternalGrows, ExternalSession DEF FullInv, IInv
<1>2. used \subseteq used'
  BY ExternalHistory DEF FullInv, IInv
<1>3. ASSUME step \in Reading
      PROVE  txn.runs \subseteq used' /\ \A p \in pending' : p.run \notin txn.runs
  <2>1. txn.runs \subseteq used /\ \A p \in pending : p.run \notin txn.runs
    BY <1>3 DEF ReadInv
  <2>2. \/ pending' \subseteq pending
        \/ \E x \in Runs \ used, c \in BOOLEAN : pending' = pending \cup {[run |-> x, capped |-> c]}
    BY ExternalHistory DEF FullInv, IInv
  <2> QED BY <1>2, <2>1, <2>2
<1>5. ASSUME step = "logs", NEW x \in txn.runs
      PROVE  db'.state[x] = "absent"
  BY <1>1, <1>5, ReadNotNew DEF Grows, ReadInv, Reading
<1>6. ASSUME step = "limits_write", NEW x \in db'.capped \cap txn.runs
      PROVE  x \in txn.fila
  BY <1>1, <1>6, ReadNotNew DEF Grows, ReadInv, Reading
<1>7. backend = "sqlite" /\ step \in {"commit", "limits_write"} => db' = db
  BY OpenTransaction
<1>8. UNCHANGED <<backend, step, txn>>
  BY <1>1 DEF site, panel
<1> QED BY <1>3, <1>5, <1>6, <1>7, <1>8 DEF ReadInv

\* A transaction of the registry begins.
LEMMA ReadBegin ==
  ASSUME FullInv, NEW from, NEW op \in RegistryOps, NEW B \in SUBSET Robots, NEW S \in SUBSET Rows(db),
         Begin(from, op, B, S),
         op = "remove" => \A x \in S : db.state[x] = "final",
         op = "clear" => \A x \in Runs : db.state[x] \notin Active,
         op \in {"update", "deactivate", "remove"} =>
           \A x \in Runs : RobotOf[x] \in B => db.state[x] \notin Active
  PROVE  ReadInv'
<1>1. /\ step' = "commit" /\ UNCHANGED <<backend, db, pending, used>>
      /\ txn' = [op |-> op, robots |-> B, runs |-> S, fila |-> {}]
  BY DEF Begin, Goto, NoTxn, site, history
<1>2. S \subseteq used /\ \A p \in pending : p.run \notin S
  BY DEF Rows, FullInv, KnownInv
<1> QED BY <1>1, <1>2 DEF ReadInv

\* Not busy and not absent is settled.
LEMMA SettledOrBusy ==
  ASSUME FullInv, NEW x \in Rows(db), db.state[x] \notin Active
  PROVE  db.state[x] = "final"
BY DEF Rows, FullInv, IInv, TypeOK, Contents, RunStates

\* The transactions of the registry and the retention.
LEMMA ReadRegistry ==
  ASSUME FullInv,
         \/ \E b \in Robots : UpdateRobot(b) \/ RemoveRobot(b) \/ \E a \in BOOLEAN : SetRobotActive(b, a)
         \/ \E x \in Runs : RemoveRun(x)
         \/ ClearAllRobots \/ ClearAllRuns \/ PurgeSelect
  PROVE  ReadInv'
<1> USE DEF RegistryOps
<1>1. ASSUME NEW b \in Robots, UpdateRobot(b) PROVE ReadInv'
  <2>1. \A x \in Runs : RobotOf[x] \in {b} => db.state[x] \notin Active
    BY <1>1 DEF UpdateRobot, Busy
  <2> QED BY <1>1, <2>1, ReadBegin DEF UpdateRobot
<1>2. ASSUME NEW b \in Robots, NEW a \in BOOLEAN, SetRobotActive(b, a) PROVE ReadInv'
  <2>1. CASE a
    BY <1>2, <2>1, ReadBegin DEF SetRobotActive
  <2>2. CASE ~a
    <3>1. \A x \in Runs : RobotOf[x] \in {b} => db.state[x] \notin Active
      BY <1>2, <2>2 DEF SetRobotActive, Busy
    <3> QED BY <1>2, <2>2, <3>1, ReadBegin DEF SetRobotActive
  <2> QED BY <2>1, <2>2
<1>3. ASSUME NEW b \in Robots, RemoveRobot(b) PROVE ReadInv'
  <2> DEFINE S == {x \in Rows(db) : RobotOf[x] = b}
  <2>1. Begin("idle", "remove", {b}, S) /\ S \in SUBSET Rows(db)
    BY <1>3 DEF RemoveRobot
  <2>2. \A x \in Runs : RobotOf[x] \in {b} => db.state[x] \notin Active
    BY <1>3 DEF RemoveRobot, Busy
  <2>3. \A x \in S : db.state[x] = "final"
    BY <2>2, SettledOrBusy DEF Rows
  <2> HIDE DEF S
  <2> QED BY <2>1, <2>2, <2>3, ReadBegin
<1>4. ASSUME NEW x \in Runs, RemoveRun(x) PROVE ReadInv'
  <2>1. /\ Begin("idle", "remove", {}, {x}) /\ {x} \in SUBSET Rows(db)
        /\ \A y \in {x} : db.state[y] = "final"
    BY <1>4 DEF RemoveRun, Rows
  <2> QED BY <2>1, ReadBegin
<1>5. CASE ClearAllRobots \/ ClearAllRuns
  <2>1. \A x \in Runs : db.state[x] \notin Active
    BY <1>5 DEF ClearAllRobots, ClearAllRuns, AnyActive
  <2> QED BY <1>5, <2>1, ReadBegin DEF ClearAllRobots, ClearAllRuns
<1>6. CASE PurgeSelect
  <2>1. PICK S \in SUBSET RowsIn(db, {"final"}) : Begin("purge", "remove", {}, S)
    BY <1>6 DEF PurgeSelect
  <2>2. S \in SUBSET Rows(db) /\ \A x \in S : db.state[x] = "final"
    BY DEF RowsIn, Rows
  <2> QED BY <2>1, <2>2, ReadBegin
<1> QED BY <1>1, <1>2, <1>3, <1>4, <1>5, <1>6

\* The removal of the rows, and the reading of the queue.
LEMMA ReadGoesOn ==
  ASSUME FullInv, ReadInv, CommitRemoval \/ LimitsRead
  PROVE  ReadInv'
<1>1. CASE CommitRemoval
  <2>1. /\ step = "commit" /\ txn.op \in {"remove", "clear"} /\ step' = "logs" /\ txn' = txn
        /\ db' = Without(db, Removed, txn.robots) /\ UNCHANGED <<used, pending>>
    BY <1>1 DEF CommitRemoval, End, history
  <2>2. ASSUME NEW S \in SUBSET Runs, NEW B \in SUBSET Robots, db' = Without(db, S, B)
        PROVE  \A x \in Runs : x \in S \/ db.state[x] = "absent" => db'.state[x] = "absent"
    <3>1. db \in Contents
      BY DEF FullInv, IInv, TypeOK
    <3>2. \A x \in Runs : Without(db, S, B).state[x] = IF x \in S THEN "absent" ELSE db.state[x]
      BY <3>1, WithoutIs
    <3> QED BY <2>2, <3>2
  <2>3. /\ Removed \in SUBSET Runs /\ txn.robots \in SUBSET Robots /\ txn.runs \in SUBSET Runs
        /\ \A x \in txn.runs : x \in Removed \/ db.state[x] = "absent"
    BY <2>1 DEF Removed, Rows, FullInv, IInv, TypeOK
  <2>4. \A x \in txn.runs : db'.state[x] = "absent"
    BY <2>1, <2>2, <2>3
  <2> QED BY <2>1, <2>4 DEF ReadInv, Reading
<1>2. CASE LimitsRead
  <2> DEFINE S == RowsIn(db, {"queued"})
  <2>1. /\ step' = "limits_write" /\ UNCHANGED <<backend, db, used, pending>>
        /\ txn' = [op |-> "limits", robots |-> {}, runs |-> S, fila |-> S \cap db.capped]
    BY <1>2 DEF LimitsRead, Goto, NoTxn, site, history
  <2>2. S \subseteq used /\ \A p \in pending : p.run \notin S
    BY DEF RowsIn, FullInv, KnownInv
  <2>3. \A x \in Runs : db.state[x] = "queued" => x \in S
    BY DEF RowsIn
  <2> HIDE DEF S
  <2> QED BY <2>1, <2>2, <2>3 DEF ReadInv, Reading
<1> QED BY <1>1, <1>2

\* Every other step is outside of a transaction of these.
LEMMA ReadElsewhere ==
  ASSUME FullInv,
         \/ PurgeCheck \/ CommitChange \/ Rollback \/ RemoveLogs \/ ImportCheck \/ ImportWrite
         \/ LimitsLock \/ LimitsCheck \/ LimitsBackup \/ LimitsWrite \/ Backup
         \/ Restoring \/ PanelCrash
  PROVE  step' \notin Reading
<1> USE DEF Reading
<1>1. CASE PurgeCheck \/ CommitChange \/ Rollback \/ RemoveLogs \/ ImportCheck \/ ImportWrite
  BY <1>1 DEF PurgeCheck, CommitChange, Rollback, RemoveLogs, ImportCheck, ImportWrite, Goto, End
<1>2. CASE LimitsLock \/ LimitsCheck \/ LimitsBackup \/ LimitsWrite \/ Backup
  BY <1>2 DEF LimitsLock, LimitsCheck, LimitsBackup, LimitsWrite, Backup, Goto, End, panel
<1>3. CASE \/ RestoreCheck \/ SafetyCopy \/ SafetyCopyFails \/ Replace \/ ReplaceFails \/ PutBack
           \/ PutBackFails
  BY <1>3 DEF PutBackFails, RestoreCheck, SafetyCopy, SafetyCopyFails, Replace, ReplaceFails, PutBack, Goto
<1>4. CASE OpenPanel \/ ReadRevision \/ CopyOld \/ Migrate \/ Migrated \/ MigrateFails \/ PanelCrash
  BY <1>4 DEF OpenPanel, ReadRevision, CopyOld, Migrate, Migrated, MigrateFails, PanelCrash, Goto,
     Raise, Succeed, panel
<1> QED BY <1>1, <1>2, <1>3, <1>4 DEF Restoring

\* Every step preserves it.
LEMMA ReadNext ==
  ASSUME FullInv, ReadInv, [Next]_vars
  PROVE  ReadInv'
<1>1. step' \notin Reading => ReadInv'
  BY DEF ReadInv, Reading
<1>2. CASE UNCHANGED vars
  BY <1>2 DEF vars, site, panel, history, ReadInv
<1>3. CASE Next
  BY <1>1, <1>3, ReadExternal, ReadRegistry, ReadGoesOn, ReadElsewhere DEF Next
<1> QED BY <1>2, <1>3

\* What an operation read holds in every reachable state.
LEMMA ReadReachable == Spec => []ReadInv
<1>1. Init => ReadInv
  BY DEF Init, ReadInv, Reading
<1>2. FullInv /\ ReadInv /\ [Next]_vars => ReadInv'
  BY ReadNext
<1> QED BY <1>1, <1>2, Reachable, PTL DEF Spec

\* Directories go only when the rows of their runs are gone.
THEOREM LogsOutliveRows == Spec => RowKeepsLogs
<1>1. FullInv /\ ReadInv /\ [Next]_vars => \A x \in logs \ logs' : db.state[x] = "absent"
  <2> SUFFICES ASSUME FullInv, ReadInv, [Next]_vars, NEW x \in logs \ logs'
               PROVE  db.state[x] = "absent"
    OBVIOUS
  <2>1. CASE External
    BY <2>1, ExternalSession DEF FullInv, IInv
  <2>2. CASE RemoveLogs
    BY <2>2 DEF RemoveLogs, ReadInv
  <2>3. CASE ~External /\ ~RemoveLogs
    BY <2>3, LogsKept
  <2> QED BY <2>1, <2>2, <2>3
<1> QED BY <1>1, Reachable, ReadReachable, PTL DEF Spec, RowKeepsLogs

\* While a transaction of the registry is open there are the steps of the others,
\* its end, and the death of the panel.
LEMMA CommitSteps ==
  ASSUME [Next]_vars, step = "commit", step' # "closed"
  PROVE  External \/ CommitChange \/ CommitRemoval \/ UNCHANGED db
<1>1. ASSUME NEW b \in Robots,
             UpdateRobot(b) \/ RemoveRobot(b) \/ \E a \in BOOLEAN : SetRobotActive(b, a)
      PROVE  UNCHANGED db
  BY <1>1 DEF UpdateRobot, RemoveRobot, SetRobotActive, Begin
<1>2. ASSUME NEW x \in Runs, RemoveRun(x) PROVE UNCHANGED db
  BY <1>2 DEF RemoveRun, Begin
<1>3. CASE \/ ClearAllRobots \/ ClearAllRuns \/ PurgeCheck \/ PurgeSelect
           \/ Rollback \/ RemoveLogs \/ ImportCheck
  BY <1>3 DEF ClearAllRobots, ClearAllRuns, PurgeCheck, PurgeSelect, Begin, Rollback, RemoveLogs,
     ImportCheck
<1>4. CASE LimitsLock \/ LimitsCheck \/ LimitsBackup \/ LimitsRead \/ Backup
  BY <1>4 DEF LimitsLock, LimitsCheck, LimitsBackup, LimitsRead, Backup
<1>5. CASE ImportWrite \/ LimitsWrite \/ Replace \/ PutBack \/ Migrate
  BY <1>5 DEF ImportWrite, LimitsWrite, Replace, PutBack, Migrate, Goto
<1>6. CASE \/ RestoreCheck \/ SafetyCopy \/ SafetyCopyFails \/ ReplaceFails \/ PutBackFails
           \/ OpenPanel \/ PanelCrash
  BY <1>6 DEF PutBackFails, RestoreCheck, SafetyCopy, SafetyCopyFails, ReplaceFails, OpenPanel, PanelCrash
<1>7. CASE ReadRevision \/ CopyOld \/ Migrated \/ MigrateFails
  BY <1>7 DEF ReadRevision, CopyOld, Migrated, MigrateFails
<1>8. CASE UNCHANGED vars
  BY <1>8 DEF vars
<1> QED BY <1>1, <1>2, <1>3, <1>4, <1>5, <1>6, <1>7, <1>8 DEF Next, Restoring

\* On SQLite an active run keeps its row, and its automation stays as it is, while
\* the registry, the retention and the removals commit.
THEOREM ActiveRunsUndisturbed == Spec => RunsUndisturbed
<1>1. FullInv /\ ReadInv /\ [Next]_vars =>
        (backend = "sqlite" /\ step = "commit" /\ step' # "closed" =>
           \A x \in RowsIn(db, Active) :
             /\ x \in Rows(db')
             /\ txn.op # "activate" =>
                  /\ db'.robot[RobotOf[x]] = db.robot[RobotOf[x]]
                  /\ RobotOf[x] \in db'.limited <=> RobotOf[x] \in db.limited)
  <2> SUFFICES ASSUME FullInv, ReadInv, [Next]_vars, backend = "sqlite", step = "commit",
                      step' # "closed", NEW x \in RowsIn(db, Active)
               PROVE  /\ x \in Rows(db')
                      /\ txn.op # "activate" =>
                           /\ db'.robot[RobotOf[x]] = db.robot[RobotOf[x]]
                           /\ RobotOf[x] \in db'.limited <=> RobotOf[x] \in db.limited
    OBVIOUS
  <2>1. x \in Runs /\ db.state[x] \in Active /\ RobotOf[x] \in Robots /\ db \in Contents
    BY RegistryAssumption DEF RowsIn, FullInv, IInv, TypeOK
  <2>2. db.state[x] # "absent" /\ db.state[x] # "final"
    BY <2>1 DEF Active
  <2>3. CASE UNCHANGED db
    BY <2>1, <2>2, <2>3 DEF Rows
  <2>4. CASE External
    <3>1. db' = db
      BY <2>4, OpenTransaction
    <3> QED BY <2>1, <2>2, <3>1 DEF Rows
  <2>5. CASE CommitChange
    <3> DEFINE state(b) == IF txn.op = "update" THEN db.robot[b]
                           ELSE IF txn.op = "activate" THEN "active" ELSE "inactive"
    <3>1. PICK b \in txn.robots, limit \in BOOLEAN : db' = WithRobot(db, b, state(b), limit)
      BY <2>5 DEF CommitChange
    <3>2. b \in Robots /\ state(b) \in RobotStates
      BY <2>1 DEF FullInv, IInv, TypeOK, Contents, RobotStates
    <3> HIDE DEF state
    <3>3. /\ db'.robot = [db.robot EXCEPT ![b] = state(b)] /\ db'.state = db.state
          /\ \A c \in Robots \ {b} : c \in db'.limited <=> c \in db.limited
      BY <2>1, <3>1, <3>2, WithRobotIs
    <3>4. txn.op # "activate" => RobotOf[x] # b
      BY <2>1, <2>5 DEF CommitChange, ReadInv
    <3> QED BY <2>1, <2>2, <3>2, <3>3, <3>4 DEF Rows, Contents
  <2>6. CASE CommitRemoval
    <3>1. /\ txn.op \in {"remove", "clear"} /\ db' = Without(db, Removed, txn.robots)
          /\ Removed \in SUBSET Runs /\ txn.robots \in SUBSET Robots
      BY <2>6 DEF CommitRemoval, Removed, Rows, FullInv, IInv, TypeOK
    <3>2. ASSUME NEW S \in SUBSET Runs, NEW B \in SUBSET Robots, db' = Without(db, S, B)
          PROVE  /\ x \notin S => db'.state[x] = db.state[x]
                 /\ RobotOf[x] \notin B =>
                      /\ db'.robot[RobotOf[x]] = db.robot[RobotOf[x]]
                      /\ RobotOf[x] \in db'.limited <=> RobotOf[x] \in db.limited
      <4>1. db \in Contents
        BY <2>1
      <4>2. \A y \in Runs : Without(db, S, B).state[y] = IF y \in S THEN "absent" ELSE db.state[y]
        BY <4>1, WithoutIs
      <4>3. \A b \in Robots : Without(db, S, B).robot[b] = IF b \in B THEN "absent" ELSE db.robot[b]
        BY <4>1, WithoutIs
      <4>4. Without(db, S, B).limited = db.limited \ B
        BY <4>1, WithoutIs
      <4> QED BY <2>1, <3>2, <4>2, <4>3, <4>4
    <3>3. txn.op = "remove" => x \notin Removed
      BY <2>2 DEF Removed, ReadInv
    <3>4. txn.op # "clear" /\ RobotOf[x] \notin txn.robots
      BY <2>1, <3>1 DEF ReadInv
    <3> HIDE DEF Removed
    <3>5. /\ x \notin Removed => db'.state[x] = db.state[x]
          /\ RobotOf[x] \notin txn.robots =>
               /\ db'.robot[RobotOf[x]] = db.robot[RobotOf[x]]
               /\ RobotOf[x] \in db'.limited <=> RobotOf[x] \in db.limited
      BY <3>1, <3>2
    <3> QED BY <2>1, <2>2, <3>1, <3>3, <3>4, <3>5 DEF Rows
  <2> QED BY <2>3, <2>4, <2>5, <2>6, CommitSteps
<1> QED BY <1>1, Reachable, ReadReachable, PTL DEF Spec, RunsUndisturbed

\* Every limit that is taken from a queued run is in fila.json, and on SQLite
\* none is left.
THEOREM LimitsAreAccounted == Spec => LimitsAccounted
<1>1. FullInv /\ ReadInv /\ [Next]_vars =>
        (step = "limits_write" /\ step' = "idle" =>
           /\ db.capped \ db'.capped \subseteq txn.fila
           /\ backend = "sqlite" =>
                db'.limited = {} /\ db'.capped \cap RowsIn(db', {"queued"}) = {})
  <2> SUFFICES ASSUME FullInv, ReadInv, [Next]_vars, step = "limits_write", step' = "idle"
               PROVE  /\ db.capped \ db'.capped \subseteq txn.fila
                      /\ backend = "sqlite" =>
                           db'.limited = {} /\ db'.capped \cap RowsIn(db', {"queued"}) = {}
    OBVIOUS
  <2>1. LimitsWrite
    <3>1. ~External
      BY ExternalSession DEF FullInv, IInv, panel
    <3>2. ASSUME NEW b \in Robots
          PROVE  ~UpdateRobot(b) /\ ~RemoveRobot(b) /\ \A a \in BOOLEAN : ~SetRobotActive(b, a)
      BY DEF UpdateRobot, RemoveRobot, SetRobotActive, Begin, Goto
    <3>3. ASSUME NEW x \in Runs PROVE ~RemoveRun(x)
      BY DEF RemoveRun, Begin, Goto
    <3>4. /\ ~ClearAllRobots /\ ~ClearAllRuns /\ ~PurgeCheck /\ ~PurgeSelect /\ ~CommitChange
          /\ ~CommitRemoval /\ ~Rollback /\ ~RemoveLogs /\ ~ImportCheck /\ ~ImportWrite
      BY DEF ClearAllRobots, ClearAllRuns, PurgeCheck, PurgeSelect, Begin, Goto, CommitChange,
         CommitRemoval, Rollback, RemoveLogs, ImportCheck, ImportWrite
    <3>5. ~LimitsLock /\ ~LimitsCheck /\ ~LimitsBackup /\ ~LimitsRead /\ ~Backup
      BY DEF LimitsLock, LimitsCheck, LimitsBackup, LimitsRead, Backup, Goto
    <3>6. ~Restoring /\ ~PanelCrash
      BY DEF Restoring, RestoreCheck, SafetyCopy, SafetyCopyFails, Replace, ReplaceFails, PutBack,
         PutBackFails, OpenPanel, ReadRevision, CopyOld, Migrate, Migrated, MigrateFails, PanelCrash, Goto
    <3>7. ~UNCHANGED vars
      BY DEF vars, panel
    <3> QED BY <3>1, <3>2, <3>3, <3>4, <3>5, <3>6, <3>7 DEF Next
  <2>2. db' = Unlimited(db, txn.runs) /\ txn.runs \in SUBSET Runs /\ db \in Contents
    BY <2>1 DEF LimitsWrite, FullInv, IInv, TypeOK
  <2>3. db'.state = db.state /\ db'.limited = {} /\ db'.capped = db.capped \ txn.runs
    BY <2>2, UnlimitedIs
  <2>4. /\ db.capped \cap txn.runs \subseteq txn.fila
        /\ backend = "sqlite" => \A x \in Runs : db.state[x] = "queued" => x \in txn.runs
    BY DEF ReadInv
  <2> QED BY <2>3, <2>4 DEF RowsIn
<1> QED BY <1>1, Reachable, ReadReachable, PTL DEF Spec, LimitsAccounted
-----------------------------------------------------------------------------
(* The way back of a restore. *)

\* The safety copy is made or it is not: SQLite does not leave an empty one.
\* (It may: the run RestoreUnvalidated shows what happens then.)
SafetySound == "safety" \notin Faults

\* A database with all that the check of the restore saw.
Seen(d) == txn.robots \subseteq Registered(d) /\ txn.runs \subseteq Rows(d)

AtHead == {"closed", "putback"} \cup Opening

BackInv ==
  /\ IdleAtHead
  /\ step = "putback" /\ safety = {} => Seen(db) /\ (stranded \/ db.revision = HeadRev)
  /\ step = "restore_replace" => safety # {}
  /\ step \in Opening /\ txn.op = "restore" => safety # {}
  /\ step \in {"restore_safety", "restore_replace"} => Seen(db)
  /\ txn.op = "restore" /\ step # "restore_safety" =>
       \A d \in safety : Seen(d) /\ (stranded \/ d.revision = HeadRev)

\* The operations that are none of a restore or an upgrade.
LEMMA BackElsewhere ==
  ASSUME BackInv, step \notin AtHead, step' \notin Restores \cup Opening, txn'.op # "restore",
         db'.revision = db.revision, UNCHANGED <<safety, stranded>>
  PROVE  BackInv'
BY DEF BackInv, IdleAtHead, AtHead, Restores, Opening

\* The command line and the engine leave the revision, and what was there, alone.
LEMMA BackExternal ==
  ASSUME FullInv, BackInv, External
  PROVE  BackInv'
<1>1. Grows /\ UNCHANGED <<site, panel, files>>
  BY ExternalGrows, ExternalSession DEF FullInv, IInv
<1>2. db'.revision = db.revision /\ UNCHANGED <<step, txn, safety, stranded>>
  BY <1>1, ExternalHistory DEF Grows, panel, files, FullInv, IInv
<1>3. Registered(db) \subseteq Registered(db') /\ Rows(db) \subseteq Rows(db')
  BY <1>1 DEF Grows, Registered, Rows
<1>4. Seen(db) => Seen(db)'
  BY <1>2, <1>3 DEF Seen
<1>5. \A d \in safety : Seen(d) => Seen(d)'
  BY <1>2 DEF Seen
<1> HIDE DEF Seen
<1> QED BY <1>2, <1>4, <1>5 DEF BackInv, IdleAtHead

\* The registry, the import, the limits and the backup.
LEMMA BackRegistry ==
  ASSUME FullInv, BackInv,
         \/ \E b \in Robots : UpdateRobot(b) \/ RemoveRobot(b) \/ \E a \in BOOLEAN : SetRobotActive(b, a)
         \/ \E x \in Runs : RemoveRun(x)
         \/ ClearAllRobots \/ ClearAllRuns \/ PurgeCheck \/ PurgeSelect
         \/ CommitChange \/ CommitRemoval \/ Rollback \/ RemoveLogs
         \/ ImportCheck \/ ImportWrite
         \/ LimitsLock \/ LimitsCheck \/ LimitsBackup \/ LimitsRead \/ LimitsWrite \/ Backup
  PROVE  BackInv'
<1> USE DEF AtHead, Restores, Opening, Goto, files, history
<1>1. ASSUME NEW from \in {"idle", "purge"}, NEW op \in RegistryOps, NEW B, NEW S, Begin(from, op, B, S)
      PROVE  BackInv'
  <2>1. /\ step \notin AtHead /\ step' = "commit" /\ UNCHANGED <<db, safety, stranded>>
        /\ txn' = [op |-> op, robots |-> B, runs |-> S, fila |-> {}]
    BY <1>1 DEF Begin, NoTxn
  <2> QED BY <2>1, BackElsewhere DEF RegistryOps
<1>2. ASSUME NEW b \in Robots, UpdateRobot(b) \/ RemoveRobot(b) \/ \E a \in BOOLEAN : SetRobotActive(b, a)
      PROVE  BackInv'
  BY <1>1, <1>2 DEF UpdateRobot, RemoveRobot, SetRobotActive, RegistryOps
<1>3. ASSUME NEW x \in Runs, RemoveRun(x) PROVE BackInv'
  BY <1>1, <1>3 DEF RemoveRun, RegistryOps
<1>4. CASE ClearAllRobots \/ ClearAllRuns \/ PurgeSelect
  BY <1>1, <1>4 DEF ClearAllRobots, ClearAllRuns, PurgeSelect, RegistryOps
<1>5. CASE CommitChange
  BY <1>5, CommitChangeFits, BackElsewhere DEF CommitChange, End, NoTxn
<1>6. CASE CommitRemoval
  BY <1>6, CommitRemovalFits, BackElsewhere DEF CommitRemoval, End
<1>7. CASE Rollback \/ RemoveLogs
  BY <1>7, BackElsewhere DEF Rollback, RemoveLogs, End, NoTxn
<1>8. CASE ImportWrite
  <2>1. txn' = NoTxn /\ step = "import" /\ step' = "idle" /\ UNCHANGED <<safety, stranded>>
    BY <1>8 DEF ImportWrite, FullInv, OpInv, Bare
  <2> QED BY <1>8, <2>1, ImportWriteFits, BackElsewhere DEF NoTxn
<1>9. CASE PurgeCheck \/ ImportCheck \/ LimitsLock \/ LimitsCheck \/ LimitsBackup \/ Backup
  <2>1. txn' = NoTxn
    BY <1>9 DEF PurgeCheck, ImportCheck, LimitsLock, LimitsCheck, LimitsBackup, Backup, FullInv,
       OpInv, Bare, panel
  <2>2. step \notin AtHead /\ step' \notin Restores \cup Opening /\ UNCHANGED <<db, safety, stranded>>
    BY <1>9 DEF PurgeCheck, ImportCheck, LimitsLock, LimitsCheck, LimitsBackup, Backup, panel
  <2> QED BY <2>1, <2>2, BackElsewhere DEF NoTxn
<1>10. CASE LimitsRead
  BY <1>10, BackElsewhere DEF LimitsRead, NoTxn
<1>11. CASE LimitsWrite
  <2>1. db' = Unlimited(db, txn.runs) /\ txn.runs \in SUBSET Runs /\ db \in Contents
    BY <1>11 DEF LimitsWrite, FullInv, IInv, TypeOK
  <2>2. db'.revision = db.revision
    BY <2>1, UnlimitedIs
  <2> QED BY <1>11, <2>2, BackElsewhere DEF LimitsWrite, End, NoTxn
<1> QED BY <1>2, <1>3, <1>4, <1>5, <1>6, <1>7, <1>8, <1>9, <1>10, <1>11

\* The restore and the upgrade.
LEMMA BackRestoring ==
  ASSUME SafetySound, FullInv, BackInv, Restoring \/ PanelCrash
  PROVE  BackInv'
<1> USE DEF BackInv, IdleAtHead, Opening, Goto, history
<1>1. CASE RestoreCheck
  <2>1. /\ step = "idle" /\ step' = "restore_safety" /\ UNCHANGED <<db, safety, stranded>>
        /\ txn'.robots = Registered(db) /\ txn'.runs = Rows(db)
    BY <1>1 DEF RestoreCheck, NoTxn, files
  <2>2. Seen(db)'
    BY <2>1 DEF Seen
  <2> QED BY <2>1, <2>2
<1>2. CASE SafetyCopy
  <2>1. /\ step = "restore_safety" /\ step' = "restore_replace" /\ UNCHANGED <<db, txn, stranded>>
        /\ safety' = {db}
    BY <1>2 DEF SafetyCopy
  <2>2. Seen(db)' /\ \A d \in safety' : Seen(d)'
    BY <2>1 DEF Seen
  <2> QED BY <2>1, <2>2
<1>3. CASE SafetyCopyFails
  <2>1. /\ step = "restore_safety" /\ step' = "putback" /\ UNCHANGED <<db, txn, stranded>>
        /\ safety = {} /\ safety' = {}
    BY <1>3 DEF SafetyCopyFails, SafetySound
  <2>2. Seen(db)'
    BY <2>1 DEF Seen
  <2> QED BY <2>1, <2>2
<1>4. CASE Replace
  <2>1. /\ step = "restore_replace" /\ step' = "upgrade" /\ UNCHANGED <<txn, safety, stranded>>
    BY <1>4 DEF Replace, files
  <2>2. \A d \in safety : Seen(d) => Seen(d)'
    BY <2>1 DEF Seen
  <2> QED BY <2>1, <2>2 DEF FullInv, OpInv
<1>5. CASE ReplaceFails
  <2>1. /\ step = "restore_replace" /\ step' = "putback" /\ UNCHANGED <<db, txn, safety, stranded>>
    BY <1>5 DEF ReplaceFails, files
  <2>2. \A d \in safety : Seen(d) => Seen(d)'
    BY <2>1 DEF Seen
  <2> QED BY <2>1, <2>2 DEF FullInv, OpInv
<1>6. CASE PutBack
  <2>1. /\ step = "putback" /\ step' = "idle" /\ txn' = NoTxn /\ safety' = {} /\ stranded' = stranded
        /\ db' = IF safety = {} THEN db ELSE CHOOSE d \in safety : TRUE
    BY <1>6 DEF PutBack
  <2>2. stranded \/ db'.revision = HeadRev
    BY <2>1 DEF FullInv, OpInv, Restores
  <2> QED BY <2>1, <2>2 DEF NoTxn
<1>16. CASE PutBackFails
  BY <1>16 DEF PutBackFails, NoTxn
<1>7. CASE OpenPanel
  BY <1>7 DEF OpenPanel, NoTxn, files
<1>8. CASE CopyOld
  <2>1. step = "copy" /\ step' = "migrate" /\ UNCHANGED <<txn, safety, stranded>>
    BY <1>8 DEF CopyOld
  <2>2. \A d \in safety : Seen(d) => Seen(d)'
    BY <2>1 DEF Seen
  <2> QED BY <2>1, <2>2
<1>9. CASE Migrate
  <2>1. step = "migrate" /\ UNCHANGED <<step, txn, safety, stranded>>
    BY <1>9 DEF Migrate, panel, files
  <2>2. \A d \in safety : Seen(d) => Seen(d)'
    BY <2>1 DEF Seen
  <2> QED BY <2>1, <2>2
<1>10. CASE (ReadRevision /\ Succeed) \/ Migrated
  <2>1. step' = "idle" /\ txn' = NoTxn /\ safety' \subseteq safety
    BY <1>10 DEF Migrated, Succeed
  <2>2. db'.revision = HeadRev
    BY <1>10 DEF ReadRevision, Migrated, Succeed, Raise
  <2> QED BY <2>1, <2>2 DEF NoTxn
<1>11. CASE ReadRevision /\ step' = "copy"
  <2>1. step = "upgrade" /\ UNCHANGED <<txn, safety, stranded>>
    BY <1>11 DEF ReadRevision, Succeed, Raise
  <2>2. \A d \in safety : Seen(d) => Seen(d)'
    BY <2>1 DEF Seen
  <2> QED BY <1>11, <2>1, <2>2
<1>12. CASE (ReadRevision \/ MigrateFails) /\ Raise
  <2>1. step \in Opening /\ UNCHANGED <<safety, stranded>>
    BY <1>12 DEF ReadRevision, MigrateFails, Raise
  <2>2. CASE txn.op = "restore"
    <3>1. step' = "putback" /\ txn' = txn
      BY <1>12, <2>2 DEF Raise
    <3>2. \A d \in safety : Seen(d) => Seen(d)'
      BY <3>1 DEF Seen
    <3> QED BY <2>1, <2>2, <3>1, <3>2
  <2>3. CASE txn.op # "restore"
    <3>1. step' = "closed" /\ txn' = NoTxn
      BY <1>12, <2>3 DEF Raise
    <3> QED BY <2>1, <3>1 DEF NoTxn
  <2> QED BY <2>2, <2>3
<1>13. CASE PanelCrash
  BY <1>13 DEF PanelCrash, NoTxn
<1>14. ReadRevision => (ReadRevision /\ Succeed) \/ (ReadRevision /\ step' = "copy") \/ (ReadRevision /\ Raise)
  BY DEF ReadRevision
<1>15. MigrateFails => Raise
  BY DEF MigrateFails
<1> QED BY <1>1, <1>2, <1>3, <1>4, <1>5, <1>6, <1>7, <1>8, <1>9, <1>10, <1>11, <1>12, <1>13, <1>14,
           <1>15, <1>16 DEF Restoring

\* Every step preserves it.
LEMMA BackNext ==
  ASSUME SafetySound, FullInv, BackInv, [Next]_vars
  PROVE  BackInv'
<1>1. CASE UNCHANGED vars
  BY <1>1 DEF vars, panel, files, history, BackInv, IdleAtHead, Seen
<1>2. CASE Next
  BY <1>2, BackExternal, BackRegistry, BackRestoring DEF Next
<1> QED BY <1>1, <1>2

\* There is a way back in every reachable state, as long as the copy is sound.
LEMMA BackReachable == SafetySound => (Spec => []BackInv)
<1> SUFFICES ASSUME SafetySound PROVE Spec => []BackInv
  OBVIOUS
<1>1. Init => BackInv
  BY DEF Init, BackInv, IdleAtHead, Opening, NoTxn
<1>2. FullInv /\ BackInv /\ [Next]_vars => BackInv'
  BY BackNext
<1> QED BY <1>1, <1>2, Reachable, PTL DEF Spec

\* An idle panel has a database of the newest revision, whatever was restored,
\* failed or was cut short, unless SQLite left an empty safety copy or a put-back
\* raised: these are the only two ways to an idle panel on another revision.
THEOREM IdleIsAtHead == SafetySound => (Spec => []IdleAtHead)
<1> SUFFICES ASSUME SafetySound PROVE Spec => []IdleAtHead
  OBVIOUS
<1>1. BackInv => IdleAtHead
  BY DEF BackInv
<1> QED BY <1>1, BackReachable, PTL

\* A restore that fails gives back what its check saw: a put-back that does not
\* raise finds in the safety copy, or still in the database, all that the check saw.
THEOREM FailedRestoreGivesBack == SafetySound => (Spec => FailedRestoreKeepsRows)
<1> SUFFICES ASSUME SafetySound PROVE Spec => FailedRestoreKeepsRows
  OBVIOUS
<1>1. FullInv /\ BackInv /\ [Next]_vars =>
        (step = "putback" /\ step' = "idle" /\ ~PutBackFails =>
           txn.robots \subseteq Registered(db') /\ txn.runs \subseteq Rows(db'))
  <2> SUFFICES ASSUME FullInv, BackInv, [Next]_vars, step = "putback", step' = "idle",
                      ~PutBackFails
               PROVE  txn.robots \subseteq Registered(db') /\ txn.runs \subseteq Rows(db')
    OBVIOUS
  <2>1. PutBack
    <3>1. ~External
      BY ExternalSession DEF FullInv, IInv, panel
    <3>2. ASSUME NEW b \in Robots
          PROVE  ~UpdateRobot(b) /\ ~RemoveRobot(b) /\ \A a \in BOOLEAN : ~SetRobotActive(b, a)
      BY DEF UpdateRobot, RemoveRobot, SetRobotActive, Begin, Goto
    <3>3. ASSUME NEW x \in Runs PROVE ~RemoveRun(x)
      BY DEF RemoveRun, Begin, Goto
    <3>4. /\ ~ClearAllRobots /\ ~ClearAllRuns /\ ~PurgeCheck /\ ~PurgeSelect /\ ~CommitChange
          /\ ~CommitRemoval /\ ~Rollback /\ ~RemoveLogs /\ ~ImportCheck /\ ~ImportWrite
      BY DEF ClearAllRobots, ClearAllRuns, PurgeCheck, PurgeSelect, Begin, Goto, CommitChange,
         CommitRemoval, Rollback, RemoveLogs, ImportCheck, ImportWrite
    <3>5. /\ ~LimitsLock /\ ~LimitsCheck /\ ~LimitsBackup /\ ~LimitsRead /\ ~LimitsWrite /\ ~Backup
      BY DEF LimitsLock, LimitsCheck, LimitsBackup, LimitsRead, LimitsWrite, Backup, Goto
    <3>6. /\ ~RestoreCheck /\ ~SafetyCopy /\ ~SafetyCopyFails /\ ~Replace /\ ~ReplaceFails
          /\ ~OpenPanel /\ ~ReadRevision /\ ~CopyOld /\ ~Migrate /\ ~Migrated /\ ~MigrateFails
          /\ ~PanelCrash
      BY DEF RestoreCheck, SafetyCopy, SafetyCopyFails, Replace, ReplaceFails, OpenPanel,
         ReadRevision, CopyOld, Migrate, Migrated, MigrateFails, PanelCrash, Goto
    <3>7. ~UNCHANGED vars
      BY DEF vars, panel
    <3> QED BY <3>1, <3>2, <3>3, <3>4, <3>5, <3>6, <3>7 DEF Next, Restoring
  <2>2. db' = IF safety = {} THEN db ELSE CHOOSE d \in safety : TRUE
    BY <2>1 DEF PutBack
  <2>3. txn.op = "restore"
    BY DEF FullInv, OpInv, Restores
  <2>4. CASE safety = {}
    BY <2>2, <2>4 DEF BackInv, Seen
  <2>5. CASE safety # {}
    <3>1. db' \in safety
      BY <2>2, <2>5
    <3> QED BY <2>3, <3>1 DEF BackInv, Seen
  <2> QED BY <2>4, <2>5
<1> QED BY <1>1, Reachable, BackReachable, PTL DEF Spec, FailedRestoreKeepsRows
-----------------------------------------------------------------------------
(* Before a database is migrated it is copied. *)

CopyInv == backend = "sqlite" /\ step = "migrate" => \E r \in copies : r <= db.revision

\* Every step preserves it.
LEMMA CopyNext ==
  ASSUME FullInv, CopyInv, [Next]_vars
  PROVE  CopyInv'
<1>1. db.revision \in Nat /\ HeadRev \in Nat /\ copies \subseteq Nat
  BY RegistryAssumption DEF FullInv, IInv, TypeOK, Contents
<1>2. CASE External
  BY <1>2, ExternalGrows, ExternalSession
     DEF FullInv, IInv, Grows, site, panel, files, CopyInv
<1>3. CASE CopyOld
  BY <1>1, <1>3 DEF CopyOld, CopyInv, Goto, site
<1>4. CASE Migrate
  <2> DEFINE n == IF backend = "sqlite" THEN db.revision + 1 ELSE HeadRev
  <2>1. step = "migrate" /\ UNCHANGED <<backend, step, copies>> /\ db' = [db EXCEPT !.revision = n]
    BY <1>4 DEF Migrate, site, panel, files
  <2>2. n \in 0..HeadRev /\ (backend = "sqlite" => n = db.revision + 1)
    BY <1>1, <1>4 DEF Migrate
  <2> HIDE DEF n
  <2>3. db \in Contents
    BY DEF FullInv, IInv, TypeOK
  <2>4. db'.revision = n
    BY <2>1, <2>2, <2>3, RevisionIs
  <2>5. ASSUME backend = "sqlite" PROVE \E r \in copies : r <= db'.revision
    <3>1. PICK r \in copies : r <= db.revision
      BY <2>1, <2>5 DEF CopyInv
    <3>2. r \in Nat /\ db'.revision = db.revision + 1
      BY <1>1, <2>2, <2>4, <2>5
    <3> QED BY <1>1, <3>1, <3>2
  <2> QED BY <2>1, <2>5 DEF CopyInv
<1>5. CASE UNCHANGED vars
  BY <1>5 DEF vars, site, panel, files, CopyInv
<1>6. CASE Next /\ ~External /\ ~CopyOld /\ ~Migrate
  <2>1. ASSUME NEW from, NEW op, NEW B, NEW S, Begin(from, op, B, S) PROVE step' # "migrate"
    BY <2>1 DEF Begin, Goto
  <2>2. ASSUME NEW b \in Robots, UpdateRobot(b) \/ RemoveRobot(b) \/ \E a \in BOOLEAN : SetRobotActive(b, a)
        PROVE  step' # "migrate"
    BY <2>1, <2>2 DEF UpdateRobot, RemoveRobot, SetRobotActive
  <2>3. ASSUME NEW x \in Runs, RemoveRun(x) PROVE step' # "migrate"
    BY <2>1, <2>3 DEF RemoveRun
  <2>4. ASSUME ClearAllRobots \/ ClearAllRuns \/ PurgeSelect
        PROVE  step' # "migrate"
    BY <2>1, <2>4 DEF ClearAllRobots, ClearAllRuns, PurgeSelect
  <2>5. ASSUME \/ PurgeCheck \/ CommitChange \/ CommitRemoval \/ Rollback \/ RemoveLogs
               \/ ImportCheck \/ ImportWrite
        PROVE  step' # "migrate"
    BY <2>5 DEF PurgeCheck, CommitChange, CommitRemoval, Rollback, RemoveLogs, ImportCheck,
       ImportWrite, Goto, End
  <2>6. ASSUME LimitsLock \/ LimitsCheck \/ LimitsBackup \/ LimitsRead \/ LimitsWrite \/ Backup
        PROVE  step' # "migrate"
    BY <2>6 DEF LimitsLock, LimitsCheck, LimitsBackup, LimitsRead, LimitsWrite, Backup, Goto, End,
       panel
  <2>7. ASSUME RestoreCheck \/ SafetyCopy \/ SafetyCopyFails \/ Replace \/ ReplaceFails \/ PutBack \/ PutBackFails
        PROVE  step' # "migrate"
    BY <2>7 DEF PutBackFails, RestoreCheck, SafetyCopy, SafetyCopyFails, Replace, ReplaceFails, PutBack, Goto
  <2>8. ASSUME OpenPanel \/ ReadRevision \/ Migrated \/ MigrateFails \/ PanelCrash
        PROVE  step' # "migrate"
    BY <2>8 DEF OpenPanel, ReadRevision, Migrated, MigrateFails, PanelCrash, Goto, Raise, Succeed
  <2>9. step' # "migrate"
    BY <1>6, <2>2, <2>3, <2>4, <2>5, <2>6, <2>7, <2>8 DEF Next, Restoring
  <2> QED BY <2>9 DEF CopyInv
<1> QED BY <1>2, <1>3, <1>4, <1>5, <1>6

\* On SQLite a copy no newer than the database exists whenever a migration runs,
\* through every failure and every restore of an older backup.
THEOREM CopiedBeforeMigration == Spec => CopyBeforeMigration
<1>1. Init => CopyInv
  BY DEF Init, CopyInv
<1>2. FullInv /\ CopyInv /\ [Next]_vars => CopyInv'
  BY CopyNext
<1>3. CopyInv =>
        (backend = "sqlite" /\ step = "migrate" /\ db'.revision # db.revision
           => \E r \in copies : r <= db.revision)
  BY DEF CopyInv
<1> QED BY <1>1, <1>2, <1>3, Reachable, PTL DEF Spec, CopyBeforeMigration
=============================================================================
