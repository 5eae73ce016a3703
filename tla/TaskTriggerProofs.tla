------------------------- MODULE TaskTriggerProofs -------------------------
(***************************************************************************)
(* The scheduled task, proved for every set of threads and intervals: the  *)
(* type and the panel, what the panel reports, and the trigger that a      *)
(* migration by itself does not lose when at most one call fails.          *)
(***************************************************************************)
EXTENDS TaskTrigger, TLAPS

\* What a call does at each of its steps, and that a definition is registered
\* once it was exported.
CallOf(t) ==
  /\ th[t].at \in {"old", "new", "export", "silence", "register", "verify", "unregister",
                   "drop", "dropped", "revive", "migrated"} => th[t].op # "remove"
  /\ th[t].at \in {"create", "created"} => th[t].op = "install"
  /\ th[t].at \in {"delete", "delete_old", "unlink"} => th[t].op = "remove"
  /\ th[t].at \in {"old", "new", "export"} => th[t].xml = "absent"
  /\ th[t].at = "register" => th[t].xml # "absent"

CallInv == \A t \in Busy : CallOf(t)

FullInv == IInv /\ CallInv

\* How far an installation or a removal that runs alone has got.
MadeBy(t) ==
  /\ th[t].at \in {"create", "created", "ok"} => runner = "shown"
  /\ th[t].at \in {"created", "ok"} => new = "enabled" /\ every = th[t].minutes
  /\ th[t].at = "ok" => saved = th[t].minutes

GoneBy(t) ==
  /\ th[t].at = "delete_old" /\ ~th[t].failed => new = "absent"
  /\ th[t].at \in {"unlink", "ok"} => old = "absent" /\ new = "absent"
  /\ th[t].at = "ok" => runner = "none"

SilentFor(t) ==
  th[t].at \in {"register", "verify", "unregister", "migrated", "create", "created", "ok"}
    => old # "enabled"

AloneOf(t) ==
  /\ th[t].op = "install" => MadeBy(t)
  /\ th[t].op = "remove" => GoneBy(t)
  /\ th[t].op # "remove" => SilentFor(t)

AloneInv == \A t \in Busy : th[t].alone => AloneOf(t)

\* What a migration that runs alone knows of the two tasks.
KnownBy(t) ==
  /\ th[t].at \in {"new", "export", "silence", "register", "verify", "unregister", "drop",
                   "dropped", "revive"} => old # "absent"
  /\ th[t].at \in {"export", "register"} => new = "absent"
  /\ th[t].at = "silence" => (th[t].xml = "absent" <=> new # "absent")
  /\ th[t].at \in {"verify", "unregister"} => new # "absent"
  /\ th[t].at \in {"drop", "dropped", "revive"} => failures = MaxFailures

\* Where the trigger that was alive when it began is.
AliveFor(t) ==
  /\ th[t].at \in {"old", "new", "export", "silence"} => Alive
  /\ th[t].at = "register" \/ (th[t].at = "silence" /\ th[t].xml # "absent")
       => th[t].xml = "enabled"
  /\ th[t].at \in {"verify", "unregister", "migrated"} => new = "enabled"

MigrationOf(t) == th[t].op # "remove" => KnownBy(t) /\ (th[t].live => AliveFor(t))

MigrationInv == \A t \in Busy : th[t].alone => MigrationOf(t)

TriggerInv == FullInv /\ AloneInv /\ MigrationInv

\* At most one call of the scheduler or of the file system fails while there is
\* a call of the panel in progress; there may be any number of these.
OneFailure == MaxFailures <= 1
-----------------------------------------------------------------------------
(* What a step does to the calls. *)

Calls == [op : {"none", "open", "install", "remove"}, at : Steps, xml : Task,
          minutes : Intervals \cup {0}, failed : BOOLEAN, left : BOOLEAN, alone : BOOLEAN,
          live : BOOLEAN]

\* No call begins or ends, and only t goes on.
Keeps(t) ==
  /\ th' \in [Threads -> Calls] /\ Busy' = Busy
  /\ \A u \in Threads :
       /\ th'[u].op = th[u].op /\ th'[u].minutes = th[u].minutes
       /\ th'[u].left = th[u].left
       /\ th'[u].alone = th[u].alone /\ th'[u].live = th[u].live
       /\ u # t => th'[u] = th[u]

Advance(t, step) ==
  Keeps(t) /\ th'[t].at = step /\ th'[t].xml = th[t].xml /\ th'[t].failed = th[t].failed

\* A call that goes on to its next step changes nothing else of it.
LEMMA GoesOn ==
  ASSUME TypeOK, NEW t \in Threads, NEW step \in Steps, Goto(t, step)
  PROVE  Advance(t, step)
<1> DEFINE c == [th[t] EXCEPT !.at = step]
<1>1. th \in [Threads -> Calls] /\ th[t] \in Calls
  BY DEF TypeOK, Calls
<1>2. /\ c \in Calls /\ c.at = step /\ c.op = th[t].op /\ c.xml = th[t].xml
      /\ c.minutes = th[t].minutes /\ c.failed = th[t].failed /\ c.left = th[t].left
      /\ c.alone = th[t].alone /\ c.live = th[t].live
  BY <1>1 DEF Calls
<1>3. th' = [th EXCEPT ![t] = c]
  BY DEF Goto
<1> HIDE DEF c
<1>4. th'[t] = c /\ \A u \in Threads : u # t => th'[u] = th[u]
  BY <1>1, <1>3
<1>5. th' \in [Threads -> Calls]
  BY <1>1, <1>2, <1>3
<1>6. Busy' = Busy
  BY <1>2, <1>4 DEF Busy
<1> QED BY <1>2, <1>4, <1>5, <1>6 DEF Advance, Keeps

\* The other two forms of going on: with the exported state, or with a failure noted.
LEMMA GoesOnWith ==
  ASSUME TypeOK, NEW t \in Threads, NEW step \in Steps, NEW x \in Task, NEW f \in BOOLEAN,
         \/ th' = [th EXCEPT ![t].xml = x, ![t].at = step] /\ f = th[t].failed
         \/ th' = [th EXCEPT ![t].at = step, ![t].failed = f] /\ x = th[t].xml
  PROVE  Keeps(t) /\ th'[t].at = step /\ th'[t].xml = x /\ th'[t].failed = f
<1> DEFINE c == [th EXCEPT ![t].xml = x, ![t].at = step]
           d == [th EXCEPT ![t].at = step, ![t].failed = f]
<1>1. th \in [Threads -> Calls] /\ th[t] \in Calls
  BY DEF TypeOK, Calls
<1>2. ASSUME f = th[t].failed
      PROVE  /\ c \in [Threads -> Calls] /\ c[t].at = step /\ c[t].xml = x /\ c[t].failed = f
             /\ c[t].op = th[t].op /\ c[t].minutes = th[t].minutes
             /\ c[t].left = th[t].left /\ c[t].alone = th[t].alone /\ c[t].live = th[t].live
             /\ \A u \in Threads : u # t => c[u] = th[u]
  BY <1>1, <1>2 DEF Calls
<1>3. ASSUME x = th[t].xml
      PROVE  /\ d \in [Threads -> Calls] /\ d[t].at = step /\ d[t].xml = x /\ d[t].failed = f
             /\ d[t].op = th[t].op /\ d[t].minutes = th[t].minutes
             /\ d[t].left = th[t].left /\ d[t].alone = th[t].alone /\ d[t].live = th[t].live
             /\ \A u \in Threads : u # t => d[u] = th[u]
  BY <1>1, <1>3 DEF Calls
<1>4. (th' = c /\ f = th[t].failed) \/ (th' = d /\ x = th[t].xml)
  OBVIOUS
<1> HIDE DEF c, d
<1>5. /\ th' \in [Threads -> Calls] /\ th'[t].at = step /\ th'[t].xml = x /\ th'[t].failed = f
      /\ th'[t].op = th[t].op /\ th'[t].minutes = th[t].minutes
      /\ th'[t].left = th[t].left /\ th'[t].alone = th[t].alone /\ th'[t].live = th[t].live
      /\ \A u \in Threads : u # t => th'[u] = th[u]
  BY <1>2, <1>3, <1>4
<1> QED BY <1>5 DEF Keeps, Busy

\* A call that begins is alone if no other is in progress, and no other is
\* alone any more.
Enters(t, op, minutes, step) ==
  /\ th' \in [Threads -> Calls] /\ t \notin Busy /\ Busy' = Busy \cup {t}
  /\ th'[t].op = op /\ th'[t].at = step /\ th'[t].xml = "absent"
  /\ th'[t].minutes = minutes /\ ~th'[t].failed /\ ~th'[t].left
  /\ th'[t].alone <=> Busy = {}
  /\ th'[t].live <=> Busy = {} /\ Alive
  /\ \A u \in Threads : u # t =>
       /\ th'[u].op = th[u].op /\ th'[u].at = th[u].at /\ th'[u].xml = th[u].xml
       /\ th'[u].minutes = th[u].minutes /\ th'[u].left = th[u].left
       /\ th'[u].alone => th[u].op = "none"

LEMMA Enter ==
  ASSUME TypeOK, NEW t \in Threads, NEW op \in {"open", "install", "remove"}, NEW step \in Steps,
         NEW m \in Intervals \cup {0}, Begin(t, op, m, step)
  PROVE  Enters(t, op, m, step)
<1> DEFINE none == Busy = {}
           alive == Busy = {} /\ Alive
           c == [Idle EXCEPT !.op = op, !.at = step, !.minutes = m, !.alone = none, !.live = alive]
           d(u) == IF th[u].op = "none" THEN th[u] ELSE [th[u] EXCEPT !.alone = FALSE, !.live = FALSE]
<1>1. th \in [Threads -> Calls] /\ \A u \in Threads : th[u] \in Calls
  BY DEF TypeOK, Calls
<1>2. /\ c \in Calls /\ c.op = op /\ c.at = step /\ c.xml = "absent" /\ c.minutes = m
      /\ c.failed = FALSE /\ c.left = FALSE /\ c.alone = none /\ c.live = alive
  <2>1. none \in BOOLEAN /\ alive \in BOOLEAN
    OBVIOUS
  <2> HIDE DEF none, alive
  <2> QED BY <2>1 DEF Calls, Task, Idle
<1>3. \A u \in Threads : /\ d(u) \in Calls /\ d(u).op = th[u].op /\ d(u).at = th[u].at
                         /\ d(u).xml = th[u].xml /\ d(u).minutes = th[u].minutes
                         /\ d(u).left = th[u].left /\ (d(u).alone => th[u].op = "none")
  BY <1>1 DEF Calls
<1>4. th[t].op = "none" /\ th' = [u \in Threads |-> IF u = t THEN c ELSE d(u)]
  BY DEF Begin
<1> HIDE DEF c, d
<1>5. th'[t] = c /\ \A u \in Threads : u # t => th'[u] = d(u)
  BY <1>4
<1>7. th' \in [Threads -> Calls]
  BY <1>2, <1>3, <1>4
<1>8. t \notin Busy /\ Busy' = Busy \cup {t}
  BY <1>2, <1>3, <1>4, <1>5 DEF Busy
<1> QED BY <1>2, <1>3, <1>5, <1>7, <1>8 DEF Enters

\* A call that ends leaves the others as they are; the last one, no failures.
Leaves(t) ==
  /\ th' \in [Threads -> Calls] /\ Busy' = Busy \ {t}
  /\ failures' = failures \/ (Busy' = {} /\ failures' = 0)
  /\ \A u \in Threads : u # t => th'[u] = th[u]

LEMMA Leave ==
  ASSUME TypeOK, NEW t \in Threads, Done(t)
  PROVE  Leaves(t)
<1>1. th \in [Threads -> Calls] /\ Idle \in Calls /\ Idle.op = "none"
  BY DEF TypeOK, Calls, Idle, Task, Steps
<1>2. th' \in [Threads -> Calls] /\ th'[t] = Idle /\ \A u \in Threads : u # t => th'[u] = th[u]
  BY <1>1 DEF Done
<1>3. failures' = failures \/ (Busy' = {} /\ failures' = 0)
  BY DEF Done, Counted
<1> QED BY <1>1, <1>2, <1>3 DEF Leaves, Busy
-----------------------------------------------------------------------------
(* The type, the panel and the steps of the calls. *)

DataOK ==
  /\ old \in Task /\ new \in Task /\ every \in Intervals \cup {0}
  /\ runner \in {"none", "hidden", "shown"} /\ kept \in BOOLEAN /\ saved \in Intervals \cup {0}
  /\ panel \in {"closed", "starting", "open"}
  /\ shown \in [installed : BOOLEAN, minutes : Intervals]
  /\ failures \in 0..MaxFailures

LEMMA Typed == TypeOK <=> DataOK /\ th \in [Threads -> Calls]
BY DEF TypeOK, DataOK, Calls

\* A step of one call keeps the invariant if it keeps the data's types and
\* the interval of the new task.
LEMMA OnStep ==
  ASSUME FullInv, NEW t \in Busy, Keeps(t), panel' = panel, DataOK', CallOf(t)',
         every' = 0 <=> new' = "absent"
  PROVE  FullInv'
<1>1. TypeOK'
  BY Typed DEF TypeOK, DataOK, Calls, Keeps
<1>2. PanelInv'
  BY DEF FullInv, IInv, PanelInv, Keeps, Busy
<1>3. CallInv'
  BY DEF FullInv, CallInv, CallOf, Keeps, Busy
<1> QED BY <1>1, <1>2, <1>3 DEF FullInv, IInv

\* The calls of the scheduler fail at most MaxFailures times.
LEMMA FailureIs ==
  ASSUME TypeOK, NEW t \in Threads, NEW step \in Steps, Fails(t, step)
  PROVE  Advance(t, step) /\ failures' = failures + 1 /\ failures' \in 0..MaxFailures
         /\ failures < MaxFailures
<1>1. failures < MaxFailures /\ failures' = failures + 1 /\ Goto(t, step)
  BY DEF Fails
<1>2. failures \in 0..MaxFailures /\ MaxFailures \in Nat
  BY TaskTriggerAssumption DEF TypeOK
<1> QED BY <1>1, <1>2, GoesOn

\* Every step of a migration keeps the invariant.
LEMMA MigrateFull ==
  ASSUME FullInv, NEW t \in Threads, Migrate(t)
  PROVE  FullInv'
<1> USE DEF Task
<1>1. TypeOK /\ DataOK /\ t \in Busy /\ CallOf(t)
  BY Typed DEF FullInv, IInv, CallInv, Migrate, GetOld, GetNew, Export, Silence, Register,
     Verify, Unregister, DisableNew, UnregisterNew, Revive, At, Busy
<1>2. 0 \notin Intervals /\ OldDefault \in Intervals /\ (every = 0 <=> new = "absent")
  BY TaskTriggerAssumption DEF FullInv, IInv, PanelInv
<1>3. \A s \in Steps : Goto(t, s) => Advance(t, s)
  BY <1>1, GoesOn
<1>4. \A s \in Steps : Fails(t, s) => Advance(t, s) /\ failures' \in 0..MaxFailures
  BY <1>1, FailureIs
<1>5. ASSUME NEW s \in Steps, Advance(t, s),
             s \in {"new", "export", "silence", "verify", "unregister", "drop", "dropped",
                    "revive", "migrated", "error"},
             s = "new" => th[t].at = "old", s = "export" => th[t].at = "new",
             th[t].op # "remove"
      PROVE  Keeps(t) /\ CallOf(t)'
  BY <1>1, <1>5 DEF Advance, CallOf, Keeps
<1>6. th[t].op # "remove"
  BY <1>1 DEF CallOf, Migrate, GetOld, GetNew, Export, Silence, Register,
     Verify, Unregister, DisableNew, UnregisterNew, Revive, At
<1>7. SUFFICES Keeps(t) /\ CallOf(t)' /\ panel' = panel /\ DataOK' /\ (every' = 0 <=> new' = "absent")
  BY <1>1, OnStep
<1> USE DEF Steps
<1>8. CASE GetOld(t)
  <2>1. Advance(t, "migrated") \/ Advance(t, "new")
    BY <1>3, <1>8 DEF GetOld
  <2> QED BY <1>1, <1>2, <1>5, <1>6, <1>8, <2>1 DEF GetOld, At, DataOK, tasks, files
<1>9. CASE GetNew(t)
  <2>1. Advance(t, "export") \/ Advance(t, "silence")
    BY <1>3, <1>9 DEF GetNew
  <2> QED BY <1>1, <1>2, <1>5, <1>6, <1>9, <2>1 DEF GetNew, At, DataOK, tasks, files
<1>10. CASE Export(t)
  <2>1. CASE th' = [th EXCEPT ![t].xml = old, ![t].at = "silence"] /\ UNCHANGED failures
    <3>1. old \in Task /\ th[t].failed \in BOOLEAN
      BY <1>1 DEF DataOK, TypeOK
    <3>2. Keeps(t) /\ th'[t].at = "silence"
      BY <1>1, <2>1, <3>1, GoesOnWith
    <3>3. CallOf(t)'
      BY <1>6, <3>2 DEF CallOf, Keeps
    <3> QED BY <1>1, <1>2, <1>10, <2>1, <3>2, <3>3 DEF Export, DataOK, tasks, files
  <2>2. CASE Fails(t, "error")
    BY <1>1, <1>2, <1>4, <1>5, <1>6, <1>10, <2>2 DEF Export, DataOK, tasks, files
  <2>3. CASE Goto(t, "error") /\ UNCHANGED failures
    BY <1>1, <1>2, <1>3, <1>5, <1>6, <1>10, <2>3 DEF Export, DataOK, tasks, files
  <2> QED BY <1>10, <2>1, <2>2, <2>3 DEF Export
<1>11. CASE Silence(t)
  <2>1. CASE old' = "disabled" /\ UNCHANGED failures
             /\ Goto(t, IF th[t].xml = "absent" THEN "unregister" ELSE "register")
    <3>1. CASE th[t].xml = "absent"
      BY <1>1, <1>2, <1>3, <1>5, <1>6, <1>11, <2>1, <3>1 DEF Silence, DataOK, files
    <3>2. CASE th[t].xml # "absent"
      <4>1. Advance(t, "register")
        BY <1>3, <2>1, <3>2
      <4>2. Keeps(t) /\ CallOf(t)'
        BY <1>6, <3>2, <4>1 DEF Advance, CallOf, Keeps
      <4> QED BY <1>1, <1>2, <1>11, <2>1, <4>2 DEF Silence, DataOK, files
    <3> QED BY <3>1, <3>2
  <2>2. CASE Fails(t, "error") /\ UNCHANGED old
    BY <1>1, <1>2, <1>4, <1>5, <1>6, <1>11, <2>2 DEF Silence, DataOK, files
  <2>3. CASE Goto(t, "error") /\ UNCHANGED <<old, failures>>
    BY <1>1, <1>2, <1>3, <1>5, <1>6, <1>11, <2>3 DEF Silence, DataOK, files
  <2> QED BY <1>11, <2>1, <2>2, <2>3 DEF Silence
<1>12. CASE Register(t)
  <2>1. CASE new' = th[t].xml /\ every' = OldDefault /\ Goto(t, "verify") /\ UNCHANGED failures
    <3>1. th[t].xml \in Task /\ th[t].xml # "absent"
      BY <1>1, <1>12 DEF Register, At, CallOf, TypeOK
    <3> QED BY <1>1, <1>2, <1>3, <1>5, <1>6, <1>12, <2>1, <3>1 DEF Register, DataOK, files
  <2>2. CASE Fails(t, "drop") /\ UNCHANGED <<new, every>>
    BY <1>1, <1>2, <1>4, <1>5, <1>6, <1>12, <2>2 DEF Register, DataOK, files
  <2>3. CASE Goto(t, "drop") /\ UNCHANGED <<new, every, failures>>
    BY <1>1, <1>2, <1>3, <1>5, <1>6, <1>12, <2>3 DEF Register, DataOK, files
  <2> QED BY <1>12, <2>1, <2>2, <2>3 DEF Register
<1>13. CASE Verify(t)
  BY <1>1, <1>2, <1>3, <1>4, <1>5, <1>6, <1>13 DEF Verify, DataOK, tasks, files
<1>14. CASE Unregister(t)
  BY <1>1, <1>2, <1>3, <1>4, <1>5, <1>6, <1>14 DEF Unregister, DataOK, files
<1>15. CASE DisableNew(t)
  BY <1>1, <1>2, <1>3, <1>4, <1>5, <1>6, <1>15 DEF DisableNew, DataOK, files
<1>16. CASE UnregisterNew(t)
  BY <1>1, <1>2, <1>3, <1>4, <1>5, <1>6, <1>16 DEF UnregisterNew, DataOK, files
<1>17. CASE Revive(t)
  BY <1>1, <1>2, <1>3, <1>4, <1>5, <1>6, <1>17 DEF Revive, DataOK, files
<1> QED BY <1>8, <1>9, <1>10, <1>11, <1>12, <1>13, <1>14, <1>15, <1>16, <1>17 DEF Migrate

\* So does every step of an installation or of a removal, and the runner that
\* the constructor rewrites.
Works(t) ==
  \/ ShowWindow(t) \/ NothingToShow(t) \/ WriteRunner(t) \/ CreateTask(t) \/ SaveInterval(t)
  \/ DeleteNew(t) \/ DeleteOld(t) \/ Unlink(t)

LEMMA WorksFull ==
  ASSUME FullInv, NEW t \in Threads, Works(t)
  PROVE  FullInv'
<1> USE DEF Task
<1>1. TypeOK /\ DataOK /\ t \in Busy /\ CallOf(t)
  BY Typed DEF FullInv, IInv, CallInv, Works, ShowWindow, NothingToShow, WriteRunner, CreateTask,
     SaveInterval, DeleteNew, DeleteOld, Unlink, At, Busy
<1>2. /\ 0 \notin Intervals /\ (every = 0 <=> new = "absent")
      /\ th[t].op = "install" => th[t].minutes # 0
      /\ th[t].minutes \in Intervals \cup {0}
  BY <1>1, TaskTriggerAssumption DEF FullInv, IInv, PanelInv, TypeOK
<1>3. \A s \in Steps : Goto(t, s) => Advance(t, s)
  BY <1>1, GoesOn
<1>4. \A s \in Steps : Fails(t, s) => Advance(t, s) /\ failures' \in 0..MaxFailures
  BY <1>1, FailureIs
<1>5. ASSUME NEW s \in Steps, Keeps(t), th'[t].at = s,
             \/ s \in {"ok", "error"}
             \/ s \in {"create", "created"} /\ th[t].op = "install"
             \/ s \in {"delete_old", "unlink"} /\ th[t].op = "remove"
      PROVE  CallOf(t)'
  BY <1>5 DEF CallOf, Keeps
<1>6. SUFFICES Keeps(t) /\ CallOf(t)' /\ panel' = panel /\ DataOK' /\ (every' = 0 <=> new' = "absent")
  BY <1>1, OnStep
<1> USE DEF Steps
<1>7. CASE ShowWindow(t)
  BY <1>1, <1>2, <1>3, <1>4, <1>5, <1>7 DEF ShowWindow, DataOK, tasks, Advance
<1>8. CASE NothingToShow(t)
  BY <1>1, <1>2, <1>3, <1>5, <1>8 DEF NothingToShow, DataOK, tasks, files, Advance
<1>9. CASE WriteRunner(t)
  BY <1>1, <1>2, <1>3, <1>4, <1>5, <1>9 DEF WriteRunner, DataOK, tasks, Advance
<1>10. CASE CreateTask(t)
  <2>1. th[t].op = "install" /\ th[t].minutes \in Intervals
    BY <1>1, <1>2, <1>10 DEF CallOf, CreateTask, At
  <2> QED BY <1>1, <1>2, <1>3, <1>4, <1>5, <1>10, <2>1 DEF CreateTask, DataOK, files, Advance
<1>11. CASE SaveInterval(t)
  BY <1>1, <1>2, <1>3, <1>4, <1>5, <1>11 DEF SaveInterval, DataOK, tasks, Advance
<1>12. CASE DeleteNew(t)
  <2>1. th[t].op = "remove"
    BY <1>1, <1>12 DEF CallOf, DeleteNew, At
  <2>2. CASE new' = "absent" /\ every' = 0 /\ Goto(t, "delete_old") /\ UNCHANGED failures
    BY <1>1, <1>2, <1>3, <1>5, <1>12, <2>1, <2>2 DEF DeleteNew, DataOK, files, Advance
  <2>3. CASE /\ failures < MaxFailures /\ failures' = failures + 1 /\ UNCHANGED <<new, every>>
             /\ th' = [th EXCEPT ![t].at = "delete_old", ![t].failed = TRUE]
    <3>1. failures' \in 0..MaxFailures
      BY <1>1, <2>3, TaskTriggerAssumption DEF DataOK
    <3>2. th[t].xml \in Task
      BY <1>1 DEF TypeOK
    <3>3. Keeps(t) /\ th'[t].at = "delete_old"
      BY <1>1, <2>3, <3>2, GoesOnWith
    <3>4. CallOf(t)'
      BY <1>5, <2>1, <3>3
    <3> QED BY <1>1, <1>2, <1>12, <2>3, <3>1, <3>3, <3>4 DEF DeleteNew, DataOK, files
  <2> QED BY <1>12, <2>2, <2>3 DEF DeleteNew
<1>13. CASE DeleteOld(t)
  <2>1. th[t].op = "remove"
    BY <1>1, <1>13 DEF CallOf, DeleteOld, At
  <2> QED BY <1>1, <1>2, <1>3, <1>4, <1>5, <1>13, <2>1 DEF DeleteOld, DataOK, files, Advance
<1>14. CASE Unlink(t)
  BY <1>1, <1>2, <1>3, <1>4, <1>5, <1>14 DEF Unlink, DataOK, tasks, Advance
<1> QED BY <1>7, <1>8, <1>9, <1>10, <1>11, <1>12, <1>13, <1>14 DEF Works

\* A call that begins, or ends, keeps the invariant too.
Begins(t) == Open(t) \/ Remove(t) \/ \E i \in Intervals : Install(t, i)

LEMMA BeginsFull ==
  ASSUME FullInv, NEW t \in Threads, Begins(t)
  PROVE  FullInv'
<1>1. TypeOK /\ DataOK /\ PanelInv /\ 0 \notin Intervals
  BY Typed, TaskTriggerAssumption DEF FullInv, IInv
<1>2. PICK op \in {"open", "install", "remove"}, m \in Intervals \cup {0}, s \in {"old", "delete"} :
        /\ Enters(t, op, m, s) /\ UNCHANGED <<tasks, files, shown, failures>>
        /\ op = "install" => m # 0 /\ s = "old"
        /\ op = "remove" <=> s = "delete"
        /\ IF op = "open" THEN panel = "closed" /\ panel' = "starting"
                          ELSE panel = "open" /\ panel' = panel
  <2> USE DEF Steps
  <2>1. CASE Open(t)
    BY <1>1, <2>1, Enter DEF Open
  <2>2. CASE Remove(t)
    BY <1>1, <2>2, Enter DEF Remove
  <2>3. ASSUME NEW i \in Intervals, Install(t, i)
        PROVE  Enters(t, "install", i, "old") /\ UNCHANGED <<tasks, files, panel, shown, failures>>
               /\ panel = "open"
    BY <1>1, <2>3, Enter DEF Install
  <2> QED BY <1>1, <2>1, <2>2, <2>3 DEF Begins
<1>3. TypeOK'
  BY <1>1, <1>2, Typed DEF Enters, TypeOK, DataOK, Calls, tasks, files
<1>4. CallInv'
  BY <1>1, <1>2 DEF Enters, CallInv, CallOf, Busy, FullInv
<1>5. PanelInv'
  <2>1. Busy' = Busy \cup {t} /\ t \notin Busy /\ th'[t].op = op /\ th'[t].minutes = m
        /\ ~th'[t].left /\ (th'[t].alone <=> Busy = {})
    BY <1>2 DEF Enters
  <2>2. \A u \in Busy : /\ u # t /\ th'[u].op = th[u].op /\ th'[u].minutes = th[u].minutes
                        /\ th'[u].left = th[u].left /\ ~th'[u].alone
    BY <1>2, <2>1 DEF Enters, Busy
  <2>3. every' = every /\ new' = new
    BY <1>2 DEF tasks
  <2>4. CASE op = "open"
    BY <1>1, <1>2, <2>1, <2>2, <2>3, <2>4 DEF PanelInv
  <2>5. CASE op # "open"
    BY <1>1, <1>2, <2>1, <2>2, <2>3, <2>5 DEF PanelInv
  <2> QED BY <2>4, <2>5
<1> QED BY <1>3, <1>4, <1>5 DEF FullInv, IInv

Ends(t) == Opened(t) \/ Installed(t) \/ Removed(t) \/ Raised(t)

\* What the end of a call leaves: the tasks, the files and the other calls.
LEMMA EndIs ==
  ASSUME FullInv, NEW t \in Threads, Ends(t)
  PROVE  /\ t \in Busy /\ Leaves(t) /\ UNCHANGED <<tasks, files>>
         /\ IF th[t].op = "open" /\ ~th[t].left THEN panel' \in {"open", "closed"} ELSE panel' = panel
<1> QED BY Leave DEF FullInv, IInv, Ends, Opened, Installed, Removed, Raised, At, Busy

LEMMA EndsFull ==
  ASSUME FullInv, NEW t \in Threads, Ends(t)
  PROVE  FullInv'
<1>1. TypeOK /\ DataOK /\ PanelInv /\ CallInv
  BY Typed DEF FullInv, IInv
<1>2. /\ t \in Busy /\ Leaves(t) /\ UNCHANGED <<tasks, files>>
      /\ IF th[t].op = "open" /\ ~th[t].left THEN panel' \in {"open", "closed"} ELSE panel' = panel
  BY EndIs
<1>3. shown' \in [installed : BOOLEAN, minutes : Intervals]
  <2>1. saved \in Intervals \cup {0} /\ OldDefault \in Intervals /\ Default \in Intervals
        /\ shown \in [installed : BOOLEAN, minutes : Intervals]
    BY <1>1, TaskTriggerAssumption DEF DataOK
  <2>2. CASE UNCHANGED shown
    BY <2>1, <2>2
  <2>3. CASE Opened(t) /\ Show(new # "absent", saved_task_interval(new # "absent"))
    <3> DEFINE here == new # "absent"
    <3>1. here \in BOOLEAN
      OBVIOUS
    <3>2. saved_task_interval(here) \in Intervals
      BY <2>1 DEF saved_task_interval
    <3>3. shown' = [installed |-> here, minutes |-> saved_task_interval(here)]
      BY <2>3 DEF Show
    <3> HIDE DEF here
    <3> QED BY <3>1, <3>2, <3>3
  <2>4. CASE Installed(t) /\ Show(TRUE, th[t].minutes)
    <3>1. th[t].op = "install" /\ th[t].minutes \in Intervals
      BY <1>1, <2>4, <1>2 DEF Installed, PanelInv, TypeOK, Busy
    <3> QED BY <2>4, <3>1 DEF Show
  <2>5. CASE Removed(t) /\ Show(FALSE, shown.minutes)
    BY <2>1, <2>5 DEF Show
  <2> QED BY <2>2, <2>3, <2>4, <2>5 DEF Ends, Opened, Installed, Removed, Raised
<1>4. TypeOK'
  <2>1. failures' \in 0..MaxFailures /\ panel' \in {"closed", "starting", "open"}
    BY <1>1, <1>2, TaskTriggerAssumption DEF Leaves, DataOK
  <2>2. DataOK'
    BY <1>1, <1>2, <1>3, <2>1 DEF DataOK, tasks, files
  <2> QED BY <1>2, <2>2, Typed DEF Leaves, TypeOK, DataOK, Calls
<1>5. CallInv'
  BY <1>1, <1>2 DEF Leaves, CallInv, CallOf, Busy
<1>6. PanelInv'
  <2>1. Busy' = Busy \ {t} /\ \A u \in Busy' : th'[u] = th[u]
    BY <1>2 DEF Leaves, Busy
  <2>2. every' = every /\ new' = new
    BY <1>2 DEF tasks
  <2>3. CASE th[t].op = "open" /\ ~th[t].left
    <3>1. panel = "starting" /\ \A u \in Busy' : th[u].left
      BY <1>1, <1>2, <2>1, <2>3 DEF PanelInv
    <3> QED BY <1>1, <1>2, <2>1, <2>2, <2>3, <3>1 DEF PanelInv
  <2>4. CASE ~(th[t].op = "open" /\ ~th[t].left)
    <3>1. panel' = panel
      BY <1>2, <2>4
    <3> QED BY <1>1, <2>1, <2>2, <2>4, <3>1 DEF PanelInv
  <2> QED BY <2>3, <2>4
<1> QED BY <1>4, <1>5, <1>6 DEF FullInv, IInv

\* Every step is one of five kinds.
LEMMA StepIs ==
  ASSUME Next
  PROVE  Close \/ UserToggles
         \/ \E t \in Threads : Migrate(t) \/ Works(t) \/ Begins(t) \/ Ends(t)
BY DEF Next, Works, Begins, Ends

\* The calls that a closed window leaves behind are as they were.
CloseIs ==
  /\ th' \in [Threads -> Calls] /\ Busy' \subseteq Busy
  /\ \A u \in Busy' :
       /\ th'[u].op = th[u].op /\ th'[u].at = th[u].at /\ th'[u].xml = th[u].xml
       /\ th'[u].minutes = th[u].minutes /\ th'[u].failed = th[u].failed
       /\ th'[u].alone = th[u].alone /\ th'[u].live = th[u].live /\ th'[u].left
  /\ failures' = failures \/ (Busy' = {} /\ failures' = 0)
  /\ panel' = "closed" /\ UNCHANGED <<tasks, files>>

LEMMA ClosedCalls ==
  ASSUME TypeOK, Close
  PROVE  CloseIs
<1> DEFINE e(u) == [th[u] EXCEPT !.left = TRUE]
<1>1. PICK S \in SUBSET Busy : th' = [u \in Threads |-> IF u \in S THEN e(u) ELSE Idle]
  BY DEF Close
<1>2. Idle \in Calls /\ Idle.op = "none"
  BY DEF Calls, Idle, Steps, Task
<1>3. \A u \in Threads :
        /\ e(u) \in Calls /\ e(u).op = th[u].op /\ e(u).at = th[u].at /\ e(u).xml = th[u].xml
        /\ e(u).minutes = th[u].minutes /\ e(u).failed = th[u].failed
        /\ e(u).alone = th[u].alone /\ e(u).live = th[u].live /\ e(u).left = TRUE
  BY DEF TypeOK, Calls
<1> HIDE DEF e
<1>4. \A u \in Threads : IF u \in S THEN th'[u] = e(u) ELSE th'[u] = Idle
  BY <1>1
<1>5. th' \in [Threads -> Calls]
  BY <1>1, <1>2, <1>3
<1>6. Busy' = S
  BY <1>1, <1>2, <1>3, <1>4 DEF Busy
<1>7. S \subseteq Threads
  BY DEF Busy
<1>8. failures' = failures \/ (Busy' = {} /\ failures' = 0)
  BY DEF Close, Counted
<1> QED BY <1>3, <1>4, <1>5, <1>6, <1>7, <1>8 DEF CloseIs, Close

LEMMA FullStep == FullInv /\ [Next]_vars => FullInv'
<1> SUFFICES ASSUME FullInv, [Next]_vars PROVE FullInv'
  OBVIOUS
<1>1. DataOK /\ TypeOK /\ PanelInv /\ CallInv
  BY Typed DEF FullInv, IInv
<1>2. CASE Close
  <2>1. CloseIs
    BY <1>1, <1>2, ClosedCalls
  <2>2. DataOK'
    <3>1. shown' \in [installed : BOOLEAN, minutes : Intervals]
      BY <1>2, TaskTriggerAssumption DEF Close, Nothing
    <3>2. failures' \in 0..MaxFailures
      BY <1>1, <2>1, TaskTriggerAssumption DEF CloseIs, DataOK
    <3> QED BY <1>1, <2>1, <3>1, <3>2 DEF CloseIs, DataOK, tasks, files
  <2>3. PanelInv'
    BY <1>1, <2>1 DEF CloseIs, PanelInv, tasks
  <2>4. CallInv'
    BY <1>1, <2>1 DEF CloseIs, CallInv, CallOf, Busy
  <2> QED BY <2>1, <2>2, <2>3, <2>4, Typed DEF CloseIs, FullInv, IInv, TypeOK, DataOK, Calls
<1>3. CASE UserToggles
  <2>1. new # "absent" /\ new' \in {"enabled", "disabled"} /\ th' = th /\ every' = every /\ panel' = panel
    BY <1>3 DEF UserToggles
  <2>2. DataOK'
    BY <1>1, <1>3 DEF UserToggles, DataOK, files, Task
  <2>3. PanelInv' /\ CallInv'
    BY <1>1, <2>1 DEF PanelInv, CallInv, CallOf, Busy
  <2> QED BY <1>1, <2>1, <2>2, <2>3, Typed DEF FullInv, IInv, TypeOK, DataOK, Calls
<1>4. CASE UNCHANGED vars
  BY <1>4 DEF vars, tasks, files, FullInv, IInv, TypeOK, PanelInv, CallInv, CallOf, Busy
<1>5. CASE \E t \in Threads : Migrate(t) \/ Works(t) \/ Begins(t) \/ Ends(t)
  BY <1>5, MigrateFull, WorksFull, BeginsFull, EndsFull
<1> QED BY <1>2, <1>3, <1>4, <1>5, StepIs

LEMMA FullInit == Init => FullInv
<1> SUFFICES ASSUME Init PROVE FullInv
  OBVIOUS
<1>1. Idle \in Calls /\ Busy = {} /\ th \in [Threads -> Calls]
  BY DEF Init, Busy, Idle, Calls, Steps, Task
<1>2. DataOK
  <2>1. shown \in [installed : BOOLEAN, minutes : Intervals] /\ every \in Intervals \cup {0}
    BY TaskTriggerAssumption DEF Init, Nothing
  <2>2. saved \in Intervals \cup {0} /\ failures \in 0..MaxFailures
    BY TaskTriggerAssumption DEF Init
  <2>3. old \in Task /\ new \in Task /\ runner \in {"none", "hidden", "shown"} /\ kept \in BOOLEAN
        /\ panel \in {"closed", "starting", "open"}
    BY DEF Init
  <2> QED BY <2>1, <2>2, <2>3 DEF DataOK
<1>3. PanelInv /\ CallInv
  BY <1>1, TaskTriggerAssumption DEF Init, PanelInv, CallInv
<1> QED BY <1>1, <1>2, <1>3, Typed DEF FullInv, IInv

LEMMA FullAlways == Spec => []FullInv
BY FullInit, FullStep, PTL DEF Spec

\* The calls of the panel keep to their types, and one that the panel still waits
\* for keeps to its window: a constructor to one that is starting, and alone
\* there; a click to one that is open. Only calls whose window is gone may
\* overlap either, and a call that another has overlapped is never taken for one
\* that ran alone.
THEOREM TaskTriggerInvariant == Spec => []IInv
BY FullAlways, PTL DEF FullInv
-----------------------------------------------------------------------------
(* What the panel reports. *)

\* A step of one call is seen by the calls that run alone if it is theirs.
LEMMA AloneOnStep ==
  ASSUME FullInv, AloneInv, NEW t \in Busy, Keeps(t), th[t].alone => AloneOf(t)'
  PROVE  AloneInv'
<1> SUFFICES ASSUME NEW u \in Busy', th'[u].alone PROVE AloneOf(u)'
  BY DEF AloneInv
<1>1. u \in Busy /\ th[u].alone
  BY DEF Keeps, Busy
<1>2. u = t
  BY <1>1 DEF FullInv, IInv, PanelInv
<1> QED BY <1>1, <1>2

\* A call that works is in progress, and goes on.
LEMMA WorkerIs ==
  ASSUME FullInv, NEW t \in Threads, Migrate(t) \/ Works(t)
  PROVE  TypeOK /\ t \in Busy /\ CallOf(t) /\ Keeps(t) /\ panel' = panel
<1>1. TypeOK /\ t \in Busy /\ CallOf(t)
  BY DEF FullInv, IInv, CallInv, Works, ShowWindow, NothingToShow, WriteRunner, CreateTask,
     SaveInterval, DeleteNew, DeleteOld, Unlink, Migrate, GetOld, GetNew, Export, Silence, Register,
     Verify, Unregister, DisableNew, UnregisterNew, Revive, At, Busy
<1>2. old \in Task /\ th[t].xml \in Task /\ th[t].failed \in BOOLEAN
  BY <1>1 DEF TypeOK
<1>3. \A s \in Steps : Goto(t, s) => Keeps(t)
  BY <1>1, GoesOn DEF Advance
<1>4. \A s \in Steps : Fails(t, s) => Keeps(t)
  BY <1>3 DEF Fails
<1> USE DEF Steps
<1>5. ASSUME GetOld(t) \/ GetNew(t) PROVE Keeps(t) /\ panel' = panel
  BY <1>3, <1>5 DEF GetOld, GetNew
<1>6. ASSUME Export(t) PROVE Keeps(t) /\ panel' = panel
  <2>1. ASSUME th' = [th EXCEPT ![t].xml = old, ![t].at = "silence"] PROVE Keeps(t)
    BY <1>1, <1>2, <2>1, GoesOnWith
  <2> QED BY <1>3, <1>4, <1>6, <2>1 DEF Export
<1>7. ASSUME Silence(t) PROVE Keeps(t) /\ panel' = panel
  BY <1>3, <1>4, <1>7 DEF Silence
<1>8. ASSUME Register(t) \/ Verify(t) \/ Unregister(t) PROVE Keeps(t) /\ panel' = panel
  BY <1>3, <1>4, <1>8 DEF Register, Verify, Unregister
<1>9. ASSUME DisableNew(t) \/ UnregisterNew(t) \/ Revive(t) PROVE Keeps(t) /\ panel' = panel
  BY <1>3, <1>4, <1>9 DEF DisableNew, UnregisterNew, Revive
<1>10. ASSUME ShowWindow(t) \/ NothingToShow(t) \/ WriteRunner(t) PROVE Keeps(t) /\ panel' = panel
  BY <1>3, <1>4, <1>10 DEF ShowWindow, NothingToShow, WriteRunner
<1>11. ASSUME CreateTask(t) \/ SaveInterval(t) PROVE Keeps(t) /\ panel' = panel
  BY <1>3, <1>4, <1>11 DEF CreateTask, SaveInterval
<1>12. ASSUME DeleteNew(t) PROVE Keeps(t) /\ panel' = panel
  <2>1. ASSUME th' = [th EXCEPT ![t].at = "delete_old", ![t].failed = TRUE] PROVE Keeps(t)
    BY <1>1, <1>2, <2>1, GoesOnWith
  <2> QED BY <1>3, <1>12, <2>1 DEF DeleteNew
<1>13. ASSUME DeleteOld(t) \/ Unlink(t) PROVE Keeps(t) /\ panel' = panel
  BY <1>3, <1>4, <1>13 DEF DeleteOld, Unlink
<1> QED BY <1>1, <1>5, <1>6, <1>7, <1>8, <1>9, <1>10, <1>11, <1>12, <1>13 DEF Migrate, Works

LEMMA MigrateAlone ==
  ASSUME FullInv, AloneInv, NEW t \in Threads, Migrate(t)
  PROVE  AloneInv'
<1>1. TypeOK /\ t \in Busy /\ CallOf(t) /\ Keeps(t)
  BY WorkerIs
<1>2. \A s \in Steps : Goto(t, s) => th'[t].at = s
  BY <1>1, GoesOn DEF Advance
<1>3. th[t].op # "remove" /\ th'[t].op = th[t].op
  BY <1>1 DEF Keeps, CallOf, Migrate, GetOld, GetNew, Export, Silence, Register,
     Verify, Unregister, DisableNew, UnregisterNew, Revive, At
<1>4. SUFFICES ASSUME th[t].alone
               PROVE  th'[t].at \notin {"create", "created", "ok"} /\ SilentFor(t)'
  BY <1>1, <1>3, AloneOnStep DEF AloneOf, MadeBy
<1>5. SilentFor(t)
  BY <1>1, <1>3, <1>4 DEF AloneInv, AloneOf
<1> USE DEF Steps, SilentFor
<1>6. CASE GetOld(t) \/ GetNew(t)
  BY <1>2, <1>6 DEF GetOld, GetNew, tasks
<1>7. CASE Export(t)
  <2>1. ASSUME th' = [th EXCEPT ![t].xml = old, ![t].at = "silence"] PROVE th'[t].at = "silence"
    BY <1>1, <2>1, GoesOnWith DEF TypeOK
  <2> QED BY <1>2, <1>7, <2>1 DEF Export, Fails
<1>8. CASE Silence(t)
  BY <1>2, <1>8 DEF Silence, Fails
<1>9. CASE Register(t) \/ Verify(t) \/ Unregister(t)
  BY <1>2, <1>5, <1>9 DEF Register, Verify, Unregister, Fails, At, tasks
<1>10. CASE DisableNew(t) \/ UnregisterNew(t) \/ Revive(t)
  BY <1>2, <1>10 DEF DisableNew, UnregisterNew, Revive, Fails
<1> QED BY <1>6, <1>7, <1>8, <1>9, <1>10 DEF Migrate

LEMMA WorksAlone ==
  ASSUME FullInv, AloneInv, NEW t \in Threads, Works(t)
  PROVE  AloneInv'
<1>1. TypeOK /\ t \in Busy /\ CallOf(t) /\ Keeps(t)
  BY WorkerIs
<1>2. \A s \in Steps : Goto(t, s) => th'[t].at = s /\ th'[t].failed = th[t].failed
  BY <1>1, GoesOn DEF Advance
<1>3. th'[t].op = th[t].op /\ th'[t].minutes = th[t].minutes
  BY <1>1 DEF Keeps
<1>4. SUFFICES ASSUME th[t].alone PROVE AloneOf(t)'
  BY <1>1, AloneOnStep
<1>5. AloneOf(t)
  BY <1>1, <1>4 DEF AloneInv
<1> USE DEF Steps, AloneOf, SilentFor, MadeBy, GoneBy
<1>6. CASE ShowWindow(t) \/ NothingToShow(t)
  BY <1>2, <1>3, <1>5, <1>6 DEF ShowWindow, NothingToShow, Fails, At, tasks
<1>7. CASE WriteRunner(t)
  BY <1>2, <1>3, <1>5, <1>7 DEF WriteRunner, Fails, At, tasks
<1>8. CASE CreateTask(t)
  <2>1. th[t].op = "install"
    BY <1>1, <1>8 DEF CreateTask, At, CallOf
  <2> QED BY <1>2, <1>3, <1>5, <1>8, <2>1 DEF CreateTask, Fails, At, files
<1>9. CASE SaveInterval(t)
  <2>1. th[t].op = "install"
    BY <1>1, <1>9 DEF SaveInterval, At, CallOf
  <2> QED BY <1>2, <1>3, <1>5, <1>9, <2>1 DEF SaveInterval, Fails, At, tasks
<1>10. CASE DeleteNew(t)
  <2>1. th[t].op = "remove"
    BY <1>1, <1>10 DEF DeleteNew, At, CallOf
  <2>2. CASE new' = "absent" /\ Goto(t, "delete_old")
    BY <1>2, <1>3, <1>5, <2>1, <2>2
  <2>3. CASE th' = [th EXCEPT ![t].at = "delete_old", ![t].failed = TRUE]
    <3>1. th'[t].at = "delete_old" /\ th'[t].failed
      BY <1>1, <2>3, GoesOnWith DEF TypeOK
    <3> QED BY <1>3, <2>1, <3>1
  <2> QED BY <1>10, <2>2, <2>3 DEF DeleteNew
<1>11. CASE DeleteOld(t)
  <2>1. th[t].op = "remove"
    BY <1>1, <1>11 DEF DeleteOld, At, CallOf
  <2> QED BY <1>2, <1>3, <1>5, <1>11, <2>1 DEF DeleteOld, Fails, At
<1>12. CASE Unlink(t)
  <2>1. th[t].op = "remove"
    BY <1>1, <1>12 DEF Unlink, At, CallOf
  <2> QED BY <1>2, <1>3, <1>5, <1>12, <2>1 DEF Unlink, Fails, At, tasks
<1> QED BY <1>6, <1>7, <1>8, <1>9, <1>10, <1>11, <1>12 DEF Works

\* A call that begins knows nothing yet, and the others are not alone.
LEMMA BeginIs ==
  ASSUME FullInv, NEW t \in Threads, Begins(t)
  PROVE  /\ t \notin Busy /\ Busy' = Busy \cup {t} /\ UNCHANGED <<tasks, files, shown, failures>>
         /\ (th'[t].op = "remove" /\ th'[t].at = "delete") \/ (th'[t].op # "remove" /\ th'[t].at = "old")
         /\ th'[t].live => Alive
         /\ \A u \in Busy : /\ ~th'[u].alone /\ th'[u].op = th[u].op /\ th'[u].at = th[u].at
                            /\ th'[u].xml = th[u].xml
         /\ panel' = panel \/ (panel = "closed" /\ panel' = "starting")
<1>1. TypeOK
  BY DEF FullInv, IInv
<1>2. PICK op \in {"open", "install", "remove"}, m \in Intervals \cup {0}, s \in {"old", "delete"} :
        /\ Enters(t, op, m, s) /\ UNCHANGED <<tasks, files, shown, failures>>
        /\ op = "remove" <=> s = "delete"
        /\ panel' = panel \/ (panel = "closed" /\ panel' = "starting")
  <2> USE DEF Steps
  <2>1. CASE Open(t)
    BY <1>1, <2>1, Enter DEF Open
  <2>2. CASE Remove(t)
    BY <1>1, <2>2, Enter DEF Remove
  <2>3. ASSUME NEW i \in Intervals, Install(t, i)
        PROVE  Enters(t, "install", i, "old") /\ UNCHANGED <<tasks, files, panel, shown, failures>>
    BY <1>1, <2>3, Enter DEF Install
  <2> QED BY <2>1, <2>2, <2>3 DEF Begins
<1> QED BY <1>2 DEF Enters, Busy

LEMMA AloneStep == FullInv /\ AloneInv /\ [Next]_vars => AloneInv'
<1> SUFFICES ASSUME FullInv, AloneInv, [Next]_vars PROVE AloneInv'
  OBVIOUS
<1>1. CASE Close
  <2>1. CloseIs
    BY <1>1, ClosedCalls DEF FullInv, IInv
  <2> QED BY <2>1 DEF CloseIs, AloneInv, AloneOf, MadeBy, GoneBy, SilentFor, tasks, files
<1>2. CASE UserToggles
  <2>1. Busy' = {}
    BY <1>2 DEF UserToggles, Busy
  <2> QED BY <2>1 DEF AloneInv
<1>3. CASE UNCHANGED vars
  BY <1>3 DEF vars, tasks, files, AloneInv, AloneOf, MadeBy, GoneBy, SilentFor, Busy
<1>4. ASSUME NEW t \in Threads, Begins(t) PROVE AloneInv'
  <2>1. \A u \in Busy' : u # t => ~th'[u].alone
    BY <1>4, BeginIs
  <2>2. AloneOf(t)'
    BY <1>4, BeginIs DEF AloneOf, MadeBy, GoneBy, SilentFor
  <2> QED BY <2>1, <2>2 DEF AloneInv
<1>5. ASSUME NEW t \in Threads, Ends(t) PROVE AloneInv'
  <2>1. UNCHANGED <<tasks, files>> /\ \A u \in Busy' : u \in Busy /\ th'[u] = th[u]
    BY <1>5, EndIs DEF Leaves, Busy
  <2> QED BY <2>1 DEF AloneInv, AloneOf, MadeBy, GoneBy, SilentFor, tasks, files
<1> QED BY <1>1, <1>2, <1>3, <1>4, <1>5, MigrateAlone, WorksAlone, StepIs

LEMMA AloneAlways == Spec => [](FullInv /\ AloneInv)
<1>1. Init => FullInv /\ AloneInv
  BY FullInit DEF Init, AloneInv, Busy, Idle
<1> QED BY <1>1, FullStep, AloneStep, PTL DEF Spec

\* What the panel reports of a call that ran alone is so, whatever fails.
THEOREM ReportsHold == Spec => ReportsAreTrue
<1>1. FullInv /\ AloneInv /\ [Next]_vars =>
        [\A t \in Threads : th[t].alone =>
           /\ Installed(t) => /\ new = "enabled" /\ old # "enabled" /\ runner = "shown"
                              /\ every = th[t].minutes /\ saved = every
           /\ Removed(t) => old = "absent" /\ new = "absent" /\ runner = "none"]_vars
  <2> SUFFICES ASSUME FullInv, AloneInv, NEW t \in Threads, th[t].alone
               PROVE  /\ Installed(t) => /\ new = "enabled" /\ old # "enabled" /\ runner = "shown"
                                         /\ every = th[t].minutes /\ saved = every
                      /\ Removed(t) => old = "absent" /\ new = "absent" /\ runner = "none"
    OBVIOUS
  <2>1. t \in Busy => AloneOf(t)
    BY DEF AloneInv
  <2> QED BY <2>1 DEF Installed, Removed, At, Busy, AloneOf, MadeBy, GoneBy, SilentFor
<1> QED BY <1>1, AloneAlways, PTL DEF Spec, ReportsAreTrue
-----------------------------------------------------------------------------
(* The trigger that a migration keeps. *)

\* A step of one call is seen by the migrations that run alone if it is theirs.
LEMMA MigrationOnStep ==
  ASSUME FullInv, MigrationInv, NEW t \in Busy, Keeps(t), th[t].alone => MigrationOf(t)'
  PROVE  MigrationInv'
<1> SUFFICES ASSUME NEW u \in Busy', th'[u].alone PROVE MigrationOf(u)'
  BY DEF MigrationInv
<1>1. u \in Busy /\ th[u].alone
  BY DEF Keeps, Busy
<1>2. u = t
  BY <1>1 DEF FullInv, IInv, PanelInv
<1> QED BY <1>1, <1>2

\* One failure is all of them.
LEMMA LastFailure ==
  ASSUME OneFailure, TypeOK, failures < MaxFailures
  PROVE  failures + 1 = MaxFailures
BY TaskTriggerAssumption DEF OneFailure, TypeOK

\* What a step of a migration that runs alone makes of what it knows.
LEMMA MigrateMigration ==
  ASSUME OneFailure, TriggerInv, NEW t \in Threads, Migrate(t)
  PROVE  MigrationInv'
<1>1. TypeOK /\ t \in Busy /\ CallOf(t) /\ Keeps(t) /\ FullInv
  BY WorkerIs DEF TriggerInv
<1>2. \A s \in Steps : Goto(t, s) => th'[t].at = s /\ th'[t].xml = th[t].xml
  BY <1>1, GoesOn DEF Advance
<1>3. \A s \in Steps : Fails(t, s) => th'[t].at = s /\ th'[t].xml = th[t].xml /\ failures' = MaxFailures
                                      /\ failures # MaxFailures
  <2>1. failures < MaxFailures => failures # MaxFailures
    BY <1>1, TaskTriggerAssumption DEF TypeOK
  <2> QED BY <1>1, <1>2, <2>1, LastFailure DEF Fails
<1>4. /\ th[t].op # "remove" /\ th'[t].op = th[t].op /\ th'[t].live = th[t].live
      /\ th'[t].alone = th[t].alone
  BY <1>1 DEF Keeps, CallOf, Migrate, GetOld, GetNew, Export, Silence, Register,
     Verify, Unregister, DisableNew, UnregisterNew, Revive, At
<1>5. SUFFICES ASSUME th[t].alone PROVE KnownBy(t)' /\ (th[t].live => AliveFor(t)')
  BY <1>1, <1>4, MigrationOnStep DEF MigrationOf, TriggerInv
<1>6. KnownBy(t) /\ (th[t].live => AliveFor(t)) /\ old \in Task /\ new \in Task
  BY <1>1, <1>4, <1>5 DEF TriggerInv, MigrationInv, MigrationOf, TypeOK
<1> USE DEF Steps, KnownBy, AliveFor, Alive, Task
<1>7. CASE GetOld(t)
  BY <1>2, <1>6, <1>7 DEF GetOld, At, tasks
<1>8. CASE GetNew(t)
  <2>1. th[t].xml = "absent"
    BY <1>1, <1>8 DEF CallOf, GetNew, At
  <2> QED BY <1>2, <1>6, <1>8, <2>1 DEF GetNew, At, tasks
<1>9. CASE Export(t)
  <2>1. ASSUME th' = [th EXCEPT ![t].xml = old, ![t].at = "silence"]
        PROVE  th'[t].at = "silence" /\ th'[t].xml = old
    BY <1>1, <2>1, GoesOnWith DEF TypeOK
  <2> QED BY <1>2, <1>3, <1>6, <1>9, <2>1 DEF Export, At, tasks
<1>10. CASE Silence(t)
  BY <1>2, <1>3, <1>6, <1>10 DEF Silence, At
<1>11. CASE Register(t)
  BY <1>1, <1>2, <1>3, <1>6, <1>11 DEF Register, At, CallOf
<1>12. CASE Verify(t)
  BY <1>2, <1>3, <1>6, <1>12 DEF Verify, At, tasks
<1>13. CASE Unregister(t)
  BY <1>2, <1>3, <1>6, <1>13 DEF Unregister, At
<1>14. CASE DisableNew(t) \/ UnregisterNew(t) \/ Revive(t)
  BY <1>2, <1>3, <1>6, <1>14 DEF DisableNew, UnregisterNew, Revive, At
<1> QED BY <1>7, <1>8, <1>9, <1>10, <1>11, <1>12, <1>13, <1>14 DEF Migrate

\* A migration is over when the other steps of its call come, and no other call
\* is in progress beside one that runs alone.
LEMMA WorksTrigger ==
  ASSUME TriggerInv, NEW t \in Threads, Works(t)
  PROVE  MigrationInv'
<1>1. TypeOK /\ t \in Busy /\ CallOf(t) /\ Keeps(t) /\ FullInv
  BY WorkerIs DEF TriggerInv
<1>2. \A s \in Steps : Goto(t, s) => th'[t].at = s
  BY <1>1, GoesOn DEF Advance
<1>3. \A s \in Steps : Fails(t, s) => th'[t].at = s
  BY <1>2 DEF Fails
<1> USE DEF Steps
<1>4. th[t].op # "remove" => th'[t].at \in {"create", "created", "ok", "error"}
  <2>1. CASE ShowWindow(t) \/ NothingToShow(t)
    BY <1>2, <1>3, <2>1 DEF ShowWindow, NothingToShow
  <2>2. CASE WriteRunner(t) \/ CreateTask(t) \/ SaveInterval(t)
    BY <1>2, <1>3, <2>2 DEF WriteRunner, CreateTask, SaveInterval
  <2>3. CASE DeleteNew(t) \/ DeleteOld(t) \/ Unlink(t)
    BY <1>1, <2>3 DEF DeleteNew, DeleteOld, Unlink, At, CallOf
  <2> QED BY <2>1, <2>2, <2>3 DEF Works
<1>5. MigrationOf(t)'
  BY <1>1, <1>4 DEF MigrationOf, KnownBy, AliveFor, Keeps
<1> QED BY <1>1, <1>5, MigrationOnStep DEF TriggerInv

LEMMA BeginsTrigger ==
  ASSUME TriggerInv, NEW t \in Threads, Begins(t)
  PROVE  MigrationInv'
<1>1. /\ Busy' = Busy \cup {t} /\ UNCHANGED tasks
      /\ (th'[t].op = "remove" /\ th'[t].at = "delete") \/ (th'[t].op # "remove" /\ th'[t].at = "old")
      /\ th'[t].live => Alive
      /\ \A u \in Busy : ~th'[u].alone
  BY BeginIs DEF TriggerInv
<1>2. MigrationOf(t)'
  BY <1>1 DEF MigrationOf, KnownBy, AliveFor, Alive, tasks
<1> QED BY <1>1, <1>2 DEF MigrationInv

LEMMA EndsTrigger ==
  ASSUME TriggerInv, NEW t \in Threads, Ends(t)
  PROVE  MigrationInv'
<1>1. /\ \A u \in Busy' : u \in Busy /\ th'[u] = th[u]
      /\ old' = old /\ new' = new /\ (failures' = failures \/ Busy' = {})
  BY EndIs DEF TriggerInv, Leaves, Busy, tasks
<1> QED BY <1>1 DEF TriggerInv, MigrationInv, MigrationOf, KnownBy, AliveFor, Alive

LEMMA TriggerStep == OneFailure /\ TriggerInv /\ [Next]_vars => TriggerInv'
<1> SUFFICES ASSUME OneFailure, TriggerInv, [Next]_vars PROVE TriggerInv'
  OBVIOUS
<1>1. FullInv' /\ AloneInv'
  BY FullStep, AloneStep DEF TriggerInv
<1>2. SUFFICES MigrationInv'
  BY <1>1 DEF TriggerInv
<1>3. CASE Close
  <2>1. CloseIs
    BY <1>3, ClosedCalls DEF TriggerInv, FullInv, IInv
  <2> QED BY <2>1 DEF CloseIs, TriggerInv, MigrationInv, MigrationOf, KnownBy, AliveFor, Alive, tasks
<1>4. CASE UserToggles
  <2>1. Busy' = {}
    BY <1>4 DEF UserToggles, Busy
  <2> QED BY <2>1 DEF MigrationInv
<1>5. CASE UNCHANGED vars
  BY <1>5 DEF vars, tasks, TriggerInv, MigrationInv, MigrationOf, KnownBy, AliveFor, Alive, Busy
<1> QED BY <1>3, <1>4, <1>5, MigrateMigration, WorksTrigger, BeginsTrigger, EndsTrigger, StepIs

LEMMA TriggerInit == Init => TriggerInv
<1> SUFFICES ASSUME Init PROVE TriggerInv
  OBVIOUS
<1>1. Busy = {}
  BY DEF Init, Busy, Idle
<1> QED BY <1>1, FullInit DEF TriggerInv, AloneInv, MigrationInv

LEMMA TriggerAlways ==
  ASSUME OneFailure
  PROVE  Spec => []TriggerInv
<1>1. TriggerInv /\ [Next]_vars => TriggerInv'
  BY TriggerStep
<1> QED BY <1>1, TriggerInit, PTL DEF Spec

\* A migration that no other call overlaps, one of a window that is gone
\* included, ends with the trigger alive if the task it goes by was enabled when
\* it began, and with the old name silent if it ended well, whichever one call of
\* the scheduler fails and whatever calls came before.
THEOREM TriggerSurvives == OneFailure => (Spec => MigrationKeepsTrigger)
<1> SUFFICES ASSUME OneFailure PROVE Spec => MigrationKeepsTrigger
  OBVIOUS
<1>1. TriggerInv /\ TriggerInv' /\ [Next]_vars =>
        [\A t \in Threads :
           Migrate(t) /\ th[t].alone =>
             /\ th'[t].at \in {"migrated", "error"} /\ th[t].live => "enabled" \in {old', new'}
             /\ th'[t].at = "migrated" => old' # "enabled"]_vars
  <2> SUFFICES ASSUME TriggerInv, TriggerInv', NEW t \in Threads, Migrate(t), th[t].alone
               PROVE  /\ th'[t].at \in {"migrated", "error"} /\ th[t].live => "enabled" \in {old', new'}
                      /\ th'[t].at = "migrated" => old' # "enabled"
    OBVIOUS
  <2>1. TypeOK /\ t \in Busy /\ CallOf(t) /\ Keeps(t)
    BY WorkerIs DEF TriggerInv
  <2>2. t \in Busy' /\ th'[t].alone /\ th'[t].op # "remove" /\ th'[t].live = th[t].live
        /\ th[t].op # "remove"
    BY <2>1 DEF Keeps, CallOf, Migrate, GetOld, GetNew, Export, Silence, Register,
       Verify, Unregister, DisableNew, UnregisterNew, Revive, At
  <2>3. SilentFor(t)'
    BY <2>2 DEF TriggerInv, AloneInv, AloneOf
  <2>4. th[t].live /\ th'[t].at = "migrated" => "enabled" \in {old', new'}
    BY <2>2 DEF TriggerInv, MigrationInv, MigrationOf, AliveFor
  <2>5. ASSUME th[t].live, th'[t].at = "error" PROVE "enabled" \in {old', new'}
    <3>1. KnownBy(t) /\ AliveFor(t)
      BY <2>1, <2>2, <2>5 DEF TriggerInv, MigrationInv, MigrationOf
    <3>2. \A s \in Steps : Goto(t, s) => th'[t].at = s
      BY <2>1, GoesOn DEF Advance
    <3>3. \A s \in Steps : ~(Fails(t, s) /\ failures = MaxFailures)
      BY <2>1, TaskTriggerAssumption DEF Fails, TypeOK
    <3> USE DEF Steps
    <3>4. CASE Export(t)
      <4>1. ASSUME th' = [th EXCEPT ![t].xml = old, ![t].at = "silence"] PROVE th'[t].at = "silence"
        BY <2>1, <4>1, GoesOnWith DEF TypeOK
      <4> QED BY <3>1, <3>4, <4>1 DEF Export, At, KnownBy, AliveFor, Alive, tasks
    <3>5. CASE Silence(t)
      BY <2>5, <3>1, <3>2, <3>5 DEF Silence, At, KnownBy, AliveFor, Alive
    <3>6. CASE Revive(t)
      BY <3>1, <3>3, <3>6 DEF Revive, At, KnownBy
    <3>7. CASE GetOld(t) \/ GetNew(t) \/ Register(t) \/ Verify(t)
      BY <2>5, <3>2, <3>7 DEF GetOld, GetNew, Register, Verify, Fails
    <3>8. CASE Unregister(t) \/ DisableNew(t) \/ UnregisterNew(t)
      BY <2>5, <3>2, <3>8 DEF Unregister, DisableNew, UnregisterNew, Fails
    <3> QED BY <3>4, <3>5, <3>6, <3>7, <3>8 DEF Migrate
  <2> QED BY <2>3, <2>4, <2>5 DEF SilentFor
<1> QED BY <1>1, TriggerAlways, PTL DEF Spec, MigrationKeepsTrigger
=============================================================================
