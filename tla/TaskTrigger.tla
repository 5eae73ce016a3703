----------------------------- MODULE TaskTrigger -----------------------------
(***************************************************************************)
(* The task of the Windows scheduler that starts a session every few       *)
(* minutes, under its present name and under the one it had before, with   *)
(* the runner script and the interval file beside it: the functions of     *)
(* scheduler.py and the panel that calls them in threads of its own.       *)
(*                                                                         *)
(* Every call of a program or of the file system is a step that may fail,  *)
(* MaxFailures times before all calls have ended; a query of the scheduler *)
(* tells the truth. The panel may be closed, or the machine switched off,  *)
(* between two steps; the calls of a panel that was closed go on.          *)
(***************************************************************************)
EXTENDS Naturals, FiniteSets

CONSTANTS
  Threads,      \* bound: calls that may be in progress at a time
  Intervals,    \* minutes
  OldDefault,   \* the interval of an installed task without a file: 5
  Default,      \* TASK_INTERVAL_MINUTES
  MaxFailures   \* bound: failures while there is a call in progress

ASSUME TaskTriggerAssumption ==
  /\ 0 \notin Intervals /\ {OldDefault, Default} \subseteq Intervals
  /\ IsFiniteSet(Threads) /\ MaxFailures \in Nat

VARIABLES
  old, new,     \* the tasks LEGACY_TASK_NAME and TASK_NAME
  every,        \* minutes between two runs of the new task
  runner,       \* run-scheduler.vbs: none, or with the robot's window hidden or shown
  kept,         \* run-scheduler.before-focus.vbs exists
  saved,        \* scheduler-interval.txt, 0 when there is none
  panel,        \* closed, starting or open
  shown,        \* what the panel believes: task_installed and task_interval_minutes
  th,           \* the calls in progress
  failures      \* failures since there was no call in progress

tasks == <<old, new, every>>
files == <<runner, kept, saved>>
vars == <<tasks, files, panel, shown, th, failures>>

Task == {"absent", "enabled", "disabled"}
Steps == {"old", "new", "export", "silence", "register", "verify", "unregister", "drop",
          "dropped", "revive", "migrated", "create", "created", "delete", "delete_old",
          "unlink", "ok", "error"}

\* xml: the enabled state in the exported definition. left: its window was closed.
\* alone: no other call was in progress meanwhile. live: alone, and Alive at first.
Idle == [op |-> "none", at |-> "ok", xml |-> "absent", minutes |-> 0, failed |-> FALSE,
         left |-> FALSE, alone |-> TRUE, live |-> FALSE]

\* The task that a migration goes by is enabled: the new one, if there is one.
Alive == new = "enabled" \/ (new = "absent" /\ old = "enabled")

Busy == {t \in Threads : th[t].op # "none"}

Nothing == [installed |-> FALSE, minutes |-> Default]

Init ==
  /\ old \in Task /\ new \in Task /\ (old = "absent" \/ new \in {"absent", "enabled"})
  /\ every = (IF new = "absent" THEN 0 ELSE OldDefault)
  /\ runner \in {"hidden", "shown"} \/ (runner = "none" /\ {old, new} = {"absent"})
  /\ kept = FALSE /\ saved \in {0, OldDefault}
  /\ panel = "closed" /\ shown = Nothing
  /\ th = [t \in Threads |-> Idle] /\ failures = 0

At(t, step) == th[t].op # "none" /\ th[t].at = step
Goto(t, step) == th' = [th EXCEPT ![t].at = step]

\* One more call fails, and thread t goes on at `step`.
Fails(t, step) == failures < MaxFailures /\ failures' = failures + 1 /\ Goto(t, step)

Begin(t, op, minutes, step) ==
  /\ th[t].op = "none"
  /\ th' = [u \in Threads |->
       IF u = t THEN [Idle EXCEPT !.op = op, !.at = step, !.minutes = minutes,
                      !.alone = (Busy = {}), !.live = (Busy = {} /\ Alive)]
       ELSE IF th[u].op = "none" THEN th[u]
       ELSE [th[u] EXCEPT !.alone = FALSE, !.live = FALSE]]
-----------------------------------------------------------------------------
(* _migrate_legacy_windows_task *)

GetOld(t) ==
  /\ At(t, "old")
  /\ Goto(t, IF old = "absent" THEN "migrated" ELSE "new")
  /\ UNCHANGED <<tasks, files, panel, shown, failures>>

GetNew(t) ==
  /\ At(t, "new")
  /\ Goto(t, IF new = "absent" THEN "export" ELSE "silence")
  /\ UNCHANGED <<tasks, files, panel, shown, failures>>

Export(t) ==
  /\ At(t, "export")
  /\ \/ old # "absent" /\ UNCHANGED failures
        /\ th' = [th EXCEPT ![t].xml = old, ![t].at = "silence"]
     \/ Fails(t, "error")
     \/ old = "absent" /\ Goto(t, "error") /\ UNCHANGED failures
  /\ UNCHANGED <<tasks, files, panel, shown>>

\* Disable-ScheduledTask of the old task, outside the try in both branches.
Silence(t) ==
  /\ At(t, "silence")
  /\ \/ /\ old # "absent" /\ old' = "disabled"
        /\ Goto(t, IF th[t].xml = "absent" THEN "unregister" ELSE "register")
        /\ UNCHANGED failures
     \/ Fails(t, "error") /\ UNCHANGED old
     \/ old = "absent" /\ Goto(t, "error") /\ UNCHANGED <<old, failures>>
  /\ UNCHANGED <<new, every, files, panel, shown>>

\* Without -Force: an existing task makes it fail.
Register(t) ==
  /\ At(t, "register")
  /\ \/ new = "absent" /\ new' = th[t].xml /\ every' = OldDefault
        /\ Goto(t, "verify") /\ UNCHANGED failures
     \/ Fails(t, "drop") /\ UNCHANGED <<new, every>>
     \/ new # "absent" /\ Goto(t, "drop") /\ UNCHANGED <<new, every, failures>>
  /\ UNCHANGED <<old, files, panel, shown>>

Verify(t) ==
  /\ At(t, "verify")
  /\ \/ Goto(t, IF new = "absent" THEN "drop" ELSE "unregister") /\ UNCHANGED failures
     \/ Fails(t, "drop")
  /\ UNCHANGED <<tasks, files, panel, shown>>

\* When it fails the old task stays, disabled, and that is no error.
Unregister(t) ==
  /\ At(t, "unregister")
  /\ \/ old' = "absent" /\ Goto(t, "migrated") /\ UNCHANGED failures
     \/ Fails(t, "migrated") /\ UNCHANGED old
  /\ UNCHANGED <<new, every, files, panel, shown>>

\* The catch: errors are silent in it until the throw.
DisableNew(t) ==
  /\ At(t, "drop")
  /\ \/ new' = (IF new = "absent" THEN new ELSE "disabled")
        /\ Goto(t, "dropped") /\ UNCHANGED failures
     \/ new # "absent" /\ Fails(t, "dropped") /\ UNCHANGED new
  /\ UNCHANGED <<old, every, files, panel, shown>>

UnregisterNew(t) ==
  /\ At(t, "dropped")
  /\ \/ new' = "absent" /\ every' = 0 /\ Goto(t, "revive") /\ UNCHANGED failures
     \/ new # "absent" /\ Fails(t, "revive") /\ UNCHANGED <<new, every>>
  /\ UNCHANGED <<old, files, panel, shown>>

\* Mutant: the old task is left disabled when the new one cannot be registered.
Revive_Not(t) ==
  At(t, "revive") /\ Goto(t, "error") /\ UNCHANGED <<tasks, files, panel, shown, failures>>

Revive(t) ==
  /\ At(t, "revive")
  /\ \/ old' = (IF old = "absent" THEN old ELSE "enabled")
        /\ Goto(t, "error") /\ UNCHANGED failures
     \/ old # "absent" /\ Fails(t, "error") /\ UNCHANGED old
  /\ UNCHANGED <<new, every, files, panel, shown>>

Migrate(t) ==
  \/ GetOld(t) \/ GetNew(t) \/ Export(t) \/ Silence(t) \/ Register(t) \/ Verify(t)
  \/ Unregister(t) \/ DisableNew(t) \/ UnregisterNew(t) \/ Revive(t)
-----------------------------------------------------------------------------
(* install_windows_task after parse_task_interval and the migration. *)

\* scheduler_cli_path() raises, or the runner is written.
WriteRunner(t) ==
  /\ At(t, "migrated") /\ th[t].op = "install"
  /\ \/ runner' = "shown" /\ Goto(t, "create") /\ UNCHANGED failures
     \/ Fails(t, "error") /\ UNCHANGED runner
  /\ UNCHANGED <<tasks, kept, saved, panel, shown>>

\* schtasks /Create /F
CreateTask(t) ==
  /\ At(t, "create")
  /\ \/ new' = "enabled" /\ every' = th[t].minutes /\ Goto(t, "created") /\ UNCHANGED failures
     \/ Fails(t, "error") /\ UNCHANGED <<new, every>>
  /\ UNCHANGED <<old, files, panel, shown>>

\* Mutant: the interval file is not written.
SaveInterval_Not(t) ==
  At(t, "created") /\ Goto(t, "ok") /\ UNCHANGED <<tasks, files, panel, shown, failures>>

SaveInterval(t) ==
  /\ At(t, "created")
  /\ \/ saved' = th[t].minutes /\ Goto(t, "ok") /\ UNCHANGED failures
     \/ Fails(t, "error") /\ UNCHANGED saved
  /\ UNCHANGED <<tasks, runner, kept, panel, shown>>
-----------------------------------------------------------------------------
(* remove_windows_task *)

DeleteNew(t) ==
  /\ At(t, "delete")
  /\ \/ new' = "absent" /\ every' = 0 /\ Goto(t, "delete_old") /\ UNCHANGED failures
     \/ /\ new # "absent" /\ failures < MaxFailures /\ failures' = failures + 1
        /\ th' = [th EXCEPT ![t].at = "delete_old", ![t].failed = TRUE]
        /\ UNCHANGED <<new, every>>
  /\ UNCHANGED <<old, files, panel, shown>>

\* The failures of both are raised together.
DeleteOld(t) ==
  /\ At(t, "delete_old")
  /\ \/ old' = "absent" /\ UNCHANGED failures
        /\ Goto(t, IF th[t].failed THEN "error" ELSE "unlink")
     \/ old # "absent" /\ Fails(t, "error") /\ UNCHANGED old
  /\ UNCHANGED <<new, every, files, panel, shown>>

Unlink(t) ==
  /\ At(t, "unlink")
  /\ \/ runner' = "none" /\ Goto(t, "ok") /\ UNCHANGED failures
     \/ Fails(t, "error") /\ UNCHANGED runner
  /\ UNCHANGED <<tasks, kept, saved, panel, shown>>
-----------------------------------------------------------------------------
(* The panel: constructor, click handlers and what they show. *)

\* Mutant: the window takes clicks before its constructor has ended.
Open_Early(t) ==
  /\ panel = "closed" /\ panel' = "open"
  /\ Begin(t, "open", 0, "old") /\ UNCHANGED <<tasks, files, shown, failures>>

\* windows_task_installed(), in the constructor.
Open(t) ==
  /\ panel = "closed" /\ panel' = "starting"
  /\ Begin(t, "open", 0, "old") /\ UNCHANGED <<tasks, files, shown, failures>>

\* The runner of an older version is rewritten, after a copy is kept.
ShowWindow(t) ==
  /\ At(t, "migrated") /\ th[t].op = "open" /\ new # "absent" /\ runner = "hidden"
  /\ \/ kept' = TRUE /\ runner' = "shown" /\ Goto(t, "ok") /\ UNCHANGED failures
     \/ Fails(t, "error") /\ kept' \in {kept, TRUE} /\ UNCHANGED runner
  /\ UNCHANGED <<tasks, saved, panel, shown>>

NothingToShow(t) ==
  /\ At(t, "migrated") /\ th[t].op = "open" /\ ~(new # "absent" /\ runner = "hidden")
  /\ Goto(t, "ok") /\ UNCHANGED <<tasks, files, panel, shown, failures>>

saved_task_interval(installed) ==
  IF saved # 0 THEN saved ELSE IF installed THEN OldDefault ELSE Default

\* update_task_interval_button: disabled for the interval that is shown.
InstallOffered(i) == ~(shown.installed /\ shown.minutes = i)

\* update_windows_task_controls
Show(installed, minutes) == shown' = [installed |-> installed, minutes |-> minutes]

Install(t, i) ==
  /\ panel = "open" /\ InstallOffered(i)
  /\ Begin(t, "install", i, "old") /\ UNCHANGED <<tasks, files, panel, shown, failures>>

Remove(t) ==
  /\ panel = "open" /\ shown.installed
  /\ Begin(t, "remove", 0, "delete") /\ UNCHANGED <<tasks, files, panel, shown, failures>>

\* The failures are counted anew when no call is in progress.
Counted == failures' = IF Busy' = {} THEN 0 ELSE failures

Done(t) == th' = [th EXCEPT ![t] = Idle] /\ Counted

\* What a call reports is shown, unless its window was closed.
Opened(t) ==
  /\ At(t, "ok") /\ th[t].op = "open" /\ Done(t)
  /\ IF th[t].left THEN UNCHANGED <<panel, shown>>
     ELSE panel' = "open" /\ Show(new # "absent", saved_task_interval(new # "absent"))
  /\ UNCHANGED <<tasks, files>>

Installed(t) ==
  /\ At(t, "ok") /\ th[t].op = "install" /\ Done(t)
  /\ IF th[t].left THEN UNCHANGED shown ELSE Show(TRUE, th[t].minutes)
  /\ UNCHANGED <<tasks, files, panel>>

Removed(t) ==
  /\ At(t, "ok") /\ th[t].op = "remove" /\ Done(t)
  /\ IF th[t].left THEN UNCHANGED shown ELSE Show(FALSE, shown.minutes)
  /\ UNCHANGED <<tasks, files, panel>>

\* A handler shows the error; a constructor that raises leaves no panel.
Raised(t) ==
  /\ At(t, "error") /\ Done(t)
  /\ panel' = (IF th[t].op = "open" /\ ~th[t].left THEN "closed" ELSE panel)
  /\ UNCHANGED <<tasks, files, shown>>

\* The window is closed: a thread, and the program it has started, may go on; or
\* the process ends, or the machine, and the calls with it.
Close ==
  /\ panel # "closed" \/ Busy # {}
  /\ panel' = "closed" /\ shown' = Nothing
  /\ \E S \in SUBSET Busy :
       th' = [t \in Threads |-> IF t \in S THEN [th[t] EXCEPT !.left = TRUE] ELSE Idle]
  /\ Counted /\ UNCHANGED <<tasks, files>>

\* In the Windows scheduler, which the panel opens.
UserToggles ==
  /\ panel = "open" /\ Busy = {} /\ new # "absent" /\ new' \in {"enabled", "disabled"} \ {new}
  /\ UNCHANGED <<old, every, files, panel, shown, th, failures>>

Next ==
  \/ Close \/ UserToggles
  \/ \E t \in Threads :
       \/ Open(t) \/ Migrate(t) \/ ShowWindow(t) \/ NothingToShow(t) \/ Opened(t)
       \/ (\E i \in Intervals : Install(t, i)) \/ WriteRunner(t) \/ CreateTask(t) \/ SaveInterval(t)
       \/ Installed(t) \/ Remove(t) \/ DeleteNew(t) \/ DeleteOld(t) \/ Unlink(t) \/ Removed(t)
       \/ Raised(t)

Spec == Init /\ [][Next]_vars
-----------------------------------------------------------------------------
TypeOK ==
  /\ old \in Task /\ new \in Task /\ every \in Intervals \cup {0}
  /\ runner \in {"none", "hidden", "shown"} /\ kept \in BOOLEAN /\ saved \in Intervals \cup {0}
  /\ panel \in {"closed", "starting", "open"}
  /\ shown \in [installed : BOOLEAN, minutes : Intervals]
  /\ th \in [Threads -> [op : {"none", "open", "install", "remove"}, at : Steps, xml : Task,
                         minutes : Intervals \cup {0}, failed : BOOLEAN, left : BOOLEAN,
                         alone : BOOLEAN, live : BOOLEAN]]
  /\ failures \in 0..MaxFailures

\* A call that has outlived its window reports to no other, but it may
\* overlap the constructor and the calls of the next one; a panel has one
\* constructor, and takes no click before that has ended.
PanelInv ==
  /\ panel = "closed" => \A t \in Busy : th[t].left
  /\ panel = "starting" => \E t \in Busy : th[t].op = "open" /\ ~th[t].left
  /\ panel = "starting" => \A t, u \in Busy : th[t].left \/ th[u].left \/ t = u
  /\ \A t \in Busy : th[t].op = "open" /\ ~th[t].left => panel = "starting"
  /\ \A t \in Busy : th[t].op = "install" => th[t].minutes # 0
  /\ \A t, u \in Busy : t # u => ~th[t].alone
  /\ every = 0 <=> new = "absent"

IInv == TypeOK /\ PanelInv

\* A migration that ran alone ends, well or badly, with the trigger alive if the
\* task it went by was enabled when it began, whichever single call of it failed;
\* ended well it leaves the old name silent, so that the schedules are not fired
\* twice (_migrate_legacy_windows_task: export, disable, register, verify, roll back).
MigrationKeepsTrigger ==
  [][\A t \in Threads :
       Migrate(t) /\ th[t].alone =>
         /\ th'[t].at \in {"migrated", "error"} /\ th[t].live => "enabled" \in {old', new'}
         /\ th'[t].at = "migrated" => old' # "enabled"]_vars

\* What the panel reports of a call that ran alone is so: installed, with this
\* interval, in the task and in the file; or gone, under both names.
ReportsAreTrue ==
  [][\A t \in Threads : th[t].alone =>
       /\ Installed(t) => /\ new = "enabled" /\ old # "enabled" /\ runner = "shown"
                          /\ every = th[t].minutes /\ saved = every
       /\ Removed(t) => old = "absent" /\ new = "absent" /\ runner = "none"]_vars
=============================================================================
