-------------------------------- MODULE Panel --------------------------------
(***************************************************************************)
(* The control panel of ui.py on SQLite: what its page shows, the click    *)
(* handlers bound to what it shows, and the sessions that it runs in       *)
(* threads while its handlers look on every half second.                   *)
(*                                                                         *)
(* A handler runs on the event loop and is one step up to its first await, *)
(* or up to the second list_runs() of a refresh() that has to go back to   *)
(* the last page; between steps come the threads, the scheduled task and   *)
(* the command line. The runs are numbered in the order of their creation. *)
(***************************************************************************)
EXTENDS Registry, FiniteSets, FiniteSetsExt

CONSTANTS
  NoRobot,
  PageSize,  \* history_limit
  Jobs,      \* bound: click handlers and scheduled tasks in progress at a time
  Menus,     \* bound: the handlers that are used in one behaviour
  Faults     \* the kinds of failure that may happen

FaultKinds == {"refresh", "session"}
  \* refresh: the database is busy when the page is drawn    session: a thread raises

Parts == {"history", "removals", "forms", "runs", "sessions", "task"}
  \* task: the scheduled task or a command line starts sessions of its own

ASSUME PanelAssumption ==
  /\ NoRobot \notin Robots /\ Runs \subseteq Nat /\ PageSize \in Nat \ {0}
  /\ Menus \subseteq SUBSET Parts /\ Faults \subseteq FaultKinds

VARIABLES
  menu,
  db, used,      \* the database, and the runs created so far
  view,          \* the tables: the snapshot, its rows, the filtered total, and stale
                 \* when the total is of another database than the rows
  todo,          \* what the handler on the event loop has still to do: read the rows of
                 \* the last page, start a session, go on waiting for one
  history_page, run_state_filter,
  form,          \* the registration form: editing_robot_id, and a limit or none
  dialog,        \* the confirmation that is open: [ask, of]
  disabled,      \* run_button.disabled
  jobs,          \* sessions, and the handlers that await them
  lock,          \* the job that holds the installation mutex
  lifted         \* history: automations whose limits were removed, as the page shows, and
                 \* for which no limit was typed or imported since

page == <<view, todo, history_page, run_state_filter>>
work == <<disabled, jobs, lock>>
vars == <<menu, db, used, page, form, dialog, work, lifted>>

NoDialog == [ask |-> "none", of |-> {}]
NoForm == [editing |-> NoRobot, limit |-> FALSE]
Done == [read |-> {}, start |-> {}, poll |-> {}]
Idle == [kind |-> "none", run |-> {}, at |-> "idle", watched |-> FALSE]

All == "all"
Filtered(d, f) == {x \in Rows(d) : f = All \/ d.state[x] = f}
MaxPage(n) == IF n = 0 THEN 1 ELSE (n + PageSize - 1) \div PageSize

\* ORDER BY created_at DESC LIMIT .. OFFSET ..
Slice(S, p) ==
  {x \in S : Cardinality({y \in S : y > x}) \in (PageSize * (p - 1))..(PageSize * p - 1)}

View(d, f, p) ==
  [db |-> d, total |-> Cardinality(Filtered(d, f)), rows |-> Slice(Filtered(d, f), p),
   stale |-> FALSE]

Init ==
  /\ menu \in Menus
  /\ \E B \in SUBSET Robots :
       db = [Blank EXCEPT !.revision = HeadRev,
                          !.robot = [b \in Robots |-> IF b \in B THEN "active" ELSE "absent"]]
  /\ used = {}
  /\ history_page = 1 /\ run_state_filter = All /\ view = View(db, All, 1) /\ todo = Done
  /\ form = NoForm /\ dialog = NoDialog /\ disabled = FALSE
  /\ jobs = [j \in Jobs |-> Idle] /\ lock = {} /\ lifted = {}
-----------------------------------------------------------------------------
(* refresh() *)

\* Mutant: the page number is not brought back to the last page.
Clamped_Not(p, n) == IF n >= 0 THEN p ELSE 1

Clamped(p, n) == IF p > MaxPage(n) THEN MaxPage(n) ELSE p

\* The rows and the total of one read; or, past the last page, the total alone:
\* the rows are read again.
Drawn(d, f, p, rest) ==
  LET n == Cardinality(Filtered(d, f)) IN
    /\ history_page' = Clamped(p, n)
    /\ IF p = Clamped(p, n) THEN view' = View(d, f, p) /\ todo' = Done
       ELSE /\ view' = [view EXCEPT !.total = n, !.stale = TRUE]
            /\ todo' = [rest EXCEPT !.read = {d}]

\* refresh() raises at one of its queries: before it has counted the runs, or
\* after that with the tables as they were.
RefreshFails(d, f, p) ==
  /\ "refresh" \in Faults /\ todo' = Done
  /\ \/ view' = view /\ history_page' = p
     \/ LET n == Cardinality(Filtered(d, f)) IN
          /\ view' = [view EXCEPT !.total = n, !.stale = TRUE]
          /\ history_page' = Clamped(p, n)

Refresh(d, f, p) == Drawn(d, f, p, Done) \/ RefreshFails(d, f, p)

\* A handler that commits d and draws the page again.
Commit(d) == db' = d /\ Refresh(d, run_state_filter, history_page) /\ UNCHANGED run_state_filter

Clickable(part) == part \in menu /\ dialog = NoDialog /\ todo = Done
-----------------------------------------------------------------------------
(* History: filters, pages, removals. *)

\* Bound: the runs that have ended are filtered for where runs are removed.
Filters == {All, "queued"} \cup IF "removals" \in menu THEN {"final"} ELSE {}

SetFilter(f) ==
  /\ Clickable("history") /\ f # run_state_filter
  /\ run_state_filter' = f /\ Refresh(db, f, 1)
  /\ UNCHANGED <<menu, db, used, form, dialog, work, lifted>>

TurnTo(p) ==
  /\ Clickable("history")
  /\ Refresh(db, run_state_filter, p)
  /\ UNCHANGED <<menu, db, used, run_state_filter, form, dialog, work, lifted>>

PrevPage == history_page > 1 /\ TurnTo(history_page - 1)
NextPage == history_page < MaxPage(view.total) /\ TurnTo(history_page + 1)
RefreshClick == TurnTo(history_page)

Ask(part, question, S) ==
  /\ Clickable(part) /\ dialog' = [ask |-> question, of |-> S]
  /\ UNCHANGED <<menu, db, used, page, form, work, lifted>>

\* run_actions: a row has a button that stops its run, or one that removes it.
Stoppable(x) == view.db.state[x] \in {"queued", "running"}
Removable(x) == x \in view.rows /\ view.db.state[x] = "final"

AskRemoveRun(x) == Removable(x) /\ Ask("removals", "run", {x})
AskRemoveRobot(b) == b \in Registered(view.db) /\ Ask("removals", "robot", {b})
AskAll == \E q \in {"history", "robots", "old"} : Ask("removals", q, {})
AskLimits == Ask("forms", "limits", {})
AskImport == Ask("forms", "import", {})

Dismiss ==
  /\ dialog # NoDialog /\ dialog' = NoDialog /\ todo = Done
  /\ UNCHANGED <<menu, db, used, page, form, work, lifted>>

\* What each confirmed removal may leave: nothing, when the service refuses it.
RunRemovals(S) == {Without(db, {x}, {}) : x \in {y \in S \cap Runs : db.state[y] = "final"}}

RobotRemovals(S) ==
  {Without(db, {x \in Rows(db) : RobotOf[x] = b}, {b}) :
     b \in {c \in S \cap Robots : db.robot[c] = "active" /\ ~Busy(db, c)}}

HistoryCleared == IF AnyActive(db) THEN {} ELSE {Without(db, Rows(db), {})}
RobotsCleared == IF AnyActive(db) THEN {} ELSE {Without(db, Rows(db), Robots)}
OldRemoved == IF AnyActive(db) THEN {} ELSE {Without(db, S, {}) : S \in SUBSET Rows(db)}

Removal ==
  CASE dialog.ask = "run" -> RunRemovals(dialog.of)
    [] dialog.ask = "robot" -> RobotRemovals(dialog.of)
    [] dialog.ask = "history" -> HistoryCleared
    [] dialog.ask = "robots" -> RobotsCleared
    [] dialog.ask = "old" -> OldRemoved

Confirm ==
  /\ dialog.ask \in {"run", "robot", "history", "robots", "old"} /\ todo = Done
  /\ dialog' = NoDialog
  /\ \/ \E d \in Removal : Commit(d)
     \/ Removal = {} /\ UNCHANGED <<db, page>>
  /\ UNCHANGED <<menu, used, form, work, lifted>>
-----------------------------------------------------------------------------
(* Automations: the form, the switch, the limits and the import. *)

Toggle(b) ==
  /\ Clickable("forms") /\ b \in Registered(view.db)
  /\ LET s == IF view.db.robot[b] = "active" THEN "inactive" ELSE "active" IN
       IF b \in Registered(db) /\ (s = "active" \/ ~Busy(db, b))
       THEN Commit(WithRobot(db, b, s, b \in db.limited))
       ELSE UNCHANGED <<db, page>>
  /\ UNCHANGED <<menu, used, form, dialog, work, lifted>>

\* The handler has the row as it was when the page was drawn.
Edit(b) ==
  /\ Clickable("forms") /\ b \in Registered(view.db)
  /\ form' = [editing |-> b, limit |-> b \in view.db.limited]
  /\ UNCHANGED <<menu, db, used, page, dialog, work, lifted>>

CancelEdit ==
  /\ Clickable("forms") /\ form # NoForm /\ form' = NoForm
  /\ UNCHANGED <<menu, db, used, page, dialog, work, lifted>>

TypeLimit ==
  /\ Clickable("forms") /\ form' = [form EXCEPT !.limit = ~@]
  /\ lifted' = lifted \ {form.editing}
  /\ UNCHANGED <<menu, db, used, page, dialog, work>>

Save ==
  /\ Clickable("forms")
  /\ \/ \E b \in Robots :
          /\ \/ form.editing = b /\ b \in Registered(db) /\ ~Busy(db, b)
                /\ Commit(WithRobot(db, b, db.robot[b], form.limit)) /\ UNCHANGED lifted
             \/ form.editing = NoRobot /\ b \notin Registered(db)
                /\ Commit(WithRobot(db, b, "active", form.limit)) /\ lifted' = lifted \ {b}
          /\ form' = NoForm
     \/ /\ form.editing \in Robots
        /\ form.editing \notin Registered(db) \/ Busy(db, form.editing)
        /\ UNCHANGED <<db, page, form, lifted>>
  /\ UNCHANGED <<menu, used, dialog, work>>

\* Mutant: the form is kept when the limits are removed.
FormAfterLimits_Kept == form

FormAfterLimits == NoForm

ConfirmLimits ==
  /\ dialog.ask = "limits" /\ dialog' = NoDialog /\ todo = Done
  /\ IF lock # {} \/ RowsIn(db, {"running", "cancelling"}) # {}
     THEN UNCHANGED <<db, page, form, lifted>>
     ELSE /\ Commit(Unlimited(db, RowsIn(db, {"queued"})))
          /\ form' = FormAfterLimits
          /\ lifted' = IF view'.db = db' THEN lifted \cup db.limited ELSE lifted
  /\ UNCHANGED <<menu, used, work>>

\* The form stays as it is. Of an automation with the same name the row is
\* overwritten; a file that is not valid changes nothing.
ConfirmImport ==
  /\ dialog.ask = "import" /\ dialog' = NoDialog /\ todo = Done
  /\ \/ /\ ~AnyActive(db)
        /\ \E b \in Robots, s \in {"active", "inactive"}, limit \in BOOLEAN :
             Commit(WithRobot(db, b, s, limit)) /\ lifted' = lifted \ {b}
     \/ UNCHANGED <<db, page, lifted>>
  /\ UNCHANGED <<menu, used, form, work>>
-----------------------------------------------------------------------------
(* Runs: Enfileirar, Play, Parar and Executar fila. *)

\* The next run of an automation.
New(b) == {x \in Runs : RobotOf[x] = b /\ \A y \in used : y < x}

\* enqueue() raises for an automation that is not active. (The limit in the
\* configuration of a run is left to Maintenance.)
Accepted(b) == db.robot[b] = "active" /\ New(b) # {}
Created(b) == WithRun(db, Min(New(b)), FALSE)

Enqueue(b) ==
  /\ Clickable("runs") /\ view.db.robot[b] = "active"
  /\ IF Accepted(b) THEN Commit(Created(b)) /\ used' = used \cup {Min(New(b))}
     ELSE UNCHANGED <<db, page, used>>
  /\ UNCHANGED <<menu, form, dialog, work, lifted>>

\* A thread for a session, and a handler that awaits it: the button is disabled.
Await(j, k, S) ==
  /\ jobs[j] = Idle
  /\ jobs' = [jobs EXCEPT ![j] = [kind |-> k, run |-> S, at |-> "start", watched |-> TRUE]]
  /\ disabled' = TRUE /\ UNCHANGED lock

\* robot_run_control: Play, when no run of the automation is active.
Playable(b) == view.db.robot[b] = "active" /\ ~Busy(view.db, b)

\* execute_now_handler. While the button is disabled the run just waits; when
\* refresh() raises no session is started either.
Play(b) ==
  /\ Clickable("sessions") /\ Playable(b)
  /\ disabled \/ \E j \in Jobs : jobs[j] = Idle
  /\ IF Accepted(b)
     THEN LET x == Min(New(b)) IN
          /\ db' = Created(b) /\ used' = used \cup {x} /\ UNCHANGED run_state_filter
          /\ \/ /\ Drawn(db', run_state_filter, history_page,
                          [Done EXCEPT !.start = IF disabled THEN {} ELSE {x}])
                /\ IF disabled \/ todo' # Done THEN UNCHANGED work
                   ELSE \E j \in Jobs : Await(j, "direct", {x})
             \/ RefreshFails(db', run_state_filter, history_page) /\ UNCHANGED work
     ELSE UNCHANGED <<db, page, used, work>>
  /\ UNCHANGED <<menu, form, dialog, lifted>>

\* cancel() of a run that a button of the page stands for: a row of the history,
\* or any of the active runs of an automation.
Stop(x) ==
  /\ Clickable("runs") /\ Stoppable(x)
  /\ IF db.state[x] \in {"queued", "running"} THEN Commit(CancelOf(db, x))
     ELSE Commit(db)
  /\ UNCHANGED <<menu, used, form, dialog, work, lifted>>

\* A second click may have left the client before it saw the button disabled.
ExecuteQueue ==
  /\ Clickable("sessions") /\ \E j \in Jobs : Await(j, "queue", {})
  /\ UNCHANGED <<menu, db, used, page, form, dialog, lifted>>

\* The finally of the handler that waits for a session.
GiveBack(j) ==
  /\ jobs' = [jobs EXCEPT ![j] = IF @.at = "ended" THEN Idle ELSE [@ EXCEPT !.watched = FALSE]]
  /\ disabled' = FALSE /\ UNCHANGED lock

\* Mutant: the button is enabled only when the session has ended well.
Watch_NoFinally(j) ==
  /\ "refresh" \in Faults /\ todo = Done /\ jobs[j].watched
  /\ jobs' = [jobs EXCEPT ![j] = IF @.at = "ended" THEN Idle ELSE [@ EXCEPT !.watched = FALSE]]
  /\ UNCHANGED <<menu, db, used, page, form, dialog, disabled, lock, lifted>>

\* refresh() raises in the loop that waits: the handler ends, the thread does not.
Watch(j) ==
  /\ "refresh" \in Faults /\ todo = Done /\ jobs[j].watched
  /\ GiveBack(j) /\ Refresh(db, run_state_filter, history_page)
  /\ UNCHANGED <<menu, db, used, run_state_filter, form, dialog, lifted>>

Poll(j) ==
  /\ todo = Done /\ jobs[j].watched /\ jobs[j].at # "ended"
  /\ Drawn(db, run_state_filter, history_page, [Done EXCEPT !.poll = {j}])
  /\ UNCHANGED <<menu, db, used, run_state_filter, form, dialog, work, lifted>>

\* The second list_runs() of a refresh(), and what its handler does then.
Redraw ==
  /\ \E d \in todo.read :
       view' = [View(db, run_state_filter, history_page) EXCEPT
                  !.total = view.total, !.stale = db # d]
  /\ todo' = Done
  /\ IF todo.start = {} THEN UNCHANGED work ELSE \E j \in Jobs : Await(j, "direct", todo.start)
  /\ UNCHANGED <<menu, db, used, history_page, run_state_filter, form, dialog, lifted>>

\* It raises: the tables stay, and neither is a session started nor waited for.
RedrawFails ==
  /\ "refresh" \in Faults /\ todo.read # {}
  /\ \/ todo.poll = {} /\ todo' = Done /\ UNCHANGED <<view, history_page, work>>
     \/ \E j \in todo.poll : GiveBack(j) /\ Refresh(db, run_state_filter, history_page)
  /\ UNCHANGED <<menu, db, used, run_state_filter, form, dialog, lifted>>

\* The thread is done, with a result, "skipped" or an exception: the finally.
HandlerEnds(j) ==
  /\ todo = Done /\ jobs[j].watched /\ jobs[j].at = "ended"
  /\ GiveBack(j) /\ Refresh(db, run_state_filter, history_page)
  /\ UNCHANGED <<menu, db, used, run_state_filter, form, dialog, lifted>>
-----------------------------------------------------------------------------
(* The sessions: run_engine and run_engine_direct in their threads, and those *)
(* of other processes.                                                       *)

\* Bound: it does not take the place of a session that Play is about to start.
TaskFires(j) ==
  /\ "task" \in menu /\ jobs[j] = Idle /\ lock = {} /\ todo.start = {}
  /\ jobs' = [jobs EXCEPT ![j] = [Idle EXCEPT !.kind = "queue", !.at = "claim"]]
  /\ lock' = {j} /\ db' = Reconciled(db)
  /\ UNCHANGED <<menu, used, page, form, dialog, disabled, lifted>>

EndOf(j) == IF jobs[j].watched THEN [jobs[j] EXCEPT !.at = "ended"] ELSE Idle

\* The mutex and reconcile(), or InstallationBusy: nothing waits for the mutex.
Enter(j) ==
  /\ jobs[j].at = "start"
  /\ IF lock = {}
     THEN /\ lock' = {j} /\ jobs' = [jobs EXCEPT ![j].at = "claim"] /\ db' = Reconciled(db)
     ELSE jobs' = [jobs EXCEPT ![j] = EndOf(j)] /\ UNCHANGED <<lock, db>>
  /\ UNCHANGED <<menu, used, page, form, dialog, disabled, lifted>>

\* Mutant: the mutex stays with a thread that has ended.
Leave_LockKept(j) ==
  /\ jobs' = [jobs EXCEPT ![j] = EndOf(j)] /\ UNCHANGED lock
  /\ UNCHANGED <<menu, used, page, form, dialog, disabled, lifted>>

Leave(j) ==
  /\ jobs' = [jobs EXCEPT ![j] = EndOf(j)] /\ lock' = {}
  /\ UNCHANGED <<menu, used, page, form, dialog, disabled, lifted>>

\* claim_next or claim_specific.
Claimable(j) ==
  LET Q == RowsIn(db, {"queued"}) IN
    IF jobs[j].kind = "direct" THEN Q \cap jobs[j].run ELSE {x \in Q : \A y \in Q : x <= y}

ClaimRun(j) ==
  /\ jobs[j].at = "claim"
  /\ \E x \in Claimable(j) :
       /\ db' = InState(db, x, "running")
       /\ jobs' = [jobs EXCEPT ![j].at = "run", ![j].run = {x}]
  /\ UNCHANGED <<menu, used, page, form, dialog, disabled, lock, lifted>>

NothingToClaim(j) == jobs[j].at = "claim" /\ Claimable(j) = {} /\ Leave(j) /\ UNCHANGED db

RunEnds(j) ==
  /\ jobs[j].at = "run" /\ \E x \in jobs[j].run : db' = InState(db, x, "final")
  /\ IF jobs[j].kind = "direct" THEN Leave(j)
     ELSE /\ jobs' = [jobs EXCEPT ![j].at = "claim", ![j].run = {}]
          /\ UNCHANGED <<menu, used, page, form, dialog, disabled, lock, lifted>>

SessionRaises(j) ==
  "session" \in Faults /\ jobs[j].at \in {"claim", "run"} /\ Leave(j) /\ UNCHANGED db

Session(j) == Enter(j) \/ ClaimRun(j) \/ NothingToClaim(j) \/ RunEnds(j)

Next ==
  \/ \E f \in Filters : SetFilter(f)
  \/ PrevPage \/ NextPage \/ RefreshClick \/ AskAll \/ AskLimits \/ AskImport \/ Dismiss \/ Confirm
  \/ \E x \in Runs : AskRemoveRun(x) \/ Stop(x)
  \/ \E b \in Robots : AskRemoveRobot(b) \/ Toggle(b) \/ Edit(b) \/ Enqueue(b) \/ Play(b)
  \/ CancelEdit \/ TypeLimit \/ Save \/ ConfirmLimits \/ ConfirmImport \/ ExecuteQueue
  \/ Redraw \/ RedrawFails
  \/ \E j \in Jobs :
       \/ TaskFires(j) \/ Session(j) \/ SessionRaises(j) \/ Watch(j) \/ Poll(j) \/ HandlerEnds(j)

Spec == Init /\ [][Next]_vars

\* Threads run on, robots end, and refresh() comes to its end; a handler whose
\* thread has ended waits its turn on the event loop and gets it (strongly fair:
\* each refresh() of another handler goes before it).
Fairness ==
  WF_vars(Redraw) /\ \A j \in Jobs : WF_vars(Session(j)) /\ SF_vars(HandlerEnds(j))

FairSpec == Spec /\ Fairness
-----------------------------------------------------------------------------
TypeOK ==
  /\ menu \in Menus /\ db \in Contents /\ used \subseteq Runs
  /\ view \in [db : Contents, total : Nat, rows : SUBSET Runs, stale : BOOLEAN]
  /\ todo \in [read : SUBSET Contents, start : SUBSET Runs, poll : SUBSET Jobs]
  /\ history_page \in Nat \ {0} /\ run_state_filter \in {All, "queued", "final"}
  /\ form \in [editing : Robots \cup {NoRobot}, limit : BOOLEAN]
  /\ dialog.of \subseteq Runs \cup Robots /\ disabled \in BOOLEAN
  /\ jobs \in [Jobs -> [kind : {"none", "queue", "direct"}, run : SUBSET Runs,
                        at : {"idle", "start", "claim", "run", "ended"}, watched : BOOLEAN]]
  /\ lock \subseteq Jobs /\ lifted \subseteq Robots

\* Whoever has the mutex is at work; and the button is out of reach only while
\* a handler is there to give it back.
JobInv ==
  /\ \A j \in Jobs : jobs[j].at \in {"claim", "run"} <=> lock = {j}
  /\ \A j \in Jobs : jobs[j].at = "ended" => jobs[j].watched
  /\ disabled => \E j \in Jobs : jobs[j].watched

IInv == TypeOK /\ JobInv

\* The page shown exists, also after removals from the last page, changes of the
\* filter and refreshes that failed; and it is empty only when there is nothing to
\* show, unless others committed between the two reads of a refresh that had to go
\* back to the last page.
PageInRange ==
  /\ history_page <= MaxPage(view.total)
  /\ ~view.stale => (view.rows = {} <=> view.total = 0)

\* Once the page shows that the limits are gone no form brings one back, neither
\* one filled before nor one filled from the page: only a limit that the operator
\* types or imports does.
LimitsStayLifted == [][\A b \in db'.limited \ db.limited : b \notin lifted']_vars

\* However a session ends, the panel takes up the queue again.
ButtonReturns == disabled ~> ~disabled
=============================================================================
