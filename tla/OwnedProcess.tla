---------------------------- MODULE OwnedProcess ----------------------------
(***************************************************************************)
(* The process tree of one run: the class ProcessTree as execute_run uses  *)
(* it, with every call that may fail, and beside it the thread of          *)
(* OwnedWindowActivation, which reads the same job handle.                 *)
(*                                                                         *)
(* The tree is a root process, which the engine waits for, and a child     *)
(* that the root may start; a window handle stands for all windows, and    *)
(* may come to belong to another process at any time.                      *)
(***************************************************************************)
EXTENDS Naturals

CONSTANTS
  WorkerInJob,  \* the engine's own process is in a job (as under the task scheduler)
  MaxAttempts   \* activations tried for one window

ASSUME OwnedProcessAssumption == WorkerInJob \in BOOLEAN /\ MaxAttempts \in Nat \ {0}

VARIABLES
  owner,      \* where execute_run is, between the creation and the end of the tree
  job,        \* the job handle
  kills,      \* the job was given KILL_ON_JOB_CLOSE
  handles,    \* other handles that the object owns
  inJob,      \* the processes assigned to the job
  root,       \* the process that was created
  child,      \* a process that the root started
  doomed,     \* processes that were told to end: the kill takes effect later
  act,        \* where the activation thread is
  stopped,    \* the event `stopped`
  window,     \* whose the window is
  candidate,  \* whose it was when the thread listed the windows
  attempts,   \* self.attempts of the window
  attached    \* the input of this thread is attached to another's

tree == <<job, kills, handles, inJob, root, child, doomed>>
thread == <<act, stopped, candidate, attempts, attached>>
vars == <<owner, tree, thread, window>>

\* Places of the constructor, in order, then of the with block and of its end.
Building == {"new", "job", "limits", "streams", "created", "assigned", "resumed"}
Ended == {"closed", "raised", "dead"}
Owners == Building \cup {"body", "watched", "drained", "stopping", "failing", "unwinding"} \cup Ended

Processes == {"root", "child"}
Running == {p \in Processes : (p = "root" /\ root = "running") \/ (p = "child" /\ child = "running")}

Init ==
  /\ owner = "new" /\ job = "none" /\ kills = FALSE /\ handles = {} /\ inJob = {}
  /\ root = "none" /\ child = "none" /\ doomed = {}
  /\ act = "off" /\ stopped = FALSE /\ window = "other" /\ candidate = "none"
  /\ attempts = 0 /\ attached = FALSE

\* Processes that the closing of the job handle dooms.
Members == IF kills THEN inJob ELSE {}

Goto(from, to) == owner = from /\ owner' = to
-----------------------------------------------------------------------------
(* ProcessTree.__init__ *)

CreateJob ==
  /\ Goto("new", "job") /\ job' = "open"
  /\ UNCHANGED <<kills, handles, inJob, root, child, doomed, thread, window>>

\* Mutant: the limit flags are not written back.
SetLimits_Default == Goto("job", "limits") /\ UNCHANGED <<tree, thread, window>>

SetLimits ==
  /\ Goto("job", "limits") /\ kills' = TRUE
  /\ UNCHANGED <<job, handles, inJob, root, child, doomed, thread, window>>

OpenStreams ==
  /\ Goto("limits", "streams") /\ handles' = handles \cup {"streams"}
  /\ UNCHANGED <<job, kills, inJob, root, child, doomed, thread, window>>

\* Mutant: the process is created without CREATE_SUSPENDED.
CreateProcess_Running ==
  /\ Goto("streams", "created")
  /\ root' = "running" /\ handles' = handles \cup {"process", "thread"}
  /\ UNCHANGED <<job, kills, inJob, child, doomed, thread, window>>

CreateProcess ==
  /\ Goto("streams", "created")
  /\ root' = "suspended" /\ handles' = handles \cup {"process", "thread"}
  /\ UNCHANGED <<job, kills, inJob, child, doomed, thread, window>>

Assign ==
  /\ Goto("created", "assigned") /\ inJob' = {"root"}
  /\ UNCHANGED <<job, kills, handles, root, child, doomed, thread, window>>

ResumeThread ==
  /\ Goto("assigned", "resumed") /\ root' = "running"
  /\ UNCHANGED <<job, kills, handles, inJob, child, doomed, thread, window>>

CloseThread ==
  /\ Goto("resumed", "body") /\ handles' = handles \ {"thread"}
  /\ UNCHANGED <<job, kills, inJob, root, child, doomed, thread, window>>

\* Mutant: a process that cannot be assigned or resumed is left as it is.
BuildFails_Suspended ==
  /\ owner \in Building \ {"new", "resumed"}
  /\ owner' = "raised" /\ job' = "closed" /\ handles' = {}
  /\ doomed' = doomed \cup Members
  /\ UNCHANGED <<kills, inJob, root, child, thread, window>>

\* Any call of the constructor raises: a process that exists is terminated, the
\* thread handle is closed by its finally and the rest by close().
BuildFails ==
  /\ owner \in Building \ {"new", "resumed"}
  /\ owner' = "raised" /\ job' = "closed" /\ handles' = {}
  /\ doomed' = doomed \cup Members \cup (IF root = "suspended" THEN {"root"} ELSE {})
  /\ UNCHANGED <<kills, inJob, root, child, thread, window>>

JobFails == Goto("new", "raised") /\ UNCHANGED <<tree, thread, window>>
-----------------------------------------------------------------------------
(* execute_run with the tree. *)

\* activation.start(), or nothing: switched off, or no thread could be started.
StartActivation ==
  /\ Goto("body", "watched")
  /\ act' \in {"wait", "off"}
  /\ UNCHANGED <<tree, stopped, candidate, attempts, attached, window>>

\* The polling loop ends because the root ended (not the child) ...
RootSeenEnded ==
  /\ Goto("watched", "drained") /\ root \in {"ok", "error", "killed"}
  /\ UNCHANGED <<tree, thread, window>>

\* ... or because the run is cancelled or its limit is over: TerminateJobObject.
Stop ==
  /\ Goto("watched", "drained")
  /\ doomed' = doomed \cup inJob
  /\ UNCHANGED <<job, kills, handles, inJob, root, child, thread, window>>

\* Mutant: only an exception stops the activation thread.
StopActivation_Never == Goto("drained", "stopping") /\ UNCHANGED <<tree, thread, window>>

\* activation.close(), after process.wait(10) whatever it returned.
StopActivation ==
  /\ Goto("drained", "stopping") /\ stopped' = TRUE
  /\ UNCHANGED <<tree, act, candidate, attempts, attached, window>>

\* close(): every handle, the job's last; its members are killed.
Released == handles' = {} /\ job' = "closed" /\ doomed' = doomed \cup Members

Close ==
  /\ Goto("stopping", "closed") /\ Released
  /\ UNCHANGED <<kills, inJob, root, child, thread, window>>

\* A transaction or a call raises inside the with block: __exit__ closes the
\* tree first, the finally of execute_run stops the activation thread after it.
BodyFails ==
  /\ owner \in {"body", "watched", "drained", "stopping"} /\ owner' = "failing"
  /\ UNCHANGED <<tree, thread, window>>

CloseFailed ==
  /\ Goto("failing", "unwinding") /\ Released
  /\ UNCHANGED <<kills, inJob, root, child, thread, window>>

Unwind ==
  /\ Goto("unwinding", "closed") /\ stopped' = TRUE
  /\ UNCHANGED <<tree, act, candidate, attempts, attached, window>>

\* The engine's process dies: its threads with it, its handles are closed.
Crash ==
  /\ owner \notin Ended /\ owner' = "dead"
  /\ Released
  /\ act' = (IF act = "off" THEN "off" ELSE "ended") /\ attached' = FALSE
  /\ UNCHANGED <<kills, inJob, root, child, stopped, candidate, attempts, window>>
-----------------------------------------------------------------------------
(* The robot and the system. *)

RootExits ==
  /\ root = "running" /\ "root" \notin doomed /\ root' \in {"ok", "error"}
  /\ UNCHANGED <<owner, job, kills, handles, inJob, child, doomed, thread, window>>

\* What a process in a job starts is in the job as well.
RootStartsChild ==
  /\ root = "running" /\ "root" \notin doomed /\ child = "none"
  /\ child' = "running" /\ inJob' = inJob \cup (IF "root" \in inJob THEN {"child"} ELSE {})
  /\ UNCHANGED <<owner, job, kills, handles, root, doomed, thread, window>>

ChildExits ==
  /\ child = "running" /\ child' = "gone"
  /\ UNCHANGED <<owner, job, kills, handles, inJob, root, doomed, thread, window>>

KillRoot ==
  /\ "root" \in doomed /\ root \in {"suspended", "running"} /\ root' = "killed"
  /\ UNCHANGED <<owner, job, kills, handles, inJob, child, doomed, thread, window>>

KillChild ==
  /\ "child" \in doomed /\ child = "running" /\ child' = "gone"
  /\ UNCHANGED <<owner, job, kills, handles, inJob, root, doomed, thread, window>>

\* Windows open and close, and their identifiers are given to other processes:
\* of this run, of the job that the engine itself is in, or of neither.
WindowChanges ==
  /\ window' \in {"run", "site", "other"} /\ (window' = "run" => Running # {})
  /\ window' # window
  /\ UNCHANGED <<owner, tree, thread>>
-----------------------------------------------------------------------------
(* OwnedWindowActivation._watch and _activate *)

\* QueryInformationJobObject of self.process.job. After close() that is None,
\* which Windows takes for the job that the caller is in, if any.
Pids ==
  IF job = "open" THEN (IF Running \cap inJob # {} THEN {"run"} ELSE {})
  ELSE IF WorkerInJob THEN {"site"} ELSE {}

Act(from, to) == act = from /\ act' = to /\ UNCHANGED <<owner, tree, stopped, window>>

Wake == ~stopped /\ Act("wait", "scan") /\ UNCHANGED <<candidate, attempts, attached>>

\* The event is set, or the 120 seconds are over.
Leave == Act("wait", "ended") /\ UNCHANGED <<candidate, attempts, attached>>

Scan ==
  /\ candidate' = IF window \in Pids THEN window ELSE "none"
  /\ Act("scan", "pick") /\ UNCHANGED <<attempts, attached>>

Try ==
  /\ candidate # "none" /\ attempts < MaxAttempts /\ ~stopped
  /\ attempts' = attempts + 1
  /\ Act("pick", "recheck") /\ UNCHANGED <<candidate, attached>>

PassOver ==
  /\ candidate = "none" \/ attempts = MaxAttempts \/ stopped
  /\ Act("pick", "wait") /\ UNCHANGED <<candidate, attempts, attached>>

\* Mutant: the window of the snapshot is taken as it is.
StillOwned_Snapshot == candidate # "none"

StillOwned == window = candidate /\ window \in Pids /\ ~stopped

Recheck == StillOwned /\ Act("recheck", "focus") /\ UNCHANGED <<candidate, attempts, attached>>
Refuse == ~StillOwned /\ Act("recheck", "wait") /\ UNCHANGED <<candidate, attempts, attached>>

\* It is the foreground window already, or becomes it: not tried again.
Succeeded == attempts' = MaxAttempts

InFront == Act("focus", "wait") /\ Succeeded /\ UNCHANGED <<candidate, attached>>
AttachInput == Act("focus", "attached") /\ attached' = TRUE /\ UNCHANGED <<candidate, attempts>>

SetForeground ==
  /\ Act("attached", "detach") /\ (Succeeded \/ UNCHANGED attempts)
  /\ UNCHANGED <<candidate, attached>>

\* Any call raises: to the finally when the input may be attached.
ActivateFails ==
  /\ act \in {"scan", "recheck", "focus", "attached"}
  /\ act' = IF act = "attached" THEN "detach" ELSE "wait"
  /\ UNCHANGED <<owner, tree, stopped, window, candidate, attempts, attached>>

Detach == Act("detach", "wait") /\ attached' = FALSE /\ UNCHANGED <<candidate, attempts>>

Thread ==
  \/ Wake \/ Scan \/ Try \/ PassOver \/ Recheck \/ Refuse \/ InFront \/ AttachInput
  \/ SetForeground \/ ActivateFails \/ Detach

Owner ==
  \/ CreateJob \/ SetLimits \/ OpenStreams \/ CreateProcess \/ Assign \/ ResumeThread
  \/ CloseThread \/ BuildFails \/ JobFails \/ StartActivation \/ RootSeenEnded \/ Stop
  \/ StopActivation \/ Close \/ BodyFails \/ CloseFailed \/ Unwind

Next ==
  \/ Owner \/ Crash \/ Thread \/ Leave
  \/ RootExits \/ RootStartsChild \/ ChildExits \/ KillRoot \/ KillChild \/ WindowChanges

Spec == Init /\ [][Next]_vars

\* Threads run on, and a kill takes effect. No robot need exit, no run need be
\* stopped, and the 120 seconds of the activation count for nothing here.
Fairness ==
  /\ WF_vars(StopActivation \/ Close \/ CloseFailed \/ Unwind)
  /\ WF_vars(Thread \/ (stopped /\ Leave))
  /\ WF_vars(KillRoot) /\ WF_vars(KillChild)

FairSpec == Spec /\ Fairness
-----------------------------------------------------------------------------
TypeOK ==
  /\ owner \in Owners /\ job \in {"none", "open", "closed"} /\ kills \in BOOLEAN
  /\ handles \subseteq {"process", "thread", "streams"}
  /\ inJob \subseteq Processes /\ doomed \subseteq Processes
  /\ root \in {"none", "suspended", "running", "ok", "error", "killed"}
  /\ child \in {"none", "running", "gone"}
  /\ act \in {"off", "wait", "scan", "pick", "recheck", "focus", "attached", "detach", "ended"}
  /\ stopped \in BOOLEAN /\ attached \in BOOLEAN
  /\ window \in {"run", "site", "other"} /\ candidate \in {"none", "run", "site"}
  /\ attempts \in 0..MaxAttempts

\* Where execute_run is tells what the object owns.
BuildInv ==
  /\ owner = "new" => job = "none" /\ handles = {}
  /\ owner \in Ended \cup {"unwinding"} => job # "open" /\ handles = {}
  /\ owner \notin Ended \cup {"unwinding", "new"} => job = "open"
  /\ owner \notin Ended \cup {"unwinding", "new", "job"} => kills
  /\ owner \in {"new", "job", "limits", "streams"} => root = "none"
  /\ owner \in {"created", "assigned"} => root = "suspended"
  /\ owner \in {"new", "job", "limits", "streams", "created", "assigned"} => doomed = {}
  /\ owner \notin Ended \cup {"new", "job", "limits", "streams", "created"} => "root" \in inJob
  /\ root \in {"none", "suspended"} => child = "none"

\* A process of the robot that runs and was not told to end is in a job that is
\* open and will kill it: neither a failure at any call of the constructor, nor
\* an exception, nor the death of the engine lets it run on by itself
\* (ProcessTree: created suspended, assigned, then resumed).
NothingRunsUnowned ==
  \A p \in Running \ doomed : p \in inJob /\ job = "open" /\ kills

\* A process in the job was resumed, or is being made.
MemberInv == kills \/ inJob = {}

\* The activation thread lives between the end of the constructor and the end of
\* execute_run, and its input is attached to another's only inside _activate,
\* also when a call in between raises.
ThreadInv ==
  /\ attached => act \in {"attached", "detach"}
  /\ owner \in Building \cup {"body", "raised"} => act = "off"
  /\ owner = "dead" => act \in {"off", "ended"}
  /\ owner \in {"stopping", "closed"} => stopped

IInv == TypeOK /\ BuildInv /\ MemberInv /\ NothingRunsUnowned /\ ThreadInv

\* The thread goes on to touch a window only when, at the recheck, it belongs to
\* this run, although the handle may have been reused since the list was made and
\* the job may have been closed under it; the exception is the moment between
\* __exit__ and the finally of execute_run, when the query is about another job.
TouchesOwnWindows ==
  [][act = "recheck" /\ act' = "focus" => window = "run" \/ owner = "unwinding"]_vars

\* ProcessTree is the process the engine believes in.
Life ==
  IF root \in {"suspended", "running"} /\ "root" \in doomed THEN "dying"
  ELSE IF root = "running" THEN "alive" ELSE root

PL == INSTANCE ProcessLife WITH Trees <- {"root"}, life <- [t \in {"root"} |-> Life]
ImplementsProcessLife == PL!Spec

\* When the run is over or its engine dead, the whole tree ends: the child too,
\* which the engine never waited for, and the process that a constructor which
\* raised has not resumed. (An engine that dies between the creation and the
\* assignment leaves a suspended process behind.)
TreeEnds ==
  (owner \in Ended) ~> (Running = {} /\ (owner = "raised" => root # "suspended"))

\* When the run is over its activation thread ends, however the run ended.
ActivationEnds == (owner \in Ended) ~> (act \in {"off", "ended"})
=============================================================================
