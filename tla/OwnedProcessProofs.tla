------------------------- MODULE OwnedProcessProofs -------------------------
(***************************************************************************)
(* Proofs about OwnedProcess: whether or not the engine's own process is   *)
(* in a job, and however often a window is tried.                          *)
(***************************************************************************)
EXTENDS OwnedProcess, TLAPS

\* The steps of execute_run, of the robot and of the system.
Step ==
  \/ Owner \/ Crash
  \/ RootExits \/ RootStartsChild \/ ChildExits \/ KillRoot \/ KillChild \/ WindowChanges

\* Every step leaves the variables well typed.
LEMMA StepType == ASSUME IInv, Step PROVE TypeOK'
<1> USE DEF IInv, TypeOK, Owners, Building, Ended, Processes, Goto, tree, thread
<1>1. CASE CreateJob
  BY <1>1 DEF CreateJob
<1>2. CASE SetLimits
  BY <1>2 DEF SetLimits
<1>3. CASE OpenStreams
  BY <1>3 DEF OpenStreams
<1>4. CASE CreateProcess
  BY <1>4 DEF CreateProcess
<1>5. CASE Assign
  BY <1>5 DEF Assign
<1>6. CASE ResumeThread
  BY <1>6 DEF ResumeThread
<1>7. CASE CloseThread
  BY <1>7 DEF CloseThread
<1>8. CASE JobFails
  BY <1>8 DEF JobFails
<1>9. CASE BuildFails
  BY <1>9 DEF BuildFails, Members
<1>10. CASE Stop
  BY <1>10 DEF Stop
<1>11. CASE Close
  BY <1>11 DEF Close, Released, Members
<1>12. CASE CloseFailed
  BY <1>12 DEF CloseFailed, Released, Members
<1>13. CASE Crash
  <2> USE <1>13 DEF Crash, Released, Members
  <2>1. /\ owner' \in Owners /\ job' \in {"none", "open", "closed"} /\ kills' \in BOOLEAN
        /\ handles' \subseteq {"process", "thread", "streams"}
        /\ inJob' \subseteq Processes /\ doomed' \subseteq Processes
    OBVIOUS
  <2>2. /\ root' \in {"none", "suspended", "running", "ok", "error", "killed"}
        /\ child' \in {"none", "running", "gone"} /\ window' \in {"run", "site", "other"}
    OBVIOUS
  <2>3. /\ act' \in {"off", "wait", "scan", "pick", "recheck", "focus", "attached", "detach", "ended"}
        /\ stopped' \in BOOLEAN /\ attached' \in BOOLEAN
        /\ candidate' \in {"none", "run", "site"} /\ attempts' \in 0..MaxAttempts
    OBVIOUS
  <2> QED BY <2>1, <2>2, <2>3
<1>14. CASE StartActivation
  BY <1>14 DEF StartActivation
<1>15. CASE RootSeenEnded
  BY <1>15 DEF RootSeenEnded
<1>16. CASE StopActivation
  BY <1>16 DEF StopActivation
<1>17. CASE BodyFails
  BY <1>17 DEF BodyFails
<1>18. CASE Unwind
  BY <1>18 DEF Unwind
<1>19. CASE RootExits
  BY <1>19 DEF RootExits
<1>20. CASE ChildExits
  BY <1>20 DEF ChildExits
<1>21. CASE RootStartsChild
  BY <1>21 DEF RootStartsChild
<1>22. CASE KillRoot
  BY <1>22 DEF KillRoot
<1>23. CASE KillChild
  BY <1>23 DEF KillChild
<1>24. CASE WindowChanges
  BY <1>24 DEF WindowChanges
<1> QED
  BY <1>1, <1>2, <1>3, <1>4, <1>5, <1>6, <1>7, <1>8, <1>9, <1>10, <1>11, <1>12, <1>13,
     <1>14, <1>15, <1>16, <1>17, <1>18, <1>19, <1>20, <1>21, <1>22, <1>23, <1>24
  DEF Step, Owner

\* What the object owns follows execute_run.
LEMMA StepBuild == ASSUME IInv, Step PROVE BuildInv' /\ MemberInv'
<1> USE DEF IInv, TypeOK, BuildInv, MemberInv, NothingRunsUnowned, Running, Owners, Building, Ended,
            Processes, Goto, tree, thread
<1>1. CASE CreateJob \/ SetLimits \/ OpenStreams
  BY <1>1 DEF CreateJob, SetLimits, OpenStreams
<1>2. CASE CreateProcess \/ Assign
  BY <1>2 DEF CreateProcess, Assign
<1>3. CASE ResumeThread \/ CloseThread
  BY <1>3 DEF ResumeThread, CloseThread
<1>4. CASE BuildFails \/ JobFails
  BY <1>4 DEF BuildFails, JobFails, Members
<1>5. CASE Stop \/ Close \/ CloseFailed
  BY <1>5 DEF Stop, Close, CloseFailed, Released, Members
<1>6. CASE Crash
  BY <1>6 DEF Crash, Released, Members
<1>7. CASE StartActivation \/ RootSeenEnded \/ StopActivation \/ BodyFails \/ Unwind
  BY <1>7 DEF StartActivation, RootSeenEnded, StopActivation, BodyFails, Unwind
<1>8. CASE RootExits \/ RootStartsChild \/ ChildExits
  BY <1>8 DEF RootExits, RootStartsChild, ChildExits
<1>9. CASE KillRoot \/ KillChild \/ WindowChanges
  BY <1>9 DEF KillRoot, KillChild, WindowChanges
<1> QED BY <1>1, <1>2, <1>3, <1>4, <1>5, <1>6, <1>7, <1>8, <1>9 DEF Step, Owner

\* A process that is not doomed keeps its job.
LEMMA StepOwned == ASSUME IInv, Step PROVE NothingRunsUnowned'
<1> USE DEF IInv, TypeOK, BuildInv, MemberInv, NothingRunsUnowned, Running, Owners, Building, Ended,
            Processes, Goto, tree, thread
<1>1. CASE CreateJob \/ SetLimits \/ OpenStreams
  BY <1>1 DEF CreateJob, SetLimits, OpenStreams
<1>2. CASE CreateProcess \/ Assign
  BY <1>2 DEF CreateProcess, Assign
<1>3. CASE ResumeThread \/ CloseThread
  BY <1>3 DEF ResumeThread, CloseThread
<1>4. CASE BuildFails \/ JobFails
  BY <1>4 DEF BuildFails, JobFails, Members
<1>5. CASE Stop \/ Close \/ CloseFailed
  BY <1>5 DEF Stop, Close, CloseFailed, Released, Members
<1>6. CASE Crash
  BY <1>6 DEF Crash, Released, Members
<1>7. CASE StartActivation \/ RootSeenEnded \/ StopActivation \/ BodyFails \/ Unwind
  BY <1>7 DEF StartActivation, RootSeenEnded, StopActivation, BodyFails, Unwind
<1>8. CASE RootExits \/ RootStartsChild \/ ChildExits
  BY <1>8 DEF RootExits, RootStartsChild, ChildExits
<1>9. CASE KillRoot \/ KillChild \/ WindowChanges
  BY <1>9 DEF KillRoot, KillChild, WindowChanges
<1> QED BY <1>1, <1>2, <1>3, <1>4, <1>5, <1>6, <1>7, <1>8, <1>9 DEF Step, Owner

\* The thread is started after the constructor and stopped before the end.
LEMMA StepThread == ASSUME IInv, Step PROVE ThreadInv'
<1> USE DEF IInv, TypeOK, ThreadInv, Owners, Building, Ended, Goto, tree, thread
<1>1. CASE CreateJob \/ SetLimits \/ OpenStreams
  BY <1>1 DEF CreateJob, SetLimits, OpenStreams
<1>2. CASE CreateProcess \/ Assign
  BY <1>2 DEF CreateProcess, Assign
<1>3. CASE ResumeThread \/ CloseThread
  BY <1>3 DEF ResumeThread, CloseThread
<1>4. CASE BuildFails \/ JobFails
  BY <1>4 DEF BuildFails, JobFails, Members
<1>5. CASE Stop \/ Close \/ CloseFailed
  BY <1>5 DEF Stop, Close, CloseFailed, Released, Members
<1>6. CASE Crash
  BY <1>6 DEF Crash, Released, Members
<1>7. CASE StartActivation \/ RootSeenEnded \/ StopActivation \/ BodyFails \/ Unwind
  BY <1>7 DEF StartActivation, RootSeenEnded, StopActivation, BodyFails, Unwind
<1>8. CASE RootExits \/ RootStartsChild \/ ChildExits
  BY <1>8 DEF RootExits, RootStartsChild, ChildExits
<1>9. CASE KillRoot \/ KillChild \/ WindowChanges
  BY <1>9 DEF KillRoot, KillChild, WindowChanges
<1> QED BY <1>1, <1>2, <1>3, <1>4, <1>5, <1>6, <1>7, <1>8, <1>9 DEF Step, Owner

\* What the activation thread does keeps the invariant.
LEMMA ThreadKeeps ==
  ASSUME IInv, Thread \/ Leave
  PROVE  IInv'
<1> USE OwnedProcessAssumption DEF Act, tree
<1>1. UNCHANGED <<owner, tree, stopped, window>> /\ act \notin {"off", "ended"}
  BY DEF Thread, Wake, Leave, Scan, Try, PassOver, Recheck, Refuse, InFront, AttachInput,
     SetForeground, ActivateFails, Detach
<1>2. TypeOK'
  <2> USE <1>1 DEF IInv, TypeOK
  <2>1. CASE Wake \/ Leave \/ PassOver \/ Recheck \/ Refuse \/ ActivateFails
    BY <2>1 DEF Wake, Leave, PassOver, Recheck, Refuse, ActivateFails
  <2>2. CASE Scan
    BY <2>2 DEF Scan, Pids
  <2>3. CASE Try
    BY <2>3 DEF Try
  <2>4. CASE InFront \/ SetForeground
    BY <2>4 DEF InFront, SetForeground, Succeeded
  <2>5. CASE AttachInput
    BY <2>5 DEF AttachInput
  <2>6. CASE Detach
    BY <2>6 DEF Detach
  <2> QED BY <2>1, <2>2, <2>3, <2>4, <2>5, <2>6 DEF Thread
<1>3. ThreadInv'
  BY <1>1 DEF IInv, ThreadInv, Thread, Wake, Leave, Scan, Try, PassOver, Recheck, Refuse, InFront,
     AttachInput, SetForeground, ActivateFails, Detach
<1>4. BuildInv' /\ MemberInv' /\ NothingRunsUnowned'
  BY <1>1 DEF IInv, BuildInv, MemberInv, NothingRunsUnowned, Running
<1> QED BY <1>2, <1>3, <1>4 DEF IInv

\* The tree and the thread are always as IInv says: in particular no process of
\* the robot runs that is neither in a job that will end it nor already told to
\* end, whichever call fails (ProcessTree.__init__, close, __exit__).
THEOREM Invariance == Spec => []IInv
<1>1. Init => IInv
  <2> SUFFICES ASSUME Init PROVE IInv
    OBVIOUS
  <2>1. TypeOK
    <3>1. attempts \in 0..MaxAttempts
      BY OwnedProcessAssumption DEF Init
    <3>2. owner \in Owners /\ kills \in BOOLEAN /\ stopped \in BOOLEAN /\ attached \in BOOLEAN
      BY DEF Init, Owners, Building
    <3> QED BY <3>1, <3>2 DEF Init, TypeOK
  <2>2. BuildInv
    BY DEF Init, BuildInv, Ended
  <2>3. MemberInv /\ NothingRunsUnowned /\ ThreadInv
    BY DEF Init, MemberInv, NothingRunsUnowned, ThreadInv, Running
  <2> QED BY <2>1, <2>2, <2>3 DEF IInv
<1>2. IInv /\ [Next]_vars => IInv'
  <2> SUFFICES ASSUME IInv, [Next]_vars PROVE IInv'
    OBVIOUS
  <2>1. CASE UNCHANGED vars
    <3> USE <2>1 DEF vars, tree, thread, IInv
    <3>1. TypeOK' /\ BuildInv'
      BY DEF TypeOK, BuildInv
    <3>2. MemberInv' /\ NothingRunsUnowned' /\ ThreadInv'
      BY DEF MemberInv, NothingRunsUnowned, ThreadInv, Running
    <3> QED BY <3>1, <3>2
  <2> QED BY <2>1, StepType, StepBuild, StepOwned, StepThread, ThreadKeeps DEF Next, Step, IInv
<1> QED BY <1>1, <1>2, PTL DEF Spec

\* No process runs unowned, whatever fails.
THEOREM NoneUnowned == Spec => []NothingRunsUnowned
BY Invariance, PTL DEF IInv

\* Only windows of the run are touched, but for the moment in which a failed run
\* has closed its job and not yet stopped the thread.
THEOREM OwnWindows == Spec => TouchesOwnWindows
<1>1. IInv /\ [Next]_vars =>
        (act = "recheck" /\ act' = "focus" => window = "run" \/ owner = "unwinding")
  <2> SUFFICES ASSUME IInv, [Next]_vars, act = "recheck", act' = "focus", owner # "unwinding"
               PROVE  window = "run"
    OBVIOUS
  <2>1. ~(Owner \/ Crash)
    BY DEF Owner, Crash, CreateJob, SetLimits, OpenStreams, CreateProcess, Assign, ResumeThread,
       CloseThread, BuildFails, JobFails, StartActivation, RootSeenEnded, Stop, StopActivation,
       Close, BodyFails, CloseFailed, Unwind, thread
  <2>2. ~(RootExits \/ RootStartsChild \/ ChildExits \/ KillRoot \/ KillChild \/ WindowChanges)
    BY DEF RootExits, RootStartsChild, ChildExits, KillRoot, KillChild, WindowChanges, thread
  <2>3. Recheck
    BY <2>1, <2>2 DEF Next, Thread, Leave, Wake, Scan, Try, PassOver, Refuse, InFront, AttachInput,
       SetForeground, ActivateFails, Detach, Act, vars, thread
  <2>4. ~stopped /\ window \in Pids
    BY <2>3 DEF Recheck, StillOwned
  <2>5. job = "open"
    BY <2>4 DEF IInv, TypeOK, BuildInv, ThreadInv, Owners, Building, Ended
  <2> QED BY <2>4, <2>5 DEF Pids
<1> QED BY <1>1, Invariance, PTL DEF Spec, TouchesOwnWindows

-----------------------------------------------------------------------------
(* The refinement. *)

\* The steps that the life of a process may take.
LifeSteps ==
  {<<"none", "suspended">>, <<"suspended", "alive">>, <<"suspended", "dying">>, <<"alive", "ok">>,
   <<"alive", "error">>, <<"alive", "dying">>, <<"dying", "killed">>}

\* Such a step of Life is a step of ProcessLife.
LEMMA LifeStep ==
  ASSUME <<Life, Life'>> \in LifeSteps \/ Life' = Life
  PROVE  [PL!Next]_[t \in {"root"} |-> Life]
<1> DEFINE l == [t \in {"root"} |-> Life]
<1>1. l["root"] = Life /\ \A s : (Life' = s => l' = [l EXCEPT !["root"] = s])
  OBVIOUS
<1>2. CASE Life' = Life
  BY <1>2
<1>3. CASE <<Life, Life'>> \in LifeSteps
  BY <1>1, <1>3 DEF LifeSteps, PL!Next, PL!Create, PL!Resume, PL!Discard, PL!Exit, PL!Doom, PL!Kill,
     PL!Becomes
<1> QED BY <1>2, <1>3

\* Every step of a tree is such a step or leaves the life of the root alone.
LEMMA TreeStep ==
  ASSUME IInv, [Next]_vars
  PROVE  <<Life, Life'>> \in LifeSteps \/ Life' = Life
<1> USE DEF Life
<1>1. CASE UNCHANGED <<root, doomed>>
  BY <1>1
<1>2. CASE CreateProcess \/ ResumeThread
  BY <1>2 DEF CreateProcess, ResumeThread, Goto, LifeSteps, IInv, BuildInv
<1>3. CASE BuildFails \/ Stop \/ Close \/ CloseFailed \/ Crash
  <2>1. root' = root /\ doomed \subseteq doomed'
    BY <1>3 DEF BuildFails, Stop, Close, CloseFailed, Crash, Released
  <2> QED BY <2>1 DEF LifeSteps
<1>4. CASE RootExits \/ KillRoot
  BY <1>4 DEF RootExits, KillRoot, LifeSteps
<1>5. CASE CreateJob \/ SetLimits \/ OpenStreams \/ Assign \/ CloseThread \/ JobFails
           \/ StartActivation \/ RootSeenEnded \/ StopActivation \/ BodyFails \/ Unwind
  BY <1>1, <1>5 DEF CreateJob, SetLimits, OpenStreams, Assign, CloseThread, JobFails,
     StartActivation, RootSeenEnded, StopActivation, BodyFails, Unwind, tree
<1>6. CASE RootStartsChild \/ ChildExits \/ KillChild \/ WindowChanges \/ UNCHANGED vars
  BY <1>1, <1>6 DEF RootStartsChild, ChildExits, KillChild, WindowChanges, tree, vars
<1>7. CASE Thread \/ Leave
  BY <1>1, <1>7 DEF Thread, Leave, Wake, Scan, Try, PassOver, Recheck, Refuse, InFront, AttachInput,
     SetForeground, ActivateFails, Detach, Act, tree
<1> QED BY <1>2, <1>3, <1>4, <1>5, <1>6, <1>7 DEF Next, Owner

\* ProcessTree, with every failure of it, is the process that ProcessLife
\* describes and the engine believes in.
THEOREM ProcessRefinement == Spec => ImplementsProcessLife
<1>1. Init => PL!Init
  BY DEF Init, PL!Init, Life
<1>2. IInv /\ [Next]_vars => [PL!Next]_[t \in {"root"} |-> Life]
  BY LifeStep, TreeStep
<1> QED BY <1>1, <1>2, Invariance, PTL DEF Spec, ImplementsProcessLife, PL!Spec
=============================================================================
