-------------------------- MODULE MirrorTypeProofs --------------------------
(***************************************************************************)
(* Type correctness of MirrorSupervisor for every set of jobs and every    *)
(* bound.  TypeOK is inductive as it stands.  Each action changes one to   *)
(* three of the nine groups of variables: Frames covers the others, and    *)
(* there is one step for each group the action writes.                     *)
(***************************************************************************)
EXTENDS MirrorSupervisor, TLAPS

(* Time for the provers, enough for a loaded machine.                      *)
USE SMTT(20), ZenonT(40)

(* What the assumptions on the constants say.                              *)
LEMMA ConstantTypes ==
    /\ MaxRuns \in Nat /\ MaxCrashes \in Nat
    /\ NoJob \notin Jobs /\ WikiJobs \subseteq Jobs
    /\ Linux \in BOOLEAN /\ Stubborn \in BOOLEAN
BY JobsAssumption, BoundsAssumption, HostAssumption

(* Updating a function, inside its domain or not, keeps its type.           *)
LEMMA ExceptType ==
    ASSUME NEW S, NEW T, NEW f \in [S -> T], NEW x, NEW v, x \in S => v \in T
    PROVE  [f EXCEPT ![x] = v] \in [S -> T]
OBVIOUS

(* Neither signal changes the kind of what the model knows of processes.   *)
LEMMA SignalTypes ==
    ASSUME TypeOs, NEW r, NEW by \in {"owned", "guessed"},
           SigTerm(r, by) \/ SigKill(r, by)
    PROVE  TypeOs'
<1>1. leader' \in [Runs -> {"none", "alive", "zombie", "gone"}]
  BY ExceptType DEF TypeOs, SigTerm, SigKill
<1>2. desc' \in [Runs -> BOOLEAN]
  BY ExceptType DEF TypeOs, SigTerm, SigKill
<1>3. exit0' \in [Runs -> BOOLEAN]
  BY ExceptType DEF TypeOs, SigTerm, SigKill
<1>4. foreign' \in SUBSET {"owned", "guessed"} /\ reused' \in [Runs -> BOOLEAN]
  BY DEF TypeOs, SigTerm, SigKill, SignalsForeign
<1> QED BY <1>1, <1>2, <1>3, <1>4 DEF TypeOs

(* A variable group that a step leaves alone keeps its kind.               *)
LEMMA Frames ==
    /\ TypeJobs /\ UNCHANGED jobVars => TypeJobs'
    /\ TypeRows /\ UNCHANGED rowVars => TypeRows'
    /\ TypeOwners /\ UNCHANGED ownerVars => TypeOwners'
    /\ TypeEngine /\ UNCHANGED <<engineVars, pc>> => TypeEngine'
    /\ TypeStops /\ UNCHANGED stopVars => TypeStops'
    /\ TypeSched /\ UNCHANGED schedVars => TypeSched'
    /\ TypeRec /\ UNCHANGED recVars => TypeRec'
    /\ TypeDel /\ UNCHANGED delVars => TypeDel'
    /\ TypeOs /\ UNCHANGED osVars => TypeOs'
BY DEF TypeJobs, TypeRows, TypeOwners, TypeEngine, TypeStops, TypeSched,
       TypeRec, TypeDel, TypeOs, jobVars, rowVars, ownerVars, engineVars,
       stopVars, schedVars, recVars, delVars, osVars

(* The program starts with values of the declared kinds.                   *)
LEMMA InitTypeOK == Init => TypeOK
<1>1. Init => TypeJobs
  BY ConstantTypes DEF Init, TypeJobs, Registered, DeleteModes
<1>2. Init => TypeRows
  BY ConstantTypes DEF Init, TypeRows, Runs, ActiveStates, TerminalStates,
     StopReasons
<1>3. Init => TypeOwners
  BY ConstantTypes DEF Init, TypeOwners, Runs, StopReasons
<1>4. Init => TypeEngine
  BY ConstantTypes DEF Init, TypeEngine, Runs, ThreadSteps
<1>5. Init => TypeStops
  BY ConstantTypes DEF Init, TypeStops, StopCalls, StopReasons, Runs
<1>6. Init => TypeSched
  BY ConstantTypes DEF Init, TypeSched
<1>7. Init => TypeRec
  BY ConstantTypes DEF Init, TypeRec, Runs, Recoverers, ActiveStates
<1>8. Init => TypeDel
  BY ConstantTypes DEF Init, TypeDel
<1>9. Init => TypeOs
  BY ConstantTypes DEF Init, TypeOs, Runs
<1> QED BY <1>1, <1>2, <1>3, <1>4, <1>5, <1>6, <1>7, <1>8, <1>9 DEF TypeOK

(* job_add, job_set_paused, job_run and job_cancel write values of their kinds. *)
LEMMA TypeUserRequest ==
    ASSUME TypeOK, UserRequest
    PROVE  TypeOK'
<1>1. ASSUME NEW j \in Jobs, JobAdd(j)
      PROVE  TypeOK'
  <2> USE <1>1 DEF JobAdd
  <2>1. TypeRows' /\ TypeOwners' /\ TypeEngine' /\ TypeStops' /\ TypeSched' /\
        TypeRec' /\ TypeDel' /\ TypeOs'
    BY Frames DEF TypeOK
  <2>2. TypeJobs'
    BY ConstantTypes DEF TypeOK, TypeJobs, jobVars, Registered, DeleteModes
  <2> QED BY <2>1, <2>2 DEF TypeOK
<1>2. ASSUME NEW j \in Jobs, JobSetPaused(j)
      PROVE  TypeOK'
  <2> USE <1>2 DEF JobSetPaused
  <2>1. TypeRows' /\ TypeOwners' /\ TypeEngine' /\ TypeStops' /\ TypeSched' /\
        TypeRec' /\ TypeDel' /\ TypeOs'
    BY Frames DEF TypeOK
  <2>2. TypeJobs'
    BY ConstantTypes DEF TypeOK, TypeJobs, jobVars, Registered, DeleteModes
  <2> QED BY <2>1, <2>2 DEF TypeOK
<1>3. ASSUME NEW j \in Jobs, JobRun(j)
      PROVE  TypeOK'
  <2> USE <1>3 DEF JobRun, InsertRun
  <2>1. TypeJobs' /\ TypeOwners' /\ TypeStops' /\ TypeSched' /\ TypeRec' /\
        TypeDel' /\ TypeOs'
    BY Frames DEF TypeOK
  <2>2. TypeRows'
    BY ConstantTypes DEF TypeOK, TypeRows, rowVars, Runs, ActiveStates,
       TerminalStates, StopReasons
  <2>3. TypeEngine'
    BY ConstantTypes DEF TypeOK, TypeEngine, TypeRows, engineVars, Runs,
       ThreadSteps, ActiveStates, TerminalStates, StopReasons
  <2> QED BY <2>1, <2>2, <2>3 DEF TypeOK
<1>4. ASSUME NEW r \in Runs, JobCancel(r)
      PROVE  TypeOK'
  <2> USE <1>4 DEF JobCancel, RequestStop, StopReasonFor, StopOnly
  <2>1. TypeJobs' /\ TypeOwners' /\ TypeEngine' /\ TypeSched' /\ TypeRec' /\
        TypeDel' /\ TypeOs'
    BY Frames DEF TypeOK
  <2>2. TypeRows'
    BY ConstantTypes DEF TypeOK, TypeRows, rowVars, Runs, ActiveStates,
       TerminalStates, StopReasons
  <2>3. TypeStops'
    BY ConstantTypes DEF TypeOK, TypeStops, TypeRows, stopVars, StopCalls,
       StopReasons, Runs, ActiveStates, TerminalStates
  <2> QED BY <2>1, <2>2, <2>3 DEF TypeOK
<1> QED BY <1>1, <1>2, <1>3, <1>4 DEF UserRequest

(* So do the steps of a job deletion.                                      *)
LEMMA TypeDeletion ==
    ASSUME TypeOK, Deletion
    PROVE  TypeOK'
<1>1. ASSUME NEW j \in Jobs, NEW mode \in DeleteModes, DeletePrepare(j, mode)
      PROVE  TypeOK'
  <2> USE <1>1 DEF DeletePrepare
  <2>1. TypeRows' /\ TypeOwners' /\ TypeEngine' /\ TypeStops' /\ TypeSched' /\
        TypeRec' /\ TypeOs'
    BY Frames DEF TypeOK
  <2>2. TypeJobs'
    BY ConstantTypes DEF TypeOK, TypeJobs, jobVars, Registered, DeleteModes
  <2>3. TypeDel'
    BY ConstantTypes DEF TypeOK, TypeDel, delVars
  <2> QED BY <2>1, <2>2, <2>3 DEF TypeOK
<1>2. CASE DeleteDropOwner
  <2> USE <1>2 DEF DeleteDropOwner
  <2>1. TypeJobs' /\ TypeRows' /\ TypeEngine' /\ TypeStops' /\ TypeSched' /\
        TypeRec' /\ TypeOs'
    BY Frames DEF TypeOK
  <2>2. TypeOwners'
    <3>1. 0 \in 0..MaxRuns
      BY ConstantTypes
    <3>2. ownRun' \in [Jobs -> 0..MaxRuns]
      BY <3>1, ExceptType DEF TypeOK, TypeOwners
    <3>3. ownPg' \in [Jobs -> BOOLEAN]
      BY ExceptType DEF TypeOK, TypeOwners
    <3>4. ownStop' \in [Jobs -> {"none"} \cup StopReasons]
      BY ExceptType DEF TypeOK, TypeOwners
    <3> QED BY <3>2, <3>3, <3>4 DEF TypeOwners
  <2>3. TypeDel'
    BY ConstantTypes DEF TypeOK, TypeDel, delVars
  <2> QED BY <2>1, <2>2, <2>3 DEF TypeOK
<1>3. CASE DeleteFail
  <2> USE <1>3 DEF DeleteFail
  <2>1. TypeJobs' /\ TypeRows' /\ TypeOwners' /\ TypeEngine' /\ TypeStops' /\
        TypeSched' /\ TypeRec' /\ TypeOs'
    BY Frames DEF TypeOK
  <2>2. TypeDel'
    BY ConstantTypes DEF TypeOK, TypeDel, delVars
  <2> QED BY <2>1, <2>2 DEF TypeOK
<1>4. CASE DeleteFinish
  <2> USE <1>4 DEF DeleteFinish
  <2>1. TypeOwners' /\ TypeEngine' /\ TypeStops' /\ TypeSched' /\ TypeRec' /\
        TypeOs'
    BY Frames DEF TypeOK
  <2>2. TypeJobs'
    BY ConstantTypes DEF TypeOK, TypeJobs, TypeDel, jobVars, Registered,
       DeleteModes
  <2>3. TypeRows'
    <3>1. 0 \in 0..MaxRuns
      BY ConstantTypes
    <3>2. newest' \in [Jobs -> 0..MaxRuns]
      BY <3>1, ExceptType DEF TypeOK, TypeRows
    <3>3. rstate' \in [Runs -> {"none"} \cup ActiveStates \cup TerminalStates]
      BY DEF TypeOK, TypeRows
    <3> QED BY <3>2, <3>3 DEF TypeOK, TypeRows
  <2>4. TypeDel'
    BY ConstantTypes DEF TypeOK, TypeDel, delVars
  <2> QED BY <2>1, <2>2, <2>3, <2>4 DEF TypeOK
<1> QED BY <1>1, <1>2, <1>3, <1>4 DEF Deletion

(* So does every step of a run's thread (spawn_run).                       *)
LEMMA TypeRunThread ==
    ASSUME TypeOK, NEW r \in Runs, RunThread(r)
    PROVE  TypeOK'
<1>1. CASE CheckStop(r)
  <2> USE <1>1 DEF CheckStop, At, Goto, ThreadOnly
  <2>1. TypeJobs' /\ TypeRows' /\ TypeOwners' /\ TypeStops' /\ TypeSched' /\
        TypeRec' /\ TypeDel' /\ TypeOs'
    BY Frames DEF TypeOK
  <2>2. TypeEngine'
    BY ConstantTypes DEF TypeOK, TypeEngine, engineVars, Runs, ThreadSteps
  <2> QED BY <2>1, <2>2 DEF TypeOK
<1>2. CASE FinishStoppedRun(r)
  <2> USE <1>2 DEF FinishStoppedRun, FinishStoppedRow, SetState,
     StopOutcome, At, Goto, ThreadOnly
  <2>1. TypeJobs' /\ TypeOwners' /\ TypeStops' /\ TypeSched' /\ TypeRec' /\
        TypeDel' /\ TypeOs'
    BY Frames DEF TypeOK
  <2>2. TypeRows'
    BY ConstantTypes DEF TypeOK, TypeRows, rowVars, Runs, ActiveStates,
       TerminalStates, StopReasons
  <2>3. TypeEngine'
    BY ConstantTypes DEF TypeOK, TypeEngine, engineVars, Runs, ThreadSteps
  <2> QED BY <2>1, <2>2, <2>3 DEF TypeOK
<1>3. CASE FinishPreSpawnFailure(r)
  <2> USE <1>3 DEF FinishPreSpawnFailure, SetState, StopOutcome, At, Goto,
     ThreadOnly
  <2>1. TypeJobs' /\ TypeOwners' /\ TypeStops' /\ TypeSched' /\ TypeRec' /\
        TypeDel' /\ TypeOs'
    BY Frames DEF TypeOK
  <2>2. TypeRows'
    BY ConstantTypes DEF TypeOK, TypeRows, rowVars, Runs, ActiveStates,
       TerminalStates, StopReasons
  <2>3. TypeEngine'
    BY ConstantTypes DEF TypeOK, TypeEngine, engineVars, Runs, ThreadSteps
  <2> QED BY <2>1, <2>2, <2>3 DEF TypeOK
<1>4. CASE SpawnDriver(r)
  <2> USE <1>4 DEF SpawnDriver, At, Goto, ThreadOnly
  <2>1. TypeJobs' /\ TypeRows' /\ TypeOwners' /\ TypeStops' /\ TypeSched' /\
        TypeRec' /\ TypeDel'
    BY Frames DEF TypeOK
  <2>2. TypeEngine'
    BY ConstantTypes DEF TypeOK, TypeEngine, engineVars, Runs, ThreadSteps
  <2>3. TypeOs'
    BY ConstantTypes DEF TypeOK, TypeOs, osVars, Runs
  <2> QED BY <2>1, <2>2, <2>3 DEF TypeOK
<1>5. CASE RecordSpawned(r)
  <2> USE <1>5 DEF RecordSpawned, At, Goto, ThreadOnly
  <2>1. TypeJobs' /\ TypeOwners' /\ TypeStops' /\ TypeSched' /\ TypeRec' /\
        TypeDel' /\ TypeOs'
    BY Frames DEF TypeOK
  <2>2. TypeRows'
    <3>1. RecordedState(r) # "none" => RecordedState(r) \in ActiveStates
      BY DEF RecordedState, ActiveStates
    <3>2. CASE UNCHANGED rowVars
      BY <3>2, Frames DEF TypeOK
    <3>3. CASE ~UNCHANGED rowVars
      <4>1. rstate' \in [Runs -> {"none"} \cup ActiveStates \cup TerminalStates]
        BY <3>1, <3>3, ExceptType DEF TypeOK, TypeRows
      <4>2. pg' \in [Runs -> BOOLEAN]
        BY <3>3, ExceptType DEF TypeOK, TypeRows
      <4>3. ident' \in [Runs -> BOOLEAN]
        BY <3>3, ExceptType DEF TypeOK, TypeRows
      <4> QED BY <3>3, <4>1, <4>2, <4>3 DEF TypeOK, TypeRows
    <3> QED BY <3>2, <3>3
  <2>3. TypeEngine'
    BY ConstantTypes DEF TypeOK, TypeEngine, engineVars, Runs, ThreadSteps
  <2> QED BY <2>1, <2>2, <2>3 DEF TypeOK
<1>6. CASE KillUnrecorded(r)
  <2> USE <1>6 DEF KillUnrecorded, At, Goto, ThreadOnly
  <2>1. TypeJobs' /\ TypeRows' /\ TypeOwners' /\ TypeStops' /\ TypeSched' /\
        TypeRec' /\ TypeDel'
    BY Frames DEF TypeOK
  <2>2. TypeEngine'
    BY ConstantTypes DEF TypeOK, TypeEngine, engineVars, Runs, ThreadSteps
  <2>3. TypeOs'
    BY ConstantTypes DEF TypeOK, TypeOs, osVars, Runs
  <2> QED BY <2>1, <2>2, <2>3 DEF TypeOK
<1>7. CASE AttachGroup(r)
  <2> USE <1>7 DEF AttachGroup, At, Goto,
     ThreadOnly
  <2>1. TypeJobs' /\ TypeRows' /\ TypeStops' /\ TypeSched' /\ TypeRec' /\
        TypeDel' /\ TypeOs'
    BY Frames DEF TypeOK
  <2>2. TypeOwners'
    <3>1. ASSUME ownRun[jobOf[r]] = r, jobOf[r] \in Jobs
          PROVE  EffectiveStop(r) \in {"none"} \cup StopReasons
      BY <3>1 DEF TypeOK, TypeOwners, TypeRows, EffectiveStop, SpawnStop
    <3>2. CASE UNCHANGED ownerVars
      BY <3>2, Frames DEF TypeOK
    <3>3. CASE ~UNCHANGED ownerVars
      <4>1. /\ ownPg' \in [Jobs -> BOOLEAN]
            /\ ownRun' \in [Jobs -> 0..MaxRuns]
        BY <3>3, ExceptType DEF TypeOK, TypeOwners
      <4>2. ownStop' \in [Jobs -> {"none"} \cup StopReasons]
        BY <3>1, <3>3, ExceptType DEF TypeOK, TypeOwners
      <4> QED BY <4>1, <4>2 DEF TypeOwners
    <3> QED BY <3>2, <3>3
  <2>3. TypeEngine'
    BY ConstantTypes DEF TypeOK, TypeEngine, TypeRows, engineVars, Runs,
       ThreadSteps, ActiveStates, TerminalStates, StopReasons
  <2> QED BY <2>1, <2>2, <2>3 DEF TypeOK
<1>8. CASE TermNewGroup(r)
  <2> USE <1>8 DEF TermNewGroup, At, Goto, ThreadOnly
  <2>1. TypeJobs' /\ TypeRows' /\ TypeOwners' /\ TypeStops' /\ TypeSched' /\
        TypeRec' /\ TypeDel'
    BY Frames DEF TypeOK
  <2>2. TypeEngine'
    BY ConstantTypes DEF TypeOK, TypeEngine, engineVars, Runs, ThreadSteps
  <2>3. TypeOs'
    BY SignalTypes DEF TypeOK
  <2> QED BY <2>1, <2>2, <2>3 DEF TypeOK
<1>9. CASE WaitEndOfStream(r)
  <2> USE <1>9 DEF WaitEndOfStream, ReapLeader, At, Goto, ThreadOnly
  <2>1. TypeJobs' /\ TypeRows' /\ TypeOwners' /\ TypeStops' /\ TypeSched' /\
        TypeRec' /\ TypeDel'
    BY Frames DEF TypeOK
  <2>2. TypeEngine'
    BY ConstantTypes DEF TypeOK, TypeEngine, engineVars, Runs, ThreadSteps
  <2>3. TypeOs'
    BY ConstantTypes DEF TypeOK, TypeOs, osVars, Runs
  <2> QED BY <2>1, <2>2, <2>3 DEF TypeOK
<1>10. CASE WaitLeaderOnly(r)
  <2> USE <1>10 DEF WaitLeaderOnly, ReapLeader, At, Goto, ThreadOnly
  <2>1. TypeJobs' /\ TypeRows' /\ TypeOwners' /\ TypeStops' /\ TypeSched' /\
        TypeRec' /\ TypeDel'
    BY Frames DEF TypeOK
  <2>2. TypeEngine'
    BY ConstantTypes DEF TypeOK, TypeEngine, engineVars, Runs, ThreadSteps
  <2>3. TypeOs'
    BY ConstantTypes DEF TypeOK, TypeOs, osVars, Runs
  <2> QED BY <2>1, <2>2, <2>3 DEF TypeOK
<1>11. CASE KillLeftovers(r)
  <2> USE <1>11 DEF KillLeftovers, SignalOwned, SigKill, SignalsForeign, At,
     Goto, ThreadOnly
  <2>1. TypeJobs' /\ TypeRows' /\ TypeOwners' /\ TypeStops' /\ TypeSched' /\
        TypeRec' /\ TypeDel'
    BY Frames DEF TypeOK
  <2>2. TypeEngine'
    BY ConstantTypes DEF TypeOK, TypeEngine, engineVars, Runs, ThreadSteps
  <2>3. TypeOs'
    BY ConstantTypes DEF TypeOK, TypeOs, osVars, Runs
  <2> QED BY <2>1, <2>2, <2>3 DEF TypeOK
<1>12. CASE FinishChildRun(r)
  <2> USE <1>12 DEF FinishChildRun, ExitState, IsActive, SetState,
     StopOutcome, At, Goto, ThreadOnly
  <2>1. TypeJobs' /\ TypeOwners' /\ TypeStops' /\ TypeSched' /\ TypeRec' /\
        TypeDel'
    BY Frames DEF TypeOK
  <2>2. TypeRows'
    BY ConstantTypes DEF TypeOK, TypeRows, rowVars, Runs, ActiveStates,
       TerminalStates, StopReasons
  <2>3. TypeEngine'
    BY ConstantTypes DEF TypeOK, TypeEngine, engineVars, Runs, ThreadSteps
  <2>4. TypeOs'
    BY ConstantTypes DEF TypeOK, TypeOs, osVars, Runs
  <2> QED BY <2>1, <2>2, <2>3, <2>4 DEF TypeOK
<1>13. CASE ThreadRemoveOwner(r)
  <2> USE <1>13 DEF ThreadRemoveOwner, RemoveOwner, At, Goto, ThreadOnly
  <2>1. TypeJobs' /\ TypeRows' /\ TypeStops' /\ TypeSched' /\ TypeRec' /\
        TypeDel' /\ TypeOs'
    BY Frames DEF TypeOK
  <2>2. TypeOwners'
    BY ConstantTypes DEF TypeOK, TypeOwners, ownerVars, Runs, StopReasons
  <2>3. TypeEngine'
    BY ConstantTypes DEF TypeOK, TypeEngine, engineVars, Runs, ThreadSteps
  <2> QED BY <2>1, <2>2, <2>3 DEF TypeOK
<1> QED BY <1>1, <1>2, <1>3, <1>4, <1>5, <1>6, <1>7, <1>8, <1>9, <1>10,
   <1>11, <1>12, <1>13 DEF RunThread

(* So does every step of a pending request_stop.                           *)
LEMMA TypeStopCall ==
    ASSUME TypeOK, NEW c \in stops, StopCall(c)
    PROVE  TypeOK'
<1>1. CASE MarkOwner(c)
  <2> USE <1>1 DEF MarkOwner, Moved, StopOnly
  <2>1. TypeJobs' /\ TypeRows' /\ TypeEngine' /\ TypeSched' /\ TypeRec' /\
        TypeDel' /\ TypeOs'
    BY Frames DEF TypeOK
  <2>2. TypeOwners'
    BY ConstantTypes DEF TypeOK, TypeOwners, TypeRows, TypeStops, ownerVars,
       Runs, StopReasons, ActiveStates, TerminalStates, StopCalls
  <2>3. TypeStops'
    <3>1. \A step \in {"term", "hold"} : [c EXCEPT !.at = step] \in StopCalls
      BY DEF TypeOK, TypeStops, StopCalls
    <3>2. stops' \in SUBSET StopCalls
      BY <3>1 DEF TypeOK, TypeStops
    <3> QED BY <3>2 DEF TypeOK, TypeStops
  <2> QED BY <2>1, <2>2, <2>3 DEF TypeOK
<1>2. CASE TermOwned(c)
  <2> USE <1>2 DEF TermOwned, Moved, SignalOwned, StopOnly
  <2>1. TypeJobs' /\ TypeRows' /\ TypeOwners' /\ TypeEngine' /\ TypeSched' /\
        TypeRec' /\ TypeDel'
    BY Frames DEF TypeOK
  <2>2. TypeStops'
    BY ConstantTypes DEF TypeOK, TypeStops, stopVars, StopCalls,
       StopReasons, Runs
  <2>3. TypeOs'
    BY SignalTypes, Frames DEF TypeOK
  <2> QED BY <2>1, <2>2, <2>3 DEF TypeOK
<1>3. CASE EscalateCancel(c)
  <2> USE <1>3 DEF EscalateCancel, SignalOwned, StopOnly
  <2>1. TypeJobs' /\ TypeRows' /\ TypeOwners' /\ TypeEngine' /\ TypeSched' /\
        TypeRec' /\ TypeDel'
    BY Frames DEF TypeOK
  <2>2. TypeStops'
    BY ConstantTypes DEF TypeOK, TypeStops, stopVars, StopCalls,
       StopReasons, Runs
  <2>3. TypeOs'
    BY SignalTypes, Frames DEF TypeOK
  <2> QED BY <2>1, <2>2, <2>3 DEF TypeOK
<1>4. CASE StopAllKill(c)
  <2> USE <1>4 DEF StopAllKill, Moved, SignalOwned, StopAllOnly
  <2>1. TypeJobs' /\ TypeRows' /\ TypeOwners' /\ TypeEngine' /\ TypeSched' /\
        TypeRec' /\ TypeDel'
    BY Frames DEF TypeOK
  <2>2. TypeStops'
    BY ConstantTypes DEF TypeOK, TypeStops, stopVars, StopCalls,
       StopReasons, Runs
  <2>3. TypeOs'
    BY SignalTypes, Frames DEF TypeOK
  <2> QED BY <2>1, <2>2, <2>3 DEF TypeOK
<1>5. CASE StopAllFinish(c)
  <2> USE <1>5 DEF StopAllFinish, Moved, FinishStoppedRow, SetState,
     StopOutcome, StopAllOnly
  <2>1. TypeJobs' /\ TypeOwners' /\ TypeEngine' /\ TypeSched' /\ TypeRec' /\
        TypeDel' /\ TypeOs'
    BY Frames DEF TypeOK
  <2>2. TypeRows'
    BY ConstantTypes DEF TypeOK, TypeRows, TypeStops, rowVars, Runs,
       ActiveStates, TerminalStates, StopReasons, StopCalls
  <2>3. TypeStops'
    BY ConstantTypes DEF TypeOK, TypeStops, stopVars, StopCalls,
       StopReasons, Runs
  <2> QED BY <2>1, <2>2, <2>3 DEF TypeOK
<1>6. CASE StopAllRemoveOwner(c)
  <2> USE <1>6 DEF StopAllRemoveOwner, RemoveOwner, StopAllOnly
  <2>1. TypeJobs' /\ TypeRows' /\ TypeEngine' /\ TypeSched' /\ TypeRec' /\
        TypeDel' /\ TypeOs'
    BY Frames DEF TypeOK
  <2>2. TypeOwners'
    BY ConstantTypes DEF TypeOK, TypeOwners, TypeStops, ownerVars, Runs,
       StopReasons, StopCalls
  <2>3. TypeStops'
    BY ConstantTypes DEF TypeOK, TypeStops, stopVars, StopCalls,
       StopReasons, Runs
  <2> QED BY <2>1, <2>2, <2>3 DEF TypeOK
<1> QED BY <1>1, <1>2, <1>3, <1>4, <1>5, <1>6 DEF StopCall

(* So does every step of stop_all.                                         *)
LEMMA TypeStopAll ==
    ASSUME TypeOK, StopAll
    PROVE  TypeOK'
<1>1. CASE StopAllFlag
  <2> USE <1>1 DEF StopAllFlag, StopAllOnly
  <2>1. TypeJobs' /\ TypeRows' /\ TypeOwners' /\ TypeEngine' /\ TypeSched' /\
        TypeRec' /\ TypeDel' /\ TypeOs'
    BY Frames DEF TypeOK
  <2>2. TypeStops'
    BY ConstantTypes DEF TypeOK, TypeStops, stopVars, StopCalls,
       StopReasons, Runs
  <2> QED BY <2>1, <2>2 DEF TypeOK
<1>2. CASE StopAllGate
  <2> USE <1>2 DEF StopAllGate, StopAllOnly
  <2>1. TypeJobs' /\ TypeRows' /\ TypeOwners' /\ TypeEngine' /\ TypeSched' /\
        TypeRec' /\ TypeDel' /\ TypeOs'
    BY Frames DEF TypeOK
  <2>2. TypeStops'
    BY ConstantTypes DEF TypeOK, TypeStops, stopVars, StopCalls,
       StopReasons, Runs
  <2> QED BY <2>1, <2>2 DEF TypeOK
<1>3. ASSUME NEW j \in Jobs, StopAllRequest(j)
      PROVE  TypeOK'
  <2> USE <1>3 DEF StopAllRequest, RequestStop, RowsOf, StopReasonFor,
     StopAllOnly
  <2>1. TypeJobs' /\ TypeOwners' /\ TypeEngine' /\ TypeSched' /\ TypeRec' /\
        TypeDel' /\ TypeOs'
    BY Frames DEF TypeOK
  <2>2. TypeRows'
    BY ConstantTypes DEF TypeOK, TypeRows, rowVars, Runs, ActiveStates,
       TerminalStates, StopReasons
  <2>3. TypeStops'
    BY ConstantTypes DEF TypeOK, TypeStops, TypeRows, stopVars, StopCalls,
       StopReasons, Runs, ActiveStates, TerminalStates
  <2> QED BY <2>1, <2>2, <2>3 DEF TypeOK
<1>4. CASE StopAllEscalate
  <2> USE <1>4 DEF StopAllEscalate, StopAllOnly
  <2>1. TypeJobs' /\ TypeRows' /\ TypeOwners' /\ TypeEngine' /\ TypeSched' /\
        TypeRec' /\ TypeDel' /\ TypeOs'
    BY Frames DEF TypeOK
  <2>2. TypeStops'
    BY ConstantTypes DEF TypeOK, TypeStops, stopVars, StopCalls,
       StopReasons, Runs
  <2> QED BY <2>1, <2>2 DEF TypeOK
<1>5. CASE StopAllKilled
  <2> USE <1>5 DEF StopAllKilled, StopAllOnly
  <2>1. TypeJobs' /\ TypeRows' /\ TypeOwners' /\ TypeEngine' /\ TypeSched' /\
        TypeRec' /\ TypeDel' /\ TypeOs'
    BY Frames DEF TypeOK
  <2>2. TypeStops'
    BY ConstantTypes DEF TypeOK, TypeStops, stopVars, StopCalls,
       StopReasons, Runs
  <2> QED BY <2>1, <2>2 DEF TypeOK
<1>6. CASE StopAllRecover
  <2> USE <1>6 DEF StopAllRecover, Snapshot, Seen, IsActive, StopAllOnly
  <2>1. TypeJobs' /\ TypeRows' /\ TypeOwners' /\ TypeEngine' /\ TypeSched' /\
        TypeDel' /\ TypeOs'
    BY Frames DEF TypeOK
  <2>2. TypeStops'
    BY ConstantTypes DEF TypeOK, TypeStops, TypeRows, stopVars, StopCalls,
       StopReasons, Runs, ActiveStates, TerminalStates
  <2>3. TypeRec'
    BY ConstantTypes DEF TypeOK, TypeRec, TypeRows, recVars, Runs,
       Recoverers, ActiveStates, TerminalStates, StopReasons
  <2> QED BY <2>1, <2>2, <2>3 DEF TypeOK
<1> QED BY <1>1, <1>2, <1>3, <1>4, <1>5, <1>6 DEF StopAll

(* So does every step of a scheduler tick.                                 *)
LEMMA TypeScheduler ==
    ASSUME TypeOK, Scheduler
    PROVE  TypeOK'
<1>1. CASE TickRecover
  <2> USE <1>1 DEF TickRecover, Snapshot, Seen, IsActive
  <2>1. TypeJobs' /\ TypeRows' /\ TypeOwners' /\ TypeEngine' /\ TypeStops' /\
        TypeDel' /\ TypeOs'
    BY Frames DEF TypeOK
  <2>2. TypeSched'
    BY ConstantTypes DEF TypeOK, TypeSched, TypeRows, schedVars, Runs,
       ActiveStates, TerminalStates, StopReasons
  <2>3. TypeRec'
    BY ConstantTypes DEF TypeOK, TypeRec, TypeRows, recVars, Runs,
       Recoverers, ActiveStates, TerminalStates, StopReasons
  <2> QED BY <2>1, <2>2, <2>3 DEF TypeOK
<1>2. CASE TickProject
  <2> USE <1>2 DEF TickProject
  <2>1. TypeJobs' /\ TypeRows' /\ TypeOwners' /\ TypeEngine' /\ TypeStops' /\
        TypeRec' /\ TypeDel' /\ TypeOs'
    BY Frames DEF TypeOK
  <2>2. TypeSched'
    BY ConstantTypes DEF TypeOK, TypeSched, schedVars
  <2> QED BY <2>1, <2>2 DEF TypeOK
<1>3. CASE TickSleep
  <2> USE <1>3 DEF TickSleep
  <2>1. TypeJobs' /\ TypeRows' /\ TypeOwners' /\ TypeEngine' /\ TypeStops' /\
        TypeRec' /\ TypeDel' /\ TypeOs'
    BY Frames DEF TypeOK
  <2>2. TypeSched'
    BY ConstantTypes DEF TypeOK, TypeSched, schedVars
  <2> QED BY <2>1, <2>2 DEF TypeOK
<1>4. ASSUME NEW j \in Jobs, TickStart(j)
      PROVE  TypeOK'
  <2> USE <1>4 DEF TickStart, InsertRun
  <2>1. TypeJobs' /\ TypeOwners' /\ TypeStops' /\ TypeRec' /\ TypeDel' /\
        TypeOs'
    BY Frames DEF TypeOK
  <2>2. TypeRows'
    BY ConstantTypes DEF TypeOK, TypeRows, rowVars, Runs, ActiveStates,
       TerminalStates, StopReasons
  <2>3. TypeEngine'
    BY ConstantTypes DEF TypeOK, TypeEngine, TypeRows, engineVars, Runs,
       ThreadSteps, ActiveStates, TerminalStates, StopReasons
  <2>4. TypeSched'
    BY ConstantTypes DEF TypeOK, TypeSched, TypeRows, schedVars, Runs,
       ActiveStates, TerminalStates, StopReasons
  <2> QED BY <2>1, <2>2, <2>3, <2>4 DEF TypeOK
<1>5. ASSUME NEW j \in Jobs, TickSkip(j)
      PROVE  TypeOK'
  <2> USE <1>5 DEF TickSkip
  <2>1. TypeJobs' /\ TypeRows' /\ TypeOwners' /\ TypeEngine' /\ TypeStops' /\
        TypeRec' /\ TypeDel' /\ TypeOs'
    BY Frames DEF TypeOK
  <2>2. TypeSched'
    BY ConstantTypes DEF TypeOK, TypeSched, schedVars
  <2> QED BY <2>1, <2>2 DEF TypeOK
<1>6. ASSUME NEW j \in Jobs, TickFatal(j)
      PROVE  TypeOK'
  <2> USE <1>6 DEF TickFatal
  <2>1. TypeJobs' /\ TypeRows' /\ TypeOwners' /\ TypeEngine' /\ TypeStops' /\
        TypeRec' /\ TypeDel' /\ TypeOs'
    BY Frames DEF TypeOK
  <2>2. TypeSched'
    BY ConstantTypes DEF TypeOK, TypeSched, schedVars
  <2> QED BY <2>1, <2>2 DEF TypeOK
<1> QED BY <1>1, <1>2, <1>3, <1>4, <1>5, <1>6 DEF Scheduler

(* So does every step of recover_runs.                                     *)
LEMMA TypeRecovery ==
    ASSUME TypeOK, NEW c \in Recoverers, Recovery(c)
    PROVE  TypeOK'
<1>1. ASSUME NEW r \in Runs, RecTerminate(c, r)
      PROVE  TypeOK'
  <2> USE <1>1 DEF RecTerminate, DestroyGroup, SignalsForeign, RecOnly
  <2>1. TypeJobs' /\ TypeRows' /\ TypeOwners' /\ TypeEngine' /\ TypeStops' /\
        TypeSched' /\ TypeDel'
    BY Frames DEF TypeOK
  <2>2. TypeRec'
    BY ConstantTypes DEF TypeOK, TypeRec, recVars, Runs, Recoverers,
       ActiveStates
  <2>3. TypeOs'
    BY ConstantTypes DEF TypeOK, TypeOs, osVars, Runs
  <2> QED BY <2>1, <2>2, <2>3 DEF TypeOK
<1>2. ASSUME NEW r \in Runs, RecWrite(c, r)
      PROVE  TypeOK'
  <2> USE <1>2 DEF RecWrite, StopOutcome, RecOnly
  <2>1. TypeJobs' /\ TypeOwners' /\ TypeEngine' /\ TypeStops' /\ TypeSched' /\
        TypeDel' /\ TypeOs'
    BY Frames DEF TypeOK
  <2>2. TypeRows'
    BY ConstantTypes DEF TypeOK, TypeRows, rowVars, Runs, ActiveStates,
       TerminalStates, StopReasons
  <2>3. TypeRec'
    BY ConstantTypes DEF TypeOK, TypeRec, recVars, Runs, Recoverers,
       ActiveStates
  <2> QED BY <2>1, <2>2, <2>3 DEF TypeOK
<1> QED BY <1>1, <1>2 DEF Recovery

(* So do the start, the loss and the exit of the engine process.           *)
LEMMA TypeEngineProcess ==
    ASSUME TypeOK, RegisterOwner \/ Crash \/ EngineExit \/ EngineStart \/ EngineServe
    PROVE  TypeOK'
<1>1. CASE RegisterOwner
  <2> USE <1>1 DEF RegisterOwner
  <2>1. TypeJobs' /\ TypeRows' /\ TypeStops' /\ TypeSched' /\ TypeRec' /\
        TypeDel' /\ TypeOs'
    BY Frames DEF TypeOK
  <2>2. TypeOwners'
    <3>1. starting \in 0..MaxRuns
      BY DEF TypeOK, TypeEngine
    <3>2. ownRun' \in [Jobs -> 0..MaxRuns]
      BY <3>1, ExceptType DEF TypeOK, TypeOwners
    <3>3. ownPg' \in [Jobs -> BOOLEAN]
      BY ExceptType DEF TypeOK, TypeOwners
    <3>4. ownStop' \in [Jobs -> {"none"} \cup StopReasons]
      BY ExceptType DEF TypeOK, TypeOwners
    <3> QED BY <3>2, <3>3, <3>4 DEF TypeOwners
  <2>3. TypeEngine'
    BY ConstantTypes DEF TypeOK, TypeEngine, TypeRows, engineVars, Runs,
       ThreadSteps, ActiveStates, TerminalStates, StopReasons
  <2> QED BY <2>1, <2>2, <2>3 DEF TypeOK
<1>2. CASE Crash
  <2> USE <1>2 DEF Crash, EngineGone
  <2>1. TypeJobs' /\ TypeRows'
    BY Frames DEF TypeOK
  <2>2. TypeOwners'
    BY ConstantTypes DEF TypeOK, TypeOwners, ownerVars, Runs, StopReasons
  <2>3. TypeEngine'
    BY ConstantTypes DEF TypeOK, TypeEngine, engineVars, Runs, ThreadSteps
  <2>4. TypeStops'
    BY ConstantTypes DEF TypeOK, TypeStops, stopVars, StopCalls,
       StopReasons, Runs
  <2>5. TypeSched'
    BY ConstantTypes DEF TypeOK, TypeSched, schedVars
  <2>6. TypeRec'
    BY ConstantTypes DEF TypeOK, TypeRec, recVars, Runs, Recoverers,
       ActiveStates
  <2>7. TypeDel'
    BY ConstantTypes DEF TypeOK, TypeDel, delVars
  <2>8. TypeOs'
    BY ConstantTypes DEF TypeOK, TypeOs, osVars, Runs
  <2> QED BY <2>1, <2>2, <2>3, <2>4, <2>5, <2>6, <2>7, <2>8 DEF TypeOK
<1>3. CASE EngineExit
  <2> USE <1>3 DEF EngineExit, EngineGone
  <2>1. TypeJobs' /\ TypeRows'
    BY Frames DEF TypeOK
  <2>2. TypeOwners'
    BY ConstantTypes DEF TypeOK, TypeOwners, ownerVars, Runs, StopReasons
  <2>3. TypeEngine'
    BY ConstantTypes DEF TypeOK, TypeEngine, engineVars, Runs, ThreadSteps
  <2>4. TypeStops'
    BY ConstantTypes DEF TypeOK, TypeStops, stopVars, StopCalls,
       StopReasons, Runs
  <2>5. TypeSched'
    BY ConstantTypes DEF TypeOK, TypeSched, schedVars
  <2>6. TypeRec'
    BY ConstantTypes DEF TypeOK, TypeRec, recVars, Runs, Recoverers,
       ActiveStates
  <2>7. TypeDel'
    BY ConstantTypes DEF TypeOK, TypeDel, delVars
  <2>8. TypeOs'
    BY ConstantTypes DEF TypeOK, TypeOs, osVars, Runs
  <2> QED BY <2>1, <2>2, <2>3, <2>4, <2>5, <2>6, <2>7, <2>8 DEF TypeOK
<1>4. CASE EngineStart
  <2> USE <1>4 DEF EngineStart, Snapshot, Seen, IsActive
  <2>1. TypeJobs' /\ TypeRows' /\ TypeOwners' /\ TypeStops' /\ TypeSched' /\
        TypeDel' /\ TypeOs'
    BY Frames DEF TypeOK
  <2>2. TypeEngine'
    BY ConstantTypes DEF TypeOK, TypeEngine, TypeRows, engineVars, Runs,
       ThreadSteps, ActiveStates, TerminalStates, StopReasons
  <2>3. TypeRec'
    BY ConstantTypes DEF TypeOK, TypeRec, TypeRows, recVars, Runs,
       Recoverers, ActiveStates, TerminalStates, StopReasons
  <2> QED BY <2>1, <2>2, <2>3 DEF TypeOK
<1>5. CASE EngineServe
  <2> USE <1>5 DEF EngineServe
  <2>1. TypeJobs' /\ TypeRows' /\ TypeOwners' /\ TypeStops' /\ TypeSched' /\
        TypeRec' /\ TypeDel' /\ TypeOs'
    BY Frames DEF TypeOK
  <2>2. TypeEngine'
    BY ConstantTypes DEF TypeOK, TypeEngine, engineVars, Runs, ThreadSteps
  <2> QED BY <2>1, <2>2 DEF TypeOK
<1> QED BY <1>1, <1>2, <1>3, <1>4, <1>5

(* So does every event of the operating system.                            *)
LEMMA TypeOsStep ==
    ASSUME TypeOK, Os
    PROVE  TypeOK'
<1>1. ASSUME NEW r \in Runs, DriverForks(r)
      PROVE  TypeOK'
  <2> USE <1>1 DEF DriverForks, OsOnly
  <2>1. TypeJobs' /\ TypeRows' /\ TypeOwners' /\ TypeEngine' /\ TypeStops' /\
        TypeSched' /\ TypeRec' /\ TypeDel'
    BY Frames DEF TypeOK
  <2>2. TypeOs'
    BY ConstantTypes DEF TypeOK, TypeOs, osVars, Runs
  <2> QED BY <2>1, <2>2 DEF TypeOK
<1>2. ASSUME NEW r \in Runs, DriverExits(r)
      PROVE  TypeOK'
  <2> USE <1>2 DEF DriverExits, OsOnly
  <2>1. TypeJobs' /\ TypeRows' /\ TypeOwners' /\ TypeEngine' /\ TypeStops' /\
        TypeSched' /\ TypeRec' /\ TypeDel'
    BY Frames DEF TypeOK
  <2>2. TypeOs'
    BY ConstantTypes DEF TypeOK, TypeOs, osVars, Runs
  <2> QED BY <2>1, <2>2 DEF TypeOK
<1>3. ASSUME NEW r \in Runs, DescendantsExit(r)
      PROVE  TypeOK'
  <2> USE <1>3 DEF DescendantsExit, OsOnly
  <2>1. TypeJobs' /\ TypeRows' /\ TypeOwners' /\ TypeEngine' /\ TypeStops' /\
        TypeSched' /\ TypeRec' /\ TypeDel'
    BY Frames DEF TypeOK
  <2>2. TypeOs'
    BY ConstantTypes DEF TypeOK, TypeOs, osVars, Runs
  <2> QED BY <2>1, <2>2 DEF TypeOK
<1>4. ASSUME NEW r \in Runs, NumberReused(r)
      PROVE  TypeOK'
  <2> USE <1>4 DEF NumberReused, OsOnly
  <2>1. TypeJobs' /\ TypeRows' /\ TypeOwners' /\ TypeEngine' /\ TypeStops' /\
        TypeSched' /\ TypeRec' /\ TypeDel'
    BY Frames DEF TypeOK
  <2>2. TypeOs'
    BY ConstantTypes DEF TypeOK, TypeOs, osVars, Runs
  <2> QED BY <2>1, <2>2 DEF TypeOK
<1>5. ASSUME NEW r \in Runs, UnrelatedExits(r)
      PROVE  TypeOK'
  <2> USE <1>5 DEF UnrelatedExits, OsOnly
  <2>1. TypeJobs' /\ TypeRows' /\ TypeOwners' /\ TypeEngine' /\ TypeStops' /\
        TypeSched' /\ TypeRec' /\ TypeDel'
    BY Frames DEF TypeOK
  <2>2. TypeOs'
    BY ConstantTypes DEF TypeOK, TypeOs, osVars, Runs
  <2> QED BY <2>1, <2>2 DEF TypeOK
<1> QED BY <1>1, <1>2, <1>3, <1>4, <1>5 DEF Os

(* TypeOK is inductive.                                                    *)
LEMMA TypeStep == TypeOK /\ [Next]_vars => TypeOK'
<1> SUFFICES ASSUME TypeOK, [Next]_vars PROVE TypeOK'
    OBVIOUS
<1>1. CASE UNCHANGED vars
    BY <1>1, Frames DEF vars, TypeOK
<1>2. CASE Next
    BY <1>2, TypeUserRequest, TypeDeletion, TypeRunThread, TypeStopCall,
       TypeStopAll, TypeScheduler, TypeRecovery, TypeEngineProcess, TypeOsStep
       DEF Next
<1> QED BY <1>1, <1>2

(* Every reachable state is well typed: rows, owner entries, threads,      *)
(* pending stops and snapshots hold values of their declared kinds.        *)
THEOREM TypeCorrect == Spec => []TypeOK
BY InitTypeOK, TypeStep, PTL DEF Spec
=============================================================================
