--------------------------- MODULE MirrorRowProofs ---------------------------
(***************************************************************************)
(* Proofs about the run rows of the mirrors database, for every set of     *)
(* jobs and every bound: an active row is its job's newest row, an outcome *)
(* is final, and the database evolves as transition_run and                *)
(* transition_registration say (RunLifecycle).                             *)
(*                                                                         *)
(* RowStep reduces the fifty actions to the four things that ever happen   *)
(* to the rows; every result below is proved from it.                      *)
(***************************************************************************)
EXTENDS MirrorTypeProofs

(* Time for the provers, enough for a loaded machine.                      *)
USE SMTT(20), ZenonT(40)

RowsKept == UNCHANGED <<nextRun, newest, jobOf, rstate, request, reason>>

(* The moves of one active row: s is its next state, w its stop reason.    *)
LegalMove(r, s, w) ==
    \/ s = rstate[r] /\ w = reason[r]
    \/ rstate[r] = "starting" /\ s = "running" /\ w = reason[r]
    \/ rstate[r] \in {"starting", "running"} /\ s = "stopping" /\ w \in StopReasons
    \/ rstate[r] = "running" /\ s = "succeeded" /\ w = reason[r]
    \/ rstate[r] \in {"starting", "running"} /\ s = "failed" /\ w = reason[r]
    \/ s = StopOutcome(r) /\ w = reason[r]

RowMoves(r) ==
    /\ IsActive(r)
    /\ \E s \in ActiveStates \cup TerminalStates, w \in {"none"} \cup StopReasons :
          /\ LegalMove(r, s, w)
          /\ rstate' = [rstate EXCEPT ![r] = s]
          /\ reason' = [reason EXCEPT ![r] = w]
    /\ UNCHANGED <<nextRun, newest, jobOf, request>>

RowInserted(j, req) == Admissible(j, req) /\ InsertRun(j, req) /\ UNCHANGED reg

(* A step that leaves the registrations alone moves at most one row.       *)
QuietStep == UNCHANGED reg /\ (RowsKept \/ \E r \in Runs : RowMoves(r))

(* Writing back what is there changes nothing.                             *)
LEMMA ExceptSame ==
    ASSUME NEW S, NEW T, NEW f \in [S -> T], NEW x
    PROVE  [f EXCEPT ![x] = f[x]] = f
OBVIOUS

(* What SetState writes is a move when the value is legal.                 *)
LEMMA SetStateMoves ==
    ASSUME TypeOK, NEW r \in Runs, IsActive(r),
           NEW s \in ActiveStates \cup TerminalStates,
           LegalMove(r, s, reason[r]), SetState(r, s)
    PROVE  RowMoves(r)
<1>1. reason' = [reason EXCEPT ![r] = reason[r]]
  BY ExceptSame DEF TypeOK, TypeRows, SetState
<1>2. reason[r] \in {"none"} \cup StopReasons
  BY DEF TypeOK, TypeRows
<1> QED BY <1>1, <1>2 DEF RowMoves, SetState

(* StopOutcome is a terminal state.                                        *)
LEMMA StopOutcomeType ==
    ASSUME NEW r PROVE StopOutcome(r) \in {"cancelled", "interrupted"}
BY DEF StopOutcome

(* request_stop moves an active row to stopping, keeping the first reason. *)
LEMMA RequestStopMoves ==
    ASSUME TypeOK, NEW r \in Runs, IsActive(r), NEW who \in StopReasons,
           RequestStop(r, who)
    PROVE  RowMoves(r)
<1>1. StopReasonFor(r, who) \in {"none"} \cup StopReasons
  BY DEF StopReasonFor, TypeOK, TypeRows
<1>2. LegalMove(r, "stopping", StopReasonFor(r, who))
  BY DEF LegalMove, StopReasonFor, IsActive, ActiveStates
<1> QED BY <1>1, <1>2 DEF RowMoves, RequestStop, ActiveStates

(* finish_stopped_run, from the run's thread or from stop_all.             *)
LEMMA FinishStoppedMoves ==
    ASSUME TypeOK, NEW r \in Runs, FinishStoppedRow(r)
    PROVE  RowsKept \/ RowMoves(r)
<1>1. CASE rstate[r] = "stopping"
  <2>1. StopOutcome(r) \in ActiveStates \cup TerminalStates /\ IsActive(r)
    BY <1>1, StopOutcomeType DEF IsActive, ActiveStates, TerminalStates
  <2>2. LegalMove(r, StopOutcome(r), reason[r])
    BY DEF LegalMove
  <2> QED BY <1>1, <2>1, <2>2, SetStateMoves DEF FinishStoppedRow
<1>2. CASE rstate[r] # "stopping"
  BY <1>2 DEF FinishStoppedRow, rowVars, RowsKept
<1> QED BY <1>1, <1>2

(* The steps of a run's thread.                                            *)
LEMMA RunThreadRows ==
    ASSUME TypeOK, NEW r \in Runs, RunThread(r)
    PROVE  QuietStep
<1>0. UNCHANGED reg
  BY DEF RunThread, CheckStop, FinishStoppedRun, FinishPreSpawnFailure, SpawnDriver,
     RecordSpawned, KillUnrecorded, AttachGroup, TermNewGroup, WaitEndOfStream,
     WaitLeaderOnly, ReapLeader, KillLeftovers, FinishChildRun, ThreadRemoveOwner,
     ThreadOnly, jobVars
<1>1. CASE FinishStoppedRun(r)
  BY <1>0, <1>1, FinishStoppedMoves DEF FinishStoppedRun, QuietStep
<1>2. CASE FinishPreSpawnFailure(r)
  <2>1. CASE IsActive(r) /\ IsNewest(r)
    <3> DEFINE s == IF rstate[r] = "stopping" THEN StopOutcome(r) ELSE "failed"
    <3>1. s \in ActiveStates \cup TerminalStates
      BY StopOutcomeType DEF TerminalStates
    <3>2. LegalMove(r, s, reason[r])
      BY <2>1 DEF LegalMove, IsActive, ActiveStates
    <3>3. SetState(r, s)
      BY <1>2, <2>1 DEF FinishPreSpawnFailure
    <3> HIDE DEF s
    <3> QED BY <1>0, <2>1, <3>1, <3>2, <3>3, SetStateMoves DEF QuietStep
  <2>2. CASE ~(IsActive(r) /\ IsNewest(r))
    BY <1>0, <1>2, <2>2 DEF FinishPreSpawnFailure, QuietStep, RowsKept, rowVars
  <2> QED BY <2>1, <2>2
<1>3. CASE RecordSpawned(r)
  <2>1. CASE RowsKept
    BY <1>0, <2>1 DEF QuietStep
  <2>2. CASE ~RowsKept
    <3>1. /\ rstate' = [rstate EXCEPT ![r] = RecordedState(r)]
          /\ RecordedState(r) # "none"
          /\ UNCHANGED <<nextRun, newest, jobOf, request, reason>>
      BY <1>3, <2>2 DEF RecordSpawned, RowsKept, rowVars
    <3>2. /\ RecordedState(r) \in ActiveStates \cup TerminalStates
          /\ LegalMove(r, RecordedState(r), reason[r])
          /\ IsActive(r)
      BY <3>1 DEF RecordedState, LegalMove, IsActive, ActiveStates
    <3>3. reason' = [reason EXCEPT ![r] = reason[r]]
      BY <3>1, ExceptSame DEF TypeOK, TypeRows
    <3>4. reason[r] \in {"none"} \cup StopReasons
      BY DEF TypeOK, TypeRows
    <3> QED BY <1>0, <3>1, <3>2, <3>3, <3>4 DEF QuietStep, RowMoves
  <2> QED BY <2>1, <2>2
<1>4. CASE FinishChildRun(r)
  <2>1. CASE IsActive(r) /\ IsNewest(r)
    <3>1. PICK ok \in BOOLEAN : SetState(r, ExitState(r, ok))
      BY <1>4, <2>1 DEF FinishChildRun
    <3>2. /\ ExitState(r, ok) \in ActiveStates \cup TerminalStates
          /\ LegalMove(r, ExitState(r, ok), reason[r])
      BY <2>1, StopOutcomeType DEF ExitState, LegalMove, IsActive, ActiveStates,
         TerminalStates
    <3> QED BY <1>0, <2>1, <3>1, <3>2, SetStateMoves DEF QuietStep
  <2>2. CASE ~(IsActive(r) /\ IsNewest(r))
    BY <1>0, <1>4, <2>2 DEF FinishChildRun, QuietStep, RowsKept, rowVars
  <2> QED BY <2>1, <2>2
<1>5. CASE ~(FinishStoppedRun(r) \/ FinishPreSpawnFailure(r) \/ RecordSpawned(r)
                \/ FinishChildRun(r))
  BY <1>0, <1>5 DEF RunThread, CheckStop, SpawnDriver, KillUnrecorded, AttachGroup,
     TermNewGroup, WaitEndOfStream, WaitLeaderOnly, ReapLeader, KillLeftovers,
     ThreadRemoveOwner, QuietStep, RowsKept, rowVars
<1> QED BY <1>1, <1>2, <1>3, <1>4, <1>5

(* The calls of request_stop and what stop_all does for each.              *)
LEMMA StopCallRows ==
    ASSUME TypeOK, NEW c \in stops, StopCall(c)
    PROVE  QuietStep
<1>0. UNCHANGED reg
  BY DEF StopCall, MarkOwner, TermOwned, EscalateCancel, StopAllKill, StopAllFinish,
     StopAllRemoveOwner, StopOnly, StopAllOnly, jobVars
<1>1. CASE StopAllFinish(c)
  <2>1. c.run \in Runs
    BY DEF TypeOK, TypeStops, StopCalls
  <2> QED BY <1>0, <1>1, <2>1, FinishStoppedMoves DEF StopAllFinish, QuietStep
<1>2. CASE ~StopAllFinish(c)
  BY <1>0, <1>2 DEF StopCall, MarkOwner, TermOwned, EscalateCancel, StopAllKill,
     StopAllRemoveOwner, QuietStep, RowsKept, rowVars
<1> QED BY <1>1, <1>2

(* stop_all.                                                               *)
LEMMA StopAllRows ==
    ASSUME TypeOK, StopAll
    PROVE  QuietStep
<1>0. UNCHANGED reg
  BY DEF StopAll, StopAllFlag, StopAllGate, StopAllRequest, StopAllEscalate,
     StopAllKilled, StopAllRecover, StopAllOnly, jobVars
<1>1. ASSUME NEW j \in Jobs, StopAllRequest(j)
      PROVE  QuietStep
  <2>1. CASE RowsKept
    BY <1>0, <2>1 DEF QuietStep
  <2>2. CASE ~RowsKept
    <3>1. PICK r \in RowsOf(j) : IsActive(r) /\ RequestStop(r, "shutdown")
      BY <1>1, <2>2 DEF StopAllRequest, RowsKept, rowVars
    <3>2. r \in Runs
      BY DEF RowsOf
    <3> QED BY <1>0, <3>1, <3>2, RequestStopMoves DEF QuietStep, StopReasons
  <2> QED BY <2>1, <2>2
<1>2. CASE ~\E j \in Jobs : StopAllRequest(j)
  BY <1>0, <1>2 DEF StopAll, StopAllFlag, StopAllGate, StopAllEscalate,
     StopAllKilled, StopAllRecover, QuietStep, RowsKept, rowVars
<1> QED BY <1>1, <1>2

(* recover_runs writes only rows that are still as it read them.           *)
LEMMA RecoveryRows ==
    ASSUME TypeOK, NEW c \in Recoverers, Recovery(c)
    PROVE  QuietStep
<1>0. UNCHANGED reg
  BY DEF Recovery, RecTerminate, RecWrite, RecOnly, jobVars
<1>1. ASSUME NEW r \in Runs, RecWrite(c, r)
      PROVE  QuietStep
  <2>1. CASE RowsKept
    BY <1>0, <2>1 DEF QuietStep
  <2>2. CASE ~RowsKept
    <3>1. /\ rstate' = [rstate EXCEPT ![r] = StopOutcome(r)]
          /\ rstate[r] = recSnap[c][r] /\ recSnap[c][r] # "none"
          /\ UNCHANGED <<nextRun, newest, jobOf, request, reason>>
      BY <1>1, <2>2 DEF RecWrite, RowsKept, RecoveryOwns
    <3>2. IsActive(r)
      BY <3>1 DEF IsActive, TypeOK, TypeRec
    <3>3. /\ StopOutcome(r) \in ActiveStates \cup TerminalStates
          /\ LegalMove(r, StopOutcome(r), reason[r])
      BY StopOutcomeType DEF LegalMove, TerminalStates
    <3>4. RowMoves(r)
      <4>1. reason' = [reason EXCEPT ![r] = reason[r]]
        BY <3>1, ExceptSame DEF TypeOK, TypeRows
      <4>2. reason[r] \in {"none"} \cup StopReasons
        BY DEF TypeOK, TypeRows
      <4> QED BY <3>1, <3>2, <3>3, <4>1, <4>2 DEF RowMoves
    <3> QED BY <1>0, <3>4 DEF QuietStep
  <2> QED BY <2>1, <2>2
<1>2. CASE \E r \in Runs : RecTerminate(c, r)
  BY <1>0, <1>2 DEF RecTerminate, QuietStep, RowsKept, rowVars
<1> QED BY <1>1, <1>2 DEF Recovery

(* Every step of the program does one of these things to the rows.         *)
LEMMA RowStep ==
    ASSUME TypeOK, [Next]_vars
    PROVE  \/ QuietStep
           \/ \E j \in Jobs, req \in {"explicit", "scheduled"} : RowInserted(j, req)
           \/ \E j \in Jobs : JobAdd(j)
           \/ \E j \in Jobs, mode \in DeleteModes : DeletePrepare(j, mode)
           \/ DeleteFinish
<1>1. CASE UserRequest
  <2>1. ASSUME NEW j \in Jobs, JobSetPaused(j) PROVE QuietStep
    BY <2>1 DEF JobSetPaused, QuietStep, RowsKept, rowVars
  <2>2. ASSUME NEW j \in Jobs, JobRun(j) PROVE RowInserted(j, "explicit")
    BY <2>2 DEF JobRun, RowInserted, jobVars
  <2>3. ASSUME NEW r \in Runs, JobCancel(r) PROVE QuietStep
    BY <2>3, RequestStopMoves DEF JobCancel, QuietStep, StopReasons, StopOnly, jobVars
  <2> QED BY <1>1, <2>1, <2>2, <2>3 DEF UserRequest
<1>2. CASE Deletion
  <2>1. DeleteDropOwner \/ DeleteFail => QuietStep
    BY DEF DeleteDropOwner, DeleteFail, QuietStep, RowsKept, rowVars, jobVars
  <2> QED BY <1>2, <2>1 DEF Deletion
<1>3. CASE Scheduler
  <2>1. ASSUME NEW j \in Jobs, TickStart(j) PROVE RowInserted(j, "scheduled")
    BY <2>1 DEF TickStart, RowInserted, jobVars
  <2>2. CASE ~\E j \in Jobs : TickStart(j)
    BY <1>3, <2>2 DEF Scheduler, TickRecover, TickProject, TickSleep, TickSkip,
       TickFatal, QuietStep, RowsKept, rowVars, jobVars
  <2> QED BY <2>1, <2>2
<1>4. CASE Os
  <2>1. OsOnly => QuietStep
    BY DEF OsOnly, QuietStep, RowsKept, rowVars, jobVars
  <2> QED BY <1>4, <2>1 DEF Os, DriverForks, DriverExits, DescendantsExit,
             NumberReused, UnrelatedExits
<1>5. CASE RegisterOwner \/ Crash \/ EngineExit \/ EngineStart \/ EngineServe
  BY <1>5 DEF RegisterOwner, Crash, EngineExit, EngineStart, EngineServe, EngineGone,
     QuietStep, RowsKept, rowVars, jobVars
<1>6. CASE UNCHANGED vars
  BY <1>6 DEF vars, QuietStep, RowsKept, rowVars, jobVars
<1>7. CASE \/ \E r \in Runs : RunThread(r)
           \/ \E c \in stops : StopCall(c)
           \/ StopAll
           \/ \E c \in Recoverers : Recovery(c)
  BY <1>7, RunThreadRows, StopCallRows, StopAllRows, RecoveryRows
<1> QED BY <1>1, <1>2, <1>3, <1>4, <1>5, <1>6, <1>7 DEF Next

-----------------------------------------------------------------------------
(***************************************************************************)
(* The invariant of the rows.                                              *)
(***************************************************************************)
(* Rows that have not been inserted yet.                                   *)
FreshRows ==
    \A r \in Runs : r >= nextRun => rstate[r] = "none" /\ reason[r] = "none"

(* A row belongs to a job; it has a reason only once it was stopped.       *)
RowsHaveJobs == \A r \in Runs : rstate[r] # "none" => jobOf[r] \in Jobs

UnstoppedRows ==
    \A r \in Runs : rstate[r] \in {"starting", "running"} => reason[r] = "none"

(* newest names a row of the job, the one start_job inserted last.         *)
NewestIsARow ==
    \A j \in Jobs : newest[j] # 0 =>
        jobOf[newest[j]] = j /\ rstate[newest[j]] # "none"

RowInv ==
    TypeOK /\ ActiveRowIsNewest /\ FreshRows /\ RowsHaveJobs /\ UnstoppedRows
           /\ NewestIsARow

(* The empty database satisfies the invariant.                             *)
LEMMA RowInit == Init => RowInv
<1>1. Init => FreshRows /\ RowsHaveJobs /\ UnstoppedRows /\ NewestIsARow
  BY DEF Init, FreshRows, RowsHaveJobs, UnstoppedRows, NewestIsARow
<1>2. Init => ActiveRowIsNewest
  BY DEF Init, ActiveRowIsNewest, IsActive, ActiveStates
<1> QED BY <1>1, <1>2, InitTypeOK DEF RowInv

(* A move of one active row keeps the invariant.                           *)
LEMMA RowMovesInv ==
    ASSUME RowInv, TypeOK', NEW r \in Runs, RowMoves(r)
    PROVE  RowInv'
<1>1. PICK s \in ActiveStates \cup TerminalStates, w \in {"none"} \cup StopReasons :
          /\ LegalMove(r, s, w)
          /\ rstate' = [rstate EXCEPT ![r] = s]
          /\ reason' = [reason EXCEPT ![r] = w]
  BY DEF RowMoves
<1>2. /\ UNCHANGED <<nextRun, newest, jobOf>> /\ IsActive(r)
  BY DEF RowMoves
<1>3. /\ rstate \in [Runs -> {"none"} \cup ActiveStates \cup TerminalStates]
      /\ reason \in [Runs -> {"none"} \cup StopReasons]
      /\ newest \in [Jobs -> 0..MaxRuns]
  BY DEF RowInv, TypeOK, TypeRows
<1>4. s # "none" /\ rstate[r] # "none"
  BY <1>2 DEF IsActive, ActiveStates, TerminalStates
<1>5. ActiveRowIsNewest'
  BY <1>1, <1>2, <1>3 DEF RowInv, ActiveRowIsNewest, IsActive, IsNewest
<1>6. FreshRows'
  BY <1>1, <1>2, <1>3, <1>4 DEF RowInv, FreshRows
<1>7. RowsHaveJobs'
  BY <1>1, <1>2, <1>3, <1>4 DEF RowInv, RowsHaveJobs
<1>8. UnstoppedRows'
  <2>1. s \in {"starting", "running"} => w = "none"
    BY <1>1, <1>2, StopOutcomeType DEF RowInv, UnstoppedRows, LegalMove, IsActive,
       ActiveStates
  <2> QED BY <1>1, <1>3, <2>1 DEF RowInv, UnstoppedRows
<1>9. NewestIsARow'
  BY <1>1, <1>2, <1>3, <1>4 DEF RowInv, NewestIsARow
<1> QED BY <1>5, <1>6, <1>7, <1>8, <1>9 DEF RowInv

(* start_job's transaction keeps the invariant: the job has no active row  *)
(* and the new row becomes its newest.                                     *)
LEMMA RowInsertedInv ==
    ASSUME RowInv, TypeOK', NEW j \in Jobs, NEW req \in {"explicit", "scheduled"},
           RowInserted(j, req)
    PROVE  RowInv'
<1>1. /\ nextRun \in Runs /\ nextRun' = nextRun + 1
      /\ newest' = [newest EXCEPT ![j] = nextRun]
      /\ jobOf' = [jobOf EXCEPT ![nextRun] = j]
      /\ rstate' = [rstate EXCEPT ![nextRun] = "starting"]
      /\ reason' = reason
  BY ConstantTypes DEF RowInserted, InsertRun, RowInv, TypeOK, TypeRows, Runs
<1>2. \A r \in Runs : IsActive(r) => jobOf[r] # j
  BY DEF RowInserted, Admissible, HasActiveRun, RowsOf, IsActive, ActiveStates
<1>3. /\ rstate \in [Runs -> {"none"} \cup ActiveStates \cup TerminalStates]
      /\ newest \in [Jobs -> 0..MaxRuns]
      /\ jobOf \in [Runs -> Jobs \cup {NoJob}]
      /\ nextRun \in Nat /\ \A r \in Runs : r \in Nat
  BY ConstantTypes DEF RowInv, TypeOK, TypeRows, Runs
<1>4. rstate[nextRun] = "none" /\ reason[nextRun] = "none"
  BY <1>1, <1>3 DEF RowInv, FreshRows
<1>5. ActiveRowIsNewest'
  <2> SUFFICES ASSUME NEW r \in Runs, IsActive(r)' PROVE IsNewest(r)'
    BY DEF ActiveRowIsNewest
  <2>1. CASE r = nextRun
    BY <1>1, <1>3, <2>1 DEF IsNewest
  <2>2. CASE r # nextRun
    <3>1. IsActive(r) /\ IsNewest(r) /\ jobOf[r] # j /\ jobOf'[r] = jobOf[r]
      BY <1>1, <1>2, <1>3, <2>2 DEF RowInv, ActiveRowIsNewest, IsActive
    <3>2. jobOf[r] \in Jobs
      BY <3>1 DEF RowInv, RowsHaveJobs, IsActive, ActiveStates
    <3> QED BY <1>1, <1>3, <3>1, <3>2 DEF IsNewest
  <2> QED BY <2>1, <2>2
<1>6. FreshRows'
  BY <1>1, <1>3 DEF RowInv, FreshRows
<1>7. RowsHaveJobs'
  BY <1>1, <1>3 DEF RowInv, RowsHaveJobs
<1>8. UnstoppedRows'
  BY <1>1, <1>3, <1>4 DEF RowInv, UnstoppedRows
<1>9. NewestIsARow'
  <2> SUFFICES ASSUME NEW k \in Jobs, newest'[k] # 0
               PROVE  jobOf'[newest'[k]] = k /\ rstate'[newest'[k]] # "none"
    BY DEF NewestIsARow
  <2>1. CASE k = j
    BY <1>1, <1>3, <2>1
  <2>2. CASE k # j
    <3>1. /\ newest'[k] = newest[k] /\ newest[k] \in Runs
          /\ jobOf[newest[k]] = k /\ rstate[newest[k]] # "none"
      BY <1>1, <1>3, <2>2 DEF RowInv, NewestIsARow, Runs
    <3> QED BY <1>1, <1>3, <1>4, <3>1
  <2> QED BY <2>1, <2>2
<1> QED BY <1>5, <1>6, <1>7, <1>8, <1>9 DEF RowInv

(* The cascade of a deletion keeps the invariant.                          *)
LEMMA DeleteFinishInv ==
    ASSUME RowInv, TypeOK', DeleteFinish
    PROVE  RowInv'
<1>1. /\ UNCHANGED <<nextRun, jobOf, reason>>
      /\ rstate' = [r \in Runs |-> IF jobOf[r] = delJob THEN "none" ELSE rstate[r]]
      /\ newest' = [newest EXCEPT ![delJob] = 0]
  BY DEF DeleteFinish
<1>2. newest \in [Jobs -> 0..MaxRuns]
  BY DEF RowInv, TypeOK, TypeRows
<1>3. ActiveRowIsNewest'
  <2> SUFFICES ASSUME NEW r \in Runs, IsActive(r)' PROVE IsNewest(r)'
    BY DEF ActiveRowIsNewest
  <2>1. jobOf[r] # delJob /\ IsActive(r)
    BY <1>1 DEF IsActive, ActiveStates
  <2>2. IsNewest(r) /\ jobOf[r] \in Jobs
    BY <2>1 DEF RowInv, ActiveRowIsNewest, RowsHaveJobs, IsActive, ActiveStates
  <2> QED BY <1>1, <1>2, <2>1, <2>2 DEF IsNewest
<1>4. FreshRows' /\ RowsHaveJobs' /\ UnstoppedRows'
  BY <1>1 DEF RowInv, FreshRows, RowsHaveJobs, UnstoppedRows
<1>5. NewestIsARow'
  <2> SUFFICES ASSUME NEW k \in Jobs, newest'[k] # 0
               PROVE  jobOf'[newest'[k]] = k /\ rstate'[newest'[k]] # "none"
    BY DEF NewestIsARow
  <2>1. k # delJob /\ newest'[k] = newest[k] /\ newest[k] \in Runs
    BY <1>1, <1>2 DEF Runs
  <2> QED BY <1>1, <2>1 DEF RowInv, NewestIsARow
<1> QED BY <1>3, <1>4, <1>5 DEF RowInv

(* The invariant is inductive.                                             *)
LEMMA RowNext == RowInv /\ [Next]_vars => RowInv'
<1> SUFFICES ASSUME RowInv, [Next]_vars PROVE RowInv'
  OBVIOUS
<1>1. TypeOK' /\ TypeOK
  BY TypeStep DEF RowInv
<1>2. RowsKept => RowInv'
  BY <1>1 DEF RowsKept, RowInv, ActiveRowIsNewest, IsActive, IsNewest, FreshRows,
     RowsHaveJobs, UnstoppedRows, NewestIsARow
<1>3. \A j \in Jobs : JobAdd(j) => RowsKept
  BY DEF JobAdd, RowsKept, rowVars
<1>4. \A j \in Jobs, mode \in DeleteModes : DeletePrepare(j, mode) => RowsKept
  BY DEF DeletePrepare, RowsKept, rowVars
<1> QED BY <1>1, <1>2, <1>3, <1>4, RowStep, RowMovesInv, RowInsertedInv, DeleteFinishInv
           DEF QuietStep

(* Every reachable state satisfies the invariant of the rows.              *)
THEOREM RowsInvariant == Spec => []RowInv
BY RowInit, RowNext, PTL DEF Spec

(* An active row is the newest row of its job, whatever the interleaving   *)
(* of starts, completions, stops, recoveries, deletions and crashes.       *)
THEOREM ActiveRowIsNewestAlways == Spec => []ActiveRowIsNewest
<1>1. RowInv => ActiveRowIsNewest
  BY DEF RowInv
<1> QED BY <1>1, RowsInvariant, PTL

(* An outcome written to a row is never rewritten: completions, stops and  *)
(* recoveries that arrive late find the row terminal and leave it alone.   *)
THEOREM OutcomesAreFinal == Spec => TerminalRowsAreFinal
<1> DEFINE Final ==
       \A r \in Runs :
          rstate[r] \in TerminalStates =>
              \/ rstate'[r] = rstate[r]
              \/ rstate'[r] = "none" /\ reg[jobOf[r]] \in DeleteModes
<1>1. RowInv /\ [Next]_vars => [Final]_vars
  <2> SUFFICES ASSUME RowInv, [Next]_vars, NEW r \in Runs, rstate[r] \in TerminalStates
               PROVE  \/ rstate'[r] = rstate[r]
                      \/ rstate'[r] = "none" /\ reg[jobOf[r]] \in DeleteModes
    OBVIOUS
  <2>1. rstate \in [Runs -> {"none"} \cup ActiveStates \cup TerminalStates]
    BY DEF RowInv, TypeOK, TypeRows
  <2>2. RowsKept => rstate'[r] = rstate[r]
    BY DEF RowsKept
  <2>3. ASSUME NEW s \in Runs, RowMoves(s) PROVE rstate'[r] = rstate[r]
    BY <2>1, <2>3 DEF RowMoves, IsActive, ActiveStates, TerminalStates
  <2>4. ASSUME NEW j \in Jobs, NEW req \in {"explicit", "scheduled"}, RowInserted(j, req)
        PROVE  rstate'[r] = rstate[r]
    <3>1. r # nextRun
      BY ConstantTypes DEF RowInv, FreshRows, TerminalStates, Runs
    <3> QED BY <2>1, <2>4, <3>1 DEF RowInserted, InsertRun
  <2>5. DeleteFinish => \/ rstate'[r] = rstate[r]
                        \/ rstate'[r] = "none" /\ reg[jobOf[r]] \in DeleteModes
    BY DEF DeleteFinish
  <2>6. (\E j \in Jobs : JobAdd(j)) \/ (\E j \in Jobs, m \in DeleteModes : DeletePrepare(j, m))
           => rstate'[r] = rstate[r]
    BY DEF JobAdd, DeletePrepare, rowVars
  <2> QED BY <2>2, <2>3, <2>4, <2>5, <2>6, RowStep DEF RowInv, QuietStep
<1> QED BY <1>1, RowsInvariant, PTL DEF Spec, TerminalRowsAreFinal

-----------------------------------------------------------------------------
(***************************************************************************)
(* Refinement of RunLifecycle.                                             *)
(***************************************************************************)
(* A step that keeps the rows keeps what the database shows of every job.  *)
LEMMA KeptRowsView ==
    ASSUME RowsKept PROVE UNCHANGED <<LatestKind, LatestRequest>>
BY DEF RowsKept, LatestKind, LatestRequest, RunKind

(* A legal move of a run is an edge of transition_run or changes nothing.  *)
LEMMA MoveIsEdge ==
    ASSUME RowInv, NEW r \in Runs, IsActive(r), NEW s, NEW w, LegalMove(r, s, w),
           rstate'[r] = s, reason'[r] = w
    PROVE  RunKind(r)' = RunKind(r) \/ <<RunKind(r), RunKind(r)'>> \in Lifecycle!Edge
<1>1. rstate[r] \in {"starting", "running"} => reason[r] = "none"
  BY DEF RowInv, UnstoppedRows
<1>2. RunKind(r) = CASE rstate[r] = "starting" -> "starting"
                     [] rstate[r] = "running" -> "running"
                     [] rstate[r] = "stopping" /\ reason[r] = "user" -> "stopping_user"
                     [] rstate[r] = "stopping" /\ reason[r] # "user" -> "stopping_shutdown"
  BY DEF RunKind, IsActive, ActiveStates
<1>3. RunKind(r)' = CASE s = "stopping" /\ w = "user" -> "stopping_user"
                      [] s = "stopping" /\ w # "user" -> "stopping_shutdown"
                      [] OTHER -> s
  BY DEF RunKind
<1>4. CASE s = rstate[r] /\ w = reason[r]
  BY <1>4 DEF RunKind
<1>5. CASE rstate[r] = "starting" /\ s = "running"
  BY <1>2, <1>3, <1>5 DEF Lifecycle!Edge
<1>6. CASE rstate[r] \in {"starting", "running"} /\ s = "stopping"
  BY <1>2, <1>3, <1>6 DEF Lifecycle!Edge
<1>7. CASE rstate[r] = "running" /\ s = "succeeded"
  BY <1>2, <1>3, <1>7 DEF Lifecycle!Edge
<1>8. CASE rstate[r] \in {"starting", "running"} /\ s = "failed"
  BY <1>2, <1>3, <1>8 DEF Lifecycle!Edge
<1>9. CASE s = StopOutcome(r) /\ w = reason[r]
  <2>1. s = IF reason[r] = "user" THEN "cancelled" ELSE "interrupted"
    BY <1>9 DEF StopOutcome
  <2>2. CASE rstate[r] = "stopping"
    BY <1>2, <1>3, <2>1, <2>2 DEF Lifecycle!Edge
  <2>3. CASE rstate[r] \in {"starting", "running"}
    BY <1>1, <1>2, <1>3, <2>1, <2>3 DEF Lifecycle!Edge
  <2> QED BY <2>2, <2>3 DEF IsActive, ActiveStates
<1> QED BY <1>4, <1>5, <1>6, <1>7, <1>8, <1>9 DEF LegalMove

(* A move of a row is Advance of its job, or a stutter.                    *)
LEMMA RowMovesAdvance ==
    ASSUME RowInv, UNCHANGED reg, NEW r \in Runs, RowMoves(r)
    PROVE  Lifecycle!Advance(jobOf[r]) \/ UNCHANGED <<reg, LatestKind, LatestRequest>>
<1>1. PICK s \in ActiveStates \cup TerminalStates, w \in {"none"} \cup StopReasons :
          /\ LegalMove(r, s, w)
          /\ rstate' = [rstate EXCEPT ![r] = s]
          /\ reason' = [reason EXCEPT ![r] = w]
  BY DEF RowMoves
<1>2. UNCHANGED <<newest, request>> /\ IsActive(r)
  BY DEF RowMoves
<1>3. /\ rstate \in [Runs -> {"none"} \cup ActiveStates \cup TerminalStates]
      /\ reason \in [Runs -> {"none"} \cup StopReasons]
      /\ newest \in [Jobs -> 0..MaxRuns]
  BY DEF RowInv, TypeOK, TypeRows
<1> DEFINE j == jobOf[r]
<1>4. j \in Jobs /\ newest[j] = r /\ r # 0
  BY <1>2 DEF RowInv, ActiveRowIsNewest, RowsHaveJobs, IsActive, IsNewest, ActiveStates,
     Runs
<1>5. \A k \in Jobs \ {j} : newest[k] # r
  BY DEF RowInv, NewestIsARow, Runs
<1>6. \A k \in Jobs \ {j} : newest[k] # 0 => RunKind(newest[k])' = RunKind(newest[k])
  <2> SUFFICES ASSUME NEW k \in Jobs \ {j}, newest[k] # 0
               PROVE  RunKind(newest[k])' = RunKind(newest[k])
    OBVIOUS
  <2>1. newest[k] \in Runs /\ newest[k] # r
    BY <1>3, <1>5 DEF Runs
  <2> QED BY <1>1, <1>2, <1>3, <2>1 DEF RunKind
<1>7. LatestKind' = [LatestKind EXCEPT ![j] = RunKind(r)'] /\ LatestKind[j] = RunKind(r)
  BY <1>2, <1>4, <1>6 DEF LatestKind
<1>8. LatestRequest' = LatestRequest
  BY <1>2 DEF LatestRequest
<1>9. RunKind(r)' = RunKind(r) \/ <<RunKind(r), RunKind(r)'>> \in Lifecycle!Edge
  BY <1>1, <1>2, <1>3, MoveIsEdge
<1>10. CASE RunKind(r)' = RunKind(r)
  BY <1>7, <1>8, <1>10 DEF LatestKind
<1>11. CASE <<RunKind(r), RunKind(r)'>> \in Lifecycle!Edge
  <2>1. Lifecycle!Advance(j)
    BY <1>7, <1>8, <1>11 DEF Lifecycle!Advance
  <2> QED BY <2>1
<1> QED BY <1>9, <1>10, <1>11

(* start_job's transaction is Start.                                       *)
LEMMA InsertIsStart ==
    ASSUME RowInv, NEW j \in Jobs, NEW req \in {"explicit", "scheduled"},
           RowInserted(j, req)
    PROVE  Lifecycle!Start(j, req)
<1>1. /\ nextRun \in Runs /\ nextRun # 0
      /\ newest' = [newest EXCEPT ![j] = nextRun]
      /\ rstate' = [rstate EXCEPT ![nextRun] = "starting"]
      /\ request' = [request EXCEPT ![nextRun] = req]
      /\ reason' = reason /\ UNCHANGED reg /\ reg[j] = "active"
  <2>1. nextRun \in 1..(MaxRuns + 1)
    BY DEF RowInv, TypeOK, TypeRows
  <2>2. nextRun <= MaxRuns
    BY DEF RowInserted, InsertRun
  <2>3. nextRun \in Runs /\ nextRun # 0
    BY <2>1, <2>2, ConstantTypes DEF Runs
  <2>4. /\ newest' = [newest EXCEPT ![j] = nextRun]
        /\ rstate' = [rstate EXCEPT ![nextRun] = "starting"]
        /\ request' = [request EXCEPT ![nextRun] = req]
        /\ reason' = reason
    BY DEF RowInserted, InsertRun
  <2>5. UNCHANGED reg /\ reg[j] = "active"
    BY DEF RowInserted, Admissible
  <2> QED BY <2>3, <2>4, <2>5
<1>2. /\ rstate \in [Runs -> {"none"} \cup ActiveStates \cup TerminalStates]
      /\ request \in [Runs -> {"none", "explicit", "scheduled"}]
      /\ newest \in [Jobs -> 0..MaxRuns]
  BY DEF RowInv, TypeOK, TypeRows
<1>3. \A k \in Jobs : newest[k] # 0 => newest[k] \in Runs /\ newest[k] # nextRun
  <2> SUFFICES ASSUME NEW k \in Jobs, newest[k] # 0
               PROVE  newest[k] \in Runs /\ newest[k] # nextRun
    OBVIOUS
  <2>1. newest[k] \in Runs
    BY <1>2, ConstantTypes DEF Runs
  <2>2. rstate[newest[k]] # "none"
    BY DEF RowInv, NewestIsARow
  <2>3. nextRun >= nextRun
    BY <1>1, ConstantTypes DEF Runs
  <2>4. rstate[nextRun] = "none"
    BY <1>1, <2>3 DEF RowInv, FreshRows
  <2> QED BY <2>1, <2>2, <2>4
<1>4. LatestKind' = [LatestKind EXCEPT ![j] = "starting"]
  <2> PICK n \in Runs : n = nextRun
    BY <1>1
  <2>1. RunKind(n)' = "starting"
    <3>1. rstate'[n] = "starting"
      BY <1>1, <1>2
    <3> QED BY <3>1 DEF RunKind
  <2>2. \A k \in Jobs \ {j} : newest[k] # 0 => RunKind(newest[k])' = RunKind(newest[k])
    BY <1>1, <1>2, <1>3 DEF RunKind
  <2> QED BY <1>1, <1>2, <2>1, <2>2 DEF LatestKind
<1>5. LatestRequest' = [LatestRequest EXCEPT ![j] = req]
  BY <1>1, <1>2, <1>3 DEF LatestRequest
<1>6. <<LatestKind[j], req>> \in Lifecycle!StartEdge
  <2>1. CASE newest[j] = 0
    BY <2>1 DEF LatestKind, Lifecycle!StartEdge, Lifecycle!IdleKinds
  <2>2. CASE newest[j] # 0
    <3>1. /\ rstate[newest[j]] \in TerminalStates
          /\ req = "scheduled" => rstate[newest[j]] = "succeeded"
      BY <2>2 DEF RowInserted, Admissible, RequestAllowed, LatestIn, TerminalStates
    <3>2. LatestKind[j] = rstate[newest[j]]
      BY <2>2, <3>1 DEF LatestKind, RunKind, TerminalStates
    <3> QED BY <3>1, <3>2 DEF Lifecycle!StartEdge, Lifecycle!IdleKinds, TerminalStates
  <2> QED BY <2>1, <2>2
<1> QED BY <1>1, <1>4, <1>5, <1>6 DEF Lifecycle!Start

(* finish_job_deletion is FinishDelete.                                    *)
LEMMA DeleteFinishIsFinish ==
    ASSUME RowInv, DeleteFinish
    PROVE  delJob \in Jobs /\ Lifecycle!FinishDelete(delJob)
<1>0. delJob \in Jobs
  BY DEF RowInv, TypeOK, TypeDel, DeleteFinish
<1>1. /\ reg[delJob] \in DeleteModes /\ reg' = [reg EXCEPT ![delJob] = "removed"]
      /\ rstate' = [r \in Runs |-> IF jobOf[r] = delJob THEN "none" ELSE rstate[r]]
      /\ newest' = [newest EXCEPT ![delJob] = 0]
      /\ UNCHANGED <<request, reason, jobOf>>
  BY DEF DeleteFinish
<1>2. newest \in [Jobs -> 0..MaxRuns]
  BY DEF RowInv, TypeOK, TypeRows
<1>3. \A k \in Jobs \ {delJob} : newest[k] # 0 =>
          newest[k] \in Runs /\ RunKind(newest[k])' = RunKind(newest[k])
  BY <1>1, <1>2 DEF RowInv, NewestIsARow, RunKind, Runs
<1>4. LatestKind' = [LatestKind EXCEPT ![delJob] = "never"]
  BY <1>1, <1>2, <1>3 DEF LatestKind
<1>5. LatestRequest' = [LatestRequest EXCEPT ![delJob] = "none"]
  BY <1>1, <1>2 DEF LatestRequest
<1> QED BY <1>0, <1>1, <1>4, <1>5 DEF Lifecycle!FinishDelete, DeleteModes, Lifecycle!DeleteModes

(* prepare_job_deletion is BeginDelete, or repeats an interrupted one.     *)
LEMMA DeletePrepareIsBegin ==
    ASSUME RowInv, NEW j \in Jobs, NEW mode \in DeleteModes, DeletePrepare(j, mode)
    PROVE  \/ Lifecycle!BeginDelete(j, mode)
           \/ UNCHANGED <<reg, LatestKind, LatestRequest>>
<1>1. UNCHANGED <<LatestKind, LatestRequest>>
  BY KeptRowsView DEF DeletePrepare, RowsKept, rowVars
<1>2. reg' = [reg EXCEPT ![j] = mode] /\ reg[j] \in {"active", mode} /\ ~HasActiveRun(j)
  BY DEF DeletePrepare, Deletable
<1>3. CASE reg[j] = mode
  BY <1>1, <1>2, <1>3 DEF RowInv, TypeOK, TypeJobs
<1>4. CASE reg[j] = "active"
  <2>1. LatestKind[j] \in Lifecycle!IdleKinds
    <3>1. CASE newest[j] = 0
      BY <3>1 DEF LatestKind, Lifecycle!IdleKinds
    <3>2. CASE newest[j] # 0
      <4>1. newest[j] \in Runs /\ newest[j] \in RowsOf(j)
        BY <3>2 DEF RowInv, TypeOK, TypeRows, NewestIsARow, RowsOf, Runs
      <4>2. rstate[newest[j]] \in TerminalStates
        BY <1>2, <4>1 DEF HasActiveRun, IsActive, RowsOf, RowInv, TypeOK, TypeRows
      <4> QED BY <3>2, <4>2 DEF LatestKind, RunKind, TerminalStates, Lifecycle!IdleKinds
    <3> QED BY <3>1, <3>2
  <2> QED BY <1>1, <1>2, <1>4, <2>1 DEF Lifecycle!BeginDelete
<1> QED BY <1>2, <1>3, <1>4

(* Every step of the supervisor is a step of RunLifecycle or a stutter.    *)
LEMMA LifecycleStep ==
    ASSUME RowInv, [Next]_vars
    PROVE  [Lifecycle!Next]_<<reg, LatestKind, LatestRequest>>
<1>1. CASE QuietStep
  <2>1. UNCHANGED reg
    BY <1>1 DEF QuietStep
  <2>2. RowsKept => UNCHANGED <<reg, LatestKind, LatestRequest>>
    BY <2>1, KeptRowsView
  <2>3. ASSUME NEW r \in Runs, RowMoves(r)
        PROVE  [Lifecycle!Next]_<<reg, LatestKind, LatestRequest>>
    <3>1. jobOf[r] \in Jobs
      BY <2>3 DEF RowMoves, RowInv, RowsHaveJobs, IsActive, ActiveStates
    <3> QED BY <2>1, <2>3, <3>1, RowMovesAdvance DEF Lifecycle!Next
  <2> QED BY <1>1, <2>2, <2>3 DEF QuietStep
<1>2. ASSUME NEW j \in Jobs, NEW req \in {"explicit", "scheduled"}, RowInserted(j, req)
      PROVE  Lifecycle!Next
  BY <1>2, InsertIsStart DEF Lifecycle!Next, Lifecycle!Requests
<1>3. ASSUME NEW j \in Jobs, JobAdd(j)
      PROVE  Lifecycle!Next
  <2>1. UNCHANGED <<LatestKind, LatestRequest>>
    BY <1>3, KeptRowsView DEF JobAdd, RowsKept, rowVars
  <2>2. Lifecycle!Add(j)
    BY <1>3, <2>1 DEF JobAdd, Lifecycle!Add
  <2> QED BY <2>2 DEF Lifecycle!Next
<1>4. ASSUME NEW j \in Jobs, NEW mode \in DeleteModes, DeletePrepare(j, mode)
      PROVE  [Lifecycle!Next]_<<reg, LatestKind, LatestRequest>>
  BY <1>4, DeletePrepareIsBegin DEF Lifecycle!Next, DeleteModes, Lifecycle!DeleteModes
<1>5. CASE DeleteFinish
  BY <1>5, DeleteFinishIsFinish DEF Lifecycle!Next
<1> QED BY <1>1, <1>2, <1>3, <1>4, <1>5, RowStep DEF RowInv

(* What the mirrors database shows is always a run of transition_run and   *)
(* transition_registration, across crashes and recoveries.                 *)
THEOREM LifecycleRefinement == Spec => ImplementsLifecycle
<1>1. Init => Lifecycle!Init
  BY DEF Init, Lifecycle!Init, LatestKind, LatestRequest
<1>2. RowInv /\ [Next]_vars => [Lifecycle!Next]_<<reg, LatestKind, LatestRequest>>
  BY LifecycleStep
<1> QED BY <1>1, <1>2, RowsInvariant, PTL
           DEF Spec, ImplementsLifecycle, Lifecycle!Spec, Lifecycle!avars
=============================================================================
