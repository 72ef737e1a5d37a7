------------------------- MODULE MirrorDriverProofs -------------------------
(***************************************************************************)
(* Proof that two drivers never mutate one destination, that at most one   *)
(* Wikipedia driver is alive and that no driver runs behind an idle job,   *)
(* for every set of jobs, number of runs and number of crashes.            *)
(*                                                                         *)
(* A run claims its destination from start_job's transaction until its     *)
(* thread has seen the driver exit.  The argument: until shutdown begins a *)
(* claim has an active row of an active job, so start_job admits no second *)
(* claim; once shutdown has begun nothing new is admitted; and on Linux    *)
(* drivers do not outlive the engine.                                      *)
(***************************************************************************)
EXTENDS MirrorRowProofs

(* Time for the provers, enough for a loaded machine.                      *)
USE SMTT(20), ZenonT(40)

Driving == {"record", "kill", "attach", "attach_stop", "term", "wait"}
Claiming == {"check", "spawn"} \cup Driving
Claims(r) == pc[r] \in Claiming \/ starting = r

(* A down or recovering engine has no threads, and is not shutting down.   *)
EngineQuiet ==
    engine # "up" =>
        starting = 0 /\ shutting = FALSE /\ \A r \in Runs : pc[r] = "none"

StopAllShuts == sa # "no" => shutting

(* Start-up recovery has dealt with every row before the engine serves.    *)
MainRecovered ==
    (engine = "up" /\ ~shutting) => \A r \in Runs : recSnap["main"][r] = "none"

FreshRuns ==
    \A r \in Runs : r >= nextRun =>
        pc[r] = "none" /\ blocked[r] = FALSE /\ \A c \in Recoverers : recSnap[c][r] = "none"

StartingRun == starting # 0 => starting < nextRun /\ pc[starting] = "none"

(* Until shutdown, a claim has an active row which no recovery touches.    *)
ClaimsActive ==
    ~shutting => \A r \in Runs : Claims(r) =>
        /\ IsActive(r) /\ reg[jobOf[r]] = "active"
        /\ blocked[r] = FALSE /\ recSnap["tick"][r] = "none"

ClaimsHaveJobs == \A r \in Runs : Claims(r) => jobOf[r] \in Jobs

DestinationsDiffer ==
    \A j, k \in Jobs :
        (j # k /\ reg[j] \in Registered /\ reg[k] \in Registered) => Dest[j] # Dest[k]

ClaimsExclusive ==
    \A r, s \in Runs : (r # s /\ Claims(r) /\ Claims(s)) =>
        /\ Dest[jobOf[r]] # Dest[jobOf[s]]
        /\ ~(jobOf[r] \in WikiJobs /\ jobOf[s] \in WikiJobs)

(* PR_SET_PDEATHSIG: a live driver has a thread that waits for it.         *)
AliveDrives == Linux => \A r \in Runs : leader[r] = "alive" => pc[r] \in Driving

ClaimInv ==
    /\ EngineQuiet /\ StopAllShuts /\ MainRecovered /\ FreshRuns /\ StartingRun
    /\ ClaimsActive /\ ClaimsHaveJobs /\ DestinationsDiffer /\ ClaimsExclusive

DriverInv == RowInv /\ ClaimInv /\ AliveDrives

(* The empty database and the stopped engine satisfy the invariant.        *)
LEMMA DriverInit == Init => DriverInv
<1>1. Init => EngineQuiet /\ StopAllShuts /\ MainRecovered /\ FreshRuns /\ StartingRun
  BY DEF Init, EngineQuiet, StopAllShuts, MainRecovered, FreshRuns, StartingRun, Recoverers
<1>2. Init => \A r \in Runs : ~Claims(r)
  BY ConstantTypes DEF Init, Claims, Claiming, Driving, Runs
<1>3. Init => DestinationsDiffer
  BY DEF Init, DestinationsDiffer, Registered, DeleteModes
<1>4. Init => AliveDrives
  BY DEF Init, AliveDrives
<1> QED BY <1>1, <1>2, <1>3, <1>4, RowInit
           DEF DriverInv, ClaimInv, ClaimsActive, ClaimsHaveJobs, ClaimsExclusive

(* A step that creates no claim and keeps the rows of claims active.       *)
LEMMA NoNewClaim ==
    ASSUME ClaimInv,
           UNCHANGED <<engine, starting, shutting, nextRun, jobOf, reg, blocked, recSnap>>,
           StopAllShuts',
           \A r \in Runs : /\ pc'[r] \in Claiming => pc[r] \in Claiming
                           /\ pc[r] = "none" => pc'[r] = "none",
           \A r \in Runs : Claims(r)' /\ ~shutting => IsActive(r)',
           starting \in 0..MaxRuns
    PROVE  ClaimInv'
<1>1. \A r \in Runs : Claims(r)' => Claims(r)
  BY DEF Claims
<1>2. EngineQuiet' /\ MainRecovered' /\ FreshRuns' /\ StartingRun'
  BY DEF ClaimInv, EngineQuiet, MainRecovered, FreshRuns, StartingRun, Runs
<1>3. ClaimsActive'
  BY <1>1 DEF ClaimInv, ClaimsActive
<1>4. ClaimsHaveJobs' /\ DestinationsDiffer' /\ ClaimsExclusive'
  BY <1>1 DEF ClaimInv, ClaimsHaveJobs, DestinationsDiffer, ClaimsExclusive
<1> QED BY <1>2, <1>3, <1>4 DEF ClaimInv

(* The same for a step that leaves the threads and the row states alone.   *)
LEMMA ClaimsKept ==
    ASSUME DriverInv,
           UNCHANGED <<engine, starting, pc, shutting, nextRun, jobOf, rstate, reg,
                       blocked, recSnap>>,
           StopAllShuts'
    PROVE  ClaimInv'
<1>1. starting \in 0..MaxRuns
  BY DEF DriverInv, RowInv, TypeOK, TypeEngine
<1>2. \A r \in Runs : Claims(r)' /\ ~shutting => IsActive(r)'
  BY DEF DriverInv, ClaimInv, ClaimsActive, Claims, IsActive
<1> QED BY <1>1, <1>2, NoNewClaim DEF DriverInv

(* The thread of a run gives up its claim before it writes an outcome.     *)
LEMMA ClaimsRunThread ==
    ASSUME DriverInv, NEW r \in Runs, RunThread(r)
    PROVE  ClaimInv' /\ AliveDrives'
<1>0. /\ pc \in [Runs -> ThreadSteps] /\ starting \in 0..MaxRuns
      /\ rstate \in [Runs -> {"none"} \cup ActiveStates \cup TerminalStates]
      /\ leader \in [Runs -> {"none", "alive", "zombie", "gone"}]
  BY DEF DriverInv, RowInv, TypeOK, TypeEngine, TypeRows, TypeOs
<1>1. UNCHANGED <<engine, starting, shutting, sa, reg, recSnap>>
  BY DEF RunThread, CheckStop, FinishStoppedRun, FinishPreSpawnFailure, SpawnDriver,
     RecordSpawned, KillUnrecorded, AttachGroup, TermNewGroup, WaitEndOfStream,
     WaitLeaderOnly, ReapLeader, KillLeftovers, FinishChildRun, ThreadRemoveOwner,
     ThreadOnly, engineVars, stopVars, jobVars, recVars
<1>2. UNCHANGED <<nextRun, jobOf, blocked>>
  BY DEF RunThread, CheckStop, FinishStoppedRun, FinishStoppedRow, FinishPreSpawnFailure,
     SpawnDriver, RecordSpawned, KillUnrecorded, AttachGroup, TermNewGroup,
     WaitEndOfStream, WaitLeaderOnly, ReapLeader, KillLeftovers, FinishChildRun,
     ThreadRemoveOwner, SetState, rowVars
<1>3. PICK step \in ThreadSteps :
        /\ pc' = [pc EXCEPT ![r] = step] /\ pc[r] # "none"
        /\ step \in Claiming => pc[r] \in Claiming
  BY DEF RunThread, CheckStop, FinishStoppedRun, FinishPreSpawnFailure, SpawnDriver,
     RecordSpawned, KillUnrecorded, AttachGroup, TermNewGroup, WaitEndOfStream,
     WaitLeaderOnly, ReapLeader, KillLeftovers, FinishChildRun, ThreadRemoveOwner,
     At, Goto, ThreadSteps, Claiming, Driving
<1>4. \A s \in Runs : /\ pc'[s] \in Claiming => pc[s] \in Claiming
                      /\ pc[s] = "none" => pc'[s] = "none"
  BY <1>0, <1>3
<1>5. starting # r
  BY <1>3 DEF DriverInv, ClaimInv, StartingRun, Runs
<1>6. \A s \in Runs : s # r => rstate'[s] = rstate[s]
  BY <1>0 DEF RunThread, CheckStop, FinishStoppedRun, FinishStoppedRow,
     FinishPreSpawnFailure, SpawnDriver, RecordSpawned, KillUnrecorded, AttachGroup,
     TermNewGroup, WaitEndOfStream, WaitLeaderOnly, ReapLeader, KillLeftovers,
     FinishChildRun, ThreadRemoveOwner, SetState, rowVars
<1>7. pc'[r] \in Claiming => rstate'[r] = rstate[r] \/ rstate'[r] \in ActiveStates
  <2>1. CASE RecordSpawned(r)
    BY <1>0, <2>1 DEF RecordSpawned, RecordedState, rowVars, ActiveStates
  <2>2. CASE FinishStoppedRun(r) \/ FinishPreSpawnFailure(r) \/ FinishChildRun(r)
    BY <1>0, <2>2 DEF FinishStoppedRun, FinishPreSpawnFailure, FinishChildRun, Goto,
       Claiming, Driving
  <2>3. CASE ~(RecordSpawned(r) \/ FinishStoppedRun(r) \/ FinishPreSpawnFailure(r)
                  \/ FinishChildRun(r))
    BY <2>3 DEF RunThread, CheckStop, SpawnDriver, KillUnrecorded, AttachGroup,
       TermNewGroup, WaitEndOfStream, WaitLeaderOnly, ReapLeader, KillLeftovers,
       ThreadRemoveOwner, rowVars
  <2> QED BY <2>1, <2>2, <2>3
<1>8. \A s \in Runs : Claims(s)' /\ ~shutting => IsActive(s)'
  BY <1>1, <1>4, <1>5, <1>6, <1>7 DEF DriverInv, ClaimInv, ClaimsActive, Claims, IsActive
<1>9. ClaimInv'
  <2>1. StopAllShuts'
    BY <1>1 DEF DriverInv, ClaimInv, StopAllShuts
  <2> QED BY <1>0, <1>1, <1>2, <1>4, <1>8, <2>1, NoNewClaim DEF DriverInv
<1>10. \A s \in Runs : s # r => leader'[s] = leader[s]
  BY <1>0 DEF RunThread, CheckStop, FinishStoppedRun, FinishPreSpawnFailure, SpawnDriver,
     RecordSpawned, KillUnrecorded, AttachGroup, TermNewGroup, WaitEndOfStream,
     WaitLeaderOnly, ReapLeader, KillLeftovers, FinishChildRun, ThreadRemoveOwner,
     SignalOwned, SigTerm, SigKill, osVars
<1>11. Linux /\ leader'[r] = "alive" => pc'[r] \in Driving
  <2>1. Linux /\ leader[r] = "alive" => pc[r] \in Driving
    BY DEF DriverInv, AliveDrives
  <2>2. CASE pc[r] \notin Driving \cup {"spawn"}
    <3>1. leader'[r] = "alive" => leader[r] = "alive"
      BY <1>0, <2>2 DEF RunThread, CheckStop, FinishStoppedRun, FinishPreSpawnFailure,
         SpawnDriver, RecordSpawned, KillUnrecorded, AttachGroup, TermNewGroup,
         WaitEndOfStream, WaitLeaderOnly, ReapLeader, KillLeftovers, FinishChildRun,
         ThreadRemoveOwner, SignalOwned, SigKill, osVars, At, Driving
    <3> QED BY <2>1, <2>2, <3>1
  <2>3. CASE SpawnDriver(r)
    BY <1>0, <2>1, <2>3 DEF SpawnDriver, At, Goto, osVars, Driving
  <2>4. CASE KillUnrecorded(r) \/ WaitEndOfStream(r) \/ WaitLeaderOnly(r)
    BY <1>0, <2>4 DEF KillUnrecorded, WaitEndOfStream, WaitLeaderOnly, ReapLeader
  <2>5. CASE RecordSpawned(r) \/ AttachGroup(r) \/ TermNewGroup(r)
    BY <1>0, <2>5 DEF RecordSpawned, AttachGroup, TermNewGroup, Goto, Driving
  <2>6. CASE pc[r] \in Driving \cup {"spawn"}
    <3>1. SpawnDriver(r) \/ KillUnrecorded(r) \/ WaitEndOfStream(r) \/ WaitLeaderOnly(r)
             \/ RecordSpawned(r) \/ AttachGroup(r) \/ TermNewGroup(r)
      BY <2>6 DEF RunThread, CheckStop, FinishStoppedRun, FinishPreSpawnFailure,
         KillLeftovers, FinishChildRun, ThreadRemoveOwner, At, Driving
    <3> QED BY <2>3, <2>4, <2>5, <3>1
  <2> QED BY <2>2, <2>6
<1>12. AliveDrives'
  BY <1>0, <1>3, <1>10, <1>11 DEF DriverInv, AliveDrives
<1> QED BY <1>9, <1>12

(* Signals and exits never bring a driver to life.                         *)
LEMMA AliveKept ==
    ASSUME DriverInv, UNCHANGED pc,
           \A r \in Runs : leader'[r] = "alive" => leader[r] = "alive"
    PROVE  AliveDrives'
BY DEF DriverInv, AliveDrives

(* request_stop keeps the row of a claim active; stop_all writes outcomes  *)
(* only after shutdown began.                                              *)
LEMMA ClaimsStopCall ==
    ASSUME DriverInv, NEW c \in stops, StopCall(c)
    PROVE  ClaimInv' /\ AliveDrives'
<1>1. UNCHANGED <<engine, starting, pc, shutting, sa, reg, recSnap>>
  BY DEF StopCall, MarkOwner, TermOwned, EscalateCancel, StopAllKill, StopAllFinish,
     StopAllRemoveOwner, StopOnly, StopAllOnly, engineVars, jobVars, recVars
<1>2. UNCHANGED <<nextRun, jobOf, blocked>>
  BY DEF StopCall, MarkOwner, TermOwned, EscalateCancel, StopAllKill, StopAllFinish,
     FinishStoppedRow, SetState, StopAllRemoveOwner, rowVars
<1>3. UNCHANGED rstate \/ shutting
  <2>1. sa = "finish" => shutting
    BY DEF DriverInv, ClaimInv, StopAllShuts
  <2> QED BY <2>1 DEF StopCall, MarkOwner, TermOwned, EscalateCancel, StopAllKill,
             StopAllFinish, StopAllRemoveOwner, rowVars
<1>4. StopAllShuts' /\ starting \in 0..MaxRuns
  BY <1>1 DEF DriverInv, ClaimInv, StopAllShuts, RowInv, TypeOK, TypeEngine
<1>5. \A r \in Runs : Claims(r)' /\ ~shutting => IsActive(r)'
  BY <1>1, <1>3 DEF DriverInv, ClaimInv, ClaimsActive, Claims, IsActive
<1>6. ClaimInv'
  BY <1>1, <1>2, <1>4, <1>5, NoNewClaim DEF DriverInv
<1>7. \A r \in Runs : leader'[r] = "alive" => leader[r] = "alive"
  <2>1. leader \in [Runs -> {"none", "alive", "zombie", "gone"}]
    BY DEF DriverInv, RowInv, TypeOK, TypeOs
  <2> QED BY <2>1 DEF StopCall, MarkOwner, TermOwned, EscalateCancel, StopAllKill,
             StopAllFinish, StopAllRemoveOwner, SignalOwned, SigTerm, SigKill, osVars
<1> QED BY <1>1, <1>6, <1>7, AliveKept

(* A snapshot of recover_runs taken while shutting down, or one that holds *)
(* no claimed row, leaves the claims alone.                                *)
LEMMA ClaimsSnapshot ==
    ASSUME DriverInv, StopAllShuts', NEW c \in Recoverers, NEW only \in BOOLEAN,
           Snapshot(c, only),
           UNCHANGED <<engine, starting, pc, shutting, nextRun, jobOf, rstate, reg, blocked>>,
           shutting \/ (only /\ c = "tick" /\ engine = "up")
    PROVE  ClaimInv'
<1>1. /\ recSnap \in [Recoverers -> [Runs -> {"none"} \cup ActiveStates]]
      /\ recSnap' = [recSnap EXCEPT ![c] =
                        [r \in Runs |-> IF Seen(r, only) THEN rstate[r] ELSE "none"]]
  BY DEF Snapshot, DriverInv, RowInv, TypeOK, TypeRec
<1>2. ClaimsActive'
  <2> SUFFICES ASSUME ~shutting, NEW r \in Runs, Claims(r)
               PROVE  recSnap'["tick"][r] = "none"
    BY DEF DriverInv, ClaimInv, ClaimsActive, Claims, IsActive
  <2>1. blocked[r] = FALSE
    BY DEF DriverInv, ClaimInv, ClaimsActive
  <2> QED BY <1>1, <2>1 DEF Seen
<1>3. FreshRuns'
  <2> SUFFICES ASSUME NEW r \in Runs, r >= nextRun, NEW d \in Recoverers
               PROVE  recSnap'[d][r] = "none"
    BY DEF DriverInv, ClaimInv, FreshRuns
  <2>1. ~Seen(r, only) /\ recSnap[d][r] = "none"
    BY DEF DriverInv, ClaimInv, FreshRuns, RowInv, FreshRows, Seen, IsActive, ActiveStates
  <2> QED BY <1>1, <2>1
<1>4. MainRecovered'
  BY <1>1 DEF DriverInv, ClaimInv, MainRecovered, Recoverers
<1>5. EngineQuiet' /\ StartingRun' /\ ClaimsHaveJobs' /\ DestinationsDiffer' /\ ClaimsExclusive'
  BY DEF DriverInv, ClaimInv, EngineQuiet, StartingRun, ClaimsHaveJobs, DestinationsDiffer,
     ClaimsExclusive, Claims
<1> QED BY <1>2, <1>3, <1>4, <1>5 DEF ClaimInv

(* A stop moves an active row to another active state.                     *)
LEMMA ClaimsRequestStop ==
    ASSUME DriverInv, StopAllShuts', NEW r \in Runs, NEW who \in StopReasons,
           IsActive(r), RequestStop(r, who),
           UNCHANGED <<engine, starting, pc, shutting, reg, recSnap>>
    PROVE  ClaimInv'
<1>1. starting \in 0..MaxRuns
  BY DEF DriverInv, RowInv, TypeOK, TypeEngine
<1>2. \A s \in Runs : IsActive(s) => IsActive(s)'
  BY DEF RequestStop, IsActive, ActiveStates, DriverInv, RowInv, TypeOK, TypeRows
<1>3. \A s \in Runs : Claims(s)' /\ ~shutting => IsActive(s)'
  BY <1>2 DEF DriverInv, ClaimInv, ClaimsActive, Claims
<1> QED BY <1>1, <1>3, NoNewClaim DEF DriverInv, RequestStop

(* stop_all raises the flag before anything else.                          *)
LEMMA ClaimsStopAll ==
    ASSUME DriverInv, StopAll
    PROVE  ClaimInv' /\ AliveDrives'
<1>0. UNCHANGED <<engine, starting, pc, reg, leader>>
  BY DEF StopAll, StopAllFlag, StopAllGate, StopAllRequest, StopAllEscalate, StopAllKilled,
     StopAllRecover, StopAllOnly, engineVars, jobVars, osVars
<1>1. StopAllShuts'
  BY DEF StopAll, StopAllFlag, StopAllGate, StopAllRequest, StopAllEscalate, StopAllKilled,
     StopAllRecover, DriverInv, ClaimInv, StopAllShuts
<1>2. AliveDrives'
  BY <1>0, AliveKept
<1>3. CASE StopAllFlag
  <2>1. /\ shutting' = TRUE /\ engine = "up"
        /\ UNCHANGED <<nextRun, jobOf, rstate, blocked, recSnap>>
    BY <1>3 DEF StopAllFlag, rowVars, recVars
  <2>2. ClaimInv'
    BY <1>0, <1>1, <2>1 DEF DriverInv, ClaimInv, EngineQuiet, MainRecovered, FreshRuns,
       StartingRun, ClaimsActive, ClaimsHaveJobs, DestinationsDiffer, ClaimsExclusive,
       Claims
  <2> QED BY <1>2, <2>2
<1>4. CASE StopAllGate \/ StopAllEscalate \/ StopAllKilled
  <2>1. UNCHANGED <<shutting, nextRun, jobOf, rstate, blocked, recSnap>>
    BY <1>4 DEF StopAllGate, StopAllEscalate, StopAllKilled, rowVars, recVars
  <2> QED BY <1>0, <1>1, <1>2, <2>1, ClaimsKept
<1>5. ASSUME NEW j \in Jobs, StopAllRequest(j) PROVE ClaimInv'
  <2>1. UNCHANGED <<shutting, recSnap>>
    BY <1>5 DEF StopAllRequest, recVars
  <2>2. CASE UNCHANGED rowVars
    BY <1>0, <1>1, <2>1, <2>2, ClaimsKept DEF rowVars
  <2>3. CASE ~UNCHANGED rowVars
    <3>1. PICK r \in RowsOf(j) : IsActive(r) /\ RequestStop(r, "shutdown")
      BY <1>5, <2>3 DEF StopAllRequest
    <3>2. r \in Runs
      BY DEF RowsOf
    <3> QED BY <1>0, <1>1, <2>1, <3>1, <3>2, ClaimsRequestStop DEF StopReasons
  <2> QED BY <2>2, <2>3
<1>6. CASE StopAllRecover
  <2>1. /\ UNCHANGED <<shutting, nextRun, jobOf, rstate, blocked>>
        /\ Snapshot("main", FALSE) /\ sa = "finish"
    BY <1>6 DEF StopAllRecover, rowVars
  <2>2. shutting
    BY <2>1 DEF DriverInv, ClaimInv, StopAllShuts
  <2> QED BY <1>0, <1>1, <1>2, <2>1, <2>2, ClaimsSnapshot DEF Recoverers
<1> QED BY <1>2, <1>3, <1>4, <1>5, <1>6 DEF StopAll

(* Recovery writes no claimed row before shutdown.                         *)
LEMMA ClaimsRecovery ==
    ASSUME DriverInv, NEW c \in Recoverers, Recovery(c)
    PROVE  ClaimInv' /\ AliveDrives'
<1>0. UNCHANGED <<engine, starting, pc, shutting, sa, reg, nextRun, jobOf>>
  BY DEF Recovery, RecTerminate, RecWrite, RecOnly, engineVars, stopVars, jobVars, rowVars
<1>1. StopAllShuts'
  BY <1>0 DEF DriverInv, ClaimInv, StopAllShuts
<1>2. AliveDrives'
  <2>1. leader \in [Runs -> {"none", "alive", "zombie", "gone"}]
    BY DEF DriverInv, RowInv, TypeOK, TypeOs
  <2>2. \A r \in Runs : leader'[r] = "alive" => leader[r] = "alive"
    BY <2>1 DEF Recovery, RecTerminate, RecWrite, DestroyGroup, osVars
  <2> QED BY <1>0, <2>2, AliveKept
<1>3. CASE \E r \in Runs : RecTerminate(c, r)
  <2>1. UNCHANGED <<rstate, blocked, recSnap>>
    BY <1>3 DEF RecTerminate, rowVars
  <2> QED BY <1>0, <1>1, <2>1, ClaimsKept, <1>2
<1>4. ASSUME NEW r \in Runs, RecWrite(c, r) PROVE ClaimInv'
  <2>1. /\ recSnap \in [Recoverers -> [Runs -> {"none"} \cup ActiveStates]]
        /\ rstate \in [Runs -> {"none"} \cup ActiveStates \cup TerminalStates]
        /\ blocked \in [Runs -> BOOLEAN] /\ starting \in 0..MaxRuns
    BY DEF DriverInv, RowInv, TypeOK, TypeRec, TypeRows, TypeEngine
  <2>2. /\ recSnap[c][r] # "none" /\ engine # "down"
        /\ recSnap' = [recSnap EXCEPT ![c][r] = "none"]
        /\ \A s \in Runs : s # r => rstate'[s] = rstate[s] /\ blocked'[s] = blocked[s]
    BY <1>4, <2>1 DEF RecWrite, RecMayWrite
  <2>3. Claims(r) => shutting
    BY <2>2 DEF DriverInv, ClaimInv, EngineQuiet, MainRecovered, ClaimsActive, Claims,
       Recoverers, Claiming, Driving, Runs
  <2>4. r < nextRun
    <3>1. r \in Nat /\ nextRun \in Nat
      BY ConstantTypes DEF Runs, DriverInv, RowInv, TypeOK, TypeRows
    <3> QED BY <2>2, <3>1 DEF DriverInv, ClaimInv, FreshRuns
  <2>5. \A d \in Recoverers, s \in Runs : recSnap[d][s] = "none" => recSnap'[d][s] = "none"
    BY <2>1, <2>2
  <2>6. \A s \in Runs : Claims(s)' <=> Claims(s)
    BY <1>0 DEF Claims
  <2>7. EngineQuiet' /\ MainRecovered' /\ StartingRun'
    BY <1>0, <2>5 DEF DriverInv, ClaimInv, EngineQuiet, MainRecovered, StartingRun, Recoverers
  <2>8. FreshRuns'
    <3>1. \A s \in Runs : s >= nextRun => s # r
      BY <2>4, ConstantTypes DEF Runs, DriverInv, RowInv, TypeOK, TypeRows
    <3> QED BY <1>0, <2>2, <2>5, <3>1 DEF DriverInv, ClaimInv, FreshRuns
  <2>9. ClaimsActive'
    <3>1. "tick" \in Recoverers
      BY DEF Recoverers
    <3> QED BY <1>0, <2>2, <2>3, <2>5, <2>6, <3>1 DEF DriverInv, ClaimInv, ClaimsActive, IsActive
  <2>10. ClaimsHaveJobs' /\ DestinationsDiffer' /\ ClaimsExclusive'
    BY <1>0, <2>6 DEF DriverInv, ClaimInv, ClaimsHaveJobs, DestinationsDiffer, ClaimsExclusive
  <2> QED BY <1>1, <2>7, <2>8, <2>9, <2>10 DEF ClaimInv
<1> QED BY <1>2, <1>3, <1>4 DEF Recovery

(* start_job's transaction: no claim exists on the destination, and none   *)
(* of a Wikipedia job when the new run is one.                             *)
LEMMA ClaimsInsert ==
    ASSUME DriverInv, engine = "up", GateFree, NEW j \in Jobs, NEW req,
           Admissible(j, req), InsertRun(j, req), StopAllShuts',
           UNCHANGED <<engine, pc, shutting, reg, recSnap>>
    PROVE  ClaimInv'
<1>1. /\ nextRun \in Runs /\ nextRun \in Nat /\ nextRun # 0 /\ nextRun' = nextRun + 1
      /\ jobOf \in [Runs -> Jobs \cup {NoJob}]
      /\ rstate \in [Runs -> {"none"} \cup ActiveStates \cup TerminalStates]
      /\ \A r \in Runs : r \in Nat
  BY ConstantTypes DEF InsertRun, DriverInv, RowInv, TypeOK, TypeRows, Runs
<1>2. /\ jobOf' = [jobOf EXCEPT ![nextRun] = j]
      /\ rstate' = [rstate EXCEPT ![nextRun] = "starting"]
      /\ starting' = nextRun /\ starting = 0 /\ blocked' = blocked
      /\ shutting = FALSE /\ reg[j] = "active"
  BY DEF InsertRun, GateFree, Admissible, DriverInv, RowInv, TypeOK, TypeStops
<1>3. \A r \in Runs : Claims(r)' <=> Claims(r) \/ r = nextRun
  BY <1>1, <1>2 DEF Claims, Runs
<1>4. /\ pc[nextRun] = "none" /\ blocked[nextRun] = FALSE
      /\ \A c \in Recoverers : recSnap[c][nextRun] = "none"
  BY <1>1 DEF DriverInv, ClaimInv, FreshRuns
<1>5. ~Claims(nextRun)
  BY <1>1, <1>2, <1>4 DEF Claims, Claiming, Driving
<1>6. \A r \in Runs : Claims(r) =>
         /\ r # nextRun /\ jobOf'[r] = jobOf[r] /\ rstate'[r] = rstate[r]
         /\ IsActive(r) /\ jobOf[r] \in Jobs /\ reg[jobOf[r]] = "active"
  BY <1>1, <1>2, <1>5 DEF DriverInv, ClaimInv, ClaimsActive, ClaimsHaveJobs
<1>7. \A r \in Runs : Claims(r) => /\ Dest[jobOf[r]] # Dest[j]
                                   /\ ~(jobOf[r] \in WikiJobs /\ j \in WikiJobs)
  <2> SUFFICES ASSUME NEW r \in Runs, Claims(r)
               PROVE  /\ Dest[jobOf[r]] # Dest[j]
                      /\ ~(jobOf[r] \in WikiJobs /\ j \in WikiJobs)
    OBVIOUS
  <2>1. HasActiveRun(jobOf[r])
    BY <1>6 DEF HasActiveRun, RowsOf, IsActive, ActiveStates
  <2>2. jobOf[r] # j /\ ~(jobOf[r] \in WikiJobs /\ j \in WikiJobs)
    BY <2>1 DEF Admissible, WikiSlotFree
  <2> QED BY <1>2, <1>6, <2>2 DEF DriverInv, ClaimInv, DestinationsDiffer, Registered
<1>8. EngineQuiet' /\ MainRecovered' /\ DestinationsDiffer'
  BY DEF DriverInv, ClaimInv, EngineQuiet, MainRecovered, DestinationsDiffer
<1>9. FreshRuns' /\ StartingRun'
  BY <1>1, <1>2, <1>4 DEF DriverInv, ClaimInv, FreshRuns, StartingRun
<1>10. ClaimsActive'
  <2> SUFFICES ASSUME NEW r \in Runs, Claims(r)'
               PROVE  /\ IsActive(r)' /\ reg[jobOf'[r]] = "active"
                      /\ blocked[r] = FALSE /\ recSnap["tick"][r] = "none"
    BY <1>2 DEF ClaimsActive
  <2>1. CASE r = nextRun
    BY <1>1, <1>2, <1>4, <2>1 DEF IsActive, ActiveStates, Recoverers
  <2>2. CASE Claims(r)
    BY <1>2, <1>6, <2>2 DEF DriverInv, ClaimInv, ClaimsActive, IsActive
  <2> QED BY <1>3, <2>1, <2>2
<1>11. ClaimsHaveJobs'
  BY <1>1, <1>2, <1>3, <1>6 DEF ClaimsHaveJobs
<1>12. jobOf'[nextRun] = j
  BY <1>1, <1>2
<1>13. ClaimsExclusive'
  <2> SUFFICES ASSUME NEW r \in Runs, NEW s \in Runs, r # s, Claims(r)', Claims(s)'
               PROVE  /\ Dest[jobOf'[r]] # Dest[jobOf'[s]]
                      /\ ~(jobOf'[r] \in WikiJobs /\ jobOf'[s] \in WikiJobs)
    BY DEF ClaimsExclusive
  <2>1. CASE r = nextRun
    BY <1>3, <1>6, <1>7, <1>12, <2>1
  <2>2. CASE s = nextRun
    BY <1>3, <1>6, <1>7, <1>12, <2>2
  <2>3. CASE r # nextRun /\ s # nextRun
    BY <1>3, <1>6, <2>3 DEF DriverInv, ClaimInv, ClaimsExclusive
  <2> QED BY <2>1, <2>2, <2>3
<1> QED BY <1>8, <1>9, <1>10, <1>11, <1>13 DEF ClaimInv

(* The owner entry and the thread: the claim passes from the gate to them. *)
LEMMA ClaimsRegister ==
    ASSUME DriverInv, RegisterOwner
    PROVE  ClaimInv' /\ AliveDrives'
<1>1. /\ starting \in Runs /\ starting' = 0 /\ pc' = [pc EXCEPT ![starting] = "check"]
      /\ pc \in [Runs -> ThreadSteps] /\ engine = "up" /\ 0 \notin Runs
      /\ UNCHANGED <<engine, shutting, sa, nextRun, jobOf, rstate, reg, blocked, recSnap, leader>>
  BY ConstantTypes DEF RegisterOwner, DriverInv, RowInv, TypeOK, TypeEngine, Runs, stopVars,
     rowVars, jobVars, recVars, osVars
<1>2. pc[starting] = "none" /\ starting < nextRun
  BY <1>1 DEF DriverInv, ClaimInv, StartingRun, Runs
<1>3. \A r \in Runs : Claims(r)' <=> Claims(r)
  BY <1>1 DEF Claims, Claiming
<1>4. EngineQuiet' /\ StopAllShuts' /\ MainRecovered' /\ StartingRun'
  BY <1>1 DEF DriverInv, ClaimInv, EngineQuiet, StopAllShuts, MainRecovered, StartingRun
<1>5. FreshRuns'
  <2>1. \A r \in Runs : r >= nextRun => r # starting
    BY <1>1, <1>2, ConstantTypes DEF Runs, DriverInv, RowInv, TypeOK, TypeRows
  <2> QED BY <1>1, <2>1 DEF DriverInv, ClaimInv, FreshRuns
<1>6. ClaimsActive' /\ ClaimsHaveJobs' /\ DestinationsDiffer' /\ ClaimsExclusive'
  BY <1>1, <1>3 DEF DriverInv, ClaimInv, ClaimsActive, ClaimsHaveJobs, DestinationsDiffer,
     ClaimsExclusive, IsActive
<1>7. AliveDrives'
  BY <1>1, <1>2 DEF DriverInv, AliveDrives, Driving
<1> QED BY <1>4, <1>5, <1>6, <1>7 DEF ClaimInv

(* Users, and deletion of a job without an active run.                     *)
LEMMA ClaimsUserRequest ==
    ASSUME DriverInv, UserRequest
    PROVE  ClaimInv' /\ AliveDrives'
<1>0. UNCHANGED <<engine, pc, shutting, sa, recSnap, leader, blocked>>
  BY DEF UserRequest, JobAdd, JobSetPaused, JobRun, JobCancel, StopOnly, RequestStop,
     InsertRun, engineVars, stopVars, recVars, osVars, rowVars
<1>1. StopAllShuts'
  BY <1>0 DEF DriverInv, ClaimInv, StopAllShuts
<1>2. AliveDrives'
  BY <1>0, AliveKept
<1>3. ASSUME NEW j \in Jobs, JobAdd(j) PROVE ClaimInv'
  <2>1. /\ UNCHANGED <<starting, nextRun, jobOf, rstate>>
        /\ reg' = [reg EXCEPT ![j] = "active"] /\ reg[j] = "absent" /\ DestFree(j)
        /\ reg \in [Jobs -> {"absent", "removed"} \cup Registered]
    BY <1>3 DEF JobAdd, rowVars, engineVars, DriverInv, RowInv, TypeOK, TypeJobs
  <2>2. ClaimsActive'
    <3> SUFFICES ASSUME ~shutting, NEW r \in Runs, Claims(r)
                 PROVE  reg'[jobOf[r]] = "active"
      BY <1>0, <2>1 DEF DriverInv, ClaimInv, ClaimsActive, Claims, IsActive
    <3>1. jobOf[r] \in Jobs /\ reg[jobOf[r]] = "active"
      BY DEF DriverInv, ClaimInv, ClaimsActive, ClaimsHaveJobs
    <3> QED BY <2>1, <3>1
  <2>3. DestinationsDiffer'
    BY <2>1 DEF DriverInv, ClaimInv, DestinationsDiffer, DestFree
  <2>4. EngineQuiet' /\ MainRecovered' /\ FreshRuns' /\ StartingRun'
    BY <1>0, <2>1 DEF DriverInv, ClaimInv, EngineQuiet, MainRecovered, FreshRuns, StartingRun
  <2>5. ClaimsHaveJobs' /\ ClaimsExclusive'
    BY <1>0, <2>1 DEF DriverInv, ClaimInv, ClaimsHaveJobs, ClaimsExclusive, Claims
  <2> QED BY <1>1, <2>2, <2>3, <2>4, <2>5 DEF ClaimInv
<1>4. ASSUME NEW j \in Jobs, JobSetPaused(j) PROVE ClaimInv'
  <2>1. UNCHANGED <<starting, nextRun, jobOf, rstate, reg>>
    BY <1>4 DEF JobSetPaused, rowVars, engineVars
  <2> QED BY <1>0, <1>1, <2>1, ClaimsKept
<1>5. ASSUME NEW j \in Jobs, JobRun(j) PROVE ClaimInv'
  BY <1>0, <1>1, <1>5, ClaimsInsert DEF JobRun, jobVars
<1>6. ASSUME NEW r \in Runs, JobCancel(r) PROVE ClaimInv'
  BY <1>0, <1>1, <1>6, ClaimsRequestStop DEF JobCancel, StopReasons, StopOnly, jobVars,
     engineVars
<1> QED BY <1>2, <1>3, <1>4, <1>5, <1>6 DEF UserRequest

(* Until shutdown, a job that is being deleted has no claim.               *)
LEMMA ClaimsDeletion ==
    ASSUME DriverInv, Deletion
    PROVE  ClaimInv' /\ AliveDrives'
<1>0. UNCHANGED <<engine, starting, pc, shutting, sa, recSnap, leader, blocked, nextRun, jobOf>>
  BY DEF Deletion, DeletePrepare, DeleteDropOwner, DeleteFail, DeleteFinish, engineVars,
     stopVars, recVars, osVars, rowVars
<1>1. StopAllShuts'
  BY <1>0 DEF DriverInv, ClaimInv, StopAllShuts
<1>2. AliveDrives'
  BY <1>0, AliveKept
<1>3. EngineQuiet' /\ MainRecovered' /\ FreshRuns' /\ StartingRun' /\ ClaimsHaveJobs'
         /\ ClaimsExclusive'
  BY <1>0 DEF DriverInv, ClaimInv, EngineQuiet, MainRecovered, FreshRuns, StartingRun,
     ClaimsHaveJobs, ClaimsExclusive, Claims
<1>4. reg \in [Jobs -> {"absent", "removed"} \cup Registered]
  BY DEF DriverInv, RowInv, TypeOK, TypeJobs
<1>5. \A r \in Runs : ~shutting /\ Claims(r) =>
          IsActive(r) /\ jobOf[r] \in Jobs /\ reg[jobOf[r]] = "active"
  BY DEF DriverInv, ClaimInv, ClaimsActive, ClaimsHaveJobs
<1>6. ASSUME NEW j \in Jobs, NEW mode \in DeleteModes, DeletePrepare(j, mode)
      PROVE  ClaimInv'
  <2>1. /\ reg' = [reg EXCEPT ![j] = mode] /\ UNCHANGED rstate
        /\ reg[j] \in {"active", mode} /\ ~HasActiveRun(j)
    BY <1>6 DEF DeletePrepare, Deletable, rowVars
  <2>2. DestinationsDiffer'
    <3>1. \A k \in Jobs : reg'[k] \in Registered => reg[k] \in Registered
      BY <1>4, <2>1 DEF Registered
    <3> QED BY <3>1 DEF DriverInv, ClaimInv, DestinationsDiffer
  <2>3. \A r \in Runs : IsActive(r) => jobOf[r] # j
    BY <2>1 DEF HasActiveRun, RowsOf, IsActive, ActiveStates
  <2>4. ClaimsActive'
    BY <1>0, <1>4, <1>5, <2>1, <2>3 DEF DriverInv, ClaimInv, ClaimsActive, Claims, IsActive
  <2> QED BY <1>1, <1>3, <2>2, <2>4 DEF ClaimInv
<1>7. CASE DeleteFinish
  <2>1. /\ reg' = [reg EXCEPT ![delJob] = "removed"] /\ reg[delJob] \in DeleteModes
        /\ rstate' = [r \in Runs |-> IF jobOf[r] = delJob THEN "none" ELSE rstate[r]]
    BY <1>7 DEF DeleteFinish
  <2>2. DestinationsDiffer'
    BY <1>4, <2>1 DEF DriverInv, ClaimInv, DestinationsDiffer, Registered, DeleteModes
  <2>3. \A r \in Runs : ~shutting /\ Claims(r) => jobOf[r] # delJob
    BY <1>5, <2>1 DEF DeleteModes
  <2>4. ClaimsActive'
    BY <1>0, <1>4, <1>5, <2>1, <2>3 DEF DriverInv, ClaimInv, ClaimsActive, Claims, IsActive
  <2> QED BY <1>1, <1>2, <1>3, <2>2, <2>4 DEF ClaimInv
<1>8. CASE DeleteDropOwner \/ DeleteFail
  <2>1. UNCHANGED <<reg, rstate>>
    BY <1>8 DEF DeleteDropOwner, DeleteFail, jobVars, rowVars
  <2> QED BY <1>0, <1>1, <1>2, <2>1, ClaimsKept
<1> QED BY <1>2, <1>6, <1>7, <1>8 DEF Deletion

(* A tick recovers blocked rows only, and starts jobs as start_job does.   *)
LEMMA ClaimsScheduler ==
    ASSUME DriverInv, Scheduler
    PROVE  ClaimInv' /\ AliveDrives'
<1>0. UNCHANGED <<engine, pc, shutting, sa, reg, leader, blocked>>
  BY DEF Scheduler, TickRecover, TickProject, TickSleep, TickStart, TickSkip, TickFatal,
     InsertRun, engineVars, stopVars, jobVars, osVars, rowVars
<1>1. StopAllShuts'
  BY <1>0 DEF DriverInv, ClaimInv, StopAllShuts
<1>2. AliveDrives'
  BY <1>0, AliveKept
<1>3. CASE TickRecover
  <2>1. /\ UNCHANGED <<starting, nextRun, jobOf, rstate>>
        /\ Snapshot("tick", TRUE) /\ engine = "up"
    BY <1>3 DEF TickRecover, engineVars, rowVars
  <2> QED BY <1>0, <1>1, <1>2, <2>1, ClaimsSnapshot DEF Recoverers
<1>4. ASSUME NEW j \in Jobs, TickStart(j) PROVE ClaimInv'
  BY <1>0, <1>1, <1>4, ClaimsInsert DEF TickStart, recVars
<1>5. CASE TickProject \/ TickSleep \/ \E j \in Jobs : TickSkip(j) \/ TickFatal(j)
  <2>1. UNCHANGED <<starting, nextRun, jobOf, rstate, recSnap>>
    BY <1>5 DEF TickProject, TickSleep, TickSkip, TickFatal, engineVars, rowVars, recVars
  <2> QED BY <1>0, <1>1, <1>2, <2>1, ClaimsKept
<1> QED BY <1>2, <1>3, <1>4, <1>5 DEF Scheduler

(* The loss of the engine ends every claim; start-up recovery comes before *)
(* the first new one.                                                      *)
LEMMA ClaimsEngine ==
    ASSUME DriverInv, Crash \/ EngineExit \/ EngineStart \/ EngineServe
    PROVE  ClaimInv' /\ AliveDrives'
<1>1. CASE Crash \/ EngineExit
  <2>1. /\ engine' = "down" /\ starting' = 0 /\ shutting' = FALSE /\ sa' = "no"
        /\ pc' = [r \in Runs |-> "none"]
        /\ recSnap' = [c \in Recoverers |-> [r \in Runs |-> "none"]]
        /\ leader' = [r \in Runs |->
                        IF leader[r] = "zombie" \/ (leader[r] = "alive" /\ Linux)
                        THEN "gone" ELSE leader[r]]
        /\ UNCHANGED <<reg, nextRun, jobOf, blocked>>
    BY <1>1 DEF Crash, EngineExit, EngineGone, jobVars, rowVars
  <2>2. \A r \in Runs : ~Claims(r)'
    BY <2>1, ConstantTypes DEF Claims, Claiming, Driving, Runs
  <2>3. EngineQuiet' /\ StopAllShuts' /\ MainRecovered' /\ FreshRuns' /\ StartingRun'
           /\ DestinationsDiffer'
    BY <2>1 DEF DriverInv, ClaimInv, EngineQuiet, StopAllShuts, MainRecovered, FreshRuns,
       StartingRun, DestinationsDiffer
  <2>4. AliveDrives'
    BY <2>1 DEF AliveDrives
  <2> QED BY <2>2, <2>3, <2>4 DEF ClaimInv, ClaimsActive, ClaimsHaveJobs, ClaimsExclusive
<1>2. CASE EngineStart \/ EngineServe
  <2>1. UNCHANGED <<starting, pc, shutting, sa, reg, nextRun, jobOf, rstate, blocked, leader>>
    BY <1>2 DEF EngineStart, EngineServe, stopVars, jobVars, rowVars, osVars
  <2>2. engine # "up" /\ starting = 0 /\ shutting = FALSE /\ \A r \in Runs : pc[r] = "none"
    BY <1>2 DEF EngineStart, EngineServe, DriverInv, ClaimInv, EngineQuiet
  <2>3. \A r \in Runs : ~Claims(r)'
    BY <2>1, <2>2, ConstantTypes DEF Claims, Claiming, Driving, Runs
  <2>4. EngineQuiet' /\ StopAllShuts' /\ StartingRun' /\ DestinationsDiffer'
    BY <2>1, <2>2 DEF DriverInv, ClaimInv, EngineQuiet, StopAllShuts, StartingRun,
       DestinationsDiffer
  <2>5. MainRecovered'
    BY <1>2 DEF EngineStart, EngineServe, Recovered, MainRecovered, recVars
  <2>6. FreshRuns'
    <3>1. \A r \in Runs : r >= nextRun =>
             ~Seen(r, FALSE) /\ \A c \in Recoverers : recSnap[c][r] = "none"
      BY DEF DriverInv, ClaimInv, FreshRuns, RowInv, FreshRows, Seen, IsActive, ActiveStates
    <3>2. \A r \in Runs : r >= nextRun => \A c \in Recoverers : recSnap'[c][r] = "none"
      <4>1. recSnap \in [Recoverers -> [Runs -> {"none"} \cup ActiveStates]]
        BY DEF DriverInv, RowInv, TypeOK, TypeRec
      <4>2. CASE EngineServe
        BY <3>1, <4>2 DEF EngineServe, recVars
      <4>3. CASE EngineStart
        <5>1. recSnap' = [recSnap EXCEPT !["main"] =
                             [r \in Runs |-> IF Seen(r, FALSE) THEN rstate[r] ELSE "none"]]
          BY <4>3 DEF EngineStart, Snapshot
        <5> QED BY <3>1, <4>1, <5>1
      <4> QED BY <1>2, <4>2, <4>3
    <3> QED BY <2>1, <3>2 DEF DriverInv, ClaimInv, FreshRuns
  <2>7. AliveDrives'
    BY <2>1, AliveKept
  <2> QED BY <2>3, <2>4, <2>5, <2>6, <2>7
             DEF ClaimInv, ClaimsActive, ClaimsHaveJobs, ClaimsExclusive
<1> QED BY <1>1, <1>2

(* The operating system starts no driver by itself.                        *)
LEMMA ClaimsOs ==
    ASSUME DriverInv, Os
    PROVE  ClaimInv' /\ AliveDrives'
<1>1. OsOnly
  BY DEF Os, DriverForks, DriverExits, DescendantsExit, NumberReused, UnrelatedExits
<1>2. UNCHANGED <<engine, starting, pc, shutting, sa, nextRun, jobOf, rstate, reg, blocked, recSnap>>
  BY <1>1 DEF OsOnly, engineVars, stopVars, rowVars, jobVars, recVars
<1>3. StopAllShuts'
  BY <1>2 DEF DriverInv, ClaimInv, StopAllShuts
<1>4. \A r \in Runs : leader'[r] = "alive" => leader[r] = "alive"
  <2>1. leader \in [Runs -> {"none", "alive", "zombie", "gone"}]
    BY DEF DriverInv, RowInv, TypeOK, TypeOs
  <2> QED BY <2>1 DEF Os, DriverForks, DriverExits, DescendantsExit, NumberReused,
             UnrelatedExits
<1> QED BY <1>2, <1>3, <1>4, ClaimsKept, AliveKept

(* The invariant is inductive.                                             *)
LEMMA DriverNext == DriverInv /\ [Next]_vars => DriverInv'
<1> SUFFICES ASSUME DriverInv, [Next]_vars PROVE DriverInv'
  OBVIOUS
<1>1. RowInv'
  BY RowNext DEF DriverInv
<1>2. ClaimInv' /\ AliveDrives'
  <2>1. CASE UNCHANGED vars
    <3>1. UNCHANGED <<engine, starting, pc, shutting, sa, nextRun, jobOf, rstate, reg,
                      blocked, recSnap, leader>>
      BY <2>1 DEF vars, engineVars, stopVars, rowVars, jobVars, recVars, osVars
    <3>2. StopAllShuts'
      BY <3>1 DEF DriverInv, ClaimInv, StopAllShuts
    <3> QED BY <3>1, <3>2, ClaimsKept, AliveKept
  <2>2. CASE Next
    BY <2>2, ClaimsUserRequest, ClaimsDeletion, ClaimsRegister, ClaimsRunThread,
       ClaimsStopCall, ClaimsStopAll, ClaimsScheduler, ClaimsRecovery, ClaimsEngine,
       ClaimsOs DEF Next
  <2> QED BY <2>1, <2>2
<1> QED BY <1>1, <1>2 DEF DriverInv

(* Every reachable state satisfies the invariant of claims.                *)
THEOREM DriversInvariant == Spec => []DriverInv
BY DriverInit, DriverNext, PTL DEF Spec

(* On Linux two live drivers never share a destination, across explicit    *)
(* and scheduled starts, crashes, recovery, shutdown and re-registration.  *)
THEOREM OneDriverPerDestinationAlways ==
    ASSUME Linux PROVE Spec => []OneDriverPerDestination
<1>1. DriverInv => OneDriverPerDestination
  BY DEF DriverInv, AliveDrives, ClaimInv, ClaimsExclusive, Claims, Claiming,
     OneDriverPerDestination
<1> QED BY <1>1, DriversInvariant, PTL

(* On Linux at most one Wikipedia driver is alive in the whole engine.     *)
THEOREM OneWikiDriverAlways ==
    ASSUME Linux PROVE Spec => []OneWikiDriver
<1>1. DriverInv => OneWikiDriver
  BY DEF DriverInv, AliveDrives, ClaimInv, ClaimsExclusive, Claims, Claiming, OneWikiDriver
<1> QED BY <1>1, DriversInvariant, PTL

(* On Linux, until shutdown begins, a live driver has an active row: no    *)
(* completion, stop, recovery or deletion hides it.                        *)
THEOREM NoHiddenDriverAlways ==
    ASSUME Linux PROVE Spec => []NoHiddenDriver
<1>1. DriverInv => NoHiddenDriver
  BY DEF DriverInv, AliveDrives, ClaimInv, ClaimsActive, Claims, Claiming, NoHiddenDriver
<1> QED BY <1>1, DriversInvariant, PTL
=============================================================================
