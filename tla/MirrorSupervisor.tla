-------------------------- MODULE MirrorSupervisor --------------------------
(***************************************************************************)
(* The mirror supervisor of chupa/src/supervisor.rs: durable job and run   *)
(* rows, the in-memory owner map, one thread per run that spawns and waits *)
(* for its driver, cancellation with delayed escalation, the scheduler     *)
(* tick, stop_all, restart recovery, job deletion, and the operating       *)
(* system's view of each driver's process group.                           *)
(*                                                                         *)
(* Each action is one database transaction, one critical section on the    *)
(* owner map, one signal or one operating-system event: the interleavings  *)
(* are those of the program's threads.                                     *)
(***************************************************************************)
EXTENDS Integers, FiniteSets

CONSTANTS
    Jobs,         \* job ids
    WikiJobs,     \* the jobs of kind "wiki"
    Dest,         \* destination of each job
    NoJob,        \* no job
    MaxRuns,      \* bound on run ids (AUTOINCREMENT, never reused)
    MaxCrashes,   \* bound on losses of the engine process
    MaxCancels,   \* bound on calls of job_cancel that have not returned
    Workload,     \* what users and the host do besides adding and running
    Linux,        \* target_os: PR_SET_PDEATHSIG, and the spawned_at fallback
    Stubborn      \* drivers may outlive SIGTERM

ASSUME JobsAssumption == WikiJobs \subseteq Jobs /\ NoJob \notin Jobs
ASSUME BoundsAssumption ==
    MaxRuns \in Nat /\ MaxCrashes \in Nat /\ MaxCancels \in Nat
ASSUME WorkloadAssumption ==
    Workload \subseteq {"pause", "delete", "tick", "shutdown", "fork", "reuse"}
ASSUME HostAssumption == Linux \in BOOLEAN /\ Stubborn \in BOOLEAN

Runs == 1..MaxRuns
DeleteModes == {"registration", "data"}
Registered == {"active"} \cup DeleteModes
ActiveStates == {"starting", "running", "stopping"}
TerminalStates == {"succeeded", "failed", "cancelled", "interrupted"}
StopReasons == {"user", "shutdown"}
Recoverers == {"main", "tick"}   \* recover_unowned_runs, recover_blocked_runs

VARIABLES
    (* The mirrors database.  rstate "none": no such row; newest: the last  *)
    (* row of each job (index runs_by_job), 0 when it has none.             *)
    reg, paused,
    nextRun, newest, jobOf, rstate, request, reason, pg, ident, blocked,
    (* RUNNING: run id (0: no entry), group attached, stop reason. *)
    ownRun, ownPg, ownStop,
    (* The engine process, the gate held by start_job, the run threads. *)
    engine, crashes, starting, pc,
    (* Calls of request_stop that have not returned yet, and stop_all. *)
    stops, shutting, sa, saTodo,
    (* The scheduler thread and its projection. *)
    sched, schedTodo, schedWiki,
    (* recover_runs, per caller. *)
    recKill, recSnap, recBad,
    (* The deletion that holds DELETE_GATE. *)
    delAt, delJob,
    (* The operating system: leader and descendants of each run's group,    *)
    (* whether the group's number now names an unrelated group, the exit    *)
    (* status, and who signalled an unrelated group.                        *)
    leader, desc, reused, exit0, foreign

jobVars == <<reg, paused>>
rowVars == <<nextRun, newest, jobOf, rstate, request, reason, pg, ident, blocked>>
ownerVars == <<ownRun, ownPg, ownStop>>
engineVars == <<engine, crashes, starting>>
stopVars == <<stops, shutting, sa, saTodo>>
schedVars == <<sched, schedTodo, schedWiki>>
recVars == <<recKill, recSnap, recBad>>
delVars == <<delAt, delJob>>
osVars == <<leader, desc, reused, exit0, foreign>>
vars == <<jobVars, rowVars, ownerVars, engineVars, pc, stopVars, schedVars,
          recVars, delVars, osVars>>

(* A pending call of request_stop: who called, for which run, whether the  *)
(* row named a process group, and what the caller does next.               *)
StopCalls ==
    [by : StopReasons, run : Runs, known : BOOLEAN,
     at : {"mark", "term", "kill", "hold", "finish", "remove"}]

ThreadSteps ==
    {"none", "check", "stopped", "prefail", "spawn", "record", "kill",
     "killed", "attach", "attach_stop", "term", "wait", "post", "finish",
     "remove", "done"}

TypeJobs ==
    /\ reg \in [Jobs -> {"absent", "removed"} \cup Registered]
    /\ paused \in [Jobs -> BOOLEAN]

TypeRows ==
    /\ nextRun \in 1..(MaxRuns + 1)
    /\ newest \in [Jobs -> 0..MaxRuns]
    /\ jobOf \in [Runs -> Jobs \cup {NoJob}]
    /\ rstate \in [Runs -> {"none"} \cup ActiveStates \cup TerminalStates]
    /\ request \in [Runs -> {"none", "explicit", "scheduled"}]
    /\ reason \in [Runs -> {"none"} \cup StopReasons]
    /\ pg \in [Runs -> BOOLEAN] /\ ident \in [Runs -> BOOLEAN]
    /\ blocked \in [Runs -> BOOLEAN]

TypeOwners ==
    /\ ownRun \in [Jobs -> 0..MaxRuns] /\ ownPg \in [Jobs -> BOOLEAN]
    /\ ownStop \in [Jobs -> {"none"} \cup StopReasons]

TypeEngine ==
    /\ engine \in {"down", "recovering", "up"}
    /\ crashes \in 0..MaxCrashes /\ starting \in 0..MaxRuns
    /\ pc \in [Runs -> ThreadSteps]

TypeStops ==
    /\ stops \in SUBSET StopCalls /\ shutting \in BOOLEAN
    /\ sa \in {"no", "gate", "request", "kill", "finish", "recover"}
    /\ saTodo \in SUBSET Jobs

TypeSched ==
    /\ sched \in {"sleep", "recover", "start"}
    /\ schedTodo \in SUBSET Jobs /\ schedWiki \in BOOLEAN

TypeRec ==
    /\ recKill \in [Recoverers -> SUBSET Runs]
    /\ recSnap \in [Recoverers -> [Runs -> {"none"} \cup ActiveStates]]
    /\ recBad \in [Recoverers -> SUBSET Runs]

TypeDel ==
    /\ delAt \in {"idle", "owner", "clean"}
    /\ delJob \in IF delAt = "idle" THEN {NoJob} ELSE Jobs

TypeOs ==
    /\ leader \in [Runs -> {"none", "alive", "zombie", "gone"}]
    /\ desc \in [Runs -> BOOLEAN] /\ reused \in [Runs -> BOOLEAN]
    /\ exit0 \in [Runs -> BOOLEAN]
    /\ foreign \in SUBSET {"owned", "guessed"}

(* The columns of the schema and the fields of the in-memory tables hold   *)
(* values of their declared kinds.                                         *)
TypeOK ==
    /\ TypeJobs /\ TypeRows /\ TypeOwners /\ TypeEngine /\ TypeStops
    /\ TypeSched /\ TypeRec /\ TypeDel /\ TypeOs

Init ==
    /\ reg = [j \in Jobs |-> "absent"] /\ paused = [j \in Jobs |-> FALSE]
    /\ nextRun = 1 /\ newest = [j \in Jobs |-> 0] /\ jobOf = [r \in Runs |-> NoJob]
    /\ rstate = [r \in Runs |-> "none"] /\ request = [r \in Runs |-> "none"]
    /\ reason = [r \in Runs |-> "none"]
    /\ pg = [r \in Runs |-> FALSE] /\ ident = [r \in Runs |-> FALSE]
    /\ blocked = [r \in Runs |-> FALSE]
    /\ ownRun = [j \in Jobs |-> 0] /\ ownPg = [j \in Jobs |-> FALSE]
    /\ ownStop = [j \in Jobs |-> "none"]
    /\ engine = "down" /\ crashes = 0 /\ starting = 0
    /\ pc = [r \in Runs |-> "none"]
    /\ stops = {} /\ shutting = FALSE /\ sa = "no" /\ saTodo = {}
    /\ sched = "sleep" /\ schedTodo = {} /\ schedWiki = FALSE
    /\ recKill = [c \in Recoverers |-> {}]
    /\ recSnap = [c \in Recoverers |-> [r \in Runs |-> "none"]]
    /\ recBad = [c \in Recoverers |-> {}]
    /\ delAt = "idle" /\ delJob = NoJob
    /\ leader = [r \in Runs |-> "none"] /\ desc = [r \in Runs |-> FALSE]
    /\ reused = [r \in Runs |-> FALSE] /\ exit0 = [r \in Runs |-> FALSE]
    /\ foreign = {}
-----------------------------------------------------------------------------
(***************************************************************************)
(* Rows.                                                                   *)
(***************************************************************************)
RowsOf(j) == {r \in Runs : rstate[r] # "none" /\ jobOf[r] = j}

IsActive(r) == rstate[r] \in ActiveStates

(* NOT EXISTS(SELECT 1 FROM runs newer ...)                                *)
IsNewest(r) == newest[jobOf[r]] = r

(* ORDER BY id DESC LIMIT 1: j has no row, or its state is in S.           *)
LatestIn(j, S) == newest[j] # 0 => rstate[newest[j]] \in S

HasActiveRun(j) == \E r \in RowsOf(j) : IsActive(r)

(* Mutant: the stop reason is stored as the state.                         *)
StopOutcomeRaw(r) == reason[r]

StopOutcome(r) == IF reason[r] = "user" THEN "cancelled" ELSE "interrupted"

SetState(r, s) ==
    /\ rstate' = [rstate EXCEPT ![r] = s]
    /\ UNCHANGED <<nextRun, newest, jobOf, request, reason, pg, ident, blocked>>

(***************************************************************************)
(* Process groups.  kill(-pg, 0) finds a group while its leader is not     *)
(* reaped or a descendant lives; the number is free for reuse after that.  *)
(***************************************************************************)
GroupLive(r) == leader[r] \in {"alive", "zombie"} \/ desc[r]

SignalsForeign(r, by) ==
    foreign' = IF reused[r] THEN foreign \cup {by} ELSE foreign

SigTerm(r, by) ==
    /\ \/ /\ leader[r] = "alive"
          /\ leader' = [leader EXCEPT ![r] = "zombie"]
          /\ \E ok \in BOOLEAN : exit0' = [exit0 EXCEPT ![r] = ok]
       \/ /\ leader[r] # "alive" \/ Stubborn
          /\ UNCHANGED <<leader, exit0>>
    /\ \/ desc' = [desc EXCEPT ![r] = FALSE]
       \/ Stubborn /\ UNCHANGED desc
    /\ SignalsForeign(r, by)
    /\ UNCHANGED reused

SigKill(r, by) ==
    /\ leader' = [leader EXCEPT ![r] = IF @ = "alive" THEN "zombie" ELSE @]
    /\ exit0' = [exit0 EXCEPT ![r] = @ /\ leader[r] # "alive"]
    /\ desc' = [desc EXCEPT ![r] = FALSE]
    /\ SignalsForeign(r, by)
    /\ UNCHANGED reused

(* signal_owned reaches kill(2) only for the owner of that run, once a     *)
(* stop is marked and the group attached.                                  *)
Owns(r) ==
    /\ ownRun[jobOf[r]] = r
    /\ ownStop[jobOf[r]] # "none"
    /\ ownPg[jobOf[r]]

SignalOwned(r, Sig(_, _)) ==
    IF jobOf[r] # NoJob /\ Owns(r) THEN Sig(r, "owned") ELSE UNCHANGED osVars

RemoveOwner(r) ==
    /\ ownRun' = [j \in Jobs |-> IF ownRun[j] = r THEN 0 ELSE ownRun[j]]
    /\ ownPg' = [j \in Jobs |-> ownPg[j] /\ ownRun[j] # r]
    /\ ownStop' = [j \in Jobs |-> IF ownRun[j] = r THEN "none" ELSE ownStop[j]]

-----------------------------------------------------------------------------
(***************************************************************************)
(* Registration and schedule.                                              *)
(***************************************************************************)
DestFree(j) ==
    \A k \in Jobs \ {j} : reg[k] \in Registered => Dest[k] # Dest[j]

JobAdd(j) ==
    /\ engine = "up"
    /\ reg[j] = "absent"
    /\ DestFree(j)
    /\ reg' = [reg EXCEPT ![j] = "active"]
    /\ \E p \in BOOLEAN : /\ p => "pause" \in Workload
                          /\ paused' = [paused EXCEPT ![j] = p]
    /\ UNCHANGED <<rowVars, ownerVars, engineVars, pc, stopVars,
                   schedVars, recVars, delVars, osVars>>

JobSetPaused(j) ==
    /\ engine = "up" /\ "pause" \in Workload
    /\ reg[j] = "active"
    /\ paused' = [paused EXCEPT ![j] = ~@]
    /\ UNCHANGED <<reg, rowVars, ownerVars, engineVars, pc, stopVars,
                   schedVars, recVars, delVars, osVars>>

(* Mutant: a running job may be deleted.                                   *)
DeletableWhileRunning(j, mode) ==
    /\ reg[j] \in {"active", mode}
    /\ mode = "data" => j \in WikiJobs

Deletable(j, mode) ==
    /\ reg[j] \in {"active", mode}
    /\ mode = "data" => j \in WikiJobs
    /\ ~HasActiveRun(j)

(* prepare_job_deletion: the transaction, then the owner entry.            *)
DeletePrepare(j, mode) ==
    /\ engine = "up" /\ "delete" \in Workload
    /\ delAt = "idle"
    /\ Deletable(j, mode)
    /\ reg' = [reg EXCEPT ![j] = mode]
    /\ delAt' = "owner" /\ delJob' = j
    /\ UNCHANGED <<paused, rowVars, ownerVars, engineVars, pc, stopVars,
                   schedVars, recVars, osVars>>

DeleteDropOwner ==
    /\ engine = "up" /\ delAt = "owner"
    /\ ownRun' = [ownRun EXCEPT ![delJob] = 0]
    /\ ownPg' = [ownPg EXCEPT ![delJob] = FALSE]
    /\ ownStop' = [ownStop EXCEPT ![delJob] = "none"]
    /\ delAt' = "clean"
    /\ UNCHANGED <<jobVars, rowVars, engineVars, pc, stopVars, schedVars,
                   recVars, delJob, osVars>>

(* Removing the fetch buffer, the quarantine or a lease failed: the row    *)
(* stays in its delete mode.                                               *)
DeleteFail ==
    /\ engine = "up" /\ delAt = "clean"
    /\ delAt' = "idle" /\ delJob' = NoJob
    /\ UNCHANGED <<jobVars, rowVars, ownerVars, engineVars, pc, stopVars,
                   schedVars, recVars, osVars>>

(* finish_job_deletion; ON DELETE CASCADE takes the run rows.              *)
DeleteFinish ==
    /\ engine = "up" /\ delAt = "clean"
    /\ reg[delJob] \in DeleteModes
    /\ reg' = [reg EXCEPT ![delJob] = "removed"]
    /\ rstate' = [r \in Runs |-> IF jobOf[r] = delJob THEN "none" ELSE rstate[r]]
    /\ newest' = [newest EXCEPT ![delJob] = 0]
    /\ delAt' = "idle" /\ delJob' = NoJob
    /\ UNCHANGED <<paused, nextRun, jobOf, request, reason, pg, ident, blocked,
                   ownerVars, engineVars, pc, stopVars, schedVars, recVars,
                   osVars>>
-----------------------------------------------------------------------------
(* recover_runs has returned to this caller.                               *)
Recovered(c) == recKill[c] = {} /\ \A r \in Runs : recSnap[c][r] = "none"

(***************************************************************************)
(* start_job, under SUPERVISOR_GATE: the transaction that inserts the row, *)
(* then the owner entry and the run's thread.  starting # 0: between the   *)
(* two.  Due times are abstracted: a succeeded run may be due at any time. *)
(***************************************************************************)
GateFree == starting = 0 /\ sa \in {"no", "gate"}

RequestAllowed(j, req) ==
    IF req = "scheduled" THEN ~paused[j] /\ LatestIn(j, {"succeeded"})
                         ELSE LatestIn(j, TerminalStates)

(* Mutant: the projection's wiki_running is the only bound.                *)
WikiSlotUnchecked(j) == TRUE

WikiSlotFree(j) ==
    j \in WikiJobs => \A k \in WikiJobs : ~HasActiveRun(k)

(* Mutant: neither the newest row nor the unique index is consulted.       *)
AdmissibleTwice(j, req) ==
    /\ ~shutting /\ reg[j] = "active" /\ WikiSlotFree(j)

Admissible(j, req) ==
    /\ ~shutting
    /\ reg[j] = "active"
    /\ RequestAllowed(j, req)
    /\ WikiSlotFree(j)
    /\ ~HasActiveRun(j)             \* index one_active_run_per_job

InsertRun(j, req) ==
    /\ nextRun <= MaxRuns
    /\ nextRun' = nextRun + 1
    /\ newest' = [newest EXCEPT ![j] = nextRun]
    /\ jobOf' = [jobOf EXCEPT ![nextRun] = j]
    /\ rstate' = [rstate EXCEPT ![nextRun] = "starting"]
    /\ request' = [request EXCEPT ![nextRun] = req]
    /\ starting' = nextRun
    /\ UNCHANGED <<reason, pg, ident, blocked>>

JobRun(j) ==
    /\ engine = "up" /\ GateFree
    /\ Admissible(j, "explicit")
    /\ InsertRun(j, "explicit")
    /\ UNCHANGED <<jobVars, ownerVars, engine, crashes, pc, stopVars,
                   schedVars, recVars, delVars, osVars>>

RegisterOwner ==
    /\ engine = "up" /\ starting # 0
    /\ ownRun' = [ownRun EXCEPT ![jobOf[starting]] = starting]
    /\ ownPg' = [ownPg EXCEPT ![jobOf[starting]] = FALSE]
    /\ ownStop' = [ownStop EXCEPT ![jobOf[starting]] = "none"]
    /\ pc' = [pc EXCEPT ![starting] = "check"]
    /\ starting' = 0
    /\ UNCHANGED <<jobVars, rowVars, engine, crashes, stopVars, schedVars,
                   recVars, delVars, osVars>>

(***************************************************************************)
(* scheduler_thread: one tick retries blocked rows, then starts the jobs   *)
(* of a projection that may be stale by the time each is started.          *)
(***************************************************************************)
AutomaticStart(j) ==
    reg[j] = "active" /\ ~paused[j] /\ LatestIn(j, {"succeeded"})

TickProject ==
    /\ engine = "up" /\ sched = "recover" /\ Recovered("tick")
    /\ \E due \in SUBSET {j \in Jobs : AutomaticStart(j)} :
        /\ {j \in Jobs : AutomaticStart(j) /\ newest[j] = 0} \subseteq due
        /\ schedTodo' = due
    /\ schedWiki' = (\E j \in WikiJobs : reg[j] \in Registered /\ HasActiveRun(j))
    /\ sched' = "start"
    /\ UNCHANGED <<jobVars, rowVars, ownerVars, engineVars, pc, stopVars,
                   recVars, delVars, osVars>>

TickStart(j) ==
    /\ engine = "up" /\ sched = "start" /\ j \in schedTodo /\ GateFree
    /\ ~(j \in WikiJobs /\ schedWiki)
    /\ Admissible(j, "scheduled")
    /\ InsertRun(j, "scheduled")
    /\ schedTodo' = schedTodo \ {j}
    /\ schedWiki' = (schedWiki \/ j \in WikiJobs)
    /\ UNCHANGED <<jobVars, ownerVars, engine, crashes, pc, stopVars, sched,
                   recVars, delVars, osVars>>

(* A wiki transfer is already active, or start_job answers Unavailable;    *)
(* a newer run than the projected one may have succeeded and not be due.   *)
TickSkip(j) ==
    /\ engine = "up" /\ sched = "start" /\ j \in schedTodo
    /\ \/ j \in WikiJobs /\ schedWiki
       \/ GateFree /\ (~Admissible(j, "scheduled") \/ newest[j] # 0
                         \/ nextRun > MaxRuns)
    /\ schedTodo' = schedTodo \ {j}
    /\ UNCHANGED <<jobVars, rowVars, ownerVars, engineVars, pc, stopVars,
                   sched, schedWiki, recVars, delVars, osVars>>

(* The scratch directory cannot be created: run_pending gives up.          *)
TickFatal(j) ==
    /\ engine = "up" /\ sched = "start" /\ j \in schedTodo \cap WikiJobs
    /\ GateFree /\ ~schedWiki
    /\ Admissible(j, "scheduled")
    /\ schedTodo' = {}
    /\ UNCHANGED <<jobVars, rowVars, ownerVars, engineVars, pc, stopVars,
                   sched, schedWiki, recVars, delVars, osVars>>

TickSleep ==
    /\ engine = "up" /\ sched = "start" /\ schedTodo = {}
    /\ sched' = "sleep" /\ schedWiki' = FALSE
    /\ UNCHANGED <<jobVars, rowVars, ownerVars, engineVars, pc, stopVars,
                   schedTodo, recVars, delVars, osVars>>

-----------------------------------------------------------------------------
(***************************************************************************)
(* The thread of a run (spawn_run).                                        *)
(***************************************************************************)
At(r, step) == engine = "up" /\ pc[r] = step

Goto(r, step) == pc' = [pc EXCEPT ![r] = step]

ThreadOnly == UNCHANGED <<jobVars, engineVars, stopVars, schedVars, recVars, delVars>>

(* durable_stop_reason.  The read itself may fail.                         *)
CheckStop(r) ==
    /\ At(r, "check")
    /\ \/ /\ rstate[r] \in {"starting", "running"}
          /\ Goto(r, "spawn")
       \/ /\ rstate[r] = "stopping"
          /\ Goto(r, "stopped")
       \/ Goto(r, "prefail")
    /\ ThreadOnly /\ UNCHANGED <<rowVars, ownerVars, osVars>>

(* UPDATE ... WHERE id=?1 AND state='stopping'                             *)
FinishStoppedRow(r) ==
    IF rstate[r] = "stopping" THEN SetState(r, StopOutcome(r))
                              ELSE UNCHANGED rowVars

FinishStoppedRun(r) ==
    /\ At(r, "stopped")
    /\ FinishStoppedRow(r)
    /\ Goto(r, "remove")
    /\ ThreadOnly /\ UNCHANGED <<ownerVars, osVars>>

FinishPreSpawnFailure(r) ==
    /\ At(r, "prefail")
    /\ IF IsActive(r) /\ IsNewest(r)
       THEN SetState(r, IF rstate[r] = "stopping" THEN StopOutcome(r) ELSE "failed")
       ELSE UNCHANGED rowVars
    /\ Goto(r, "remove")
    /\ ThreadOnly /\ UNCHANGED <<ownerVars, osVars>>

(* Command::spawn, in a process group of its own, or its failure.          *)
SpawnDriver(r) ==
    /\ At(r, "spawn")
    /\ \/ /\ leader' = [leader EXCEPT ![r] = "alive"]
          /\ Goto(r, "record")
          /\ UNCHANGED <<desc, reused, exit0, foreign>>
       \/ /\ Goto(r, "post")
          /\ UNCHANGED osVars
    /\ ThreadOnly /\ UNCHANGED <<rowVars, ownerVars>>

(* The state a row moves to when its spawn is recorded; "none": refused.   *)
RecordedState(r) ==
    CASE rstate[r] = "starting" -> "running"
      [] rstate[r] = "stopping" -> "stopping"
      [] OTHER -> "none"

(* record_spawned.  The start identity may be unreadable; the transaction  *)
(* may fail.                                                               *)
RecordSpawned(r) ==
    /\ At(r, "record")
    /\ \/ /\ RecordedState(r) # "none"
          /\ rstate' = [rstate EXCEPT ![r] = RecordedState(r)]
          /\ pg' = [pg EXCEPT ![r] = TRUE]
          /\ \E known \in BOOLEAN : ident' = [ident EXCEPT ![r] = known]
          /\ Goto(r, IF rstate[r] = "stopping" THEN "attach_stop" ELSE "attach")
          /\ UNCHANGED <<nextRun, newest, jobOf, request, reason, blocked>>
       \/ /\ Goto(r, "kill")
          /\ UNCHANGED rowVars
    /\ ThreadOnly /\ UNCHANGED <<ownerVars, osVars>>

(* Registration failed: SIGKILL, wait, finish_child_run(-1).               *)
KillUnrecorded(r) ==
    /\ At(r, "kill")
    /\ leader' = [leader EXCEPT ![r] = "gone"]
    /\ desc' = [desc EXCEPT ![r] = FALSE]
    /\ exit0' = [exit0 EXCEPT ![r] = FALSE]
    /\ Goto(r, "killed")
    /\ ThreadOnly /\ UNCHANGED <<rowVars, ownerVars, reused, foreign>>

(* The stop reason record_spawned read.                                    *)
SpawnStop(r) == IF pc[r] = "attach_stop" THEN reason[r] ELSE "none"


EffectiveStop(r) ==
    IF SpawnStop(r) = "none" /\ ownRun[jobOf[r]] = r THEN ownStop[jobOf[r]]
                                                    ELSE SpawnStop(r)

(* The group joins the owner entry, if this run still has it.              *)
AttachGroup(r) ==
    /\ engine = "up" /\ pc[r] \in {"attach", "attach_stop"}
    /\ IF ownRun[jobOf[r]] = r
       THEN /\ ownPg' = [ownPg EXCEPT ![jobOf[r]] = TRUE]
            /\ ownStop' = [ownStop EXCEPT ![jobOf[r]] = EffectiveStop(r)]
            /\ UNCHANGED ownRun
       ELSE UNCHANGED ownerVars
    /\ Goto(r, IF EffectiveStop(r) # "none" THEN "term" ELSE "wait")
    /\ ThreadOnly /\ UNCHANGED <<rowVars, osVars>>

(* signal_process_group(SIGTERM) without consulting the owner map.         *)
TermNewGroup(r) ==
    /\ At(r, "term")
    /\ SigTerm(r, "owned")
    /\ Goto(r, "wait")
    /\ ThreadOnly /\ UNCHANGED <<rowVars, ownerVars>>

ReapLeader(r) ==
    /\ At(r, "wait")
    /\ leader[r] \in {"zombie", "gone"}
    /\ leader' = [leader EXCEPT ![r] = "gone"]
    /\ Goto(r, "post")
    /\ ThreadOnly /\ UNCHANGED <<rowVars, ownerVars, desc, reused, exit0, foreign>>

(* stream_stderr to the end of the stream, which descendants hold open,    *)
(* then Child::wait.                                                       *)
WaitEndOfStream(r) == ~desc[r] /\ ReapLeader(r)

(* A line that is not UTF-8 (Err(_) => break) or a descendant that closed  *)
(* its stderr: only the leader is waited for.                              *)
WaitLeaderOnly(r) == desc[r] /\ ReapLeader(r)

KillLeftovers(r) ==
    /\ At(r, "post")
    /\ SignalOwned(r, SigKill)
    /\ Goto(r, "finish")
    /\ ThreadOnly /\ UNCHANGED <<rowVars, ownerVars>>

(* transition_run for the child's exit.                                    *)
ExitState(r, ok) ==
    CASE rstate[r] = "starting" -> "failed"
      [] rstate[r] = "running" -> IF ok THEN "succeeded" ELSE "failed"
      [] rstate[r] = "stopping" -> StopOutcome(r)

(* Mutant: the exit status is written without looking at the row.          *)
FinishChildBlind(r) ==
    /\ engine = "up" /\ pc[r] \in {"finish", "killed"}
    /\ SetState(r, IF pc[r] = "finish" /\ exit0[r] THEN "succeeded" ELSE "failed")
    /\ exit0' = [exit0 EXCEPT ![r] = FALSE]
    /\ Goto(r, "remove")
    /\ ThreadOnly /\ UNCHANGED <<ownerVars, leader, desc, reused, foreign>>

FinishChildRun(r) ==
    /\ engine = "up" /\ pc[r] \in {"finish", "killed"}
    /\ IF IsActive(r) /\ IsNewest(r)
       THEN SetState(r, ExitState(r, pc[r] = "finish" /\ exit0[r]))
       ELSE UNCHANGED rowVars
    /\ exit0' = [exit0 EXCEPT ![r] = FALSE]      \* the status is used up
    /\ Goto(r, "remove")
    /\ ThreadOnly /\ UNCHANGED <<ownerVars, leader, desc, reused, foreign>>

ThreadRemoveOwner(r) ==
    /\ At(r, "remove")
    /\ RemoveOwner(r)
    /\ Goto(r, "done")
    /\ ThreadOnly /\ UNCHANGED <<rowVars, osVars>>

-----------------------------------------------------------------------------
(***************************************************************************)
(* request_stop: one transaction on the active run, then the owner entry.  *)
(***************************************************************************)
StopReasonFor(r, who) == IF rstate[r] = "stopping" THEN reason[r] ELSE who

RequestStop(r, who) ==
    /\ rstate' = [rstate EXCEPT ![r] = "stopping"]
    /\ reason' = [reason EXCEPT ![r] = StopReasonFor(r, who)]
    /\ stops' = stops \cup {[by |-> who, run |-> r, known |-> pg[r], at |-> "mark"]}
    /\ UNCHANGED <<nextRun, newest, jobOf, request, pg, ident, blocked>>

Moved(c, step) == (stops \ {c}) \cup {[c EXCEPT !.at = step]}

StopOnly == UNCHANGED <<jobVars, engineVars, pc, shutting, sa, saTodo, schedVars,
                        recVars, delVars>>

(* job_cancel                                                              *)
JobCancel(r) ==
    /\ engine = "up"
    /\ Cardinality({c \in stops : c.by = "user"}) < MaxCancels
    /\ IsActive(r)
    /\ RequestStop(r, "user")
    /\ StopOnly /\ UNCHANGED <<ownerVars, osVars>>

(* The reason of the row, which no longer changes.  After that a known     *)
(* group is signalled; otherwise job_cancel returns and stop_all waits.    *)
MarkOwner(c) ==
    /\ engine = "up" /\ c.at = "mark"
    /\ ownStop' = [j \in Jobs |-> IF ownRun[j] = c.run THEN reason[c.run] ELSE ownStop[j]]
    /\ stops' = CASE c.known -> Moved(c, "term")
                  [] ~c.known /\ c.by = "user" -> stops \ {c}
                  [] OTHER -> Moved(c, "hold")
    /\ StopOnly /\ UNCHANGED <<rowVars, ownRun, ownPg, osVars>>

TermOwned(c) ==
    /\ engine = "up" /\ c.at = "term"
    /\ SignalOwned(c.run, SigTerm)
    /\ stops' = Moved(c, IF c.by = "user" THEN "kill" ELSE "hold")
    /\ StopOnly /\ UNCHANGED <<rowVars, ownerVars>>

(* The escalation thread of job_cancel, five seconds later.                *)
EscalateCancel(c) ==
    /\ engine = "up" /\ c.at = "kill"
    /\ SignalOwned(c.run, SigKill)
    /\ stops' = stops \ {c}
    /\ StopOnly /\ UNCHANGED <<rowVars, ownerVars>>

-----------------------------------------------------------------------------
(***************************************************************************)
(* stop_all: the flag, the gate, request_stop for every owner one after    *)
(* the other, two seconds, SIGKILL, the rows, then a full recovery.        *)
(***************************************************************************)
ShutdownCalls(steps) == {c \in stops : c.by = "shutdown" /\ c.at \in steps}

StopAllOnly == UNCHANGED <<jobVars, engineVars, pc, schedVars, delVars>>

StopAllFlag ==
    /\ engine = "up" /\ sa = "no" /\ "shutdown" \in Workload
    /\ shutting' = TRUE /\ sa' = "gate"
    /\ StopAllOnly /\ UNCHANGED <<stops, saTodo, rowVars, ownerVars, recVars, osVars>>


StopAllGate ==
    /\ engine = "up" /\ sa = "gate" /\ starting = 0
    /\ sa' = "request"
    /\ saTodo' = {j \in Jobs : ownRun[j] # 0}
    /\ StopAllOnly /\ UNCHANGED <<stops, shutting, rowVars, ownerVars, recVars, osVars>>

StopAllRequest(j) ==
    /\ engine = "up" /\ sa = "request" /\ j \in saTodo
    /\ ShutdownCalls({"mark", "term"}) = {}
    /\ saTodo' = saTodo \ {j}
    /\ \/ \E r \in RowsOf(j) : IsActive(r) /\ RequestStop(r, "shutdown")
       \/ ~HasActiveRun(j) /\ UNCHANGED <<rowVars, stops>>
    /\ StopAllOnly /\ UNCHANGED <<shutting, sa, ownerVars, recVars, osVars>>

StopAllEscalate ==
    /\ engine = "up" /\ sa = "request" /\ saTodo = {}
    /\ ShutdownCalls({"mark", "term"}) = {}
    /\ sa' = "kill"
    /\ StopAllOnly
    /\ UNCHANGED <<stops, shutting, saTodo, rowVars, ownerVars, recVars, osVars>>

StopAllKill(c) ==
    /\ engine = "up" /\ sa = "kill"
    /\ c.at = "hold"
    /\ IF c.known THEN SignalOwned(c.run, SigKill) ELSE UNCHANGED osVars
    /\ stops' = Moved(c, "finish")
    /\ StopAllOnly /\ UNCHANGED <<shutting, sa, saTodo, rowVars, ownerVars, recVars>>

StopAllKilled ==
    /\ engine = "up" /\ sa = "kill" /\ ShutdownCalls({"hold"}) = {}
    /\ sa' = "finish"
    /\ StopAllOnly
    /\ UNCHANGED <<stops, shutting, saTodo, rowVars, ownerVars, recVars, osVars>>

(* One call at a time: finish_stopped_run, then remove_owner.              *)
StopAllFinish(c) ==
    /\ engine = "up" /\ sa = "finish"
    /\ c.at = "finish" /\ ShutdownCalls({"remove"}) = {}
    /\ FinishStoppedRow(c.run)
    /\ stops' = Moved(c, "remove")
    /\ StopAllOnly /\ UNCHANGED <<shutting, sa, saTodo, ownerVars, recVars, osVars>>

StopAllRemoveOwner(c) ==
    /\ engine = "up" /\ c.at = "remove"
    /\ RemoveOwner(c.run)
    /\ stops' = stops \ {c}
    /\ StopAllOnly /\ UNCHANGED <<shutting, sa, saTodo, rowVars, recVars, osVars>>

-----------------------------------------------------------------------------
(***************************************************************************)
(* recover_runs: a snapshot of the active rows, every recorded group       *)
(* terminated, then each row blocked or made terminal.                     *)
(***************************************************************************)
(* Mutants: a tick treats owned runs as abandoned; a tick retries nothing. *)
SeenOwned(r, blockedOnly) == IsActive(r)
SeenNever(r, blockedOnly) == IsActive(r) /\ ~blockedOnly

Seen(r, blockedOnly) == IsActive(r) /\ (blockedOnly => blocked[r])

Snapshot(c, blockedOnly) ==
    LET seen == {r \in Runs : Seen(r, blockedOnly)}
    IN  /\ recSnap' = [recSnap EXCEPT ![c] =
                          [r \in Runs |-> IF r \in seen THEN rstate[r] ELSE "none"]]
        /\ recKill' = [recKill EXCEPT ![c] = {r \in seen : pg[r]}]
        /\ recBad' = [recBad EXCEPT ![c] = {}]

TickRecover ==
    /\ engine = "up" /\ sched = "sleep" /\ ~shutting /\ "tick" \in Workload
    /\ Snapshot("tick", TRUE)
    /\ sched' = "recover"
    /\ UNCHANGED <<jobVars, rowVars, ownerVars, engineVars, pc, stopVars,
                   schedTodo, schedWiki, delVars, osVars>>

StopAllRecover ==
    /\ engine = "up" /\ sa = "finish" /\ ShutdownCalls({"finish", "remove"}) = {}
    /\ Snapshot("main", FALSE)
    /\ sa' = "recover"
    /\ StopAllOnly /\ UNCHANGED <<stops, shutting, saTodo, rowVars, ownerVars, osVars>>

(* recorded_group_is_safe: the leader exists, leads that group and has the *)
(* recorded start identity; on Linux a missing identity falls back to a    *)
(* start time within five seconds of spawned_at.                           *)
ProvesIncarnation(r) == ident[r] /\ leader[r] \in {"alive", "zombie"}

GuessesIncarnation(r) ==
    Linux /\ ~ident[r] /\ (leader[r] \in {"alive", "zombie"} \/ reused[r])

(* SIGTERM, SIGKILL and reaping.                                           *)
DestroyGroup(r) ==
    /\ leader' = [leader EXCEPT ![r] = "gone"]
    /\ desc' = [desc EXCEPT ![r] = FALSE]
    /\ exit0' = [exit0 EXCEPT ![r] = FALSE]
    /\ SignalsForeign(r, "guessed")
    /\ UNCHANGED reused

RecOnly == UNCHANGED <<jobVars, ownerVars, engineVars, pc, stopVars, schedVars, delVars>>

(* terminate_recorded_group.  A live group is refused unless it is safe,   *)
(* and may outlive SIGKILL (uninterruptible sleep).                        *)
RecTerminate(c, r) ==
    /\ engine # "down" /\ r \in recKill[c]
    /\ recKill' = [recKill EXCEPT ![c] = @ \ {r}]
    /\ \/ ~GroupLive(r) /\ ~reused[r] /\ UNCHANGED <<osVars, recBad>>
       \/ /\ ProvesIncarnation(r) \/ GuessesIncarnation(r)
          /\ DestroyGroup(r) /\ UNCHANGED recBad
       \/ /\ GroupLive(r) \/ reused[r]
          /\ recBad' = [recBad EXCEPT ![c] = @ \cup {r}]
          /\ UNCHANGED osVars
    /\ RecOnly /\ UNCHANGED <<recSnap, rowVars>>

(* Mutant: rows are written while groups are still being terminated.       *)
RecWritesEarly(c) == engine # "down"

(* Every group before any row.                                             *)
RecMayWrite(c) == engine # "down" /\ recKill[c] = {}

(* The terminalizing UPDATE names the state of the snapshot.               *)
RecoveryOwns(c, r) == rstate[r] = recSnap[c][r] /\ IsNewest(r)

RecWrite(c, r) ==
    /\ RecMayWrite(c) /\ recSnap[c][r] # "none"
    /\ recSnap' = [recSnap EXCEPT ![c][r] = "none"]
    /\ IF r \in recBad[c]
       THEN /\ blocked' = [blocked EXCEPT ![r] = @ \/ (IsActive(r) /\ IsNewest(r))]
            /\ UNCHANGED rstate
       ELSE IF RecoveryOwns(c, r)
       THEN /\ rstate' = [rstate EXCEPT ![r] = StopOutcome(r)]
            /\ blocked' = [blocked EXCEPT ![r] = FALSE]
       ELSE UNCHANGED <<rstate, blocked>>
    /\ recBad' = [recBad EXCEPT ![c] = @ \ {r}]
    /\ RecOnly
    /\ UNCHANGED <<recKill, nextRun, newest, jobOf, request, reason, pg, ident,
                   osVars>>

-----------------------------------------------------------------------------
(***************************************************************************)
(* The engine process and the operating system.                            *)
(***************************************************************************)
(* Everything but the database goes with the process.  PR_SET_PDEATHSIG    *)
(* reaches the group leader only; init reaps what is left.                 *)
EngineGone ==
    /\ engine' = "down" /\ starting' = 0
    /\ ownRun' = [j \in Jobs |-> 0] /\ ownPg' = [j \in Jobs |-> FALSE]
    /\ ownStop' = [j \in Jobs |-> "none"]
    /\ pc' = [r \in Runs |-> "none"]
    /\ stops' = {} /\ shutting' = FALSE /\ sa' = "no" /\ saTodo' = {}
    /\ sched' = "sleep" /\ schedTodo' = {} /\ schedWiki' = FALSE
    /\ recSnap' = [c \in Recoverers |-> [r \in Runs |-> "none"]]
    /\ recKill' = [c \in Recoverers |-> {}] /\ recBad' = [c \in Recoverers |-> {}]
    /\ delAt' = "idle" /\ delJob' = NoJob
    /\ leader' = [r \in Runs |->
                    IF leader[r] = "zombie" \/ (leader[r] = "alive" /\ Linux)
                    THEN "gone" ELSE leader[r]]
    /\ UNCHANGED <<jobVars, rowVars, desc, reused, exit0, foreign>>

Crash ==
    /\ engine # "down" /\ crashes < MaxCrashes
    /\ crashes' = crashes + 1
    /\ EngineGone

EngineExit ==
    /\ engine = "up" /\ sa = "recover" /\ Recovered("main")
    /\ EngineGone /\ UNCHANGED crashes

EngineStart ==
    /\ engine = "down"
    /\ engine' = "recovering"
    /\ Snapshot("main", FALSE)
    /\ UNCHANGED <<jobVars, rowVars, ownerVars, crashes, starting, pc, stopVars,
                   schedVars, delVars, osVars>>

(* scheduler_thread returns and the engine begins to serve.                *)
EngineServe ==
    /\ engine = "recovering" /\ Recovered("main")
    /\ engine' = "up"
    /\ UNCHANGED <<jobVars, rowVars, ownerVars, crashes, starting, pc, stopVars,
                   schedVars, recVars, delVars, osVars>>

OsOnly == UNCHANGED <<jobVars, rowVars, ownerVars, engineVars, pc, stopVars,
                      schedVars, recVars, delVars, foreign>>

DriverForks(r) ==
    /\ leader[r] = "alive" /\ ~desc[r] /\ "fork" \in Workload
    /\ desc' = [desc EXCEPT ![r] = TRUE]
    /\ OsOnly /\ UNCHANGED <<leader, reused, exit0>>

DriverExits(r) ==
    /\ leader[r] = "alive"
    /\ leader' = [leader EXCEPT ![r] = IF pc[r] = "none" THEN "gone" ELSE "zombie"]
    /\ \E ok \in BOOLEAN : exit0' = [exit0 EXCEPT ![r] = ok]
    /\ OsOnly /\ UNCHANGED <<desc, reused>>

DescendantsExit(r) ==
    /\ desc[r]
    /\ desc' = [desc EXCEPT ![r] = FALSE]
    /\ OsOnly /\ UNCHANGED <<leader, reused, exit0>>

(* Someone may still signal the group of r by its number.                  *)
NumberHeld(r) ==
    \/ pg[r] /\ IsActive(r)
    \/ pc[r] \notin {"none", "done"}
    \/ \E c \in stops : c.run = r
    \/ \E c \in Recoverers : r \in recKill[c]

(* An unrelated process becomes the leader of a group with r's number, or  *)
(* goes away again.                                                        *)
NumberReused(r) ==
    /\ "reuse" \in Workload /\ NumberHeld(r)
    /\ leader[r] = "gone" /\ ~desc[r] /\ ~reused[r]
    /\ reused' = [reused EXCEPT ![r] = TRUE]
    /\ OsOnly /\ UNCHANGED <<leader, desc, exit0>>

UnrelatedExits(r) ==
    /\ reused[r]
    /\ reused' = [reused EXCEPT ![r] = FALSE]
    /\ OsOnly /\ UNCHANGED <<leader, desc, exit0>>

-----------------------------------------------------------------------------
RunThread(r) ==
    \/ CheckStop(r) \/ FinishStoppedRun(r) \/ FinishPreSpawnFailure(r)
    \/ SpawnDriver(r) \/ RecordSpawned(r) \/ KillUnrecorded(r)
    \/ AttachGroup(r) \/ TermNewGroup(r) \/ WaitEndOfStream(r)
    \/ WaitLeaderOnly(r) \/ KillLeftovers(r) \/ FinishChildRun(r)
    \/ ThreadRemoveOwner(r)

StopCall(c) ==
    \/ MarkOwner(c) \/ TermOwned(c) \/ EscalateCancel(c)
    \/ StopAllKill(c) \/ StopAllFinish(c) \/ StopAllRemoveOwner(c)

StopAll ==
    \/ StopAllFlag \/ StopAllGate \/ \E j \in Jobs : StopAllRequest(j)
    \/ StopAllEscalate \/ StopAllKilled \/ StopAllRecover

Scheduler ==
    \/ TickRecover \/ TickProject \/ TickSleep
    \/ \E j \in Jobs : TickStart(j) \/ TickSkip(j) \/ TickFatal(j)

Recovery(c) ==
    \E r \in Runs : RecTerminate(c, r) \/ RecWrite(c, r)

UserRequest ==
    \/ \E j \in Jobs : JobAdd(j) \/ JobSetPaused(j) \/ JobRun(j)
    \/ \E r \in Runs : JobCancel(r)

Deletion ==
    \/ \E j \in Jobs, mode \in DeleteModes : DeletePrepare(j, mode)
    \/ DeleteDropOwner \/ DeleteFail \/ DeleteFinish

Os ==
    \E r \in Runs : \/ DriverForks(r) \/ DriverExits(r) \/ DescendantsExit(r)
                    \/ NumberReused(r) \/ UnrelatedExits(r)

Next ==
    \/ UserRequest \/ Deletion \/ RegisterOwner
    \/ \E r \in Runs : RunThread(r)
    \/ \E c \in stops : StopCall(c)
    \/ StopAll \/ Scheduler
    \/ \E c \in Recoverers : Recovery(c)
    \/ Crash \/ EngineExit \/ EngineStart \/ EngineServe \/ Os

Spec == Init /\ [][Next]_vars
(***************************************************************************)
(* Fairness.  A thread that can take its next step takes it: the run       *)
(* threads (a driver that never closes its stderr keeps its thread         *)
(* waiting), calls of request_stop, stop_all, the scheduler, recovery.     *)
(* Nothing is assumed of users, drivers, descendants or crashes.           *)
(***************************************************************************)
ThreadProgress(r) == RunThread(r) /\ ~WaitLeaderOnly(r)

Fairness ==
    /\ WF_vars(RegisterOwner)
    /\ \A r \in Runs : WF_vars(ThreadProgress(r))
    /\ \A c \in StopCalls : WF_vars(c \in stops /\ StopCall(c))
    /\ WF_vars(StopAllGate \/ StopAllEscalate \/ StopAllKilled \/ StopAllRecover
                 \/ \E j \in Jobs : StopAllRequest(j))
    /\ WF_vars(Scheduler)
    /\ \A c \in Recoverers : WF_vars(Recovery(c))
    /\ WF_vars(EngineServe) /\ WF_vars(EngineExit)

FairSpec == Spec /\ Fairness

-----------------------------------------------------------------------------
(***************************************************************************)
(* Safety.                                                                 *)
(***************************************************************************)
(* An active row is the newest row of its job, so a job has at most one:   *)
(* every late writer (finish_child_run, finish_pre_spawn_failure,          *)
(* recover_runs) that checks "no newer run" still recognises it.           *)
ActiveRowIsNewest == \A r \in Runs : IsActive(r) => IsNewest(r)

(* While the engine serves, a live driver has an active row: no completion, *)
(* stop, recovery or deletion publishes an idle job whose driver runs.     *)
NoHiddenDriver ==
    ~shutting => \A r \in Runs : leader[r] = "alive" => IsActive(r)

(* Two drivers never mutate one destination, across explicit and scheduled *)
(* starts, crashes, recovery, and deletion and re-registration of the path *)
(* (scheduler_thread: the active row "still prevents a second destination  *)
(* mutator").                                                              *)
OneDriverPerDestination ==
    \A r, s \in Runs :
        (r # s /\ leader[r] = "alive" /\ leader[s] = "alive")
            => Dest[jobOf[r]] # Dest[jobOf[s]]

(* At most one Wikipedia driver process is alive (start_job's admission    *)
(* rule, "a whole-engine bound").                                          *)
OneWikiDriver ==
    \A r, s \in Runs :
        (leader[r] = "alive" /\ leader[s] = "alive"
           /\ jobOf[r] \in WikiJobs /\ jobOf[s] \in WikiJobs) => r = s


(* No driver is alive when stop_all returns (stop_all: "Stop all mirror    *)
(* drivers before the engine exits").                                      *)
StopAllStopsDrivers ==
    (sa = "recover" /\ Recovered("main"))
        => \A r \in Runs : leader[r] # "alive"

(* A signal of the owner never reaches an unrelated group that has taken   *)
(* over the number (chupa/wikimak/wikipedia/LIFECYCLE.md 5.2).             *)
OwnerSignalsItsGroup == "owned" \notin foreign

(* Recovery never signals an unrelated group because its identity was not  *)
(* recorded (spawn_run: "a restart must not guess its incarnation").       *)
RecoveryNeverGuesses == "guessed" \notin foreign

(* A row that reached an outcome keeps it, whatever completion, stop or    *)
(* recovery arrives late; only the deletion of its job removes it.         *)
TerminalRowsAreFinal ==
    [][\A r \in Runs :
          rstate[r] \in TerminalStates =>
              \/ rstate'[r] = rstate[r]
              \/ rstate'[r] = "none" /\ reg[jobOf[r]] \in DeleteModes]_vars

(* Recovery makes a row with a recorded group terminal only after the      *)
(* whole group is gone (recover_runs: "Signal/reap every recorded group    *)
(* before changing any durable run state").                                *)
RecoveredGroupIsGone ==
    [][\A c \in Recoverers, r \in Runs :
          (/\ recSnap[c][r] # "none" /\ recSnap'[c][r] = "none" /\ engine' # "down"
           /\ IsActive(r) /\ pg[r] /\ rstate'[r] \in TerminalStates)
              => ~GroupLive(r)]_vars

(***************************************************************************)
(* Liveness, under FairSpec.                                               *)
(***************************************************************************)
(* A stop reaches an outcome, whenever it arrives: before the owner entry, *)
(* before the spawn, between spawn and record_spawned, or later.           *)
StopIsNeverLost ==
    \A r \in Runs :
        rstate[r] = "stopping"
            ~> (rstate[r] # "stopping" \/ engine # "up" \/ blocked[r])

(* A row left blocked is made terminal by some later tick once its group   *)
(* has gone.                                                               *)
BlockedRunIsRetried ==
    \A r \in Runs :
        (IsActive(r) /\ blocked[r] /\ ~GroupLive(r))
            ~> (~IsActive(r) \/ engine = "down" \/ shutting)

(***************************************************************************)
(* Refinement of RunLifecycle.                                             *)
(***************************************************************************)
RunKind(r) ==
    CASE rstate[r] = "stopping" /\ reason[r] = "user" -> "stopping_user"
      [] rstate[r] = "stopping" /\ reason[r] # "user" -> "stopping_shutdown"
      [] OTHER -> rstate[r]

LatestKind == [j \in Jobs |-> IF newest[j] = 0 THEN "never" ELSE RunKind(newest[j])]

LatestRequest == [j \in Jobs |-> IF newest[j] = 0 THEN "none" ELSE request[newest[j]]]

Lifecycle ==
    INSTANCE RunLifecycle WITH
        registration <- reg, latest <- LatestKind, startedBy <- LatestRequest

(* What users of the database observe is a run of transition_run and       *)
(* transition_registration.                                                *)
ImplementsLifecycle == Lifecycle!Spec
=============================================================================
