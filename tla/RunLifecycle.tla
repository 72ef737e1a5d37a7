---------------------------- MODULE RunLifecycle ----------------------------
(***************************************************************************)
(* What the mirror supervisor promises about one job, as a user of the     *)
(* mirrors database sees it: the registration of the job and the state of  *)
(* its newest run.  The relation is transition_run and                     *)
(* transition_registration of chupa/src/supervisor.rs; there are no        *)
(* processes, threads, owners or crashes here.  MirrorSupervisor           *)
(* implements this specification.                                          *)
(***************************************************************************)
CONSTANT Jobs

VARIABLES
    registration,   \* absent, active, the delete mode in progress, removed
    latest,         \* RunStateKind of the newest run of each job
    startedBy       \* the request that created that run

avars == <<registration, latest, startedBy>>

DeleteModes == {"registration", "data"}
Registrations == {"absent", "active", "removed"} \cup DeleteModes
Requests == {"explicit", "scheduled"}
StopReasons == {"user", "shutdown"}

IdleKinds == {"never", "succeeded", "failed", "cancelled", "interrupted"}
ActiveKinds == {"starting", "running", "stopping_user", "stopping_shutdown"}
Kinds == IdleKinds \cup ActiveKinds

TypeOK ==
    /\ registration \in [Jobs -> Registrations]
    /\ latest \in [Jobs -> Kinds]
    /\ startedBy \in [Jobs -> Requests \cup {"none"}]

Init ==
    /\ registration = [j \in Jobs |-> "absent"]
    /\ latest = [j \in Jobs |-> "never"]
    /\ startedBy = [j \in Jobs |-> "none"]

(***************************************************************************)
(* The edges of transition_run that leave a state, without the two start   *)
(* events and the events that change nothing.                              *)
(***************************************************************************)
Edge ==
    {<<"starting", "running">>,                                  \* SpawnSucceeded
     <<"starting", "failed">>,                                   \* SpawnFailed
     <<"starting", "stopping_user">>, <<"running", "stopping_user">>,
     <<"starting", "stopping_shutdown">>, <<"running", "stopping_shutdown">>,
     <<"running", "succeeded">>, <<"running", "failed">>,        \* exits
     <<"stopping_user", "cancelled">>,
     <<"stopping_shutdown", "interrupted">>,
     <<"starting", "interrupted">>, <<"running", "interrupted">>} \* Restart

(* A start event: explicit from any idle state, scheduled never after a    *)
(* failed, cancelled or interrupted attempt.                               *)
StartEdge ==
    {<<k, "explicit">> : k \in IdleKinds}
        \cup {<<"never", "scheduled">>, <<"succeeded", "scheduled">>}

Start(j, request) ==
    /\ registration[j] = "active"
    /\ <<latest[j], request>> \in StartEdge
    /\ latest' = [latest EXCEPT ![j] = "starting"]
    /\ startedBy' = [startedBy EXCEPT ![j] = request]
    /\ UNCHANGED registration

Advance(j) ==
    /\ \E e \in Edge :
        /\ e[1] = latest[j]
        /\ latest' = [latest EXCEPT ![j] = e[2]]
    /\ UNCHANGED <<registration, startedBy>>

Add(j) ==
    /\ registration[j] = "absent"
    /\ registration' = [registration EXCEPT ![j] = "active"]
    /\ UNCHANGED <<latest, startedBy>>

BeginDelete(j, mode) ==
    /\ registration[j] = "active"
    /\ latest[j] \in IdleKinds
    /\ registration' = [registration EXCEPT ![j] = mode]
    /\ UNCHANGED <<latest, startedBy>>

(* The rows of the job go with it.                                         *)
FinishDelete(j) ==
    /\ registration[j] \in DeleteModes
    /\ registration' = [registration EXCEPT ![j] = "removed"]
    /\ latest' = [latest EXCEPT ![j] = "never"]
    /\ startedBy' = [startedBy EXCEPT ![j] = "none"]

Next ==
    \E j \in Jobs :
        \/ Add(j)
        \/ \E request \in Requests : Start(j, request)
        \/ Advance(j)
        \/ \E mode \in DeleteModes : BeginDelete(j, mode)
        \/ FinishDelete(j)

Spec == Init /\ [][Next]_avars
=============================================================================
