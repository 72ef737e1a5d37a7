------------------------------ MODULE SlipPool ------------------------------
(***************************************************************************)
(* The engine-global pool of jobserver slips (engine/src/slippool.rs), the *)
(* synthetic file through which the processes of every box reach it        *)
(* (engine/src/sarunfs/synthetic.rs, overlay.rs), the worker threads that  *)
(* serve that file (fuse_transport.rs for host processes, the one vring    *)
(* thread of virtio_transport.rs for the guests of a QEMU box) and the     *)
(* reaper thread that takes back the slips of processes that died.         *)
(*                                                                         *)
(* A read of the file acquires a slip, a write returns one; both run to    *)
(* their end on one worker, so a blocked read keeps its worker.  Steps are *)
(* split where the code drops a lock: acquiring, the dedup check of        *)
(* watch_pid, pidfd_open and the registration are four steps, removing a   *)
(* dead pid from `watched' and reaping it are two.                         *)
(***************************************************************************)
EXTENDS Integers, Sequences, FiniteSets, SequencesExt

CONSTANTS
    Hosts,         \* host pids (thread-group ids) that use the jobserver
    Guests,        \* guest pids of one QEMU box
    FuseWorkers,   \* the sarun-fuse-N threads
    VringWorkers,  \* the request thread of the box's virtio-fs export
    Total,         \* slots()
    Blocking,      \* processes that opened the file without O_NONBLOCK
    MaxHold,       \* bound: slips one process asks for
    MaxInc,        \* bound: processes that run under one pid, in turn
    Platforms,     \* builds considered, of {"linux", "macos"}
    Faults,        \* pidfd_open and epoll_ctl may fail for want of resources
    NoProc

Procs == Hosts \cup Guests
Workers == FuseWorkers \cup VringWorkers

ASSUME PoolAssumption ==
    /\ Total \in Nat \ {0} /\ MaxHold \in Nat \ {0} /\ MaxInc \in Nat \ {0}
    /\ Hosts \cap Guests = {} /\ FuseWorkers \cap VringWorkers = {}
    /\ Blocking \subseteq Procs /\ NoProc \notin Procs
    /\ Platforms \subseteq {"linux", "macos"} /\ Faults \in BOOLEAN

VARIABLES
    \* the processes
    life,       \* of the process that last ran under a pid
    inc,        \* which process of that pid it is; 0 before the first
    slips,      \* slips it has read and not written back
    asked,      \* its request: none, queued in the transport, or being served
    \* Pool
    available, ledger, waiters,
    \* the workers: where each is, whom it serves, the pidfd it opened and
    \* the message in its reply channel
    at, who, born, pidfd, reply,
    \* Reaper: watched pids with the process their pidfd pins (macOS: 1), the
    \* pid just unwatched, the pids a scan found dead (macOS)
    watched, reaping, dead,
    platform,   \* which of the two reapers this engine has; never changes
    \* the QEMU box: its teardown, GuestJobserver.actors, and the actors that
    \* reap_box has still to reap while it holds the pool lock
    box, actors, reapSet

Linux == platform = "linux"

procVars == <<life, inc, slips, asked>>
poolVars == <<available, ledger, waiters, reply>>
workVars == <<at, who, born, pidfd>>
reaperVars == <<watched, reaping, dead, platform>>
boxVars == <<box, actors, reapSet>>
vars == <<procVars, poolVars, workVars, reaperVars, boxVars>>

Steps == {"idle", "acquire", "release", "watch", "pidfd", "insert", "reap", "recv"}

(* The tables of the pool, the reaper and the workers hold values of their *)
(* declared kinds.                                                         *)
TypeOK ==
    /\ life \in [Procs -> {"none", "running", "zombie"}]
    /\ inc \in [Procs -> 0..MaxInc] /\ slips \in [Procs -> Nat]
    /\ asked \in [Procs -> {"no", "read", "write", "served"}]
    /\ available \in Nat /\ ledger \in [Procs -> Nat] /\ waiters \in Seq(Workers)
    /\ at \in [Workers -> Steps] /\ who \in [Workers -> Procs \cup {NoProc}]
    /\ born \in [Workers -> 0..MaxInc] /\ pidfd \in [Workers -> 0..MaxInc]
    /\ reply \in [Workers -> {"none", "grant", "deny"}]
    /\ watched \in [Hosts -> 0..MaxInc] /\ reaping \in Hosts \cup {NoProc}
    /\ dead \in SUBSET Hosts /\ platform \in Platforms
    /\ box \in {"live", "stopping", "joined", "removed"}
    /\ actors \in SUBSET Guests /\ reapSet \in SUBSET Guests

Init ==
    /\ life = [p \in Procs |-> "none"] /\ inc = [p \in Procs |-> 0]
    /\ slips = [p \in Procs |-> 0] /\ asked = [p \in Procs |-> "no"]
    /\ available = Total /\ ledger = [p \in Procs |-> 0] /\ waiters = <<>>
    /\ at = [w \in Workers |-> "idle"] /\ who = [w \in Workers |-> NoProc]
    /\ born = [w \in Workers |-> 0] /\ pidfd = [w \in Workers |-> 0]
    /\ reply = [w \in Workers |-> "none"]
    /\ watched = [p \in Hosts |-> 0] /\ reaping = NoProc /\ dead = {}
    /\ platform \in Platforms
    /\ box = (IF Guests = {} THEN "removed" ELSE "live") /\ actors = {} /\ reapSet = {}

-----------------------------------------------------------------------------
(***************************************************************************)
(* Pool.  The operations below run under the pool mutex; reap_box holds it *)
(* over several actors, so the others wait until reapSet is empty.         *)
(***************************************************************************)
PoolFree == reapSet = {}

(* Mutant: the freed slip goes to the newest waiter.                       *)
HandOffLast(n, queue, held) ==
    LET k == IF n < Len(queue) THEN n ELSE Len(queue)
        granted == {queue[i] : i \in (Len(queue) - k + 1)..Len(queue)}
    IN  /\ waiters' = SubSeq(queue, 1, Len(queue) - k)
        /\ available' = available + n - k
        /\ ledger' = [p \in Procs |-> held[p] + Cardinality({w \in granted : who[w] = p})]
        /\ reply' = [w \in Workers |->
                       IF w \in granted THEN "grant"
                       ELSE IF w \in Range(waiters) \ Range(queue) THEN "deny"
                       ELSE reply[w]]

(* Mutant: a freed slip is always put back, whoever waits.                 *)
HandOffIgnoresQueue(n, queue, held) ==
    /\ waiters' = queue /\ available' = available + n /\ ledger' = held
    /\ reply' = [w \in Workers |-> IF w \in Range(waiters) \ Range(queue) THEN "deny"
                                   ELSE reply[w]]

(* Mutant: dropped waiters get no reply.                                   *)
HandOffSilent(n, queue, held) ==
    LET k == IF n < Len(queue) THEN n ELSE Len(queue)
        granted == {queue[i] : i \in 1..k}
    IN  /\ waiters' = SubSeq(queue, k + 1, Len(queue))
        /\ available' = available + n - k
        /\ ledger' = [p \in Procs |-> held[p] + Cardinality({w \in granted : who[w] = p})]
        /\ reply' = [w \in Workers |-> IF w \in granted THEN "grant" ELSE reply[w]]

(* hand_off_one, n times: queue is what is left of waiters after dropping  *)
(* (and denying) some, held the ledger after taking n slips out of it.     *)
HandOff(n, queue, held) ==
    LET k == IF n < Len(queue) THEN n ELSE Len(queue)
        granted == {queue[i] : i \in 1..k}
    IN  /\ waiters' = SubSeq(queue, k + 1, Len(queue))
        /\ available' = available + n - k
        /\ ledger' = [p \in Procs |-> held[p] + Cardinality({w \in granted : who[w] = p})]
        /\ reply' = [w \in Workers |->
                       IF w \in granted THEN "grant"
                       ELSE IF w \in Range(waiters) \ Range(queue) THEN "deny"
                       ELSE reply[w]]

(* reap_pid: the queued reads of p are denied, its slips handed on.        *)
ReapPid(p) ==
    HandOff(ledger[p], SelectSeq(waiters, LAMBDA w : who[w] # p),
            [ledger EXCEPT ![p] = 0])

(* Mutant: a release the ledger does not know frees a slip.                *)
ReleaseUnchecked(p) ==
    HandOff(1, waiters, [ledger EXCEPT ![p] = IF @ > 0 THEN @ - 1 ELSE 0])

(* release: nothing happens when the ledger holds no slip of p.            *)
ReleaseSlip(p) ==
    IF ledger[p] > 0 THEN HandOff(1, waiters, [ledger EXCEPT ![p] = @ - 1])
                     ELSE UNCHANGED poolVars

-----------------------------------------------------------------------------
(***************************************************************************)
(* Processes (external).  A client has one request under way.  One that    *)
(* blocks asks for a slip only when it holds none: holding one and waiting *)
(* for another would deadlock two clients on any jobserver.  A process may *)
(* die at any time; the kernel drops its request unless a worker has it.   *)
(***************************************************************************)
Spawn(p) ==
    /\ life[p] = "none" /\ inc[p] < MaxInc /\ (p \in Guests => box = "live")
    /\ life' = [life EXCEPT ![p] = "running"] /\ inc' = [inc EXCEPT ![p] = @ + 1]
    /\ UNCHANGED <<slips, asked, poolVars, workVars, reaperVars, boxVars>>

Read(p) ==
    /\ life[p] = "running" /\ asked[p] = "no"
    /\ slips[p] < IF p \in Blocking THEN 1 ELSE MaxHold
    /\ asked' = [asked EXCEPT ![p] = "read"]
    /\ UNCHANGED <<life, inc, slips, poolVars, workVars, reaperVars, boxVars>>

Write(p) ==
    /\ life[p] = "running" /\ asked[p] = "no" /\ slips[p] > 0
    /\ asked' = [asked EXCEPT ![p] = "write"] /\ slips' = [slips EXCEPT ![p] = @ - 1]
    /\ UNCHANGED <<life, inc, poolVars, workVars, reaperVars, boxVars>>

Exit(p) ==
    /\ life[p] = "running"
    /\ life' = [life EXCEPT ![p] = IF p \in Hosts THEN "zombie" ELSE "none"]
    /\ asked' = [asked EXCEPT ![p] = "no"] /\ slips' = [slips EXCEPT ![p] = 0]
    /\ UNCHANGED <<inc, poolVars, workVars, reaperVars, boxVars>>

(* The parent collects the zombie; from here the pid may be used again.    *)
Collect(p) ==
    /\ life[p] = "zombie" /\ life' = [life EXCEPT ![p] = "none"]
    /\ UNCHANGED <<inc, slips, asked, poolVars, workVars, reaperVars, boxVars>>

-----------------------------------------------------------------------------
(***************************************************************************)
(* Workers.                                                                *)
(***************************************************************************)
Goto(w, step) == at' = [at EXCEPT ![w] = step]

(* The process w serves is still there to take the answer.                 *)
Hears(w) == life[who[w]] = "running" /\ inc[who[w]] = born[w]

(* serve_device takes a request; the read and write handlers find the      *)
(* actor, which for a guest enters it into GuestJobserver.actors.          *)
Take(w, p) ==
    /\ at[w] = "idle" /\ asked[p] \in {"read", "write"}
    /\ (w \in FuseWorkers) = (p \in Hosts)
    /\ Goto(w, IF asked[p] = "read" THEN "acquire" ELSE "release")
    /\ who' = [who EXCEPT ![w] = p] /\ born' = [born EXCEPT ![w] = inc[p]]
    /\ asked' = [asked EXCEPT ![p] = "served"]
    /\ actors' = actors \cup ({p} \cap Guests)
    /\ UNCHANGED <<life, inc, slips, poolVars, pidfd, reaperVars, box, reapSet>>

(* Only host processes are watched (watch_host_pid).                       *)
AfterAcquire(w) == IF w \in FuseWorkers THEN "watch" ELSE "recv"

(* Mutant: a slip is granted whether or not one is free.                   *)
AcquireUnchecked(w) ==
    /\ at[w] = "acquire" /\ PoolFree /\ available' = available - 1
    /\ ledger' = [ledger EXCEPT ![who[w]] = @ + 1]
    /\ reply' = [reply EXCEPT ![w] = "grant"] /\ Goto(w, AfterAcquire(w))
    /\ UNCHANGED <<waiters, procVars, who, born, pidfd, reaperVars, boxVars>>

(* Mutant: only a granted slip is watched, a queued read is not.           *)
AcquireNoWatch(w) ==
    /\ at[w] = "acquire" /\ PoolFree
    /\ \/ /\ available > 0 /\ available' = available - 1
          /\ ledger' = [ledger EXCEPT ![who[w]] = @ + 1]
          /\ reply' = [reply EXCEPT ![w] = "grant"]
          /\ Goto(w, AfterAcquire(w)) /\ UNCHANGED waiters
       \/ /\ available = 0 /\ who[w] \notin Blocking
          /\ reply' = [reply EXCEPT ![w] = "deny"]
          /\ Goto(w, "recv") /\ UNCHANGED <<available, ledger, waiters>>
       \/ /\ available = 0 /\ who[w] \in Blocking
          /\ waiters' = Append(waiters, w)
          /\ Goto(w, "recv") /\ UNCHANGED <<available, ledger, reply>>
    /\ UNCHANGED <<procVars, who, born, pidfd, reaperVars, boxVars>>

Acquire(w) ==
    /\ at[w] = "acquire" /\ PoolFree
    /\ \/ /\ available > 0 /\ available' = available - 1
          /\ ledger' = [ledger EXCEPT ![who[w]] = @ + 1]
          /\ reply' = [reply EXCEPT ![w] = "grant"]
          /\ Goto(w, AfterAcquire(w)) /\ UNCHANGED waiters
       \/ /\ available = 0 /\ who[w] \notin Blocking
          /\ reply' = [reply EXCEPT ![w] = "deny"]
          /\ Goto(w, "recv") /\ UNCHANGED <<available, ledger, waiters>>
       \/ /\ available = 0 /\ who[w] \in Blocking
          /\ waiters' = Append(waiters, w)
          /\ Goto(w, AfterAcquire(w)) /\ UNCHANGED <<available, ledger, reply>>
    /\ UNCHANGED <<procVars, who, born, pidfd, reaperVars, boxVars>>

(* Reaper.watch.  On Linux: the dedup check,                               *)
WatchCheck(w) ==
    /\ Linux /\ at[w] = "watch"
    /\ Goto(w, IF watched[who[w]] # 0 THEN "recv" ELSE "pidfd")
    /\ UNCHANGED <<procVars, poolVars, who, born, pidfd, reaperVars, boxVars>>

(* pidfd_open, which pins the process that has the pid now, if any,        *)
PidfdOpen(w) ==
    /\ at[w] = "pidfd"
    /\ \/ /\ life[who[w]] # "none"
          /\ pidfd' = [pidfd EXCEPT ![w] = inc[who[w]]] /\ Goto(w, "insert")
       \/ /\ life[who[w]] = "none" \/ Faults
          /\ Goto(w, "reap") /\ UNCHANGED pidfd
    /\ UNCHANGED <<procVars, poolVars, who, born, reaperVars, boxVars>>

(* the second check, epoll_ctl and the insertion, under the watched lock.  *)
WatchInsert(w) ==
    /\ Linux /\ at[w] = "insert"
    /\ \/ watched[who[w]] # 0 /\ Goto(w, "recv") /\ UNCHANGED watched
       \/ /\ watched[who[w]] = 0
          /\ watched' = [watched EXCEPT ![who[w]] = pidfd[w]] /\ Goto(w, "recv")
       \/ Faults /\ watched[who[w]] = 0 /\ Goto(w, "reap") /\ UNCHANGED watched
    /\ pidfd' = [pidfd EXCEPT ![w] = 0]
    /\ UNCHANGED <<procVars, poolVars, who, born, reaping, dead, platform, boxVars>>

(* On macOS: kill(pid, 0), then the insertion, which waits while the       *)
(* reaper has the lock.                                                    *)
MacProbe(w) ==
    /\ ~Linux /\ at[w] = "watch"
    /\ Goto(w, IF life[who[w]] = "none" THEN "reap" ELSE "insert")
    /\ UNCHANGED <<procVars, poolVars, who, born, pidfd, reaperVars, boxVars>>

MacInsert(w) ==
    /\ ~Linux /\ at[w] = "insert" /\ reaping = NoProc /\ Goto(w, "recv")
    /\ watched' = [watched EXCEPT ![who[w]] = 1]
    /\ UNCHANGED <<procVars, poolVars, who, born, pidfd, reaping, dead, platform, boxVars>>

(* watch found the process gone, or could not watch it.                    *)
WatchReap(w) ==
    /\ at[w] = "reap" /\ PoolFree /\ ReapPid(who[w]) /\ Goto(w, "recv")
    /\ UNCHANGED <<procVars, who, born, pidfd, reaperVars, boxVars>>

(* receive.recv() returns and the read is answered; the byte of a grant is *)
(* lost when nobody is there to take it, or when the staging file of       *)
(* overlay.rs's read fails.                                                *)
Answer(w) ==
    /\ at[w] = "recv" /\ reply[w] # "none"
    /\ \/ /\ Hears(w) /\ reply[w] = "grant"
          /\ slips' = [slips EXCEPT ![who[w]] = @ + 1]
       \/ (Hears(w) => Faults \/ reply[w] = "deny") /\ UNCHANGED slips
    /\ asked' = [asked EXCEPT ![who[w]] = IF Hears(w) THEN "no" ELSE @]
    /\ reply' = [reply EXCEPT ![w] = "none"] /\ Goto(w, "idle")
    /\ who' = [who EXCEPT ![w] = NoProc] /\ born' = [born EXCEPT ![w] = 0]
    /\ UNCHANGED <<life, inc, available, ledger, waiters, pidfd, reaperVars, boxVars>>

Release(w) ==
    /\ at[w] = "release" /\ PoolFree /\ ReleaseSlip(who[w])
    /\ asked' = [asked EXCEPT ![who[w]] = IF Hears(w) THEN "no" ELSE @]
    /\ Goto(w, "idle")
    /\ who' = [who EXCEPT ![w] = NoProc] /\ born' = [born EXCEPT ![w] = 0]
    /\ UNCHANGED <<life, inc, slips, pidfd, reaperVars, boxVars>>

-----------------------------------------------------------------------------
(***************************************************************************)
(* The reaper thread.                                                      *)
(***************************************************************************)

(* Mutant: any wakeup is taken for the exit.                               *)
ReaperWakeEarly(p) ==
    /\ Linux /\ reaping = NoProc /\ watched[p] # 0
    /\ watched' = [watched EXCEPT ![p] = 0] /\ reaping' = p
    /\ UNCHANGED <<procVars, poolVars, workVars, dead, platform, boxVars>>

(* The pidfd is readable: the process it pins has exited.                  *)
ReaperWake(p) ==
    /\ Linux /\ reaping = NoProc /\ watched[p] # 0
    /\ inc[p] > watched[p] \/ life[p] # "running"
    /\ watched' = [watched EXCEPT ![p] = 0] /\ reaping' = p
    /\ UNCHANGED <<procVars, poolVars, workVars, dead, platform, boxVars>>

(* Mutant: the event only stops the watch.                                 *)
ReaperForgets ==
    /\ Linux /\ reaping # NoProc /\ PoolFree /\ UNCHANGED poolVars /\ reaping' = NoProc
    /\ UNCHANGED <<procVars, workVars, watched, dead, platform, boxVars>>

ReaperReap ==
    /\ Linux /\ reaping # NoProc /\ PoolFree /\ ReapPid(reaping) /\ reaping' = NoProc
    /\ UNCHANGED <<procVars, workVars, watched, dead, platform, boxVars>>

(* Every 100 ms: the watched pids that kill(pid, 0) does not find.         *)
MacScan ==
    /\ ~Linux /\ dead = {} /\ reaping = NoProc
    /\ dead' = {p \in Hosts : watched[p] # 0 /\ life[p] = "none"} /\ dead' # {}
    /\ UNCHANGED <<procVars, poolVars, workVars, watched, reaping, platform, boxVars>>

(* The dead pids are unwatched and reaped under one watched lock, which    *)
(* reaping # NoProc stands for.                                            *)
MacReap(p) ==
    /\ p \in dead /\ PoolFree /\ dead' = dead \ {p}
    /\ reaping' = (IF dead' = {} THEN NoProc ELSE p)
    /\ watched' = [watched EXCEPT ![p] = 0] /\ ReapPid(p)
    /\ UNCHANGED <<procVars, workVars, platform, boxVars>>

-----------------------------------------------------------------------------
(***************************************************************************)
(* The QEMU box ends: its guests die with it, stop_live_transports joins   *)
(* the export's thread, remove_box takes the actors and reaps them.        *)
(***************************************************************************)
BoxEnds ==
    /\ box = "live" /\ box' = "stopping"
    /\ life' = [p \in Procs |-> IF p \in Guests THEN "none" ELSE life[p]]
    /\ slips' = [p \in Procs |-> IF p \in Guests THEN 0 ELSE slips[p]]
    /\ asked' = [p \in Procs |-> IF p \in Guests THEN "no" ELSE asked[p]]
    /\ UNCHANGED <<inc, poolVars, workVars, reaperVars, actors, reapSet>>

(* Mutant: the transport is not joined before the box is removed.          *)
StopWithoutJoin ==
    /\ box = "stopping" /\ box' = "joined"
    /\ UNCHANGED <<procVars, poolVars, workVars, reaperVars, actors, reapSet>>

StopTransport ==
    /\ box = "stopping" /\ \A w \in VringWorkers : at[w] = "idle"
    /\ box' = "joined"
    /\ UNCHANGED <<procVars, poolVars, workVars, reaperVars, actors, reapSet>>

RemoveBox ==
    /\ box = "joined" /\ PoolFree
    /\ box' = "removed" /\ actors' = {} /\ reapSet' = actors
    /\ UNCHANGED <<procVars, poolVars, workVars, reaperVars>>

ReapActor(g) ==
    /\ g \in reapSet /\ ReapPid(g) /\ reapSet' = reapSet \ {g}
    /\ UNCHANGED <<procVars, workVars, reaperVars, box, actors>>

-----------------------------------------------------------------------------
ProcessStep(p) == Spawn(p) \/ Read(p) \/ Write(p) \/ Exit(p)

WorkerStep(w) ==
    \/ Acquire(w) \/ WatchCheck(w) \/ PidfdOpen(w) \/ WatchInsert(w)
    \/ MacProbe(w) \/ MacInsert(w) \/ WatchReap(w) \/ Answer(w) \/ Release(w)

ReaperStep == ReaperReap \/ MacScan \/ \E p \in Hosts : ReaperWake(p) \/ MacReap(p)

Teardown == StopTransport \/ RemoveBox \/ \E g \in Guests : ReapActor(g)

Next ==
    \/ \E p \in Procs : ProcessStep(p)
    \/ \E p \in Hosts : Collect(p)
    \/ \E w \in Workers : WorkerStep(w) \/ \E p \in Procs : Take(w, p)
    \/ ReaperStep \/ BoxEnds \/ Teardown

Spec == Init /\ [][Next]_vars

(***************************************************************************)
(* Fairness.  The threads of the engine run; a request in the transport's  *)
(* FIFO is taken if workers keep coming back for requests; a client that   *)
(* holds a slip finishes its job and writes it back.  Nobody need read,    *)
(* die or be collected.                                                    *)
(***************************************************************************)
Fairness ==
    /\ \A w \in Workers : WF_vars(WorkerStep(w))
    /\ WF_vars(ReaperStep) /\ WF_vars(Teardown)
    /\ \A p \in Procs : SF_vars(\E w \in Workers : Take(w, p))
    /\ \A p \in Procs : SF_vars(Write(p))

FairSpec == Spec /\ Fairness

-----------------------------------------------------------------------------
(***************************************************************************)
(* Properties.                                                             *)
(***************************************************************************)
RECURSIVE Sum(_, _)
Sum(f, S) == IF S = {} THEN 0 ELSE LET x == CHOOSE x \in S : TRUE IN f[x] + Sum(f, S \ {x})

(* No slip is lost or made: whatever is released twice, reaped while in    *)
(* use or handed from queue to queue, the free slips and those the ledger  *)
(* attributes add up to the size of the pool.                              *)
Conservation == available + Sum(ledger, Procs) = Total

(* A slip is never left free while a read waits for one: release and       *)
(* reap_pid hand every freed slip to the queue first.                      *)
NoIdleSlip == available > 0 => waiters = <<>>

(* Every read gets exactly one answer: a worker past acquire has a message *)
(* in its channel or is in the queue once, never both and never neither.   *)
OneAnswerPerRead ==
    /\ \A i, k \in 1..Len(waiters) : waiters[i] = waiters[k] => i = k
    /\ \A w \in Workers :
         (w \in Range(waiters)) =
           (at[w] \in {"watch", "pidfd", "insert", "reap", "recv"} /\ reply[w] = "none")

(* A worker between Pool.acquire and the end of watch_pid for p.           *)
AboutToWatch(p) ==
    \E w \in Workers : who[w] = p /\ at[w] \in {"watch", "pidfd", "insert", "reap"}

(* Whoever holds or waits for a slip will be reaped when it dies: a host   *)
(* pid in the ledger or the queue is watched, about to be, or being        *)
(* reaped, although watching takes four steps under three locks and races  *)
(* the reaper's removal and the reuse of the pid.                          *)
HoldersAreWatched ==
    \A p \in Hosts :
        ledger[p] > 0 \/ (\E w \in Range(waiters) : who[w] = p) =>
            watched[p] # 0 \/ (Linux /\ reaping = p) \/ AboutToWatch(p)

(* "Still never exceed 8 concurrent jobs" (the head comment of             *)
(* slippool.rs): the slips in the hands of running processes never exceed  *)
(* the pool.                                                               *)
MachineBound == Sum(slips, Procs) <= Total

(* First come, first served: a queued read is granted only when every      *)
(* read queued before it has left the queue too.                           *)
GrantsInOrder ==
    [][\A k \in 1..Len(waiters) :
         reply[waiters[k]] = "none" /\ reply'[waiters[k]] = "grant" =>
           \A i \in 1..k : waiters[i] \notin Range(waiters')]_vars

(* Once a box is removed and its actors reaped, its guests own nothing of  *)
(* the pool and no read of theirs is left in the queue.                    *)
RemovedBoxOwnsNothing ==
    box = "removed" /\ reapSet = {} =>
        \A g \in Guests : ledger[g] = 0 /\ \A w \in Range(waiters) : who[w] # g

(* The slips of a dead host process come back to the pool (unless a new    *)
(* process takes over the pid first).                                      *)
DeadReturnSlips ==
    \A p \in Hosts : (life[p] # "running" /\ ledger[p] > 0)
                        ~> (ledger[p] = 0 \/ life[p] = "running")

(* "A blocking caller is queued (its reply is fulfilled later by a         *)
(* release/reap)" (Pool::acquire): every read a worker waits on ends.      *)
BlockedReadsEnd == \A w \in FuseWorkers : (at[w] = "recv") ~> (at[w] = "idle")

(* "Guest actors ... are reaped by guest process/box teardown": the slips  *)
(* of a guest process that died come back while its box lives on.          *)
DeadGuestsReturnSlips ==
    \A g \in Guests : (life[g] = "none" /\ ledger[g] > 0)
                         ~> (ledger[g] = 0 \/ life[g] = "running")

(* "When the process tracing observes a pid (or a whole box) exit, REAP    *)
(* the slips": a box that has ended gives back what its guests held.       *)
EndedBoxReturnsSlips ==
    \A g \in Guests : (box = "stopping" /\ ledger[g] > 0) ~> (ledger[g] = 0)
=============================================================================
