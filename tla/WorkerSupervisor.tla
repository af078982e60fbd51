--------------------------- MODULE WorkerSupervisor ---------------------------
(***************************************************************************)
(* The supervisor of the Python worker (python-worker-supervisor.ts) and   *)
(* the worker's own command loop (worker.py): calls by job, one process at *)
(* a time behind two pipes, and everything that may end it: its death, its *)
(* silence, malformed output, a call that takes too long, a cancellation   *)
(* that is not acknowledged.                                               *)
(*                                                                         *)
(* A killed process lives on for a while, what it wrote stays readable,    *)
(* and its exit event comes when it comes: output and exits of an earlier  *)
(* process meet the state of a later one.                                  *)
(***************************************************************************)
EXTENDS Integers, Sequences, FiniteSets, SequencesExt

CONSTANTS Ids,              \* of jobs: each has one call at a time
          MaxProcs,         \* processes the supervisor may spawn
          MaxCalls,         \* calls of runJob
          MaxRestarts       \* options.maximumRestarts

ASSUME WorkerAssumption ==
    IsFiniteSet(Ids) /\ MaxProcs \in Nat \ {0} /\ MaxCalls \in Nat /\ MaxRestarts \in Nat

VARIABLES
    procs,      \* per spawned process: its life, its pipes, its threads
    child,      \* this.child, 0 for none
    ready,      \* whether this.snapshot is set
    launching,  \* the process of the pending start(), 0 for none
    calls,      \* activeJobs, with where each was sent (0: waits for start)
    cancelling, \* jobs with a cancel() under way
    restarts,   \* restartCount
    timer,      \* whether a restart is scheduled
    host        \* the core: "up", "stopped", or "dead" of an unhandled rejection

supervisorVars == <<procs, child, ready, launching, calls, cancelling, restarts, timer, host>>

\* "signalled" has been sent SIGTERM; "dead" has an exit event to come.
ProcStates == {"unborn", "up", "signalled", "dead", "gone"}
Threads    == {"none", "runs", "told", "done"}

Unborn == [state |-> "unborn", in |-> <<>>, out |-> <<>>, threads |-> [j \in Ids |-> "none"]]

Procs == 1..MaxProcs
NoCall == [active |-> FALSE, to |-> 0]

SupervisorInit ==
    /\ procs = [p \in Procs |-> Unborn]
    /\ child = 0 /\ ready = FALSE /\ launching = 0
    /\ calls = [j \in Ids |-> NoCall]
    /\ cancelling = {}
    /\ restarts = 0 /\ timer = FALSE
    /\ host = [state |-> "up", calls |-> MaxCalls]

Msg(type, j) == [type |-> type, job |-> j]
Plain(type)  == [type |-> type, job |-> 0]

Up == host.state = "up"
Active == {j \in Ids : calls[j].active}
Unspawned == {p \in Procs : procs[p].state = "unborn"}
-----------------------------------------------------------------------------
(***************************************************************************)
(* Starting                                                                *)
(***************************************************************************)

Lives(p) == p # 0 /\ procs[p].state \in {"up", "signalled"}

\* Kill(P, p): SIGTERM, if it still runs.
Kill(P, p) == IF p # 0 /\ P[p].state = "up" THEN [P EXCEPT ![p].state = "signalled"] ELSE P

Sent(P, p, msg) == [P EXCEPT ![p].in = Append(@, msg)]

\* launch(): spawn, remember the child, say hello.
Spawned(P, p) == [P EXCEPT ![p].state = "up", ![p].in = <<Plain("hello")>>]

Launch ==
    /\ Unspawned # {}
    /\ LET p == CHOOSE q \in Unspawned : \A r \in Unspawned : q <= r
       IN  procs' = Spawned(procs, p) /\ child' = p /\ launching' = p

\* runJob: start() and then send, or wait for the start under way.  The pipe
\* of a child that has died may be closed already: the call is then rejected.
RunJob(j) ==
    /\ host.calls > 0
    /\ ~calls[j].active
    /\ host' = [host EXCEPT !.calls = @ - 1]
    /\ \/ /\ ready
          /\ calls' = [calls EXCEPT ![j] = [active |-> TRUE, to |-> child]]
          /\ procs' = Sent(procs, child, Msg("start", j))
          /\ UNCHANGED <<child, launching>>
       \/ /\ ready /\ ~Lives(child)
          /\ UNCHANGED <<procs, child, launching, calls>>
       \/ /\ ~ready /\ launching # 0
          /\ calls' = [calls EXCEPT ![j].active = TRUE]
          /\ UNCHANGED <<procs, child, launching>>
       \/ /\ ~ready /\ launching = 0
          /\ calls' = [calls EXCEPT ![j].active = TRUE]
          /\ Launch
    /\ UNCHANGED <<ready, cancelling, restarts, timer>>

\* The scheduled restart.
RestartTimer ==
    /\ timer
    /\ timer' = FALSE
    /\ IF ready \/ launching # 0
       THEN UNCHANGED <<procs, child, launching>>
       ELSE Launch
    /\ UNCHANGED <<ready, calls, cancelling, restarts, host>>

\* The calls that wait for start() when its promise is rejected.
Unstarted(C) == [j \in Ids |-> IF C[j].to = 0 THEN NoCall ELSE C[j]]
-----------------------------------------------------------------------------
(***************************************************************************)
(* Ending a process                                                        *)
(***************************************************************************)

\* What the pipe still holds of a child that is dropped.  A frame of which a
\* part had been read is left with its rest.
Dropped(P, p) ==
    {P} \cup (IF P[p].out = <<>> THEN {} ELSE {[P EXCEPT ![p].out[1] = Plain("garbage")]})

RejectAll == calls' = [j \in Ids |-> NoCall] /\ cancelling' = {}

\* Mutant: any exit is taken for that of the current child.
AnyChild(p) == child # 0

IsChild(p) == child # 0 /\ child = p

\* handleExit: an exit of any other process is ignored.
HandleExit(P, p) ==
    IF IsChild(p)
    THEN /\ procs' \in Dropped(P, p)
         /\ child' = 0 /\ ready' = FALSE
         /\ RejectAll
         /\ IF restarts < MaxRestarts
            THEN restarts' = restarts + 1 /\ timer' = TRUE
            ELSE UNCHANGED <<restarts, timer>>
    ELSE /\ procs' = P
         /\ UNCHANGED <<child, ready, calls, cancelling, restarts, timer>>

ForceRestart == HandleExit(Kill(procs, child), child)

\* The exit event; it also rejects the start() of this process, if that still
\* waits, and with it the calls that wait for it.
ExitEvent(p) ==
    /\ procs[p].state = "dead"
    /\ launching' = IF launching = p THEN 0 ELSE launching
    /\ HandleExit([procs EXCEPT ![p].state = "gone"], p)
    /\ UNCHANGED host

\* onProtocolError rejects a pending start(), rejectAll the calls, and the
\* child is replaced: the present one, whoever wrote the frame.
ProtocolFailure(p) ==
    /\ LET P == [procs EXCEPT ![p].out = Tail(@)]
       IN  IF child # 0
           THEN HandleExit(Kill(P, child), child)
           ELSE /\ procs' = P
                /\ RejectAll
                /\ UNCHANGED <<child, ready, restarts, timer>>
    /\ launching' = 0

StartupTimeout ==
    /\ launching # 0
    /\ procs' = Kill(procs, launching)
    /\ launching' = 0
    /\ calls' = Unstarted(calls)
    /\ UNCHANGED <<child, ready, cancelling, restarts, timer, host>>

\* The "error" of a child that could not be spawned: no exit follows it.
SpawnFails(p) ==
    /\ launching = p
    /\ procs[p].state = "up" /\ procs[p].in = <<Plain("hello")>>
    /\ procs' = [procs EXCEPT ![p].state = "gone", ![p].in = <<>>]
    /\ launching' = 0
    /\ calls' = Unstarted(calls)
    /\ UNCHANGED <<child, ready, cancelling, restarts, timer, host>>

\* No heartbeat for too long.
HeartbeatTimeout ==
    /\ ready
    /\ ForceRestart
    /\ UNCHANGED <<launching, host>>

\* A start() ends within 10 seconds, a call not before half an hour.
JobTimeout(j) ==
    /\ calls[j].active /\ calls[j].to # 0
    /\ ForceRestart
    /\ UNCHANGED <<launching, host>>

\* cancel(): the runner's handlers call it and do not await it.  What it
\* rejects with is nobody's, and ends the core; it also rejects when the pipe
\* is closed.
CancelCall(j) ==
    /\ calls[j].active /\ j \notin cancelling
    /\ \/ /\ procs' = IF Lives(child) THEN Sent(procs, child, Msg("cancel", j)) ELSE procs
          /\ cancelling' = cancelling \cup {j}
          /\ UNCHANGED host
       \/ /\ ~Lives(child)
          /\ host' = [host EXCEPT !.state = "dead"]
          /\ UNCHANGED <<procs, cancelling>>
    /\ UNCHANGED <<child, ready, launching, calls, restarts, timer>>

CancelExpires(j) ==
    /\ j \in cancelling
    /\ ForceRestart
    /\ host' = [host EXCEPT !.state = "dead"]
    /\ UNCHANGED launching

\* The core stops its runner, and so waits for its handlers, before the worker.
Stop ==
    /\ Active = {}
    /\ host' = [host EXCEPT !.state = "stopped"]
    /\ procs' = Kill(procs, child)
    /\ child' = 0 /\ ready' = FALSE /\ timer' = FALSE
    /\ UNCHANGED <<launching, calls, cancelling, restarts>>
-----------------------------------------------------------------------------
(***************************************************************************)
(* consume and dispatch: frames are read from every process that has some. *)
(***************************************************************************)

Settles(msg) == msg.type \in {"result", "error", "cancelled"}

Read(p) ==
    /\ procs[p].out # <<>>
    /\ LET msg == Head(procs[p].out)
           P   == [procs EXCEPT ![p].out = Tail(@)]
       IN  \/ /\ Settles(msg)
              /\ calls' = [calls EXCEPT ![msg.job] = NoCall]
              /\ cancelling' = cancelling \ {msg.job}
              /\ procs' = P
              /\ UNCHANGED <<child, ready, launching, restarts, timer>>
           \/ /\ msg.type = "ready" /\ launching = p
              /\ ready' = TRUE
              /\ launching' = 0
              /\ calls' = [j \in Ids |-> [calls[j] EXCEPT !.to = IF calls[j].active THEN p ELSE 0]]
              /\ \E order \in SetToSeqs(Active) :
                   procs' = [P EXCEPT ![p].in = @ \o
                               [i \in DOMAIN order |-> Msg("start", order[i])]]
              /\ UNCHANGED <<child, cancelling, restarts, timer>>
           \/ /\ msg.type = "ready" /\ launching = 0
              /\ procs' = P
              /\ UNCHANGED <<child, ready, launching, calls, cancelling, restarts, timer>>
           \/ /\ msg.type = "garbage" \/ (msg.type = "ready" /\ launching \notin {0, p})
              /\ ProtocolFailure(p)
    /\ UNCHANGED host
-----------------------------------------------------------------------------
(***************************************************************************)
(* The worker                                                              *)
(***************************************************************************)

Answer(P, p, msg) == [P EXCEPT ![p].out = Append(@, msg)]

\* main(): one command; a job runs in a thread of its own.
Handle(p) ==
    /\ Lives(p)
    /\ procs[p].in # <<>>
    /\ LET msg == Head(procs[p].in)
           P   == [procs EXCEPT ![p].in = Tail(@)]
           j   == msg.job
       IN  procs' = CASE msg.type = "hello" -> Answer(P, p, Plain("ready"))
                      [] msg.type = "start" ->
                           IF P[p].threads[j] = "none"
                           THEN [P EXCEPT ![p].threads[j] = "runs"]
                           ELSE Answer(P, p, Msg("error", j))
                      [] msg.type = "cancel" ->
                           IF P[p].threads[j] = "none"
                           THEN Answer(P, p, Msg("cancelled", j))
                           ELSE IF P[p].threads[j] = "runs"
                           THEN [P EXCEPT ![p].threads[j] = "told"] ELSE P
    /\ UNCHANGED <<child, ready, launching, calls, cancelling, restarts, timer, host>>

\* The thread answers, and is forgotten after that.
ThreadEnds(p, j) ==
    /\ Lives(p)
    /\ \/ /\ procs[p].threads[j] \in {"runs", "told"}
          /\ procs' = [procs EXCEPT
                ![p].threads[j] = "done",
                ![p].out = Append(@, Msg(IF procs[p].threads[j] = "told" THEN "cancelled" ELSE "result", j))]
       \/ /\ procs[p].threads[j] = "done"
          /\ procs' = [procs EXCEPT ![p].threads[j] = "none"]
    /\ UNCHANGED <<child, ready, launching, calls, cancelling, restarts, timer, host>>

ProcessDies(p) ==
    /\ Lives(p)
    /\ procs' = [procs EXCEPT ![p].state = "dead", ![p].in = <<>>,
                              ![p].threads = [j \in Ids |-> "none"]]
    /\ UNCHANGED <<child, ready, launching, calls, cancelling, restarts, timer, host>>

\* The worker is followed as long as the core is.
SupervisorNext ==
    /\ Up
    /\ \/ \E j \in Ids : RunJob(j) \/ JobTimeout(j) \/ CancelCall(j) \/ CancelExpires(j)
       \/ \E p \in Procs : Read(p) \/ ExitEvent(p) \/ Handle(p) \/ ProcessDies(p)
                           \/ SpawnFails(p) \/ \E j \in Ids : ThreadEnds(p, j)
       \/ RestartTimer \/ StartupTimeout \/ HeartbeatTimeout \/ Stop

\* The event loop delivers what has come, the operating system ends a killed
\* process, and the worker answers.  The timeouts are not counted on.
SettlesDown(p) ==
    Up /\ (Read(p) \/ ExitEvent(p) \/ Handle(p) \/ (ProcessDies(p) /\ procs[p].state = "signalled")
           \/ \E j \in Ids : ThreadEnds(p, j))

SupervisorFairness == \A p \in Procs : WF_supervisorVars(SettlesDown(p))

SupervisorSpec == SupervisorInit /\ [][SupervisorNext]_supervisorVars /\ SupervisorFairness
-----------------------------------------------------------------------------
SupervisorTypeOK ==
    /\ \A p \in Procs : procs[p].state \in ProcStates /\ procs[p].threads \in [Ids -> Threads]
    /\ child \in 0..MaxProcs /\ launching \in 0..MaxProcs
    /\ calls \in [Ids -> [active : BOOLEAN, to : 0..MaxProcs]]
    /\ restarts \in 0..MaxRestarts
    /\ Up /\ launching # 0 => child = launching

(***************************************************************************)
(* One worker serves the core.  Whatever the order of kills, late exit     *)
(* events, scheduled restarts and calls that start one on their own, no    *)
(* process runs on that is neither the current child nor told to end.      *)
(***************************************************************************)
OneWorker == host.state = "up" => \A p \in Procs : procs[p].state = "up" => child = p

(***************************************************************************)
(* No call is left behind: while the core lives every runJob settles, also *)
(* when its worker dies, is replaced or never starts, and without waiting  *)
(* for the half hour of the job timeout.                                   *)
(***************************************************************************)
CallsSettle == \A j \in Ids : (calls[j].active /\ Up) ~> (~calls[j].active \/ ~Up)
=============================================================================
