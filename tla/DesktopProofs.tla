----------------------------- MODULE DesktopProofs -----------------------------
(***************************************************************************)
(* Proofs about the desktop application around its jobs, for any number of *)
(* calls, processes, restarts, saves, starts, edits, retries and deaths:   *)
(* WorkerSupervisor, Startup, ShortWorkflow, Editor and ArtifactStore; and *)
(* what CompositionProofs and ProposalProofs say of the functions of the   *)
(* application holds in every behaviour of MCDesktop.                      *)
(***************************************************************************)
EXTENDS MCDesktop, CompositionProofs, ProposalProofs,
        FiniteSetTheorems, WellFoundedInduction, TLAPS

LEMMA Smallest ==
  ASSUME NEW S \in SUBSET Nat, S # {}
  PROVE  \E x \in S : \A y \in S : x <= y
<1>1. \E x \in S : \A y \in S : <<y, x>> \notin OpToRel(<, Nat)
  BY NatLessThanWellFounded, WFMin
<1>2. PICK x \in S : \A y \in S : <<y, x>> \notin OpToRel(<, Nat)
  BY <1>1
<1>3. \A y \in S : ~(y < x)
  BY <1>2 DEF OpToRel
<1> QED
  BY <1>3
-----------------------------------------------------------------------------
(***************************************************************************)
(* The supervisor of the worker.  A process that was not told to end is    *)
(* the child, and has either answered or is the one a start() waits for;   *)
(* a call is sent only to a child that has answered.                       *)
(***************************************************************************)

CommandTypes == {"hello", "start", "cancel"}
FrameTypes   == {"ready", "garbage", "result", "error", "cancelled"}

Commands == [type : CommandTypes, job : Ids \cup {0}]
Frames   == [type : FrameTypes, job : Ids \cup {0}]

Processes == [state : ProcStates, in : Seq(Commands), out : Seq(Frames), threads : [Ids -> Threads]]

WorkerTypeOK ==
    /\ procs \in [Procs -> Processes]
    /\ child \in 0..MaxProcs /\ launching \in 0..MaxProcs /\ ready \in BOOLEAN
    /\ calls \in [Ids -> [active : BOOLEAN, to : 0..MaxProcs]]
    /\ restarts \in 0..MaxRestarts
    /\ host \in [state : {"up", "stopped", "dead"}, calls : Nat]

Serves(P) == \A p \in Procs : P[p].state = "up" => child = p /\ (ready \/ launching = p)

OneServes ==
    /\ Serves(procs)
    /\ launching # 0 => child = launching /\ ~ready
    /\ ready => child # 0
    /\ \A j \in Ids : calls[j].to # 0 => ready

WorkerInv == WorkerTypeOK /\ (Up => OneServes)

LEMMA InitWorkerInv == SupervisorInit => WorkerInv
<1> SUFFICES ASSUME SupervisorInit PROVE WorkerInv
  OBVIOUS
<1> USE DEF SupervisorInit
<1>1. MaxProcs \in Nat /\ MaxRestarts \in Nat /\ MaxCalls \in Nat
  BY WorkerAssumption
<1>2. <<>> \in Seq(Frames) /\ <<>> \in Seq(Commands)
  OBVIOUS
<1>3. Unborn \in Processes /\ Unborn.state = "unborn"
  BY <1>2 DEF Unborn, Processes, ProcStates, Threads
<1>4. procs \in [Procs -> Processes] /\ \A p \in Procs : procs[p].state = "unborn"
  BY <1>3
<1>5. calls \in [Ids -> [active : BOOLEAN, to : 0..MaxProcs]] /\ \A j \in Ids : calls[j].to = 0
  BY <1>1 DEF NoCall
<1>6. host \in [state : {"up", "stopped", "dead"}, calls : Nat]
  BY <1>1
<1>7. 0 \in 0..MaxProcs /\ 0 \in 0..MaxRestarts
  BY <1>1
<1>8. WorkerTypeOK
  BY <1>4, <1>5, <1>6, <1>7 DEF WorkerTypeOK
<1> QED
  BY <1>4, <1>5, <1>8 DEF WorkerInv, OneServes, Serves

\* What is done to the pipes and threads of a process leaves its life alone.
Alike(P, Q) == P \in [Procs -> Processes] /\ \A p \in Procs : P[p].state = Q[p].state

LEMMA PipesAndThreads ==
  ASSUME NEW P \in [Procs -> Processes], NEW p \in 0..MaxProcs, MaxProcs \in Nat
  PROVE  /\ \A s \in Seq(Commands) : Alike([P EXCEPT ![p].in = s], P)
         /\ \A s \in Seq(Frames) : Alike([P EXCEPT ![p].out = s], P)
         /\ \A t \in [Ids -> Threads] : Alike([P EXCEPT ![p].threads = t], P)
<1>1. CASE p = 0
  <2>1. p \notin Procs
    BY <1>1 DEF Procs
  <2> QED
    BY <2>1 DEF Alike
<1>2. CASE p # 0
  <2>1. p \in Procs
    BY <1>2 DEF Procs
  <2>2. ASSUME NEW s \in Seq(Commands) PROVE Alike([P EXCEPT ![p].in = s], P)
    BY <2>1, <2>2 DEF Alike, Processes
  <2>3. ASSUME NEW s \in Seq(Frames) PROVE Alike([P EXCEPT ![p].out = s], P)
    BY <2>1, <2>3 DEF Alike, Processes
  <2>4. ASSUME NEW t \in [Ids -> Threads] PROVE Alike([P EXCEPT ![p].threads = t], P)
    BY <2>1, <2>4 DEF Alike, Processes
  <2> QED
    BY <2>2, <2>3, <2>4
<1> QED
  BY <1>1, <1>2

LEMMA AlikeSteps ==
  ASSUME NEW P, NEW Q, NEW R, Alike(P, Q), Alike(Q, R)
  PROVE  Alike(P, R)
BY DEF Alike

LEMMA Messages ==
  ASSUME NEW j \in Ids \cup {0}
  PROVE  /\ \A type \in CommandTypes : Msg(type, j) \in Commands /\ Plain(type) \in Commands
         /\ \A type \in FrameTypes : Msg(type, j) \in Frames /\ Plain(type) \in Frames
BY DEF Msg, Plain, Commands, Frames

\* Kill sends a signal to a process that is up, and to no other.
LEMMA KillEnds ==
  ASSUME NEW P \in [Procs -> Processes], NEW p \in 0..MaxProcs, MaxProcs \in Nat
  PROVE  /\ Kill(P, p) \in [Procs -> Processes]
         /\ \A q \in Procs : Kill(P, p)[q].state = "up" => P[q].state = "up" /\ q # p
<1>1. CASE p # 0 /\ P[p].state = "up"
  <2>1. p \in Procs
    BY <1>1 DEF Procs
  <2> DEFINE K == [P EXCEPT ![p].state = "signalled"]
  <2>2. K \in [Procs -> Processes]
    BY <2>1 DEF Processes, ProcStates
  <2>3. \A q \in Procs : K[q].state = IF q = p THEN "signalled" ELSE P[q].state
    BY <2>1 DEF Processes
  <2>4. Kill(P, p) = K
    BY <1>1 DEF Kill
  <2> HIDE DEF K
  <2> QED
    BY <2>2, <2>3, <2>4
<1>2. CASE ~(p # 0 /\ P[p].state = "up")
  <2>1. 0 \notin Procs
    BY DEF Procs
  <2> QED
    BY <1>2, <2>1 DEF Kill
<1> QED
  BY <1>1, <1>2

LEMMA DroppedPipes ==
  ASSUME NEW P \in [Procs -> Processes], NEW p \in Procs, NEW Q \in Dropped(P, p)
  PROVE  Alike(Q, P)
<1>1. CASE Q = P
  BY <1>1 DEF Alike
<1>2. CASE P[p].out # <<>> /\ Q = [P EXCEPT ![p].out[1] = Plain("garbage")]
  <2>1. P[p].out \in Seq(Frames) /\ Plain("garbage") \in Frames
    BY Messages DEF Processes, FrameTypes
  <2>2. PICK s : s = [P[p].out EXCEPT ![1] = Plain("garbage")]
    OBVIOUS
  <2>3. s \in Seq(Frames)
    <3>1. PICK n \in Nat : P[p].out \in [1..n -> Frames]
      BY <2>1
    <3>2. s \in [1..n -> Frames]
      BY <2>1, <2>2, <3>1
    <3> QED
      BY <3>2
  <2>4. Q = [P EXCEPT ![p].out = s]
    BY <1>2, <2>2
  <2> QED
    BY <2>3, <2>4 DEF Alike, Processes
<1> QED
  BY <1>1, <1>2 DEF Dropped

\* An exit: the child is dropped with all calls, or was another process.
LEMMA ExitHandled ==
  ASSUME WorkerTypeOK, OneServes, NEW P \in [Procs -> Processes], NEW p \in 0..MaxProcs,
         \A q \in Procs : P[q].state = "up" => procs[q].state = "up" /\ q # p,
         HandleExit(P, p)
  PROVE  /\ procs' \in [Procs -> Processes]
         /\ \A q \in Procs : procs'[q].state = "up" => procs[q].state = "up" /\ q # p
         /\ restarts' \in 0..MaxRestarts
         /\ \/ /\ child = p /\ child # 0
               /\ child' = 0 /\ ready' = FALSE /\ calls' = [j \in Ids |-> NoCall]
            \/ (child # p \/ child = 0) /\ UNCHANGED <<child, ready, calls>>
<1>1. CASE IsChild(p)
  <2>1. p \in Procs
    BY <1>1 DEF IsChild, WorkerTypeOK, Procs
  <2>2. procs' \in Dropped(P, p)
    BY <1>1 DEF HandleExit
  <2>3. Alike(procs', P)
    <3>1. PICK Q \in Dropped(P, p) : Q = procs'
      BY <2>2
    <3>2. Alike(Q, P)
      BY <2>1, DroppedPipes
    <3> QED
      BY <3>1, <3>2
  <2>4. restarts' \in 0..MaxRestarts
    <3>1. restarts \in 0..MaxRestarts /\ MaxRestarts \in Nat
      BY WorkerAssumption DEF WorkerTypeOK
    <3> QED
      BY <1>1, <3>1 DEF HandleExit
  <2>5. child' = 0 /\ ready' = FALSE /\ calls' = [j \in Ids |-> NoCall]
    BY <1>1 DEF HandleExit, RejectAll
  <2> QED
    BY <1>1, <2>3, <2>4, <2>5 DEF Alike, IsChild
<1>2. CASE ~IsChild(p)
  BY <1>2 DEF HandleExit, IsChild, WorkerTypeOK
<1> QED
  BY <1>1, <1>2

LEMMA TypedChild ==
  ASSUME MaxProcs \in Nat, procs' \in [Procs -> Processes], child' = 0, ready' = FALSE,
         launching' \in 0..MaxProcs, restarts' \in 0..MaxRestarts,
         calls' \in [Ids -> [active : BOOLEAN, to : 0..MaxProcs]],
         host' \in [state : {"up", "stopped", "dead"}, calls : Nat]
  PROVE  WorkerTypeOK'
<1>1. child' \in 0..MaxProcs
  OBVIOUS
<1>2. ready' \in BOOLEAN
  OBVIOUS
<1> QED
  BY <1>1, <1>2 DEF WorkerTypeOK

LEMMA NoCalls ==
  ASSUME MaxProcs \in Nat
  PROVE  LET C == [j \in Ids |-> NoCall]
         IN  C \in [Ids -> [active : BOOLEAN, to : 0..MaxProcs]] /\ \A j \in Ids : C[j].to = 0
BY DEF NoCall

LEMMA Rejected ==
  ASSUME MaxProcs \in Nat, calls \in [Ids -> [active : BOOLEAN, to : 0..MaxProcs]]
  PROVE  /\ Unstarted(calls) \in [Ids -> [active : BOOLEAN, to : 0..MaxProcs]]
         /\ \A j \in Ids : Unstarted(calls)[j].to # 0 => calls[j].to # 0
<1>1. NoCall \in [active : BOOLEAN, to : 0..MaxProcs] /\ NoCall.to = 0
  BY DEF NoCall
<1> QED
  BY <1>1 DEF Unstarted

\* Whatever replaces the child: the process is told to end, and no start() waits.
LEMMA ChildReplaced ==
  ASSUME WorkerTypeOK, OneServes, NEW P, Alike(P, procs), child # 0 => HandleExit(Kill(P, child), child),
         child = 0 => procs' = P /\ RejectAll /\ UNCHANGED <<child, ready, restarts>>,
         launching' = 0, UNCHANGED host
  PROVE  WorkerInv'
<1>1. MaxProcs \in Nat /\ child \in 0..MaxProcs
  BY WorkerAssumption DEF WorkerTypeOK
<1>2. P \in [Procs -> Processes] /\ \A q \in Procs : P[q].state = "up" => procs[q].state = "up"
  BY DEF Alike
<1>3. CASE child # 0
  <2>1. /\ Kill(P, child) \in [Procs -> Processes]
        /\ \A q \in Procs : Kill(P, child)[q].state = "up" => procs[q].state = "up" /\ q # child
    BY <1>1, <1>2, KillEnds
  <2>2. PICK K : K = Kill(P, child)
    OBVIOUS
  <2>3. HandleExit(K, child)
    BY <1>3, <2>2
  <2>4. /\ procs' \in [Procs -> Processes]
        /\ \A q \in Procs : procs'[q].state = "up" => procs[q].state = "up" /\ q # child
        /\ restarts' \in 0..MaxRestarts
        /\ child' = 0 /\ ready' = FALSE /\ calls' = [j \in Ids |-> NoCall]
    BY <1>1, <1>3, <2>1, <2>2, <2>3, ExitHandled
  <2>5. \A q \in Procs : procs'[q].state # "up"
    BY <2>4 DEF OneServes, Serves
  <2>6. calls' \in [Ids -> [active : BOOLEAN, to : 0..MaxProcs]] /\ \A j \in Ids : calls'[j].to = 0
    BY <1>1, <2>4, NoCalls
  <2>7. launching' \in 0..MaxProcs /\ host' \in [state : {"up", "stopped", "dead"}, calls : Nat]
    BY <1>1 DEF WorkerTypeOK
  <2>9. WorkerTypeOK'
    BY <1>1, <2>4, <2>6, <2>7, TypedChild
  <2>8. OneServes'
    BY <2>4, <2>5, <2>6 DEF OneServes, Serves
  <2> QED
    BY <2>8, <2>9 DEF WorkerInv
<1>4. CASE child = 0
  <2>1. ready = FALSE /\ \A q \in Procs : P[q].state # "up"
    BY <1>2, <1>4 DEF OneServes, Serves, WorkerTypeOK, Procs
  <2>2. calls' = [j \in Ids |-> NoCall]
    BY <1>4 DEF RejectAll
  <2> QED
    BY <1>1, <1>2, <1>4, <2>1, <2>2, NoCalls DEF WorkerInv, WorkerTypeOK, OneServes, Serves
<1> QED
  BY <1>3, <1>4

\* A process is spawned only while none serves.
LEMMA Launches ==
  ASSUME WorkerTypeOK, OneServes, Launch, ~ready, launching = 0,
         calls' \in [Ids -> [active : BOOLEAN, to : 0..MaxProcs]],
         \A j \in Ids : calls'[j].to = calls[j].to,
         host' \in [state : {"up", "stopped", "dead"}, calls : Nat], UNCHANGED <<ready, restarts>>
  PROVE  WorkerInv'
<1>1. MaxProcs \in Nat /\ Unspawned \in SUBSET Nat /\ Unspawned # {} /\ Unspawned \subseteq Procs
  BY WorkerAssumption DEF Unspawned, Procs, Launch
<1>2. PICK p : p = CHOOSE q \in Unspawned : \A r \in Unspawned : q <= r
  OBVIOUS
<1>3. p \in Procs /\ p # 0
  <2>1. \E q \in Unspawned : \A r \in Unspawned : q <= r
    BY <1>1, Smallest
  <2>2. p \in Unspawned
    BY <1>2, <2>1
  <2> QED
    BY <1>1, <2>2 DEF Procs
<1>4. procs' = Spawned(procs, p) /\ child' = p /\ launching' = p
  BY <1>2 DEF Launch
<1>5. \A q \in Procs : procs[q].state # "up"
  BY <1>1 DEF OneServes, Serves, Procs
<1>6. procs' \in [Procs -> Processes] /\ \A q \in Procs : procs'[q].state = "up" => q = p
  <2>1. PICK hello \in Seq(Commands) : hello = <<Plain("hello")>>
    <3>1. PICK m \in Commands : m = Plain("hello")
      BY Messages DEF CommandTypes
    <3>2. <<m>> \in Seq(Commands)
      OBVIOUS
    <3> QED
      BY <3>1, <3>2
  <2>2. [procs[p] EXCEPT !.state = "up", !.in = <<Plain("hello")>>] \in Processes
    <3>1. procs[p] \in Processes
      BY <1>3 DEF WorkerTypeOK
    <3>2. [procs[p] EXCEPT !.state = "up", !.in = hello] \in Processes
      BY <3>1 DEF Processes, ProcStates
    <3> QED
      BY <2>1, <3>2
  <2>3. procs' = [procs EXCEPT ![p] = [procs[p] EXCEPT !.state = "up", !.in = <<Plain("hello")>>]]
    BY <1>3, <1>4 DEF Spawned, WorkerTypeOK
  <2> QED
    BY <1>3, <1>5, <2>2, <2>3 DEF WorkerTypeOK
<1>7. child' \in 0..MaxProcs /\ launching' \in 0..MaxProcs
  BY <1>1, <1>3, <1>4 DEF Procs
<1> QED
  BY <1>3, <1>4, <1>6, <1>7 DEF WorkerInv, WorkerTypeOK, OneServes, Serves

\* Pipes and threads alone.
LEMMA PipesMove ==
  ASSUME WorkerInv, Alike(procs', procs), UNCHANGED <<child, ready, launching, restarts>>,
         calls' \in [Ids -> [active : BOOLEAN, to : 0..MaxProcs]],
         \A j \in Ids : calls'[j].to # 0 => calls[j].to # 0 \/ ready,
         host' \in [state : {"up", "stopped", "dead"}, calls : Nat], Up' => Up
  PROVE  WorkerInv'
BY DEF WorkerInv, WorkerTypeOK, OneServes, Serves, Alike

LEMMA NextWorkerInv == WorkerInv /\ [SupervisorNext]_supervisorVars => WorkerInv'
<1> SUFFICES ASSUME WorkerInv, [SupervisorNext]_supervisorVars PROVE WorkerInv'
  OBVIOUS
<1>1. /\ WorkerTypeOK /\ MaxProcs \in Nat
      /\ procs \in [Procs -> Processes] /\ child \in 0..MaxProcs /\ launching \in 0..MaxProcs
      /\ calls \in [Ids -> [active : BOOLEAN, to : 0..MaxProcs]]
      /\ host \in [state : {"up", "stopped", "dead"}, calls : Nat]
  BY WorkerAssumption DEF WorkerInv, WorkerTypeOK
<1>2. CASE UNCHANGED supervisorVars
  BY <1>2 DEF supervisorVars, WorkerInv, WorkerTypeOK, OneServes, Serves, Up
<1>3. CASE SupervisorNext
  <2>1. Up /\ OneServes
    BY <1>3 DEF SupervisorNext, WorkerInv
  <2>2. Alike(procs, procs)
    BY <1>1 DEF Alike
  <2>3. ASSUME NEW j \in Ids, RunJob(j) PROVE WorkerInv'
    <3>1. host' \in [state : {"up", "stopped", "dead"}, calls : Nat] /\ host'.state = host.state
      BY <1>1, <2>3 DEF RunJob
    <3>2. UNCHANGED <<ready, restarts>>
      BY <2>3 DEF RunJob
    <3>3. CASE ready /\ calls' = [calls EXCEPT ![j] = [active |-> TRUE, to |-> child]]
               /\ procs' = Sent(procs, child, Msg("start", j)) /\ UNCHANGED <<child, launching>>
      <4>1. child \in Procs
        BY <1>1, <2>1, <3>3 DEF OneServes, Procs
      <4>2. PICK s : s = Append(procs[child].in, Msg("start", j))
        OBVIOUS
      <4>3. s \in Seq(Commands)
        BY <1>1, <4>1, <4>2, Messages DEF Processes, CommandTypes
      <4>4. procs' = [procs EXCEPT ![child].in = s]
        BY <3>3, <4>2 DEF Sent
      <4>5. Alike(procs', procs)
        BY <1>1, <4>3, <4>4, PipesAndThreads
      <4>6. calls' \in [Ids -> [active : BOOLEAN, to : 0..MaxProcs]]
        BY <1>1, <3>3
      <4> QED
        BY <3>1, <3>2, <3>3, <4>5, <4>6, PipesMove DEF Up
    <3>4. CASE UNCHANGED <<procs, child, launching, calls>>
      BY <1>1, <2>2, <3>1, <3>2, <3>4, PipesMove DEF Up
    <3>5. CASE calls' = [calls EXCEPT ![j].active = TRUE] /\ UNCHANGED <<procs, child, launching>>
      <4>1. calls' \in [Ids -> [active : BOOLEAN, to : 0..MaxProcs]]
              /\ \A i \in Ids : calls'[i].to = calls[i].to
        BY <1>1, <3>5
      <4> QED
        BY <2>2, <3>1, <3>2, <3>5, <4>1, PipesMove DEF Up
    <3>6. CASE ~ready /\ launching = 0 /\ calls' = [calls EXCEPT ![j].active = TRUE] /\ Launch
      <4>1. calls' \in [Ids -> [active : BOOLEAN, to : 0..MaxProcs]]
              /\ \A i \in Ids : calls'[i].to = calls[i].to
        BY <1>1, <3>6
      <4> QED
        BY <1>1, <2>1, <3>1, <3>2, <3>6, <4>1, Launches
    <3> QED
      BY <2>3, <3>3, <3>4, <3>5, <3>6 DEF RunJob
  <2>4. ASSUME NEW j \in Ids, JobTimeout(j) PROVE WorkerInv'
    <3>1. ready /\ child # 0 /\ launching = 0
      BY <2>1, <2>4 DEF JobTimeout, OneServes
    <3> QED
      BY <1>1, <2>1, <2>2, <2>4, <3>1, ChildReplaced DEF JobTimeout, ForceRestart
  <2>5. CASE HeartbeatTimeout
    <3>1. ready /\ child # 0 /\ launching = 0
      BY <2>1, <2>5 DEF HeartbeatTimeout, OneServes
    <3> QED
      BY <1>1, <2>1, <2>2, <2>5, <3>1, ChildReplaced DEF HeartbeatTimeout, ForceRestart
  <2>6. ASSUME NEW j \in Ids, CancelCall(j) PROVE WorkerInv'
    <3>1. UNCHANGED <<child, ready, launching, calls, restarts>>
            /\ host' \in [state : {"up", "stopped", "dead"}, calls : Nat]
      BY <1>1, <2>6 DEF CancelCall
    <3>2. Alike(procs', procs)
      <4>1. CASE procs' = procs
        BY <2>2, <4>1 DEF Alike
      <4>2. CASE Lives(child) /\ procs' = Sent(procs, child, Msg("cancel", j))
        <5>1. child \in Procs
          BY <1>1, <4>2 DEF Lives, Procs
        <5>2. PICK s : s = Append(procs[child].in, Msg("cancel", j))
          OBVIOUS
        <5>3. s \in Seq(Commands)
          BY <1>1, <5>1, <5>2, Messages DEF Processes, CommandTypes
        <5>4. procs' = [procs EXCEPT ![child].in = s]
          BY <4>2, <5>2 DEF Sent
        <5> QED
          BY <1>1, <5>3, <5>4, PipesAndThreads
      <4> QED
        BY <2>6, <4>1, <4>2 DEF CancelCall
    <3> QED
      BY <1>1, <2>1, <3>1, <3>2, PipesMove
  <2>7. ASSUME NEW j \in Ids, CancelExpires(j) PROVE WorkerInv'
    <3>1. host' \in [state : {"up", "stopped", "dead"}, calls : Nat] /\ host'.state = "dead"
            /\ UNCHANGED launching /\ HandleExit(Kill(procs, child), child)
      BY <1>1, <2>7 DEF CancelExpires, ForceRestart
    <3>2. /\ Kill(procs, child) \in [Procs -> Processes]
          /\ \A q \in Procs : Kill(procs, child)[q].state = "up" => procs[q].state = "up" /\ q # child
      BY <1>1, KillEnds
    <3>3. PICK K : K = Kill(procs, child)
      OBVIOUS
    <3>4. /\ procs' \in [Procs -> Processes] /\ restarts' \in 0..MaxRestarts
          /\ \/ child' = 0 /\ ready' = FALSE /\ calls' = [i \in Ids |-> NoCall]
             \/ UNCHANGED <<child, ready, calls>>
      BY <1>1, <2>1, <3>1, <3>2, <3>3, ExitHandled
    <3>5. launching' \in 0..MaxProcs
      BY <1>1, <3>1
    <3>6. WorkerTypeOK'
      <4>1. CASE child' = 0 /\ ready' = FALSE /\ calls' = [i \in Ids |-> NoCall]
        <5>1. calls' \in [Ids -> [active : BOOLEAN, to : 0..MaxProcs]]
          BY <1>1, <4>1, NoCalls
        <5> QED
          BY <1>1, <3>1, <3>4, <3>5, <4>1, <5>1, TypedChild
      <4>2. CASE UNCHANGED <<child, ready, calls>>
        BY <1>1, <3>1, <3>4, <3>5, <4>2 DEF WorkerTypeOK
      <4> QED
        BY <3>4, <4>1, <4>2
    <3> QED
      BY <3>1, <3>6 DEF WorkerInv, Up
  <2>8. ASSUME NEW p \in Procs, Read(p) PROVE WorkerInv'
    <3>1. PICK m : m = Head(procs[p].out)
      OBVIOUS
    <3>2. PICK tail : tail = Tail(procs[p].out)
      OBVIOUS
    <3>3. procs[p].out \in Seq(Frames) /\ procs[p].out # <<>> /\ p \in 0..MaxProcs
      BY <1>1, <2>8 DEF Read, Processes, Procs
    <3>4. m \in Frames /\ tail \in Seq(Frames)
      BY <3>1, <3>2, <3>3
    <3>5. PICK P : P = [procs EXCEPT ![p].out = tail]
      OBVIOUS
    <3>6. Alike(P, procs)
      BY <1>1, <3>3, <3>4, <3>5, PipesAndThreads
    <3>7. /\ UNCHANGED host
          /\ \/ /\ calls' = [calls EXCEPT ![m.job] = NoCall]
                /\ procs' = P /\ UNCHANGED <<child, ready, launching, restarts>>
             \/ /\ launching = p /\ ready' = TRUE /\ launching' = 0
                /\ calls' = [j \in Ids |->
                               [calls[j] EXCEPT !.to = IF calls[j].active THEN p ELSE 0]]
                /\ \E order \in SetToSeqs(Active) :
                     procs' = [P EXCEPT ![p].in = @ \o
                                 [i \in DOMAIN order |-> Msg("start", order[i])]]
                /\ UNCHANGED <<child, restarts>>
             \/ procs' = P /\ UNCHANGED <<child, ready, launching, calls, restarts>>
             \/ ProtocolFailure(p)
      BY <2>8, <3>1, <3>2, <3>5 DEF Read
    <3>8. CASE /\ calls' = [calls EXCEPT ![m.job] = NoCall]
               /\ procs' = P /\ UNCHANGED <<child, ready, launching, restarts>>
      <4>1. calls' \in [Ids -> [active : BOOLEAN, to : 0..MaxProcs]]
              /\ \A j \in Ids : calls'[j].to # 0 => calls[j].to # 0
        <5>1. NoCall \in [active : BOOLEAN, to : 0..MaxProcs] /\ NoCall.to = 0
          BY <1>1 DEF NoCall
        <5> QED
          BY <1>1, <3>8, <5>1
      <4> QED
        BY <1>1, <2>1, <3>6, <3>7, <3>8, <4>1, PipesMove DEF Up
    <3>9. CASE /\ launching = p /\ ready' = TRUE /\ launching' = 0
               /\ calls' = [j \in Ids |->
                              [calls[j] EXCEPT !.to = IF calls[j].active THEN p ELSE 0]]
               /\ \E order \in SetToSeqs(Active) :
                    procs' = [P EXCEPT ![p].in = @ \o
                                [i \in DOMAIN order |-> Msg("start", order[i])]]
               /\ UNCHANGED <<child, restarts>>
      <4>1. PICK order \in SetToSeqs(Active) :
              procs' = [P EXCEPT ![p].in = @ \o [i \in DOMAIN order |-> Msg("start", order[i])]]
        BY <3>9
      <4>2. PICK starts1 : starts1 = [i \in DOMAIN order |-> Msg("start", order[i])]
        OBVIOUS
      <4>3. starts1 \in Seq(Commands)
        <5>1. IsFiniteSet(Active) /\ Active \subseteq Ids
          BY WorkerAssumption, FS_Subset DEF Active
        <5>2. PICK n \in Nat : n = Cardinality(Active)
          BY <5>1, FS_CardinalityType
        <5>3. order \in [1..n -> Active]
          BY <5>2 DEF SetToSeqs
        <5>4. \A i \in 1..n : Msg("start", order[i]) \in Commands
          BY <5>1, <5>3, Messages DEF CommandTypes
        <5>5. starts1 \in [1..n -> Commands]
          BY <4>2, <5>3, <5>4
        <5> QED
          BY <5>5
      <4>4. P[p].in \in Seq(Commands) /\ P \in [Procs -> Processes]
        BY <3>6 DEF Alike, Processes
      <4>5. PICK s : s = P[p].in \o starts1
        OBVIOUS
      <4>6. s \in Seq(Commands)
        BY <4>3, <4>4, <4>5
      <4>7. procs' = [P EXCEPT ![p].in = s]
        BY <4>1, <4>2, <4>5
      <4>8. Alike(procs', procs)
        <5>1. PICK Q : Q = [P EXCEPT ![p].in = s]
          OBVIOUS
        <5>2. Alike(Q, P)
          BY <1>1, <3>3, <4>4, <4>6, <5>1, PipesAndThreads
        <5>3. Alike(Q, procs)
          BY <3>6, <5>2, AlikeSteps
        <5> QED
          BY <4>7, <5>1, <5>3
      <4>9. calls' \in [Ids -> [active : BOOLEAN, to : 0..MaxProcs]]
        BY <1>1, <3>3, <3>9
      <4>10. child = p /\ p # 0
        BY <2>1, <3>9 DEF OneServes, Procs
      <4>11. WorkerTypeOK'
        <5>1. procs' \in [Procs -> Processes]
          BY <4>8 DEF Alike
        <5>2. child' \in 0..MaxProcs /\ launching' \in 0..MaxProcs /\ ready' \in BOOLEAN
          <6>1. child' = child /\ launching' = 0 /\ ready' = TRUE
            BY ONLY <3>9
          <6>2. child \in 0..MaxProcs /\ 0 \in 0..MaxProcs
            BY <1>1 DEF WorkerTypeOK
          <6> QED
            BY <6>1, <6>2
        <5>3. restarts' \in 0..MaxRestarts /\ host' \in [state : {"up", "stopped", "dead"}, calls : Nat]
          BY <1>1, <3>7, <3>9 DEF WorkerTypeOK
        <5> QED
          BY <4>9, <5>1, <5>2, <5>3 DEF WorkerTypeOK
      <4>12. OneServes'
        BY <2>1, <3>9, <4>8, <4>10 DEF OneServes, Serves, Alike
      <4> QED
        BY <4>11, <4>12 DEF WorkerInv
    <3>10. CASE procs' = P /\ UNCHANGED <<child, ready, launching, calls, restarts>>
      BY <1>1, <2>1, <3>6, <3>7, <3>10, PipesMove DEF Up
    <3>11. CASE ProtocolFailure(p)
      <4>1. /\ child # 0 => HandleExit(Kill(P, child), child)
            /\ child = 0 => procs' = P /\ RejectAll /\ UNCHANGED <<child, ready, restarts>>
            /\ launching' = 0
        BY <3>2, <3>5, <3>11 DEF ProtocolFailure
      <4> QED
        BY <1>1, <2>1, <3>6, <3>7, <4>1, ChildReplaced
    <3> QED
      BY <3>7, <3>8, <3>9, <3>10, <3>11
  <2>9. ASSUME NEW p \in Procs, ExitEvent(p) PROVE WorkerInv'
    <3>1. PICK P : P = [procs EXCEPT ![p].state = "gone"]
      OBVIOUS
    <3>2. P \in [Procs -> Processes]
            /\ \A q \in Procs : P[q].state = IF q = p THEN "gone" ELSE procs[q].state
      <4>1. PICK R : R = [procs[p] EXCEPT !.state = "gone"]
        OBVIOUS
      <4>2. procs[p] \in Processes
        BY <1>1
      <4>3. R \in Processes /\ R.state = "gone"
        BY <4>1, <4>2 DEF Processes, ProcStates
      <4>4. P = [procs EXCEPT ![p] = R]
        BY <3>1, <4>1
      <4> QED
        BY <1>1, <4>3, <4>4
    <3>3. HandleExit(P, p) /\ UNCHANGED host /\ p \in 0..MaxProcs /\ p # 0
            /\ launching' = (IF launching = p THEN 0 ELSE launching)
      BY <2>9, <3>1 DEF ExitEvent, Procs
    <3>4. \A q \in Procs : P[q].state = "up" => procs[q].state = "up" /\ q # p
      BY <3>2
    <3>5. /\ procs' \in [Procs -> Processes]
          /\ \A q \in Procs : procs'[q].state = "up" => procs[q].state = "up" /\ q # p
          /\ restarts' \in 0..MaxRestarts
          /\ \/ /\ child = p
                /\ child' = 0 /\ ready' = FALSE /\ calls' = [j \in Ids |-> NoCall]
             \/ child # p /\ UNCHANGED <<child, ready, calls>>
      BY <1>1, <2>1, <3>2, <3>3, <3>4, ExitHandled
    <3>6. CASE child = p
      <4>1. child' = 0 /\ ready' = FALSE /\ calls' = [j \in Ids |-> NoCall] /\ launching' = 0
        BY <2>1, <3>3, <3>5, <3>6 DEF OneServes
      <4>2. \A q \in Procs : procs'[q].state # "up"
        BY <2>1, <3>5, <3>6 DEF OneServes, Serves
      <4>3. calls' \in [Ids -> [active : BOOLEAN, to : 0..MaxProcs]] /\ \A j \in Ids : calls'[j].to = 0
        BY <1>1, <4>1, NoCalls
      <4>4. WorkerTypeOK'
        <5>1. launching' \in 0..MaxProcs /\ host' \in [state : {"up", "stopped", "dead"}, calls : Nat]
          BY <1>1, <3>3, <4>1
        <5> QED
          BY <1>1, <3>5, <4>1, <4>3, <5>1, TypedChild
      <4>5. OneServes'
        BY <4>1, <4>2, <4>3 DEF OneServes, Serves
      <4> QED
        BY <4>4, <4>5 DEF WorkerInv
    <3>7. CASE child # p
      <4>1. UNCHANGED <<child, ready, calls, launching>>
        BY <2>1, <3>3, <3>5, <3>7 DEF OneServes
      <4>2. WorkerTypeOK'
        BY <1>1, <3>3, <3>5, <4>1 DEF WorkerTypeOK
      <4>3. OneServes'
        BY <2>1, <3>5, <4>1 DEF OneServes, Serves
      <4> QED
        BY <4>2, <4>3 DEF WorkerInv
    <3> QED
      BY <3>6, <3>7
  <2>10. ASSUME NEW p \in Procs, Handle(p) PROVE WorkerInv'
    <3>1. Alike(procs', procs)
      <4>1. procs[p] \in Processes /\ procs[p].in # <<>> /\ p \in 0..MaxProcs
        <5>1. procs[p] \in Processes
          BY <1>1
        <5>2. procs[p].in # <<>>
          BY <2>10 DEF Handle
        <5>3. p \in 0..MaxProcs
          BY WorkerAssumption DEF Procs
        <5> QED
          BY <5>1, <5>2, <5>3
      <4>2. PICK m \in Commands : m = Head(procs[p].in)
        BY <4>1 DEF Processes
      <4>3. PICK tail \in Seq(Commands) : tail = Tail(procs[p].in)
        <5>1. procs[p].in \in Seq(Commands)
          BY <4>1 DEF Processes
        <5>2. Tail(procs[p].in) \in Seq(Commands)
          BY <4>1, <5>1
        <5> QED
          BY <5>2
      <4>4. PICK P : P = [procs EXCEPT ![p].in = tail]
        OBVIOUS
      <4>5. Alike(P, procs) /\ P \in [Procs -> Processes]
        BY <1>1, <4>1, <4>4, PipesAndThreads DEF Alike
      <4>6. ASSUME NEW s \in Frames PROVE Alike(Answer(P, p, s), procs)
        <5>1. PICK out : out = Append(P[p].out, s)
          OBVIOUS
        <5>2. out \in Seq(Frames)
          BY <4>5, <5>1 DEF Processes
        <5>3. PICK Q : Q = [P EXCEPT ![p].out = out]
          OBVIOUS
        <5>4. Alike(Q, P)
          BY <1>1, <4>1, <4>5, <5>2, <5>3, PipesAndThreads
        <5> QED
          BY <4>5, <5>1, <5>3, <5>4, AlikeSteps DEF Answer
      <4>7. ASSUME NEW t \in {"runs", "told"}
            PROVE  Alike([P EXCEPT ![p].threads[m.job] = t], procs)
        <5>1. PICK threads : threads = [P[p].threads EXCEPT ![m.job] = t]
          OBVIOUS
        <5>2. threads \in [Ids -> Threads]
          BY <4>5, <5>1 DEF Processes, Threads
        <5>3. PICK Q : Q = [P EXCEPT ![p].threads = threads]
          OBVIOUS
        <5>4. Alike(Q, P)
          BY <1>1, <4>1, <4>5, <5>2, <5>3, PipesAndThreads
        <5> QED
          BY <4>5, <5>1, <5>3, <5>4, AlikeSteps
      <4>8. m.job \in Ids \cup {0}
        BY DEF Commands
      <4>9. CASE m.type = "hello"
        BY <2>10, <4>2, <4>3, <4>4, <4>6, <4>9, Messages DEF Handle, FrameTypes
      <4>10. CASE m.type = "start"
        BY <2>10, <4>2, <4>3, <4>4, <4>6, <4>7, <4>8, <4>10, Messages DEF Handle, FrameTypes
      <4>11. CASE m.type = "cancel"
        BY <2>10, <4>2, <4>3, <4>4, <4>5, <4>6, <4>7, <4>8, <4>11, Messages DEF Handle, FrameTypes
      <4> QED
        BY <4>9, <4>10, <4>11 DEF Commands, CommandTypes
    <3>2. UNCHANGED <<child, ready, launching, calls, restarts, host>>
      BY <2>10 DEF Handle
    <3> QED
      BY <1>1, <2>1, <3>1, <3>2, PipesMove DEF Up
  <2>11. ASSUME NEW p \in Procs, ProcessDies(p) \/ SpawnFails(p) PROVE WorkerInv'
    <3>1. /\ procs' \in [Procs -> Processes]
          /\ \A q \in Procs : procs'[q].state = "up" => procs[q].state = "up" /\ q # p
      <4>1. <<>> \in Seq(Commands) /\ [j \in Ids |-> "none"] \in [Ids -> Threads]
        BY DEF Threads
      <4>2. CASE ProcessDies(p)
        <5>1. PICK threads \in [Ids -> Threads] : threads = [j \in Ids |-> "none"]
          BY <4>1
        <5>2. PICK none \in Seq(Commands) : none = <<>>
          BY <4>1
        <5>3. procs' = [procs EXCEPT ![p].state = "dead", ![p].in = none, ![p].threads = threads]
          BY <4>2, <5>1, <5>2 DEF ProcessDies
        <5>4. PICK P \in Processes :
                P = [procs[p] EXCEPT !.state = "dead", !.in = none, !.threads = threads]
          BY <1>1 DEF Processes, ProcStates
        <5>5. procs' = [procs EXCEPT ![p] = P] /\ P.state = "dead"
          BY <1>1, <5>3, <5>4 DEF Processes
        <5> QED
          BY <1>1, <5>4, <5>5
      <4>3. CASE SpawnFails(p)
        <5>1. PICK none \in Seq(Commands) : none = <<>>
          BY <4>1
        <5>2. procs' = [procs EXCEPT ![p].state = "gone", ![p].in = none] /\ procs[p] \in Processes
          BY <1>1, <4>3, <5>1 DEF SpawnFails
        <5>3. PICK P \in Processes : P = [procs[p] EXCEPT !.state = "gone", !.in = none]
          BY <5>2 DEF Processes, ProcStates
        <5>4. P.state = "gone"
          BY <5>2, <5>3 DEF Processes
        <5>5. procs' = [procs EXCEPT ![p] = P]
          BY <5>2, <5>3
        <5> QED
          BY <1>1, <5>4, <5>5
      <4> QED
        BY <2>11, <4>2, <4>3
    <3>2. UNCHANGED <<child, ready, restarts, host>> /\ launching' \in {launching, 0}
            /\ (launching' = launching \/ launching = p)
            /\ (calls' = calls \/ calls' = Unstarted(calls))
      BY <2>11 DEF ProcessDies, SpawnFails
    <3>3. calls' \in [Ids -> [active : BOOLEAN, to : 0..MaxProcs]]
            /\ \A j \in Ids : calls'[j].to # 0 => calls[j].to # 0
      BY <1>1, <3>2, Rejected
    <3>4. WorkerTypeOK'
      BY <1>1, <3>1, <3>2, <3>3 DEF WorkerTypeOK
    <3>5. OneServes'
      BY <2>1, <3>1, <3>2, <3>3 DEF OneServes, Serves
    <3> QED
      BY <3>4, <3>5 DEF WorkerInv
  <2>12. ASSUME NEW p \in Procs, NEW j \in Ids, ThreadEnds(p, j) PROVE WorkerInv'
    <3>1. Alike(procs', procs)
      <4>1. procs[p] \in Processes
        BY <1>1
      <4>2. CASE procs' = [procs EXCEPT ![p].threads[j] = "none"]
        BY <1>1, <4>1, <4>2 DEF Alike, Processes, Threads
      <4>3. CASE procs' = [procs EXCEPT
                    ![p].threads[j] = "done",
                    ![p].out = Append(@, Msg(IF procs[p].threads[j] = "told"
                                             THEN "cancelled" ELSE "result", j))]
        <5>1. PICK s \in Seq(Frames) :
                s = Append(procs[p].out, Msg(IF procs[p].threads[j] = "told"
                                             THEN "cancelled" ELSE "result", j))
          <6>1. Msg(IF procs[p].threads[j] = "told" THEN "cancelled" ELSE "result", j) \in Frames
            BY Messages DEF FrameTypes
          <6>2. procs[p].out \in Seq(Frames)
            BY <4>1 DEF Processes
          <6>3. Append(procs[p].out, Msg(IF procs[p].threads[j] = "told"
                                         THEN "cancelled" ELSE "result", j)) \in Seq(Frames)
            BY <6>1, <6>2
          <6> QED
            BY <6>3
        <5>2. procs' = [procs EXCEPT ![p].threads[j] = "done", ![p].out = s]
          BY <4>3, <5>1
        <5> QED
          BY <1>1, <4>1, <5>2 DEF Alike, Processes, Threads
      <4> QED
        BY <2>12, <4>2, <4>3 DEF ThreadEnds
    <3>2. UNCHANGED <<child, ready, launching, calls, restarts, host>>
      BY <2>12 DEF ThreadEnds
    <3> QED
      BY <1>1, <2>1, <3>1, <3>2, PipesMove DEF Up
  <2>13. CASE RestartTimer
    <3>1. CASE ready \/ launching # 0
      BY <1>1, <2>1, <2>2, <2>13, <3>1, PipesMove DEF RestartTimer, Up
    <3>2. CASE ~(ready \/ launching # 0)
      BY <1>1, <2>1, <2>13, <3>2, Launches DEF RestartTimer
    <3> QED
      BY <3>1, <3>2
  <2>14. CASE StartupTimeout
    <3>1. PICK l \in 0..MaxProcs : l = launching
      BY <1>1
    <3>7. PICK K : K = Kill(procs, l)
      OBVIOUS
    <3>2. procs' = K /\ launching' = 0 /\ calls' = Unstarted(calls) /\ launching # 0
            /\ UNCHANGED <<child, ready, restarts, host>>
      BY <2>14, <3>1, <3>7 DEF StartupTimeout
    <3>3. /\ K \in [Procs -> Processes]
          /\ \A q \in Procs : K[q].state = "up" => procs[q].state = "up" /\ q # launching
      <4>1. /\ Kill(procs, l) \in [Procs -> Processes]
            /\ \A q \in Procs : Kill(procs, l)[q].state = "up" => procs[q].state = "up" /\ q # l
        BY <1>1, KillEnds
      <4> QED
        BY <3>1, <3>7, <4>1
    <3>4. calls' \in [Ids -> [active : BOOLEAN, to : 0..MaxProcs]]
            /\ \A j \in Ids : calls'[j].to # 0 => calls[j].to # 0
      BY <1>1, <3>2, Rejected
    <3>5. WorkerTypeOK'
      BY <1>1, <3>2, <3>3, <3>4 DEF WorkerTypeOK
    <3>6. OneServes'
      BY <2>1, <3>2, <3>3, <3>4 DEF OneServes, Serves
    <3> QED
      BY <3>5, <3>6 DEF WorkerInv
  <2>15. CASE Stop
    <3>1. PICK K : K = Kill(procs, child)
      OBVIOUS
    <3>2. K \in [Procs -> Processes]
      BY <1>1, <3>1, KillEnds
    <3>3. procs' = K /\ child' = 0 /\ ready' = FALSE /\ UNCHANGED <<launching, calls, restarts>>
            /\ host' = [host EXCEPT !.state = "stopped"]
      BY <2>15, <3>1 DEF Stop
    <3>4. host' \in [state : {"up", "stopped", "dead"}, calls : Nat] /\ host'.state = "stopped"
      BY <1>1, <3>3
    <3>5. launching' \in 0..MaxProcs /\ restarts' \in 0..MaxRestarts
            /\ calls' \in [Ids -> [active : BOOLEAN, to : 0..MaxProcs]]
      BY <1>1, <3>3 DEF WorkerTypeOK
    <3>6. ready' = FALSE
      BY <2>15 DEF Stop
    <3>7. WorkerTypeOK'
      BY <1>1, <3>2, <3>3, <3>4, <3>5, <3>6, TypedChild
    <3> QED
      BY <3>4, <3>7 DEF WorkerInv, Up
  <2> QED
    BY <1>3, <2>3, <2>4, <2>5, <2>6, <2>7, <2>8, <2>9, <2>10, <2>11, <2>12, <2>13, <2>14, <2>15
       DEF SupervisorNext
<1> QED
  BY <1>2, <1>3

\* The variables of the supervisor keep to their types, and while the core is
\* up a start() that is under way is that of the child.
THEOREM SupervisorTypeCorrect == SupervisorSpec => []SupervisorTypeOK
<1>1. WorkerInv => SupervisorTypeOK
  BY DEF WorkerInv, WorkerTypeOK, OneServes, SupervisorTypeOK, Processes
<1> QED
  BY <1>1, InitWorkerInv, NextWorkerInv, PTL DEF SupervisorSpec

\* Kills, late exits, scheduled restarts and calls that start a worker on their
\* own, in whatever order: while the core is up no process runs on that is
\* neither the child nor told to end.
THEOREM OneWorkerServes == SupervisorSpec => []OneWorker
<1>1. WorkerInv => OneWorker
  BY DEF WorkerInv, OneServes, Serves, OneWorker, Up
<1> QED
  BY <1>1, InitWorkerInv, NextWorkerInv, PTL DEF SupervisorSpec
-----------------------------------------------------------------------------
(***************************************************************************)
(* The data directory at startup.  Data are never older than the newest,   *)
(* wherever they are; the native ones are whole, the core runs only when   *)
(* there are no others, and what is about to be installed is a whole copy  *)
(* of what the legacy location still has.                                  *)
(***************************************************************************)

Holdings == [kind : {"absent", "empty", "bare", "data"}, version : 0..MaxSaves, whole : BOOLEAN]

Steps == {"down", "refused", "running", "copying", "copied", "verified", "installing",
          "installed", "failed"}

DataAreNewest ==
    /\ isPopulated("native") => HasLatest("native") /\ place["native"].whole
    /\ isPopulated("legacy") => HasLatest("legacy")
    /\ latest > 0 => isPopulated("native") \/ isPopulated("legacy")
    /\ ~isPopulated("prior")

StepsInOrder ==
    /\ At("running") => isPopulated("native") /\ ~isPopulated("legacy")
    /\ At("refused") => isPopulated("native") /\ isPopulated("legacy")
    /\ starting \in {"copying", "copied", "verified", "installing"} =>
         isPopulated("legacy") /\ ~isPopulated("native")
    /\ starting \in {"copied", "verified", "installing"} => HasLatest("staging")
    /\ starting \in {"verified", "installing"} => place["staging"].whole
    /\ At("installing") => place["native"] = Absent
    /\ At("installed") => isPopulated("native") /\ isPopulated("legacy")

StartupInv ==
    /\ place \in [Locations -> Holdings] /\ latest \in 0..MaxSaves /\ starting \in Steps
    /\ DataAreNewest /\ StepsInOrder

LEMMA HoldingsKinds ==
  /\ Absent \in Holdings /\ Empty \in Holdings /\ Bare \in Holdings
  /\ \A v \in 0..MaxSaves : Data(v) \in Holdings
  /\ \A v : Data(v).kind = "data" /\ Data(v).version = v /\ Data(v).whole = TRUE
  /\ Absent.kind = "absent" /\ Empty.kind = "empty" /\ Bare.kind = "bare"
<1>1. 0 \in 0..MaxSaves
  BY StartupAssumption
<1> QED
  BY <1>1 DEF Absent, Empty, Bare, Data, Holdings

LEMMA InitStartupInv == StartupInit => StartupInv
<1> SUFFICES ASSUME StartupInit PROVE StartupInv
  OBVIOUS
<1>1. PICK native \in {Absent, Empty, Bare, Data(1)}, legacy \in {Absent, Bare, Data(1)},
           whole \in BOOLEAN :
        /\ native = Data(1) => legacy # Data(1)
        /\ place = [l \in Locations |-> CASE l = "native" -> native
                                          [] l = "legacy" -> [legacy EXCEPT !.whole = whole]
                                          [] OTHER        -> Absent]
        /\ latest = IF Data(1) \in {native, legacy} THEN 1 ELSE 0
  BY DEF StartupInit
<1>2. 1 \in 0..MaxSaves /\ 0 \in 0..MaxSaves
  BY StartupAssumption
<1>3. native \in Holdings /\ legacy \in Holdings
  BY <1>2, HoldingsKinds
<1>4. PICK moved \in Holdings : moved = [legacy EXCEPT !.whole = whole]
  BY <1>3 DEF Holdings
<1>5. moved.kind = legacy.kind /\ moved.version = legacy.version
  BY <1>3, <1>4 DEF Holdings
<1>6. /\ place["native"] = native /\ place["legacy"] = moved /\ place["prior"] = Absent
      /\ place["staging"] = Absent
  BY <1>1, <1>4 DEF Locations
<1>7. place \in [Locations -> Holdings]
  BY <1>1, <1>3, <1>4, HoldingsKinds
<1>8. latest \in 0..MaxSaves
  BY <1>1, <1>2
<1>9. native.kind = "data" => native = Data(1) /\ latest = 1
  BY <1>1, HoldingsKinds
<1>10. legacy.kind = "data" => legacy = Data(1) /\ latest = 1
  BY <1>1, HoldingsKinds
<1>11. latest > 0 => native = Data(1) \/ legacy = Data(1)
  BY <1>1
<1>12. DataAreNewest
  BY <1>5, <1>6, <1>9, <1>10, <1>11, HoldingsKinds DEF DataAreNewest, isPopulated, HasLatest
<1>13. starting = "down"
  BY DEF StartupInit
<1> QED
  BY <1>7, <1>8, <1>12, <1>13 DEF StartupInv, Steps, StepsInOrder, At

\* Where the data are after a failure; what is in prior had none.
LEMMA MovedHoldings ==
  ASSUME NEW P \in [Locations -> Holdings], NEW from \in Locations, NEW to \in Locations, from # to
  PROVE  /\ Moved(P, from, to) \in [Locations -> Holdings]
         /\ Moved(P, from, to)[to] = P[from] /\ Moved(P, from, to)[from] = Absent
         /\ \A l \in Locations \ {from, to} : Moved(P, from, to)[l] = P[l]
BY HoldingsKinds DEF Moved

LEMMA RestoredHoldings ==
  ASSUME NEW P \in [Locations -> Holdings], P["prior"].kind # "data"
  PROVE  /\ Restored(P) \in [Locations -> Holdings]
         /\ \/ Restored(P)["native"] = P["native"]
            \/ P["native"] = Absent /\ Restored(P)["native"].kind # "data"
         /\ Restored(P)["legacy"] = P["legacy"]
         /\ Restored(P)["prior"].kind # "data"
<1>1. PICK Q : Q = IF P["prior"] # Absent /\ P["native"] = Absent
                   THEN Moved(P, "prior", "native") ELSE P
  OBVIOUS
<1>2. /\ Q \in [Locations -> Holdings]
      /\ \/ Q["native"] = P["native"]
         \/ P["native"] = Absent /\ Q["native"].kind # "data"
      /\ Q["legacy"] = P["legacy"] /\ Q["prior"].kind # "data"
  <2>1. {"native", "legacy", "prior"} \subseteq Locations
    BY DEF Locations
  <2>2. CASE P["prior"] # Absent /\ P["native"] = Absent
    <3>1. /\ Moved(P, "prior", "native") \in [Locations -> Holdings]
          /\ Moved(P, "prior", "native")["native"] = P["prior"]
          /\ Moved(P, "prior", "native")["prior"] = Absent
          /\ Moved(P, "prior", "native")["legacy"] = P["legacy"]
      BY <2>1, MovedHoldings
    <3> QED
      BY <1>1, <2>2, <3>1, HoldingsKinds
  <2>3. CASE ~(P["prior"] # Absent /\ P["native"] = Absent)
    <3>1. Q = P
      BY <1>1, <2>3
    <3> QED
      BY <3>1
  <2> QED
    BY <2>2, <2>3
<1>3. Restored(P) = [Q EXCEPT !["staging"] = Absent]
  BY <1>1 DEF Restored, Quarantined
<1> QED
  BY <1>2, <1>3, HoldingsKinds DEF Locations

\* A start that fails before its last rename leaves the data where they were.
LEMMA FailsSafely ==
  ASSUME StartupInv, NEW P \in [Locations -> Holdings], Fails(P), UNCHANGED latest,
         P["prior"].kind # "data",
         P["native"].kind = "data" => P["native"].version = latest /\ P["native"].whole,
         P["legacy"] = place["legacy"], isPopulated("legacy")
  PROVE  StartupInv'
<1>1. /\ Restored(P) \in [Locations -> Holdings]
      /\ \/ Restored(P)["native"] = P["native"]
         \/ P["native"] = Absent /\ Restored(P)["native"].kind # "data"
      /\ Restored(P)["legacy"] = P["legacy"] /\ Restored(P)["prior"].kind # "data"
  BY RestoredHoldings
<1>2. place' = Restored(P) /\ starting' = "failed"
  BY DEF Fails
<1>3. DataAreNewest'
  BY <1>1, <1>2 DEF StartupInv, DataAreNewest, isPopulated, HasLatest
<1> QED
  BY <1>1, <1>2, <1>3 DEF StartupInv, Steps, StepsInOrder, At

LEMMA NextStartupInv == StartupInv /\ [StartupNext]_startupVars => StartupInv'
<1> SUFFICES ASSUME StartupInv, [StartupNext]_startupVars PROVE StartupInv'
  OBVIOUS
<1>1. /\ place \in [Locations -> Holdings] /\ latest \in 0..MaxSaves /\ starting \in Steps
      /\ DataAreNewest /\ StepsInOrder /\ MaxSaves \in Nat
  BY StartupAssumption DEF StartupInv
<1>2. Locations = {"native", "legacy", "staging", "prior", "backup"}
  BY DEF Locations
<1> USE DEF isPopulated, HasLatest, At
<1>3. CASE Begin
  <2>1. At("down") /\ UNCHANGED latest
    BY <1>3 DEF Begin
  <2>2. CASE starting' = "refused" /\ UNCHANGED place /\ isPopulated("native") /\ isPopulated("legacy")
    BY <1>1, <2>1, <2>2 DEF StartupInv, DataAreNewest, StepsInOrder, Steps
  <2>3. CASE ~isPopulated("legacy") /\ starting' = "running" /\ place' = Opened(place)
    <3>1. CASE isPopulated("native")
      <4>1. place' = place
        BY <1>1, <1>2, <2>3, <3>1 DEF Opened
      <4> QED
        BY <1>1, <2>1, <2>3, <3>1, <4>1 DEF StartupInv, DataAreNewest, StepsInOrder, Steps
    <3>2. CASE ~isPopulated("native")
      <4>1. latest = 0
        BY <1>1, <2>3, <3>2 DEF DataAreNewest
      <4>2. place' = [place EXCEPT !["native"] = Data(0)]
        BY <1>1, <1>2, <2>3, <3>2 DEF Opened
      <4>3. Data(0) \in Holdings
        BY <1>1, HoldingsKinds
      <4>4. /\ place' \in [Locations -> Holdings] /\ place'["native"] = Data(0)
            /\ place'["legacy"] = place["legacy"] /\ place'["prior"] = place["prior"]
        BY <1>1, <1>2, <4>2, <4>3
      <4>5. DataAreNewest'
        BY <1>1, <2>1, <2>3, <4>1, <4>4, HoldingsKinds DEF DataAreNewest
      <4>6. StepsInOrder'
        BY <2>3, <4>4, HoldingsKinds DEF StepsInOrder
      <4> QED
        BY <1>1, <2>1, <2>3, <4>4, <4>5, <4>6 DEF StartupInv, Steps
    <3> QED
      BY <3>1, <3>2
  <2>4. CASE /\ ~isPopulated("native") /\ isPopulated("legacy") /\ starting' = "copying"
             /\ place' = [place EXCEPT !["staging"] = Bare]
    <3>1. /\ place' \in [Locations -> Holdings] /\ place'["native"] = place["native"]
          /\ place'["legacy"] = place["legacy"] /\ place'["prior"] = place["prior"]
      BY <1>1, <1>2, <2>4, HoldingsKinds
    <3> QED
      BY <1>1, <2>1, <2>4, <3>1 DEF StartupInv, DataAreNewest, StepsInOrder, Steps
  <2> QED
    BY <1>3, <2>2, <2>3, <2>4 DEF Begin
<1>4. CASE Copy
  <2>1. PICK intact \in BOOLEAN :
          place' = [place EXCEPT !["staging"] =
                       [place["legacy"] EXCEPT !.whole = place["legacy"].whole /\ intact]]
    BY <1>4 DEF Copy
  <2>2. PICK copy : copy = [place["legacy"] EXCEPT !.whole = place["legacy"].whole /\ intact]
    OBVIOUS
  <2>3. place["legacy"] \in Holdings
    BY <1>1, <1>2
  <2>4. copy \in Holdings /\ copy.kind = place["legacy"].kind /\ copy.version = place["legacy"].version
    BY <2>2, <2>3 DEF Holdings
  <2>5. /\ place' \in [Locations -> Holdings] /\ place'["native"] = place["native"]
        /\ place'["legacy"] = place["legacy"] /\ place'["prior"] = place["prior"]
        /\ place'["staging"] = copy
    BY <1>1, <1>2, <2>1, <2>2, <2>4
  <2>6. At("copying") /\ starting' = "copied" /\ UNCHANGED latest
    BY <1>4 DEF Copy
  <2> QED
    BY <1>1, <2>4, <2>5, <2>6 DEF StartupInv, DataAreNewest, StepsInOrder, Steps
<1>5. CASE Verify
  <2>1. CASE Verified
    BY <1>1, <1>5, <2>1 DEF Verify, Verified, StartupInv, DataAreNewest, StepsInOrder, Steps
  <2>2. CASE ~Verified
    <3>1. Fails(place) /\ UNCHANGED latest /\ At("copied")
      BY <1>5, <2>2 DEF Verify
    <3> QED
      BY <1>1, <3>1, FailsSafely DEF DataAreNewest, StepsInOrder
  <2> QED
    BY <2>1, <2>2
<1>6. CASE SetAside
  <2>1. At("verified") /\ starting' = "installing" /\ UNCHANGED latest
    BY <1>6 DEF SetAside
  <2>2. /\ place' \in [Locations -> Holdings] /\ place'["native"] = Absent
        /\ place'["legacy"] = place["legacy"] /\ place'["staging"] = place["staging"]
        /\ place'["prior"] = place["prior"] \/ place'["prior"].kind = "bare"
    <3>1. CASE place["native"].kind = "bare"
      <4>1. place' = Moved(place, "native", "prior")
        BY <1>6, <3>1 DEF SetAside
      <4> QED
        BY <1>1, <1>2, <3>1, <4>1, MovedHoldings
    <3>2. CASE place["native"].kind # "bare"
      <4>1. place' = [place EXCEPT !["native"] = Absent]
        BY <1>6, <3>2 DEF SetAside
      <4> QED
        BY <1>1, <1>2, <4>1, HoldingsKinds
    <3> QED
      BY <3>1, <3>2
  <2> QED
    BY <1>1, <2>1, <2>2, HoldingsKinds DEF StartupInv, DataAreNewest, StepsInOrder, Steps
<1>7. CASE Install
  <2>1. At("installing") /\ UNCHANGED latest
    BY <1>7 DEF Install
  <2>2. CASE starting' = "installed" /\ place' = Moved(place, "staging", "native")
    <3>1. /\ place' \in [Locations -> Holdings] /\ place'["native"] = place["staging"]
          /\ place'["legacy"] = place["legacy"] /\ place'["prior"] = place["prior"]
      BY <1>1, <1>2, <2>2, MovedHoldings
    <3> QED
      BY <1>1, <2>1, <2>2, <3>1 DEF StartupInv, DataAreNewest, StepsInOrder, Steps
  <2>3. CASE Fails(place)
    BY <1>1, <2>1, <2>3, FailsSafely DEF DataAreNewest, StepsInOrder
  <2> QED
    BY <1>7, <2>2, <2>3 DEF Install
<1>8. CASE Retire
  <2>1. At("installed") /\ UNCHANGED latest
    BY <1>8 DEF Retire
  <2>2. CASE starting' = "running" /\ place' = Moved(place, "legacy", "backup")
    <3>1. /\ place' \in [Locations -> Holdings] /\ place'["native"] = place["native"]
          /\ place'["legacy"] = Absent /\ place'["prior"] = place["prior"]
      BY <1>1, <1>2, <2>2, MovedHoldings
    <3> QED
      BY <1>1, <2>1, <2>2, <3>1, HoldingsKinds DEF StartupInv, DataAreNewest, StepsInOrder, Steps
  <2>3. CASE Fails(TakenBack(place))
    <3>1. PICK undone : undone = Moved(place, "native", "staging")
      OBVIOUS
    <3>2. /\ undone \in [Locations -> Holdings] /\ undone["native"] = Absent
          /\ undone["legacy"] = place["legacy"] /\ undone["prior"] = place["prior"]
      BY <1>1, <1>2, <3>1, MovedHoldings
    <3>3. PICK P : P = TakenBack(place)
      OBVIOUS
    <3>4. /\ P \in [Locations -> Holdings] /\ P["native"].kind # "data"
          /\ P["legacy"] = place["legacy"] /\ P["prior"].kind # "data"
      <4>1. CASE place["prior"] # Absent
        <5>1. P = Moved(undone, "prior", "native")
          BY <3>1, <3>3, <4>1 DEF TakenBack
        <5> QED
          BY <1>1, <1>2, <3>2, <5>1, MovedHoldings, HoldingsKinds DEF DataAreNewest
      <4>2. CASE place["prior"] = Absent
        <5>1. P = undone
          BY <3>1, <3>3, <4>2 DEF TakenBack
        <5> QED
          BY <3>2, <4>2, <5>1, HoldingsKinds
      <4> QED
        BY <4>1, <4>2
    <3> QED
      BY <1>1, <2>1, <2>3, <3>3, <3>4, FailsSafely DEF StepsInOrder
  <2>4. CASE Fails(place)
    BY <1>1, <2>1, <2>4, FailsSafely DEF DataAreNewest, StepsInOrder
  <2> QED
    BY <1>8, <2>2, <2>3, <2>4 DEF Retire
<1>9. CASE Save
  <2>1. /\ At("running") /\ latest' = latest + 1 /\ latest' \in 0..MaxSaves /\ UNCHANGED starting
        /\ place' = [place EXCEPT !["native"] = Data(latest')]
    BY <1>1, <1>9 DEF Save
  <2>2. PICK saved \in Holdings : saved = Data(latest')
    BY <2>1, HoldingsKinds
  <2>3. /\ place' \in [Locations -> Holdings] /\ place'["native"] = saved
        /\ place'["legacy"] = place["legacy"] /\ place'["prior"] = place["prior"]
    BY <1>1, <1>2, <2>1, <2>2
  <2>4. saved.kind = "data" /\ saved.version = latest' /\ saved.whole
    BY <2>2, HoldingsKinds
  <2> QED
    BY <1>1, <2>1, <2>3, <2>4 DEF StartupInv, DataAreNewest, StepsInOrder, Steps
<1>10. CASE End
  <2>1. /\ starting' = "down" /\ UNCHANGED latest
        /\ place' = [place EXCEPT !["staging"] = Absent, !["prior"] = Absent]
    BY <1>10 DEF End
  <2>2. /\ place' \in [Locations -> Holdings] /\ place'["native"] = place["native"]
        /\ place'["legacy"] = place["legacy"] /\ place'["prior"] = Absent
    BY <1>1, <1>2, <2>1, HoldingsKinds
  <2> QED
    BY <1>1, <2>1, <2>2, HoldingsKinds DEF StartupInv, DataAreNewest, StepsInOrder, Steps
<1>11. ASSUME NEW l \in {"native", "legacy"}, MoveAside(l) PROVE StartupInv'
  <2>1. /\ At("refused") /\ starting' = "down" /\ UNCHANGED latest
        /\ place' = [place EXCEPT ![l] = Absent]
    BY <1>11 DEF MoveAside
  <2>2. /\ place' \in [Locations -> Holdings] /\ place'[l] = Absent
        /\ \A k \in Locations \ {l} : place'[k] = place[k]
    BY <1>1, <1>2, <2>1, HoldingsKinds
  <2> QED
    BY <1>1, <1>2, <2>1, <2>2, HoldingsKinds DEF StartupInv, DataAreNewest, StepsInOrder, Steps
<1>12. CASE UNCHANGED startupVars
  BY <1>1, <1>12 DEF startupVars, StartupInv, DataAreNewest, StepsInOrder
<1> QED
  BY <1>3, <1>4, <1>5, <1>6, <1>7, <1>8, <1>9, <1>10, <1>11, <1>12 DEF StartupNext

\* However often a migration of the data directory fails or dies half way, the
\* core runs on whole and newest data, the next start finds them, and where it
\* refuses to choose either choice is right.
THEOREM StartsKeepData == StartupSpec => []StartupKeepsData
<1>1. StartupInv => StartupKeepsData
  BY DEF StartupInv, DataAreNewest, StepsInOrder, StartupKeepsData, isPopulated, HasLatest, At
<1> QED
  BY <1>1, InitStartupInv, NextStartupInv, PTL DEF StartupSpec
-----------------------------------------------------------------------------
(***************************************************************************)
(* The Short workflow.  A live attempt is the last one, and the row, or    *)
(* the row about to be written, accounts for it: it waits for it, or has   *)
(* been checked for its revision, or is settled in a way from which the    *)
(* attempt is found again before another begins.  Below, A, R and F are    *)
(* the analysis jobs, the attempts and their files, and e says whether an  *)
(* export was asked for.                                                   *)
(***************************************************************************)

Rows == [state : Stages \cup FinalStates, failedAt : Stages \cup {"none"}, retryable : BOOLEAN,
         reached : Reached, job : Nat, preflight : Nat, render : Nat]

Attempts == [state : JobStates, revision : Nat, lineage : Nat, output : BOOLEAN]

Phases == {"idle", "sync", "write", "import", "preflight", "lookup", "copy"}
Positions == [phase : Phases, current : BOOLEAN, todo : Rows]

WorkflowTypes ==
    /\ input \in [review : BOOLEAN, export : BOOLEAN]
    /\ wf \in Rows
    /\ at \in Positions
    /\ analyses \in Seq(JobStates)
    /\ renders \in Seq(Attempts)
    /\ files \in Seq({"none", "part", "whole"}) /\ Len(files) = Len(renders)
    /\ short \in [revision : Nat, approved : BOOLEAN]

FailedIn(row, stage) == row.state = "failed" /\ row.failedAt = stage

\* What a row says of its jobs, and of the export.
RowNames(row, e, A, R, F) ==
    /\ row.job <= Len(A) /\ row.render <= Len(R)
    /\ row.state = "rendering" \/ FailedIn(row, "rendering") => row.render # 0
    /\ row.state = "cancelled" =>
         /\ row.job # 0 => A[row.job] \notin Pending
         /\ row.render # 0 => R[row.render].state \notin Pending
    /\ row.state \in {"exporting", "completed"} \/ FailedIn(row, "exporting") =>
         row.render # 0 /\ R[row.render].output
    /\ row.state = "completed" /\ e => F[row.render] = "whole"

AccountsFor(row, R, r) ==
    /\ row.state \in {"preflighting", "rendering", "failed", "cancelled"}
    /\ row.state = "preflighting" => row.preflight = R[r].revision
    /\ row.state = "rendering" => row.render = r
    /\ row.state = "failed" /\ row.retryable =>
         /\ row.failedAt = "rendering" /\ row.render < r
         /\ R[row.render].state \in {"failed", "cancelled"}
         /\ R[row.render].lineage = R[r].lineage

LiveIn(R) == {r \in 1..Len(R) : R[r].state \in Live}

RowIsTrue(row, e, A, R, F) == RowNames(row, e, A, R, F) /\ \A r \in LiveIn(R) : AccountsFor(row, R, r)

AttemptsInOrder(R, s) ==
    /\ \A r \in LiveIn(R) : r = Len(R)
    /\ \A r \in 1..Len(R) :
         /\ R[r].revision # 0 /\ R[r].revision <= s.revision
         /\ R[r].state = "succeeded" => R[r].output
         /\ R[r].output => R[r].state \in {"succeeded", "stale"}
    /\ \A q, r \in 1..Len(R) : q <= r => R[q].revision <= R[r].revision
    /\ s.approved => s.revision # 0

\* The row that advance() holds is the one that is stored, unless the workflow
\* was cancelled since.
AdvanceHolds ==
    /\ ~at.current => at.phase = "idle" \/ (at.phase # "sync" /\ wf.state = "cancelled")
    /\ at.current /\ at.phase = "import" => at.todo = wf /\ wf.state = "importing"
    /\ at.current /\ at.phase = "preflight" =>
         /\ wf.state = "preflighting" /\ wf.preflight = 0
         /\ at.todo = [wf EXCEPT !.preflight = at.todo.preflight]
    /\ at.current /\ at.phase \in {"lookup", "copy"} => at.todo = wf /\ wf.state = "exporting"
    /\ at.current /\ at.phase = "write" =>
         /\ RowIsTrue(at.todo, input.export, analyses, renders, files)
         /\ at.todo.state \in Stages \cup {"completed"}

WorkflowInv ==
    /\ WorkflowTypes
    /\ RowIsTrue(wf, input.export, analyses, renders, files)
    /\ AttemptsInOrder(renders, short)
    /\ AdvanceHolds

LEMMA InitWorkflowInv == WorkflowInit => WorkflowInv
<1> SUFFICES ASSUME WorkflowInit PROVE WorkflowInv
  OBVIOUS
<1>1. /\ NewRow \in Rows /\ NewRow.state = "importing" /\ NewRow.job = 0 /\ NewRow.render = 0
  BY DEF NewRow, Rows, Stages, Reached
<1>2. Idle \in Positions /\ Idle.current /\ Idle.phase = "idle"
  BY <1>1 DEF Idle, Positions, Phases
<1>3. <<>> \in Seq(JobStates) /\ <<>> \in Seq(Attempts) /\ <<>> \in Seq({"none", "part", "whole"})
  OBVIOUS
<1>4. <<"queued">> \in Seq(JobStates)
  BY DEF JobStates, Live, Pending
<1>5. analyses \in Seq(JobStates) /\ Len(analyses) \in Nat
  BY <1>3, <1>4 DEF WorkflowInit
<1>6. short \in [revision : Nat, approved : BOOLEAN] /\ ~short.approved
  BY DEF WorkflowInit
<1>7. WorkflowTypes
  BY <1>1, <1>2, <1>3, <1>5, <1>6 DEF WorkflowInit, WorkflowTypes
<1>8. Len(renders) = 0
  BY DEF WorkflowInit
<1>9. RowIsTrue(wf, input.export, analyses, renders, files)
  BY <1>1, <1>5, <1>8 DEF WorkflowInit, RowIsTrue, RowNames, LiveIn, FailedIn
<1>10. AttemptsInOrder(renders, short)
  BY <1>6, <1>8 DEF AttemptsInOrder, LiveIn
<1>11. AdvanceHolds
  BY <1>2 DEF WorkflowInit, AdvanceHolds
<1> QED
  BY <1>7, <1>9, <1>10, <1>11 DEF WorkflowInv

\* The attempt y is x, further on, or x itself.
Later(x, y) ==
    /\ y.revision = x.revision /\ y.lineage = x.lineage
    /\ x.state \notin Pending => y.state \notin Pending
    /\ x.output => y.output
    /\ x.state \in {"failed", "cancelled"} => y.state = x.state
    /\ y.state \in Live => x.state \in Live
    /\ y.state = "succeeded" => y.output
    /\ y.output => y.state \in {"succeeded", "stale"}

\* Jobs that run on, or are cancelled, leave a row true: only one that is
\* cancelled itself says of a job that it has been stopped.
LEMMA RowStaysTrue ==
  ASSUME NEW row \in Rows, NEW e \in BOOLEAN,
         NEW A \in Seq(JobStates), NEW B \in Seq(JobStates), Len(A) <= Len(B),
         \A j \in 1..Len(A) : A[j] \notin Pending => B[j] \notin Pending,
         NEW R \in Seq(Attempts), NEW Q \in Seq(Attempts), Len(R) = Len(Q),
         \A r \in 1..Len(R) : Later(R[r], Q[r]),
         NEW F, NEW G,
         row.state = "completed" => (F[row.render] = "whole" => G[row.render] = "whole"),
         RowIsTrue(row, e, A, R, F)
  PROVE  RowIsTrue(row, e, B, Q, G)
<1>1. row.job \in Nat /\ row.render \in Nat
  BY DEF Rows
<1>2. Len(A) \in Nat /\ Len(B) \in Nat /\ Len(R) \in Nat
  OBVIOUS
<1>3. row.render # 0 => row.render \in 1..Len(R)
  BY <1>1, <1>2 DEF RowIsTrue, RowNames
<1>4. row.job # 0 => row.job \in 1..Len(A)
  BY <1>1, <1>2 DEF RowIsTrue, RowNames
<1>5. RowNames(row, e, B, Q, G)
  BY <1>1, <1>2, <1>3, <1>4 DEF RowIsTrue, RowNames, Later
<1>6. ASSUME NEW r \in LiveIn(Q) PROVE AccountsFor(row, Q, r)
  <2>1. r \in 1..Len(R) /\ r \in LiveIn(R) /\ Q[r].revision = R[r].revision /\ Q[r].lineage = R[r].lineage
    BY <1>6 DEF LiveIn, Later
  <2>2. AccountsFor(row, R, r)
    BY <2>1 DEF RowIsTrue
  <2>3. row.state = "failed" /\ row.retryable => row.render # 0
    BY <2>2 DEF AccountsFor, RowIsTrue, RowNames, FailedIn
  <2> QED
    BY <1>3, <2>1, <2>2, <2>3 DEF AccountsFor, Later
<1> QED
  BY <1>5, <1>6 DEF RowIsTrue

LEMMA OrderStays ==
  ASSUME NEW R \in Seq(Attempts), NEW Q \in Seq(Attempts), Len(R) = Len(Q),
         \A r \in 1..Len(R) : Later(R[r], Q[r]),
         NEW s \in [revision : Nat, approved : BOOLEAN], NEW t \in [revision : Nat, approved : BOOLEAN],
         s.revision <= t.revision, t.approved => t.revision # 0,
         AttemptsInOrder(R, s)
  PROVE  AttemptsInOrder(Q, t)
<1>1. \A r \in LiveIn(Q) : r \in LiveIn(R) /\ r = Len(Q)
  BY DEF LiveIn, Later, AttemptsInOrder
<1>2. ASSUME NEW r \in 1..Len(Q)
      PROVE  /\ Q[r].revision # 0 /\ Q[r].revision <= t.revision
             /\ Q[r].state = "succeeded" => Q[r].output
             /\ Q[r].output => Q[r].state \in {"succeeded", "stale"}
  <2>1. r \in 1..Len(R) /\ R[r] \in Attempts
    BY <1>2
  <2>3. R[r].revision \in Nat
    BY <2>1 DEF Attempts
  <2>2. Later(R[r], Q[r]) /\ R[r].revision # 0 /\ R[r].revision <= s.revision
    BY <2>1 DEF AttemptsInOrder
  <2> QED
    BY <2>1, <2>2, <2>3 DEF Later
<1>3. \A q, r \in 1..Len(Q) : q <= r => Q[q].revision <= Q[r].revision
  BY DEF Later, AttemptsInOrder
<1> QED
  BY <1>1, <1>2, <1>3 DEF AttemptsInOrder

\* Another attempt, once none is live.
LEMMA OrderGrows ==
  ASSUME NEW R \in Seq(Attempts), NEW s \in [revision : Nat, approved : BOOLEAN],
         NEW a \in Attempts, a.state = "queued", a.revision = s.revision, ~a.output, s.approved,
         LiveIn(R) = {}, AttemptsInOrder(R, s)
  PROVE  /\ Append(R, a) \in Seq(Attempts) /\ Len(Append(R, a)) = Len(R) + 1
         /\ Append(R, a)[Len(R) + 1] = a /\ \A r \in 1..Len(R) : Append(R, a)[r] = R[r]
         /\ LiveIn(Append(R, a)) = {Len(R) + 1}
         /\ AttemptsInOrder(Append(R, a), s)
<1> DEFINE Q == Append(R, a)
<1>1. /\ Q \in Seq(Attempts) /\ Len(Q) = Len(R) + 1 /\ Q[Len(R) + 1] = a
      /\ \A r \in 1..Len(R) : Q[r] = R[r] /\ R[r] \in Attempts
  OBVIOUS
<1> HIDE DEF Q
<1>2. Len(R) \in Nat /\ s.revision \in Nat
  OBVIOUS
<1>3. \A r \in 1..Len(Q) : r \in 1..Len(R) \/ r = Len(R) + 1
  BY <1>1, <1>2
<1>4. Len(R) + 1 \in 1..Len(Q)
  BY <1>1, <1>2
<1>5. LiveIn(Q) = {Len(R) + 1}
  BY <1>1, <1>3, <1>4 DEF LiveIn, Live, Pending
<1>6. \A r \in 1..Len(Q) :
         /\ Q[r].revision # 0 /\ Q[r].revision <= s.revision
         /\ Q[r].state = "succeeded" => Q[r].output
         /\ Q[r].output => Q[r].state \in {"succeeded", "stale"}
  BY <1>1, <1>2, <1>3 DEF AttemptsInOrder
<1>7. ASSUME NEW q \in 1..Len(Q), NEW r \in 1..Len(Q), q <= r PROVE Q[q].revision <= Q[r].revision
  <2>1. CASE r = Len(R) + 1
    BY <1>1, <1>6, <2>1
  <2>2. CASE r # Len(R) + 1
    <3>1. q \in 1..Len(R) /\ r \in 1..Len(R)
      BY <1>1, <1>2, <1>7, <2>2
    <3> QED
      BY <1>1, <1>7, <3>1 DEF AttemptsInOrder
  <2> QED
    BY <2>1, <2>2
<1>8. AttemptsInOrder(Q, s)
  BY <1>1, <1>5, <1>6, <1>7 DEF AttemptsInOrder
<1> QED
  BY <1>1, <1>5, <1>8 DEF Q

\* Once none is live, a row has only its own jobs to name.
LEMMA NoneLive ==
  ASSUME NEW R, LiveIn(R) = {}, NEW row, NEW e, NEW A, NEW F
  PROVE  RowIsTrue(row, e, A, R, F) <=> RowNames(row, e, A, R, F)
BY DEF RowIsTrue

\* No attempt is live in the other states, nor when a retry would find none.
LEMMA StagesWithoutLive ==
  ASSUME NEW row, NEW e, NEW A, NEW R, NEW F, RowIsTrue(row, e, A, R, F),
         \/ row.state \notin {"preflighting", "rendering", "failed", "cancelled"}
         \/ row.state = "rendering" /\ R[row.render].state \notin Live
         \/ row.state = "failed" /\ row.retryable /\ row.failedAt # "rendering"
  PROVE  LiveIn(R) = {}
BY DEF RowIsTrue, AccountsFor, LiveIn

LEMMA FailedRowIsTrue ==
  ASSUME NEW row \in Rows, row.state \in Stages, NEW retryable \in BOOLEAN,
         NEW new \in Rows, new = [row EXCEPT !.state = "failed", !.failedAt = row.state, !.retryable = retryable],
         NEW e, NEW A, NEW R, NEW F, RowIsTrue(row, e, A, R, F), retryable => LiveIn(R) = {}
  PROVE  RowIsTrue(new, e, A, R, F)
<1>1. /\ new.state = "failed" /\ new.failedAt = row.state /\ new.retryable = retryable
      /\ new.job = row.job /\ new.render = row.render
  BY DEF Rows
<1>2. RowNames(new, e, A, R, F)
  BY <1>1 DEF RowIsTrue, RowNames, FailedIn
<1>3. \A r \in LiveIn(R) : AccountsFor(new, R, r)
  BY <1>1 DEF AccountsFor
<1> QED
  BY <1>2, <1>3 DEF RowIsTrue

\* advance() holds a row that it is about to write.
LEMMA WritesHolds ==
  ASSUME WorkflowInv, at.phase # "idle",
         NEW row \in Rows, Writes(row), wf' = wf, input' = input,
         at.current => /\ RowIsTrue(row, input.export, analyses', renders', files')
                       /\ row.state \in Stages \cup {"completed"}
  PROVE  at' \in Positions /\ AdvanceHolds'
<1>1. at \in Positions
  BY DEF WorkflowInv, WorkflowTypes
<1>2. /\ at' \in Positions /\ at'.phase = "write" /\ at'.todo = row /\ at'.current = at.current
  BY <1>1 DEF Writes, Positions, Phases
<1>3. ~at.current => wf.state = "cancelled"
  BY DEF WorkflowInv, AdvanceHolds
<1> QED
  BY <1>2, <1>3 DEF AdvanceHolds

LEMMA IdleHolds ==
  ASSUME at' = Idle
  PROVE  at' \in Positions /\ AdvanceHolds'
<1>1. NewRow \in Rows
  BY DEF NewRow, Rows, Stages, Reached
<1>2. Idle \in Positions /\ Idle.current /\ Idle.phase = "idle"
  BY <1>1 DEF Idle, Positions, Phases
<1> QED
  BY <1>2 DEF AdvanceHolds

\* What the catch leaves, over the same jobs.
LEMMA FailedHolds ==
  ASSUME WorkflowInv, NEW retryable \in BOOLEAN, FailedWith(retryable),
         retryable /\ WorkflowActive => LiveIn(renders) = {}
  PROVE  /\ at' \in Positions /\ AdvanceHolds' /\ wf' \in Rows
         /\ RowIsTrue(wf', input.export, analyses, renders, files)
         /\ wf'.state = "completed" => wf = wf'
<1>1. at' \in Positions /\ AdvanceHolds'
  BY IdleHolds DEF FailedWith
<1>2. wf \in Rows /\ RowIsTrue(wf, input.export, analyses, renders, files)
  BY DEF WorkflowInv, WorkflowTypes
<1>3. CASE WorkflowActive
  <2> DEFINE new == [wf EXCEPT !.state = "failed", !.failedAt = wf.state, !.retryable = retryable]
  <2>1. wf.state \in Stages
    BY <1>3 DEF WorkflowActive
  <2>2. new \in Rows /\ new.state = "failed"
    BY <1>2, <2>1 DEF Rows, FinalStates
  <2>3. wf' = new
    BY <1>3 DEF FailedWith
  <2> HIDE DEF new
  <2>4. RowIsTrue(new, input.export, analyses, renders, files)
    BY <1>2, <1>3, <2>1, <2>2, FailedRowIsTrue DEF new
  <2> QED
    BY <1>1, <2>2, <2>3, <2>4
<1>4. CASE ~WorkflowActive
  BY <1>1, <1>2, <1>4 DEF FailedWith
<1> QED
  BY <1>3, <1>4

\* A step that ends in the catch and changes no job.
LEMMA FailsSoundly ==
  ASSUME WorkflowInv, NEW retryable \in BOOLEAN, FailedWith(retryable),
         retryable /\ WorkflowActive => LiveIn(renders) = {},
         UNCHANGED <<input, dataVars>>
  PROVE  WorkflowInv'
<1>1. /\ at' \in Positions /\ AdvanceHolds' /\ wf' \in Rows
      /\ RowIsTrue(wf', input.export, analyses, renders, files)
  BY FailedHolds
<1>2. WorkflowTypes'
  BY <1>1 DEF WorkflowInv, WorkflowTypes, dataVars
<1> QED
  BY <1>1, <1>2 DEF WorkflowInv, dataVars

\* A step that prepares a row and changes no job.
LEMMA WritesSoundly ==
  ASSUME WorkflowInv, at.phase # "idle", NEW row \in Rows, Writes(row),
         at.current => /\ RowIsTrue(row, input.export, analyses, renders, files)
                       /\ row.state \in Stages \cup {"completed"},
         UNCHANGED <<input, wf, dataVars>>
  PROVE  WorkflowInv'
<1>1. at' \in Positions /\ AdvanceHolds'
  BY WritesHolds DEF dataVars
<1>2. WorkflowTypes'
  BY <1>1 DEF WorkflowInv, WorkflowTypes, dataVars
<1> QED
  BY <1>1, <1>2 DEF WorkflowInv, dataVars

\* A row moved on to a stage that promises nothing, with none live.
LEMMA MovedRow ==
  ASSUME NEW row \in Rows, NEW new \in Rows, NEW e, NEW A, NEW R, NEW F,
         RowIsTrue(row, e, A, R, F), LiveIn(R) = {},
         new.job = row.job, new.render = row.render,
         new.state \in {"importing", "analyzing", "selecting_candidate", "assembling_draft",
                        "awaiting_review", "preflighting"}
  PROVE  RowIsTrue(new, e, A, R, F)
BY DEF RowIsTrue, RowNames, FailedIn

LEMMA AdvanceInv == ASSUME WorkflowInv, Advance PROVE WorkflowInv'
<1>1. at \in Positions /\ at' = [at EXCEPT !.phase = "sync", !.current = TRUE]
  BY DEF WorkflowInv, WorkflowTypes, Advance
<1>2. at' \in Positions /\ at'.phase = "sync" /\ at'.current
  BY <1>1 DEF Positions, Phases
<1>3. UNCHANGED <<input, wf, dataVars>>
  BY DEF Advance
<1>4. AdvanceHolds'
  BY <1>2 DEF AdvanceHolds
<1>5. WorkflowTypes'
  BY <1>2, <1>3 DEF WorkflowInv, WorkflowTypes, dataVars
<1> QED
  BY <1>3, <1>4, <1>5 DEF WorkflowInv, dataVars

LEMMA WriteInv == ASSUME WorkflowInv, Write PROVE WorkflowInv'
<1>1. UNCHANGED <<input, dataVars>> /\ at \in Positions /\ at.phase = "write"
  BY DEF Write, WorkflowInv, WorkflowTypes
<1>2. CASE at.current
  <2>1. wf' = at.todo /\ at' = [at EXCEPT !.phase = "sync"]
    BY <1>2 DEF Write
  <2>2. at' \in Positions /\ at'.phase = "sync" /\ at'.current /\ wf' \in Rows
    BY <1>1, <1>2, <2>1 DEF Positions, Phases
  <2>3. RowIsTrue(wf', input.export, analyses, renders, files)
    BY <1>1, <1>2, <2>1 DEF WorkflowInv, AdvanceHolds
  <2>4. AdvanceHolds'
    BY <2>2 DEF AdvanceHolds
  <2>5. WorkflowTypes'
    BY <1>1, <2>2 DEF WorkflowInv, WorkflowTypes, dataVars
  <2> QED
    BY <1>1, <2>3, <2>4, <2>5 DEF WorkflowInv, dataVars
<1>3. CASE ~at.current
  BY <1>1, <1>3, FailsSoundly DEF Write
<1> QED
  BY <1>2, <1>3

LEMMA RestInv == ASSUME WorkflowInv, Rest PROVE WorkflowInv'
<1>1. UNCHANGED <<input, wf, dataVars>> /\ at' = Idle
  BY DEF Rest
<1>2. at' \in Positions /\ AdvanceHolds'
  BY <1>1, IdleHolds
<1>3. WorkflowTypes'
  BY <1>1, <1>2 DEF WorkflowInv, WorkflowTypes, dataVars
<1> QED
  BY <1>1, <1>2, <1>3 DEF WorkflowInv, dataVars

\* Import and Export: advance() awaits something, with the row it has read.
LEMMA AwaitsInv ==
  ASSUME WorkflowInv, NEW phase \in {"import", "lookup"}, Awaits(phase),
         phase = "import" => wf.state = "importing", phase = "lookup" => wf.state = "exporting",
         UNCHANGED <<input, wf, dataVars>>
  PROVE  WorkflowInv'
<1>1. wf \in Rows
  BY DEF WorkflowInv, WorkflowTypes
<1>2. at' \in Positions /\ at'.phase = phase /\ at'.current /\ at'.todo = wf
  BY <1>1 DEF Awaits, Positions, Phases
<1>3. AdvanceHolds'
  BY <1>2 DEF AdvanceHolds
<1>4. WorkflowTypes'
  BY <1>2 DEF WorkflowInv, WorkflowTypes, dataVars
<1> QED
  BY <1>3, <1>4 DEF WorkflowInv, dataVars

LEMMA ImportEndsInv == ASSUME WorkflowInv, ImportEnds PROVE WorkflowInv'
<1> DEFINE todo == at.todo
           found == [todo EXCEPT !.state = "selecting_candidate", !.reached = "episode"]
           linked(j) == [todo EXCEPT !.state = "analyzing", !.reached = "episode", !.job = j]
<1>1. /\ UNCHANGED <<input, wf, transcript, short, renders, files>> /\ at.phase = "import"
      /\ \/ Writes(found) /\ UNCHANGED analyses
         \/ \E j \in 1..Len(analyses) : Writes(linked(j)) /\ UNCHANGED analyses
         \/ analyses' = Append(analyses, "queued") /\ Writes(linked(Len(analyses) + 1))
  <2>1. DOMAIN analyses = 1..Len(analyses)
    BY DEF WorkflowInv, WorkflowTypes
  <2>2. \/ Writes(found) /\ UNCHANGED analyses
        \/ \E j \in DOMAIN analyses : Writes(linked(j)) /\ UNCHANGED analyses
        \/ analyses' = Append(analyses, "queued") /\ Writes(linked(Len(analyses) + 1))
    BY Zenon DEF ImportEnds
  <2> QED
    BY <2>1, <2>2, Zenon DEF ImportEnds
<1>2. /\ todo \in Rows /\ analyses \in Seq(JobStates) /\ renders \in Seq(Attempts) /\ wf \in Rows
      /\ input.export \in BOOLEAN /\ Len(analyses) \in Nat
  BY DEF WorkflowInv, WorkflowTypes, Positions
<1>3. at.current => todo = wf /\ wf.state = "importing"
  BY <1>1 DEF WorkflowInv, AdvanceHolds
<1>4. RowIsTrue(wf, input.export, analyses, renders, files)
  BY DEF WorkflowInv
<1>5. at.current => LiveIn(renders) = {}
  <2>1. at.current => wf.state \notin {"preflighting", "rendering", "failed", "cancelled"}
    BY <1>3
  <2> QED
    BY <1>4, <2>1, StagesWithoutLive
<1>6. CASE Writes(found) /\ UNCHANGED analyses
  <2>1. found \in Rows /\ found.state = "selecting_candidate" /\ found.job = todo.job /\ found.render = todo.render
    BY <1>2 DEF Rows, Stages, Reached
  <2> HIDE DEF found
  <2>2. at.current => RowIsTrue(found, input.export, analyses, renders, files)
    BY <1>2, <1>3, <1>4, <1>5, <2>1, MovedRow
  <2> QED
    BY <1>1, <1>6, <2>1, <2>2, WritesSoundly DEF dataVars, Stages
<1>7. ASSUME NEW B \in Seq(JobStates), analyses' = B, Len(analyses) <= Len(B),
             \A j \in 1..Len(analyses) : B[j] = analyses[j],
             NEW k \in 1..Len(B), Writes(linked(k))
      PROVE  WorkflowInv'
  <2> DEFINE new == linked(k)
  <2>1. k \in Nat
    BY <1>7
  <2>2. new \in Rows /\ new.state = "analyzing" /\ new.job = k /\ new.render = todo.render
    BY <1>2, <2>1 DEF Rows, Stages, Reached
  <2>3. Writes(new)
    BY <1>7
  <2> HIDE DEF new, linked
  <2>4. RowNames(wf, input.export, B, renders, files)
    <3>1. RowNames(wf, input.export, analyses, renders, files)
      BY <1>4 DEF RowIsTrue
    <3>2. wf.job \in Nat /\ Len(B) \in Nat
      BY <1>2, <1>7 DEF Rows
    <3>3. wf.job <= Len(analyses) /\ (wf.job # 0 => B[wf.job] = analyses[wf.job])
      <4>1. wf.job <= Len(analyses)
        BY <3>1 DEF RowNames
      <4>2. Len(analyses) \in Nat
        BY <1>2
      <4>3. wf.job # 0 => wf.job \in 1..Len(analyses)
        BY <3>2, <4>1, <4>2
      <4> QED
        BY <1>7, <4>1, <4>3
    <3> QED
      BY <1>2, <1>7, <3>1, <3>2, <3>3 DEF RowNames
  <2>5. RowIsTrue(wf, input.export, B, renders, files)
    BY <1>4, <2>4 DEF RowIsTrue
  <2>6. at.current => RowIsTrue(new, input.export, B, renders, files)
    <3>1. at.current => RowNames(new, input.export, B, renders, files)
      BY <1>2, <1>3, <1>7, <2>1, <2>2, <2>4 DEF RowNames, FailedIn, Rows
    <3> QED
      BY <1>5, <3>1, NoneLive
  <2>7. at' \in Positions /\ AdvanceHolds'
    BY <1>1, <1>7, <2>2, <2>3, <2>6, WritesHolds DEF Stages
  <2>8. WorkflowTypes'
    BY <1>1, <1>7, <2>7 DEF WorkflowInv, WorkflowTypes
  <2> QED
    BY <1>1, <1>7, <2>5, <2>7, <2>8 DEF WorkflowInv
<1>8. ASSUME NEW j \in 1..Len(analyses), Writes(linked(j)), UNCHANGED analyses PROVE WorkflowInv'
  <2>1. Len(analyses) <= Len(analyses) /\ \A i \in 1..Len(analyses) : analyses[i] = analyses[i]
    BY <1>2
  <2>2. PICK B \in Seq(JobStates) : B = analyses
    BY <1>2
  <2> HIDE DEF linked
  <2> QED
    BY <1>7, <1>8, <2>1, <2>2
<1>9. CASE analyses' = Append(analyses, "queued") /\ Writes(linked(Len(analyses) + 1))
  <2>1. "queued" \in JobStates
    BY DEF JobStates, Live, Pending
  <2> DEFINE B == Append(analyses, "queued")
  <2>2. /\ B \in Seq(JobStates) /\ Len(B) = Len(analyses) + 1
        /\ \A j \in 1..Len(analyses) : B[j] = analyses[j]
    BY <1>2, <2>1
  <2>3. Len(analyses) + 1 \in 1..Len(B) /\ Len(analyses) <= Len(B) /\ analyses' = B
    BY <1>2, <1>9, <2>2
  <2> HIDE DEF B, linked
  <2> QED
    BY <1>7, <1>9, <2>2, <2>3
<1> HIDE DEF found, linked
<1> QED
  BY <1>1, <1>6, <1>8, <1>9

\* What the invariant says where advance() has just read the row.
LEMMA SyncRow ==
  ASSUME WorkflowInv, NEW state, Reads(state)
  PROVE  /\ at \in Positions /\ at.phase = "sync" /\ wf \in Rows /\ wf.state = state /\ at.current
         /\ RowIsTrue(wf, input.export, analyses, renders, files)
BY DEF WorkflowInv, WorkflowTypes, AdvanceHolds, Reads

LEMMA AnalysisEndedInv == ASSUME WorkflowInv, AnalysisEnded PROVE WorkflowInv'
<1>1. /\ wf \in Rows /\ wf.state = "analyzing" /\ at.phase = "sync"
      /\ RowIsTrue(wf, input.export, analyses, renders, files) /\ UNCHANGED <<input, dataVars>>
  BY SyncRow DEF AnalysisEnded
<1>2. LiveIn(renders) = {}
  BY <1>1, StagesWithoutLive
<1> DEFINE new == [wf EXCEPT !.state = "selecting_candidate"]
<1>3. /\ new \in Rows /\ new.state = "selecting_candidate" /\ new.job = wf.job /\ new.render = wf.render
  BY <1>1 DEF Rows, Stages
<1>4. \/ Writes(new) /\ UNCHANGED wf
      \/ FailedWith(analyses[wf.job] = "failed")
  BY DEF AnalysisEnded
<1> HIDE DEF new
<1>5. RowIsTrue(new, input.export, analyses, renders, files)
  BY <1>1, <1>2, <1>3, MovedRow
<1>6. CASE Writes(new) /\ UNCHANGED wf
  BY <1>1, <1>3, <1>5, <1>6, WritesSoundly DEF Stages
<1>7. CASE FailedWith(analyses[wf.job] = "failed")
  <2>1. PICK retryable \in BOOLEAN : retryable = (analyses[wf.job] = "failed")
    OBVIOUS
  <2> QED
    BY <1>1, <1>2, <1>7, <2>1, FailsSoundly
<1> QED
  BY <1>4, <1>6, <1>7

LEMMA SelectCandidateInv == ASSUME WorkflowInv, SelectCandidate PROVE WorkflowInv'
<1>1. /\ wf \in Rows /\ wf.state = "selecting_candidate" /\ at.phase = "sync"
      /\ RowIsTrue(wf, input.export, analyses, renders, files) /\ UNCHANGED <<input, wf, dataVars>>
  BY SyncRow DEF SelectCandidate
<1>2. LiveIn(renders) = {}
  BY <1>1, StagesWithoutLive
<1>3. PICK new : /\ Writes(new)
                 /\ new = IF wf.reached = "candidate"
                          THEN [wf EXCEPT !.state = "assembling_draft"]
                          ELSE [wf EXCEPT !.reached = "candidate"]
  BY DEF SelectCandidate
<1>4. /\ new \in Rows /\ new.state \in {"assembling_draft", "selecting_candidate"}
      /\ new.job = wf.job /\ new.render = wf.render
  BY <1>1, <1>3 DEF Rows, Stages, Reached
<1>5. RowIsTrue(new, input.export, analyses, renders, files)
  BY <1>1, <1>2, <1>4, MovedRow
<1> QED
  BY <1>1, <1>3, <1>4, <1>5, WritesSoundly DEF Stages

LEMMA AssembleDraftInv == ASSUME WorkflowInv, AssembleDraft PROVE WorkflowInv'
<1>1. /\ wf \in Rows /\ wf.state = "assembling_draft" /\ at.phase = "sync"
      /\ RowIsTrue(wf, input.export, analyses, renders, files)
      /\ UNCHANGED <<input, wf, transcript, analyses, renders, files>>
  BY SyncRow DEF AssembleDraft
<1>2. LiveIn(renders) = {}
  BY <1>1, StagesWithoutLive
<1>3. PICK new : /\ Writes(new)
                 /\ new = [wf EXCEPT !.reached = "short",
                                     !.state = IF input.review THEN "awaiting_review" ELSE "preflighting"]
  BY DEF AssembleDraft
<1>4. /\ new \in Rows /\ new.state \in {"awaiting_review", "preflighting"}
      /\ new.job = wf.job /\ new.render = wf.render
  BY <1>1, <1>3 DEF Rows, Stages, Reached
<1>5. RowIsTrue(new, input.export, analyses, renders, files)
  BY <1>1, <1>2, <1>4, MovedRow
<1>6. at' \in Positions /\ AdvanceHolds'
  BY <1>1, <1>3, <1>4, <1>5, WritesHolds DEF Stages
<1>7. /\ short \in [revision : Nat, approved : BOOLEAN] /\ AttemptsInOrder(renders, short)
      /\ Len(renders) \in Nat /\ renders \in Seq(Attempts)
  BY DEF WorkflowInv, WorkflowTypes
<1>8. /\ short' \in [revision : Nat, approved : BOOLEAN]
      /\ short.revision <= short'.revision /\ (short'.approved => short'.revision # 0)
  <2>1. short' = IF short.revision = 0 THEN [short EXCEPT !.revision = 1] ELSE short
    BY DEF AssembleDraft
  <2>2. short.revision = 0 => ~short.approved
    BY <1>7 DEF AttemptsInOrder
  <2> QED
    BY <1>7, <2>1, <2>2
<1>9. AttemptsInOrder(renders, short')
  <2>1. \A r \in 1..Len(renders) : Later(renders[r], renders[r])
    BY <1>7 DEF AttemptsInOrder, Later
  <2> QED
    BY <1>7, <1>8, <2>1, OrderStays
<1>10. WorkflowTypes'
  BY <1>1, <1>6, <1>8 DEF WorkflowInv, WorkflowTypes
<1> QED
  BY <1>1, <1>6, <1>9, <1>10 DEF WorkflowInv

LEMMA ApproveInv == ASSUME WorkflowInv, Approve PROVE WorkflowInv'
<1>1. /\ UNCHANGED <<input, wf, at, transcript, analyses, renders, files>>
      /\ short' = [revision |-> short.revision + 1, approved |-> TRUE]
  BY DEF Approve
<1>2. /\ short \in [revision : Nat, approved : BOOLEAN] /\ AttemptsInOrder(renders, short)
      /\ renders \in Seq(Attempts)
  BY DEF WorkflowInv, WorkflowTypes
<1>3. /\ short' \in [revision : Nat, approved : BOOLEAN]
      /\ short.revision <= short'.revision /\ short'.revision # 0
  BY <1>1, <1>2
<1>4. AttemptsInOrder(renders, short')
  <2>1. \A r \in 1..Len(renders) : Later(renders[r], renders[r])
    BY <1>2 DEF AttemptsInOrder, Later
  <2> QED
    BY <1>2, <1>3, <2>1, OrderStays
<1>5. WorkflowTypes'
  BY <1>1, <1>3 DEF WorkflowInv, WorkflowTypes
<1>6. AdvanceHolds'
  BY <1>1 DEF WorkflowInv, AdvanceHolds
<1> QED
  BY <1>1, <1>4, <1>5, <1>6 DEF WorkflowInv

LEMMA Largest ==
  ASSUME NEW n \in Nat, NEW S \in SUBSET (1..n), S # {}
  PROVE  \E x \in S : \A y \in S : y <= x
<1> DEFINE T == {n - x : x \in S}
<1>1. T \in SUBSET Nat /\ T # {}
  <2>1. \A x \in S : x \in 1..n /\ n - x \in Nat
    OBVIOUS
  <2>2. \A t \in T : t \in Nat
    BY <2>1
  <2>3. PICK x \in S : TRUE
    OBVIOUS
  <2>4. n - x \in T
    BY <2>3
  <2> QED
    BY <2>2, <2>4
<1>2. PICK t \in T : \A u \in T : t <= u
  BY <1>1, Smallest
<1>3. PICK x \in S : t = n - x
  BY <1>2
<1>4. \A y \in S : n - x <= n - y
  BY <1>2, <1>3
<1> QED
  BY <1>4

\* The attempt that is taken up again is the newest of its revision, so a
\* live one is found before another begins.
LEMMA ReattachInv == ASSUME WorkflowInv, Reattach PROVE WorkflowInv'
<1>1. /\ wf \in Rows /\ wf.state = "preflighting" /\ at.phase = "sync"
      /\ RowIsTrue(wf, input.export, analyses, renders, files)
      /\ UNCHANGED <<input, wf, dataVars>> /\ Existing # {}
  BY SyncRow DEF Reattach
<1>2. PICK r : /\ r = CHOOSE q \in Existing : \A p \in Existing : p <= q
               /\ Writes([wf EXCEPT !.state = "rendering", !.render = r, !.preflight = renders[r].revision])
  BY DEF Reattach
<1>3. /\ renders \in Seq(Attempts) /\ Len(renders) \in Nat /\ DOMAIN renders = 1..Len(renders)
      /\ short.revision \in Nat /\ AttemptsInOrder(renders, short)
  BY DEF WorkflowInv, WorkflowTypes
<1>4. Existing \in SUBSET (1..Len(renders))
  BY <1>3 DEF Existing
<1>5. \E q \in Existing : \A p \in Existing : p <= q
  BY <1>1, <1>3, <1>4, Largest
<1>6. r \in Existing /\ \A p \in Existing : p <= r
  BY <1>2, <1>5
<1>7. r \in 1..Len(renders) /\ renders[r] \in Attempts /\ renders[r].revision = short.revision
  BY <1>3, <1>6 DEF Existing, Reattachable
<1>8. PICK new : new = [wf EXCEPT !.state = "rendering", !.render = r, !.preflight = renders[r].revision]
  OBVIOUS
<1>9. new \in Rows /\ new.state = "rendering" /\ new.render = r /\ new.job = wf.job
  <2>1. r \in Nat /\ renders[r].revision \in Nat
    BY <1>3, <1>7
  <2> QED
    BY <1>1, <1>8, <2>1 DEF Rows, Stages
<1>10. RowNames(new, input.export, analyses, renders, files)
  BY <1>1, <1>3, <1>7, <1>9 DEF RowIsTrue, RowNames, FailedIn
<1>11. ASSUME NEW l \in LiveIn(renders) PROVE l = r
  <2>1. l \in 1..Len(renders) /\ renders[l].state \in Live
    BY <1>11 DEF LiveIn
  <2>2. l = Len(renders)
    BY <1>3, <1>11 DEF AttemptsInOrder
  <2>3. renders[l] \in Attempts
    BY <1>3, <2>1
  <2>4. r \in Nat /\ l \in Nat /\ r <= l
    BY <1>3, <1>7, <2>2
  <2>5. renders[r].revision <= renders[l].revision /\ renders[l].revision <= short.revision
    BY <1>3, <1>7, <2>1, <2>4 DEF AttemptsInOrder
  <2>6. renders[l].revision = short.revision
    BY <1>3, <1>7, <2>3, <2>5 DEF Attempts
  <2>7. l \in Existing
    BY <1>3, <2>1, <2>6 DEF Existing, Reattachable
  <2>8. l <= r
    BY <1>6, <2>7
  <2> QED
    BY <2>4, <2>8
<1>12. RowIsTrue(new, input.export, analyses, renders, files)
  BY <1>9, <1>10, <1>11 DEF RowIsTrue, AccountsFor
<1> QED
  BY <1>1, <1>2, <1>8, <1>9, <1>12, WritesSoundly DEF Stages

LEMMA BeginPreflightInv == ASSUME WorkflowInv, BeginPreflight PROVE WorkflowInv'
<1>1. /\ wf \in Rows /\ wf.state = "preflighting" /\ UNCHANGED <<input, wf, dataVars>>
      /\ wf.preflight = 0
      /\ at' = [phase |-> "preflight", current |-> TRUE,
                todo |-> [wf EXCEPT !.preflight = short.revision]]
  BY SyncRow DEF BeginPreflight
<1>2. short.revision \in Nat
  BY DEF WorkflowInv, WorkflowTypes
<1> DEFINE new == [wf EXCEPT !.preflight = short.revision]
<1>3. new \in Rows /\ new.preflight = short.revision
  BY <1>1, <1>2 DEF Rows
<1>4. new = [wf EXCEPT !.preflight = new.preflight]
  BY <1>3
<1> HIDE DEF new
<1>5. /\ at' \in Positions /\ at'.phase = "preflight" /\ at'.current /\ at'.todo = new
  BY <1>1, <1>3 DEF Positions, Phases, new
<1>6. AdvanceHolds'
  <2>1. wf' = wf
    BY <1>1
  <2> QED
    BY <1>1, <1>4, <1>5, <2>1 DEF AdvanceHolds
<1>7. WorkflowTypes'
  BY <1>1, <1>5 DEF WorkflowInv, WorkflowTypes, dataVars
<1> QED
  BY <1>1, <1>6, <1>7 DEF WorkflowInv, dataVars

\* A row without a preflight accounts for no live attempt.
LEMMA PreflightEndsInv == ASSUME WorkflowInv, PreflightEnds PROVE WorkflowInv'
<1>1. /\ at \in Positions /\ at.phase = "preflight" /\ wf \in Rows /\ UNCHANGED <<input, dataVars>>
      /\ RowIsTrue(wf, input.export, analyses, renders, files)
  BY DEF WorkflowInv, WorkflowTypes, PreflightEnds
<1>2. CASE at.todo.preflight = short.revision
  <2>1. Writes(at.todo) /\ UNCHANGED wf
    BY <1>2 DEF PreflightEnds
  <2>2. at.todo \in Rows
    BY <1>1 DEF Positions
  <2>3. CASE at.current
    <3>1. /\ wf.state = "preflighting" /\ wf.preflight = 0
          /\ at.todo = [wf EXCEPT !.preflight = at.todo.preflight]
      BY <1>1, <2>3 DEF WorkflowInv, AdvanceHolds
    <3>2. LiveIn(renders) = {}
      BY <1>1, <3>1 DEF WorkflowInv, RowIsTrue, AccountsFor, AttemptsInOrder, LiveIn
    <3>3. at.todo.state = "preflighting" /\ at.todo.job = wf.job /\ at.todo.render = wf.render
      BY <1>1, <3>1 DEF Rows
    <3>4. RowIsTrue(at.todo, input.export, analyses, renders, files)
      BY <1>1, <2>2, <3>2, <3>3, MovedRow
    <3> QED
      BY <1>1, <2>1, <2>2, <3>3, <3>4, WritesSoundly DEF Stages
  <2>4. CASE ~at.current
    BY <1>1, <2>1, <2>2, <2>4, WritesSoundly
  <2> QED
    BY <2>3, <2>4
<1>3. CASE at.todo.preflight # short.revision
  <2>1. FailedWith(FALSE)
    BY <1>3 DEF PreflightEnds
  <2> QED
    BY <1>1, <2>1, FailsSoundly
<1> QED
  BY <1>2, <1>3

\* An attempt queued while none is live, and the row that will name it.
LEMMA QueuesSoundly ==
  ASSUME WorkflowInv, NEW a \in Attempts, a.state = "queued", a.revision = short.revision, ~a.output,
         short.approved, LiveIn(renders) = {}, Queue(a),
         UNCHANGED <<input, wf, transcript, analyses, short>>,
         AccountsFor(wf, renders', Len(renders) + 1),
         NEW new \in Rows, new.state = "rendering", new.job = wf.job, new.render = Len(renders) + 1,
         at' \in Positions, at'.phase = "write", at'.current, at'.todo = new
  PROVE  WorkflowInv'
<1>1. /\ renders \in Seq(Attempts) /\ Len(renders) \in Nat /\ wf \in Rows
      /\ short \in [revision : Nat, approved : BOOLEAN] /\ AttemptsInOrder(renders, short)
      /\ files \in Seq({"none", "part", "whole"}) /\ Len(files) = Len(renders)
      /\ RowIsTrue(wf, input.export, analyses, renders, files)
  BY DEF WorkflowInv, WorkflowTypes
<1>2. /\ renders' \in Seq(Attempts) /\ Len(renders') = Len(renders) + 1
      /\ renders'[Len(renders) + 1] = a /\ \A r \in 1..Len(renders) : renders'[r] = renders[r]
      /\ LiveIn(renders') = {Len(renders) + 1}
      /\ AttemptsInOrder(renders', short)
  BY <1>1, OrderGrows DEF Queue
<1>3. /\ files' \in Seq({"none", "part", "whole"}) /\ Len(files') = Len(renders')
      /\ \A r \in 1..Len(renders) : files'[r] = files[r]
  BY <1>1, <1>2 DEF Queue
<1>4. RowNames(wf, input.export, analyses, renders', files')
  <2>1. RowNames(wf, input.export, analyses, renders, files) /\ wf.render \in Nat
    BY <1>1 DEF RowIsTrue, Rows
  <2>2. wf.render # 0 => wf.render \in 1..Len(renders)
    BY <1>1, <2>1 DEF RowNames
  <2>3. wf.state = "completed" => wf.render # 0
    BY <2>1 DEF RowNames
  <2>4. wf.render <= Len(renders')
    BY <1>1, <1>2, <2>1 DEF RowNames
  <2> QED
    BY <1>2, <1>3, <2>1, <2>2, <2>3, <2>4 DEF RowNames
<1>5. RowNames(new, input.export, analyses, renders', files')
  BY <1>1, <1>2 DEF RowIsTrue, RowNames, FailedIn
<1>6. /\ RowIsTrue(wf, input.export, analyses, renders', files')
      /\ RowIsTrue(new, input.export, analyses, renders', files')
  BY <1>2, <1>4, <1>5 DEF RowIsTrue, AccountsFor
<1>7. AdvanceHolds'
  BY <1>6 DEF AdvanceHolds, Stages
<1>8. WorkflowTypes'
  BY <1>1, <1>2, <1>3 DEF WorkflowInv, WorkflowTypes
<1> QED
  BY <1>2, <1>6, <1>7, <1>8 DEF WorkflowInv

LEMMA StartRenderInv == ASSUME WorkflowInv, StartRender PROVE WorkflowInv'
<1>1. /\ at \in Positions /\ at.phase = "sync" /\ at.current /\ wf \in Rows /\ wf.state = "preflighting"
      /\ RowIsTrue(wf, input.export, analyses, renders, files)
      /\ UNCHANGED <<input, transcript, analyses, short>>
      /\ short.approved /\ Existing = {}
  BY SyncRow DEF StartRender
<1>2. renders \in Seq(Attempts) /\ Len(renders) \in Nat /\ short.revision \in Nat
  BY DEF WorkflowInv, WorkflowTypes
<1>3. CASE wf.preflight = short.revision
  <2>1. PICK a, new :
           /\ a = NewAttempt(Len(renders) + 1) /\ Queue(a)
           /\ new = [wf EXCEPT !.state = "rendering", !.render = Len(renders) + 1] /\ Writes(new)
           /\ UNCHANGED wf
    BY <1>3 DEF StartRender
  <2>2. a \in Attempts /\ a.state = "queued" /\ a.revision = short.revision /\ ~a.output
    BY <1>2, <2>1 DEF NewAttempt, Attempts, JobStates, Live, Pending
  <2>3. new \in Rows /\ new.state = "rendering" /\ new.render = Len(renders) + 1 /\ new.job = wf.job
    <3>1. PICK n \in Nat : n = Len(renders) + 1
      BY <1>2
    <3>2. new = [wf EXCEPT !.state = "rendering", !.render = n]
      BY <2>1, <3>1
    <3>3. new \in Rows /\ new.state = "rendering" /\ new.render = n /\ new.job = wf.job
      BY <1>1, <3>2 DEF Rows, Stages
    <3> QED
      BY <3>1, <3>3
  <2>4. LiveIn(renders) = {}
    BY <1>1, <1>2, <1>3 DEF RowIsTrue, AccountsFor, LiveIn, Existing, Reattachable
  <2>5. renders'[Len(renders) + 1] = a
    BY <1>2, <2>1 DEF Queue
  <2>6. AccountsFor(wf, renders', Len(renders) + 1)
    BY <1>1, <1>3, <2>2, <2>5 DEF AccountsFor
  <2>7. at' \in Positions /\ at'.phase = "write" /\ at'.current /\ at'.todo = new
    BY <1>1, <2>1, <2>3 DEF Writes, Positions, Phases
  <2> QED
    BY <1>1, <2>1, <2>2, <2>3, <2>4, <2>6, <2>7, QueuesSoundly
<1>4. CASE wf.preflight # short.revision
  <2>1. FailedWith(FALSE) /\ UNCHANGED <<input, dataVars>>
    BY <1>4 DEF StartRender, dataVars
  <2> QED
    BY <2>1, FailsSoundly
<1> QED
  BY <1>3, <1>4

LEMMA RenderEndedInv == ASSUME WorkflowInv, RenderEnded PROVE WorkflowInv'
<1>1. /\ at.phase = "sync" /\ wf \in Rows /\ wf.state = "rendering"
      /\ RowIsTrue(wf, input.export, analyses, renders, files) /\ UNCHANGED <<input, dataVars>>
  BY SyncRow DEF RenderEnded
<1>2. renders[wf.render].state \in {"succeeded", "failed", "stale", "cancelled"}
  BY DEF RenderEnded
<1>3. LiveIn(renders) = {}
  <2>1. renders[wf.render].state \notin Live
    BY <1>2 DEF Live, Pending
  <2> QED
    BY <1>1, <2>1, StagesWithoutLive
<1>4. CASE renders[wf.render].state = "succeeded"
  <2>1. PICK new : /\ new = [wf EXCEPT !.state = IF input.export THEN "exporting" ELSE "completed"]
                   /\ Writes(new) /\ UNCHANGED wf
    BY <1>4 DEF RenderEnded
  <2>2. /\ new \in Rows /\ new.state = (IF input.export THEN "exporting" ELSE "completed")
        /\ new.job = wf.job /\ new.render = wf.render
    BY <1>1, <2>1 DEF Rows, Stages, FinalStates
  <2>3. RowNames(wf, input.export, analyses, renders, files) /\ wf.render # 0 /\ wf.render <= Len(renders)
    BY <1>1 DEF RowIsTrue, RowNames
  <2>4. wf.render \in 1..Len(renders)
    BY <1>1, <2>3 DEF Rows, WorkflowInv, WorkflowTypes
  <2>5. renders[wf.render].output
    BY <1>4, <2>4 DEF WorkflowInv, AttemptsInOrder
  <2>6. RowNames(new, input.export, analyses, renders, files)
    BY <2>2, <2>3, <2>5 DEF RowNames, FailedIn
  <2>7. RowIsTrue(new, input.export, analyses, renders, files)
    BY <1>3, <2>6, NoneLive
  <2> QED
    BY <1>1, <2>1, <2>2, <2>7, WritesSoundly DEF Stages
<1>5. CASE renders[wf.render].state # "succeeded"
  <2>1. FailedWith(renders[wf.render].state # "cancelled")
    BY <1>5 DEF RenderEnded
  <2>2. PICK retryable \in BOOLEAN : retryable = (renders[wf.render].state # "cancelled")
    OBVIOUS
  <2> QED
    BY <1>1, <1>3, <2>1, <2>2, FailsSoundly
<1> QED
  BY <1>4, <1>5

\* The row that is held while an export is looked up or copied.
LEMMA ExportRow ==
  ASSUME WorkflowInv, at.phase \in {"lookup", "copy"}
  PROVE  /\ at \in Positions /\ at.todo \in Rows /\ wf \in Rows
         /\ RowIsTrue(wf, input.export, analyses, renders, files)
         /\ at.current => at.todo = wf /\ wf.state = "exporting" /\ LiveIn(renders) = {}
         /\ ~at.current => wf.state = "cancelled"
         /\ wf.state # "completed"
<1>1. /\ at \in Positions /\ at.todo \in Rows /\ wf \in Rows
      /\ RowIsTrue(wf, input.export, analyses, renders, files)
  BY DEF WorkflowInv, WorkflowTypes, Positions
<1>2. at.current => at.todo = wf /\ wf.state = "exporting"
  BY DEF WorkflowInv, AdvanceHolds
<1>3. ~at.current => wf.state = "cancelled"
  BY DEF WorkflowInv, AdvanceHolds
<1>4. at.current => LiveIn(renders) = {}
  BY <1>1, <1>2, StagesWithoutLive
<1> QED
  BY <1>1, <1>2, <1>3, <1>4

\* A row that is completed only when its file is.
LEMMA Delivered ==
  ASSUME NEW row \in Rows, NEW new \in Rows, NEW e, NEW A, NEW R, NEW F, NEW G,
         RowIsTrue(row, e, A, R, F), LiveIn(R) = {}, row.state = "exporting",
         new.state = "completed", new.job = row.job, new.render = row.render, G[row.render] = "whole"
  PROVE  RowIsTrue(new, e, A, R, G)
BY DEF RowIsTrue, RowNames, FailedIn

\* Only a completed row speaks of its file.
LEMMA OtherFiles ==
  ASSUME NEW row, NEW e, NEW A, NEW R, NEW F, NEW G, RowIsTrue(row, e, A, R, F), row.state # "completed"
  PROVE  RowIsTrue(row, e, A, R, G)
BY DEF RowIsTrue, RowNames

LEMMA RecoveredInv == ASSUME WorkflowInv, Recovered PROVE WorkflowInv'
<1>1. at.phase = "lookup" /\ files[at.todo.render] = "whole" /\ UNCHANGED <<input, wf, dataVars>>
  BY DEF Recovered, Exported
<1>2. PICK new : new = [at.todo EXCEPT !.state = "completed"] /\ Writes(new)
  BY DEF Recovered
<1>3. /\ new \in Rows /\ new.state = "completed" /\ new.job = at.todo.job /\ new.render = at.todo.render
  BY <1>1, <1>2, ExportRow DEF Rows, FinalStates
<1>4. at.current => RowIsTrue(new, input.export, analyses, renders, files)
  BY <1>1, <1>3, ExportRow, Delivered
<1> QED
  BY <1>1, <1>2, <1>3, <1>4, WritesSoundly

FileStates == {"none", "part", "whole"}

\* A step that changes one file, while no row is completed.
LEMMA FileSteps ==
  ASSUME WorkflowInv, NEW r \in Nat, NEW state \in FileStates, files' = [files EXCEPT ![r] = state]
  PROVE  files' \in Seq(FileStates) /\ Len(files') = Len(files)
<1>1. files \in [1..Len(files) -> FileStates] /\ Len(files) \in Nat
  BY DEF WorkflowInv, WorkflowTypes, FileStates
<1>2. files' \in [1..Len(files) -> FileStates]
  BY <1>1
<1> QED
  BY <1>1, <1>2

LEMMA BeginCopyInv == ASSUME WorkflowInv, BeginCopy PROVE WorkflowInv'
<1>1. at.phase = "lookup" /\ UNCHANGED <<input, transcript, analyses, short, renders>>
  BY DEF BeginCopy
<1>2. \/ files' = [files EXCEPT ![at.todo.render] = "part"] /\ at' = [at EXCEPT !.phase = "copy"] /\ UNCHANGED wf
      \/ FailedWith(FALSE) /\ UNCHANGED files
  BY DEF BeginCopy
<1>3. CASE /\ files' = [files EXCEPT ![at.todo.render] = "part"]
           /\ at' = [at EXCEPT !.phase = "copy"] /\ UNCHANGED wf
  <2>1. at.todo.render \in Nat
    BY <1>1, ExportRow DEF Rows
  <2>2. files' \in Seq(FileStates) /\ Len(files') = Len(files)
    BY <1>3, <2>1, FileSteps DEF FileStates
  <2>3. at' \in Positions /\ at'.phase = "copy" /\ at'.current = at.current /\ at'.todo = at.todo
    BY <1>1, <1>3, ExportRow DEF Positions, Phases
  <2>4. RowIsTrue(wf, input.export, analyses, renders, files')
    BY <1>1, ExportRow, OtherFiles
  <2>5. AdvanceHolds'
    BY <1>1, <1>3, <2>3, ExportRow DEF AdvanceHolds
  <2>6. WorkflowTypes'
    BY <1>1, <1>3, <2>2, <2>3 DEF WorkflowInv, WorkflowTypes, FileStates
  <2> QED
    BY <1>1, <1>3, <2>4, <2>5, <2>6 DEF WorkflowInv
<1>4. CASE FailedWith(FALSE) /\ UNCHANGED files
  BY <1>1, <1>4, FailsSoundly DEF dataVars
<1> QED
  BY <1>2, <1>3, <1>4

LEMMA EndCopyInv == ASSUME WorkflowInv, EndCopy PROVE WorkflowInv'
<1>1. /\ at.phase = "copy" /\ UNCHANGED <<input, wf, transcript, analyses, short, renders>>
      /\ files' = [files EXCEPT ![at.todo.render] = "whole"]
  BY DEF EndCopy
<1>2. PICK new : new = [at.todo EXCEPT !.state = "completed"] /\ Writes(new)
  BY DEF EndCopy
<1>3. /\ new \in Rows /\ new.state = "completed" /\ new.job = at.todo.job /\ new.render = at.todo.render
  BY <1>1, <1>2, ExportRow DEF Rows, FinalStates
<1>4. at.todo.render \in Nat
  BY <1>1, ExportRow DEF Rows
<1>5. files' \in Seq(FileStates) /\ Len(files') = Len(files)
  BY <1>1, <1>4, FileSteps DEF FileStates
<1>6. at.current => files'[at.todo.render] = "whole"
  <2>1. at.current => at.todo.render # 0 /\ at.todo.render <= Len(files)
    BY <1>1, ExportRow DEF RowIsTrue, RowNames, WorkflowInv, WorkflowTypes
  <2>2. files \in [1..Len(files) -> FileStates] /\ Len(files) \in Nat
    BY DEF WorkflowInv, WorkflowTypes, FileStates
  <2> QED
    BY <1>1, <1>4, <2>1, <2>2
<1>7. at.current => RowIsTrue(new, input.export, analyses, renders, files')
  BY <1>1, <1>3, <1>6, ExportRow, Delivered
<1>8. RowIsTrue(wf, input.export, analyses, renders, files')
  BY <1>1, ExportRow, OtherFiles
<1>9. at' \in Positions /\ AdvanceHolds'
  BY <1>1, <1>2, <1>3, <1>7, WritesHolds
<1>10. WorkflowTypes'
  BY <1>1, <1>5, <1>9 DEF WorkflowInv, WorkflowTypes, FileStates
<1> QED
  BY <1>1, <1>8, <1>9, <1>10 DEF WorkflowInv

LEMMA CopyFailsInv == ASSUME WorkflowInv, CopyFails PROVE WorkflowInv'
<1>1. /\ at.phase = "copy" /\ UNCHANGED <<input, transcript, analyses, short, renders>>
      /\ files' = [files EXCEPT ![at.todo.render] = "none"] /\ FailedWith(TRUE)
  BY DEF CopyFails
<1>2. at.todo.render \in Nat
  BY <1>1, ExportRow DEF Rows
<1>3. files' \in Seq(FileStates) /\ Len(files') = Len(files)
  BY <1>1, <1>2, FileSteps DEF FileStates
<1>4. WorkflowActive => LiveIn(renders) = {}
  <2>1. wf.state = "cancelled" => ~WorkflowActive
    BY DEF WorkflowActive, Stages
  <2> QED
    BY <1>1, <2>1, ExportRow
<1>5. /\ at' \in Positions /\ AdvanceHolds' /\ wf' \in Rows
      /\ RowIsTrue(wf', input.export, analyses, renders, files)
      /\ wf'.state = "completed" => wf = wf'
  BY <1>1, <1>4, FailedHolds
<1>6. wf'.state # "completed"
  BY <1>1, <1>5, ExportRow
<1>7. RowIsTrue(wf', input.export, analyses, renders, files')
  BY <1>5, <1>6, OtherFiles
<1>8. WorkflowTypes'
  BY <1>1, <1>3, <1>5 DEF WorkflowInv, WorkflowTypes, FileStates
<1> QED
  BY <1>1, <1>5, <1>7, <1>8 DEF WorkflowInv

\* The user's requests reach a workflow that advance() does not hold.
LEMMA ApproveDraftInv == ASSUME WorkflowInv, ApproveDraft PROVE WorkflowInv'
<1>1. /\ wf \in Rows /\ wf.state = "awaiting_review" /\ at \in Positions /\ Interruptible
      /\ RowIsTrue(wf, input.export, analyses, renders, files) /\ UNCHANGED <<input, dataVars>>
      /\ wf' = [wf EXCEPT !.state = "preflighting"] /\ at' = [at EXCEPT !.current = FALSE]
  BY DEF WorkflowInv, WorkflowTypes, ApproveDraft
<1>2. at.phase = "idle"
  BY <1>1 DEF WorkflowInv, AdvanceHolds, Interruptible, Positions, Phases
<1>3. wf' \in Rows /\ wf'.state = "preflighting" /\ wf'.job = wf.job /\ wf'.render = wf.render
  BY <1>1 DEF Rows, Stages
<1>4. LiveIn(renders) = {}
  BY <1>1, StagesWithoutLive
<1>5. RowIsTrue(wf', input.export, analyses, renders, files)
  BY <1>1, <1>3, <1>4, MovedRow
<1>6. at' \in Positions /\ at'.phase = "idle" /\ ~at'.current
  BY <1>1, <1>2 DEF Positions
<1>7. AdvanceHolds'
  BY <1>6 DEF AdvanceHolds
<1>8. WorkflowTypes'
  BY <1>1, <1>3, <1>6 DEF WorkflowInv, WorkflowTypes, dataVars
<1> QED
  BY <1>1, <1>5, <1>7, <1>8 DEF WorkflowInv, dataVars

\* The newest attempt of a lineage is the one that is retried, so a live one
\* of the same lineage forbids the retry.
LEMMA RetryRenderInv == ASSUME WorkflowInv, RetryRender PROVE WorkflowInv'
<1>1. /\ wf \in Rows /\ wf.state = "failed" /\ wf.retryable /\ at \in Positions
      /\ wf.failedAt = "rendering" /\ renders[wf.render].state \in {"failed", "cancelled"}
      /\ RowIsTrue(wf, input.export, analyses, renders, files)
      /\ UNCHANGED <<input, wf, transcript, analyses, short>>
  BY DEF WorkflowInv, WorkflowTypes, RetryRender, MayRetry, RendersAgain
<1>2. /\ renders \in Seq(Attempts) /\ Len(renders) \in Nat /\ DOMAIN renders = 1..Len(renders)
      /\ short.revision \in Nat
  BY DEF WorkflowInv, WorkflowTypes
<1>3. wf.render \in 1..Len(renders) /\ renders[wf.render] \in Attempts
  BY <1>1, <1>2 DEF RowIsTrue, RowNames, FailedIn, Rows
<1>4. PICK a, new :
        /\ a = NewAttempt(renders[wf.render].lineage) /\ Queue(a)
        /\ new = Unfailed([wf EXCEPT !.state = "rendering", !.render = Len(renders) + 1])
        /\ at' = [phase |-> "write", current |-> TRUE, todo |-> new]
  BY Zenon DEF RetryRender
<1>5. /\ short.approved
      /\ \A r \in DOMAIN renders : renders[r].lineage = renders[wf.render].lineage => r <= wf.render
  BY DEF RetryRender
<1>6. ASSUME NEW r \in LiveIn(renders) PROVE FALSE
  <2>1. r \in 1..Len(renders) /\ wf.render < r /\ renders[wf.render].lineage = renders[r].lineage
    BY <1>1, <1>6 DEF RowIsTrue, AccountsFor, LiveIn
  <2>2. r <= wf.render
    BY <1>2, <1>5, <2>1
  <2> QED
    BY <1>2, <1>3, <2>1, <2>2
<1>7. LiveIn(renders) = {}
  BY <1>6
<1>8. a \in Attempts /\ a.state = "queued" /\ a.revision = short.revision /\ ~a.output
      /\ a.lineage = renders[wf.render].lineage
  BY <1>2, <1>3, <1>4 DEF NewAttempt, Attempts, JobStates, Live, Pending
<1>9. new \in Rows /\ new.state = "rendering" /\ new.render = Len(renders) + 1 /\ new.job = wf.job
  <2>1. PICK n \in Nat : n = Len(renders) + 1
    BY <1>2
  <2> DEFINE moved == [wf EXCEPT !.state = "rendering", !.render = n]
  <2>2. moved \in Rows /\ moved.state = "rendering" /\ moved.render = n /\ moved.job = wf.job
    BY <1>1 DEF Rows, Stages
  <2>3. new = Unfailed(moved)
    BY <1>4, <2>1
  <2> HIDE DEF moved
  <2> QED
    BY <2>1, <2>2, <2>3 DEF Unfailed, Rows
<1>10. renders'[Len(renders) + 1] = a /\ \A r \in 1..Len(renders) : renders'[r] = renders[r]
  BY <1>2, <1>4, <1>8 DEF Queue
<1>11. AccountsFor(wf, renders', Len(renders) + 1)
  BY <1>1, <1>2, <1>3, <1>8, <1>10 DEF AccountsFor
<1>12. at' \in Positions /\ at'.phase = "write" /\ at'.current /\ at'.todo = new
  BY <1>4, <1>9 DEF Positions, Phases
<1> QED
  BY <1>1, <1>4, <1>5, <1>7, <1>8, <1>9, <1>11, <1>12, QueuesSoundly

LEMMA RetryAnalysisInv == ASSUME WorkflowInv, RetryAnalysis PROVE WorkflowInv'
<1>1. /\ wf \in Rows /\ wf.state = "failed" /\ wf.retryable /\ wf.failedAt = "analyzing"
      /\ RowIsTrue(wf, input.export, analyses, renders, files)
      /\ UNCHANGED <<input, wf, transcript, short, renders, files>>
      /\ analyses' = Append(analyses, "queued")
  BY DEF WorkflowInv, WorkflowTypes, RetryAnalysis, MayRetry
<1>2. analyses \in Seq(JobStates) /\ Len(analyses) \in Nat
  BY DEF WorkflowInv, WorkflowTypes
<1>3. LiveIn(renders) = {}
  BY <1>1, StagesWithoutLive
<1>4. "queued" \in JobStates
  BY DEF JobStates, Live, Pending
<1>5. /\ analyses' \in Seq(JobStates) /\ Len(analyses') = Len(analyses) + 1
  BY <1>1, <1>2, <1>4
<1>6. PICK new : /\ new = Unfailed([wf EXCEPT !.state = "analyzing", !.job = Len(analyses) + 1])
                 /\ at' = [phase |-> "write", current |-> TRUE, todo |-> new]
  BY DEF RetryAnalysis
<1>7. new \in Rows /\ new.state = "analyzing" /\ new.job = Len(analyses) + 1 /\ new.render = wf.render
  <2>1. PICK n \in Nat : n = Len(analyses) + 1
    BY <1>2
  <2> DEFINE moved == [wf EXCEPT !.state = "analyzing", !.job = n]
  <2>2. moved \in Rows /\ moved.state = "analyzing" /\ moved.job = n /\ moved.render = wf.render
    BY <1>1 DEF Rows, Stages
  <2>3. new = Unfailed(moved)
    BY <1>6, <2>1
  <2> HIDE DEF moved
  <2> QED
    BY <2>1, <2>2, <2>3 DEF Unfailed, Rows
<1>8. RowNames(wf, input.export, analyses', renders, files)
  <2>1. RowNames(wf, input.export, analyses, renders, files) /\ wf.job \in Nat
    BY <1>1 DEF RowIsTrue, Rows
  <2>2. wf.job <= Len(analyses')
    BY <1>2, <1>5, <2>1 DEF RowNames
  <2> QED
    BY <1>1, <2>1, <2>2 DEF RowNames
<1>9. RowNames(new, input.export, analyses', renders, files)
  BY <1>5, <1>7, <1>8, <1>2 DEF RowNames, FailedIn
<1>10. /\ RowIsTrue(wf, input.export, analyses', renders, files)
       /\ RowIsTrue(new, input.export, analyses', renders, files)
  BY <1>3, <1>8, <1>9, NoneLive
<1>11. at' \in Positions /\ at'.phase = "write" /\ at'.current /\ at'.todo = new
  BY <1>6, <1>7 DEF Positions, Phases
<1>12. AdvanceHolds'
  BY <1>1, <1>7, <1>10, <1>11 DEF AdvanceHolds, Stages
<1>13. WorkflowTypes'
  BY <1>1, <1>5, <1>11 DEF WorkflowInv, WorkflowTypes
<1> QED
  BY <1>1, <1>10, <1>12, <1>13 DEF WorkflowInv

LEMMA RetryStageInv == ASSUME WorkflowInv, RetryStage PROVE WorkflowInv'
<1>1. /\ wf \in Rows /\ wf.state = "failed" /\ wf.retryable /\ at.phase = "idle"
      /\ RowIsTrue(wf, input.export, analyses, renders, files)
      /\ UNCHANGED <<input, at, dataVars>> /\ ~RendersAgain
      /\ wf' = Unfailed([wf EXCEPT !.state = RetryState,
                                   !.preflight = IF wf.failedAt = "preflighting" THEN 0 ELSE @])
  BY DEF WorkflowInv, WorkflowTypes, RetryStage, MayRetry
<1>2. LiveIn(renders) = {}
  BY <1>1 DEF RowIsTrue, AccountsFor, LiveIn, RendersAgain
<1>3. PICK s : s = RetryState
  OBVIOUS
<1>4. /\ s \in {"exporting", "preflighting", "assembling_draft", "selecting_candidate", "importing"}
      /\ s = "exporting" => wf.failedAt = "exporting"
  BY <1>1, <1>3 DEF RetryState, Rows, Reached
<1>5. PICK p : p = IF wf.failedAt = "preflighting" THEN 0 ELSE wf.preflight
  OBVIOUS
<1>6. p \in Nat
  BY <1>1, <1>5 DEF Rows
<1> DEFINE moved == [wf EXCEPT !.state = s, !.preflight = p]
<1>7. moved \in Rows /\ moved.state = s /\ moved.job = wf.job /\ moved.render = wf.render
  BY <1>1, <1>4, <1>6 DEF Rows, Stages
<1>8. wf' = Unfailed(moved)
  BY <1>1, <1>3, <1>5
<1> HIDE DEF moved
<1>9. wf' \in Rows /\ wf'.state = s /\ wf'.job = wf.job /\ wf'.render = wf.render
  BY <1>7, <1>8 DEF Unfailed, Rows
<1>10. RowNames(wf', input.export, analyses, renders, files)
  BY <1>1, <1>4, <1>9 DEF RowIsTrue, RowNames, FailedIn
<1>11. RowIsTrue(wf', input.export, analyses, renders, files)
  BY <1>2, <1>10, NoneLive
<1>12. AdvanceHolds'
  BY <1>1 DEF AdvanceHolds
<1>13. WorkflowTypes'
  BY <1>1, <1>9 DEF WorkflowInv, WorkflowTypes, dataVars
<1> QED
  BY <1>1, <1>11, <1>12, <1>13 DEF WorkflowInv, dataVars

LEMMA CancelledJobs ==
  ASSUME NEW state \in JobStates
  PROVE  /\ Cancelled(state) \in JobStates /\ Cancelled(state) \notin Pending
         /\ state \notin Pending => Cancelled(state) = state
         /\ state \in Pending => Cancelled(state) \in {"cancelled", "cancelling"}
BY DEF Cancelled, JobStates, Live, Pending

\* What cancelling jobs does to the lists of them.
LEMMA AnalysisCancels ==
  ASSUME WorkflowInv, NEW j \in Nat, CancelAnalysisJob(j)
  PROVE  /\ analyses' \in Seq(JobStates) /\ Len(analyses') = Len(analyses)
         /\ \A i \in 1..Len(analyses) : analyses[i] \notin Pending => analyses'[i] \notin Pending
         /\ j \in 1..Len(analyses) => analyses'[j] \notin Pending
<1>1. analyses \in [1..Len(analyses) -> JobStates] /\ Len(analyses) \in Nat /\ analyses \in Seq(JobStates)
  BY DEF WorkflowInv, WorkflowTypes
<1>2. CASE j = 0 \/ j \notin 1..Len(analyses)
  <2>1. analyses' = analyses
    BY <1>1, <1>2 DEF CancelAnalysisJob
  <2> QED
    BY <1>1, <1>2, <2>1
<1>3. CASE j # 0 /\ j \in 1..Len(analyses)
  <2>1. PICK c : c = Cancelled(analyses[j])
    OBVIOUS
  <2>2. analyses' = [analyses EXCEPT ![j] = c]
    BY <1>3, <2>1 DEF CancelAnalysisJob
  <2>3. c \in JobStates /\ c \notin Pending
    BY <1>1, <1>3, <2>1, CancelledJobs
  <2>4. analyses' \in [1..Len(analyses) -> JobStates]
    BY <1>1, <2>2, <2>3
  <2>5. analyses' \in Seq(JobStates) /\ Len(analyses') = Len(analyses)
    BY <1>1, <2>4
  <2> QED
    BY <1>1, <1>3, <2>2, <2>3, <2>5
<1> QED
  BY <1>2, <1>3

LEMMA FunctionsAreSequences ==
  ASSUME NEW S, NEW n \in Nat, NEW f \in [1..n -> S]
  PROVE  f \in Seq(S) /\ Len(f) = n
OBVIOUS

Changed(R, Q, r, state, output) == Q = [R EXCEPT ![r].state = state, ![r].output = output]

\* One attempt is further on, the others are as they were.
LEMMA OneAttemptLater ==
  ASSUME NEW R \in Seq(Attempts), NEW s, AttemptsInOrder(R, s), NEW r \in 1..Len(R),
         NEW state \in JobStates, NEW output \in BOOLEAN, NEW Q,
         Changed(R, Q, r, state, output),
         R[r].state \notin Pending => state \notin Pending,
         R[r].output => output,
         R[r].state \in {"failed", "cancelled"} => state = R[r].state,
         state \in Live => R[r].state \in Live,
         state = "succeeded" => output,
         output => state \in {"succeeded", "stale"}
  PROVE  /\ Q \in Seq(Attempts) /\ Len(Q) = Len(R) /\ \A i \in 1..Len(R) : Later(R[i], Q[i])
         /\ Q[r].state = state
<1>1. R \in [1..Len(R) -> Attempts] /\ Len(R) \in Nat
  OBVIOUS
<1>2. PICK a : a = [R[r] EXCEPT !.state = state, !.output = output]
  OBVIOUS
<1>3. R[r] \in Attempts
  BY <1>1
<1>4. /\ a \in Attempts /\ a.state = state /\ a.output = output
      /\ a.revision = R[r].revision /\ a.lineage = R[r].lineage
  BY <1>2, <1>3 DEF Attempts
<1>5. Q = [R EXCEPT ![r] = a]
  BY <1>1, <1>2, <1>3 DEF Attempts, Changed
<1>6. Q \in [1..Len(R) -> Attempts] /\ Q[r] = a /\ \A i \in 1..Len(R) \ {r} : Q[i] = R[i]
  BY <1>1, <1>4, <1>5
<1>7. Q \in Seq(Attempts) /\ Len(Q) = Len(R)
  <2>1. PICK n \in Nat : n = Len(R)
    BY <1>1
  <2>2. Q \in [1..n -> Attempts]
    BY <1>6, <2>1
  <2>3. Q \in Seq(Attempts) /\ Len(Q) = n
    BY <2>1, <2>2, FunctionsAreSequences, Zenon
  <2> QED
    BY <2>1, <2>3
<1>8. \A i \in 1..Len(R) : Later(R[i], R[i])
  BY DEF AttemptsInOrder, Later
<1>9. Later(R[r], Q[r])
  BY <1>4, <1>6 DEF Later
<1> QED
  BY <1>4, <1>6, <1>7, <1>8, <1>9

LEMMA AttemptCancels ==
  ASSUME WorkflowInv, NEW r \in Nat, CancelRenderJob(r)
  PROVE  /\ renders' \in Seq(Attempts) /\ Len(renders') = Len(renders)
         /\ \A i \in 1..Len(renders) : Later(renders[i], renders'[i])
         /\ r \in 1..Len(renders) => renders'[r].state \notin Pending
<1>1. /\ renders \in [1..Len(renders) -> Attempts] /\ renders \in Seq(Attempts) /\ Len(renders) \in Nat
      /\ AttemptsInOrder(renders, short)
  BY DEF WorkflowInv, WorkflowTypes
<1>2. CASE r = 0 \/ r \notin 1..Len(renders)
  <2>1. renders' = renders
    BY <1>1, <1>2 DEF CancelRenderJob
  <2>2. \A i \in 1..Len(renders) : Later(renders[i], renders[i])
    BY <1>1 DEF AttemptsInOrder, Later
  <2> QED
    BY <1>1, <1>2, <2>1, <2>2
<1>3. CASE r # 0 /\ r \in 1..Len(renders)
  <2>1. PICK c : c = Cancelled(renders[r].state)
    OBVIOUS
  <2>2. renders' = [renders EXCEPT ![r].state = c]
    BY <1>3, <2>1 DEF CancelRenderJob
  <2>3. renders[r] \in Attempts
    BY <1>1, <1>3
  <2>4. renders[r].state \in JobStates /\ renders[r].output \in BOOLEAN
    BY <2>3 DEF Attempts
  <2>5. /\ c \in JobStates /\ c \notin Pending /\ (renders[r].state \notin Pending => c = renders[r].state)
        /\ (renders[r].state \in Pending => c \in {"cancelled", "cancelling"})
    BY <2>1, <2>4, CancelledJobs
  <2>6. PICK o \in BOOLEAN : o = renders[r].output
    BY <2>4
  <2>13. renders' = [renders EXCEPT ![r].state = c, ![r].output = o]
    BY <1>1, <1>3, <2>2, <2>3, <2>6 DEF Attempts
  <2>7. /\ renders[r].state = "succeeded" => renders[r].output
        /\ renders[r].output => renders[r].state \in {"succeeded", "stale"}
    BY <1>1, <1>3 DEF AttemptsInOrder
  <2>8. c \in Live => renders[r].state \in Live
    BY <2>4, <2>5 DEF Live, Pending
  <2>9. c = "succeeded" => o
    BY <2>5, <2>6, <2>7
  <2>10. o => c \in {"succeeded", "stale"}
    BY <2>5, <2>6, <2>7 DEF Pending
  <2>11. renders[r].state \in {"failed", "cancelled"} => c = renders[r].state
    BY <2>5 DEF Pending
  <2>14. renders[r].output => o
    BY <2>6
  <2>15. PICK Q : Q = renders'
    OBVIOUS
  <2>12. /\ Q \in Seq(Attempts) /\ Len(Q) = Len(renders)
         /\ \A i \in 1..Len(renders) : Later(renders[i], Q[i])
         /\ Q[r].state = c
    <3>1. Changed(renders, Q, r, c, o)
      BY <2>13, <2>15 DEF Changed
    <3>2. renders[r].state \notin Pending => c \notin Pending
      BY <2>5
    <3>3. c \in JobStates
      BY <2>5
    <3> QED
      BY <1>1, <1>3, <2>6, <2>8, <2>9, <2>10, <2>11, <2>14, <3>1, <3>2, <3>3, OneAttemptLater
  <2> QED
    BY <2>5, <2>12, <2>15
<1> QED
  BY <1>2, <1>3

\* Jobs that run on by themselves leave the invariant alone, while the row
\* and advance() stay as they are, or advance() is stopped.
LEMMA JobsRunSoundly ==
  ASSUME WorkflowInv,
         \/ UNCHANGED at /\ at.phase # "write"
         \/ at' = Idle,
         UNCHANGED <<input, wf, files>>,
         analyses' \in Seq(JobStates), Len(analyses') = Len(analyses),
         \A i \in 1..Len(analyses) : analyses[i] \notin Pending => analyses'[i] \notin Pending,
         renders' \in Seq(Attempts), Len(renders') = Len(renders),
         \A i \in 1..Len(renders) : Later(renders[i], renders'[i]),
         short' \in [revision : Nat, approved : BOOLEAN], short.revision <= short'.revision,
         short'.approved => short'.revision # 0
  PROVE  WorkflowInv'
<1>1. /\ wf \in Rows /\ input.export \in BOOLEAN /\ analyses \in Seq(JobStates)
      /\ renders \in Seq(Attempts) /\ short \in [revision : Nat, approved : BOOLEAN]
      /\ RowIsTrue(wf, input.export, analyses, renders, files) /\ AttemptsInOrder(renders, short)
  BY DEF WorkflowInv, WorkflowTypes
<1>2. Len(analyses) <= Len(analyses')
  BY <1>1
<1>3. RowIsTrue(wf, input.export, analyses', renders', files)
  BY <1>1, <1>2, RowStaysTrue
<1>4. AttemptsInOrder(renders', short')
  BY <1>1, OrderStays
<1>5. at' \in Positions /\ AdvanceHolds'
  <2>1. CASE UNCHANGED at /\ at.phase # "write"
    BY <2>1 DEF WorkflowInv, WorkflowTypes, AdvanceHolds
  <2>2. CASE at' = Idle
    BY <2>2, IdleHolds
  <2> QED
    BY <2>1, <2>2
<1>6. WorkflowTypes'
  BY <1>5 DEF WorkflowInv, WorkflowTypes
<1> QED
  BY <1>3, <1>4, <1>5, <1>6 DEF WorkflowInv

LEMMA CancelInv == ASSUME WorkflowInv, Cancel PROVE WorkflowInv'
<1>1. /\ wf \in Rows /\ wf.state \in Stages /\ at \in Positions /\ Interruptible
      /\ RowIsTrue(wf, input.export, analyses, renders, files)
      /\ UNCHANGED <<input, transcript, short, files>>
      /\ CancelAnalysisJob(wf.job) /\ CancelRenderJob(wf.render)
      /\ wf' = [wf EXCEPT !.state = "cancelled"] /\ at' = [at EXCEPT !.current = FALSE]
  BY DEF WorkflowInv, WorkflowTypes, Cancel, WorkflowActive
<1>2. wf.job \in Nat /\ wf.render \in Nat
  BY <1>1 DEF Rows
<1>3. /\ analyses' \in Seq(JobStates) /\ Len(analyses') = Len(analyses)
      /\ wf.job \in 1..Len(analyses) => analyses'[wf.job] \notin Pending
  BY <1>1, <1>2, AnalysisCancels
<1>4. /\ renders' \in Seq(Attempts) /\ Len(renders') = Len(renders)
      /\ \A i \in 1..Len(renders) : Later(renders[i], renders'[i])
      /\ wf.render \in 1..Len(renders) => renders'[wf.render].state \notin Pending
  BY <1>1, <1>2, AttemptCancels
<1>5. wf' \in Rows /\ wf'.state = "cancelled" /\ wf'.job = wf.job /\ wf'.render = wf.render
  BY <1>1 DEF Rows, FinalStates
<1>6. wf.job <= Len(analyses) /\ wf.render <= Len(renders)
  BY <1>1 DEF RowIsTrue, RowNames
<1>7. /\ wf.job # 0 => wf.job \in 1..Len(analyses)
      /\ wf.render # 0 => wf.render \in 1..Len(renders)
  BY <1>2, <1>6 DEF WorkflowInv, WorkflowTypes
<1>8. RowNames(wf', input.export, analyses', renders', files)
  BY <1>3, <1>4, <1>5, <1>6, <1>7 DEF RowNames, FailedIn
<1>9. RowIsTrue(wf', input.export, analyses', renders', files)
  BY <1>5, <1>8 DEF RowIsTrue, AccountsFor
<1>10. AttemptsInOrder(renders', short)
  <2>1. /\ renders \in Seq(Attempts) /\ short \in [revision : Nat, approved : BOOLEAN]
        /\ AttemptsInOrder(renders, short)
    BY DEF WorkflowInv, WorkflowTypes
  <2>2. short.revision <= short.revision /\ (short.approved => short.revision # 0)
    BY <2>1 DEF AttemptsInOrder
  <2> QED
    BY <1>4, <2>1, <2>2, OrderStays
<1>11. at' \in Positions /\ ~at'.current /\ at'.phase = at.phase
  BY <1>1 DEF Positions
<1>12. AdvanceHolds'
  BY <1>1, <1>5, <1>11 DEF AdvanceHolds, Interruptible
<1>13. WorkflowTypes'
  BY <1>1, <1>3, <1>4, <1>5, <1>11 DEF WorkflowInv, WorkflowTypes
<1> QED
  BY <1>1, <1>9, <1>10, <1>12, <1>13 DEF WorkflowInv

\* Every attempt is where it was or further on.
LEMMA EachAttemptLater ==
  ASSUME NEW R \in Seq(Attempts), NEW s, AttemptsInOrder(R, s), NEW Q, DOMAIN Q = 1..Len(R),
         Q = [r \in DOMAIN R |-> Q[r]],
         \A r \in 1..Len(R) : Q[r] \in Attempts /\ Later(R[r], Q[r])
  PROVE  Q \in Seq(Attempts) /\ Len(Q) = Len(R)
<1>1. PICK n \in Nat : n = Len(R)
  OBVIOUS
<1>2. Q \in [1..n -> Attempts]
  BY <1>1
<1>3. Q \in Seq(Attempts) /\ Len(Q) = n
  BY <1>2, FunctionsAreSequences
<1> QED
  BY <1>1, <1>3

LEMMA AnalysesStay ==
  ASSUME WorkflowInv
  PROVE  /\ analyses \in Seq(JobStates) /\ DOMAIN analyses = 1..Len(analyses) /\ Len(analyses) \in Nat
         /\ analyses \in [1..Len(analyses) -> JobStates]
         /\ \A i \in 1..Len(analyses) : analyses[i] \in JobStates
BY DEF WorkflowInv, WorkflowTypes

LEMMA AttemptsStay ==
  ASSUME WorkflowInv
  PROVE  /\ renders \in Seq(Attempts) /\ DOMAIN renders = 1..Len(renders) /\ Len(renders) \in Nat
         /\ renders \in [1..Len(renders) -> Attempts]
         /\ AttemptsInOrder(renders, short)
         /\ \A i \in 1..Len(renders) : renders[i] \in Attempts /\ Later(renders[i], renders[i])
<1>1. renders \in Seq(Attempts) /\ AttemptsInOrder(renders, short)
  BY DEF WorkflowInv, WorkflowTypes
<1>2. \A i \in 1..Len(renders) : Later(renders[i], renders[i])
  BY <1>1 DEF AttemptsInOrder, Later
<1> QED
  BY <1>1, <1>2

LEMMA ShortStays ==
  ASSUME WorkflowInv
  PROVE  /\ short \in [revision : Nat, approved : BOOLEAN] /\ short.revision <= short.revision
         /\ short.approved => short.revision # 0
<1>1. short \in [revision : Nat, approved : BOOLEAN] /\ AttemptsInOrder(renders, short)
  BY DEF WorkflowInv, WorkflowTypes
<1> QED
  BY <1>1 DEF AttemptsInOrder

LEMMA AnalysisRunsInv == ASSUME WorkflowInv, AnalysisRuns PROVE WorkflowInv'
<1>1. UNCHANGED <<input, wf, at, short, renders, files>> /\ at.phase # "write"
  BY DEF AnalysisRuns, Interruptible
<1>2. PICK j \in 1..Len(analyses), verdict \in JobStates :
        /\ analyses' = [analyses EXCEPT ![j] = verdict]
        /\ analyses[j] \notin Pending => verdict \notin Pending
  BY AnalysesStay DEF AnalysisRuns, JobStates, Live, Pending
<1>3. PICK n \in Nat : n = Len(analyses)
  BY AnalysesStay
<1>4. analyses' \in [1..n -> JobStates]
  BY <1>2, <1>3, AnalysesStay
<1>5. analyses' \in Seq(JobStates) /\ Len(analyses') = Len(analyses)
  BY <1>3, <1>4, FunctionsAreSequences
<1>6. \A i \in 1..Len(analyses) : analyses[i] \notin Pending => analyses'[i] \notin Pending
  BY <1>2, AnalysesStay
<1> QED
  BY <1>1, <1>5, <1>6, AttemptsStay, ShortStays, JobsRunSoundly

LEMMA RenderRunsInv == ASSUME WorkflowInv, RenderRuns PROVE WorkflowInv'
<1>1. UNCHANGED <<input, wf, at, analyses, short, files>> /\ at.phase # "write"
  BY DEF RenderRuns, Interruptible
<1>2. PICK r \in 1..Len(renders) :
         \/ /\ renders[r].state = "queued"
            /\ renders' = [renders EXCEPT ![r].state = "running"]
         \/ /\ renders[r].state = "running"
            /\ renders' = [renders EXCEPT ![r].state = IF Holds(r) THEN "succeeded" ELSE "stale",
                                          ![r].output = Holds(r)]
         \/ /\ renders[r].state = "running"
            /\ renders' = [renders EXCEPT ![r].state = "failed"]
         \/ /\ renders[r].state = "cancelling"
            /\ renders' = [renders EXCEPT ![r].state = "cancelled"]
  BY AttemptsStay DEF RenderRuns
<1>3. renders[r].state \in Live /\ renders[r].output = FALSE
  <2>1. renders[r].state \in {"queued", "running", "cancelling"}
    BY <1>2
  <2>2. renders[r] \in Attempts /\ ~renders[r].output
    BY <2>1, AttemptsStay DEF AttemptsInOrder
  <2> QED
    BY <2>1, <2>2 DEF Attempts, Live, Pending
<1>4. ASSUME NEW state \in {"running", "failed", "cancelled"},
             renders' = [renders EXCEPT ![r].state = state]
      PROVE  Changed(renders, renders', r, state, FALSE)
  BY <1>3, <1>4, AttemptsStay DEF Changed, Attempts
<1>5. PICK holds \in BOOLEAN : holds = Holds(r)
  BY DEF Holds
<1>6. ASSUME NEW state \in JobStates, NEW output \in BOOLEAN,
             Changed(renders, renders', r, state, output),
             renders[r].state \notin Pending => state \notin Pending,
             state \notin Live \/ state = "running",
             state = "succeeded" => output,
             output => state \in {"succeeded", "stale"}
      PROVE  WorkflowInv'
  <2>1. PICK Q : Q = renders'
    OBVIOUS
  <2>2. Changed(renders, Q, r, state, output)
    BY <1>6, <2>1
  <2>3. renders[r].state \notin {"failed", "cancelled"} /\ ~renders[r].output
    BY <1>3 DEF Live, Pending
  <2>4. /\ Q \in Seq(Attempts) /\ Len(Q) = Len(renders)
        /\ \A i \in 1..Len(renders) : Later(renders[i], Q[i])
    BY <1>3, <1>6, <2>2, <2>3, AttemptsStay, OneAttemptLater
  <2> QED
    BY <1>1, <2>1, <2>4, AnalysesStay, ShortStays, JobsRunSoundly
<1>7. CASE renders[r].state = "queued" /\ renders' = [renders EXCEPT ![r].state = "running"]
  <2>1. Changed(renders, renders', r, "running", FALSE)
    BY <1>4, <1>7
  <2>2. "running" \in JobStates /\ renders[r].state \in Pending
    BY <1>7 DEF JobStates, Live, Pending
  <2> QED
    BY <1>6, <2>1, <2>2
<1>8. CASE renders' = [renders EXCEPT ![r].state = IF Holds(r) THEN "succeeded" ELSE "stale",
                                      ![r].output = Holds(r)]
  <2>1. PICK state \in {"succeeded", "stale"} : state = IF holds THEN "succeeded" ELSE "stale"
    OBVIOUS
  <2>2. Changed(renders, renders', r, state, holds)
    BY <1>5, <1>8, <2>1 DEF Changed
  <2>3. state \in JobStates /\ state \notin Pending /\ state \notin Live /\ (state = "succeeded" => holds)
    BY <2>1 DEF JobStates, Live, Pending
  <2> QED
    BY <1>6, <2>1, <2>2, <2>3
<1>9. ASSUME NEW state \in {"failed", "cancelled"}, renders' = [renders EXCEPT ![r].state = state]
      PROVE  WorkflowInv'
  <2>1. Changed(renders, renders', r, state, FALSE)
    BY <1>4, <1>9
  <2>2. state \in JobStates /\ state \notin Pending /\ state \notin Live /\ state # "succeeded"
    BY <1>9 DEF JobStates, Live, Pending
  <2> QED
    BY <1>6, <2>1, <2>2
<1> QED
  BY <1>2, <1>7, <1>8, <1>9

LEMMA EditShortInv == ASSUME WorkflowInv, EditShort PROVE WorkflowInv'
<1>1. /\ UNCHANGED <<input, wf, at, analyses, files>> /\ at.phase # "write"
      /\ short' = [revision |-> short.revision + 1, approved |-> FALSE]
      /\ renders' = [r \in DOMAIN renders |->
                       IF renders[r].state = "succeeded"
                       THEN [renders[r] EXCEPT !.state = "stale"] ELSE renders[r]]
  BY DEF EditShort, Interruptible
<1>2. /\ short' \in [revision : Nat, approved : BOOLEAN] /\ short.revision <= short'.revision
      /\ ~short'.approved
  BY <1>1, ShortStays
<1>3. ASSUME NEW r \in 1..Len(renders)
      PROVE  renders'[r] \in Attempts /\ Later(renders[r], renders'[r])
  <2>1. renders[r] \in Attempts /\ Later(renders[r], renders[r])
    BY AttemptsStay
  <2>2. CASE renders[r].state = "succeeded"
    <3>1. renders'[r] = [renders[r] EXCEPT !.state = "stale"]
      BY <1>1, <2>2, AttemptsStay
    <3>2. renders[r].output
      BY <2>1, <2>2 DEF Later
    <3>3. /\ renders'[r] \in Attempts /\ renders'[r].state = "stale" /\ renders'[r].output = renders[r].output
          /\ renders'[r].revision = renders[r].revision /\ renders'[r].lineage = renders[r].lineage
      BY <2>1, <3>1 DEF Attempts, JobStates
    <3> QED
      BY <2>2, <3>2, <3>3 DEF Later, Live, Pending
  <2>3. CASE renders[r].state # "succeeded"
    BY <1>1, <2>1, <2>3, AttemptsStay
  <2> QED
    BY <2>2, <2>3
<1>4. PICK Q : Q = renders'
  OBVIOUS
<1>5. DOMAIN Q = 1..Len(renders) /\ Q = [r \in DOMAIN renders |-> Q[r]]
  BY <1>1, <1>4, AttemptsStay
<1>6. Q \in Seq(Attempts) /\ Len(Q) = Len(renders)
  BY <1>3, <1>4, <1>5, AttemptsStay, EachAttemptLater
<1> QED
  BY <1>1, <1>2, <1>3, <1>4, <1>6, AnalysesStay, JobsRunSoundly

LEMMA OperatorCancelsInv == ASSUME WorkflowInv, OperatorCancels PROVE WorkflowInv'
<1>1. UNCHANGED <<input, wf, at, short, files>> /\ at.phase # "write"
  BY DEF OperatorCancels, Interruptible
<1>2. CASE \E j \in DOMAIN analyses : CancelAnalysisJob(j) /\ UNCHANGED renders
  <2>1. PICK j \in Nat : CancelAnalysisJob(j) /\ UNCHANGED renders
    BY <1>2, AnalysesStay
  <2>2. /\ analyses' \in Seq(JobStates) /\ Len(analyses') = Len(analyses)
        /\ \A i \in 1..Len(analyses) : analyses[i] \notin Pending => analyses'[i] \notin Pending
    BY <2>1, AnalysisCancels
  <2> QED
    BY <1>1, <2>1, <2>2, AttemptsStay, ShortStays, JobsRunSoundly
<1>3. CASE \E r \in DOMAIN renders : CancelRenderJob(r) /\ UNCHANGED analyses
  <2>1. PICK r \in Nat : CancelRenderJob(r) /\ UNCHANGED analyses
    BY <1>3, AttemptsStay
  <2>2. /\ renders' \in Seq(Attempts) /\ Len(renders') = Len(renders)
        /\ \A i \in 1..Len(renders) : Later(renders[i], renders'[i])
    BY <2>1, AttemptCancels
  <2> QED
    BY <1>1, <2>1, <2>2, AnalysesStay, ShortStays, JobsRunSoundly
<1> QED
  BY <1>2, <1>3 DEF OperatorCancels

LEMMA DieInv == ASSUME WorkflowInv, Die PROVE WorkflowInv'
<1>1. /\ UNCHANGED <<input, wf, short, files>> /\ at' = Idle
      /\ analyses' = [j \in DOMAIN analyses |->
                    CASE analyses[j] = "cancelling" -> "cancelled"
                      [] analyses[j] = "running"    -> "queued"
                      [] OTHER                      -> analyses[j]]
      /\ renders' = [r \in DOMAIN renders |->
                    [renders[r] EXCEPT !.state = CASE @ = "cancelling" -> "cancelled"
                                                   [] @ = "running"    -> "failed"
                                                   [] OTHER            -> @]]
  BY DEF Die, Dies, Restarted
<1>2. ASSUME NEW j \in 1..Len(analyses)
      PROVE  analyses'[j] \in JobStates /\ (analyses[j] \notin Pending => analyses'[j] \notin Pending)
  <2>1. analyses[j] \in JobStates
    BY AnalysesStay
  <2>2. analyses'[j] = CASE analyses[j] = "cancelling" -> "cancelled"
                         [] analyses[j] = "running"    -> "queued"
                         [] OTHER                      -> analyses[j]
    BY <1>1, AnalysesStay
  <2> QED
    BY <2>1, <2>2 DEF JobStates, Live, Pending
<1>3. PICK n \in Nat : n = Len(analyses)
  BY AnalysesStay
<1>4. DOMAIN analyses' = 1..n /\ analyses' = [j \in 1..n |-> analyses'[j]]
  BY <1>1, <1>3, AnalysesStay
<1>5. analyses' \in [1..n -> JobStates]
  BY <1>2, <1>3, <1>4
<1>6. analyses' \in Seq(JobStates) /\ Len(analyses') = Len(analyses)
  BY <1>3, <1>5, FunctionsAreSequences
<1>7. ASSUME NEW r \in 1..Len(renders)
      PROVE  renders'[r] \in Attempts /\ Later(renders[r], renders'[r])
  <2>1. renders[r] \in Attempts /\ Later(renders[r], renders[r])
    BY AttemptsStay
  <2>2. PICK s : s = CASE renders[r].state = "cancelling" -> "cancelled"
                       [] renders[r].state = "running"    -> "failed"
                       [] OTHER                           -> renders[r].state
    OBVIOUS
  <2>3. renders'[r] = [renders[r] EXCEPT !.state = s]
    BY <1>1, <2>2, AttemptsStay
  <2>4. renders[r].state \in JobStates
    BY <2>1 DEF Attempts
  <2>5. /\ s \in JobStates
        /\ \/ s = renders[r].state
           \/ renders[r].state \in {"running", "cancelling"} /\ s \in {"failed", "cancelled"}
    BY <2>2, <2>4 DEF JobStates, Live, Pending
  <2>6. /\ renders'[r] \in Attempts /\ renders'[r].state = s /\ renders'[r].output = renders[r].output
        /\ renders'[r].revision = renders[r].revision /\ renders'[r].lineage = renders[r].lineage
    BY <2>1, <2>3, <2>5 DEF Attempts
  <2>7. CASE s = renders[r].state
    BY <2>1, <2>6, <2>7 DEF Later
  <2>8. CASE renders[r].state \in {"running", "cancelling"} /\ s \in {"failed", "cancelled"}
    BY <2>1, <2>6, <2>8 DEF Later, Live, Pending
  <2> QED
    BY <2>5, <2>6, <2>7, <2>8
<1>8. PICK Q : Q = renders'
  OBVIOUS
<1>9. DOMAIN Q = 1..Len(renders) /\ Q = [r \in DOMAIN renders |-> Q[r]]
  BY <1>1, <1>8, AttemptsStay
<1>10. Q \in Seq(Attempts) /\ Len(Q) = Len(renders)
  BY <1>7, <1>8, <1>9, AttemptsStay, EachAttemptLater
<1> QED
  BY <1>1, <1>2, <1>6, <1>7, <1>8, <1>10, ShortStays, JobsRunSoundly

LEMMA DieInCancelInv == ASSUME WorkflowInv, DieInCancel PROVE WorkflowInv'
<1>1. /\ UNCHANGED <<input, wf, short, files>> /\ at' = Idle
      /\ CancelAnalysisJob(wf.job) /\ CancelRenderJob(wf.render)
  BY DEF DieInCancel, Dies
<1>2. wf.job \in Nat /\ wf.render \in Nat
  BY DEF WorkflowInv, WorkflowTypes, Rows
<1>3. /\ analyses' \in Seq(JobStates) /\ Len(analyses') = Len(analyses)
      /\ \A i \in 1..Len(analyses) : analyses[i] \notin Pending => analyses'[i] \notin Pending
  BY <1>1, <1>2, AnalysisCancels
<1>4. /\ renders' \in Seq(Attempts) /\ Len(renders') = Len(renders)
      /\ \A i \in 1..Len(renders) : Later(renders[i], renders'[i])
  BY <1>1, <1>2, AttemptCancels
<1> QED
  BY <1>1, <1>3, <1>4, ShortStays, JobsRunSoundly

LEMMA NextWorkflowInv == WorkflowInv /\ [WorkflowNext]_workflowVars => WorkflowInv'
<1> SUFFICES ASSUME WorkflowInv, [WorkflowNext]_workflowVars PROVE WorkflowInv'
  OBVIOUS
<1>1. CASE AdvanceStep
  <2>1. CASE Import
    BY <2>1, AwaitsInv, SyncRow DEF Import
  <2>2. CASE Export
    BY <2>2, AwaitsInv, SyncRow DEF Export
  <2> QED
    BY <1>1, <2>1, <2>2, AdvanceInv, WriteInv, RestInv, ImportEndsInv, AnalysisEndedInv,
       SelectCandidateInv, AssembleDraftInv, ApproveInv, ReattachInv, BeginPreflightInv,
       PreflightEndsInv, StartRenderInv, RenderEndedInv, RecoveredInv, BeginCopyInv, EndCopyInv
       DEF AdvanceStep
<1>2. CASE AdvanceFault
  <2>1. ASSUME NEW retryable \in BOOLEAN, ImportFails(retryable) PROVE WorkflowInv'
    <3>1. at.phase = "import" /\ FailedWith(retryable) /\ UNCHANGED <<input, dataVars>>
      BY <2>1 DEF ImportFails
    <3>2. wf.state \in {"importing", "cancelled"}
      BY <3>1 DEF WorkflowInv, AdvanceHolds
    <3>3. WorkflowActive => wf.state = "importing"
      BY <3>2 DEF WorkflowActive, Stages
    <3>4. WorkflowActive => LiveIn(renders) = {}
      BY <3>3 DEF WorkflowInv, RowIsTrue, AccountsFor, LiveIn
    <3> QED
      BY <3>1, <3>4, FailsSoundly
  <2>2. CASE NoCandidate
    BY <2>2, FailsSoundly DEF NoCandidate
  <2>3. CASE PreflightFinds
    BY <2>3, FailsSoundly DEF PreflightFinds
  <2> QED
    BY <1>2, <2>1, <2>2, <2>3, CopyFailsInv DEF AdvanceFault
<1>3. CASE UserStep
  BY <1>3, ApproveDraftInv, RetryRenderInv, RetryAnalysisInv, RetryStageInv, CancelInv DEF UserStep
<1>4. CASE WorldStep
  BY <1>4, AnalysisRunsInv, RenderRunsInv, EditShortInv, OperatorCancelsInv, DieInv, DieInCancelInv
     DEF WorldStep
<1>5. CASE UNCHANGED workflowVars
  BY <1>5 DEF workflowVars, WorkflowInv, WorkflowTypes, AdvanceHolds
<1> QED
  BY <1>1, <1>2, <1>3, <1>4, <1>5 DEF WorkflowNext

\* A row names only jobs and attempts that exist, and keeps its type, whatever
\* is approved, retried, cancelled, edited or lost on the way.
THEOREM WorkflowTypeCorrect == WorkflowSpec => []WorkflowTypeOK
<1>1. WorkflowInv => WorkflowTypeOK
  <2> SUFFICES ASSUME WorkflowInv PROVE WorkflowTypeOK
    OBVIOUS
  <2>1. /\ wf \in Rows /\ Len(analyses) \in Nat /\ Len(renders) \in Nat /\ Len(files) = Len(renders)
        /\ analyses \in Seq(JobStates) /\ wf.job <= Len(analyses) /\ wf.render <= Len(renders)
    BY DEF WorkflowInv, WorkflowTypes, RowIsTrue, RowNames
  <2>2. wf.job \in 0..Len(analyses) /\ wf.render \in 0..Len(renders)
    BY <2>1 DEF Rows
  <2> QED
    BY <2>1, <2>2 DEF WorkflowTypeOK, Rows
<1> QED
  BY <1>1, InitWorkflowInv, NextWorkflowInv, PTL DEF WorkflowSpec

\* However a workflow is edited, retried, cancelled or killed, and an attempt
\* started just before a crash included, it never renders twice at a time.
THEOREM OneAttemptAtATime == WorkflowSpec => []OneLiveAttempt
<1>1. WorkflowInv => OneLiveAttempt
  <2> SUFFICES ASSUME WorkflowInv PROVE OneLiveAttempt
    OBVIOUS
  <2> DEFINE live == {r \in DOMAIN renders : renders[r].state \in Live}
  <2>1. live \subseteq {Len(renders)}
    BY AttemptsStay DEF AttemptsInOrder, LiveIn
  <2> HIDE DEF live
  <2>2. Cardinality({Len(renders)}) = 1 /\ IsFiniteSet({Len(renders)})
    BY FS_Singleton
  <2>3. Cardinality(live) <= 1
    BY <2>1, <2>2, FS_Subset
  <2> QED
    BY <2>3 DEF OneLiveAttempt, live
<1> QED
  BY <1>1, InitWorkflowInv, NextWorkflowInv, PTL DEF WorkflowSpec

\* A cancelled workflow has no job of its own still to run, and a completed one
\* has delivered what it was asked for, for any number of edits, retries and
\* deaths.
THEOREM SettledRowsTellTheTruth == WorkflowSpec => []SettledRowsAreTrue
<1>1. WorkflowInv => SettledRowsAreTrue
  BY
     DEF WorkflowInv, RowIsTrue, RowNames, SettledRowsAreTrue, CancelledWorkIsStopped,
         CompletedIsDelivered
<1> QED
  BY <1>1, InitWorkflowInv, NextWorkflowInv, PTL DEF WorkflowSpec
-----------------------------------------------------------------------------
(***************************************************************************)
(* The editor.  Revision and content are kept in pairs: what the editor    *)
(* shows, and what an answer brings, is the content of the revision it     *)
(* names, if that is still the current one.  An approval makes a revision  *)
(* with the content that is shown, and a save is newer than anything that  *)
(* could be applied before it, so that the answers may come in any order.  *)
(***************************************************************************)

Pair(revision, content) ==
    /\ revision <= server.revision
    /\ revision = server.revision => content = server.content

FlightStage(k) == flights[k].stage
Reply(k) == flights[k].short
HeldBack(k) == flights[k].held

Current(k) == FlightStage(k) = "sent" /\ flights[k].expected = server.revision

FlightTypes ==
    \A k \in Kinds :
        /\ FlightStage(k) \in {"none", "sent", "ok", "conflict"}
        /\ FlightStage(k) \in {"sent", "ok"} /\ k # "approve" => 
             HeldBack(k)[1] \in Contents /\ HeldBack(k)[3] \subseteq Sections
        /\ FlightStage(k) \in {"sent", "ok"} /\ k = "save" => flights[k].section \in Sections \cup {"reanalyze"}
        /\ FlightStage(k) \in {"sent", "ok"} /\ k = "approve" => flights[k].section = "approve"
        /\ FlightStage(k) = "sent" => flights[k].expected \in 0..server.revision
        /\ FlightStage(k) = "ok" => Reply(k).revision \in 1..server.revision /\ Reply(k).content \in Contents

EditorTypes ==
    /\ server \in [revision : 1..MaxRevision, content : Contents]
    /\ seen \in 1..MaxRevision
    /\ baseline \in Contents /\ draft \in Contents
    /\ history \in [entries : Seq(Contents), index : Nat]
    /\ history.index \in 1..Len(history.entries)
    /\ forced \subseteq Sections /\ conflict \in BOOLEAN /\ meant \in [Sections -> Nat]
    /\ DOMAIN flights = Kinds /\ flights = [k \in Kinds |-> flights[k]] /\ FlightTypes

PairsAreTrue ==
    /\ Pair(seen, baseline)
    /\ \A k \in {"save", "load"} : FlightStage(k) = "ok" => Pair(Reply(k).revision, Reply(k).content)

ApprovalsAreTrue ==
    /\ Current("approve") => seen = server.revision
    /\ Current("approve") /\ FlightStage("load") = "ok" => Reply("load").revision = server.revision
    /\ FlightStage("approve") = "ok" /\ Reply("approve").revision = server.revision =>
         /\ baseline = server.content
         /\ FlightStage("load") = "ok" => Reply("load").content = server.content

SavesAreNewer ==
    FlightStage("save") = "ok" =>
        /\ seen < Reply("save").revision
        /\ FlightStage("approve") = "ok" => Reply("approve").revision < Reply("save").revision

Target(section) == IF section = "reanalyze" THEN "composition" ELSE section

\* What the user means is in the draft, and in what a save or a load will
\* restore; and a save touches no section but its own.
DraftIsMeant == \A s \in Sections : meant[s] # Untouched => draft[s] = meant[s]

HeldIsMeant ==
    \A k \in {"save", "load"}, s \in Sections :
        FlightStage(k) \in {"sent", "ok"} /\ meant[s] # Untouched => HeldBack(k)[1][s] = meant[s]

SavesKeepSections ==
    /\ Current("save") => \A s \in Sections \ HeldBack("save")[2] : HeldBack("save")[1][s] = server.content[s]
    /\ FlightStage("save") = "ok" =>
         \A s \in Sections \ HeldBack("save")[2] :
            s # Target(flights["save"].section) => HeldBack("save")[1][s] = Reply("save").content[s]

Waits == Patient /\ (flights["load"] # NoFlight => conflict)

EditorInv ==
    /\ EditorTypes /\ PairsAreTrue /\ ApprovalsAreTrue /\ SavesAreNewer
    /\ DraftIsMeant /\ HeldIsMeant /\ SavesKeepSections /\ Waits

LEMMA KindsOfCalls == "save" \in Kinds /\ "load" \in Kinds /\ "approve" \in Kinds
BY DEF Kinds

LEMMA InitEditorInv == EditorInit => EditorInv
<1> SUFFICES ASSUME EditorInit PROVE EditorInv
  OBVIOUS
<1>1. PICK v \in Values, content \in Contents :
        /\ server = [revision |-> 1, content |-> content]
        /\ baseline = content /\ draft = content
        /\ history = [entries |-> <<content>>, index |-> 1]
  <2>1. PICK v \in Values : LET content == [s \in Sections |-> v] IN
           /\ server = [revision |-> 1, content |-> content]
           /\ baseline = content /\ draft = content
           /\ history = [entries |-> <<content>>, index |-> 1]
    BY DEF EditorInit
  <2>2. [s \in Sections |-> v] \in Contents
    BY DEF Contents
  <2> QED
    BY <2>1, <2>2
<1>2. MaxRevision \in Nat /\ 1 \in 1..MaxRevision
  BY EditorAssumption
<1>3. server \in [revision : 1..MaxRevision, content : Contents] /\ server.revision = 1 /\ server.content = content
  BY <1>1, <1>2
<1>4. /\ history \in [entries : Seq(Contents), index : Nat] /\ history.index \in 1..Len(history.entries)
  <2>1. <<content>> \in Seq(Contents) /\ Len(<<content>>) = 1
    BY <1>1
  <2> QED
    BY <1>1, <2>1
<1>5. /\ flights = [k \in Kinds |-> flights[k]] /\ DOMAIN flights = Kinds
      /\ \A k \in Kinds : flights[k] = NoFlight /\ FlightStage(k) = "none"
  BY DEF EditorInit, NoFlight, FlightStage
<1>6. FlightTypes
  BY <1>5 DEF FlightTypes
<1>12. meant \in [Sections -> Nat]
  BY DEF EditorInit, Untouched
<1>7. EditorTypes
  BY <1>1, <1>2, <1>3, <1>4, <1>5, <1>6, <1>12 DEF EditorTypes, EditorInit
<1>8. PairsAreTrue
  BY <1>1, <1>2, <1>3, <1>5, KindsOfCalls DEF PairsAreTrue, Pair, EditorInit
<1>9. ApprovalsAreTrue /\ SavesAreNewer /\ SavesKeepSections
  BY <1>5, KindsOfCalls DEF ApprovalsAreTrue, SavesAreNewer, SavesKeepSections, Current
<1>10. DraftIsMeant /\ HeldIsMeant
  BY <1>5, KindsOfCalls DEF DraftIsMeant, HeldIsMeant, EditorInit
<1>11. Waits
  BY <1>5, KindsOfCalls DEF Waits, Patient
<1> QED
  BY <1>7, <1>8, <1>9, <1>10, <1>11 DEF EditorInv

\* One call is begun, answered or ended; the others are as they were.
LEMMA OneCall ==
  ASSUME EditorInv, NEW k \in Kinds, NEW f, flights' = [flights EXCEPT ![k] = f]
  PROVE  /\ DOMAIN flights' = Kinds /\ flights' = [i \in Kinds |-> flights'[i]]
         /\ flights'[k] = f /\ \A i \in Kinds : i # k => flights'[i] = flights[i]
<1>1. DOMAIN flights = Kinds /\ flights = [i \in Kinds |-> flights[i]]
  BY DEF EditorInv, EditorTypes
<1> QED
  BY <1>1

LEMMA Ended == NoFlight.stage = "none"
BY DEF NoFlight

LEMMA EditorNumbers ==
  ASSUME EditorInv
  PROVE  /\ server.revision \in Nat /\ seen \in Nat /\ MaxRevision \in Nat
         /\ server.revision \in 1..MaxRevision /\ server.content \in Contents
         /\ \A k \in Kinds : /\ FlightStage(k) = "sent" => flights[k].expected \in Nat
                             /\ FlightStage(k) = "ok" => Reply(k).revision \in Nat
<1>1. MaxRevision \in Nat
  BY EditorAssumption
<1> QED
  BY <1>1 DEF EditorInv, EditorTypes, FlightTypes

\* What says nothing of the draft and its history.
CallsAreTrue == PairsAreTrue /\ ApprovalsAreTrue /\ SavesAreNewer /\ SavesKeepSections /\ Waits

LEMMA CallsStay ==
  ASSUME EditorInv, UNCHANGED <<server, seen, baseline, conflict, flights>>
  PROVE  CallsAreTrue' /\ FlightTypes'
BY
   DEF EditorInv, EditorTypes, CallsAreTrue, PairsAreTrue, ApprovalsAreTrue, SavesAreNewer,
       SavesKeepSections,
       Waits, Patient, Pair, Current, FlightStage, Reply, HeldBack, FlightTypes

LEMMA PushedHistory ==
  ASSUME EditorInv, NEW content \in Contents, history' = pushHistory(content)
  PROVE  /\ history' \in [entries : Seq(Contents), index : Nat]
         /\ history'.index \in 1..Len(history'.entries)
<1>1. /\ history \in [entries : Seq(Contents), index : Nat]
      /\ history.index \in 1..Len(history.entries)
  BY DEF EditorInv, EditorTypes
<1>2. CASE history.entries[history.index] = content
  BY <1>1, <1>2 DEF pushHistory
<1>3. CASE history.entries[history.index] # content
  <2>1. PICK kept : kept = SubSeq(history.entries, 1, history.index)
    OBVIOUS
  <2>2. kept \in Seq(Contents) /\ Len(kept) \in Nat
    <3>1. \A i \in 1..history.index : history.entries[i] \in Contents
      BY <1>1
    <3> QED
      BY <1>1, <2>1, <3>1
  <2>3. Append(kept, content) \in Seq(Contents) /\ Len(Append(kept, content)) = Len(kept) + 1
    BY <2>2
  <2>4. history' = [entries |-> Append(kept, content), index |-> Len(kept) + 1]
    BY <1>3, <2>1 DEF pushHistory
  <2>5. Len(kept) + 1 \in Nat /\ Len(kept) + 1 \in 1..(Len(kept) + 1)
    BY <2>2
  <2> QED
    BY <2>3, <2>4, <2>5
<1> QED
  BY <1>2, <1>3

LEMMA MeansSoundly ==
  ASSUME EditorInv, NEW content \in Contents, draft' = content, Means(content), UNCHANGED flights
  PROVE  DraftIsMeant' /\ HeldIsMeant' /\ meant' \in [Sections -> Nat]
<1>1. \A s \in Sections : meant'[s] = CASE Quiet /\ content[s] # baseline[s] -> content[s]
                                        [] ~Quiet /\ content[s] = draft[s]   -> meant[s]
                                        [] OTHER                             -> Untouched
  BY DEF Means
<1>4. meant' \in [Sections -> Nat]
  <2>1. meant \in [Sections -> Nat] /\ content \in [Sections -> Nat]
    BY EditorAssumption DEF EditorInv, EditorTypes, Contents
  <2>2. \A s \in Sections : meant'[s] \in Nat
    BY <1>1, <2>1 DEF Untouched
  <2> QED
    BY <2>2 DEF Means
<1>2. CASE Quiet
  <2>1. \A s \in Sections : meant'[s] # Untouched => meant'[s] = content[s]
    BY <1>1, <1>2
  <2>2. \A k \in Kinds : FlightStage(k)' = "none"
    BY <1>2, Ended DEF Quiet, FlightStage
  <2> QED
    BY <1>4, <2>1, <2>2, KindsOfCalls DEF DraftIsMeant, HeldIsMeant
<1>3. CASE ~Quiet
  <2>1. \A s \in Sections : meant'[s] # Untouched => meant'[s] = meant[s] /\ content[s] = draft[s]
    BY <1>1, <1>3
  <2> QED
    BY <1>4, <2>1 DEF EditorInv, DraftIsMeant, HeldIsMeant, FlightStage, HeldBack
<1> QED
  BY <1>2, <1>3

LEMMA CommitInv == ASSUME EditorInv, NEW s \in Sections, NEW v \in Values, commit(s, v) PROVE EditorInv'
<1>1. PICK next : next = [draft EXCEPT ![s] = v]
  OBVIOUS
<1>2. draft' = next /\ history' = pushHistory(next) /\ Means(next)
      /\ UNCHANGED <<server, seen, baseline, forced, conflict, flights>>
  BY <1>1 DEF commit
<1>3. next \in Contents
  BY <1>1 DEF EditorInv, EditorTypes, Contents
<1>4. CallsAreTrue' /\ FlightTypes'
  BY <1>2, CallsStay
<1>5. DraftIsMeant' /\ HeldIsMeant' /\ meant' \in [Sections -> Nat]
  BY <1>2, <1>3, MeansSoundly
<1>6. EditorTypes'
  BY <1>2, <1>3, <1>4, <1>5, PushedHistory DEF EditorInv, EditorTypes
<1> QED
  BY <1>4, <1>5, <1>6 DEF EditorInv, CallsAreTrue

LEMMA UndoOrRedoInv == ASSUME EditorInv, undoOrRedo PROVE EditorInv'
<1>1. PICK i \in DOMAIN history.entries :
         /\ history' = [history EXCEPT !.index = i] /\ draft' = history.entries[i]
         /\ Means(history.entries[i])
  BY DEF undoOrRedo
<1>2. UNCHANGED <<server, seen, baseline, forced, conflict, flights>>
  BY DEF undoOrRedo
<1>3. history \in [entries : Seq(Contents), index : Nat]
  BY DEF EditorInv, EditorTypes
<1>4. i \in 1..Len(history.entries) /\ i \in Nat /\ history.entries[i] \in Contents
  BY <1>1, <1>3
<1>5. PICK content \in Contents : content = history.entries[i]
  BY <1>4
<1>6. CallsAreTrue' /\ FlightTypes'
  BY <1>2, CallsStay
<1>7. DraftIsMeant' /\ HeldIsMeant' /\ meant' \in [Sections -> Nat]
  BY <1>1, <1>2, <1>5, MeansSoundly
<1>8. /\ history' \in [entries : Seq(Contents), index : Nat]
      /\ history'.index \in 1..Len(history'.entries)
  BY <1>1, <1>3, <1>4
<1>9. EditorTypes'
  BY <1>1, <1>2, <1>4, <1>6, <1>7, <1>8 DEF EditorInv, EditorTypes
<1> QED
  BY <1>6, <1>7, <1>9 DEF EditorInv, CallsAreTrue

LEMMA CallInv ==
  ASSUME EditorInv, Patient', NEW k \in Kinds, NEW section, Call(k, section),
         k = "save" => section \in Sections \cup {"reanalyze"},
         k = "approve" => section = "approve" /\ ~conflict,
         k = "load" => conflict
  PROVE  EditorInv'
<1>1. PICK f : f = [stage    |-> "sent",
                    section  |-> section,
                    expected |-> IF k = "load" THEN 0 ELSE seen,
                    held     |-> IF k = "approve" THEN <<>> ELSE <<draft, dirty, forced>>]
  OBVIOUS
<1>2. /\ flights' = [flights EXCEPT ![k] = f]
      /\ UNCHANGED <<server, seen, baseline, draft, history, forced, conflict, meant>>
  BY <1>1 DEF Call
<1>3. /\ f.stage = "sent" /\ f.section = section /\ f.expected = (IF k = "load" THEN 0 ELSE seen)
      /\ k # "approve" => f.held[1] = draft /\ f.held[2] = dirty /\ f.held[3] = forced
  BY <1>1
<1>4. /\ DOMAIN flights' = Kinds /\ flights' = [i \in Kinds |-> flights'[i]]
      /\ flights'[k] = f /\ \A i \in Kinds : i # k => flights'[i] = flights[i]
  BY <1>2, OneCall
<1>5. /\ EditorTypes /\ PairsAreTrue /\ ApprovalsAreTrue /\ SavesAreNewer
      /\ DraftIsMeant /\ HeldIsMeant /\ SavesKeepSections /\ Waits
  BY DEF EditorInv
<1>6. seen \in 0..server.revision
  BY <1>5, EditorNumbers DEF PairsAreTrue, Pair
<1>7. FlightTypes'
  BY <1>2, <1>3, <1>4, <1>5, <1>6, EditorNumbers
     DEF FlightTypes, EditorTypes, FlightStage, HeldBack, Reply
<1>8. EditorTypes'
  BY <1>2, <1>4, <1>5, <1>7 DEF EditorTypes
<1>9. PairsAreTrue'
  BY <1>2, <1>3, <1>4, <1>5 DEF PairsAreTrue, Pair, FlightStage, Reply, Kinds
<1>10. ApprovalsAreTrue'
  <2>1. k = "approve" => FlightStage("load") = "none"
    BY <1>5, Ended DEF Waits, FlightStage
  <2> QED
    BY <1>2, <1>3, <1>4, <1>5, <2>1 DEF ApprovalsAreTrue, Current, FlightStage, Reply, Kinds
<1>11. SavesAreNewer'
  BY <1>2, <1>3, <1>4, <1>5 DEF SavesAreNewer, FlightStage, Reply, Kinds
<1>12. DraftIsMeant' /\ HeldIsMeant'
  BY <1>2, <1>3, <1>4, <1>5 DEF DraftIsMeant, HeldIsMeant, FlightStage, HeldBack, Kinds
<1>13. SavesKeepSections'
  <2>1. CASE k = "save"
    <3>1. seen = server.revision => \A s \in Sections \ dirty : draft[s] = server.content[s]
      BY <1>5 DEF PairsAreTrue, Pair, dirty, dirtySections
    <3> QED
      BY <1>2, <1>3, <1>4, <2>1, <3>1 DEF SavesKeepSections, Current, FlightStage, HeldBack
  <2>2. CASE k # "save"
    BY <1>2, <1>4, <1>5, <2>2 DEF SavesKeepSections, Current, FlightStage, HeldBack, Reply, Kinds
  <2> QED
    BY <2>1, <2>2
<1>14. Waits'
  BY <1>2, <1>4, <1>5 DEF Waits, Kinds
<1> QED
  BY <1>8, <1>9, <1>10, <1>11, <1>12, <1>13, <1>14 DEF EditorInv

\* A call that has ended, with or without an effect on the server, and what it
\* does to the editor leaves the other calls alone.
LEMMA EndsSoundly ==
  ASSUME EditorInv, NEW k \in Kinds, flights' = [flights EXCEPT ![k] = NoFlight],
         UNCHANGED <<server, seen, baseline, draft, history, forced, meant>>,
         conflict' \in {conflict, TRUE}
  PROVE  EditorInv'
<1>1. /\ DOMAIN flights' = Kinds /\ flights' = [i \in Kinds |-> flights'[i]]
      /\ flights'[k] = NoFlight /\ \A i \in Kinds : i # k => flights'[i] = flights[i]
  BY OneCall
<1>2. /\ EditorTypes /\ PairsAreTrue /\ ApprovalsAreTrue /\ SavesAreNewer
      /\ DraftIsMeant /\ HeldIsMeant /\ SavesKeepSections /\ Waits
  BY DEF EditorInv
<1>3. FlightTypes'
  BY <1>1, <1>2, Ended DEF FlightTypes, EditorTypes, FlightStage, HeldBack, Reply
<1>4. EditorTypes'
  BY <1>1, <1>2, <1>3 DEF EditorTypes
<1>5. PairsAreTrue' /\ SavesAreNewer'
  BY <1>1, <1>2, Ended, KindsOfCalls DEF PairsAreTrue, SavesAreNewer, Pair, FlightStage, Reply
<1>6. ApprovalsAreTrue'
  BY <1>1, <1>2, Ended, KindsOfCalls DEF ApprovalsAreTrue, Current, FlightStage, Reply
<1>7. DraftIsMeant' /\ HeldIsMeant'
  BY <1>1, <1>2, Ended, KindsOfCalls DEF DraftIsMeant, HeldIsMeant, FlightStage, HeldBack
<1>8. SavesKeepSections'
  BY <1>1, <1>2, Ended, KindsOfCalls DEF SavesKeepSections, Current, FlightStage, HeldBack, Reply
<1>9. Waits'
  BY <1>1, <1>2, KindsOfCalls DEF Waits, Patient, EditorTypes
<1> QED
  BY <1>4, <1>5, <1>6, <1>7, <1>8, <1>9 DEF EditorInv

\* Another revision: nothing that is under way expects it, and no answer is
\* of it.
LEMMA OtherSavesInv == ASSUME EditorInv, OtherSaves PROVE EditorInv'
<1>1. PICK s \in Sections, v \in Values : Updates([server.content EXCEPT ![s] = v])
  BY DEF OtherSaves
<1>2. /\ server.revision < MaxRevision
      /\ UNCHANGED <<seen, baseline, draft, history, forced, conflict, flights, meant>>
  BY DEF OtherSaves
<1>3. PICK content : content = [server.content EXCEPT ![s] = v]
  OBVIOUS
<1>4. content \in Contents
  BY <1>3, EditorNumbers DEF Contents
<1>5. server' = [revision |-> server.revision + 1, content |-> content]
  BY <1>1, <1>3 DEF Updates
<1>6. /\ server' \in [revision : 1..MaxRevision, content : Contents]
      /\ server'.revision = server.revision + 1
  BY <1>2, <1>4, <1>5, EditorNumbers
<1>7. /\ EditorTypes /\ PairsAreTrue /\ ApprovalsAreTrue /\ SavesAreNewer
      /\ DraftIsMeant /\ HeldIsMeant /\ SavesKeepSections /\ Waits
  BY DEF EditorInv
<1>8. FlightTypes'
  BY <1>2, <1>6, <1>7, EditorNumbers DEF FlightTypes, EditorTypes, FlightStage, HeldBack, Reply
<1>9. EditorTypes'
  BY <1>2, <1>6, <1>7, <1>8 DEF EditorTypes
<1>10. \A k \in Kinds : /\ ~Current(k)'
                        /\ FlightStage(k) = "ok" => Reply(k).revision # server'.revision
  BY <1>2, <1>6, <1>7, EditorNumbers DEF Current, EditorTypes, FlightTypes, FlightStage, Reply
<1>11. PairsAreTrue'
  BY <1>2, <1>6, <1>7, EditorNumbers, KindsOfCalls DEF PairsAreTrue, Pair, FlightStage, Reply
<1>12. ApprovalsAreTrue'
  BY <1>2, <1>10, KindsOfCalls DEF ApprovalsAreTrue, FlightStage, Reply
<1>13. SavesAreNewer' /\ Waits'
  BY <1>2, <1>7 DEF SavesAreNewer, Waits, Patient, FlightStage, Reply
<1>14. DraftIsMeant' /\ HeldIsMeant'
  BY <1>2, <1>7 DEF DraftIsMeant, HeldIsMeant, FlightStage, HeldBack
<1>15. SavesKeepSections'
  BY <1>2, <1>7, <1>10, KindsOfCalls DEF SavesKeepSections, FlightStage, HeldBack, Reply
<1> QED
  BY <1>9, <1>11, <1>12, <1>13, <1>14, <1>15 DEF EditorInv

\* An answer of the server: the call's stage, and for a call that succeeded
\* the revision it has read or made.
LEMMA ServeInv == ASSUME EditorInv, NEW k \in Kinds, Serve(k) PROVE EditorInv'
<1> DEFINE f == flights[k]
           reply(s) == [stage |-> "ok", section |-> f.section, held |-> f.held, short |-> s]
<1>1. /\ EditorTypes /\ PairsAreTrue /\ ApprovalsAreTrue /\ SavesAreNewer
      /\ DraftIsMeant /\ HeldIsMeant /\ SavesKeepSections /\ Waits
  BY DEF EditorInv
<1>2. /\ FlightStage(k) = "sent" /\ f # NoFlight
      /\ UNCHANGED <<seen, baseline, draft, history, forced, conflict, meant>>
  BY Ended DEF Serve, FlightStage
<1>3. \/ /\ k = "load" /\ flights' = [flights EXCEPT ![k] = reply(server)] /\ UNCHANGED server
      \/ /\ k # "load" /\ f.expected = server.revision /\ server.revision < MaxRevision
         /\ \E content \in Content(f.section, f.held) : Updates(content)
         /\ flights' = [flights EXCEPT ![k] = reply(server')]
      \/ flights' = [flights EXCEPT ![k] = [stage |-> "conflict"]] /\ UNCHANGED server
  BY Zenon DEF Serve
<1>4. CASE k = "load" /\ flights' = [flights EXCEPT ![k] = reply(server)] /\ UNCHANGED server
  <2>1. PICK a : a = reply(server)
    OBVIOUS
  <2>2. a.stage = "ok" /\ a.short = server /\ a.held = f.held
    BY <2>1
  <2>3. flights' = [flights EXCEPT ![k] = a]
    BY <1>4, <2>1
  <2> HIDE DEF reply
  <2>4. /\ DOMAIN flights' = Kinds /\ flights' = [i \in Kinds |-> flights'[i]]
        /\ flights'["load"] = a /\ \A i \in Kinds : i # "load" => flights'[i] = flights[i]
    BY <1>4, <2>3, OneCall
  <2>5. FlightStage("save") = "none"
    BY <1>1, <1>2, <1>4, Ended DEF Waits, Patient, FlightStage
  <2>6. FlightTypes'
    BY <1>1, <1>2, <1>4, <2>2, <2>4, EditorNumbers
       DEF FlightTypes, EditorTypes, FlightStage, HeldBack, Reply
  <2>7. EditorTypes'
    BY <1>1, <1>2, <1>4, <2>4, <2>6 DEF EditorTypes
  <2>8. PairsAreTrue'
    BY <1>1, <1>2, <1>4, <2>2, <2>4, EditorNumbers DEF PairsAreTrue, Pair, FlightStage, Reply, Kinds
  <2>9. ApprovalsAreTrue'
    BY <1>1, <1>2, <1>4, <2>2, <2>4 DEF ApprovalsAreTrue, Current, FlightStage, Reply, Kinds
  <2>10. SavesAreNewer' /\ SavesKeepSections'
    BY <2>4, <2>5 DEF SavesAreNewer, SavesKeepSections, Current, FlightStage, Kinds
  <2>11. DraftIsMeant' /\ HeldIsMeant'
    BY <1>1, <1>2, <1>4, <2>2, <2>4 DEF DraftIsMeant, HeldIsMeant, FlightStage, HeldBack, Kinds
  <2>12. Waits'
    BY <1>1, <1>2, <1>4, <2>4 DEF Waits, Patient, Kinds
  <2> QED
    BY <2>7, <2>8, <2>9, <2>10, <2>11, <2>12 DEF EditorInv
<1>5. ASSUME k # "load", f.expected = server.revision, server.revision < MaxRevision,
             NEW content \in Content(f.section, f.held), Updates(content),
             flights' = [flights EXCEPT ![k] = reply(server')]
      PROVE  EditorInv'
  <2>1. PICK a : a = reply(server')
    OBVIOUS
  <2>2. a.stage = "ok" /\ a.short = server' /\ a.held = f.held /\ a.section = f.section
    BY <2>1
  <2>3. flights' = [flights EXCEPT ![k] = a]
    BY <1>5, <2>1
  <2> HIDE DEF reply
  <2>4. /\ DOMAIN flights' = Kinds /\ flights' = [i \in Kinds |-> flights'[i]]
        /\ flights'[k] = a /\ \A i \in Kinds : i # k => flights'[i] = flights[i]
    BY <2>3, OneCall
  <2>5. /\ content \in Contents
        /\ k = "approve" => content = server.content
        /\ \A s \in Sections : s # Target(f.section) => content[s] = server.content[s]
    <3>1. CASE k = "approve"
      <4>1. f.section = "approve"
        BY <1>1, <1>2, <3>1 DEF EditorTypes, FlightTypes
      <4>2. content = server.content
        BY <1>5, <4>1 DEF Content
      <4> QED
        BY <4>2, EditorNumbers
    <3>2. CASE k = "save"
      <4>1. f.section \in Sections \cup {"reanalyze"} /\ HeldBack(k)[1] \in Contents
        BY <1>1, <1>2, <3>2 DEF EditorTypes, FlightTypes
      <4>2. CASE f.section = "approve"
        BY <1>5, <3>2, <4>2, EditorNumbers DEF Content
      <4>3. CASE f.section = "reanalyze"
        <5>1. PICK v \in Values : content = [server.content EXCEPT !["composition"] = v]
          BY <1>5, <4>3 DEF Content
        <5> QED
          BY <3>2, <4>3, <5>1, EditorNumbers, EditorAssumption DEF Contents, Target
      <4>4. CASE f.section \notin {"approve", "reanalyze"}
        <5>1. content = [server.content EXCEPT ![f.section] = f.held[1][f.section]]
          BY <1>5, <4>4 DEF Content
        <5>2. f.section \in Sections /\ f.held[1][f.section] \in Values
          BY <4>1, <4>4 DEF Contents, HeldBack
        <5> QED
          BY <3>2, <4>4, <5>1, <5>2, EditorNumbers DEF Contents, Target
      <4> QED
        BY <4>2, <4>3, <4>4
    <3> QED
      BY <1>5, <3>1, <3>2 DEF Kinds
  <2>6. server' = [revision |-> server.revision + 1, content |-> content]
    BY <1>5 DEF Updates
  <2>7. /\ server' \in [revision : 1..MaxRevision, content : Contents]
        /\ server'.revision = server.revision + 1 /\ server'.content = content
    BY <1>5, <2>5, <2>6, EditorNumbers
  <2>8. FlightTypes'
    BY <1>1, <1>2, <2>2, <2>4, <2>7, EditorNumbers
       DEF FlightTypes, EditorTypes, FlightStage, HeldBack, Reply
  <2>9. EditorTypes'
    BY <1>1, <1>2, <2>4, <2>7, <2>8 DEF EditorTypes
  <2>10. PairsAreTrue'
    <3>1. seen <= server.revision
      BY <1>1 DEF PairsAreTrue, Pair
    <3>2. Pair(seen, baseline)'
      BY <1>2, <2>7, <3>1, EditorNumbers DEF Pair
    <3>3. ASSUME NEW i \in {"save", "load"}, FlightStage(i)' = "ok"
          PROVE  Pair(Reply(i).revision, Reply(i).content)'
      <4>1. CASE i = k
        BY <2>2, <2>4, <2>7, <4>1, EditorNumbers, KindsOfCalls DEF Pair, Reply
      <4>2. CASE i # k
        <5>1. flights'[i] = flights[i] /\ FlightStage(i) = "ok"
          BY <2>4, <3>3, <4>2, KindsOfCalls DEF FlightStage
        <5>2. Reply(i).revision <= server.revision /\ Reply(i).revision \in Nat
          BY <1>1, <5>1, EditorNumbers, KindsOfCalls DEF PairsAreTrue, Pair
        <5> QED
          BY <2>7, <5>1, <5>2, EditorNumbers DEF Pair, Reply
      <4> QED
        BY <4>1, <4>2
    <3> QED
      BY <3>2, <3>3 DEF PairsAreTrue
  <2>11. \A i \in Kinds : ~Current(i)'
    BY <1>1, <2>2, <2>4, <2>7, EditorNumbers DEF Current, EditorTypes, FlightTypes, FlightStage
  <2>12. \A i \in Kinds : i # k /\ FlightStage(i) = "ok" => Reply(i).revision <= server.revision
    BY <1>1 DEF EditorTypes, FlightTypes
  <2>13. ApprovalsAreTrue'
    <3>1. CASE k = "approve"
      <4>1. seen = server.revision /\ Pair(seen, baseline)
        BY <1>1, <1>2, <1>5, <3>1 DEF ApprovalsAreTrue, Current, PairsAreTrue
      <4>2. baseline = server.content
        BY <4>1 DEF Pair
      <4>3. FlightStage("load") = "ok" => Reply("load").content = server.content
        BY <1>1, <1>2, <1>5, <3>1 DEF ApprovalsAreTrue, Current, PairsAreTrue, Pair
      <4>4. flights'["load"] = flights["load"]
        BY <2>4, <3>1, KindsOfCalls
      <4> QED
        BY <1>2, <2>5, <2>7, <2>11, <3>1, <4>2, <4>3, <4>4, KindsOfCalls
           DEF ApprovalsAreTrue, FlightStage, Reply
    <3>2. CASE k # "approve"
      <4>1. flights'["approve"] = flights["approve"]
        BY <2>4, <3>2, KindsOfCalls
      <4>2. FlightStage("approve") = "ok" => Reply("approve").revision \in Nat /\ Reply("approve").revision <= server.revision
        BY <2>12, <3>2, EditorNumbers, KindsOfCalls
      <4>3. FlightStage("approve")' = "ok" => Reply("approve")'.revision # server'.revision
        BY <2>7, <4>1, <4>2, EditorNumbers DEF FlightStage, Reply
      <4> QED
        BY <2>11, <4>3, KindsOfCalls DEF ApprovalsAreTrue
    <3> QED
      BY <3>1, <3>2
  <2>14. SavesAreNewer'
    <3>1. CASE k = "save"
      <4>1. seen <= server.revision
        BY <1>1 DEF PairsAreTrue, Pair
      <4>2. FlightStage("approve") = "ok" => Reply("approve").revision \in Nat /\ Reply("approve").revision <= server.revision
        BY <2>12, <3>1, EditorNumbers, KindsOfCalls
      <4>3. flights'["approve"] = flights["approve"] /\ flights'["save"] = a
        BY <2>4, <3>1, KindsOfCalls
      <4> QED
        BY <1>2, <2>2, <2>7, <4>1, <4>2, <4>3, EditorNumbers DEF SavesAreNewer, FlightStage, Reply
    <3>2. CASE k = "approve"
      <4>1. seen = server.revision
        BY <1>1, <1>2, <1>5, <3>2 DEF ApprovalsAreTrue, Current
      <4>2. FlightStage("save") # "ok"
        BY <1>1, <2>12, <3>2, <4>1, EditorNumbers, KindsOfCalls DEF SavesAreNewer
      <4>3. flights'["save"] = flights["save"]
        BY <2>4, <3>2, KindsOfCalls
      <4> QED
        BY <4>2, <4>3 DEF SavesAreNewer, FlightStage
    <3> QED
      BY <1>5, <3>1, <3>2 DEF Kinds
  <2>15. DraftIsMeant' /\ HeldIsMeant'
    BY <1>1, <1>2, <2>2, <2>4, KindsOfCalls DEF DraftIsMeant, HeldIsMeant, FlightStage, HeldBack
  <2>16. SavesKeepSections'
    <3>1. CASE k = "save"
      <4>1. \A s \in Sections \ HeldBack("save")[2] : HeldBack("save")[1][s] = server.content[s]
        BY <1>1, <1>2, <1>5, <3>1 DEF SavesKeepSections, Current
      <4>2. flights'["save"] = a
        BY <2>4, <3>1
      <4> QED
        BY <2>2, <2>5, <2>7, <2>11, <3>1, <4>1, <4>2, KindsOfCalls
           DEF SavesKeepSections, FlightStage, HeldBack, Reply
    <3>2. CASE k # "save"
      <4>1. flights'["save"] = flights["save"]
        BY <2>4, <3>2, KindsOfCalls
      <4> QED
        BY <1>1, <2>11, <4>1, KindsOfCalls DEF SavesKeepSections, FlightStage, HeldBack, Reply
    <3> QED
      BY <3>1, <3>2
  <2>17. Waits'
    BY <1>1, <1>2, <1>5, <2>4, KindsOfCalls DEF Waits, Patient
  <2> QED
    BY <2>9, <2>10, <2>13, <2>14, <2>15, <2>16, <2>17 DEF EditorInv
<1>6. CASE flights' = [flights EXCEPT ![k] = [stage |-> "conflict"]] /\ UNCHANGED server
  <2>1. PICK a : a = [stage |-> "conflict"]
    OBVIOUS
  <2>2. a.stage = "conflict"
    BY <2>1
  <2>3. /\ DOMAIN flights' = Kinds /\ flights' = [i \in Kinds |-> flights'[i]]
        /\ flights'[k] = a /\ \A i \in Kinds : i # k => flights'[i] = flights[i]
    BY <1>6, <2>1, OneCall
  <2>4. FlightTypes'
    BY <1>1, <1>6, <2>2, <2>3 DEF FlightTypes, EditorTypes, FlightStage, HeldBack, Reply
  <2>5. EditorTypes'
    BY <1>1, <1>2, <1>6, <2>3, <2>4 DEF EditorTypes
  <2>6. PairsAreTrue' /\ SavesAreNewer'
    BY <1>1, <1>2, <1>6, <2>2, <2>3, KindsOfCalls
       DEF PairsAreTrue, SavesAreNewer, Pair, FlightStage, Reply
  <2>7. ApprovalsAreTrue'
    BY <1>1, <1>2, <1>6, <2>2, <2>3, KindsOfCalls DEF ApprovalsAreTrue, Current, FlightStage, Reply
  <2>8. DraftIsMeant' /\ HeldIsMeant'
    BY <1>1, <1>2, <2>2, <2>3, KindsOfCalls DEF DraftIsMeant, HeldIsMeant, FlightStage, HeldBack
  <2>9. SavesKeepSections'
    BY <1>1, <1>6, <2>2, <2>3, KindsOfCalls
       DEF SavesKeepSections, Current, FlightStage, HeldBack, Reply
  <2>10. Waits'
    BY <1>1, <1>2, <2>3, KindsOfCalls DEF Waits, Patient
  <2> QED
    BY <2>5, <2>6, <2>7, <2>8, <2>9, <2>10 DEF EditorInv
<1> HIDE DEF f, reply
<1> QED
  BY <1>3, <1>4, <1>5, <1>6

\* Every section but the one that was saved is what the save held of it.
LEMMA SavedInv == ASSUME EditorInv, Saved PROVE EditorInv'
<1> DEFINE f == flights["save"]
           section == IF f.section = "reanalyze" THEN "composition" ELSE f.section
           merge == mergeCanonicalSave(f.held[1], f.short.content, section, f.held[2])
<1>1. /\ EditorTypes /\ PairsAreTrue /\ ApprovalsAreTrue /\ SavesAreNewer
      /\ DraftIsMeant /\ HeldIsMeant /\ SavesKeepSections /\ Waits
  BY DEF EditorInv
<1>2. /\ FlightStage("save") = "ok" /\ flights' = [flights EXCEPT !["save"] = NoFlight]
      /\ seen' = f.short.revision /\ baseline' = f.short.content
      /\ draft' = merge /\ history' = pushHistory(merge)
      /\ forced' = (forced \ {section}) \cup (IF section = "timeline" THEN {"captions"} ELSE {})
      /\ meant' = [meant EXCEPT ![section] = Untouched]
      /\ UNCHANGED <<server, conflict>>
  BY DEF Saved, Answered, FlightStage
<1>3. PICK target \in Sections : target = section /\ target = Target(f.section)
  BY <1>1, <1>2, EditorAssumption DEF Target, EditorTypes, FlightTypes, Kinds
<1>4. /\ Reply("save").revision \in 1..server.revision /\ Reply("save").content \in Contents
      /\ HeldBack("save")[1] \in Contents
  BY <1>1, <1>2, KindsOfCalls DEF EditorTypes, FlightTypes
<1>5. PICK merged : merged = merge
  OBVIOUS
<1>6. PICK kept : kept = (f.held[2] \ {section}) \cup (IF section = "timeline" THEN {"captions"} ELSE {})
  OBVIOUS
<1>7. merged = [s \in Sections |-> IF s \in kept THEN HeldBack("save")[1][s] ELSE Reply("save").content[s]]
  BY <1>5, <1>6 DEF mergeCanonicalSave, HeldBack, Reply
<1>8. merged \in Contents
  BY <1>4, <1>7 DEF Contents
<1>9. \A s \in Sections : s # target => merged[s] = HeldBack("save")[1][s]
  BY <1>1, <1>2, <1>3, <1>6, <1>7 DEF SavesKeepSections, HeldBack
<1>10. /\ DOMAIN flights' = Kinds /\ flights' = [i \in Kinds |-> flights'[i]]
       /\ flights'["save"] = NoFlight /\ \A i \in Kinds : i # "save" => flights'[i] = flights[i]
  BY <1>2, OneCall, KindsOfCalls
<1>11. draft' = merged /\ history' = pushHistory(merged) /\ meant' = [meant EXCEPT ![target] = Untouched]
  BY <1>2, <1>3, <1>5
<1>12. /\ seen' = Reply("save").revision /\ baseline' = Reply("save").content /\ UNCHANGED <<server, conflict>>
       /\ FlightStage("save") = "ok" /\ flights["save"] # NoFlight
  BY <1>2, Ended DEF Reply, FlightStage
<1>13. forced' \subseteq Sections
  BY <1>1, <1>2, EditorAssumption DEF EditorTypes
<1> HIDE DEF f, section, merge
<1>14. FlightTypes'
  BY <1>1, <1>10, <1>12, Ended DEF FlightTypes, EditorTypes, FlightStage, HeldBack, Reply
<1>15. EditorTypes'
  <2>1. seen' \in 1..MaxRevision
    BY <1>4, <1>12, EditorNumbers
  <2>2. meant' \in [Sections -> Nat]
    BY <1>1, <1>11 DEF EditorTypes, Untouched
  <2> QED
    BY <1>1, <1>4, <1>8, <1>10, <1>11, <1>12, <1>13, <1>14, <2>1, <2>2, PushedHistory
       DEF EditorTypes
<1>16. FlightStage("load") = "none"
  BY <1>1, <1>12, Ended DEF Waits, Patient, FlightStage
<1>17. PairsAreTrue'
  BY <1>1, <1>10, <1>12, <1>16, Ended, KindsOfCalls DEF PairsAreTrue, Pair, FlightStage, Reply
<1>18. ApprovalsAreTrue'
  <2>1. ~Current("approve")
    BY <1>1, <1>4, <1>12, EditorNumbers DEF ApprovalsAreTrue, SavesAreNewer
  <2>2. FlightStage("approve") = "ok" => Reply("approve").revision # server.revision
    BY <1>1, <1>4, <1>12, EditorNumbers, KindsOfCalls DEF SavesAreNewer
  <2>3. flights'["approve"] = flights["approve"]
    BY <1>10, KindsOfCalls
  <2> QED
    BY <1>12, <2>1, <2>2, <2>3 DEF ApprovalsAreTrue, Current, FlightStage, Reply
<1>19. SavesAreNewer' /\ SavesKeepSections'
  BY <1>10, Ended DEF SavesAreNewer, SavesKeepSections, Current, FlightStage
<1>20. \A s \in Sections : meant'[s] # Untouched => s # target /\ meant'[s] = meant[s]
  BY <1>1, <1>11 DEF EditorTypes
<1>21. DraftIsMeant' /\ HeldIsMeant'
  <2>1. \A s \in Sections : meant'[s] # Untouched => draft'[s] = meant'[s]
    BY <1>1, <1>9, <1>11, <1>12, <1>20 DEF HeldIsMeant
  <2>2. \A i \in {"save", "load"} : FlightStage(i)' = "none"
    BY <1>10, <1>16, Ended, KindsOfCalls DEF FlightStage
  <2> QED
    BY <2>1, <2>2 DEF DraftIsMeant, HeldIsMeant
<1>22. Waits'
  BY <1>1, <1>10, <1>12, KindsOfCalls DEF Waits, Patient
<1> QED
  BY <1>15, <1>17, <1>18, <1>19, <1>21, <1>22 DEF EditorInv

LEMMA ApprovedInv == ASSUME EditorInv, Approved PROVE EditorInv'
<1>1. /\ EditorTypes /\ PairsAreTrue /\ ApprovalsAreTrue /\ SavesAreNewer
      /\ DraftIsMeant /\ HeldIsMeant /\ SavesKeepSections /\ Waits
  BY DEF EditorInv
<1>2. /\ FlightStage("approve") = "ok" /\ flights' = [flights EXCEPT !["approve"] = NoFlight]
      /\ seen' = Reply("approve").revision
      /\ UNCHANGED <<server, baseline, draft, history, forced, conflict, meant>>
  BY DEF Approved, Answered, FlightStage, Reply
<1>3. /\ DOMAIN flights' = Kinds /\ flights' = [i \in Kinds |-> flights'[i]]
      /\ flights'["approve"] = NoFlight /\ \A i \in Kinds : i # "approve" => flights'[i] = flights[i]
  BY <1>2, OneCall, KindsOfCalls
<1>4. Reply("approve").revision \in 1..server.revision
  BY <1>1, <1>2, KindsOfCalls DEF EditorTypes, FlightTypes
<1>5. FlightTypes'
  BY <1>1, <1>2, <1>3, Ended DEF FlightTypes, EditorTypes, FlightStage, HeldBack, Reply
<1>6. EditorTypes'
  <2>1. seen' \in 1..MaxRevision
    BY <1>2, <1>4, EditorNumbers
  <2> QED
    BY <1>1, <1>2, <1>3, <1>5, <2>1 DEF EditorTypes
<1>7. /\ flights'["save"] = flights["save"] /\ flights'["load"] = flights["load"]
      /\ FlightStage("approve")' = "none"
  BY <1>3, Ended, KindsOfCalls DEF FlightStage
<1>8. PairsAreTrue'
  <2>1. Pair(seen', baseline)
    BY <1>1, <1>2, <1>4 DEF ApprovalsAreTrue, Pair
  <2> QED
    BY <1>1, <1>2, <1>7, <2>1 DEF PairsAreTrue, Pair, FlightStage, Reply
<1>9. ApprovalsAreTrue'
  BY <1>7 DEF ApprovalsAreTrue, Current
<1>10. SavesAreNewer'
  BY <1>1, <1>2, <1>7 DEF SavesAreNewer, FlightStage, Reply
<1>11. DraftIsMeant' /\ HeldIsMeant'
  BY <1>1, <1>2, <1>7 DEF DraftIsMeant, HeldIsMeant, FlightStage, HeldBack
<1>12. SavesKeepSections'
  BY <1>1, <1>2, <1>7 DEF SavesKeepSections, Current, FlightStage, HeldBack, Reply
<1>13. Waits'
  BY <1>1, <1>2, <1>7 DEF Waits, Patient
<1> QED
  BY <1>6, <1>8, <1>9, <1>10, <1>11, <1>12, <1>13 DEF EditorInv

LEMMA LoadedInv == ASSUME EditorInv, Loaded PROVE EditorInv'
<1>1. /\ EditorTypes /\ PairsAreTrue /\ ApprovalsAreTrue /\ SavesAreNewer
      /\ DraftIsMeant /\ HeldIsMeant /\ SavesKeepSections /\ Waits
  BY DEF EditorInv
<1>2. PICK kept, next :
        /\ next = [s \in Sections |-> IF s \in kept THEN HeldBack("load")[1][s] ELSE Reply("load").content[s]]
        /\ FlightStage("load") = "ok" /\ flights' = [flights EXCEPT !["load"] = NoFlight]
        /\ seen' = Reply("load").revision /\ baseline' = Reply("load").content
        /\ draft' = next /\ history' = [entries |-> <<next>>, index |-> 1]
        /\ conflict' = FALSE
        /\ meant' = [s \in Sections |-> IF s \in kept THEN meant[s] ELSE Untouched]
        /\ UNCHANGED server
  BY DEF Loaded, Answered, NewBaseline, FlightStage, Reply, HeldBack
<1>3. /\ DOMAIN flights' = Kinds /\ flights' = [i \in Kinds |-> flights'[i]]
      /\ flights'["load"] = NoFlight /\ \A i \in Kinds : i # "load" => flights'[i] = flights[i]
  BY <1>2, OneCall, KindsOfCalls
<1>4. /\ Reply("load").revision \in 1..server.revision /\ Reply("load").content \in Contents
      /\ HeldBack("load")[1] \in Contents /\ flights["load"] # NoFlight
  BY <1>1, <1>2, Ended, KindsOfCalls DEF EditorTypes, FlightTypes, FlightStage
<1>5. next \in Contents
  BY <1>2, <1>4 DEF Contents
<1>6. FlightTypes'
  BY <1>1, <1>2, <1>3, Ended DEF FlightTypes, EditorTypes, FlightStage, HeldBack, Reply
<1>7. EditorTypes'
  <2>6. conflict' \in BOOLEAN
    BY <1>2
  <2>1. seen' \in 1..MaxRevision
    BY <1>2, <1>4, EditorNumbers
  <2>2. meant' \in [Sections -> Nat]
    BY <1>1, <1>2 DEF EditorTypes, Untouched
  <2>3. <<next>> \in Seq(Contents) /\ Len(<<next>>) = 1
    BY <1>5
  <2>4. history' \in [entries : Seq(Contents), index : Nat] /\ history'.index \in 1..Len(history'.entries)
    BY <1>2, <2>3
  <2>5. forced' \subseteq Sections
    <3>1. HeldBack("load")[3] \subseteq Sections
      BY <1>1, <1>2, KindsOfCalls DEF EditorTypes, FlightTypes
    <3>2. forced' = IF flights["load"].section = "rebase" THEN HeldBack("load")[3] ELSE {}
      BY DEF Loaded, HeldBack
    <3> QED
      BY <3>1, <3>2
  <2> QED
    BY <1>1, <1>2, <1>3, <1>4, <1>5, <1>6, <2>1, <2>2, <2>4, <2>5, <2>6 DEF EditorTypes
<1>8. /\ flights'["approve"] = flights["approve"] /\ FlightStage("load")' = "none" /\ flights'["save"] = NoFlight
      /\ FlightStage("save")' = "none"
  BY <1>1, <1>3, <1>4, Ended, KindsOfCalls DEF Waits, Patient, FlightStage
<1>9. PairsAreTrue'
  BY <1>1, <1>2, <1>8 DEF PairsAreTrue, Pair
<1>10. ApprovalsAreTrue'
  <2>1. Current("approve") => seen' = server.revision
    BY <1>1, <1>2 DEF ApprovalsAreTrue
  <2>2. FlightStage("approve") = "ok" /\ Reply("approve").revision = server.revision => baseline' = server.content
    BY <1>1, <1>2 DEF ApprovalsAreTrue
  <2> QED
    BY <1>2, <1>8, <2>1, <2>2 DEF ApprovalsAreTrue, Current, FlightStage, Reply
<1>11. SavesAreNewer' /\ SavesKeepSections'
  BY <1>8 DEF SavesAreNewer, SavesKeepSections, Current
<1>12. DraftIsMeant' /\ HeldIsMeant'
  <2>1. \A s \in Sections : meant'[s] # Untouched => draft'[s] = meant'[s]
    BY <1>1, <1>2 DEF HeldIsMeant
  <2> QED
    BY <1>8, <2>1 DEF DraftIsMeant, HeldIsMeant
<1>13. Waits'
  BY <1>3, <1>8 DEF Waits, Patient
<1> QED
  BY <1>7, <1>9, <1>10, <1>11, <1>12, <1>13 DEF EditorInv

LEMMA NextEditorInv == EditorInv /\ [EditorNext /\ Patient']_editorVars => EditorInv'
<1> SUFFICES ASSUME EditorInv, [EditorNext /\ Patient']_editorVars PROVE EditorInv'
  OBVIOUS
<1>1. ASSUME NEW s \in Sections, save(s), Patient' PROVE EditorInv'
  BY <1>1, KindsOfCalls, CallInv DEF save
<1>2. CASE reanalyze /\ Patient'
  BY <1>2, KindsOfCalls, CallInv DEF reanalyze
<1>3. CASE approve /\ Patient'
  BY <1>3, KindsOfCalls, CallInv DEF approve
<1>4. ASSUME NEW rebase \in BOOLEAN, loadLatest(rebase), Patient' PROVE EditorInv'
  BY <1>4, KindsOfCalls, CallInv DEF loadLatest
<1>5. CASE Conflicts
  <2>1. /\ conflict' \in {conflict, TRUE}
        /\ UNCHANGED <<server, seen, baseline, draft, history, forced, meant>>
        /\ \E k \in Kinds : flights' = [flights EXCEPT ![k] = NoFlight]
    BY <1>5, KindsOfCalls DEF Conflicts, Answered
  <2> QED
    BY <2>1, EndsSoundly
<1>6. CASE CallFails
  <2>1. /\ conflict' \in {conflict, TRUE}
        /\ UNCHANGED <<server, seen, baseline, draft, history, forced, meant>>
        /\ \E k \in Kinds : flights' = [flights EXCEPT ![k] = NoFlight]
    BY <1>6 DEF CallFails
  <2> QED
    BY <2>1, EndsSoundly
<1>7. CASE UNCHANGED editorVars
  <2>1. CallsAreTrue' /\ FlightTypes'
    BY <1>7, CallsStay DEF editorVars
  <2>2. EditorTypes'
    BY <1>7, <2>1 DEF editorVars, EditorInv, EditorTypes
  <2>3. DraftIsMeant' /\ HeldIsMeant'
    BY <1>7 DEF editorVars, EditorInv, DraftIsMeant, HeldIsMeant, FlightStage, HeldBack
  <2> QED
    BY <2>1, <2>2, <2>3 DEF EditorInv, CallsAreTrue
<1>8. CASE EditorNext /\ Patient'
  BY <1>1, <1>2, <1>3, <1>4, <1>5, <1>6, <1>8, CommitInv, UndoOrRedoInv, ServeInv, OtherSavesInv,
     SavedInv, ApprovedInv, LoadedInv DEF EditorNext
<1> QED
  BY <1>7, <1>8

\* Whatever other clients save, and in whatever order the answers come, the
\* editor shows as saved what its revision has, and what the user means stays in
\* the draft, as long as no load overtakes a save.
THEOREM EditorTellsTheTruth == PatientSpec => []EditorIsTruthful
<1>1. EditorInv => EditorIsTruthful
  BY DEF EditorInv, PairsAreTrue, Pair, DraftIsMeant, EditorIsTruthful
<1> QED
  BY <1>1, InitEditorInv, NextEditorInv, PTL DEF PatientSpec
-----------------------------------------------------------------------------
(***************************************************************************)
(* The artifacts, for any paths, operations and any number of crashes:     *)
(* whenever the core runs and is not in the middle of a write, files, rows *)
(* and the Short that names a batch agree, but for what failed removals    *)
(* have left since it was started.                                         *)
(*                                                                         *)
(* StoreAgrees says nothing of a write that is under way, nor of what a    *)
(* crash leaves to the reconciliation, and is not inductive.  StoreInv     *)
(* adds what each phase of a write and each step of the reconciliation     *)
(* keeps to.                                                               *)
(***************************************************************************)

Op == [phase : {"idle", "abandoned"} \cup Awaited \cup Sync,
       paths : SUBSET Paths, renamed : SUBSET Paths]

Modes == {"up", "temporary files", "records", "files", "interrupted"}

TypeInv ==
    /\ StoreTypeOK
    /\ ops \in [Ops -> Op]
    /\ storeMode \in Modes
    /\ storeCrashes \in Nat

Stray(p) == \E o \in Ops : ops[o].phase = "abandoned" /\ p \in ops[o].renamed

\* Of the operations that run, one at most is between two awaits, and no path
\* belongs to two that write; none survives the process.
OpsAreApart ==
    /\ \A o \in Ops : ops[o].phase = "idle" => ops[o] = Resting
    /\ \A o, q \in Ops : ops[o].phase \in Sync /\ ops[q].phase \in Sync => o = q
    /\ \A o, q \in Ops : o # q /\ ops[o].phase # "unlinked" /\ ops[q].phase # "unlinked" =>
          ops[o].paths \cap ops[q].paths = {}
    /\ storeMode # "up" => \A o \in Ops : ops[o] = Resting

\* What an operation of each phase has done.
Reserved(o) ==
    /\ \E p \in Video : ops[o].paths = {p}
    /\ ops[o].renamed = {}
    /\ \A p \in ops[o].paths : disk[p] = "none"

Renaming(o) ==
    /\ (ops[o].paths = Sidecars /\ ~named) \/ \E p \in Video : ops[o].paths = {p}
    /\ ops[o].renamed \subseteq ops[o].paths
    /\ \A p \in ops[o].paths :
          /\ records[p] = "complete" => Stray(p)
          /\ p \in ops[o].renamed => disk[p] = Written(p)
          /\ p \notin ops[o].renamed => disk[p] = "none"

Unlinked(o) ==
    /\ \E p \in Video : ops[o].paths = {p}
    /\ \A p \in ops[o].paths : disk[p] = "none"

InPhase(o) ==
    /\ ops[o].phase \in Awaited => Reserved(o)
    /\ ops[o].phase \in {"staged", "renamed"} => Renaming(o)
    /\ ops[o].phase = "staged" => ops[o].paths = Sidecars
    /\ ops[o].phase = "renamed" => ops[o].renamed = ops[o].paths
    /\ ops[o].phase = "unlinked" => Unlinked(o)

OpsAreInPhase == \A o \in Ops : InPhase(o)

Recorded(p) ==
    /\ records[p] = "complete" => disk[p] = "whole"
    /\ records[p] = "none"     => disk[p] = "none"

\* Files and rows agree on what no write is in the middle of; a restart
\* restores that step by step.
FilesInv ==
    \A p \in Paths :
        /\ storeMode = "up" => \/ Recorded(p) \/ Stray(p)
                               \/ \E o \in Ops : ops[o].phase \in Sync /\ p \in ops[o].paths
        /\ storeMode \in {"files", "interrupted"} => (records[p] = "complete" => disk[p] = "whole")

TempsInv ==
    /\ storeMode = "up" => \A o \in temps : ops[o].phase \in Awaited \cup {"staged", "abandoned"}
    /\ storeMode \in {"records", "files", "interrupted"} => temps = {}

StoreInv ==
    TypeInv /\ OpsAreApart /\ OpsAreInPhase /\ FilesInv /\ TempsInv /\ BatchIsWhole
-----------------------------------------------------------------------------
LEMMA InitStoreInv == StoreInit => StoreInv
<1> SUFFICES ASSUME StoreInit PROVE StoreInv
  OBVIOUS
<1> USE DEF StoreInit, Resting
<1>1. TypeInv
  BY PathsAssumption DEF TypeInv, StoreTypeOK, Op, Modes
<1>2. OpsAreApart /\ OpsAreInPhase
  BY DEF OpsAreApart, OpsAreInPhase, InPhase, Awaited, Sync
<1>3. FilesInv /\ TempsInv /\ BatchIsWhole
  BY DEF FilesInv, Recorded, TempsInv, BatchIsWhole, Paths
<1>4. QED
  BY <1>1, <1>2, <1>3 DEF StoreInv

\* What every step of one operation keeps.  It begins when no other one is in a
\* stretch between two awaits, takes only paths that are free, touches the
\* files and rows of its own paths, and leaves them recorded, or abandons them, or
\* goes on.  A removal may have to do with a path that another has reserved: it
\* finds no file there.
OwnStep(o, new) ==
    /\ storeMode = "up" /\ storeMode' = "up"
    /\ new \in Op
    /\ ops' = [ops EXCEPT ![o] = new]
    /\ ops[o].phase # "abandoned"
    /\ new.phase = "idle" => new = Resting
    /\ ops[o].phase \in Sync \/ ~InSync
    /\ ops[o].phase = "unlinked" => new.paths = {}
    /\ new.phase # "unlinked" =>
         \A p \in new.paths : p \in ops[o].paths \/ p \notin pendingPaths
    /\ ops[o].phase = "unlinked" \/ new.phase = "unlinked" =>
         \A p \in ops[o].paths \cup new.paths : disk'[p] = "none"
    /\ \A p \in Paths : p \in ops[o].paths \cup new.paths
                           \/ (disk'[p] = disk[p] /\ records'[p] = records[p])
    /\ \A p \in ops[o].paths \cup new.paths :
          \/ Recorded(p)' \/ Stray(p)'
          \/ new.phase \in Sync /\ p \in new.paths
    /\ temps' = temps \/ temps' = temps \cup {o} \/ temps' = temps \ {o}
    /\ o \in temps' => new.phase \in Awaited \cup {"staged", "abandoned"}
    /\ named' = named \/ ops[o].phase = "renamed"

\* While one operation is in such a stretch, everything else is recorded.
LEMMA RecordedElsewhere ==
    ASSUME StoreInv, storeMode = "up", NEW o \in Ops, ops[o].phase \in Sync \/ ~InSync,
           NEW p \in Paths, p \in ops[o].paths => ops[o].phase \notin Sync
    PROVE  Recorded(p) \/ Stray(p)
BY DEF StoreInv, FilesInv, OpsAreApart, InSync

\* Nothing that was abandoned is taken up again.
LEMMA StraysStay ==
    ASSUME StoreInv, NEW o \in Ops, NEW new, OwnStep(o, new), NEW p \in Paths, Stray(p)
    PROVE  Stray(p)'
<1>1. PICK q \in Ops : ops[q].phase = "abandoned" /\ p \in ops[q].renamed
  BY DEF Stray
<1>2. q # o /\ ops'[q] = ops[q]
  BY <1>1 DEF OwnStep, StoreInv, TypeInv
<1> QED
  BY <1>1, <1>2 DEF Stray

LEMMA OwnStepKeeps ==
    ASSUME StoreInv, NEW o \in Ops, NEW new, OwnStep(o, new),
           TypeInv', InPhase(o)', BatchIsWhole'
    PROVE  StoreInv'
<1>1. \A q \in Ops : ops[q] \in Op /\ ops'[q] = IF q = o THEN new ELSE ops[q]
  BY DEF OwnStep, StoreInv, TypeInv
<1>2. \A q \in Ops : q # o /\ ops[q].phase # "unlinked" =>
        /\ new.phase # "unlinked" => new.paths \cap ops[q].paths = {}
        /\ ops[o].phase # "unlinked" => ops[o].paths \cap ops[q].paths = {}
  BY DEF OwnStep, StoreInv, OpsAreApart, pendingPaths
<1>3. OpsAreApart'
  <2>1. ASSUME NEW q \in Ops, NEW r \in Ops, ops'[q].phase \in Sync, ops'[r].phase \in Sync
        PROVE  q = r
    BY <1>1, <2>1 DEF OwnStep, StoreInv, OpsAreApart, InSync
  <2>2. ASSUME NEW q \in Ops, NEW t \in Ops, q # t,
               ops'[q].phase # "unlinked", ops'[t].phase # "unlinked"
        PROVE  ops'[q].paths \cap ops'[t].paths = {}
    <3>1. CASE q # o /\ t # o
      BY <1>1, <2>2, <3>1 DEF StoreInv, OpsAreApart
    <3>2. CASE q = o
      BY <1>1, <1>2, <2>2, <3>2
    <3>3. CASE t = o
      BY <1>1, <1>2, <2>2, <3>3
    <3> QED
      BY <3>1, <3>2, <3>3
  <2>3. \A q \in Ops : ops'[q].phase = "idle" => ops'[q] = Resting
    BY <1>1 DEF OwnStep, StoreInv, OpsAreApart
  <2>4. QED
    BY <2>1, <2>2, <2>3 DEF OwnStep, OpsAreApart
<1>4. OpsAreInPhase'
  <2> SUFFICES ASSUME NEW q \in Ops, q # o PROVE InPhase(q)'
    BY DEF OpsAreInPhase
  <2>1. ops'[q] = ops[q] /\ InPhase(q) /\ ops[q] \in Op
    BY <1>1 DEF StoreInv, OpsAreInPhase
  <2>2. CASE ops[q].phase \in Awaited
    <3>1. Reserved(q) /\ ops[q].phase # "unlinked"
      BY <2>1, <2>2 DEF InPhase, Awaited
    <3>2. \A p \in ops[q].paths : disk'[p] = "none"
      <4> TAKE p \in ops[q].paths
      <4>1. disk[p] = "none" /\ p \in Paths
        BY <2>1, <3>1 DEF Reserved, Op
      <4>2. CASE p \in ops[o].paths \cup new.paths
        BY <1>2, <3>1, <4>2 DEF OwnStep
      <4>3. CASE p \notin ops[o].paths \cup new.paths
        BY <4>1, <4>3 DEF OwnStep
      <4> QED
        BY <4>2, <4>3
    <3> QED
      BY <2>1, <2>2, <3>1, <3>2 DEF InPhase, Reserved, Awaited
  <2>3. CASE ops[q].phase \in Sync
    BY <2>3 DEF OwnStep, StoreInv, OpsAreApart, InSync
  <2>4. CASE ops[q].phase \notin Awaited \cup Sync
    BY <2>1, <2>4 DEF InPhase, Sync
  <2>5. QED
    BY <2>2, <2>3, <2>4
<1>5. FilesInv'
  <2> SUFFICES ASSUME NEW p \in Paths
               PROVE  \/ Recorded(p)' \/ Stray(p)'
                      \/ \E q \in Ops : ops'[q].phase \in Sync /\ p \in ops'[q].paths
    BY DEF FilesInv, OwnStep
  <2>1. CASE p \in ops[o].paths \cup new.paths
    BY <1>1, <2>1 DEF OwnStep
  <2>2. CASE p \notin ops[o].paths \cup new.paths
    <3>1. disk'[p] = disk[p] /\ records'[p] = records[p]
      BY <2>2 DEF OwnStep
    <3>2. CASE Recorded(p)
      BY <3>1, <3>2 DEF Recorded
    <3>3. CASE Stray(p)
      BY <3>3, StraysStay
    <3>4. CASE \E q \in Ops : ops[q].phase \in Sync /\ p \in ops[q].paths
      BY <1>1, <2>2, <3>4
    <3> QED
      BY <3>2, <3>3, <3>4 DEF OwnStep, StoreInv, FilesInv
  <2>3. QED
    BY <2>1, <2>2
<1>6. TempsInv'
  BY <1>1 DEF OwnStep, StoreInv, TypeInv, StoreTypeOK, TempsInv
<1>7. QED
  BY <1>3, <1>4, <1>5, <1>6 DEF StoreInv

LEMMA ReserveExternalInv == ASSUME StoreInv, NEW o \in Ops, NEW p \in Video, ReserveExternal(o, p) PROVE StoreInv'
<1> DEFINE new == [phase |-> "encoding", paths |-> {p}, renamed |-> {}]
<1>1. ops[o] \in Op /\ new \in Op
  BY DEF StoreInv, TypeInv, Op, Resting, Awaited, Sync, Paths
<1>2. InPhase(o) /\ ops' = [ops EXCEPT ![o] = new] /\ ops'[o] = new
  BY DEF StoreInv, TypeInv, OpsAreInPhase, ReserveExternal
<1>3. TypeInv'
  BY <1>1, <1>2 DEF StoreInv, TypeInv, StoreTypeOK, ReserveExternal
<1>4. InPhase(o)'
  BY <1>1, <1>2, PathsAssumption
     DEF StoreInv, TypeInv, StoreTypeOK, FilesInv, BatchIsWhole, Recorded, InPhase,
         Reserved, Renaming, Unlinked, ReserveExternal, Awaited, Sync, Resting, Op, Paths,
         Free, InSync, Available
<1>5. BatchIsWhole'
  BY <1>1, <1>2, PathsAssumption
     DEF StoreInv, TypeInv, StoreTypeOK, BatchIsWhole, InPhase, Renaming, Unlinked, Paths,
         ReserveExternal
<1>6. \A q \in ops[o].paths \cup new.paths : Recorded(q)' \/ Stray(q)'
  <2> TAKE q \in ops[o].paths \cup new.paths
  <2>1. q \in Paths /\ (Recorded(q) \/ Stray(q))
    BY <1>1, RecordedElsewhere DEF ReserveExternal, Free, Awaited, Sync, Resting, Op, Paths
  <2>2. Recorded(q) => Recorded(q)'
    BY DEF Recorded, ReserveExternal
  <2>3. Stray(q) => Stray(q)'
    <3>1. ops[o].phase # "abandoned"
      BY DEF ReserveExternal, Awaited, Resting
    <3> QED
      BY <1>2, <3>1 DEF Stray, StoreInv, TypeInv
  <2> QED
    BY <2>1, <2>2, <2>3
<1>7. OwnStep(o, new)
  BY <1>1, <1>2, <1>6 DEF OwnStep, ReserveExternal, Free, Available, Awaited, Sync, Resting, Op
<1>8. QED
  BY <1>3, <1>4, <1>5, <1>7, OwnStepKeeps

LEMMA EncodedInv == ASSUME StoreInv, NEW o \in Ops, Encoded(o) PROVE StoreInv'
<1> DEFINE new == [ops[o] EXCEPT !.phase = "validating"]
<1>1. ops[o] \in Op /\ new \in Op
  BY DEF StoreInv, TypeInv, Op, Resting, Awaited, Sync, Paths
<1>2. InPhase(o) /\ ops' = [ops EXCEPT ![o] = new] /\ ops'[o] = new
  BY DEF StoreInv, TypeInv, OpsAreInPhase, Encoded
<1>3. TypeInv'
  BY <1>1, <1>2 DEF StoreInv, TypeInv, StoreTypeOK, Encoded
<1>4. InPhase(o)'
  BY <1>1, <1>2, PathsAssumption
     DEF StoreInv, TypeInv, StoreTypeOK, FilesInv, BatchIsWhole, Recorded, InPhase,
         Reserved, Renaming, Unlinked, Encoded, Awaited, Sync, Resting, Op, Paths, Free,
         InSync, Available
<1>5. BatchIsWhole'
  BY <1>1, <1>2, PathsAssumption
     DEF StoreInv, TypeInv, StoreTypeOK, BatchIsWhole, InPhase, Renaming, Unlinked, Paths,
         Encoded
<1>6. \A q \in ops[o].paths \cup new.paths : Recorded(q)' \/ Stray(q)'
  <2> TAKE q \in ops[o].paths \cup new.paths
  <2>1. q \in Paths /\ (Recorded(q) \/ Stray(q))
    BY <1>1, RecordedElsewhere DEF Encoded, Free, Awaited, Sync, Resting, Op, Paths
  <2>2. Recorded(q) => Recorded(q)'
    BY DEF Recorded, Encoded
  <2>3. Stray(q) => Stray(q)'
    <3>1. ops[o].phase # "abandoned"
      BY DEF Encoded, Awaited, Resting
    <3> QED
      BY <1>2, <3>1 DEF Stray, StoreInv, TypeInv
  <2> QED
    BY <2>1, <2>2, <2>3
<1>7. OwnStep(o, new)
  BY <1>1, <1>2, <1>6 DEF OwnStep, Encoded, Free, Available, Awaited, Sync, Resting, Op
<1>8. QED
  BY <1>3, <1>4, <1>5, <1>7, OwnStepKeeps

LEMMA DiscardExternalInv == ASSUME StoreInv, NEW o \in Ops, DiscardExternal(o) PROVE StoreInv'
<1> DEFINE new == Resting
<1>1. ops[o] \in Op /\ new \in Op
  BY DEF StoreInv, TypeInv, Op, Resting, Awaited, Sync, Paths
<1>2. InPhase(o) /\ ops' = [ops EXCEPT ![o] = new] /\ ops'[o] = new
  BY DEF StoreInv, TypeInv, OpsAreInPhase, DiscardExternal
<1>3. TypeInv'
  BY <1>1, <1>2 DEF StoreInv, TypeInv, StoreTypeOK, DiscardExternal
<1>4. InPhase(o)'
  BY <1>1, <1>2, PathsAssumption
     DEF StoreInv, TypeInv, StoreTypeOK, FilesInv, BatchIsWhole, Recorded, InPhase,
         Reserved, Renaming, Unlinked, DiscardExternal, Awaited, Sync, Resting, Op, Paths,
         Free, InSync, Available
<1>5. BatchIsWhole'
  BY <1>1, <1>2, PathsAssumption
     DEF StoreInv, TypeInv, StoreTypeOK, BatchIsWhole, InPhase, Renaming, Unlinked, Paths,
         DiscardExternal
<1>6. \A q \in ops[o].paths \cup new.paths : Recorded(q)' \/ Stray(q)'
  <2> TAKE q \in ops[o].paths \cup new.paths
  <2>1. q \in Paths /\ (Recorded(q) \/ Stray(q))
    BY <1>1, RecordedElsewhere DEF DiscardExternal, Free, Awaited, Sync, Resting, Op, Paths
  <2>2. Recorded(q) => Recorded(q)'
    BY DEF Recorded, DiscardExternal
  <2>3. Stray(q) => Stray(q)'
    <3>1. ops[o].phase # "abandoned"
      BY DEF DiscardExternal, Awaited, Resting
    <3> QED
      BY <1>2, <3>1 DEF Stray, StoreInv, TypeInv
  <2> QED
    BY <2>1, <2>2, <2>3
<1>7. OwnStep(o, new)
  BY <1>1, <1>2, <1>6 DEF OwnStep, DiscardExternal, Free, Available, Awaited, Sync, Resting, Op
<1>8. QED
  BY <1>3, <1>4, <1>5, <1>7, OwnStepKeeps

LEMMA StageInv == ASSUME StoreInv, NEW o \in Ops, Stage(o) PROVE StoreInv'
<1> DEFINE new == [phase |-> "staged", paths |-> Sidecars, renamed |-> {}]
<1>1. ops[o] \in Op /\ new \in Op
  BY DEF StoreInv, TypeInv, Op, Resting, Awaited, Sync, Paths
<1>2. InPhase(o) /\ ops' = [ops EXCEPT ![o] = new] /\ ops'[o] = new
  BY DEF StoreInv, TypeInv, OpsAreInPhase, Stage
<1>3. TypeInv'
  BY <1>1, <1>2 DEF StoreInv, TypeInv, StoreTypeOK, Stage
<1>4. InPhase(o)'
  BY <1>1, <1>2, PathsAssumption
     DEF StoreInv, TypeInv, StoreTypeOK, FilesInv, BatchIsWhole, Recorded, InPhase,
         Reserved, Renaming, Unlinked, Stage, Awaited, Sync, Resting, Op, Paths, Free,
         InSync, Available
<1>5. BatchIsWhole'
  BY <1>1, <1>2, PathsAssumption
     DEF StoreInv, TypeInv, StoreTypeOK, BatchIsWhole, InPhase, Renaming, Unlinked, Paths,
         Stage
<1>6. OwnStep(o, new)
  BY <1>1, <1>2, PathsAssumption
     DEF OwnStep, StoreInv, TypeInv, StoreTypeOK, FilesInv, Recorded, InPhase, Reserved,
         Renaming, Unlinked, Stage, Awaited, Sync, Resting, Op, Paths, Free, InSync,
         Available
<1>7. QED
  BY <1>3, <1>4, <1>5, <1>6, OwnStepKeeps

LEMMA RecordInv == ASSUME StoreInv, NEW o \in Ops, Record(o) PROVE StoreInv'
<1> DEFINE new == Resting
<1>1. ops[o] \in Op /\ new \in Op
  BY DEF StoreInv, TypeInv, Op, Resting, Awaited, Sync, Paths
<1>2. InPhase(o) /\ ops' = [ops EXCEPT ![o] = new] /\ ops'[o] = new
  BY DEF StoreInv, TypeInv, OpsAreInPhase, Record
<1>3. TypeInv'
  BY <1>1, <1>2 DEF StoreInv, TypeInv, StoreTypeOK, Record
<1>4. InPhase(o)'
  BY <1>1, <1>2, PathsAssumption
     DEF StoreInv, TypeInv, StoreTypeOK, FilesInv, BatchIsWhole, Recorded, InPhase,
         Reserved, Renaming, Unlinked, Record, Awaited, Sync, Resting, Op, Paths, Free,
         InSync, Available
<1>5. BatchIsWhole'
  <2>1. /\ \A p \in Paths :
             records'[p] = IF p \in ops[o].paths THEN "complete" ELSE records[p]
        /\ named' <=> named \/ ops[o].paths = Sidecars
    BY DEF Record, StoreInv, TypeInv, StoreTypeOK
  <2>2. CASE ops[o].paths = Sidecars
    BY <2>1, <2>2 DEF BatchIsWhole, Paths
  <2>3. CASE ops[o].paths # Sidecars
    <3>1. \A p \in Sidecars : p \notin ops[o].paths
      BY <1>2, <2>3, PathsAssumption DEF Record, InPhase, Renaming
    <3>2. \A p \in Sidecars : records'[p] = records[p]
      BY <2>1, <3>1 DEF Paths
    <3> QED
      BY <2>1, <2>3, <3>2 DEF StoreInv, BatchIsWhole
  <2> QED
    BY <2>2, <2>3
<1>6. \A p \in ops[o].paths : disk[p] = "whole" /\ records'[p] = "complete"
  BY <1>1, <1>2 DEF Record, InPhase, Renaming, Written, Op
<1>7. \A p \in Paths : p \notin ops[o].paths => records'[p] = records[p]
  BY DEF Record
<1>8. OwnStep(o, new)
  BY <1>1, <1>2, <1>6, <1>7
     DEF OwnStep, Record, Recorded, StoreInv, TempsInv, Awaited, Sync, Resting
<1>9. QED
  BY <1>3, <1>4, <1>5, <1>8, OwnStepKeeps

LEMMA WriteFailsInv == ASSUME StoreInv, NEW o \in Ops, WriteFails(o) PROVE StoreInv'
<1> DEFINE new == Resting
<1>1. ops[o] \in Op /\ new \in Op
  BY DEF StoreInv, TypeInv, Op, Resting, Awaited, Sync, Paths
<1>2. InPhase(o) /\ ops' = [ops EXCEPT ![o] = new] /\ ops'[o] = new
  BY DEF StoreInv, TypeInv, OpsAreInPhase, WriteFails
<1>3. TypeInv'
  BY <1>1, <1>2 DEF StoreInv, TypeInv, StoreTypeOK, WriteFails, Removed
<1>4. InPhase(o)'
  BY <1>2 DEF InPhase, Awaited, Resting
<1>5. BatchIsWhole'
  BY DEF StoreInv, BatchIsWhole, WriteFails
<1>6. Renaming(o) /\ \A p \in Paths : disk'[p] = IF p \in ops[o].renamed THEN "none" ELSE disk[p]
  BY <1>2 DEF WriteFails, Removed, InPhase
<1>7. \A p \in ops[o].paths : Recorded(p)' \/ Stray(p)'
  <2> TAKE p \in ops[o].paths
  <2>1. p \in Paths /\ disk'[p] = "none" /\ (records'[p] = "complete" => Stray(p))
    BY <1>1, <1>6 DEF Renaming, Op, WriteFails
  <2>2. Stray(p) => Stray(p)'
    <3>1. ops[o].phase # "abandoned"
      BY DEF WriteFails
    <3> QED
      BY <1>2, <3>1 DEF Stray, StoreInv, TypeInv
  <2> QED
    BY <2>1, <2>2 DEF Recorded
<1>8. \A p \in Paths : p \in ops[o].paths \/ disk'[p] = disk[p]
  BY <1>6 DEF Renaming
<1>9. OwnStep(o, new)
  BY <1>1, <1>2, <1>7, <1>8 DEF OwnStep, WriteFails, Sync, Resting
<1>10. QED
  BY <1>3, <1>4, <1>5, <1>9, OwnStepKeeps

LEMMA RemovalFailsInv == ASSUME StoreInv, NEW o \in Ops, RemovalFails(o) PROVE StoreInv'
<1>1. ops[o] \in Op /\ InPhase(o)
  BY DEF StoreInv, TypeInv, OpsAreInPhase
<1>2. PICK kept \in SUBSET ops[o].renamed :
        /\ disk' = PutAside(ops[o].renamed \ kept)
        /\ ops' = [ops EXCEPT ![o] = Abandoned({}, kept)]
  BY DEF RemovalFails
<1> DEFINE new == Abandoned({}, kept)
<1>3. /\ new \in Op /\ ops'[o] = new
      /\ new.phase = "abandoned" /\ new.paths = {} /\ new.renamed = kept
  BY <1>1, <1>2 DEF Abandoned, Op, StoreInv, TypeInv
<1>4. TypeInv'
  BY <1>2, <1>3 DEF StoreInv, TypeInv, StoreTypeOK, RemovalFails, PutAside
<1>5. InPhase(o)'
  BY <1>3 DEF InPhase, Awaited
<1>6. BatchIsWhole'
  BY DEF StoreInv, BatchIsWhole, RemovalFails
<1>7. /\ Renaming(o)
      /\ \A p \in Paths : disk'[p] = IF p \in ops[o].renamed \ kept THEN "none" ELSE disk[p]
  BY <1>1, <1>2 DEF RemovalFails, PutAside, InPhase
<1>8. \A p \in ops[o].paths : Recorded(p)' \/ Stray(p)'
  <2> TAKE p \in ops[o].paths
  <2>1. p \in Paths /\ (records'[p] = "complete" => Stray(p))
        /\ (p \in kept \/ disk'[p] = "none")
    BY <1>1, <1>7 DEF Renaming, Op, RemovalFails
  <2>2. p \in kept => Stray(p)'
    BY <1>3 DEF Stray
  <2>3. Stray(p) => Stray(p)'
    <3>1. ops[o].phase # "abandoned"
      BY DEF RemovalFails
    <3> QED
      BY <1>2, <3>1 DEF Stray, StoreInv, TypeInv
  <2> QED
    BY <2>1, <2>2, <2>3 DEF Recorded
<1>9. \A p \in Paths : p \in ops[o].paths \/ disk'[p] = disk[p]
  BY <1>7 DEF Renaming
<1> HIDE DEF new
<1>10. ops' = [ops EXCEPT ![o] = new]
  BY <1>2 DEF new
<1>11. OwnStep(o, new)
  BY <1>1, <1>3, <1>8, <1>9, <1>10 DEF OwnStep, RemovalFails, Sync
<1>12. QED
  BY <1>4, <1>5, <1>6, <1>11, OwnStepKeeps

LEMMA DiscardFailsInv == ASSUME StoreInv, NEW o \in Ops, DiscardFails(o) PROVE StoreInv'
<1>1. ops[o] \in Op /\ InPhase(o) /\ ops[o].phase \in Awaited /\ ops[o].phase \notin Sync
  BY DEF StoreInv, TypeInv, OpsAreInPhase, DiscardFails, Awaited, Sync
<1>2. PICK paths \in SUBSET ops[o].paths : ops' = [ops EXCEPT ![o] = Abandoned(paths, {})]
  BY DEF DiscardFails
<1> DEFINE new == Abandoned(paths, {})
<1>3. /\ new \in Op /\ ops'[o] = new
      /\ new.phase = "abandoned" /\ new.paths = paths
  BY <1>1, <1>2 DEF Abandoned, Op, StoreInv, TypeInv
<1>4. TypeInv'
  BY <1>2, <1>3 DEF StoreInv, TypeInv, StoreTypeOK, DiscardFails
<1>5. InPhase(o)'
  BY <1>3 DEF InPhase, Awaited
<1>6. BatchIsWhole'
  BY DEF StoreInv, BatchIsWhole, DiscardFails
<1> HIDE DEF new
<1>7. ops' = [ops EXCEPT ![o] = new]
  BY <1>2 DEF new
<1>8. \A p \in ops[o].paths : Recorded(p)' \/ Stray(p)'
  <2> TAKE p \in ops[o].paths
  <2>1. p \in Paths /\ (Recorded(p) \/ Stray(p))
    BY <1>1, RecordedElsewhere DEF DiscardFails, Free, Op
  <2>2. Recorded(p) => Recorded(p)'
    BY DEF Recorded, DiscardFails
  <2>3. Stray(p) => Stray(p)'
    <3>1. ops[o].phase # "abandoned"
      BY <1>1 DEF Awaited
    <3> QED
      BY <1>7, <3>1 DEF Stray, StoreInv, TypeInv
  <2> QED
    BY <2>1, <2>2, <2>3
<1>9. OwnStep(o, new)
  BY <1>1, <1>3, <1>7, <1>8 DEF OwnStep, DiscardFails, Free, Sync, Awaited
<1>10. QED
  BY <1>4, <1>5, <1>6, <1>9, OwnStepKeeps

LEMMA UnlinkInv == ASSUME StoreInv, NEW o \in Ops, NEW p \in Video, Unlink(o, p) PROVE StoreInv'
<1> DEFINE new == [phase |-> "unlinked", paths |-> {p}, renamed |-> {}]
<1>1. ops[o] \in Op /\ new \in Op
  BY DEF StoreInv, TypeInv, Op, Resting, Awaited, Sync, Paths
<1>2. InPhase(o) /\ ops' = [ops EXCEPT ![o] = new] /\ ops'[o] = new
  BY DEF StoreInv, TypeInv, OpsAreInPhase, Unlink
<1>3. TypeInv'
  BY <1>1, <1>2 DEF StoreInv, TypeInv, StoreTypeOK, Unlink
<1>4. InPhase(o)'
  BY <1>1, <1>2, PathsAssumption
     DEF StoreInv, TypeInv, StoreTypeOK, FilesInv, BatchIsWhole, Recorded, InPhase,
         Reserved, Renaming, Unlinked, Unlink, Awaited, Sync, Resting, Op, Paths, Free,
         InSync, Available
<1>5. BatchIsWhole'
  BY <1>1, <1>2, PathsAssumption
     DEF StoreInv, TypeInv, StoreTypeOK, BatchIsWhole, InPhase, Renaming, Unlinked, Paths,
         Unlink
<1>6. \A q \in Paths : q # p => disk'[q] = disk[q] /\ records'[q] = records[q]
  BY DEF Unlink, StoreInv, TypeInv, StoreTypeOK
<1>7. OwnStep(o, new)
  BY <1>1, <1>2, <1>6
     DEF OwnStep, Unlink, Free, StoreInv, TypeInv, StoreTypeOK, TempsInv, Awaited, Sync, Resting,
         Paths
<1>8. QED
  BY <1>3, <1>4, <1>5, <1>7, OwnStepKeeps

LEMMA UnrecordInv == ASSUME StoreInv, NEW o \in Ops, Unrecord(o) PROVE StoreInv'
<1> DEFINE new == Resting
<1>1. ops[o] \in Op /\ new \in Op
  BY DEF StoreInv, TypeInv, Op, Resting, Awaited, Sync, Paths
<1>2. InPhase(o) /\ ops' = [ops EXCEPT ![o] = new] /\ ops'[o] = new
  BY DEF StoreInv, TypeInv, OpsAreInPhase, Unrecord
<1>3. TypeInv'
  BY <1>1, <1>2 DEF StoreInv, TypeInv, StoreTypeOK, Unrecord
<1>4. InPhase(o)'
  BY <1>1, <1>2, PathsAssumption
     DEF StoreInv, TypeInv, StoreTypeOK, FilesInv, BatchIsWhole, Recorded, InPhase,
         Reserved, Renaming, Unlinked, Unrecord, Awaited, Sync, Resting, Op, Paths, Free,
         InSync, Available
<1>5. BatchIsWhole'
  BY <1>1, <1>2, PathsAssumption
     DEF StoreInv, TypeInv, StoreTypeOK, BatchIsWhole, InPhase, Renaming, Unlinked, Paths,
         Unrecord
<1>6. \A p \in ops[o].paths : disk[p] = "none" /\ records'[p] = "none"
  BY <1>1, <1>2 DEF Unrecord, InPhase, Unlinked, Op
<1>7. \A p \in Paths : p \notin ops[o].paths => records'[p] = records[p]
  BY DEF Unrecord
<1>8. OwnStep(o, new)
  BY <1>1, <1>2, <1>6, <1>7
     DEF OwnStep, Unrecord, Recorded, Sync, Resting, StoreInv, TypeInv, TempsInv, Awaited
<1>9. QED
  BY <1>3, <1>4, <1>5, <1>8, OwnStepKeeps

LEMMA UnrecordFailsInv == ASSUME StoreInv, NEW o \in Ops, UnrecordFails(o) PROVE StoreInv'
<1> DEFINE new == Abandoned({}, ops[o].paths)
<1>1. ops[o] \in Op /\ InPhase(o)
  BY DEF StoreInv, TypeInv, OpsAreInPhase
<1>2. /\ new \in Op /\ new.phase = "abandoned" /\ new.paths = {} /\ new.renamed = ops[o].paths
      /\ ops' = [ops EXCEPT ![o] = new] /\ ops'[o] = new
  BY <1>1 DEF Abandoned, Op, UnrecordFails, StoreInv, TypeInv
<1> HIDE DEF new
<1>3. TypeInv'
  BY <1>2 DEF StoreInv, TypeInv, StoreTypeOK, UnrecordFails
<1>4. InPhase(o)'
  BY <1>2 DEF InPhase, Awaited
<1>5. BatchIsWhole'
  BY DEF StoreInv, BatchIsWhole, UnrecordFails
<1>6. \A p \in ops[o].paths : Stray(p)' /\ disk'[p] = "none"
  BY <1>1, <1>2 DEF Stray, InPhase, Unlinked, UnrecordFails
<1>7. OwnStep(o, new)
  BY <1>1, <1>2, <1>6 DEF OwnStep, UnrecordFails, Sync
<1>8. QED
  BY <1>3, <1>4, <1>5, <1>7, OwnStepKeeps

LEMMA RenameInv == ASSUME StoreInv, NEW o \in Ops, Rename(o) PROVE StoreInv'
<1> DEFINE
    done(p) == ops[o].renamed \cup {p}
    next(p) == IF done(p) = ops[o].paths THEN "renamed" ELSE "staged"
    new(p)  == [ops[o] EXCEPT !.renamed = done(p), !.phase = next(p)]
<1>1. ops[o] \in Op /\ InPhase(o) /\ storeMode = "up" /\ storeMode' = "up"
  BY DEF StoreInv, TypeInv, OpsAreInPhase, Rename
<1>2. PICK p \in ops[o].paths \ ops[o].renamed :
        /\ disk' = [disk EXCEPT ![p] = Written(p)]
        /\ ops' = [ops EXCEPT ![o].renamed = done(p), ![o].phase = next(p)]
        /\ temps' = IF done(p) = ops[o].paths THEN temps \ {o} ELSE temps
  BY DEF Rename
<1>3. /\ p \in Paths /\ new(p) \in Op
      /\ new(p).paths = ops[o].paths /\ new(p).renamed = done(p) /\ new(p).phase = next(p)
  <2>1. done(p) \in SUBSET Paths /\ next(p) \in Sync /\ p \in Paths
    BY <1>1, <1>2 DEF Op, Sync
  <2> HIDE DEF done, next
  <2>2. new(p) \in Op
    BY <1>1, <2>1 DEF Op
  <2>3. new(p).paths = ops[o].paths /\ new(p).renamed = done(p) /\ new(p).phase = next(p)
    BY <1>1 DEF Op
  <2>4. QED
    BY <2>1, <2>2, <2>3
<1> HIDE DEF new
<1>4. ops' = [ops EXCEPT ![o] = new(p)] /\ ops'[o] = new(p)
  BY <1>2 DEF StoreInv, TypeInv, new
<1>5. /\ ops[o].phase = "staged" \/ (ops[o].phase = "validating" /\ ~InSync)
      /\ \A q \in ops[o].paths : q = p \/ disk'[q] = disk[q]
      /\ disk'[p] = Written(p) /\ records' = records /\ named' = named
      /\ \A q \in Paths \ {p} : disk'[q] = disk[q]
  BY <1>1, <1>2, <1>3 DEF Rename, StoreInv, TypeInv, StoreTypeOK, Op
<1>6. \A q \in ops[o].paths : /\ records[q] = "complete" => Stray(q)'
                              /\ Written(q)' = Written(q)
  <2> TAKE q \in ops[o].paths
  <2>1. records[q] = "complete" => Stray(q)
    BY <1>1, <1>5, RecordedElsewhere
       DEF InPhase, Reserved, Renaming, Awaited, Sync, Recorded, Op
  <2>2. Stray(q) => Stray(q)'
    <3>1. ops[o].phase # "abandoned"
      BY <1>5
    <3> QED
      BY <1>4, <3>1 DEF Stray, StoreInv, TypeInv
  <2> QED
    BY <1>5, <2>1, <2>2 DEF Written
<1>7. /\ (ops[o].paths = Sidecars /\ ~named) \/ \E q \in Video : ops[o].paths = {q}
      /\ next(p) = "staged" => ops[o].paths = Sidecars
      /\ ops[o].renamed \subseteq ops[o].paths
      /\ \A q \in ops[o].paths :
            disk[q] = IF q \in ops[o].renamed THEN Written(q) ELSE "none"
  <2>1. CASE ops[o].phase = "staged"
    BY <1>1, <2>1 DEF InPhase, Renaming
  <2>2. CASE ops[o].phase = "validating"
    <3>1. Reserved(o)
      BY <1>1, <2>2 DEF InPhase, Awaited
    <3>2. done(p) = ops[o].paths
      BY <1>2, <3>1 DEF Reserved
    <3>3. QED
      BY <3>1, <3>2 DEF Reserved
  <2>3. QED
    BY <1>5, <2>1, <2>2
<1>8. InPhase(o)'
  <2>1. Renaming(o)'
    <3>1. ops'[o].paths = ops[o].paths /\ ops'[o].renamed = done(p)
      BY <1>3, <1>4
    <3>2. QED
      BY <1>2, <1>5, <1>6, <1>7, <3>1 DEF Renaming
  <2>2. /\ ops'[o].paths = ops[o].paths /\ ops'[o].renamed = done(p)
        /\ ops'[o].phase = next(p)
    BY <1>3, <1>4
  <2>3. QED
    BY <1>7, <2>1, <2>2 DEF InPhase, Awaited
<1>9. TypeInv'
  <2>1. disk' \in [Paths -> {"none", "whole", "damaged"}] /\ temps' \subseteq Ops
    BY <1>2 DEF StoreInv, TypeInv, StoreTypeOK, Written
  <2>2. ops' \in [Ops -> Op]
    BY <1>3, <1>4 DEF StoreInv, TypeInv
  <2>3. QED
    BY <2>1, <2>2 DEF StoreInv, TypeInv, StoreTypeOK, Rename
<1>10. OwnStep(o, new(p))
  BY <1>1, <1>2, <1>3, <1>4, <1>5 DEF OwnStep, StoreInv, TempsInv, Sync, Awaited
<1>11. BatchIsWhole'
  BY <1>5 DEF StoreInv, BatchIsWhole
<1>12. QED
  BY <1>8, <1>9, <1>10, <1>11, OwnStepKeeps
-----------------------------------------------------------------------------
(***************************************************************************)
(* Crashes and the reconciliation.                                         *)
(***************************************************************************)

LEMMA StoreCrashInv == ASSUME StoreInv, StoreCrash PROVE StoreInv'
<1>1. TypeInv'
  <2>1. Resting \in Op
    BY DEF Resting, Op
  <2>2. ops' \in [Ops -> Op]
    BY <2>1 DEF StoreCrash
  <2>3. storeCrashes' \in Nat
    <3>1. storeCrashes \in Nat /\ storeCrashes' = storeCrashes + 1
      BY DEF StoreInv, TypeInv, StoreCrash
    <3>2. QED
      BY <3>1
  <2>4. QED
    BY <2>2, <2>3 DEF StoreInv, TypeInv, StoreTypeOK, Modes, StoreCrash
<1>2. \A o \in Ops : ops'[o] = Resting
  BY DEF StoreInv, OpsAreApart, StoreCrash
<1>3. OpsAreInPhase' /\ OpsAreApart'
  BY <1>2 DEF OpsAreInPhase, InPhase, OpsAreApart, Resting, Awaited, Sync
<1>4. FilesInv'
  BY DEF StoreInv, TypeInv, StoreTypeOK, FilesInv, Recorded, StoreCrash
<1>5. TempsInv'
  BY DEF StoreInv, TempsInv, StoreCrash
<1>6. BatchIsWhole'
  BY DEF StoreInv, TypeInv, StoreTypeOK, BatchIsWhole, Paths, StoreCrash
<1>7. QED
  BY <1>1, <1>3, <1>4, <1>5, <1>6 DEF StoreInv

LEMMA DamageInv == ASSUME StoreInv, NEW p \in Paths, Damage(p) PROVE StoreInv'
<1>1. TypeInv'
  BY DEF StoreInv, TypeInv, StoreTypeOK, Op, Modes, Resting, Damage
<1>2. \A o \in Ops : ops'[o] = Resting
  BY DEF StoreInv, OpsAreApart, Damage
<1>3. OpsAreInPhase' /\ OpsAreApart'
  BY <1>2 DEF OpsAreInPhase, InPhase, OpsAreApart, Resting, Awaited, Sync
<1>4. FilesInv'
  BY DEF StoreInv, TypeInv, StoreTypeOK, FilesInv, Recorded, Damage
<1>5. TempsInv'
  BY DEF StoreInv, TempsInv, Damage
<1>6. BatchIsWhole'
  BY DEF StoreInv, TypeInv, StoreTypeOK, BatchIsWhole, Paths, Damage
<1>7. QED
  BY <1>1, <1>3, <1>4, <1>5, <1>6 DEF StoreInv

LEMMA ReconcileTemporaryInv == ASSUME StoreInv, ReconcileTemporary PROVE StoreInv'
<1>1. TypeInv'
  BY DEF StoreInv, TypeInv, StoreTypeOK, Op, Modes, Resting, ReconcileTemporary
<1>2. \A o \in Ops : ops'[o] = Resting
  BY DEF StoreInv, OpsAreApart, ReconcileTemporary
<1>3. OpsAreInPhase' /\ OpsAreApart'
  BY <1>2 DEF OpsAreInPhase, InPhase, OpsAreApart, Resting, Awaited, Sync
<1>4. FilesInv'
  BY DEF StoreInv, TypeInv, StoreTypeOK, FilesInv, Recorded, ReconcileTemporary
<1>5. TempsInv'
  BY DEF StoreInv, TempsInv, ReconcileTemporary
<1>6. BatchIsWhole'
  BY DEF StoreInv, TypeInv, StoreTypeOK, BatchIsWhole, Paths, ReconcileTemporary
<1>7. QED
  BY <1>1, <1>3, <1>4, <1>5, <1>6 DEF StoreInv

LEMMA CheckRecordInv == ASSUME StoreInv, NEW p \in Paths, CheckRecord(p) PROVE StoreInv'
<1>1. TypeInv'
  BY DEF StoreInv, TypeInv, StoreTypeOK, Op, Modes, Resting, CheckRecord, PutAside
<1>2. \A o \in Ops : ops'[o] = Resting
  BY DEF StoreInv, OpsAreApart, CheckRecord
<1>3. OpsAreInPhase' /\ OpsAreApart'
  BY <1>2 DEF OpsAreInPhase, InPhase, OpsAreApart, Resting, Awaited, Sync
<1>4. FilesInv'
  BY DEF StoreInv, TypeInv, StoreTypeOK, FilesInv, Recorded, CheckRecord, PutAside
<1>5. TempsInv'
  BY DEF StoreInv, TempsInv, CheckRecord
<1>6. BatchIsWhole'
  BY DEF StoreInv, TypeInv, StoreTypeOK, BatchIsWhole, Paths, CheckRecord, PutAside
<1>7. QED
  BY <1>1, <1>3, <1>4, <1>5, <1>6 DEF StoreInv

LEMMA RecordsCheckedInv == ASSUME StoreInv, RecordsChecked PROVE StoreInv'
<1>1. TypeInv'
  BY DEF StoreInv, TypeInv, StoreTypeOK, Op, Modes, Resting, RecordsChecked
<1>2. \A o \in Ops : ops'[o] = Resting
  BY DEF StoreInv, OpsAreApart, RecordsChecked
<1>3. OpsAreInPhase' /\ OpsAreApart'
  BY <1>2 DEF OpsAreInPhase, InPhase, OpsAreApart, Resting, Awaited, Sync
<1>4. FilesInv'
  BY DEF StoreInv, TypeInv, StoreTypeOK, FilesInv, Recorded, RecordsChecked
<1>5. TempsInv'
  BY DEF StoreInv, TempsInv, RecordsChecked
<1>6. BatchIsWhole'
  BY DEF StoreInv, TypeInv, StoreTypeOK, BatchIsWhole, Paths, RecordsChecked
<1>7. QED
  BY <1>1, <1>3, <1>4, <1>5, <1>6 DEF StoreInv

LEMMA ReconcileFilesInv == ASSUME StoreInv, ReconcileFiles PROVE StoreInv'
<1>1. TypeInv'
  BY DEF StoreInv, TypeInv, StoreTypeOK, Op, Modes, Resting, ReconcileFiles, PutAside
<1>2. \A o \in Ops : ops'[o] = Resting
  BY DEF StoreInv, OpsAreApart, ReconcileFiles
<1>3. OpsAreInPhase' /\ OpsAreApart'
  BY <1>2 DEF OpsAreInPhase, InPhase, OpsAreApart, Resting, Awaited, Sync
<1>4. FilesInv'
  BY DEF StoreInv, TypeInv, StoreTypeOK, FilesInv, Recorded, ReconcileFiles, PutAside
<1>5. TempsInv'
  BY DEF StoreInv, TempsInv, ReconcileFiles
<1>6. BatchIsWhole'
  BY DEF StoreInv, TypeInv, StoreTypeOK, BatchIsWhole, Paths, ReconcileFiles, PutAside
<1>7. QED
  BY <1>1, <1>3, <1>4, <1>5, <1>6 DEF StoreInv

LEMMA CleanUpInv == ASSUME StoreInv, NEW p \in Video, CleanUp(p) PROVE StoreInv'
<1>1. TypeInv'
  BY DEF StoreInv, TypeInv, StoreTypeOK, Op, Modes, Resting, Paths, CleanUp
<1>2. \A o \in Ops : ops'[o] = Resting
  BY DEF StoreInv, OpsAreApart, CleanUp
<1>3. OpsAreInPhase' /\ OpsAreApart'
  BY <1>2 DEF OpsAreInPhase, InPhase, OpsAreApart, Resting, Awaited, Sync
<1>4. FilesInv'
  BY DEF StoreInv, TypeInv, StoreTypeOK, FilesInv, Recorded, Paths, CleanUp
<1>5. TempsInv'
  BY DEF StoreInv, TempsInv, CleanUp
<1>6. BatchIsWhole'
  BY PathsAssumption DEF StoreInv, TypeInv, StoreTypeOK, BatchIsWhole, Paths, CleanUp
<1>7. QED
  BY <1>1, <1>3, <1>4, <1>5, <1>6 DEF StoreInv

LEMMA CleanedUpInv == ASSUME StoreInv, CleanedUp PROVE StoreInv'
<1>1. TypeInv'
  BY DEF StoreInv, TypeInv, StoreTypeOK, Op, Modes, Resting, CleanedUp
<1>2. \A o \in Ops : ops'[o] = Resting
  BY DEF StoreInv, OpsAreApart, CleanedUp
<1>3. OpsAreInPhase' /\ OpsAreApart'
  BY <1>2 DEF OpsAreInPhase, InPhase, OpsAreApart, Resting, Awaited, Sync
<1>4. FilesInv'
  BY DEF StoreInv, TypeInv, StoreTypeOK, FilesInv, Recorded, CleanedUp
<1>5. TempsInv'
  BY DEF StoreInv, TempsInv, CleanedUp
<1>6. BatchIsWhole'
  BY DEF StoreInv, TypeInv, StoreTypeOK, BatchIsWhole, Paths, CleanedUp
<1>7. QED
  BY <1>1, <1>3, <1>4, <1>5, <1>6 DEF StoreInv

-----------------------------------------------------------------------------
LEMMA StepStoreInv == StoreInv /\ [StoreNext]_storeVars => StoreInv'
<1> SUFFICES ASSUME StoreInv, [StoreNext]_storeVars PROVE StoreInv'
  OBVIOUS
<1>1. CASE UNCHANGED storeVars
  BY <1>1
     DEF storeVars, StoreInv, TypeInv, StoreTypeOK, OpsAreApart, OpsAreInPhase, InPhase, Reserved,
         Renaming, Unlinked, FilesInv, Recorded, Stray, Written, TempsInv, BatchIsWhole
<1>2. ASSUME NEW o \in Ops,
             \/ Encoded(o) \/ DiscardExternal(o) \/ Stage(o) \/ Rename(o) \/ Record(o)
             \/ WriteFails(o) \/ RemovalFails(o) \/ DiscardFails(o)
             \/ Unrecord(o) \/ UnrecordFails(o)
             \/ \E p \in Video : ReserveExternal(o, p) \/ Unlink(o, p)
      PROVE  StoreInv'
  BY <1>2, EncodedInv, DiscardExternalInv, StageInv, RenameInv, RecordInv, WriteFailsInv,
     RemovalFailsInv, DiscardFailsInv, UnrecordFailsInv, UnrecordInv, ReserveExternalInv, UnlinkInv
<1>3. CASE StoreCrash \/ ReconcileTemporary \/ RecordsChecked \/ ReconcileFiles \/ CleanedUp
  BY <1>3, StoreCrashInv, ReconcileTemporaryInv, RecordsCheckedInv, ReconcileFilesInv, CleanedUpInv
<1>4. CASE \E p \in Paths : Damage(p) \/ CheckRecord(p)
  BY <1>4, DamageInv, CheckRecordInv
<1>5. CASE \E p \in Video : CleanUp(p)
  BY <1>5, CleanUpInv
<1>6. QED
  BY <1>1, <1>2, <1>3, <1>4, <1>5 DEF StoreNext

\* The variables of the store keep their types, whatever fails or dies.
THEOREM StoreTypeCorrect == StoreSpec => []StoreTypeOK
<1>1. StoreInv => StoreTypeOK
  BY DEF StoreInv, TypeInv
<1>2. QED
  BY <1>1, InitStoreInv, StepStoreInv, PTL DEF StoreSpec

(***************************************************************************)
(* Whenever the core runs and is not in the middle of a write, a complete  *)
(* row has its file, a file has its row, the Short names its captions      *)
(* exactly when their rows exist, and temporary files belong to operations *)
(* that run: for any number of operations, paths, failed writes and crashes*)
(* of artifact-store.ts.  Where the removal of a file or the sync of its   *)
(* directory failed too, its own files are excepted till the next start.   *)
(***************************************************************************)
THEOREM StoreStaysInAgreement == StoreSpec => []StoreAgrees
<1>1. StoreInv => StoreAgrees
  <2> SUFFICES ASSUME StoreInv, Free
               PROVE  FilesAreRecorded /\ BatchIsWhole /\ TemporaryFilesAreOwned
    BY DEF StoreAgrees
  <2>1. ASSUME NEW p \in Paths \ Strays PROVE Recorded(p)
    <3>1. ~Stray(p)
      BY <2>1 DEF Stray, Strays
    <3> QED
      BY <2>1, <3>1 DEF StoreInv, FilesInv, Free, InSync
  <2>2. TemporaryFilesAreOwned
    BY DEF StoreInv, TemporaryFilesAreOwned, TempsInv, Free, Resting, Awaited
  <2> QED
    BY <2>1, <2>2 DEF StoreInv, FilesAreRecorded, Recorded
<1>2. QED
  BY <1>1, InitStoreInv, StepStoreInv, PTL DEF StoreSpec
-----------------------------------------------------------------------------
(***************************************************************************)
(* The functions of the desktop application, on the data of a behaviour,   *)
(* which stays what Init chose.                                            *)
(***************************************************************************)

LEMMA DataStays == DesktopSpec => [](data \in DataOf(part))
<1>1. DesktopInit => data \in DataOf(part)
  BY DEF DesktopInit
<1>2. data \in DataOf(part) /\ [DesktopNext]_desktopVars => (data \in DataOf(part))'
  BY DEF DesktopNext, Still, desktopVars, DataOf
<1> QED
  BY <1>1, <1>2, PTL DEF DesktopSpec

LEMMA PiecesAreWhole ==
  ASSUME NEW n \in Nat, NEW p \in Pieces(n)
  PROVE  p \in [from : Nat, to : Nat] /\ p \in [from : Int, to : Int] /\ p.from < p.to
BY DEF Pieces

LEMMA RangesAreSource ==
  ASSUME NEW ranges \in RangesUpTo(4)
  PROVE  SourceRanges(ranges)
<1>1. PICK k \in 1..3 : ranges \in [1..k -> Pieces(4)]
  BY DEF RangesUpTo
<1>2. \A i \in 1..k : ranges[i] \in [from : Int, to : Int] /\ ranges[i].from < ranges[i].to
  <2> TAKE i \in 1..k
  <2>1. ranges[i] \in Pieces(4) /\ 4 \in Nat
    BY <1>1
  <2> QED BY <2>1, PiecesAreWhole
<1>3. PICK T : T = [from : Int, to : Int]
  OBVIOUS
<1>4. ranges \in [1..k -> T] /\ k \in Nat /\ k >= 1
  BY <1>1, <1>2, <1>3
<1>5. ranges \in Seq(T) /\ ranges # <<>>
  BY <1>4
<1> QED
  BY <1>1, <1>2, <1>3, <1>5 DEF SourceRanges

LEMMA PairsAreCues ==
  ASSUME NEW c \in Pieces(4), NEW d \in Pieces(4)
  PROVE  Cues(<<c, d>>)
<1>1. 4 \in Nat
  OBVIOUS
<1>2. PICK T : T = [from : Nat, to : Nat]
  OBVIOUS
<1>3. c \in T /\ d \in T /\ c.from < c.to /\ d.from < d.to
  BY <1>1, <1>2, PiecesAreWhole
<1>4. <<c, d>> \in Seq(T) /\ DOMAIN <<c, d>> = {1, 2}
  BY <1>3
<1> QED
  BY <1>2, <1>3, <1>4 DEF Cues

(***************************************************************************)
(* The playhead, the captions, the audio and the crops agree on every      *)
(* timeline of a behaviour: an instance of TimelinesAlwaysAgree.           *)
(***************************************************************************)
THEOREM TimelinesOfTheApplication == DesktopSpec => []OneTimeline
<1>1. data \in DataOf(part) => OneTimeline
  <2> SUFFICES ASSUME data \in DataOf(part), part = "timeline"
               PROVE  TimelinesAgree(data.ranges, data.cues, data.samples, data.fade, data.bed)
    BY DEF OneTimeline
  <2>1. data \in TimelineData
    BY DEF DataOf
  <2>2. /\ data.ranges \in RangesUpTo(4) /\ data.samples \in SUBSET Int
        /\ data.fade \in Nat /\ data.bed \in Nat \ {0}
        /\ data.cues = <<>> \/ \E p \in Pieces(4) \X Pieces(4) : data.cues = p
    BY <2>1 DEF TimelineData
  <2>3. Cues(data.cues)
    <3>1. CASE data.cues = <<>>
      BY <3>1 DEF Cues
    <3>2. CASE data.cues # <<>>
      <4>1. PICK p \in Pieces(4) \X Pieces(4) : data.cues = p
        BY <2>2, <3>2
      <4>2. p = <<p[1], p[2]>> /\ p[1] \in Pieces(4) /\ p[2] \in Pieces(4)
        OBVIOUS
      <4> QED BY <4>1, <4>2, PairsAreCues
    <3> QED BY <3>1, <3>2
  <2> QED BY <2>2, <2>3, RangesAreSource, TimelinesAlwaysAgree
<1> QED
  BY <1>1, DataStays, PTL

LEMMA QuartersAreBoxes ==
  ASSUME NEW x \in {0, Quarter, 2 * Quarter}, NEW y \in {0, Quarter, 3 * Quarter},
         NEW w \in {Quarter, 2 * Quarter}, NEW h \in {Quarter, Unit}, h = Unit => y = 0
  PROVE  Box(Rectangle(x, y, w, h))
<1>1. PICK q \in Nat \ {0} : q = Quarter
  BY QuarterAssumption
<1>2. Unit \in Nat /\ 4 * q <= Unit
  BY <1>1, UnitAssumption DEF Quarter
<1>3. x \in Nat /\ y \in Nat /\ w \in Nat \ {0} /\ h \in Nat \ {0} /\ x + w <= Unit /\ y + h <= Unit
  BY <1>1, <1>2
<1> QED
  BY <1>3 DEF Box, Sized, InSource, Rectangle

LEMMA GeneratedDataIsDetected ==
  ASSUME NEW d \in GenerationData
  PROVE  Detected(d.samples) /\ Shape(d.shape)
<1>1. d.shape \in {[over |-> 1, under |-> 2], [over |-> 1, under |-> 1], [over |-> 2, under |-> 1]}
  BY DEF GenerationData
<1>2. Shape(d.shape)
  <2>1. Unit \in Nat /\ 4 <= Unit
    BY QuarterAssumption, UnitAssumption DEF Quarter
  <2>2. 1 \in 1..Unit /\ 2 \in 1..Unit
    BY <2>1
  <2> QED BY <2>2, <1>1 DEF Shape
<1>3. \A r \in Corners : Box(r)
  <2> TAKE r \in Corners
  <2>1. PICK x \in {0, 2 * Quarter}, y \in {0, Quarter, 3 * Quarter}, w \in {Quarter, 2 * Quarter} :
          r = Rectangle(x, y, w, Quarter)
    BY DEF Corners
  <2>2. Quarter # Unit
    BY QuarterAssumption, UnitAssumption DEF Quarter
  <2> QED BY <2>1, <2>2, QuartersAreBoxes
<1>4. Box(Corner) /\ Corner \in Corners
  <2>1. Corner \in Corners
    BY DEF Corner, Corners
  <2> QED BY <2>1, <1>3
<1>5. Box(Rectangle(Quarter, 0, 2 * Quarter, Unit))
  BY QuartersAreBoxes
<1> DEFINE Fine(S) == IsFiniteSet(S) /\ \A r \in S : Box(r)
           Screens == {{}, {Rectangle(Quarter, 0, 2 * Quarter, Unit)}}
<1>6. \A S \in Persons \cup Screens \cup {{Corner}} : Fine(S)
  <2>1. Fine({})
    BY FS_EmptySet
  <2>2. \A S \in Screens : Fine(S)
    BY <2>1, <1>5, FS_Singleton
  <2>3. Fine({Corner})
    BY <1>4, FS_Singleton
  <2>4. \A r, s \in Corners : Fine({r, s})
    <3> TAKE r, s \in Corners
    <3>1. IsFiniteSet({r}) /\ IsFiniteSet({r} \cup {s})
      BY FS_Singleton, FS_AddElement
    <3>2. {r} \cup {s} = {r, s}
      OBVIOUS
    <3> QED BY <3>1, <3>2, <1>3
  <2> HIDE DEF Fine, Screens
  <2> TAKE S \in Persons \cup Screens \cup {{Corner}}
  <2>5. CASE S \in Persons
    <3>1. S = {} \/ \E r, s \in Corners : S = {r, s}
      BY <2>5 DEF Persons
    <3> QED BY <3>1, <2>1, <2>4
  <2>6. CASE S \in Screens
    BY <2>2, <2>6
  <2>7. CASE S = {Corner}
    BY <2>3, <2>7
  <2> QED BY <2>5, <2>6, <2>7
<1>7. \A s : s \in Sampled(Screens) \cup Sampled({{}}) \cup {[screens |-> {}, people |-> {Corner}]}
        => Fine(s.screens) /\ Fine(s.people)
  <2> HIDE DEF Fine
  <2>1. {} \in Screens
    OBVIOUS
  <2> QED BY <2>1, <1>6 DEF Sampled
<1>8. \/ d.samples = <<>>
      \/ d.samples \in [1..1 -> Sampled(Screens)]
      \/ \E s \in Sampled({{}}) : d.samples = <<[screens |-> {}, people |-> {Corner}], s>>
  BY DEF GenerationData
<1> HIDE DEF Screens
<1>9. /\ Len(d.samples) \in Nat /\ DOMAIN d.samples = 1..Len(d.samples)
      /\ \A i \in DOMAIN d.samples :
           d.samples[i] \in Sampled(Screens) \cup Sampled({{}}) \cup {[screens |-> {}, people |-> {Corner}]}
  <2>1. CASE d.samples = <<>>
    BY <2>1
  <2>2. CASE d.samples \in [1..1 -> Sampled(Screens)]
    <3>1. PICK T : T = Sampled(Screens)
      OBVIOUS
    <3>2. d.samples \in [1..1 -> T] /\ 1 \in Nat
      BY <2>2, <3>1
    <3>3. Len(d.samples) = 1 /\ DOMAIN d.samples = 1..1 /\ d.samples[1] \in T
      BY <3>2
    <3> QED BY <3>1, <3>2, <3>3
  <2>3. CASE \E s \in Sampled({{}}) : d.samples = <<[screens |-> {}, people |-> {Corner}], s>>
    <3>1. PICK s \in Sampled({{}}) : d.samples = <<[screens |-> {}, people |-> {Corner}], s>>
      BY <2>3
    <3>2. PICK c : c = [screens |-> {}, people |-> {Corner}]
      OBVIOUS
    <3>3. PICK t : t = <<c, s>> /\ t = d.samples
      BY <3>1, <3>2
    <3>4. Len(t) = 2 /\ DOMAIN t = 1..2 /\ t[1] = c /\ t[2] = s
      <4>1. Len(t) = 2 /\ t[1] = c /\ t[2] = s
        BY <3>3
      <4>2. DOMAIN t = 1..2
        BY <3>3
      <4> QED BY <4>1, <4>2
    <3>5. \A i \in DOMAIN t : t[i] = c \/ t[i] = s
      BY <3>4
    <3> QED BY <3>1, <3>2, <3>3, <3>4, <3>5
  <2> QED BY <1>8, <2>1, <2>2, <2>3
<1>10. \A i \in DOMAIN d.samples : Fine(d.samples[i].screens) /\ Fine(d.samples[i].people)
  <2> HIDE DEF Fine
  <2> QED BY <1>7, <1>9
<1> QED
  BY <1>2, <1>9, <1>10 DEF Detected

LEMMA CropDataIsOrdered ==
  ASSUME NEW d \in CropData
  PROVE  FrameTrack(d.frames) /\ ControlTrack(d.controls)
<1> DEFINE F == [at : CropTimes, value : {Scale, 3 * Scale}]
           C == [at : CropTimes, mode : {"crop"}, value : {0, 2 * Scale}]
                  \cup [at : CropTimes, mode : {"automatic"}]
<1>1. d.frames \in Ordered(F, 2) /\ d.controls \in Ordered(C, 3)
  BY DEF CropData
<1>2. {Scale, 3 * Scale} \subseteq Multiples /\ {0, 2 * Scale} \subseteq Multiples
  <2>1. PICK s \in Int : s = Scale
    BY CropAssumption
  <2>2. s = s * 1 /\ 3 * s = s * 3 /\ 0 = s * 0 /\ 2 * s = s * 2
    BY <2>1
  <2>3. \A k \in Int : s * k \in Multiples
    BY <2>1 DEF Multiples
  <2>4. /\ 1 \in Int /\ 3 \in Int /\ 0 \in Int /\ 2 \in Int
    OBVIOUS
  <2>5. s \in Multiples /\ 3 * s \in Multiples /\ 0 \in Multiples /\ 2 * s \in Multiples
    BY <2>2, <2>3, <2>4
  <2> QED BY <2>1, <2>5
<1>3. F \subseteq [at : CropTimes, value : Multiples] /\ C \subseteq Control
  BY <1>2 DEF Control
<1>4. ASSUME NEW S, NEW n \in Nat, NEW track \in Ordered(S, n),
             \A s \in S : s.at \in Int
      PROVE  /\ \E k \in 0..n : track \in [1..k -> S]
             /\ Increasing(track)
  <2>1. PICK k \in 0..n : track \in [1..k -> S] /\ \A i \in 1..(k - 1) : track[i].at < track[i + 1].at
    BY DEF Ordered
  <2>2. k \in Nat /\ DOMAIN track = 1..k
    BY <2>1
  <2>3. \A i \in 1..k : track[i].at \in Int
    BY <2>1, <1>4
  <2> DEFINE I == {j \in 1..k : \A i \in 1..k : i < j => track[i].at < track[j].at}
  <2>4. k >= 1 => 1 \in I
    OBVIOUS
  <2>5. \A j \in 1..k : j \in I /\ j + 1 <= k => j + 1 \in I
    <3> SUFFICES ASSUME NEW j \in 1..k, j \in I, j + 1 <= k PROVE j + 1 \in I
      OBVIOUS
    <3>1. PICK h \in 1..k : h = j + 1
      <4>1. j + 1 \in 1..k
        BY <2>2
      <4> QED BY <4>1
    <3>2. track[j].at < track[h].at
      BY <3>1, <2>1
    <3>3. \A i \in 1..k : i < h => track[i].at < track[h].at
      <4> TAKE i \in 1..k
      <4> HAVE i < h
      <4>1. i = j \/ i < j
        BY <3>1
      <4>2. track[i].at = track[j].at \/ track[i].at < track[j].at
        BY <4>1
      <4>3. track[i].at \in Int /\ track[j].at \in Int /\ track[h].at \in Int
        BY <2>3
      <4> QED BY <4>2, <4>3, <3>2
    <3> QED BY <3>1, <3>3
  <2>6. \A j \in 1..k : j \in I
    <3> HIDE DEF I
    <3> QED BY <2>2, <2>4, <2>5, Everywhere
  <2>7. Increasing(track)
    BY <2>2, <2>6 DEF Increasing
  <2> QED BY <2>1, <2>7
<1>5. (\A s \in F : s.at \in Int) /\ (\A s \in C : s.at \in Int)
  <2>1. (\A s \in F : s.at \in CropTimes) /\ (\A s \in C : s.at \in CropTimes)
    OBVIOUS
  <2>2. CropTimes \subseteq Int
    BY CropAssumption
  <2> HIDE DEF F, C
  <2> QED BY <2>1, <2>2
<1> HIDE DEF F, C
<1>6. 2 \in Nat /\ 3 \in Nat
  OBVIOUS
<1>7. FrameTrack(d.frames)
  <2>1. Increasing(d.frames) /\ \E k \in 0..2 : d.frames \in [1..k -> F]
    BY <1>1, <1>4, <1>5, <1>6
  <2>2. PICK T : T = [at : CropTimes, value : Multiples]
    OBVIOUS
  <2>3. PICK k \in 0..2 : d.frames \in [1..k -> T]
    BY <2>1, <2>2, <1>3
  <2>4. d.frames \in Seq(T)
    BY <2>3
  <2> QED BY <2>1, <2>2, <2>4 DEF FrameTrack
<1>8. ControlTrack(d.controls)
  <2>1. Increasing(d.controls) /\ \E k \in 0..3 : d.controls \in [1..k -> C]
    BY <1>1, <1>4, <1>5, <1>6
  <2>2. PICK k \in 0..3 : d.controls \in [1..k -> Control]
    BY <2>1, <1>3
  <2>3. d.controls \in Seq(Control)
    BY <2>2
  <2> QED BY <2>1, <2>3 DEF ControlTrack
<1> QED
  BY <1>7, <1>8

(***************************************************************************)
(* Crops are sound as they are generated and shown as they were edited: an *)
(* instance of CropsAlwaysSound and of CropsAgreeAlways.                   *)
(***************************************************************************)
THEOREM CropsOfTheApplication == DesktopSpec => []CropsAreShownAsEdited
<1>1. data \in DataOf(part) => CropsAreShownAsEdited
  <2> SUFFICES ASSUME data \in DataOf(part) PROVE CropsAreShownAsEdited
    OBVIOUS
  <2>1. ASSUME part = "generation"
        PROVE  CropsAreSound(data.samples, data.target, data.fit, data.shape)
    <3>1. data \in GenerationData
      BY <2>1 DEF DataOf
    <3>2. Detected(data.samples) /\ Shape(data.shape)
      BY <3>1, GeneratedDataIsDetected
    <3> QED BY <3>2, CropsAlwaysSound
  <2>2. ASSUME part = "crops" PROVE CropsAgree(data.frames, data.controls)
    <3>1. data \in CropData
      BY <2>2 DEF DataOf
    <3>2. FrameTrack(data.frames) /\ ControlTrack(data.controls)
      BY <3>1, CropDataIsOrdered
    <3> QED BY <3>2, CropsAgreeAlways
  <2> QED BY <2>1, <2>2 DEF CropsAreShownAsEdited
<1> QED
  BY <1>1, DataStays, PTL

LEMMA TextsAreTexts ==
  ASSUME NEW tokens \in Texts
  PROVE  IsText(tokens)
<1>1. PICK n \in 0..5 : tokens \in [1..n -> Tokens] /\ \A i \in 1..(n - 1) : tokens[i].space # tokens[i + 1].space
  BY DEF Texts
<1>2. \A t \in Tokens : t \in TokenSet
  <2> TAKE t \in Tokens
  <2>1. t \in [space : {TRUE}, width : {1}] \/ t \in [space : {FALSE}, width : {1, 2, 5}]
    BY DEF Tokens
  <2>2. CASE t \in [space : {TRUE}, width : {1}]
    <3>1. t = [space |-> TRUE, width |-> 1]
      BY <2>2
    <3> QED BY <3>1 DEF TokenSet
  <2>3. CASE t \in [space : {FALSE}, width : {1, 2, 5}]
    <3>1. PICK S, W : S = {FALSE} /\ W = {1, 2, 5} /\ t \in [space : S, width : W]
      BY <2>3
    <3>2. \A r \in [space : S, width : W] : r.space \in S /\ r.width \in W
                                            /\ r = [space |-> r.space, width |-> r.width]
      OBVIOUS
    <3>3. t.space \in BOOLEAN /\ t.width \in Nat /\ t = [space |-> t.space, width |-> t.width]
      <4>1. t.space \in S /\ t.width \in W /\ t = [space |-> t.space, width |-> t.width]
        BY <3>1, <3>2
      <4>2. S \subseteq BOOLEAN /\ W \subseteq Nat
        BY <3>1
      <4> QED BY <4>1, <4>2
    <3>4. \A a \in BOOLEAN, b \in Nat : [space |-> a, width |-> b] \in TokenSet
      BY DEF TokenSet
    <3> QED BY <3>3, <3>4
  <2> QED BY <2>1, <2>2, <2>3
<1>3. tokens \in [1..n -> TokenSet] /\ n \in Nat
  BY <1>1, <1>2
<1>4. tokens \in Seq(TokenSet) /\ Len(tokens) = n
  BY <1>3
<1> QED
  BY <1>1, <1>4 DEF IsText

LEMMA TriplesAreCues ==
  ASSUME NEW cues \in [1..3 -> Pieces(4)]
  PROVE  Cues(cues)
<1>1. 4 \in Nat
  OBVIOUS
<1>2. PICK T : T = [from : Nat, to : Nat]
  OBVIOUS
<1>3. \A i \in 1..3 : cues[i] \in T /\ cues[i].from < cues[i].to
  <2> TAKE i \in 1..3
  <2>1. cues[i] \in Pieces(4)
    OBVIOUS
  <2> QED BY <1>1, <1>2, <2>1, PiecesAreWhole
<1>4. PICK P : P = Pieces(4)
  OBVIOUS
<1>5. cues \in [1..3 -> P]
  BY <1>4
<1>6. cues \in [1..3 -> T] /\ DOMAIN cues = 1..3
  BY <1>3, <1>5
<1>7. cues \in Seq(T)
  <2>1. \A k \in Nat : \A c \in [1..k -> T] : c \in Seq(T)
    OBVIOUS
  <2>2. 3 \in Nat
    OBVIOUS
  <2> QED BY <1>6, <2>1, <2>2
<1> QED
  BY <1>2, <1>3, <1>6, <1>7 DEF Cues

MCAssets == {"a", "b", "c", "missing"}

LEMMA LayersAreLayers ==
  ASSUME NEW n \in Nat, NEW layers \in LayersUpTo(n)
  PROVE  layers \in Seq([type : LayerTypes, asset : MCAssets \cup {"none"}, visible : BOOLEAN])
<1> DEFINE T == [type : LayerTypes, asset : MCAssets \cup {"none"}, visible : BOOLEAN]
           All == LayersOf("video", "none") \cup LayersOf("image", "a") \cup LayersOf("video", "b")
                    \cup LayersOf("captions", "none") \cup LayersOf("text", "none") \cup Undrawn
<1>1. /\ LayersOf("video", "none") \subseteq T /\ LayersOf("image", "a") \subseteq T
      /\ LayersOf("video", "b") \subseteq T /\ LayersOf("captions", "none") \subseteq T
      /\ LayersOf("text", "none") \subseteq T
  BY DEF LayersOf, LayerTypes, MCAssets
<1>2. Undrawn \subseteq T
  BY DEF Undrawn, LayerTypes, MCAssets
<1>3. All \subseteq T
  <2> HIDE DEF T
  <2> QED BY <1>1, <1>2
<1>4. PICK k \in 0..n : layers \in [1..k -> All]
  BY DEF LayersUpTo
<1> HIDE DEF T, All
<1>5. layers \in [1..k -> T] /\ k \in Nat
  BY <1>3, <1>4
<1>6. layers \in Seq(T)
  BY <1>5
<1> QED
  BY <1>6 DEF T

LEMMA GraphDataIsSnapshot ==
  ASSUME NEW d \in GraphData
  PROVE  IsSnapshot(d, MCAssets)
<1>1. /\ d.layers \in LayersUpTo(3) \cup LayersUpTo(1)
      /\ d.assets \in {<<"a", "b">>, <<>>, <<"a", "c">>}
      /\ d.ranges \in {2} \cup 1..3
      /\ d.graphics \in {<<TRUE>>, <<>>, <<FALSE, TRUE, TRUE>>}
      /\ d.cues \in BOOLEAN /\ d.heard \in BOOLEAN
  <2>1. \/ d \in [layers : LayersUpTo(3), assets : {<<"a", "b">>}, ranges : {2}, cues : BOOLEAN,
                  graphics : {<<TRUE>>}, heard : {TRUE}, bed : {"none"}]
        \/ d \in [layers : LayersUpTo(1), assets : {<<>>, <<"a", "c">>}, ranges : 1..3, cues : {TRUE},
                  graphics : {<<>>, <<FALSE, TRUE, TRUE>>}, heard : BOOLEAN, bed : {"none", "c"}]
    BY DEF GraphData
  <2>2. PICK s1, s2, s3, g1, g2, g3 :
           /\ s1 = <<"a", "b">> /\ s2 = <<>> /\ s3 = <<"a", "c">>
           /\ g1 = <<TRUE>> /\ g2 = <<>> /\ g3 = <<FALSE, TRUE, TRUE>>
    OBVIOUS
  <2>3. \/ d \in [layers : LayersUpTo(3), assets : {s1}, ranges : {2}, cues : BOOLEAN,
                  graphics : {g1}, heard : {TRUE}, bed : {"none"}]
        \/ d \in [layers : LayersUpTo(1), assets : {s2, s3}, ranges : 1..3, cues : {TRUE},
                  graphics : {g2, g3}, heard : BOOLEAN, bed : {"none", "c"}]
    BY ONLY <2>1, <2>2
  <2>4. /\ d.layers \in LayersUpTo(3) \cup LayersUpTo(1)
        /\ d.assets \in {s1, s2, s3} /\ d.ranges \in {2} \cup 1..3
        /\ d.graphics \in {g1, g2, g3} /\ d.cues \in BOOLEAN /\ d.heard \in BOOLEAN
    BY ONLY <2>3
  <2> QED BY ONLY <2>2, <2>4
<1>2. d.layers \in Seq([type : LayerTypes, asset : MCAssets \cup {"none"}, visible : BOOLEAN])
  <2>1. 3 \in Nat /\ 1 \in Nat
    OBVIOUS
  <2> QED BY <1>1, <2>1, LayersAreLayers
<1>3. /\ d.assets \in Seq(MCAssets)
      /\ \A i, j \in DOMAIN d.assets : d.assets[i] = d.assets[j] => i = j
  <2>1. /\ <<"a", "b">> \in Seq(MCAssets) /\ <<>> \in Seq(MCAssets) /\ <<"a", "c">> \in Seq(MCAssets)
    BY DEF MCAssets
  <2>2. \A i, j \in DOMAIN <<"a", "b">> : <<"a", "b">>[i] = <<"a", "b">>[j] => i = j
    OBVIOUS
  <2>3. \A i, j \in DOMAIN <<"a", "c">> : <<"a", "c">>[i] = <<"a", "c">>[j] => i = j
    OBVIOUS
  <2>4. \A i, j \in DOMAIN <<>> : <<>>[i] = <<>>[j] => i = j
    OBVIOUS
  <2> QED BY <1>1, <2>1, <2>2, <2>3, <2>4
<1>4. d.graphics \in Seq(BOOLEAN)
  <2>1. <<TRUE>> \in Seq(BOOLEAN) /\ <<>> \in Seq(BOOLEAN) /\ <<FALSE, TRUE, TRUE>> \in Seq(BOOLEAN)
    OBVIOUS
  <2> QED BY <1>1, <2>1
<1>5. "none" \notin MCAssets
  BY DEF MCAssets
<1> QED
  BY <1>1, <1>2, <1>3, <1>4, <1>5 DEF IsSnapshot

(***************************************************************************)
(* Captions keep their words and are warned of, overlaps are found, a text *)
(* layer is drawn in its lines, and the graph of a Render is wired: an     *)
(* instance of CaptionsAlwaysWrapped, of OverlapsFound, of                 *)
(* TextLayersAlwaysFit and of GraphsAlwaysWired.                           *)
(***************************************************************************)
THEOREM RenderOfTheApplication == DesktopSpec => []RenderIsWellFormed
<1>1. data \in DataOf(part) => RenderIsWellFormed
  <2> SUFFICES ASSUME data \in DataOf(part) PROVE RenderIsWellFormed
    OBVIOUS
  <2>1. ASSUME part = "captions"
        PROVE  /\ WrappingIsSound(data.tokens, data.maximum, data.at, Canvas8, Safe8)
               /\ OverlapsAreFound(data.cues)
               /\ \A style \in TextStyles : TextLayerIsSound(data.tokens, data.maximum, style)
    <3>1. data \in CaptionData
      BY <2>1 DEF DataOf
    <3>2. /\ data.tokens \in Texts \cup {<<>>} /\ data.maximum \in {3, 4}
          /\ data.at \in {[x |-> 3, y |-> 2], [x |-> 5, y |-> 5]}
          /\ data.cues \in {<<>>} \cup [1..3 -> Pieces(4)]
      BY <3>1 DEF CaptionData
    <3>3. IsText(data.tokens)
      <4>1. IsText(<<>>)
        BY DEF IsText
      <4> QED BY <3>2, <4>1, TextsAreTexts
    <3>4. Cues(data.cues)
      <4>1. Cues(<<>>)
        BY DEF Cues
      <4> QED BY <3>2, <4>1, TriplesAreCues
    <3>5. data.maximum \in Nat /\ data.at \in [x : Int, y : Int]
      BY <3>2
    <3>6. Canvas8 \in Edges /\ Safe8 \in Edges /\ Within(Safe8, Canvas8)
      BY DEF Canvas8, Safe8, Edges, Within
    <3>7. \A style \in TextStyles : style \in TextStyle
      <4> TAKE style \in TextStyles
      <4>1. /\ style = [maxLines |-> style.maxLines, overflow |-> style.overflow, wrap |-> style.wrap]
            /\ style.maxLines \in 1..3 /\ style.overflow \in {"clip", "ellipsis"} /\ style.wrap \in BOOLEAN
        BY DEF TextStyles
      <4>2. style.maxLines \in Nat \ {0}
        BY <4>1
      <4> QED BY <4>1, <4>2 DEF TextStyle
    <3>8. \A style \in TextStyles : TextLayerIsSound(data.tokens, data.maximum, style)
      BY <3>3, <3>5, <3>7, TextLayersAlwaysFit
    <3>9. OverlapsAreFound(data.cues)
      BY <3>4, OverlapsFound
    <3> QED BY <3>3, <3>5, <3>6, <3>8, <3>9, CaptionsAlwaysWrapped
  <2>2. ASSUME part = "graph" PROVE IsWired(buildRenderGraph(data))
    <3>1. data \in GraphData
      BY <2>2 DEF DataOf
    <3> QED BY <3>1, GraphDataIsSnapshot, GraphsAlwaysWired
  <2> QED BY <2>1, <2>2 DEF RenderIsWellFormed
<1> QED
  BY <1>1, DataStays, PTL

-----------------------------------------------------------------------------
LEMMA TimesAreInOrder ==
  ASSUME NEW n \in 1..4, NEW t, NEW m \in Nat, t \in [0..n -> 0..m],
         \A i \in 1..n : t[i] - t[i - 1] >= 1
  PROVE  \A i, j \in 0..n : i <= j => t[i] <= t[j]
<1>1. \A i \in 0..n : t[i] \in Int
  OBVIOUS
<1>2. \A i \in 0..n : i + 1 \in 0..n => t[i] <= t[i + 1]
  <2> TAKE i \in 0..n
  <2> HAVE i + 1 \in 0..n
  <2>1. PICK k \in 1..n : k = i + 1
    OBVIOUS
  <2>2. k - 1 = i
    BY <2>1
  <2>3. PICK x, y \in Int : x = t[i] /\ y = t[k]
    BY <1>1, <2>1
  <2>4. y - x >= 1
    BY <2>2, <2>3
  <2> QED BY <2>1, <2>3, <2>4
<1> TAKE i, j \in 0..n
<1> HAVE i <= j
<1>3. \/ j = i \/ j = i + 1 \/ j = (i + 1) + 1 \/ j = ((i + 1) + 1) + 1
      \/ j = (((i + 1) + 1) + 1) + 1
  <2>1. PICK d \in Int : d = j - i
    OBVIOUS
  <2>2. d = 0 \/ d = 1 \/ d = 2 \/ d = 3 \/ d = 4
    <3>1. i \in Int /\ j \in Int /\ 0 <= i /\ i <= j /\ j <= 4
      BY ONLY i \in 0..n, j \in 0..n, n \in 1..4, i <= j
    <3>2. 0 <= d /\ d <= 4
      BY <2>1, <3>1
    <3> QED BY <3>2
  <2>3. j = i + d
    BY <2>1
  <2> QED BY <2>2, <2>3
<1>4. CASE j = i
  BY <1>1, <1>4
<1>5. CASE j = i + 1
  BY <1>2, <1>5
<1>6. CASE j = (i + 1) + 1
  <2>1. i + 1 \in 0..n
    BY <1>6
  <2>2. t[i] <= t[i + 1] /\ t[i + 1] <= t[j]
    BY <2>1, <1>2, <1>6
  <2> QED BY <2>1, <2>2, <1>1
<1>7. CASE j = ((i + 1) + 1) + 1
  <2>1. i + 1 \in 0..n /\ (i + 1) + 1 \in 0..n
    BY <1>7
  <2>2. t[i] <= t[i + 1] /\ t[i + 1] <= t[(i + 1) + 1] /\ t[(i + 1) + 1] <= t[j]
    BY <2>1, <1>2, <1>7
  <2> QED BY <2>1, <2>2, <1>1
<1>8. CASE j = (((i + 1) + 1) + 1) + 1
  <2>1. i + 1 \in 0..n /\ (i + 1) + 1 \in 0..n /\ ((i + 1) + 1) + 1 \in 0..n
    BY <1>8
  <2>2. /\ t[i] <= t[i + 1] /\ t[i + 1] <= t[(i + 1) + 1]
        /\ t[(i + 1) + 1] <= t[((i + 1) + 1) + 1] /\ t[((i + 1) + 1) + 1] <= t[j]
    BY <2>1, <1>2, <1>8
  <2> QED BY <2>1, <2>2, <1>1
<1> QED
  BY <1>3, <1>4, <1>5, <1>6, <1>7, <1>8

LEMMA TranscriptsAre ==
  ASSUME NEW n \in 1..4, NEW lengths \in SUBSET {1, 2}, NEW segments \in Transcripts(n, lengths)
  PROVE  IsTranscript(segments)
<1>1. PICK t, kinds :
        /\ t \in Times(n, lengths) /\ kinds \in [1..n -> SegmentKinds]
        /\ segments = Transcript(t, kinds)
  BY DEF Transcripts
<1>2. PICK m \in Nat : m = 2 * n
  OBVIOUS
<1>3. t \in [0..n -> 0..m] /\ \A i \in 1..n : t[i] - t[i - 1] \in {1, 2}
  BY <1>1, <1>2 DEF Times
<1>4. \A i, j \in 0..n : i <= j => t[i] <= t[j]
  <2>1. \A i \in 1..n : t[i] - t[i - 1] >= 1
    <3> TAKE i \in 1..n
    <3>1. PICK d : d = t[i] - t[i - 1]
      OBVIOUS
    <3>2. d \in {1, 2}
      BY <3>1, <1>3
    <3>3. d >= 1
      BY <3>2
    <3> QED BY <3>1, <3>3
  <2> QED BY <2>1, <1>3, TimesAreInOrder
<1>5. DOMAIN segments = 1..n /\ Len(segments) = n
  BY <1>1 DEF Transcript
<1>6. \A i \in 1..n : segments[i].from = t[i - 1] /\ segments[i].to = t[i]
                      /\ segments[i].quality = kinds[i].quality
  BY <1>1 DEF Transcript
<1>7. \A i \in 1..n : /\ segments[i].from \in Int /\ segments[i].to \in Int
                      /\ segments[i].quality \in Int /\ segments[i].from < segments[i].to
  <2> TAKE i \in 1..n
  <2>1. i \in 0..n /\ i - 1 \in 0..n
    OBVIOUS
  <2>2. PICK x, y \in Int : x = t[i - 1] /\ y = t[i]
    BY <2>1, <1>3
  <2>3. y - x \in {1, 2}
    BY <2>2, <1>3
  <2>4. x < y
    BY <2>3
  <2>5. kinds[i].quality \in {0, 1}
    BY <1>1 DEF SegmentKinds
  <2> QED BY <2>2, <2>4, <2>5, <1>6
<1>8. \A i, j \in 1..n : i < j => segments[i].to <= segments[j].from
  <2> TAKE i, j \in 1..n
  <2> HAVE i < j
  <2>1. i \in 0..n /\ j - 1 \in 0..n /\ i <= j - 1
    OBVIOUS
  <2>2. PICK k \in 0..n : k = j - 1
    BY <2>1
  <2>3. t[i] <= t[k]
    BY <2>1, <2>2, <1>4
  <2> QED BY <2>2, <2>3, <1>6
<1> QED
  BY <1>5, <1>7, <1>8 DEF IsTranscript

LEMMA SchedulesAreGiven ==
  ASSUME NEW d \in ScheduleData
  PROVE  /\ d.zone \in Zones /\ AreRules(d.rules)
         /\ Orderable(d.shorts) /\ IsFiniteSet(d.shorts)
<1>1. DayHours \in Nat /\ DayHours >= 6
  BY DayAssumption, HoursAssumption
<1>2. /\ d.zone \in [change : {7, 12}, before : {-3, 1}, after : {-3, 0, 1, 4}]
      /\ d.rules \in [days : {{0, 1, 2}, {0, 2}}, times : {<<5, 0>>, <<2, 3>>}, spacing : {0, 5}]
      /\ d.shorts \in {{[id |-> 1, priority |-> 1, episode |-> e], [id |-> 2, priority |-> p, episode |-> 1],
                        [id |-> 3, priority |-> 1, episode |-> 2]} : e \in {1, 2}, p \in {1, 2}}
  BY DEF ScheduleData
<1>3. d.zone \in Zones
  <2>1. \A x \in {-3, 0, 1, 4} : x \in -DayHours..DayHours
    BY <1>1
  <2>2. d.zone \in [change : Int, before : -DayHours..DayHours, after : -DayHours..DayHours]
    BY <1>2, <2>1
  <2> QED BY <2>2 DEF Zones, Offsets
<1>4. AreRules(d.rules)
  <2>1. PICK H : H = 0..(DayHours - 1)
    OBVIOUS
  <2>2. 0 \in H /\ 2 \in H /\ 3 \in H /\ 5 \in H
    BY <1>1, <2>1
  <2>3. PICK s, t : s = <<5, 0>> /\ t = <<2, 3>>
    OBVIOUS
  <2>4. s \in Seq(H) /\ t \in Seq(H)
    BY <2>2, <2>3
  <2>5. d.rules \in [days : {{0, 1, 2}, {0, 2}}, times : {s, t}, spacing : {0, 5}]
    BY ONLY <1>2, <2>3
  <2>6. d.rules.times \in {s, t}
    BY ONLY <2>5
  <2>7. d.rules.times \in Seq(H)
    BY ONLY <2>4, <2>6
  <2>8. d.rules.days \subseteq Int /\ d.rules.spacing \in Nat
    BY <1>2
  <2> QED BY <2>1, <2>7, <2>8 DEF AreRules
<1>5. PICK e \in {1, 2}, p \in {1, 2} :
        d.shorts = {[id |-> 1, priority |-> 1, episode |-> e], [id |-> 2, priority |-> p, episode |-> 1],
                    [id |-> 3, priority |-> 1, episode |-> 2]}
  BY <1>2
<1>6. PICK a, b, c : /\ a = [id |-> 1, priority |-> 1, episode |-> e]
                     /\ b = [id |-> 2, priority |-> p, episode |-> 1]
                     /\ c = [id |-> 3, priority |-> 1, episode |-> 2]
  OBVIOUS
<1>7. d.shorts = {a, b, c}
  BY <1>5, <1>6
<1>8. /\ a.id = 1 /\ b.id = 2 /\ c.id = 3
      /\ a.priority \in Int /\ b.priority \in Int /\ c.priority \in Int
  BY <1>6
<1>9. Orderable(d.shorts)
  BY <1>7, <1>8 DEF Orderable
<1>10. IsFiniteSet(d.shorts)
  <2>1. IsFiniteSet({a})
    BY FS_Singleton
  <2>2. IsFiniteSet({a} \cup {b})
    BY <2>1, FS_AddElement
  <2>3. IsFiniteSet(({a} \cup {b}) \cup {c})
    BY <2>2, FS_AddElement
  <2>4. ({a} \cup {b}) \cup {c} = d.shorts
    BY <1>7
  <2> QED BY <2>3, <2>4
<1> QED
  BY <1>3, <1>4, <1>9, <1>10

(***************************************************************************)
(* Candidates are distinct and the best there are, and drafts of the       *)
(* schedule keep its rules: an instance of CandidatesAlwaysSound and of    *)
(* SchedulesAreSound.                                                      *)
(***************************************************************************)
THEOREM ProposalsOfTheApplication == DesktopSpec => []ProposalsAreSound
<1>1. data \in DataOf(part) => ProposalsAreSound
  <2> SUFFICES ASSUME data \in DataOf(part) PROVE ProposalsAreSound
    OBVIOUS
  <2>1. ASSUME part = "candidates" PROVE CandidatesAreSound(data.segments, data.highlight, 2)
    <3>1. data \in CandidateData
      BY <2>1 DEF DataOf
    <3>2. \/ \E n \in 1..3 : data.segments \in Transcripts(n, {1, 2})
          \/ data.segments \in Transcripts(4, {1})
      BY <3>1 DEF CandidateData
    <3>3. IsTranscript(data.segments)
      <4>1. CASE \E n \in 1..3 : data.segments \in Transcripts(n, {1, 2})
        <5>1. PICK n \in 1..4 : data.segments \in Transcripts(n, {1, 2})
          BY <4>1
        <5>2. {1, 2} \in SUBSET {1, 2}
          OBVIOUS
        <5> QED BY <5>1, <5>2, TranscriptsAre
      <4>2. CASE data.segments \in Transcripts(4, {1})
        <5>1. 4 \in 1..4 /\ {1} \in SUBSET {1, 2}
          OBVIOUS
        <5> QED BY <5>1, <4>2, TranscriptsAre
      <4> QED BY <3>2, <4>1, <4>2
    <3>4. 2 \in Nat \ {0}
      OBVIOUS
    <3> QED BY <3>3, <3>4, CandidatesAlwaysSound
  <2>2. ASSUME part = "schedule"
        PROVE  ScheduleIsSound(data.zone, data.rules, data.shorts, data.occupied)
    <3>1. data \in ScheduleData
      BY <2>2 DEF DataOf
    <3> QED BY <3>1, SchedulesAreGiven, SchedulesAreSound
  <2> QED BY <2>1, <2>2 DEF ProposalsAreSound
<1> QED
  BY <1>1, DataStays, PTL
===============================================================================
