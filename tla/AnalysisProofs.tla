---------------------------- MODULE AnalysisProofs ----------------------------
(***************************************************************************)
(* Proofs about the way from an analysis to an approved Short, for any     *)
(* number of credentials, chunks, grants, jobs, candidates, revisions,     *)
(* parts of a model, releases and ends of a process: CloudAnalysis,        *)
(* ModelInstall, CandidatePool, ShortEdits and Migrations.                 *)
(***************************************************************************)
EXTENDS CloudAnalysis, ModelInstall, CandidatePool, ShortEdits, Migrations,
        FiniteSetTheorems, TLAPS

-----------------------------------------------------------------------------
(***************************************************************************)
(* Cloud analyses.                                                         *)
(***************************************************************************)

SomeHandle == Handles \cup {NoHandle}

TaskPcs      == {"ended", "queued", "sampling", "asking", "working"}
OperationPcs == {"none", "preparing", "attempt", "authorizing", "allowed", "refused",
                 "posted", "sleeping"}

Tasks      == [kind : AnalyzeKinds, pc : TaskPcs, handle : SomeHandle, read : Nat,
               cancelled : BOOLEAN, staged : BOOLEAN]
Operations == [pc : OperationPcs, kind : AnalyzeKinds, handle : SomeHandle,
               chunk : Nat, attempt : Nat, aborted : BOOLEAN]
Messages   == [what : {"request", "cancel"}, kind : AnalyzeKinds, handle : SomeHandle]
DesktopCalls == [what : {"synchronize", "remove", "removed"}, handles : SUBSET Handles]

CloudTypeOK ==
    /\ core \in {"up", "stopping", "down"} /\ electron \in BOOLEAN
    /\ task \in Tasks
    /\ grant \in SomeHandle /\ active \in SUBSET Handles /\ vault \in SUBSET Handles
    /\ desktopCalls \in SUBSET DesktopCalls
    /\ toElectron \in Seq(Messages) /\ toCore \in Seq({"result", "error"})
    /\ operation \in Operations
    /\ episode \in [transcript : Nat, analyses : SUBSET Nat, missing : BOOLEAN]
    /\ spent \in [jobs : Nat, grants : Nat, ends : Nat]
    /\ lapsedPosts \in [Handles -> {0, 1}]

\* A request that was sent although its authorization had lapsed leaves its
\* credential without one, and a request that the core has just allowed is not
\* under such a credential.
LapseInv ==
    \A h \in Handles :
        lapsedPosts[h] = 1 =>
            /\ grant # h
            /\ ~(operation.pc = "allowed" /\ operation.handle = h)

CloudInv == CloudTypeOK /\ LapseInv

LEMMA InitCloudInv == CloudInit => CloudInv
<1> SUFFICES ASSUME CloudInit PROVE CloudInv
  OBVIOUS
<1> USE DEF CloudInit
<1>1. task \in Tasks
  BY DEF NoTask, Tasks, TaskPcs, SomeHandle, AnalyzeKinds
<1>2. operation \in Operations
  BY DEF NoOperation, Operations, OperationPcs, SomeHandle, AnalyzeKinds
<1>3. desktopCalls \in SUBSET DesktopCalls
  BY DEF Synchronize, DesktopCalls
<1>4. toElectron \in Seq(Messages) /\ toCore \in Seq({"result", "error"})
  OBVIOUS
<1>5. episode \in [transcript : Nat, analyses : SUBSET Nat, missing : BOOLEAN]
  OBVIOUS
<1>6. CloudTypeOK
  BY <1>1, <1>2, <1>3, <1>4, <1>5 DEF CloudTypeOK, SomeHandle
<1>7. LapseInv
  BY DEF LapseInv
<1> QED
  BY <1>6, <1>7 DEF CloudInv

\* The handler starts, or goes on, with a task it may run.
LEMMA HandlerSteps ==
  ASSUME CloudInv, NEW t \in Tasks, Handler(t), UNCHANGED spent \/ spent' \in [jobs : Nat, grants : Nat, ends : Nat]
  PROVE  CloudInv'
<1> USE DEF CloudInv
<1>1. [t EXCEPT !.pc = "ended"] \in Tasks /\ [t EXCEPT !.pc = "asking"] \in Tasks
      /\ [t EXCEPT !.pc = "working"] \in Tasks
  BY DEF Tasks, TaskPcs
<1>2. [t EXCEPT !.pc = "sampling", !.read = episode.transcript] \in Tasks
  BY DEF Tasks, TaskPcs, CloudTypeOK
<1>3. Request(t) \in Messages
  BY DEF Request, Messages, Tasks
<1>4. Append(toElectron, Request(t)) \in Seq(Messages)
  BY <1>3 DEF CloudTypeOK
<1>5. task' \in Tasks
  BY <1>1, <1>2 DEF Handler, Consult, Asks, Ended
<1>6. toElectron' \in Seq(Messages)
  BY <1>4 DEF Handler, Consult, Asks, CloudTypeOK
<1>7. CloudTypeOK'
  BY <1>5, <1>6 DEF Handler, CloudTypeOK
<1>8. LapseInv'
  BY DEF Handler, LapseInv
<1> QED
  BY <1>7, <1>8

LEMMA StartSteps == ASSUME CloudInv, NEW kind \in AnalyzeKinds, Start(kind) PROVE CloudInv'
<1> DEFINE t == [NoTask EXCEPT !.kind = kind,
                             !.handle = IF IsOpenAi(kind) THEN grant ELSE NoHandle]
<1>1. t \in Tasks
  BY DEF NoTask, Tasks, TaskPcs, SomeHandle, CloudInv, CloudTypeOK
<1>2. spent' \in [jobs : Nat, grants : Nat, ends : Nat]
  BY DEF Start, CloudInv, CloudTypeOK
<1>3. Handler(t)
  BY DEF Start
<1> HIDE DEF t
<1> QED
  BY <1>1, <1>2, <1>3, HandlerSteps

LEMMA StartAgainSteps == ASSUME CloudInv, StartAgain PROVE CloudInv'
<1>1. task \in Tasks /\ Handler(task) /\ UNCHANGED spent
  BY DEF StartAgain, CloudInv, CloudTypeOK
<1> QED
  BY <1>1, HandlerSteps

LEMMA NothingSent == <<>> \in Seq({"result", "error"})
OBVIOUS

\* What an answer stores is an Episode.
LEMMA TranscribedType ==
  ASSUME CloudInv
  PROVE  Transcribed \in [transcript : Nat, analyses : SUBSET Nat, missing : BOOLEAN]
<1> DEFINE Episodes == [transcript : Nat, analyses : SUBSET Nat, missing : BOOLEAN]
<1>1. episode \in Episodes /\ episode.transcript \in Nat
  BY DEF CloudInv, CloudTypeOK
<1>2. PICK n \in Nat : n = episode.transcript + 1
  BY <1>1
<1>3. [episode EXCEPT !.transcript = n, !.analyses = {}] \in Episodes
  BY <1>1
<1>4. [episode EXCEPT !.transcript = @ + 1, !.analyses = {}] \in Episodes
  BY <1>1, <1>2, <1>3
<1> QED
  BY <1>1, <1>4 DEF Transcribed

LEMMA RecordedType ==
  ASSUME CloudInv
  PROVE  Recorded(task) \in [transcript : Nat, analyses : SUBSET Nat, missing : BOOLEAN]
<1> DEFINE Episodes == [transcript : Nat, analyses : SUBSET Nat, missing : BOOLEAN]
<1>1. episode \in Episodes /\ task.read \in Nat
  BY DEF CloudInv, CloudTypeOK, Tasks
<1>2. [episode EXCEPT !.analyses = @ \cup {task.read}] \in Episodes
  BY <1>1
<1> QED
  BY <1>2, TranscribedType DEF Recorded

LEMMA SampledSteps == ASSUME CloudInv, Sampled PROVE CloudInv'
<1> USE DEF CloudInv
<1> DEFINE t == [task EXCEPT !.staged = TRUE]
<1>1. task \in Tasks /\ t \in Tasks
  BY DEF CloudTypeOK, Tasks
<1>2. Request(t) \in Messages
  BY <1>1 DEF Request, Messages, Tasks
<1>3. /\ [task EXCEPT !.pc = "ended"] \in Tasks
      /\ [t EXCEPT !.pc = "asking"] \in Tasks
      /\ [t EXCEPT !.pc = "working"] \in Tasks
      /\ [t EXCEPT !.pc = "ended"] \in Tasks
  BY <1>1 DEF Tasks, TaskPcs
<1>4. Append(toElectron, Request(t)) \in Seq(Messages)
  BY <1>2 DEF CloudTypeOK
<1>5. \/ task' = Ended(task) /\ UNCHANGED toElectron
      \/ Consult(t)
  BY DEF Sampled
<1> HIDE DEF t
<1>6. task' \in Tasks
  BY <1>3, <1>5 DEF Consult, Asks, Ended
<1>7. toElectron' \in Seq(Messages)
  BY <1>4, <1>5 DEF Consult, Asks, CloudTypeOK
<1>8. CloudTypeOK'
  BY <1>6, <1>7 DEF Sampled, CloudTypeOK
<1>9. LapseInv'
  BY DEF Sampled, LapseInv
<1> QED
  BY <1>8, <1>9

\* The other steps of the core, which sends nothing.
LEMMA CoreSteps ==
  ASSUME CloudInv, WorkerSettles \/ CancelJob \/ CancelTimer \/ Receive
  PROVE  CloudInv'
<1> USE DEF CloudInv
<1>1. task \in Tasks
  BY DEF CloudTypeOK
<1>2. [task EXCEPT !.pc = "ended"] \in Tasks /\ [task EXCEPT !.cancelled = TRUE] \in Tasks
  BY <1>1 DEF Tasks, TaskPcs
<1>3. CASE WorkerSettles
  <2>1. CloudTypeOK'
    BY <1>1, <1>2, <1>3, RecordedType DEF WorkerSettles, AnswerArrives, Ended, CloudTypeOK
  <2> QED
    BY <1>3, <2>1 DEF WorkerSettles, LapseInv
<1>4. CASE CancelJob
  <2>1. CloudTypeOK'
    BY <1>2, <1>4 DEF CancelJob, CloudTypeOK
  <2> QED
    BY <1>4, <2>1 DEF CancelJob, LapseInv
<1>5. CASE CancelTimer
  <2>1. CancelMessage \in Messages
    BY <1>1 DEF CancelMessage, Messages, Tasks
  <2>2. Append(toElectron, CancelMessage) \in Seq(Messages)
    BY <2>1 DEF CloudTypeOK
  <2>3. toElectron' \in Seq(Messages)
    BY <1>5, <2>2 DEF CancelTimer, CloudTypeOK
  <2>4. toCore' \in Seq({"result", "error"})
    BY <1>5, NothingSent DEF CancelTimer, CloudTypeOK
  <2>5. CloudTypeOK'
    BY <1>5, <2>3, <2>4 DEF CancelTimer, CloudTypeOK
  <2> QED
    BY <1>5, <2>5 DEF CancelTimer, LapseInv
<1>6. CASE Receive
  <2>1. Tail(toCore) \in Seq({"result", "error"})
    BY <1>6 DEF Receive, CloudTypeOK
  <2>2. task' \in Tasks
    BY <1>1, <1>2, <1>6 DEF Receive, AnswerArrives, Ended
  <2>3. episode' \in [transcript : Nat, analyses : SUBSET Nat, missing : BOOLEAN]
    BY <1>6, RecordedType DEF Receive, AnswerArrives, CloudTypeOK
  <2>4. CloudTypeOK'
    BY <1>6, <2>1, <2>2, <2>3 DEF Receive, CloudTypeOK
  <2> QED
    BY <1>6, <2>4 DEF Receive, LapseInv
<1> QED
  BY <1>3, <1>4, <1>5, <1>6

\* Of the bridge: what it asks of the variables its steps share.
LEMMA BridgeSteps ==
  ASSUME CloudInv, BridgeKeeps,
         toElectron' \in Seq(Messages), toCore' \in Seq({"result", "error"}),
         operation' \in Operations,
         lapsedPosts' \in [Handles -> {0, 1}], LapseInv'
  PROVE  CloudInv'
BY DEF CloudInv, CloudTypeOK, BridgeKeeps

LEMMA SendType ==
  ASSUME CloudInv, NEW answer \in {"result", "error"}, Send(answer)
  PROVE  toCore' \in Seq({"result", "error"})
<1>1. toCore \in Seq({"result", "error"}) /\ Append(toCore, answer) \in Seq({"result", "error"})
  BY DEF CloudInv, CloudTypeOK
<1> QED
  BY <1>1 DEF Send

\* An operation that goes anywhere but to a request that is allowed.
LEMMA OperationSteps ==
  ASSUME CloudInv, BridgeKeeps, UNCHANGED lapsedPosts,
         toElectron' \in Seq(Messages),
         \/ Settle("error") \/ Settle("result")
         \/ operation' \in Operations /\ operation'.pc # "allowed" /\ UNCHANGED toCore
  PROVE  CloudInv'
<1>1. NoOperation \in Operations /\ NoOperation.pc # "allowed"
  BY DEF NoOperation, Operations, OperationPcs, SomeHandle, AnalyzeKinds
<1>2. operation' \in Operations /\ operation'.pc # "allowed"
  BY <1>1 DEF Settle
<1>3. toCore' \in Seq({"result", "error"})
  BY SendType DEF Settle, CloudInv, CloudTypeOK
<1>4. lapsedPosts' \in [Handles -> {0, 1}]
  BY DEF CloudInv, CloudTypeOK
<1>5. LapseInv'
  BY <1>2 DEF LapseInv, CloudInv, BridgeKeeps
<1> QED
  BY <1>2, <1>3, <1>4, <1>5, BridgeSteps

LEMMA ReceiveMessageSteps == ASSUME CloudInv, ReceiveMessage PROVE CloudInv'
<1> DEFINE m == Head(toElectron)
<1>1. m \in Messages /\ toElectron' \in Seq(Messages)
  BY DEF ReceiveMessage, CloudInv, CloudTypeOK
<1>2. operation \in Operations
  BY DEF CloudInv, CloudTypeOK
<1>3. BridgeKeeps /\ UNCHANGED lapsedPosts
  BY DEF ReceiveMessage
<1>4. CASE m.what = "cancel"
  <2>1. operation' = [operation EXCEPT !.aborted = operation.pc # "none"] /\ UNCHANGED toCore
    BY <1>4 DEF ReceiveMessage
  <2>2. operation' \in Operations
    BY <1>2, <2>1 DEF Operations
  <2>3. operation'.pc = operation.pc /\ operation'.handle = operation.handle
    BY <1>2, <2>1 DEF Operations
  <2>4. LapseInv'
    BY <1>3, <2>3 DEF LapseInv, CloudInv, BridgeKeeps
  <2> QED
    BY <1>1, <1>3, <2>1, <2>2, <2>4, BridgeSteps DEF CloudInv, CloudTypeOK
<1>5. CASE m.what # "cancel"
  <2> DEFINE o == [NoOperation EXCEPT !.pc = "preparing", !.kind = m.kind, !.handle = m.handle]
  <2>1. o \in Operations /\ o.pc # "allowed"
    BY <1>1 DEF NoOperation, Operations, OperationPcs, Messages
  <2>2. \/ Settle("error")
        \/ operation' = o /\ UNCHANGED toCore
    BY <1>5 DEF ReceiveMessage
  <2> QED
    BY <1>1, <1>3, <2>1, <2>2, OperationSteps
<1> QED
  BY <1>4, <1>5

\* The steps of an operation but for the core's answer and the request itself.
LEMMA AttemptSteps ==
  ASSUME CloudInv, Prepared \/ BeginAttempt \/ PostEnds \/ Wake
  PROVE  CloudInv'
<1>1. operation \in Operations /\ toElectron' \in Seq(Messages)
  BY DEF CloudInv, CloudTypeOK, Prepared, BeginAttempt, PostEnds, Wake
<1>2. BridgeKeeps /\ UNCHANGED lapsedPosts
  BY DEF Prepared, BeginAttempt, PostEnds, Wake
<1>3. \A pc \in OperationPcs \ {"allowed"} :
        [operation EXCEPT !.pc = pc] \in Operations /\ [operation EXCEPT !.pc = pc].pc # "allowed"
  BY <1>1 DEF Operations
<1> DEFINE next  == [operation EXCEPT !.pc = "attempt", !.chunk = @ + 1, !.attempt = 1]
           again == [operation EXCEPT !.pc = "attempt", !.attempt = @ + 1]
<1>4. /\ next \in Operations /\ next.pc # "allowed"
      /\ again \in Operations /\ again.pc # "allowed"
  <2>1. operation.chunk + 1 \in Nat /\ operation.attempt + 1 \in Nat /\ 1 \in Nat
    BY <1>1 DEF Operations
  <2>2. next \in Operations
    BY <1>1, <2>1 DEF Operations, OperationPcs
  <2>3. again \in Operations
    BY <1>1, <2>1 DEF Operations, OperationPcs
  <2>4. next.pc # "allowed" /\ again.pc # "allowed"
    BY <1>1 DEF Operations
  <2> QED
    BY <2>2, <2>3, <2>4
<1> HIDE DEF next, again
<1>5. \/ Settle("error") \/ Settle("result")
      \/ operation' \in Operations /\ operation'.pc # "allowed" /\ UNCHANGED toCore
  <2>1. CASE Prepared \/ BeginAttempt
    BY <1>3, <2>1 DEF Prepared, BeginAttempt, Proceeds, OperationPcs
  <2>2. CASE PostEnds
    BY <1>3, <1>4, <2>2 DEF PostEnds, Proceeds, OperationPcs, next
  <2>3. CASE Wake
    BY <1>4, <2>3 DEF Wake, again
  <2> QED
    BY <2>1, <2>2, <2>3
<1> QED
  BY <1>1, <1>2, <1>5, OperationSteps

\* What the core allows is under the authorization of the moment.
LEMMA AuthorizeSteps == ASSUME CloudInv, Authorize PROVE CloudInv'
<1>1. operation \in Operations /\ toElectron' \in Seq(Messages)
  BY DEF CloudInv, CloudTypeOK, Authorize
<1>2. BridgeKeeps /\ UNCHANGED lapsedPosts
  BY DEF Authorize
<1>3. \A pc \in OperationPcs : [operation EXCEPT !.pc = pc] \in Operations
  BY <1>1 DEF Operations
<1>4. CASE core = "up" /\ validateCloudAuthorization(operation.handle)
  <2>1. operation' = [operation EXCEPT !.pc = "allowed"] /\ UNCHANGED toCore
    BY <1>4 DEF Authorize, Proceeds
  <2>2. operation' \in Operations /\ operation'.handle = grant
    BY <1>1, <1>3, <1>4, <2>1 DEF OperationPcs, Operations, validateCloudAuthorization
  <2>3. LapseInv'
    BY <1>2, <2>2 DEF LapseInv, CloudInv, BridgeKeeps
  <2> QED
    BY <1>1, <1>2, <2>1, <2>2, <2>3, BridgeSteps DEF CloudInv, CloudTypeOK
<1>5. CASE ~(core = "up" /\ validateCloudAuthorization(operation.handle))
  <2>1. \/ Settle("error")
        \/ operation' = [operation EXCEPT !.pc = "refused"] /\ UNCHANGED toCore
    BY <1>5 DEF Authorize, Proceeds
  <2>2. [operation EXCEPT !.pc = "refused"].pc # "allowed"
    BY <1>1 DEF Operations
  <2> QED
    BY <1>1, <1>2, <1>3, <2>1, <2>2, OperationSteps DEF OperationPcs
<1> QED
  BY <1>4, <1>5

\* The request goes out; if its authorization has lapsed, that is the only one.
LEMMA PostSteps == ASSUME CloudInv, Post PROVE CloudInv'
<1>1. operation \in Operations /\ toElectron' \in Seq(Messages) /\ BridgeKeeps
  BY DEF CloudInv, CloudTypeOK, Post
<1>2. CASE operation.pc = "allowed" /\ operation.handle \in vault /\ ~operation.aborted
  <2>1. PICK h \in Handles : h = operation.handle
    BY <1>2 DEF CloudInv, CloudTypeOK
  <2>2. operation' = [operation EXCEPT !.pc = "posted"] /\ UNCHANGED toCore
    BY <1>2 DEF Post, Proceeds
  <2>3. operation' \in Operations /\ operation'.pc # "allowed"
    BY <1>1, <2>2 DEF Operations, OperationPcs
  <2>4. lapsedPosts[h] = 0
    BY <1>2, <2>1 DEF CloudInv, CloudTypeOK, LapseInv
  <2>5. CASE grant # h
    <3>1. lapsedPosts' = [lapsedPosts EXCEPT ![h] = 1]
      BY <1>2, <2>1, <2>4, <2>5 DEF Post, Lapsed
    <3>2. lapsedPosts' \in [Handles -> {0, 1}]
      BY <3>1 DEF CloudInv, CloudTypeOK
    <3>3. LapseInv'
      BY <1>1, <2>3, <2>5, <3>1 DEF LapseInv, CloudInv, CloudTypeOK, BridgeKeeps
    <3> QED
      BY <1>1, <2>2, <2>3, <3>2, <3>3, BridgeSteps DEF CloudInv, CloudTypeOK
  <2>6. CASE grant = h
    <3>1. UNCHANGED lapsedPosts
      BY <1>2, <2>1, <2>6 DEF Post, Lapsed
    <3> QED
      BY <1>1, <2>2, <2>3, <3>1, OperationSteps
  <2> QED
    BY <2>5, <2>6
<1>3. CASE ~(operation.pc = "allowed" /\ operation.handle \in vault /\ ~operation.aborted)
  BY <1>1, <1>3, OperationSteps DEF Post
<1> QED
  BY <1>2, <1>3

LEMMA CredentialSteps ==
  ASSUME CloudInv,
         \/ \E h \in Handles : Grant(h) \/ RemoveCredential(h)
         \/ Revoke \/ SaveCredential
         \/ \E call \in desktopCalls : ServeCall(call) \/ RemoveProtected(call)
  PROVE  CloudInv'
<1> USE DEF CloudInv, CredentialsKeep, SomeHandle
<1>1. CASE \E h \in Handles : Grant(h)
  <2>1. PICK h \in Handles : Grant(h)
    BY <1>1
  <2>2. CloudTypeOK'
    <3>1. spent' \in [jobs : Nat, grants : Nat, ends : Nat]
      <4>1. spent \in [jobs : Nat, grants : Nat, ends : Nat]
        BY DEF CloudTypeOK
      <4> QED
        BY <2>1, <4>1 DEF Grant
    <3>2. lapsedPosts' \in [Handles -> {0, 1}]
      <4>1. lapsedPosts \in [Handles -> {0, 1}]
        BY DEF CloudTypeOK
      <4> QED
        BY <2>1, <4>1 DEF Grant
    <3> QED
      BY <2>1, <3>1, <3>2 DEF Grant, CloudTypeOK
  <2>3. LapseInv'
    BY <2>1 DEF Grant, LapseInv, CloudTypeOK
  <2> QED
    BY <2>2, <2>3
<1>2. CASE \E h \in Handles : RemoveCredential(h)
  <2>1. PICK h \in Handles : RemoveCredential(h)
    BY <1>2
  <2>2. Removal("remove", h) \in DesktopCalls
    BY DEF Removal, DesktopCalls
  <2>3. CloudTypeOK'
    BY <2>1, <2>2 DEF RemoveCredential, CloudTypeOK
  <2> QED
    BY <2>1, <2>3 DEF RemoveCredential, LapseInv
<1>3. CASE Revoke
  <2>1. CloudTypeOK'
    BY <1>3 DEF Revoke, CloudTypeOK
  <2> QED
    BY <1>3, <2>1, CloudHandlesAssumption DEF Revoke, LapseInv
<1>4. CASE SaveCredential
  <2>1. Synchronize(vault) \in DesktopCalls
    BY DEF Synchronize, DesktopCalls, CloudTypeOK
  <2>2. CloudTypeOK'
    BY <1>4, <2>1 DEF SaveCredential, CloudTypeOK
  <2> QED
    BY <1>4, <2>2 DEF SaveCredential, LapseInv
<1>5. CASE \E call \in desktopCalls : ServeCall(call)
  <2>1. PICK call \in desktopCalls : ServeCall(call)
    BY <1>5
  <2>2. call \in DesktopCalls
    BY DEF CloudTypeOK
  <2>3. [call EXCEPT !.what = "removed"] \in DesktopCalls
    BY <2>2 DEF DesktopCalls
  <2>4. desktopCalls' \in SUBSET DesktopCalls
    BY <2>1, <2>3 DEF ServeCall, CloudTypeOK
  <2>5. active' \in SUBSET Handles
    BY <2>1, <2>2 DEF ServeCall, CloudTypeOK, DesktopCalls
  <2>6. grant' \in {grant, NoHandle}
    BY <2>1 DEF ServeCall
  <2>7. CloudTypeOK'
    BY <2>1, <2>4, <2>5, <2>6 DEF ServeCall, CloudTypeOK
  <2> QED
    BY <2>1, <2>6, <2>7, CloudHandlesAssumption DEF ServeCall, LapseInv
<1>6. CASE \E call \in desktopCalls : RemoveProtected(call)
  <2>1. CloudTypeOK'
    BY <1>6 DEF RemoveProtected, CloudTypeOK
  <2> QED
    BY <1>6, <2>1 DEF RemoveProtected, LapseInv
<1> QED
  BY <1>1, <1>2, <1>3, <1>4, <1>5, <1>6

LEMMA ProcessSteps ==
  ASSUME CloudInv,
         \/ EditTranscript \/ SourceChanges
         \/ ElectronEnds \/ CoreDies \/ CoreStops \/ Restart
  PROVE  CloudInv'
<1> USE DEF CloudInv
<1>1. CASE EditTranscript \/ SourceChanges
  <2>1. episode' \in [transcript : Nat, analyses : SUBSET Nat, missing : BOOLEAN]
    BY <1>1, TranscribedType DEF EditTranscript, SourceChanges, CloudTypeOK
  <2>2. CloudTypeOK'
    BY <1>1, <2>1 DEF EditTranscript, SourceChanges, EpisodeKeeps, CloudTypeOK
  <2> QED
    BY <1>1, <2>2 DEF EditTranscript, SourceChanges, EpisodeKeeps, LapseInv
<1>2. CASE ElectronEnds
  <2>1. NoOperation \in Operations /\ NoOperation.pc # "allowed"
    BY DEF NoOperation, Operations, OperationPcs, SomeHandle, AnalyzeKinds
  <2>2. toElectron' \in Seq(Messages)
    BY <1>2 DEF ElectronEnds
  <2>3. spent' \in [jobs : Nat, grants : Nat, ends : Nat]
    <3>1. spent \in [jobs : Nat, grants : Nat, ends : Nat]
      BY DEF CloudTypeOK
    <3> QED
      BY <1>2, <3>1 DEF ElectronEnds
  <2>4. CloudTypeOK'
    BY <1>2, <2>1, <2>2, <2>3 DEF ElectronEnds, CloudTypeOK
  <2> QED
    BY <1>2, <2>1, <2>4 DEF ElectronEnds, LapseInv
<1>3. CASE CoreDies \/ CoreStops
  <2>1. toCore' \in Seq({"result", "error"})
    BY <1>3, NothingSent DEF CoreDies, CoreStops, CoreDown
  <2>2. spent' \in [jobs : Nat, grants : Nat, ends : Nat]
    BY <1>3 DEF CoreDies, CoreStops, CloudTypeOK
  <2>3. CloudTypeOK'
    BY <1>3, <2>1, <2>2 DEF CoreDies, CoreStops, CoreDown, CloudTypeOK
  <2> QED
    BY <1>3, <2>3 DEF CoreDies, CoreStops, LapseInv
<1>4. CASE Restart
  <2>1. Synchronize(vault) \in DesktopCalls
    BY DEF Synchronize, DesktopCalls, CloudTypeOK
  <2>2. task' \in Tasks
    BY <1>4 DEF Restart, RecoveredTask, Ended, CloudTypeOK, Tasks, TaskPcs
  <2>3. CloudTypeOK'
    BY <1>4, <2>1, <2>2 DEF Restart, CloudTypeOK
  <2> QED
    BY <1>4, <2>3 DEF Restart, LapseInv
<1> QED
  BY <1>1, <1>2, <1>3, <1>4

LEMMA NextCloudInv == CloudInv /\ [CloudNext]_cloudVars => CloudInv'
<1> SUFFICES ASSUME CloudInv, [CloudNext]_cloudVars PROVE CloudInv'
  OBVIOUS
<1>1. CASE \E kind \in AnalyzeKinds : Start(kind)
  BY <1>1, StartSteps
<1>2. CASE StartAgain \/ Sampled
  BY <1>2, StartAgainSteps, SampledSteps
<1>3. CASE WorkerSettles \/ CancelJob \/ CancelTimer \/ Receive
  BY <1>3, CoreSteps
<1>4. CASE BridgeStep
  BY <1>4, ReceiveMessageSteps, AttemptSteps, AuthorizeSteps, PostSteps DEF BridgeStep
<1>5. CASE \/ \E h \in Handles : Grant(h) \/ RemoveCredential(h)
           \/ Revoke \/ SaveCredential
           \/ \E call \in desktopCalls : ServeCall(call) \/ RemoveProtected(call)
  BY <1>5, CredentialSteps
<1>6. CASE EditTranscript \/ SourceChanges \/ ElectronEnds \/ CoreDies \/ CoreStops \/ Restart
  BY <1>6, ProcessSteps
<1>7. CASE UNCHANGED cloudVars
  BY <1>7 DEF cloudVars, CloudInv, CloudTypeOK, LapseInv
<1> QED
  BY <1>1, <1>2, <1>3, <1>4, <1>5, <1>6, <1>7 DEF CloudNext

\* Whatever is granted, revoked, removed and restarted in whatever order, at
\* most one request leaves the computer under an authorization that has lapsed.
THEOREM LapsedCredentialsRest == CloudSpec => []RevocationStopsUploads
<1>1. CloudInv => RevocationStopsUploads
  BY DEF CloudInv, CloudTypeOK, RevocationStopsUploads
<1> QED
  BY InitCloudInv, NextCloudInv, <1>1, PTL DEF CloudSpec
-----------------------------------------------------------------------------
(***************************************************************************)
(* The installation of the speech model.                                   *)
(***************************************************************************)

ModelPcs == {"idle", "space", "download", "transfer", "verify", "extract", "extracted",
             "clear", "aside", "activate", "drop", "remove target", "bring back", "clean"}
Phases   == {"ready", "paused", "not_installed", "failed", "downloading", "verifying",
             "installing"}
Managers == [pc : ModelPcs, aborted : BOOLEAN, phase : Phases]

ModelTypeOK ==
    /\ manager \in Managers
    /\ archive \in BOOLEAN
    /\ partial \in [size : 0..Parts, right : BOOLEAN]
    /\ dir \in [Dirs -> Contents]
    /\ starts \in Nat /\ held \in Contents
    /\ trouble \in {"none", "dropping", "rolling back", "ended"}

\* Where the previous model, the new one and what is shown are at each step.
InstallInv ==
    /\ manager.phase = "ready" => manager.pc \in {"idle", "space"} /\ dir["target"] = "whole"
    /\ manager.pc \in {"extracted", "clear", "aside", "activate"} => dir["staging"] = "whole"
    /\ manager.pc \in {"clear", "aside"} => held = dir["target"]
    /\ manager.pc \in {"drop", "clean"} => dir["target"] = "whole"
    /\ manager.pc \in {"clear", "aside", "activate", "drop"} => trouble = "none"
    /\ manager.pc \in {"activate", "bring back"} => dir["target"] = "absent"
    /\ manager.pc \in Away \cup {"drop"} /\ held # "absent" /\ trouble # "dropping" =>
         dir["backup"] = held
    /\ manager.pc \notin Away /\ trouble = "none" => dir["target"] \in {held, "whole"}
    /\ trouble # "dropping" =>
         dir["target"] \in {held, "whole"} \/ (held # "absent" /\ dir["backup"] = held)
    /\ manager.pc \in {"remove target", "bring back"} => held # "absent"

ModelInv == ModelTypeOK /\ InstallInv

LEMMA InitializedType ==
  ASSUME partial \in [size : 0..Parts, right : BOOLEAN], NEW target
  PROVE  /\ Initialized(target) \in Managers
         /\ Initialized(target).pc = "idle"
         /\ Initialized(target).phase = "ready" => target = "whole"
BY DEF Initialized, Managers, ModelPcs, Phases

LEMMA InitModelInv == ModelInit => ModelInv
<1> SUFFICES ASSUME ModelInit PROVE ModelInv
  OBVIOUS
<1>1. partial \in [size : 0..Parts, right : BOOLEAN]
  BY ModelAssumption DEF ModelInit, NoBytes
<1>2. /\ dir \in [Dirs -> Contents] /\ dir["target"] = held /\ held \in Contents
      /\ manager = Initialized(held)
  BY DEF ModelInit, Dirs, Contents
<1>3. ModelTypeOK
  BY <1>1, <1>2, InitializedType DEF ModelInit, ModelTypeOK
<1>4. InstallInv
  BY <1>1, <1>2, InitializedType DEF ModelInit, InstallInv, Away
<1> QED
  BY <1>3, <1>4 DEF ModelInv

\* How a step leaves the manager.
LEMMA ManagerMoves ==
  ASSUME manager \in Managers
  PROVE  /\ \A pc \in ModelPcs :
              Goes(pc) => manager' \in Managers /\ manager'.pc = pc /\ manager'.phase = manager.phase
         /\ Fails => manager' \in Managers /\ manager'.pc = "idle" /\ manager'.phase = "failed"
         /\ Pauses => manager' \in Managers /\ manager'.pc = "idle" /\ manager'.phase = "paused"
         /\ RollBack => /\ manager' \in Managers /\ manager'.phase \in {"failed", manager.phase}
                        /\ manager'.pc = IF held = "absent" THEN "idle" ELSE "remove target"
<1>1. \A pc \in ModelPcs :
        Goes(pc) => manager' \in Managers /\ manager'.pc = pc /\ manager'.phase = manager.phase
  BY DEF Goes, Managers
<1>2. Fails => manager' \in Managers /\ manager'.pc = "idle" /\ manager'.phase = "failed"
  BY DEF Fails, Managers, ModelPcs, Phases
<1>3. Pauses => manager' \in Managers /\ manager'.pc = "idle" /\ manager'.phase = "paused"
  BY DEF Pauses, Managers, ModelPcs, Phases
<1> QED
  BY <1>1, <1>2, <1>3 DEF RollBack, ModelPcs

\* And the directories.
LEMMA DirectoryMoves ==
  ASSUME dir \in [Dirs -> Contents]
  PROVE  /\ \A d \in Dirs, content \in Contents :
              Set(d, content) => /\ dir' \in [Dirs -> Contents]
                                 /\ dir'[d] = content
                                 /\ \A e \in Dirs \ {d} : dir'[e] = dir[e]
         /\ \A from, to \in Dirs : from # to =>
              (Renamed(from, to) => /\ dir' \in [Dirs -> Contents]
                                    /\ dir'[to] = dir[from] /\ dir'[from] = "absent"
                                    /\ \A e \in Dirs \ {from, to} : dir'[e] = dir[e])
         /\ \A d \in Dirs :
              RemovalStops(d) => /\ dir' \in [Dirs -> Contents]
                                 /\ \A e \in Dirs \ {d} : dir'[e] = dir[e]
BY DEF Set, Renamed, RemovalStops, Contents

\* Up to the archive the directories stay.
LEMMA TransferSteps ==
  ASSUME ModelInv,
         \/ start \/ cancel \/ CheckSpace \/ BeginTransfer \/ ReceiveChunk
         \/ TransferBreaks \/ EndTransfer
  PROVE  ModelInv'
<1> USE DEF ModelInv
<1>1. manager \in Managers /\ UNCHANGED <<dir, held, trouble>>
  BY DEF ModelTypeOK, start, cancel, CheckSpace, BeginTransfer, ReceiveChunk, TransferBreaks,
     EndTransfer, DiskKeeps, ModelKeeps
<1>2. starts' \in Nat
  <2>1. starts' = starts \/ starts' = starts + 1
    BY DEF start, cancel, CheckSpace, BeginTransfer, ReceiveChunk, TransferBreaks, EndTransfer,
       ModelKeeps
  <2>2. starts \in Nat
    BY DEF ModelTypeOK
  <2> QED
    BY <2>1, <2>2
<1>3. NoBytes \in [size : 0..Parts, right : BOOLEAN]
  BY ModelAssumption DEF NoBytes
<1>4. partial' \in [size : 0..Parts, right : BOOLEAN] /\ archive' \in BOOLEAN
  <2>1. CASE ReceiveChunk
    <3>1. partial.size \in 0..Parts /\ partial.size < Parts
      BY <2>1 DEF ModelTypeOK, ReceiveChunk
    <3>2. partial.size + 1 \in 0..Parts
      BY <3>1, ModelAssumption
    <3>3. PICK right \in BOOLEAN :
             partial' = [size |-> partial.size + 1, right |-> partial.right /\ right]
      BY <2>1 DEF ReceiveChunk
    <3>4. (partial.right /\ right) \in BOOLEAN /\ archive' \in BOOLEAN
      BY <2>1 DEF ModelTypeOK, ReceiveChunk
    <3> QED
      BY <3>2, <3>3, <3>4
  <2>2. CASE BeginTransfer \/ EndTransfer
    BY <1>3, <2>2 DEF ModelTypeOK, BeginTransfer, EndTransfer, DiskKeeps
  <2> QED
    BY <2>1, <2>2 DEF ModelTypeOK, start, cancel, CheckSpace, TransferBreaks, DiskKeeps
<1>5. /\ manager' \in Managers
      /\ \/ manager'.pc = manager.pc /\ manager'.phase = manager.phase
         \/ manager.pc = "idle" /\ manager'.pc = "space" /\ manager'.phase = manager.phase
         \/ /\ manager.pc \in {"space", "download", "transfer"}
            /\ manager'.pc \in {"idle", "download"} /\ manager'.phase # "ready"
         \/ /\ manager.pc \in {"download", "transfer"}
            /\ manager'.pc \in {"transfer", "verify"} /\ manager'.phase = manager.phase
  <2>1. CASE start \/ cancel \/ CheckSpace
    BY <1>1, <2>1, ManagerMoves
       DEF start, cancel, CheckSpace, Running, RunAt, Managers, ModelPcs, Phases
  <2>2. CASE BeginTransfer
    BY <1>1, <2>2, ManagerMoves DEF BeginTransfer, RunAt, ModelPcs
  <2>3. CASE ReceiveChunk \/ TransferBreaks
    BY <1>1, <2>3, ManagerMoves DEF ReceiveChunk, TransferBreaks, RunAt
  <2>4. CASE EndTransfer
    BY <1>1, <2>4, ManagerMoves DEF EndTransfer, RunAt, ModelPcs
  <2> QED
    BY <2>1, <2>2, <2>3, <2>4
<1>6. ModelTypeOK'
  BY <1>1, <1>2, <1>4, <1>5 DEF ModelTypeOK
<1>7. InstallInv'
  BY <1>1, <1>5 DEF InstallInv, Away
<1> QED
  BY <1>6, <1>7

LEMMA ExtractionSteps ==
  ASSUME ModelInv, BeginExtraction \/ EndExtraction
  PROVE  ModelInv'
<1> USE DEF ModelInv
<1>1. /\ manager \in Managers /\ dir \in [Dirs -> Contents]
      /\ UNCHANGED <<archive, partial, starts, held, trouble>>
  BY DEF ModelTypeOK, BeginExtraction, EndExtraction, ModelKeeps
<1>2. dir' \in [Dirs -> Contents] /\ dir'["target"] = dir["target"] /\ dir'["backup"] = dir["backup"]
  BY <1>1, DirectoryMoves DEF BeginExtraction, EndExtraction, Dirs, Contents
<1>3. /\ manager' \in Managers /\ manager'.phase # "ready" /\ manager.pc \in {"verify", "extract"}
      /\ \/ manager'.pc \in {"idle", "extract"}
         \/ manager'.pc = "extracted" /\ dir'["staging"] = "whole"
  <2>1. manager.phase # "ready"
    BY DEF BeginExtraction, EndExtraction, RunAt, InstallInv
  <2>2. CASE BeginExtraction
    BY <1>1, <2>2, ManagerMoves DEF BeginExtraction, RunAt, Managers, ModelPcs, Phases
  <2>3. CASE EndExtraction
    BY <1>1, <2>1, <2>3, ManagerMoves, DirectoryMoves
       DEF EndExtraction, RunAt, ModelPcs, Dirs, Contents
  <2> QED
    BY <2>2, <2>3
<1>4. ModelTypeOK'
  BY <1>1, <1>2, <1>3 DEF ModelTypeOK
<1>5. InstallInv'
  BY <1>1, <1>2, <1>3 DEF InstallInv, Away
<1> QED
  BY <1>4, <1>5

\* What the activation finds is what the histories start from.
LEMMA BeginningSteps == ASSUME ModelInv, BeginActivation PROVE ModelInv'
<1> USE DEF ModelInv
<1>1. /\ manager \in Managers /\ manager.pc = "extracted" /\ dir \in [Dirs -> Contents]
      /\ manager.phase # "ready" /\ UNCHANGED <<archive, partial, dir, starts>>
  BY DEF ModelTypeOK, InstallInv, BeginActivation, DiskKeeps, RunAt
<1>2. manager' \in Managers /\ manager'.pc \in {"clear", "idle"} /\ manager'.phase # "ready"
  BY <1>1, ManagerMoves DEF BeginActivation, Managers, ModelPcs, Phases
<1>3. \/ held' = dir["target"] /\ trouble' = "none" /\ manager'.pc = "clear"
      \/ UNCHANGED <<held, trouble>> /\ manager'.pc = "idle"
  BY <1>1, ManagerMoves DEF BeginActivation, Managers
<1>4. dir["target"] \in Contents
  BY <1>1 DEF Dirs
<1>5. ModelTypeOK'
  BY <1>1, <1>2, <1>3, <1>4 DEF ModelTypeOK
<1>6. InstallInv'
  BY <1>1, <1>2, <1>3 DEF InstallInv, Away
<1> QED
  BY <1>5, <1>6

LEMMA ActivationSteps ==
  ASSUME ModelInv, ClearBackup \/ SetTargetAside \/ Activate
  PROVE  ModelInv'
<1> USE DEF ModelInv
<1>1. manager \in Managers /\ dir \in [Dirs -> Contents] /\ manager.phase # "ready"
  BY DEF ModelTypeOK, InstallInv, ClearBackup, SetTargetAside, Activate, RunAt
<1>2. UNCHANGED <<archive, partial, starts, held, trouble>>
  BY DEF ClearBackup, SetTargetAside, Activate, ModelKeeps
<1>3. CASE ClearBackup
  <2>1. /\ manager.pc = "clear" /\ manager'.pc \in {"aside", "idle"}
        /\ manager' \in Managers /\ manager'.phase # "ready"
    BY <1>1, <1>3, ManagerMoves DEF ClearBackup, RunAt, ModelPcs
  <2>2. /\ dir' \in [Dirs -> Contents]
        /\ dir'["target"] = dir["target"] /\ dir'["staging"] = dir["staging"]
    BY <1>1, <1>3, DirectoryMoves DEF ClearBackup, Dirs, Contents
  <2>3. /\ dir["staging"] = "whole" /\ held = dir["target"] /\ trouble = "none"
    BY <2>1 DEF InstallInv
  <2> QED
    BY <1>2, <2>1, <2>2, <2>3 DEF ModelTypeOK, InstallInv, Away
<1>4. CASE SetTargetAside
  <2>1. /\ manager.pc = "aside"
        /\ manager' \in Managers /\ manager'.phase # "ready"
        /\ dir' \in [Dirs -> Contents] /\ dir'["staging"] = dir["staging"]
    BY <1>1, <1>4, ManagerMoves, DirectoryMoves DEF SetTargetAside, RunAt, ModelPcs, Dirs
  <2>2. \/ manager'.pc = "activate" /\ dir'["backup"] = held /\ dir'["target"] = "absent"
        \/ manager'.pc = "activate" /\ UNCHANGED dir /\ dir["target"] = "absent" /\ held = "absent"
        \/ manager'.pc = "idle" /\ UNCHANGED dir
    BY <1>1, <1>4, ManagerMoves, DirectoryMoves
       DEF SetTargetAside, RunAt, InstallInv, ModelPcs, Dirs
  <2> QED
    BY <1>2, <2>1, <2>2 DEF ModelTypeOK, InstallInv, Away
<1>5. CASE Activate
  <2>1. manager.pc = "activate" /\ dir["staging"] = "whole"
    BY <1>5 DEF Activate, RunAt, InstallInv
  <2>2. CASE Renamed("staging", "target") /\ Goes("drop")
    <3>1. /\ manager' \in Managers /\ manager'.pc = "drop" /\ manager'.phase # "ready"
          /\ dir' \in [Dirs -> Contents] /\ dir'["target"] = "whole"
          /\ dir'["backup"] = dir["backup"]
      BY <1>1, <2>1, <2>2, ManagerMoves, DirectoryMoves DEF ModelPcs, Dirs
    <3> QED
      BY <1>2, <2>1, <3>1 DEF ModelTypeOK, InstallInv, Away
  <2>3. CASE RollBack /\ UNCHANGED dir
    <3>1. /\ manager' \in Managers /\ manager'.phase # "ready"
          /\ manager'.pc = IF held = "absent" THEN "idle" ELSE "remove target"
      BY <1>1, <2>3, ManagerMoves
    <3> QED
      BY <1>2, <2>1, <2>3, <3>1 DEF ModelTypeOK, InstallInv, Away
  <2> QED
    BY <1>5, <2>2, <2>3 DEF Activate
<1> QED
  BY <1>3, <1>4, <1>5

\* The removal of the backup, and the way back when it fails.
LEMMA ClosingSteps ==
  ASSUME ModelInv, DropBackup \/ RemoveTarget \/ BringBack \/ CleanUp
  PROVE  ModelInv'
<1> USE DEF ModelInv
<1>1. manager \in Managers /\ dir \in [Dirs -> Contents] /\ manager.phase # "ready"
  BY DEF ModelTypeOK, InstallInv, DropBackup, RemoveTarget, BringBack, CleanUp, RunAt
<1>2. UNCHANGED <<partial, starts, held>> /\ archive' \in BOOLEAN
  BY DEF ModelTypeOK, DropBackup, RemoveTarget, BringBack, CleanUp, ModelKeeps
<1>3. CASE DropBackup
  <2>1. manager.pc = "drop" /\ dir["target"] = "whole" /\ trouble = "none"
    BY <1>3 DEF DropBackup, RunAt, InstallInv
  <2>2. dir' \in [Dirs -> Contents] /\ dir'["target"] = "whole"
    BY <1>1, <1>3, <2>1, DirectoryMoves DEF DropBackup, Dirs, Contents
  <2>3. /\ manager' \in Managers /\ manager'.phase # "ready"
        /\ \/ manager'.pc = "clean" /\ trouble' = "none"
           \/ /\ manager'.pc = IF held = "absent" THEN "idle" ELSE "remove target"
              /\ trouble' = "dropping" \/ (trouble' = "none" /\ UNCHANGED dir)
    BY <1>1, <1>3, <2>1, ManagerMoves DEF DropBackup, ModelPcs
  <2> QED
    BY <1>2, <2>1, <2>2, <2>3 DEF ModelTypeOK, InstallInv, Away
<1>4. CASE RemoveTarget
  <2>1. /\ manager.pc = "remove target" /\ held # "absent"
        /\ trouble # "dropping" => dir["backup"] = held
    BY <1>4 DEF RemoveTarget, RunAt, InstallInv, Away
  <2>2. dir' \in [Dirs -> Contents] /\ dir'["backup"] = dir["backup"]
    BY <1>1, <1>4, DirectoryMoves DEF RemoveTarget, Dirs, Contents
  <2>3. /\ manager' \in Managers /\ manager'.phase # "ready"
        /\ \/ manager'.pc = "bring back" /\ dir'["target"] = "absent" /\ UNCHANGED trouble
           \/ manager'.pc = "idle" /\ Troubled("rolling back")
    BY <1>1, <1>4, ManagerMoves, DirectoryMoves DEF RemoveTarget, ModelPcs, Dirs, Contents
  <2> QED
    BY <1>2, <2>1, <2>2, <2>3 DEF ModelTypeOK, InstallInv, Away, Troubled
<1>5. CASE BringBack
  <2>1. /\ manager.pc = "bring back" /\ held # "absent"
        /\ trouble # "dropping" => dir["backup"] = held
    BY <1>5 DEF BringBack, RunAt, InstallInv, Away
  <2>2. manager' \in Managers /\ manager'.phase # "ready" /\ manager'.pc = "idle"
    BY <1>1, <1>5, ManagerMoves DEF BringBack
  <2>3. /\ dir' \in [Dirs -> Contents]
        /\ \/ dir'["target"] = dir["backup"] /\ UNCHANGED trouble
           \/ UNCHANGED dir /\ Troubled("rolling back")
    BY <1>1, <1>5, DirectoryMoves DEF BringBack, Dirs
  <2> QED
    BY <1>2, <2>1, <2>2, <2>3 DEF ModelTypeOK, InstallInv, Away, Troubled
<1>6. CASE CleanUp
  <2>1. /\ manager.pc = "clean" /\ manager'.pc = "idle" /\ UNCHANGED trouble
        /\ manager' \in Managers
    BY <1>1, <1>6, ManagerMoves DEF CleanUp, RunAt, ModelKeeps, Managers, ModelPcs, Phases
  <2>2. dir' \in [Dirs -> Contents] /\ dir'["target"] = "whole"
    BY <1>1, <1>6, <2>1, DirectoryMoves DEF CleanUp, InstallInv, Dirs, Contents
  <2> QED
    BY <1>2, <2>1, <2>2 DEF ModelTypeOK, InstallInv, Away
<1> QED
  BY <1>3, <1>4, <1>5, <1>6

LEMMA ApplicationSteps == ASSUME ModelInv, ApplicationEnds PROVE ModelInv'
<1> USE DEF ModelInv
<1>1. /\ UNCHANGED <<archive, partial, held>> /\ starts' = starts + 1
      /\ manager' = Initialized(dir'["target"])
      /\ IF manager.pc \in Away THEN Troubled("ended") ELSE UNCHANGED trouble
  BY DEF ApplicationEnds
<1>2. /\ partial \in [size : 0..Parts, right : BOOLEAN] /\ dir \in [Dirs -> Contents]
      /\ starts \in Nat
  BY DEF ModelTypeOK
<1>3. /\ dir' \in [Dirs -> Contents]
      /\ \/ UNCHANGED dir
         \/ manager.pc \in {"clear", "drop"} /\ dir'["target"] = dir["target"]
         \/ manager.pc = "remove target" /\ dir'["backup"] = dir["backup"]
  BY <1>2, DirectoryMoves DEF ApplicationEnds, CutOff, RunAt, Dirs
<1>4. manager' \in Managers /\ manager'.pc = "idle"
      /\ (manager'.phase = "ready" => dir'["target"] = "whole")
  BY <1>1, <1>2, InitializedType
<1>5. ModelTypeOK'
  <2>1. starts' \in Nat
    BY <1>1, <1>2
  <2>2. trouble' \in {"none", "dropping", "rolling back", "ended"}
    BY <1>1 DEF ModelTypeOK, Troubled
  <2> QED
    BY <1>1, <1>3, <1>4, <2>1, <2>2 DEF ModelTypeOK
<1>6. InstallInv'
  <2>1. CASE manager.pc \in Away
    BY <1>1, <1>3, <1>4, <2>1 DEF InstallInv, Away, Troubled
  <2>2. CASE manager.pc \notin Away
    <3>1. UNCHANGED trouble /\ (trouble # "dropping" => manager.pc \notin {"clear", "drop"}
            \/ dir["target"] \in {held, "whole"})
      BY <1>1, <2>2 DEF InstallInv
    <3> QED
      BY <1>1, <1>3, <1>4, <2>2, <3>1 DEF InstallInv, Away
  <2> QED
    BY <2>1, <2>2
<1> QED
  BY <1>5, <1>6

LEMMA NextModelInv == ModelInv /\ [ModelNext]_modelVars => ModelInv'
<1> SUFFICES ASSUME ModelInv, [ModelNext]_modelVars PROVE ModelInv'
  OBVIOUS
<1>1. CASE UNCHANGED modelVars
  <2>1. UNCHANGED <<manager, archive, partial, dir, starts, held, trouble>>
    BY <1>1 DEF modelVars
  <2>2. ModelTypeOK'
    BY <2>1 DEF ModelInv, ModelTypeOK
  <2>3. InstallInv'
    BY <2>1 DEF ModelInv, InstallInv
  <2> QED
    BY <2>2, <2>3 DEF ModelInv
<1> QED
  BY <1>1, TransferSteps, ExtractionSteps, BeginningSteps, ActivationSteps, ClosingSteps,
     ApplicationSteps DEF ModelNext

\* However an installation is cancelled, fails or is cut off, a model shown as
\* ready is whole; and the model the last activation found stays in place, or
\* gives way to a whole one, or is in the backup, but for a removal of the backup
\* that failed half-way.
THEOREM ReadyModelsAreWhole == ModelSpec => []ReadyModelIsWhole
<1>1. ModelInv => ReadyModelIsWhole
  BY DEF ModelInv, InstallInv, ReadyModelIsWhole, Running, Away
<1> QED
  BY InitModelInv, NextModelInv, <1>1, PTL DEF ModelSpec
-----------------------------------------------------------------------------
(***************************************************************************)
(* Sorting.  A finite set whose members have distinct keys has an order by *)
(* them, so InOrder and ByTime have something to choose.                   *)
(***************************************************************************)

\* The place of a member is the number of those not after it.
LEMMA SetsCanBeSorted ==
  ASSUME NEW S, IsFiniteSet(S), NEW key \in [S -> Int],
         \A x, y \in S : key[x] = key[y] => x = y
  PROVE  \E f \in [1..Cardinality(S) -> S] :
            \A i, j \in 1..Cardinality(S) : i < j => key[f[i]] < key[f[j]]
<1> DEFINE n == Cardinality(S)
           UpTo(x) == {y \in S : key[y] <= key[x]}
           rank == [x \in S |-> Cardinality(UpTo(x))]
<1>1. n \in Nat
  BY FS_CardinalityType
<1>2. \A x \in S : /\ UpTo(x) \in SUBSET S /\ IsFiniteSet(UpTo(x))
                   /\ Cardinality(UpTo(x)) \in Nat /\ Cardinality(UpTo(x)) <= n
  BY FS_Subset, FS_CardinalityType
<1>3. \A x \in S : Cardinality(UpTo(x)) # 0
  <2> SUFFICES ASSUME NEW x \in S PROVE Cardinality(UpTo(x)) # 0
    OBVIOUS
  <2>1. x \in UpTo(x)
    OBVIOUS
  <2> HIDE DEF UpTo
  <2> QED
    BY <1>2, <2>1, FS_EmptySet
<1>4. \A x, y \in S : key[x] < key[y] => Cardinality(UpTo(x)) < Cardinality(UpTo(y))
  <2> SUFFICES ASSUME NEW x \in S, NEW y \in S, key[x] < key[y]
               PROVE  Cardinality(UpTo(x)) < Cardinality(UpTo(y))
    OBVIOUS
  <2>1. UpTo(x) \in SUBSET UpTo(y) /\ y \in UpTo(y) /\ y \notin UpTo(x)
    OBVIOUS
  <2> HIDE DEF UpTo
  <2>2. /\ Cardinality(UpTo(x)) <= Cardinality(UpTo(y))
        /\ Cardinality(UpTo(x)) # Cardinality(UpTo(y))
    BY <1>2, <2>1, FS_Subset
  <2> QED
    BY <1>2, <2>2
<1>5. rank \in [S -> 1..n]
  <2> HIDE DEF UpTo
  <2>1. \A x \in S : Cardinality(UpTo(x)) \in 1..n
    BY <1>1, <1>2, <1>3
  <2> QED
    BY <2>1
<1>6. \A x, y \in S : key[x] < key[y] => rank[x] < rank[y]
  BY <1>4
<1> HIDE DEF rank
<1>7. \A x, y \in S : rank[x] = rank[y] => x = y
  BY <1>5, <1>6
<1>8. rank \in Injection(S, 1..n)
  BY <1>5, <1>7 DEF Injection, IsInjective
<1>9. IsFiniteSet(1..n) /\ Cardinality(1..n) = n
  BY <1>1, FS_Interval
<1>10. rank \in Surjection(S, 1..n)
  BY <1>8, <1>9, FS_Injection
<1>11. \A i \in 1..n : \E x \in S : rank[x] = i
  BY <1>10 DEF Surjection
<1> DEFINE f == [i \in 1..n |-> CHOOSE x \in S : rank[x] = i]
<1>12. \A i \in 1..n : f[i] \in S /\ rank[f[i]] = i
  BY <1>11
<1>13. f \in [1..n -> S]
  BY <1>12
<1> HIDE DEF f
<1>14. ASSUME NEW i \in 1..n, NEW j \in 1..n, i < j PROVE key[f[i]] < key[f[j]]
  <2>1. key[f[i]] \in Int /\ key[f[j]] \in Int /\ f[i] \in S /\ f[j] \in S
    BY <1>12
  <2>2. rank[f[i]] < rank[f[j]]
    BY <1>12, <1>14
  <2>3. ~(key[f[j]] < key[f[i]])
    BY <1>1, <1>6, <1>12, <2>1, <2>2
  <2>4. key[f[j]] # key[f[i]]
    BY <1>1, <1>12, <2>1, <2>2
  <2> QED
    BY <2>1, <2>3, <2>4
<1> QED
  BY <1>13, <1>14

\* The windows of a generation, in order.
LEMMA InOrderSorts ==
  ASSUME NEW S, S \subseteq Int, IsFiniteSet(S)
  PROVE  /\ InOrder(S) \in [1..Cardinality(S) -> S]
         /\ \A i, j \in 1..Cardinality(S) : i < j => InOrder(S)[i] < InOrder(S)[j]
<1> DEFINE n == Cardinality(S)
           key == [x \in S |-> x]
<1>1. n \in Nat /\ key \in [S -> Int] /\ \A x, y \in S : key[x] = key[y] => x = y
  BY FS_CardinalityType
<1>2. PICK f \in [1..n -> S] : \A i, j \in 1..n : i < j => key[f[i]] < key[f[j]]
  BY <1>1, SetsCanBeSorted
<1>3. \A i, j \in 1..n : i < j => f[i] < f[j]
  BY <1>2
<1>4. \A i, j \in 1..n : i # j => f[i] # f[j]
  <2> SUFFICES ASSUME NEW i \in 1..n, NEW j \in 1..n, i < j PROVE f[i] # f[j]
    BY <1>1
  <2>1. f[i] \in Int /\ f[j] \in Int /\ f[i] < f[j]
    BY <1>2, <1>3
  <2> QED
    BY <2>1
<1>5. f \in SetToSeqs(S)
  BY <1>2, <1>4 DEF SetToSeqs
<1>6. /\ InOrder(S) \in SetToSeqs(S)
      /\ \A i, j \in DOMAIN InOrder(S) : i < j => InOrder(S)[i] < InOrder(S)[j]
  BY <1>2, <1>3, <1>5 DEF InOrder
<1> QED
  BY <1>6 DEF SetToSeqs

\* The controls of a track, by time.
LEMMA ByTimeSorts ==
  ASSUME NEW S, IsFiniteSet(S), \A c \in S : c.at \in Int,
         \A c, d \in S : c.at = d.at => c = d
  PROVE  /\ ByTime(S) \in [1..Cardinality(S) -> S]
         /\ \A i, j \in 1..Cardinality(S) : i < j => ByTime(S)[i].at < ByTime(S)[j].at
<1> DEFINE n == Cardinality(S)
           key == [c \in S |-> c.at]
<1>1. n \in Nat /\ key \in [S -> Int] /\ \A x, y \in S : key[x] = key[y] => x = y
  BY FS_CardinalityType
<1>2. PICK f \in [1..n -> S] : \A i, j \in 1..n : i < j => key[f[i]] < key[f[j]]
  BY <1>1, SetsCanBeSorted
<1>3. \A i, j \in 1..n : i < j => f[i].at < f[j].at
  BY <1>2
<1>4. \A i, j \in 1..n : i # j => f[i] # f[j]
  <2> SUFFICES ASSUME NEW i \in 1..n, NEW j \in 1..n, i < j PROVE f[i] # f[j]
    BY <1>1
  <2>1. f[i].at \in Int /\ f[j].at \in Int /\ f[i].at < f[j].at
    BY <1>2, <1>3
  <2> QED
    BY <2>1
<1>5. f \in SetToSeqs(S)
  BY <1>2, <1>4 DEF SetToSeqs
<1>6. /\ ByTime(S) \in SetToSeqs(S)
      /\ \A i, j \in DOMAIN ByTime(S) : i < j => ByTime(S)[i].at < ByTime(S)[j].at
  BY <1>2, <1>3, <1>5 DEF ByTime
<1> QED
  BY <1>6 DEF SetToSeqs
-----------------------------------------------------------------------------
(***************************************************************************)
(* Candidates.                                                             *)
(***************************************************************************)

Rows == [window : Places, status : {"pending", "approved", "rejected"},
         copy : {"proposed", "accepted"}, state : {"active", "superseded"}, revision : Nat]

\* A revision of a row is shown at most once: the row on the screen is an
\* earlier one, or the one there is.
ShownInv ==
    shown = NothingShown \/
        /\ shown.id \in DOMAIN pool /\ shown.row \in Rows
        /\ shown.row.revision <= pool[shown.id].revision
        /\ shown.row.revision = pool[shown.id].revision => shown.row = pool[shown.id]

ActiveAreApart == \A i, j \in InUseIds : conflicting(pool[i].window, pool[j].window) => i = j

DecisionsInv ==
    /\ \A id \in DOMAIN pool : Decided(id) => InUse(id)
    /\ \A s \in shorts : s.candidate \in InUseIds /\ pool[s.candidate].status # "pending"

PoolInv ==
    /\ pool \in Seq(Rows)
    /\ ActiveAreApart
    /\ DecisionsInv
    /\ ShownInv

LEMMA InitPoolInv == PoolInit => PoolInv
BY DEF PoolInit, PoolInv, ActiveAreApart, DecisionsInv, ShownInv, InUseIds

\* A generation: the rows there were, some superseded, and after them its own.
LEMMA GenerateRows ==
  ASSUME PoolInv, NEW strategy \in {"replace_pending", "append_pending"},
         NEW proposals \in Proposals, Generate(strategy, proposals)
  PROVE  LET novel == {w \in proposals :
                         \A id \in Retained(strategy) : ~conflicting(pool[id].window, w)}
         IN  /\ pool' \in Seq(Rows) /\ Len(pool) <= Len(pool')
             /\ \A id \in 1..Len(pool) : pool'[id] = Superseded(id, strategy)
             /\ \A id \in DOMAIN pool' : id > Len(pool) =>
                   /\ pool'[id] = CandidateRow(pool'[id].window) /\ pool'[id].window \in novel
             /\ \A i, j \in DOMAIN pool' :
                   i > Len(pool) /\ j > i => pool'[i].window < pool'[j].window
<1> DEFINE novel == {w \in proposals :
                       \A id \in Retained(strategy) : ~conflicting(pool[id].window, w)}
<1>1. novel \subseteq Places /\ novel \subseteq Int /\ IsFiniteSet(novel)
  BY PoolAssumption, FS_Subset DEF Proposals
<1> DEFINE n == Cardinality(novel)
           m == Len(pool)
<1>2. n \in Nat /\ m \in Nat /\ DOMAIN pool = 1..m
  BY <1>1, FS_CardinalityType DEF PoolInv
<1>3. PICK s : s = InOrder(novel)
  OBVIOUS
<1>4. s \in [1..n -> novel] /\ \A i, j \in 1..n : i < j => s[i] < s[j]
  BY <1>1, <1>3, InOrderSorts
<1> DEFINE old   == [id \in DOMAIN pool |-> Superseded(id, strategy)]
           added == [i \in 1..n |-> CandidateRow(s[i])]
<1>5. \A id \in 1..m : pool[id] \in Rows
  BY <1>2 DEF PoolInv
<1>6. \A id \in 1..m : Superseded(id, strategy) \in Rows
  <2> SUFFICES ASSUME NEW id \in 1..m PROVE Superseded(id, strategy) \in Rows
    OBVIOUS
  <2>1. pool[id] \in Rows
    BY <1>5
  <2>2. pool[id].revision + 1 \in Nat
    BY <2>1 DEF Rows
  <2>3. [pool[id] EXCEPT !.state = "superseded", !.revision = @ + 1] \in Rows
    BY <2>1, <2>2 DEF Rows
  <2> QED
    BY <2>1, <2>3 DEF Superseded
<1>7. old \in Seq(Rows) /\ Len(old) = m /\ \A id \in 1..m : old[id] = Superseded(id, strategy)
  <2>1. old \in [1..m -> Rows]
    BY <1>2, <1>6
  <2> QED
    BY <1>2, <2>1
<1>8. \A w \in Places : CandidateRow(w) \in Rows /\ CandidateRow(w).window = w
  BY DEF CandidateRow, Rows
<1>9. /\ added \in Seq(Rows) /\ Len(added) = n
      /\ \A i \in 1..n : added[i] = CandidateRow(s[i]) /\ added[i].window = s[i]
  <2>1. added \in [1..n -> Rows]
    BY <1>1, <1>4, <1>8
  <2>2. \A i \in 1..n : added[i] = CandidateRow(s[i]) /\ added[i].window = s[i]
    BY <1>1, <1>4, <1>8
  <2> HIDE DEF added, n
  <2>3. added \in Seq(Rows) /\ Len(added) = n
    BY <1>2, <2>1
  <2> QED
    BY <2>2, <2>3
<1>10. pool' = old \o added
  BY <1>3 DEF Generate
<1> HIDE DEF old, added, n, m, novel
<1>11. pool' \in Seq(Rows) /\ Len(pool') = m + n /\ DOMAIN pool' = 1..(m + n)
  <2>1. old \o added \in Seq(Rows) /\ Len(old \o added) = m + n
    BY <1>2, <1>7, <1>9
  <2>2. DOMAIN (old \o added) = 1..Len(old \o added)
    BY <2>1
  <2> QED
    BY <1>10, <2>1, <2>2
<1>12. \A id \in 1..m : pool'[id] = Superseded(id, strategy)
  BY <1>2, <1>7, <1>9, <1>10
<1>13. \A id \in 1..(m + n) : id > m => id - m \in 1..n /\ pool'[id] = added[id - m]
  BY <1>2, <1>7, <1>9, <1>10
<1>14. \A id \in 1..(m + n) : id > m =>
         pool'[id].window = s[id - m] /\ s[id - m] \in novel /\ pool'[id] = CandidateRow(s[id - m])
  BY <1>4, <1>9, <1>13
<1>15. \A i, j \in 1..(m + n) : i > m /\ j > i => pool'[i].window < pool'[j].window
  <2> SUFFICES ASSUME NEW i \in 1..(m + n), NEW j \in 1..(m + n), i > m, j > i
               PROVE  pool'[i].window < pool'[j].window
    OBVIOUS
  <2>1. i - m \in 1..n /\ j - m \in 1..n /\ i - m < j - m
    BY <1>2
  <2>2. pool'[i].window = s[i - m] /\ pool'[j].window = s[j - m]
    BY <1>2, <1>14
  <2> QED
    BY <1>4, <2>1, <2>2
<1>16. m <= m + n
  BY <1>2
<1> QED
  BY <1>11, <1>12, <1>14, <1>15, <1>16 DEF m, novel

LEMMA GenerateSteps ==
  ASSUME PoolInv, NEW strategy \in {"replace_pending", "append_pending"},
         NEW proposals \in Proposals, Generate(strategy, proposals)
  PROVE  PoolInv'
<1> DEFINE novel == {w \in proposals :
                       \A id \in Retained(strategy) : ~conflicting(pool[id].window, w)}
           m == Len(pool)
<1>1. /\ pool' \in Seq(Rows) /\ m <= Len(pool')
      /\ \A id \in 1..m : pool'[id] = Superseded(id, strategy)
      /\ \A id \in DOMAIN pool' : id > m =>
            pool'[id] = CandidateRow(pool'[id].window) /\ pool'[id].window \in novel
      /\ \A i, j \in DOMAIN pool' : i > m /\ j > i => pool'[i].window < pool'[j].window
  BY GenerateRows
<1>2. /\ m \in Nat /\ DOMAIN pool = 1..m /\ DOMAIN pool \subseteq DOMAIN pool'
      /\ \A id \in 1..m : pool[id] \in Rows
      /\ Len(pool') \in Nat /\ DOMAIN pool' = 1..Len(pool')
  BY <1>1 DEF PoolInv
<1>3. Distinct(novel) /\ novel \subseteq Int
  BY PoolAssumption DEF Proposals, Distinct
<1>4. Retained(strategy) \subseteq InUseIds /\ InUseIds \subseteq 1..m
  BY <1>2 DEF Retained, InUseIds
<1> HIDE DEF m, novel
\* Of a row that was there, it says in which state it is, and whether it was
\* superseded.
<1>5. \A id \in 1..m :
        /\ pool'[id].window = pool[id].window
        /\ pool'[id].status = pool[id].status /\ pool'[id].copy = pool[id].copy
        /\ pool'[id].state = "active" <=> id \in Retained(strategy)
        /\ \/ pool'[id] = pool[id]
           \/ pool'[id].revision = pool[id].revision + 1
  <2> SUFFICES ASSUME NEW id \in 1..m
               PROVE  /\ pool'[id].window = pool[id].window
                      /\ pool'[id].status = pool[id].status /\ pool'[id].copy = pool[id].copy
                      /\ pool'[id].state = "active" <=> id \in Retained(strategy)
                      /\ \/ pool'[id] = pool[id]
                         \/ pool'[id].revision = pool[id].revision + 1
    OBVIOUS
  <2>1. pool[id] \in Rows /\ pool'[id] = Superseded(id, strategy)
    BY <1>1, <1>2
  <2>2. CASE id \in InUseIds \ Retained(strategy)
    <3>1. pool'[id] = [pool[id] EXCEPT !.state = "superseded", !.revision = @ + 1]
      BY <2>1, <2>2 DEF Superseded
    <3> QED
      BY <2>1, <2>2, <3>1 DEF Rows
  <2>3. CASE id \notin InUseIds \ Retained(strategy)
    <3>1. pool'[id] = pool[id]
      BY <2>1, <2>3 DEF Superseded
    <3>2. pool[id].state = "active" <=> id \in InUseIds
      BY <1>2 DEF InUseIds, InUse
    <3> QED
      BY <1>4, <2>3, <3>1, <3>2
  <2> QED
    BY <2>2, <2>3
<1>6. \A id \in DOMAIN pool' : id > m =>
        /\ pool'[id].status = "pending" /\ pool'[id].copy = "proposed"
        /\ pool'[id].state = "active" /\ pool'[id].window \in novel
  BY <1>1 DEF CandidateRow
<1>7. ActiveAreApart'
  <2> SUFFICES ASSUME NEW i \in DOMAIN pool', NEW j \in DOMAIN pool',
                      pool'[i].state = "active", pool'[j].state = "active", i < j,
                      conflicting(pool'[i].window, pool'[j].window)
                        \/ conflicting(pool'[j].window, pool'[i].window)
               PROVE  FALSE
    <3>1. \A i, j \in DOMAIN pool' : i = j \/ i < j \/ j < i
      BY <1>2
    <3> QED
      BY <3>1 DEF ActiveAreApart, InUseIds, InUse
  <2>1. conflicting(pool'[i].window, pool'[j].window)
          /\ conflicting(pool'[j].window, pool'[i].window)
    <3>1. pool'[i] \in Rows /\ pool'[j] \in Rows
      BY <1>1, <1>2
    <3>2. pool'[i].window \in Int /\ pool'[j].window \in Int
      BY <3>1, PoolAssumption DEF Rows
    <3> QED
      BY <3>2 DEF conflicting
  <2>2. CASE j \in 1..m
    <3>1. i \in 1..m
      BY <1>2, <2>2
    <3>2. i \in InUseIds /\ j \in InUseIds
      BY <1>4, <1>5, <2>2, <3>1
    <3>3. conflicting(pool[i].window, pool[j].window)
      BY <1>5, <2>1, <2>2, <3>1
    <3>4. i = j
      BY <3>2, <3>3 DEF PoolInv, ActiveAreApart
    <3> QED
      BY <1>2, <3>4
  <2>3. CASE j \notin 1..m /\ i \in 1..m
    <3>1. j > m /\ pool'[j].window \in novel
      BY <1>2, <1>6, <2>3
    <3>2. i \in Retained(strategy)
      BY <1>5, <2>3
    <3>3. ~conflicting(pool[i].window, pool'[j].window)
      BY <3>1, <3>2 DEF novel
    <3> QED
      BY <1>5, <2>1, <2>3, <3>3
  <2>4. CASE j \notin 1..m /\ i \notin 1..m
    <3>1. j > m /\ i > m /\ j > i
      BY <1>2, <2>4
    <3>2. pool'[i].window \in novel /\ pool'[j].window \in novel
      BY <1>6, <3>1
    <3>3. pool'[i].window < pool'[j].window
      BY <1>1, <3>1
    <3>4. pool'[i].window = pool'[j].window
      BY <1>3, <2>1, <3>2 DEF Distinct
    <3>5. pool'[i].window \in Int
      BY <1>3, <3>2
    <3> QED
      BY <3>3, <3>4, <3>5
  <2> QED
    BY <2>2, <2>3, <2>4
<1>8. \A id \in 1..m : Decided(id) => id \in Retained(strategy)
  BY <1>2 DEF Retained, InUseIds, PoolInv, DecisionsInv
<1>9. DecisionsInv'
  <2>1. ASSUME NEW id \in DOMAIN pool', Decided(id)' PROVE InUse(id)'
    <3>1. CASE id \in 1..m
      BY <1>5, <1>8, <2>1, <3>1 DEF Decided, InUse
    <3>2. CASE id \notin 1..m
      BY <1>2, <1>6, <3>2 DEF InUse
    <3> QED
      BY <3>1, <3>2
  <2>2. ASSUME NEW s \in shorts
        PROVE  s.candidate \in InUseIds' /\ pool'[s.candidate].status # "pending"
    <3>1. s.candidate \in 1..m /\ pool[s.candidate].status # "pending"
      BY <1>4 DEF PoolInv, DecisionsInv
    <3>2. s.candidate \in Retained(strategy)
      BY <1>8, <3>1 DEF Decided
    <3> QED
      BY <1>2, <1>5, <3>1, <3>2 DEF InUseIds, InUse
  <2>3. UNCHANGED shorts
    BY DEF Generate
  <2> QED
    BY <2>1, <2>2, <2>3 DEF DecisionsInv
<1>10. ShownInv'
  <2>1. UNCHANGED shown
    BY DEF Generate
  <2>2. CASE shown # NothingShown
    <3>1. PICK id \in 1..m : id = shown.id
      BY <1>2, <2>2 DEF PoolInv, ShownInv
    <3>2. /\ shown.row \in Rows /\ shown.row.revision <= pool[id].revision
          /\ shown.row.revision = pool[id].revision => shown.row = pool[id]
      BY <2>2, <3>1 DEF PoolInv, ShownInv
    <3>3. shown.row.revision \in Nat /\ pool[id].revision \in Nat
      BY <1>2, <3>2 DEF Rows
    <3>4. pool'[id] = pool[id] \/ pool'[id].revision = pool[id].revision + 1
      BY <1>5
    <3> QED
      BY <1>2, <2>1, <3>1, <3>2, <3>3, <3>4 DEF ShownInv
  <2> QED
    BY <2>1, <2>2 DEF ShownInv
<1> QED
  BY <1>1, <1>7, <1>9, <1>10 DEF PoolInv

\* A decision changes one row, and gives it a new revision.
LEMMA DecisionSteps ==
  ASSUME PoolInv, NEW id \in DOMAIN pool,
         \/ \E status \in {"approved", "rejected"} : reviewCandidate(id, status)
         \/ acceptCandidateContentPackage(id)
  PROVE  PoolInv'
<1>1. /\ Len(pool) \in Nat /\ DOMAIN pool = 1..Len(pool)
      /\ \A i \in DOMAIN pool : pool[i] \in Rows
  BY DEF PoolInv
<1>2. PICK row : row = pool'[id]
  OBVIOUS
<1>3. /\ pool' = [pool EXCEPT ![id] = row] /\ InUse(id) /\ UNCHANGED <<shorts, shown>>
      /\ row \in Rows /\ row.revision = pool[id].revision + 1
      /\ row.window = pool[id].window /\ row.state = pool[id].state
      /\ pool[id].status # "pending" => row.status # "pending"
  <2> DEFINE n == pool[id].revision + 1
  <2>1. pool[id] \in Rows /\ n \in Nat
    BY <1>1 DEF Rows
  <2>2. CASE acceptCandidateContentPackage(id)
    <3>1. row = [pool[id] EXCEPT !.copy = "accepted", !.revision = n]
      BY <1>1, <1>2, <2>2 DEF acceptCandidateContentPackage
    <3>2. row \in Rows
      BY <2>1, <3>1 DEF Rows
    <3>3. /\ row.revision = n /\ row.window = pool[id].window
          /\ row.state = pool[id].state /\ row.status = pool[id].status
      BY <2>1, <3>1 DEF Rows
    <3> QED
      BY <1>1, <2>2, <3>1, <3>2, <3>3 DEF acceptCandidateContentPackage
  <2>3. CASE \E status \in {"approved", "rejected"} : reviewCandidate(id, status)
    <3>1. PICK status \in {"approved", "rejected"} : reviewCandidate(id, status)
      BY <2>3
    <3>2. row = [pool[id] EXCEPT !.status = status, !.revision = n]
      BY <1>1, <1>2, <3>1 DEF reviewCandidate
    <3>3. row \in Rows
      BY <2>1, <3>2 DEF Rows
    <3>4. /\ row.revision = n /\ row.window = pool[id].window
          /\ row.state = pool[id].state /\ row.status = status
      BY <2>1, <3>2 DEF Rows
    <3> QED
      BY <1>1, <3>1, <3>2, <3>3, <3>4 DEF reviewCandidate
  <2> QED
    BY <2>2, <2>3
<1>4. pool' \in Seq(Rows) /\ DOMAIN pool' = DOMAIN pool
      /\ \A i \in DOMAIN pool : i # id => pool'[i] = pool[i]
  BY <1>1, <1>3 DEF PoolInv
<1>5. InUseIds' = InUseIds /\ \A i \in DOMAIN pool : pool'[i].window = pool[i].window
  BY <1>2, <1>3, <1>4 DEF InUseIds, InUse
<1>6. ActiveAreApart'
  BY <1>5 DEF PoolInv, ActiveAreApart, InUseIds
<1>7. DecisionsInv'
  BY <1>2, <1>3, <1>4, <1>5 DEF PoolInv, DecisionsInv, Decided, InUse, InUseIds
<1>8. ShownInv'
  <2>1. pool[id].revision \in Nat /\ row.revision \in Nat
    BY <1>1, <1>3 DEF Rows
  <2>2. CASE shown # NothingShown
    <3>1. shown.id \in DOMAIN pool /\ shown.row \in Rows /\ shown.row.revision \in Nat
          /\ shown.row.revision <= pool[shown.id].revision
      BY <2>2 DEF PoolInv, ShownInv, Rows
    <3>2. CASE shown.id = id
      BY <1>2, <1>3, <1>4, <2>1, <3>1, <3>2 DEF ShownInv
    <3>3. CASE shown.id # id
      BY <1>3, <1>4, <2>2, <3>1, <3>3 DEF PoolInv, ShownInv
    <3> QED
      BY <3>2, <3>3
  <2> QED
    BY <1>3, <2>2 DEF ShownInv
<1> QED
  BY <1>4, <1>6, <1>7, <1>8 DEF PoolInv

LEMMA NextPoolInv == PoolInv /\ [PoolNext]_poolVars => PoolInv'
<1> SUFFICES ASSUME PoolInv, [PoolNext]_poolVars PROVE PoolInv'
  OBVIOUS
<1>1. CASE UNCHANGED poolVars
  BY <1>1 DEF poolVars, PoolInv, ActiveAreApart, DecisionsInv, ShownInv, InUseIds, InUse, Decided
<1>2. CASE \E id \in DOMAIN pool : Show(id)
  <2>1. PICK id \in DOMAIN pool : Show(id)
    BY <1>2
  <2>2. pool[id] \in Rows /\ pool[id].revision \in Nat
    <3>1. pool[id] \in Rows
      BY DEF PoolInv
    <3> QED
      BY <3>1 DEF Rows
  <2>3. shown'.id = id /\ shown'.row = pool[id] /\ UNCHANGED <<pool, shorts>>
    BY <2>1 DEF Show
  <2>4. ShownInv'
    BY <2>2, <2>3 DEF ShownInv
  <2> QED
    BY <2>3, <2>4 DEF PoolInv, ActiveAreApart, DecisionsInv, InUseIds, InUse, Decided
<1>3. CASE \E id \in DOMAIN pool : createShortOf(id)
  <2>1. PICK id \in DOMAIN pool : createShortOf(id)
    BY <1>3
  <2>2. /\ shorts' = shorts \cup {[candidate |-> id, copy |-> pool[id].copy]}
        /\ UNCHANGED <<pool, shown>> /\ id \in InUseIds /\ pool[id].status = "approved"
    BY <2>1 DEF createShortOf, InUseIds
  <2>3. DecisionsInv'
    BY <2>2 DEF PoolInv, DecisionsInv, InUseIds, InUse, Decided
  <2> QED
    BY <2>2, <2>3 DEF PoolInv, ActiveAreApart, ShownInv, InUseIds, InUse
<1> QED
  BY <1>1, <1>2, <1>3, GenerateSteps, DecisionSteps DEF PoolNext

\* Whatever generations and decisions follow each other, on whatever screens,
\* active candidates stay apart and decisions and their Shorts stay.
THEOREM DecisionsAreKept == PoolSpec => []PoolKeepsDecisions
<1>1. PoolInv => PoolKeepsDecisions
  <2> SUFFICES ASSUME PoolInv PROVE PoolKeepsDecisions
    OBVIOUS
  <2>1. 0 \notin DOMAIN pool
    BY DEF PoolInv
  <2> QED
    BY <2>1 DEF PoolInv, ActiveAreApart, DecisionsInv, ShownInv, NothingShown, PoolKeepsDecisions
<1> QED
  BY InitPoolInv, NextPoolInv, <1>1, PTL DEF PoolSpec
-----------------------------------------------------------------------------
(***************************************************************************)
(* The edits of a Short.                                                   *)
(***************************************************************************)

Controls == [id : CropIds, at : Nat]

\* Of a track any two controls are in order, not only neighbours.
Tracks == {t \in Seq(Controls) : \A i, j \in DOMAIN t : i < j => t[i].at < t[j].at}

SomeCompositions == [auto : SUBSET Nat, manual : Tracks]

Projects == [duration : Nat, composition : SomeCompositions, inherited : BOOLEAN,
             copy : {"proposed", "accepted"}, approved : BOOLEAN, revision : Nat]

IsSound(p) ==
    /\ p \in Projects
    /\ p.inherited \/ WithinOutput(p.composition, p.duration)
    /\ p.approved => p.copy = "accepted"

EditsInv == template \in SomeCompositions /\ (project # NoShort => IsSound(project))

LEMMA ShortTracks ==
  /\ <<>> \in Tracks
  /\ \A n \in 0..2 : \A t \in [1..n -> [id : CropIds, at : ControlTimes]] :
        (\A i \in 1..(n - 1) : t[i].at < t[i + 1].at) => t \in Tracks
<1>1. <<>> \in Tracks
  BY DEF Tracks
<1>2. ASSUME NEW n \in 0..2, NEW t \in [1..n -> [id : CropIds, at : ControlTimes]],
             \A i \in 1..(n - 1) : t[i].at < t[i + 1].at
      PROVE  t \in Tracks
  <2>1. [id : CropIds, at : ControlTimes] \subseteq Controls
    BY EditsAssumption DEF Controls, ControlTimes
  <2>2. t \in [1..n -> Controls]
    BY <2>1
  <2>3. t \in Seq(Controls) /\ DOMAIN t = 1..n
    BY <2>2
  <2>4. \A i, j \in 1..n : i < j => i = 1 /\ j = 2 /\ n = 2
    OBVIOUS
  <2>5. n = 2 => t[1].at < t[2].at
    BY <1>2
  <2> QED
    BY <2>3, <2>4, <2>5 DEF Tracks
<1> QED
  BY <1>1, <1>2

\* A track sorted anew is one, if its controls have times of their own.
LEMMA SortedTrack ==
  ASSUME NEW S, S \subseteq Controls, IsFiniteSet(S), \A c, d \in S : c.at = d.at => c = d
  PROVE  ByTime(S) \in Tracks
<1> DEFINE n == Cardinality(S)
<1>1. n \in Nat /\ \A c \in S : c.at \in Int
  BY FS_CardinalityType DEF Controls
<1>2. PICK s : s = ByTime(S)
  OBVIOUS
<1>3. s \in [1..n -> S] /\ \A i, j \in 1..n : i < j => s[i].at < s[j].at
  BY <1>1, <1>2, ByTimeSorts
<1> HIDE DEF n
<1>4. s \in Seq(Controls) /\ DOMAIN s = 1..n
  <2>1. s \in [1..n -> Controls]
    BY <1>3
  <2> QED
    BY <1>1, <2>1
<1> QED
  BY <1>2, <1>3, <1>4 DEF Tracks

LEMMA SequencesAreFinite ==
  ASSUME NEW n \in Nat, NEW f, DOMAIN f = 1..n
  PROVE  IsFiniteSet(ToSet(f))
<1> DEFINE g == [i \in 1..n |-> f[i]]
<1>1. g \in Surjection(1..n, ToSet(f))
  BY DEF Surjection, ToSet
<1>2. IsFiniteSet(1..n)
  BY FS_Interval
<1> QED
  BY <1>1, <1>2, FS_Surjection

\* The controls of a Short.
LEMMA ManualTrack ==
  ASSUME EditsInv, project # NoShort
  PROVE  /\ Manual \in Tracks /\ project \in Projects
         /\ Manual \in Seq(Controls) /\ ToSet(Manual) \subseteq Controls
         /\ IsFiniteSet(ToSet(Manual))
         /\ \A i, j \in DOMAIN Manual : Manual[i].at = Manual[j].at => i = j
         /\ \A c, d \in ToSet(Manual) : c.at = d.at => c = d
<1>1. project \in Projects /\ project.composition \in SomeCompositions
  BY DEF EditsInv, IsSound, Projects
<1>2. PICK m : m = Manual
  OBVIOUS
<1>3. m \in Tracks
  BY <1>1, <1>2 DEF Manual, SomeCompositions
<1>4. m \in Seq(Controls) /\ \A i, j \in DOMAIN m : i < j => m[i].at < m[j].at
  BY <1>3 DEF Tracks
<1>5. \A i \in DOMAIN m : m[i] \in Controls /\ m[i].at \in Nat
  <2>1. \A i \in DOMAIN m : m[i] \in Controls
    BY <1>4
  <2> QED
    BY <2>1 DEF Controls
<1>6. ToSet(m) \subseteq Controls
  BY <1>5 DEF ToSet
<1>7. Len(m) \in Nat /\ DOMAIN m = 1..Len(m)
  BY <1>4
<1>8. IsFiniteSet(ToSet(m))
  BY <1>7, SequencesAreFinite
<1>9. \A i, j \in DOMAIN m : m[i].at = m[j].at => i = j
  BY <1>4, <1>5, <1>7
<1>10. \A c, d \in ToSet(m) : c.at = d.at => c = d
  BY <1>9 DEF ToSet
<1> QED
  BY <1>1, <1>2, <1>3, <1>4, <1>6, <1>8, <1>9, <1>10

\* What a composition edit leaves.
LEMMA ComposedSteps ==
  ASSUME EditsInv, project # NoShort, NEW c \in SomeCompositions, Composed(c)
  PROVE  EditsInv'
<1> DEFINE p == [project EXCEPT !.composition = c, !.inherited = FALSE, !.approved = FALSE]
<1>1. project \in Projects /\ project.revision + 1 \in Nat
  BY DEF EditsInv, IsSound, Projects
<1>2. project' = Revised(p) /\ UNCHANGED template /\ WithinOutput(c, project.duration)
  BY DEF Composed, Edit
<1>3. p \in Projects /\ p.revision = project.revision
  BY <1>1 DEF Projects
<1>4. /\ p.composition = c /\ p.duration = project.duration
      /\ p.inherited = FALSE /\ p.approved = FALSE
  BY <1>1 DEF Projects
<1> HIDE DEF p
<1>5. Revised(p) \in Projects
  BY <1>1, <1>3 DEF Revised, Projects
<1>6. /\ Revised(p).composition = c /\ Revised(p).duration = project.duration
      /\ Revised(p).inherited = FALSE /\ Revised(p).approved = FALSE
  BY <1>3, <1>4 DEF Revised, Projects
<1> QED
  BY <1>2, <1>5, <1>6 DEF EditsInv, IsSound

LEMMA ManagedSteps ==
  ASSUME EditsInv, project # NoShort, NEW track \in Tracks, Managed(track)
  PROVE  EditsInv'
<1>1. project.composition \in SomeCompositions
  BY DEF EditsInv, IsSound, Projects
<1>2. [project.composition EXCEPT !.manual = track] \in SomeCompositions
  BY <1>1 DEF SomeCompositions
<1> QED
  BY <1>2, ComposedSteps DEF Managed

\* An edit of the crop tracks.
LEMMA CropSteps ==
  ASSUME EditsInv,
         \/ \E manual \in ManualTracks : updateComposition(Composition({}, manual))
         \/ \E id \in CropIds, at \in ControlTimes : addManualCropControl([id |-> id, at |-> at])
         \/ ExpectedShort /\ \E i \in DOMAIN Manual, at \in ControlTimes : moveManualCropControl(i, at)
         \/ \E id \in CropIds : removeManualCropControl(id)
         \/ ExpectedShort /\ \E auto \in SUBSET (0..project.duration) : reanalyzeCrops(auto)
  PROVE  EditsInv'
<1>1. project # NoShort
  BY DEF updateComposition, addManualCropControl, removeManualCropControl, ExpectedShort
<1>2. PICK m : m = Manual
  OBVIOUS
<1>3. /\ m \in Tracks /\ project \in Projects
      /\ m \in Seq(Controls) /\ ToSet(m) \subseteq Controls /\ IsFiniteSet(ToSet(m))
      /\ \A i, j \in DOMAIN m : m[i].at = m[j].at => i = j
      /\ \A c, d \in ToSet(m) : c.at = d.at => c = d
  BY <1>1, <1>2, ManualTrack
<1>4. ControlTimes \subseteq Nat
  BY EditsAssumption DEF ControlTimes
<1>5. ASSUME NEW manual \in ManualTracks, updateComposition(Composition({}, manual))
      PROVE  EditsInv'
  <2>1. manual \in Tracks
    BY ShortTracks DEF ManualTracks
  <2>2. Composition({}, manual) \in SomeCompositions
    BY <2>1 DEF Composition, SomeCompositions
  <2> QED
    BY <1>1, <1>5, <2>2, ComposedSteps DEF updateComposition
<1>6. ASSUME NEW id \in CropIds, NEW at \in ControlTimes,
             addManualCropControl([id |-> id, at |-> at])
      PROVE  EditsInv'
  <2> DEFINE S == ToSet(m) \cup {[id |-> id, at |-> at]}
  <2>1. \A c \in ToSet(m) : c.at # at
    BY <1>2, <1>6 DEF addManualCropControl
  <2>2. S \subseteq Controls
    BY <1>3, <1>4 DEF Controls
  <2>3. IsFiniteSet(S)
    BY <1>3, FS_AddElement
  <2>4. \A c, d \in S : c.at = d.at => c = d
    BY <1>3, <2>1
  <2>5. Managed(ByTime(S))
    BY <1>2, <1>6 DEF addManualCropControl
  <2> HIDE DEF S
  <2>6. ByTime(S) \in Tracks
    BY <2>2, <2>3, <2>4, SortedTrack
  <2> QED
    BY <1>1, <2>5, <2>6, ManagedSteps
<1>7. ASSUME NEW i \in DOMAIN m, NEW at \in ControlTimes, moveManualCropControl(i, at)
      PROVE  EditsInv'
  <2> DEFINE t == [m EXCEPT ![i].at = at]
             S == ToSet(t)
  <2>1. Len(m) \in Nat /\ DOMAIN m = 1..Len(m) /\ \A j \in DOMAIN m : m[j] \in Controls
    BY <1>3
  <2>2. DOMAIN t = 1..Len(m)
    BY <2>1
  <2>3. \A j \in DOMAIN m : t[j] \in Controls /\ t[j].at = IF j = i THEN at ELSE m[j].at
    BY <1>4, <2>1 DEF Controls
  <2>4. \A j \in DOMAIN m \ {i} : m[j].at # at
    BY <1>2, <1>7 DEF moveManualCropControl
  <2>5. Managed(ByTime(S))
    BY <1>2, <1>7 DEF moveManualCropControl
  <2> HIDE DEF t
  <2>6. S \subseteq Controls
    BY <2>1, <2>2, <2>3 DEF ToSet
  <2>7. IsFiniteSet(S)
    BY <2>1, <2>2, SequencesAreFinite
  <2>8. \A j, k \in DOMAIN m : t[j].at = t[k].at => j = k
    BY <1>3, <2>3, <2>4
  <2>9. \A c, d \in S : c.at = d.at => c = d
    BY <2>1, <2>2, <2>8 DEF ToSet
  <2> HIDE DEF S
  <2>10. ByTime(S) \in Tracks
    BY <2>6, <2>7, <2>9, SortedTrack
  <2> QED
    BY <1>1, <2>5, <2>10, ManagedSteps
<1>8. ASSUME NEW id \in CropIds, removeManualCropControl(id)
      PROVE  EditsInv'
  <2> DEFINE S == {c \in ToSet(m) : c.id # id}
  <2>1. S \subseteq Controls /\ IsFiniteSet(S) /\ \A c, d \in S : c.at = d.at => c = d
    BY <1>3, FS_Subset
  <2>2. Managed(ByTime(S))
    BY <1>2, <1>8 DEF removeManualCropControl
  <2> HIDE DEF S
  <2>3. ByTime(S) \in Tracks
    BY <2>1, SortedTrack
  <2> QED
    BY <1>1, <2>2, <2>3, ManagedSteps
<1>9. ASSUME NEW auto \in SUBSET (0..project.duration), reanalyzeCrops(auto)
      PROVE  EditsInv'
  <2>1. auto \in SUBSET Nat /\ project.composition \in SomeCompositions
    BY <1>3 DEF Projects
  <2>2. [project.composition EXCEPT !.auto = auto] \in SomeCompositions
    BY <2>1 DEF SomeCompositions
  <2> QED
    BY <1>1, <1>9, <2>2, ComposedSteps DEF reanalyzeCrops
<1> QED
  BY <1>2, <1>5, <1>6, <1>7, <1>8, <1>9

\* An edit that leaves the composition.
LEMMA OtherEdits ==
  ASSUME EditsInv, NEW p \in Projects, project # NoShort,
         p.composition = project.composition,
         p.inherited \/ WithinOutput(p.composition, p.duration),
         p.approved => p.copy = "accepted",
         project' = Revised(p), UNCHANGED template
  PROVE  EditsInv'
<1>1. p.revision + 1 \in Nat
  BY DEF Projects
<1>2. Revised(p) \in Projects
  BY <1>1 DEF Revised, Projects
<1>3. /\ Revised(p).composition = p.composition /\ Revised(p).duration = p.duration
      /\ Revised(p).inherited = p.inherited
      /\ Revised(p).approved = p.approved /\ Revised(p).copy = p.copy
  BY DEF Revised, Projects
<1> QED
  BY <1>2, <1>3 DEF EditsInv, IsSound

LEMMA ShortSteps ==
  ASSUME EditsInv,
         \/ \E duration \in Durations : updateShortTimeline(duration)
         \/ updateCaptionsOrAudio \/ updateCopy \/ approveShort \/ acceptTranscriptRevision
  PROVE  EditsInv'
<1>1. /\ project # NoShort
      /\ project \in Projects
      /\ project.inherited \/ WithinOutput(project.composition, project.duration)
      /\ project.approved => project.copy = "accepted"
  BY DEF updateShortTimeline, updateCaptionsOrAudio, updateCopy, approveShort,
     acceptTranscriptRevision, ExpectedShort, EditsInv, IsSound
<1>2. ASSUME NEW duration \in Durations, updateShortTimeline(duration)
      PROVE  EditsInv'
  <2> DEFINE p == [project EXCEPT !.duration = duration, !.inherited = FALSE, !.approved = FALSE]
  <2>1. duration \in Nat
    BY EditsAssumption DEF Durations
  <2>2. p \in Projects
    BY <1>1, <2>1 DEF Projects
  <2>3. /\ p.composition = project.composition /\ p.duration = duration
        /\ p.inherited = FALSE /\ p.approved = FALSE
    BY <1>1 DEF Projects
  <2>4. /\ WithinOutput(project.composition, duration)
        /\ project' = Revised(p) /\ UNCHANGED template
    BY <1>2 DEF updateShortTimeline, Edit
  <2> HIDE DEF p
  <2> QED
    BY <1>1, <2>2, <2>3, <2>4, OtherEdits
<1>3. CASE updateCaptionsOrAudio \/ acceptTranscriptRevision
  <2> DEFINE p == [project EXCEPT !.approved = FALSE]
  <2>1. p \in Projects
    BY <1>1 DEF Projects
  <2>2. /\ p.composition = project.composition /\ p.duration = project.duration
        /\ p.inherited = project.inherited /\ p.approved = FALSE
    BY <1>1 DEF Projects
  <2>3. project' = Revised(p) /\ UNCHANGED template
    BY <1>3 DEF updateCaptionsOrAudio, acceptTranscriptRevision, Edit
  <2> HIDE DEF p
  <2> QED
    BY <1>1, <2>1, <2>2, <2>3, OtherEdits
<1>4. CASE updateCopy
  <2> DEFINE p == [project EXCEPT !.copy = "accepted"]
  <2>1. p \in Projects
    BY <1>1 DEF Projects
  <2>2. /\ p.composition = project.composition /\ p.duration = project.duration
        /\ p.inherited = project.inherited /\ p.copy = "accepted"
    BY <1>1 DEF Projects
  <2>3. project' = Revised(p) /\ UNCHANGED template
    BY <1>4 DEF updateCopy, Edit
  <2> HIDE DEF p
  <2> QED
    BY <1>1, <2>1, <2>2, <2>3, OtherEdits
<1>5. CASE approveShort
  <2> DEFINE p == [project EXCEPT !.approved = TRUE]
  <2>1. p \in Projects
    BY <1>1 DEF Projects
  <2>2. /\ p.composition = project.composition /\ p.duration = project.duration
        /\ p.inherited = project.inherited /\ p.copy = project.copy
    BY <1>1 DEF Projects
  <2>3. project' = Revised(p) /\ UNCHANGED template /\ project.copy = "accepted"
    BY <1>5 DEF approveShort, Edit
  <2> HIDE DEF p
  <2> QED
    BY <1>1, <2>1, <2>2, <2>3, OtherEdits
<1> QED
  BY <1>2, <1>3, <1>4, <1>5

\* The template, and the Short made of it.
LEMMA CreationSteps ==
  ASSUME EditsInv,
         \/ \E manual \in {<<>>} \cup [1..1 -> [id : CropIds, at : {MaxOutput}]] :
               project = NoShort /\ updateTemplate(Composition({0}, manual))
         \/ \E duration \in Durations, composition \in {template, Composition({}, <<>>)} :
               createShort(duration, composition)
         \/ ReadShort
  PROVE  EditsInv'
<1>1. ASSUME NEW manual \in {<<>>} \cup [1..1 -> [id : CropIds, at : {MaxOutput}]],
             updateTemplate(Composition({0}, manual))
      PROVE  EditsInv'
  <2>1. manual \in Tracks
    <3>1. CASE manual = <<>>
      BY <3>1, ShortTracks
    <3>2. CASE manual \in [1..1 -> [id : CropIds, at : {MaxOutput}]]
      <4>1. MaxOutput \in ControlTimes
        BY EditsAssumption DEF ControlTimes
      <4>2. manual \in [1..1 -> [id : CropIds, at : ControlTimes]]
        BY <3>2, <4>1
      <4> QED
        BY <4>2, ShortTracks
    <3> QED
      BY <3>1, <3>2
  <2>2. Composition({0}, manual) \in SomeCompositions
    BY <2>1 DEF Composition, SomeCompositions
  <2> QED
    BY <1>1, <2>2 DEF updateTemplate, EditsInv
<1>2. ASSUME NEW duration \in Durations, NEW composition \in {template, Composition({}, <<>>)},
             createShort(duration, composition)
      PROVE  EditsInv'
  <2>1. composition \in SomeCompositions
    BY ShortTracks DEF EditsInv, Composition, SomeCompositions
  <2>2. duration \in Nat
    BY EditsAssumption DEF Durations
  <2>3. PICK copy \in {"proposed", "accepted"} :
          project' = [duration |-> duration, composition |-> composition, inherited |-> TRUE,
                      copy |-> copy, approved |-> FALSE, revision |-> 1]
    BY <1>2 DEF createShort
  <2>4. IsSound(project')
    BY <2>1, <2>2, <2>3 DEF IsSound, Projects
  <2>5. UNCHANGED template
    BY <1>2 DEF createShort
  <2> QED
    BY <2>4, <2>5 DEF EditsInv, IsSound
<1>3. CASE ReadShort
  BY <1>3 DEF ReadShort, EditsInv, IsSound
<1> QED
  BY <1>1, <1>2, <1>3

LEMMA NextEditsInv == EditsInv /\ [EditsNext]_editsVars => EditsInv'
<1> SUFFICES ASSUME EditsInv, [EditsNext]_editsVars PROVE EditsInv'
  OBVIOUS
<1>1. CASE UNCHANGED editsVars
  BY <1>1 DEF editsVars, EditsInv
<1> QED
  BY <1>1, CreationSteps, CropSteps, ShortSteps DEF EditsNext

\* Through moves, cuts, re-analyses and edits on old screens, for any number of
\* controls and revisions, a Short's tracks are in order and within its output.
THEOREM EditsStaySound == EditsSpec => []EditsAreSound
<1>1. EditsInit => EditsInv
  BY ShortTracks DEF EditsInit, EditsInv, Composition, SomeCompositions
<1>2. EditsInv => EditsAreSound
  <2> SUFFICES ASSUME EditsInv, project # NoShort PROVE EditsAreSound
    BY DEF EditsAreSound
  <2>1. PICK m : m = Manual
    OBVIOUS
  <2>2. m \in Seq(Controls) /\ \A i, j \in DOMAIN m : i < j => m[i].at < m[j].at
    BY <2>1, ManualTrack DEF Tracks
  <2>3. Len(m) \in Nat /\ DOMAIN m = 1..Len(m)
    BY <2>2
  <2>4. \A i \in 1..(Len(m) - 1) : m[i].at < m[i + 1].at
    BY <2>2, <2>3
  <2> QED
    BY <2>1, <2>4 DEF EditsInv, IsSound, EditsAreSound
<1> QED
  BY <1>1, <1>2, NextEditsInv, PTL DEF EditsSpec
-----------------------------------------------------------------------------
(***************************************************************************)
(* Migrations.  What every row is at a version, whoever wrote it: the      *)
(* fields of that version are there, and hold what it allows.              *)
(***************************************************************************)

InOrderTracks == {t \in Seq(Int) : InTime(t)}

Layers == [has : SUBSET Everything, legacy : FrameLists,
           auto : InOrderTracks, manual : InOrderTracks]

LayerInv(r, v) == r \in Layers /\ ShapeOf(v) \subseteq r.has

\* A built-in template was inserted by a release that knew some of the fields.
StarterInv(r, v) ==
    \E has \in SUBSET Everything : ShapeOf(v) \subseteq has /\ r = VideoLayer(has, <<>>, <<>>, <<>>)

CaptionsInv(r, v) ==
    /\ r \in [style : {"legacy", "current"}, size : Int,
              transform : {"absent", "none", "uppercase"}]
    /\ v >= 10 => r.style = "current" /\ r.size \in 12..200
    /\ v >= 17 => r.transform # "absent"

AudioInv(r, v) ==
    /\ r.gain \in Int /\ r.fade \in Int /\ r.bedGain \in Int
    /\ v >= 11 =>
         /\ r.shape = "current"
         /\ r.gain \in -60..12 /\ r.fade \in 0..500
         /\ (r.bed = "none") <=> (r.bedGain = NoGain)
         /\ r.bed # "none" => r.bedGain \in -60..0

AnalysisRow == [at : 1..3, state : {"proposed", "accepted", "superseded"}]

AnalysisRows == [rows : SUBSET AnalysisRow]

AnalysesInv(r, v) == r \in AnalysisRows /\ (v >= 6 => \A a, b \in InUseOf(r) : a = b)

RenderInv(r, v) ==
    /\ r \in [state : {"succeeded", "stale"}, evidence : BOOLEAN, lineage : BOOLEAN,
              flagged : BOOLEAN, upgraded : BOOLEAN]
    /\ r.state = "stale" => r.flagged \/ r.upgraded
    /\ v >= 14 /\ r.state = "succeeded" => r.evidence
    /\ v >= 15 => r.lineage

TranscriptInv(r, v) ==
    r \in [segments : Nat, accepted : Nat] /\ (v >= 3 => r.accepted = r.segments)

PathInv(r, v) == r \in [prefixes : {0, 1}] /\ (v >= 4 => r.prefixes = 1)

CandidateInv(r, v) == r \in [package : BOOLEAN] /\ (v >= 7 => r.package)

RowInv(r, v) ==
    CASE rowKind = "composition" -> LayerInv(r, v)
      [] rowKind = "starter"     -> StarterInv(r, v)
      [] rowKind = "captions"    -> CaptionsInv(r, v)
      [] rowKind = "audio"       -> AudioInv(r, v)
      [] rowKind = "analyses"    -> AnalysesInv(r, v)
      [] rowKind = "render"      -> RenderInv(r, v)
      [] rowKind = "transcript"  -> TranscriptInv(r, v)
      [] rowKind = "path"        -> PathInv(r, v)
      [] OTHER                   -> CandidateInv(r, v)

RowKinds == {"composition", "starter", "captions", "audio", "analyses", "render",
             "transcript", "path", "candidate"}

MigrationsInv ==
    /\ rowKind \in RowKinds
    /\ version \in 0..Current
    /\ app \in [release : 0..Current, ready : BOOLEAN]
    /\ app # Closed => version <= app.release /\ app.release \in Releases
    /\ app.ready => app # Closed /\ version = app.release
    /\ stored # NoRow => RowInv(stored, version)

LEMMA ShapeFacts ==
  ASSUME NEW v \in Nat
  PROVE  /\ ShapeOf(v) \subseteq Everything /\ Everything = {"assetId", "tracks", "visible"}
         /\ "assetId" \in ShapeOf(v) <=> v >= 8
         /\ "tracks" \in ShapeOf(v) <=> v >= 9
         /\ "visible" \in ShapeOf(v) <=> v >= 18
BY DEF ShapeOf, Everything

LEMMA SmallIntervals == IsFiniteSet(0..2) /\ IsFiniteSet(1..3)
<1>1. 0 \in Int /\ 1 \in Int /\ 2 \in Int /\ 3 \in Int
  OBVIOUS
<1>2. IsFiniteSet(0..2)
  BY <1>1, FS_Interval, Zenon
<1>3. IsFiniteSet(1..3)
  BY <1>1, FS_Interval, Zenon
<1> QED
  BY <1>2, <1>3

LEMMA IncreasingTracks ==
  ASSUME NEW S \in SUBSET (0..2)
  PROVE  Increasing(S) \in InOrderTracks
<1> DEFINE n == Cardinality(S)
<1>1. IsFiniteSet(S) /\ S \subseteq Int /\ n \in Nat
  <2>1. IsFiniteSet(0..2)
    BY SmallIntervals
  <2>2. IsFiniteSet(S)
    BY <2>1, FS_Subset
  <2> QED
    BY <2>2, FS_CardinalityType
<1>2. PICK s : s = Increasing(S)
  OBVIOUS
<1>3. s = InOrder(S)
  BY <1>2 DEF Increasing, InOrder
<1>4. s \in [1..n -> S] /\ \A i, j \in 1..n : i < j => s[i] < s[j]
  BY <1>1, <1>3, InOrderSorts
<1> HIDE DEF n
<1>5. s \in Seq(Int) /\ Len(s) = n
  <2>1. s \in [1..n -> Int]
    BY <1>1, <1>4
  <2> QED
    BY <1>1, <2>1
<1>6. \A i \in 1..(Len(s) - 1) : s[i] < s[i + 1]
  BY <1>1, <1>4, <1>5
<1> QED
  BY <1>2, <1>5, <1>6 DEF InOrderTracks, InTime

LEMMA TracksAreInOrder ==
  ASSUME NEW frames \in FrameLists, NEW source
  PROVE  Track(frames, source) \in InOrderTracks
<1> DEFINE S == {frames[i].at : i \in {j \in DOMAIN frames : frames[j].source = source}}
<1>1. \A i \in DOMAIN frames : frames[i].at \in 0..2
  BY DEF FrameLists, Frames
<1>2. S \in SUBSET (0..2)
  BY <1>1
<1> HIDE DEF S
<1> QED
  BY <1>2, IncreasingTracks DEF Track, S

LEMMA NoFrames == <<>> \in InOrderTracks /\ <<>> \in FrameLists
<1>1. <<>> \in [1..0 -> Frames]
  OBVIOUS
<1> QED
  BY <1>1 DEF InOrderTracks, InTime, FrameLists

\* A migration that leaves a row brings no new field of a layer.
LEMMA LayersMigrate ==
  ASSUME NEW v \in 0..19, NEW r, LayerInv(r, v)
  PROVE  LayerInv(MigratedLayer(v + 1, r), v + 1)
<1>1. r \in Layers /\ ShapeOf(v) \subseteq r.has /\ r.legacy \in FrameLists
  BY DEF LayerInv, Layers
<1>2. CASE v + 1 = 8
  <2>1. [r EXCEPT !.has = @ \cup {"assetId"}] \in Layers
    BY <1>1, ShapeFacts DEF Layers
  <2>2. [r EXCEPT !.has = @ \cup {"assetId"}].has = r.has \cup {"assetId"}
    BY <1>1 DEF Layers
  <2>3. ShapeOf(v + 1) \subseteq r.has \cup {"assetId"}
    BY <1>1, <1>2, ShapeFacts
  <2> QED
    BY <1>2, <2>1, <2>2, <2>3 DEF MigratedLayer, LayerInv
<1>3. CASE v + 1 = 9 /\ "tracks" \notin r.has
  <2> DEFINE m == [r EXCEPT !.has = @ \cup {"tracks"}, !.auto = Track(r.legacy, "automatic"),
                            !.manual = Track(r.legacy, "manual")]
  <2>1. Track(r.legacy, "automatic") \in InOrderTracks /\ Track(r.legacy, "manual") \in InOrderTracks
    BY <1>1, TracksAreInOrder
  <2>2. r.has \cup {"tracks"} \in SUBSET Everything
    BY <1>1, ShapeFacts DEF Layers
  <2>3. m \in Layers /\ m.has = r.has \cup {"tracks"}
    BY <1>1, <2>1, <2>2 DEF Layers
  <2>4. ShapeOf(v + 1) \subseteq r.has \cup {"tracks"}
    BY <1>1, <1>3, ShapeFacts
  <2>5. MigratedLayer(v + 1, r) = m
    BY <1>3 DEF MigratedLayer
  <2> HIDE DEF m
  <2> QED
    BY <2>3, <2>4, <2>5 DEF LayerInv
<1>4. CASE v + 1 = 18
  <2>1. [r EXCEPT !.has = @ \cup {"visible"}] \in Layers
    BY <1>1, ShapeFacts DEF Layers
  <2>2. [r EXCEPT !.has = @ \cup {"visible"}].has = r.has \cup {"visible"}
    BY <1>1 DEF Layers
  <2>3. ShapeOf(v + 1) \subseteq r.has \cup {"visible"}
    BY <1>1, <1>4, ShapeFacts
  <2>4. MigratedLayer(v + 1, r) = [r EXCEPT !.has = @ \cup {"visible"}]
    <3>1. v + 1 # 8 /\ v + 1 # 9
      BY <1>4
    <3> QED
      BY <1>4, <3>1 DEF MigratedLayer
  <2> QED
    BY <2>1, <2>2, <2>3, <2>4 DEF LayerInv
<1>5. CASE v + 1 \notin {8, 18} /\ ~(v + 1 = 9 /\ "tracks" \notin r.has)
  <2>1. ShapeOf(v + 1) \subseteq r.has
    BY <1>1, <1>5, ShapeFacts
  <2>2. MigratedLayer(v + 1, r) = r
    BY <1>5 DEF MigratedLayer
  <2> QED
    BY <1>1, <2>1, <2>2 DEF LayerInv
<1> QED
  BY <1>2, <1>3, <1>4, <1>5

LEMMA StartersMigrate ==
  ASSUME NEW v \in 0..19, NEW r, StarterInv(r, v)
  PROVE  StarterInv(MigratedLayer(v + 1, r), v + 1)
<1>1. PICK has \in SUBSET Everything :
        ShapeOf(v) \subseteq has /\ r = VideoLayer(has, <<>>, <<>>, <<>>)
  BY DEF StarterInv
<1> DEFINE grown(f) == VideoLayer(has \cup {f}, <<>>, <<>>, <<>>)
<1>2. \A f \in Everything : has \cup {f} \in SUBSET Everything
  OBVIOUS
<1>3. r.has = has /\ r.legacy = <<>>
  BY <1>1 DEF VideoLayer
<1>4. CASE v + 1 \in {8, 18}
  <2>1. PICK f \in Everything : f = IF v + 1 = 8 THEN "assetId" ELSE "visible"
    BY DEF Everything
  <2>2. MigratedLayer(v + 1, r) = VideoLayer(has \cup {f}, <<>>, <<>>, <<>>)
    <3>1. MigratedLayer(v + 1, r) = [r EXCEPT !.has = @ \cup {f}]
      <4>1. CASE v + 1 = 8
        BY <2>1, <4>1 DEF MigratedLayer
      <4>2. CASE v + 1 = 18
        <5>1. v + 1 # 8 /\ v + 1 # 9
          BY <4>2
        <5> QED
          BY <2>1, <4>2, <5>1 DEF MigratedLayer
      <4> QED
        BY <1>4, <4>1, <4>2
    <3> QED
      BY <1>1, <3>1 DEF VideoLayer
  <2>3. ShapeOf(v + 1) \subseteq has \cup {f}
    BY <1>1, <1>4, <2>1, ShapeFacts
  <2> QED
    BY <1>2, <2>2, <2>3 DEF StarterInv
<1>5. CASE v + 1 = 9 /\ "tracks" \notin has
  <2>1. Track(<<>>, "automatic") = <<>> /\ Track(<<>>, "manual") = <<>>
    <3>1. Increasing({}) = <<>>
      <4>1. {} \subseteq Int /\ IsFiniteSet({}) /\ Cardinality({}) = 0
        BY FS_EmptySet
      <4>2. PICK s : s = Increasing({})
        OBVIOUS
      <4>3. s = InOrder({})
        BY <4>2 DEF Increasing, InOrder
      <4>4. s \in [1..0 -> {}]
        BY <4>1, <4>3, InOrderSorts
      <4>5. s = <<>>
        BY <4>4
      <4> QED
        BY <4>2, <4>5
    <3>2. DOMAIN <<>> = {}
      OBVIOUS
    <3> QED
      BY <3>1, <3>2 DEF Track
  <2>2. MigratedLayer(v + 1, r) = VideoLayer(has \cup {"tracks"}, <<>>, <<>>, <<>>)
    <3>1. MigratedLayer(v + 1, r) =
            [r EXCEPT !.has = @ \cup {"tracks"}, !.auto = <<>>, !.manual = <<>>]
      <4>1. v + 1 = 9 /\ v + 1 # 8 /\ "tracks" \notin r.has
        BY <1>3, <1>5
      <4>2. Track(r.legacy, "automatic") = <<>> /\ Track(r.legacy, "manual") = <<>>
        BY <1>3, <2>1
      <4>3. MigratedLayer(v + 1, r) =
              [r EXCEPT !.has = @ \cup {"tracks"}, !.auto = Track(r.legacy, "automatic"),
                        !.manual = Track(r.legacy, "manual")]
        BY <4>1 DEF MigratedLayer
      <4> QED
        BY <4>2, <4>3
    <3> QED
      BY <1>1, <3>1 DEF VideoLayer
  <2>3. ShapeOf(v + 1) \subseteq has \cup {"tracks"}
    BY <1>1, <1>5, ShapeFacts
  <2>4. "tracks" \in Everything
    BY DEF Everything
  <2> QED
    BY <1>2, <2>2, <2>3, <2>4 DEF StarterInv
<1>6. CASE v + 1 \notin {8, 18} /\ ~(v + 1 = 9 /\ "tracks" \notin has)
  <2>1. MigratedLayer(v + 1, r) = r
    BY <1>3, <1>6 DEF MigratedLayer
  <2>2. ShapeOf(v + 1) \subseteq has
    BY <1>1, <1>6, ShapeFacts
  <2> QED
    BY <1>1, <2>1, <2>2 DEF StarterInv
<1> QED
  BY <1>4, <1>5, <1>6

LEMMA CaptionsMigrate ==
  ASSUME NEW v \in 0..19, NEW r, CaptionsInv(r, v)
  PROVE  CaptionsInv(MigratedCaptions(v + 1, r), v + 1)
<1> DEFINE CaptionRows == [style : {"legacy", "current"}, size : Int,
                           transform : {"absent", "none", "uppercase"}]
           m == MigratedCaptions(v + 1, r)
<1>1. r \in CaptionRows
  BY DEF CaptionsInv
<1>2. CASE v + 1 = 10
  <2>1. m = [r EXCEPT !.style = "current", !.transform = "absent",
                      !.size = IF @ \in 12..200 THEN @ ELSE 64]
    BY <1>2 DEF MigratedCaptions
  <2>2. PICK size \in 12..200 : size = IF r.size \in 12..200 THEN r.size ELSE 64
    OBVIOUS
  <2>3. m = [r EXCEPT !.style = "current", !.transform = "absent", !.size = size]
    BY <1>1, <2>1, <2>2
  <2>4. m \in CaptionRows
    <3>1. size \in Int
      OBVIOUS
    <3> QED
      BY <1>1, <2>3, <3>1
  <2>5. m.style = "current" /\ m.size \in 12..200
    BY <1>1, <2>3
  <2> HIDE DEF m
  <2> QED
    BY <1>2, <2>4, <2>5 DEF CaptionsInv, m
<1>3. CASE v + 1 = 17
  <2>1. m = [r EXCEPT !.transform = IF @ = "absent" THEN "none" ELSE @]
    BY <1>3 DEF MigratedCaptions
  <2>2. m \in CaptionRows
    BY <1>1, <2>1
  <2>3. m.style = r.style /\ m.size = r.size /\ m.transform # "absent"
    BY <1>1, <2>1
  <2> HIDE DEF m
  <2> QED
    BY <1>3, <2>2, <2>3 DEF CaptionsInv, m
<1>4. CASE v + 1 \notin {10, 17}
  BY <1>4 DEF MigratedCaptions, CaptionsInv
<1> QED
  BY <1>2, <1>3, <1>4

LEMMA ClampedType ==
  ASSUME NEW x \in Int, NEW low \in Int, NEW high \in Int, low <= high
  PROVE  Clamped(x, low, high) \in low..high
BY DEF Clamped

\* Whatever numbers an older release stored.
LEMMA AudioMigrates ==
  ASSUME NEW r, r.gain \in Int, r.fade \in Int, r.bedGain \in Int, NEW v \in Nat
  PROVE  AudioInv(MigratedAudio(r), v)
<1> DEFINE gain == Clamped(r.gain, -60, 12)
           fade == Clamped(r.fade, 0, 500)
           clampedBed == Clamped(r.bedGain, -60, 0)
           bedGain == IF r.bed # "audio" THEN NoGain
                      ELSE IF r.bedGain = NoGain THEN -18 ELSE clampedBed
<1>1. gain \in -60..12 /\ fade \in 0..500 /\ clampedBed \in -60..0
  <2>1. -60 \in Int /\ 12 \in Int /\ 0 \in Int /\ 500 \in Int
          /\ -60 <= 12 /\ 0 <= 500 /\ -60 <= 0
    OBVIOUS
  <2>2. gain \in -60..12
    BY <2>1, ClampedType
  <2>3. fade \in 0..500
    <3>1. PICK low, high, given \in Int : low = 0 /\ high = 500 /\ given = r.fade
      BY <2>1
    <3>2. low <= high
      BY <3>1
    <3>3. Clamped(given, low, high) \in low..high
      BY ONLY <3>2, ClampedType, low \in Int, high \in Int, given \in Int
    <3> QED
      BY <3>1, <3>3
  <2>4. clampedBed \in -60..0
    BY <2>1, ClampedType
  <2> QED
    BY <2>2, <2>3, <2>4
<1>2. /\ MigratedAudio(r).shape = "current"
      /\ MigratedAudio(r).gain = gain /\ MigratedAudio(r).fade = fade
      /\ MigratedAudio(r).bed = (IF r.bed = "audio" THEN "audio" ELSE "none")
      /\ MigratedAudio(r).bedGain = bedGain
  BY DEF MigratedAudio
<1> HIDE DEF gain, fade, clampedBed
<1>3. bedGain \in Int /\ (r.bed # "audio" <=> bedGain = NoGain)
        /\ (r.bed = "audio" => bedGain \in -60..0)
  BY <1>1 DEF NoGain
<1> HIDE DEF bedGain
<1> QED
  BY <1>1, <1>2, <1>3 DEF AudioInv

LEMMA AnalysesMigrate ==
  ASSUME NEW r \in AnalysisRows
  PROVE  /\ OneWinner(r) \in AnalysisRows
         /\ \A a, b \in InUseOf(OneWinner(r)) : a = b
<1>1. r.rows \subseteq AnalysisRow
  BY DEF AnalysisRows
<1>2. \A b \in AnalysisRow :
        /\ [b EXCEPT !.state = "superseded"] \in AnalysisRow
        /\ [b EXCEPT !.state = "superseded"].state = "superseded"
  BY DEF AnalysisRow
<1>3. OneWinner(r) \in AnalysisRows
  BY <1>1, <1>2 DEF OneWinner, AnalysisRows
<1>4. ASSUME NEW a \in InUseOf(OneWinner(r)) PROVE a = Winner(r)
  <2>1. a \in OneWinner(r).rows /\ a.state # "superseded"
    BY <1>4 DEF InUseOf
  <2>2. PICK b \in r.rows :
          a = IF b \in InUseOf(r) /\ b # Winner(r) THEN [b EXCEPT !.state = "superseded"] ELSE b
    BY <2>1 DEF OneWinner
  <2>3. ~(b \in InUseOf(r) /\ b # Winner(r))
    BY <1>1, <1>2, <2>1, <2>2
  <2> QED
    BY <2>1, <2>2, <2>3 DEF InUseOf
<1> QED
  BY <1>3, <1>4

LEMMA RendersMigrate ==
  ASSUME NEW v \in 0..19, NEW r, RenderInv(r, v)
  PROVE  RenderInv(MigratedRender(v + 1, r), v + 1)
<1> DEFINE RenderRows == [state : {"succeeded", "stale"}, evidence : BOOLEAN, lineage : BOOLEAN,
                          flagged : BOOLEAN, upgraded : BOOLEAN]
<1>1. r \in RenderRows /\ (r.state = "stale" => r.flagged \/ r.upgraded)
  BY DEF RenderInv
<1>2. CASE v + 1 = 14 /\ r.state = "succeeded"
  <2> DEFINE m == [r EXCEPT !.state = "stale", !.upgraded = TRUE]
  <2>1. m \in RenderRows /\ m.state = "stale" /\ m.upgraded
    BY <1>1
  <2>2. MigratedRender(v + 1, r) = m
    BY <1>2 DEF MigratedRender
  <2> HIDE DEF m
  <2> QED
    BY <1>2, <2>1, <2>2 DEF RenderInv
<1>3. CASE v + 1 = 15
  <2> DEFINE m == [r EXCEPT !.lineage = TRUE]
  <2>1. m \in RenderRows /\ m.lineage
    BY <1>1
  <2>2. m.state = r.state /\ m.flagged = r.flagged /\ m.upgraded = r.upgraded
          /\ m.evidence = r.evidence
    BY <1>1
  <2>3. MigratedRender(v + 1, r) = m
    BY <1>3 DEF MigratedRender
  <2> HIDE DEF m
  <2> QED
    BY <1>1, <1>3, <2>1, <2>2, <2>3 DEF RenderInv
<1>4. CASE v + 1 # 15 /\ ~(v + 1 = 14 /\ r.state = "succeeded")
  BY <1>4 DEF MigratedRender, RenderInv
<1> QED
  BY <1>2, <1>3, <1>4

LEMMA TranscriptsMigrate ==
  ASSUME NEW v \in 0..19, NEW r, TranscriptInv(r, v)
  PROVE  /\ v + 1 = 3 => TranscriptInv([r EXCEPT !.accepted = r.segments], v + 1)
         /\ v + 1 # 3 => TranscriptInv(r, v + 1)
<1> DEFINE m == [r EXCEPT !.accepted = r.segments]
<1>1. r \in [segments : Nat, accepted : Nat]
  BY DEF TranscriptInv
<1>2. m \in [segments : Nat, accepted : Nat] /\ m.accepted = m.segments
  BY <1>1
<1> HIDE DEF m
<1>3. TranscriptInv(m, v + 1)
  BY <1>2 DEF TranscriptInv
<1>4. v + 1 # 3 => TranscriptInv(r, v + 1)
  BY DEF TranscriptInv
<1> QED
  BY <1>3, <1>4 DEF m

LEMMA PathsMigrate ==
  ASSUME NEW v \in 0..19, NEW r, PathInv(r, v)
  PROVE  /\ v + 1 = 4 /\ r.prefixes = 0 => PathInv([r EXCEPT !.prefixes = 1], v + 1)
         /\ ~(v + 1 = 4 /\ r.prefixes = 0) => PathInv(r, v + 1)
<1> DEFINE m == [r EXCEPT !.prefixes = 1]
<1>1. r \in [prefixes : {0, 1}]
  BY DEF PathInv
<1>2. m \in [prefixes : {0, 1}] /\ m.prefixes = 1
  BY <1>1
<1> HIDE DEF m
<1>3. PathInv(m, v + 1)
  BY <1>2 DEF PathInv
<1>4. ~(v + 1 = 4 /\ r.prefixes = 0) => PathInv(r, v + 1)
  BY <1>1 DEF PathInv
<1> QED
  BY <1>3, <1>4 DEF m

LEMMA CandidatesMigrate ==
  ASSUME NEW v \in 0..19, NEW r, CandidateInv(r, v)
  PROVE  /\ v + 1 = 7 => CandidateInv([r EXCEPT !.package = TRUE], v + 1)
         /\ v + 1 # 7 => CandidateInv(r, v + 1)
<1> DEFINE m == [r EXCEPT !.package = TRUE]
<1>1. r \in [package : BOOLEAN]
  BY DEF CandidateInv
<1>2. m \in [package : BOOLEAN] /\ m.package
  BY <1>1
<1> HIDE DEF m
<1>3. CandidateInv(m, v + 1)
  BY <1>2 DEF CandidateInv
<1>4. v + 1 # 7 => CandidateInv(r, v + 1)
  BY DEF CandidateInv
<1> QED
  BY <1>3, <1>4 DEF m

\* Each migration brings a row of the version before it to its own.
LEMMA AppliedKeepsRows ==
  ASSUME NEW v \in 0..19, rowKind \in RowKinds, NEW r, r # NoRow, RowInv(r, v)
  PROVE  RowInv(Applied(v + 1, r), v + 1)
<1>1. CASE rowKind = "composition"
  <2>1. LayerInv(MigratedLayer(v + 1, r), v + 1)
    BY <1>1, LayersMigrate DEF RowInv
  <2> QED
    BY <1>1, <2>1 DEF RowInv, Applied
<1>2. CASE rowKind = "starter"
  <2>1. StarterInv(MigratedLayer(v + 1, r), v + 1)
    BY <1>2, StartersMigrate DEF RowInv
  <2> QED
    BY <1>2, <2>1 DEF RowInv, Applied
<1>3. CASE rowKind = "captions"
  <2>1. CaptionsInv(MigratedCaptions(v + 1, r), v + 1)
    BY <1>3, CaptionsMigrate DEF RowInv
  <2> QED
    BY <1>3, <2>1 DEF RowInv, Applied
<1>4. CASE rowKind = "audio"
  <2>1. AudioInv(r, v)
    BY <1>4 DEF RowInv
  <2>2. v + 1 \in Nat /\ AudioInv(MigratedAudio(r), v + 1)
    BY <2>1, AudioMigrates DEF AudioInv
  <2>3. v + 1 # 11 => AudioInv(r, v + 1)
    BY <2>1 DEF AudioInv
  <2>4. Applied(v + 1, r) = IF v + 1 = 11 THEN MigratedAudio(r) ELSE r
    BY <1>4 DEF Applied
  <2> QED
    BY <1>4, <2>2, <2>3, <2>4 DEF RowInv
<1>5. CASE rowKind = "analyses"
  <2>1. AnalysesInv(r, v)
    BY <1>5 DEF RowInv
  <2>2. AnalysesInv(OneWinner(r), v + 1)
    BY <2>1, AnalysesMigrate DEF AnalysesInv
  <2>3. v + 1 # 6 => AnalysesInv(r, v + 1)
    BY <2>1 DEF AnalysesInv
  <2>4. Applied(v + 1, r) = IF v + 1 = 6 THEN OneWinner(r) ELSE r
    BY <1>5 DEF Applied
  <2> QED
    BY <1>5, <2>2, <2>3, <2>4 DEF RowInv
<1>6. CASE rowKind = "render"
  <2>1. RenderInv(MigratedRender(v + 1, r), v + 1)
    BY <1>6, RendersMigrate DEF RowInv
  <2> QED
    BY <1>6, <2>1 DEF RowInv, Applied
<1>7. CASE rowKind = "transcript"
  <2>1. TranscriptInv(r, v)
    BY <1>7 DEF RowInv
  <2>2. Applied(v + 1, r) = IF v + 1 = 3 THEN [r EXCEPT !.accepted = r.segments] ELSE r
    BY <1>7 DEF Applied
  <2>3. TranscriptInv(Applied(v + 1, r), v + 1)
    BY <2>1, <2>2, TranscriptsMigrate
  <2> QED
    BY <1>7, <2>3 DEF RowInv
<1>8. CASE rowKind = "path"
  <2>1. PathInv(r, v)
    BY <1>8 DEF RowInv
  <2>2. Applied(v + 1, r) = IF v + 1 = 4 /\ r.prefixes = 0 THEN [r EXCEPT !.prefixes = 1] ELSE r
    BY <1>8 DEF Applied
  <2>3. PathInv(Applied(v + 1, r), v + 1)
    BY <2>1, <2>2, PathsMigrate
  <2> QED
    BY <1>8, <2>3 DEF RowInv
<1>9. CASE rowKind = "candidate"
  <2>1. CandidateInv(r, v)
    BY <1>9 DEF RowInv
  <2>2. Applied(v + 1, r) = IF v + 1 = 7 THEN [r EXCEPT !.package = TRUE] ELSE r
    BY <1>9 DEF Applied
  <2>3. CandidateInv(Applied(v + 1, r), v + 1)
    BY <2>1, <2>2, CandidatesMigrate
  <2> QED
    BY <1>9, <2>3 DEF RowInv
<1> QED
  BY <1>1, <1>2, <1>3, <1>4, <1>5, <1>6, <1>7, <1>8, <1>9 DEF RowKinds

\* What a release writes has the fields of its own version.
LEMMA WrittenLayers ==
  ASSUME NEW release \in 1..20, NEW r \in Compositions(release)
  PROVE  LayerInv(r, release)
<1>1. ShapeOf(release) \in SUBSET Everything
  BY ShapeFacts
<1>2. PICK legacy \in FrameLists, auto \in InOrderTracks, manual \in InOrderTracks :
        r = VideoLayer(ShapeOf(release), legacy, auto, manual)
  <2>1. CASE release < 9
    BY <2>1, NoFrames DEF Compositions
  <2>2. CASE ~(release < 9)
    <3>1. PICK S \in SUBSET (0..2), T \in SUBSET (0..2) :
            r = VideoLayer(ShapeOf(release), <<>>, Increasing(S), Increasing(T))
      BY <2>2 DEF Compositions
    <3> QED
      BY <3>1, NoFrames, IncreasingTracks
  <2> QED
    BY <2>1, <2>2
<1> QED
  BY <1>1, <1>2 DEF VideoLayer, LayerInv, Layers

LEMMA WrittenCaptions ==
  ASSUME NEW release \in 1..20, NEW r \in Captions(release)
  PROVE  CaptionsInv(r, release)
<1>1. r.style = (IF release < 10 THEN "legacy" ELSE "current")
        /\ r.size \in {8, 64, 300} /\ r.transform \in {"absent", "none", "uppercase"}
        /\ (release >= 10 => r.size = 64)
        /\ (release >= 17 => r.transform # "absent")
  BY DEF Captions
<1>2. r \in [style : {"legacy", "current"}, size : Int,
             transform : {"absent", "none", "uppercase"}]
  BY <1>1 DEF Captions
<1> QED
  BY <1>1, <1>2 DEF CaptionsInv

LEMMA WrittenAudio ==
  ASSUME NEW release \in 1..20, NEW r \in Audio(release)
  PROVE  AudioInv(r, release)
<1>1. CASE release < 3
  <2>1. r = [shape |-> "legacy", gain |-> 0, fade |-> 0, bed |-> "none", bedGain |-> NoGain]
    <3>1. Audio(release) =
            {[shape |-> "legacy", gain |-> 0, fade |-> 0, bed |-> "none", bedGain |-> NoGain]}
      BY <1>1 DEF Audio
    <3> QED
      BY <3>1
  <2>2. r.gain \in Int /\ r.fade \in Int /\ r.bedGain \in Int
    BY <2>1 DEF NoGain
  <2> QED
    BY <1>1, <2>2 DEF AudioInv
<1>2. CASE release >= 3 /\ release < 11
  BY <1>2 DEF Audio, AudioInv, LegacyAudio, NoGain
<1>3. CASE release >= 11
  <2>1. PICK a \in LegacyAudio : r = MigratedAudio(a)
    BY <1>3 DEF Audio
  <2>2. a.gain \in Int /\ a.fade \in Int /\ a.bedGain \in Int /\ release \in Nat
    BY DEF LegacyAudio, NoGain
  <2> QED
    BY <2>1, <2>2, AudioMigrates
<1> QED
  BY <1>1, <1>2, <1>3

LEMMA AtMostOne ==
  ASSUME NEW S, IsFiniteSet(S), Cardinality(S) <= 1, NEW a \in S, NEW b \in S
  PROVE  a = b
<1> SUFFICES ASSUME a # b PROVE FALSE
  OBVIOUS
<1>1. IsFiniteSet({b}) /\ Cardinality({b}) = 1
  BY FS_Singleton
<1>2. IsFiniteSet({b} \cup {a}) /\ Cardinality({b} \cup {a}) = 2
  <2>1. Cardinality({b} \cup {a}) = Cardinality({b}) + 1
    BY <1>1, FS_AddElement
  <2> QED
    BY <1>1, <2>1, FS_AddElement
<1>3. {b} \cup {a} \subseteq S
  OBVIOUS
<1>4. Cardinality({b} \cup {a}) <= Cardinality(S)
  BY <1>3, FS_Subset
<1>5. Cardinality(S) \in Nat
  BY FS_CardinalityType
<1> QED
  BY <1>2, <1>4, <1>5

LEMMA WrittenAnalyses ==
  ASSUME NEW release \in 1..20, NEW r \in Analyses(release)
  PROVE  AnalysesInv(r, release)
<1>1. PICK s \in [1..3 -> {"proposed", "accepted", "superseded"}] :
        /\ r = [rows |-> {[at |-> i, state |-> s[i]] : i \in 1..3}]
        /\ release >= 6 => Cardinality({i \in 1..3 : s[i] # "superseded"}) <= 1
  BY DEF Analyses
<1> DEFINE used == {i \in 1..3 : s[i] # "superseded"}
<1>2. IsFiniteSet(used)
  <2>1. IsFiniteSet(1..3)
    BY SmallIntervals
  <2> QED
    BY <2>1, FS_Subset
<1>3. r \in AnalysisRows
  BY <1>1 DEF AnalysisRows, AnalysisRow
<1>4. ASSUME NEW a \in InUseOf(r) PROVE \E i \in used : a = [at |-> i, state |-> s[i]]
  BY <1>1 DEF InUseOf
<1>5. ASSUME release >= 6, NEW a \in InUseOf(r), NEW b \in InUseOf(r) PROVE a = b
  <2>1. PICK i \in used : a = [at |-> i, state |-> s[i]]
    BY <1>4
  <2>2. PICK j \in used : b = [at |-> j, state |-> s[j]]
    BY <1>4
  <2>3. Cardinality(used) <= 1
    BY <1>1, <1>5
  <2> HIDE DEF used
  <2>4. i = j
    BY <1>2, <2>3, AtMostOne
  <2> QED
    BY <2>1, <2>2, <2>4
<1> QED
  BY <1>3, <1>5 DEF AnalysesInv

LEMMA WrittenRows ==
  ASSUME NEW release \in 1..20, rowKind \in RowKinds \ {"starter"}, NEW r \in Written(release)
  PROVE  RowInv(r, release)
<1>1. CASE rowKind = "composition"
  <2>1. r \in Compositions(release)
    BY <1>1 DEF Written
  <2> QED
    BY <1>1, <2>1, WrittenLayers DEF RowInv
<1>2. CASE rowKind = "captions"
  <2>1. r \in Captions(release)
    BY <1>2 DEF Written
  <2> QED
    BY <1>2, <2>1, WrittenCaptions DEF RowInv
<1>3. CASE rowKind = "audio"
  <2>1. r \in Audio(release)
    BY <1>3 DEF Written
  <2> QED
    BY <1>3, <2>1, WrittenAudio DEF RowInv
<1>4. CASE rowKind = "analyses"
  <2>1. r \in Analyses(release)
    BY <1>4 DEF Written
  <2> QED
    BY <1>4, <2>1, WrittenAnalyses DEF RowInv
<1>5. CASE rowKind = "render"
  <2>1. r \in RendersOf(release)
    BY <1>5 DEF Written
  <2>2. PICK state \in {"succeeded", "stale"} :
          r = [state |-> state, evidence |-> release >= 14, lineage |-> release >= 15,
               flagged |-> state = "stale", upgraded |-> FALSE]
    BY <2>1 DEF RendersOf
  <2>3. (release >= 14) \in BOOLEAN /\ (release >= 15) \in BOOLEAN /\ (state = "stale") \in BOOLEAN
    OBVIOUS
  <2>4. r \in [state : {"succeeded", "stale"}, evidence : BOOLEAN, lineage : BOOLEAN,
                flagged : BOOLEAN, upgraded : BOOLEAN]
    BY <2>2, <2>3
  <2>5. r.state = state /\ (r.flagged <=> state = "stale")
          /\ (r.evidence <=> release >= 14) /\ (r.lineage <=> release >= 15)
    BY <2>2
  <2>6. RenderInv(r, release)
    BY <2>4, <2>5 DEF RenderInv
  <2> QED
    BY <1>5, <2>6 DEF RowInv
<1>6. CASE rowKind = "transcript"
  <2>1. PICK n \in 1..2 : r = [segments |-> n, accepted |-> IF release < 3 THEN 0 ELSE n]
    BY <1>6 DEF Written
  <2>2. TranscriptInv(r, release)
    BY <2>1 DEF TranscriptInv
  <2> QED
    BY <1>6, <2>2 DEF RowInv
<1>7. CASE rowKind = "path"
  <2>1. r = [prefixes |-> IF release < 4 THEN 0 ELSE 1]
    BY <1>7 DEF Written
  <2>2. PathInv(r, release)
    BY <2>1 DEF PathInv
  <2> QED
    BY <1>7, <2>2 DEF RowInv
<1>8. CASE rowKind = "candidate"
  <2>1. r = [package |-> release >= 7]
    BY <1>8 DEF Written
  <2>2. CandidateInv(r, release)
    <3>1. PICK named : named = (release >= 7)
      OBVIOUS
    <3>2. named \in BOOLEAN
      BY <3>1
    <3>3. r = [package |-> named]
      BY <2>1, <3>1
    <3>4. r \in [package : BOOLEAN] /\ r.package = named
      BY <3>2, <3>3
    <3> QED
      BY <3>1, <3>4 DEF CandidateInv
  <2> QED
    BY <1>8, <2>2 DEF RowInv
<1> QED
  BY <1>1, <1>2, <1>3, <1>4, <1>5, <1>6, <1>7, <1>8 DEF RowKinds

LEMMA InitMigrationsInv == MigrationsInit => MigrationsInv
BY DEF MigrationsInit, MigrationsInv, RowKinds, Current, Closed

LEMMA NextMigrationsInv == MigrationsInv /\ [MigrationsNext]_migrationVars => MigrationsInv'
<1> SUFFICES ASSUME MigrationsInv, [MigrationsNext]_migrationVars PROVE MigrationsInv'
  OBVIOUS
<1>1. /\ rowKind \in RowKinds /\ version \in 0..20
      /\ app \in [release : 0..20, ready : BOOLEAN]
      /\ app # Closed => version <= app.release /\ app.release \in Releases
      /\ app.ready => app # Closed /\ version = app.release
      /\ stored # NoRow => RowInv(stored, version)
  BY DEF MigrationsInv, Current
<1>2. Releases \subseteq 1..20
  BY MigrationsAssumption DEF Current
<1>3. ASSUME UNCHANGED <<rowKind, stored, version>>,
             app' \in [release : 0..20, ready : BOOLEAN],
             app' # Closed => version <= app'.release /\ app'.release \in Releases,
             app'.ready => app' # Closed /\ version = app'.release
      PROVE  MigrationsInv'
  <2>1. stored' # NoRow => RowInv(stored, version)'
    BY <1>1, <1>3 DEF RowInv
  <2> QED
    BY <1>1, <1>3, <2>1 DEF MigrationsInv, Current, Closed, NoRow
<1>4. ASSUME NEW release \in Releases, OpenDatabase(release) PROVE MigrationsInv'
  <2>1. app' = [release |-> release, ready |-> FALSE] /\ version <= release
    BY <1>4 DEF OpenDatabase, Supports
  <2> QED
    BY <1>2, <1>3, <1>4, <2>1 DEF OpenDatabase
<1>5. CASE ApplyMigration
  <2>1. app # Closed /\ ~app.ready /\ version < app.release /\ version' = version + 1
          /\ stored' = Applied(version + 1, stored) /\ UNCHANGED <<rowKind, app, opens>>
    BY <1>5 DEF ApplyMigration
  <2>2. version \in 0..19 /\ version' \in 0..20 /\ version' <= app.release
          /\ app.release \in 0..20
    BY <1>1, <2>1
  <2>3. stored' # NoRow => RowInv(Applied(version + 1, stored), version + 1)
    <3>1. CASE stored # NoRow
      BY <1>1, <2>2, <3>1, AppliedKeepsRows
    <3>2. CASE stored = NoRow /\ rowKind = "starter" /\ version + 1 = 3
      <4>1. Applied(version + 1, stored) = VideoLayer(ShapeOf(app.release), <<>>, <<>>, <<>>)
        BY <3>2 DEF Applied, StarterTemplate
      <4>2. ShapeOf(version + 1) = {}
        BY <3>2, ShapeFacts
      <4>3. ShapeOf(app.release) \in SUBSET Everything
        BY <2>2, ShapeFacts
      <4>4. StarterInv(Applied(version + 1, stored), version + 1)
        BY <4>1, <4>2, <4>3 DEF StarterInv
      <4> QED
        BY <3>2, <4>4 DEF RowInv
    <3>3. CASE stored = NoRow /\ ~(rowKind = "starter" /\ version + 1 = 3)
      BY <2>1, <3>3 DEF Applied
    <3> QED
      BY <3>1, <3>2, <3>3
  <2>4. stored' # NoRow => RowInv(stored, version)'
    BY <2>1, <2>3 DEF RowInv
  <2> QED
    BY <1>1, <2>1, <2>2, <2>4 DEF MigrationsInv, Current, Closed, NoRow
<1>6. CASE FinishOpening
  <2>1. app # Closed /\ ~app.ready /\ version >= app.release
          /\ app' = [app EXCEPT !.ready = TRUE] /\ UNCHANGED <<rowKind, stored, version, opens>>
    BY <1>6 DEF FinishOpening
  <2>2. app' \in [release : 0..20, ready : BOOLEAN] /\ app'.release = app.release /\ app'.ready
    BY <1>1, <2>1
  <2>3. version = app.release /\ app.release # 0
    BY <1>1, <1>2, <2>1
  <2>4. app' # Closed
    BY <2>2 DEF Closed
  <2> QED
    BY <1>1, <1>3, <2>1, <2>2, <2>3, <2>4
<1>7. CASE WriteRow
  <2>1. app.ready /\ rowKind # "starter" /\ stored' \in Written(app.release)
          /\ UNCHANGED <<rowKind, version, app, opens>>
    BY <1>7 DEF WriteRow
  <2>2. version = app.release /\ app.release \in 1..20
    BY <1>1, <1>2, <2>1
  <2>3. PICK r \in Written(app.release) : r = stored'
    BY <2>1
  <2>4. RowInv(r, version)
    BY <1>1, <2>1, <2>2, WrittenRows
  <2>5. RowInv(stored, version)'
    BY <2>1, <2>3, <2>4 DEF RowInv
  <2> QED
    BY <1>1, <2>1, <2>5 DEF MigrationsInv, Current, Closed
<1>8. CASE CloseDatabase
  BY <1>3, <1>8 DEF CloseDatabase, Closed
<1>9. CASE UNCHANGED migrationVars
  BY <1>1, <1>3, <1>9 DEF migrationVars
<1> QED
  BY <1>4, <1>5, <1>6, <1>7, <1>8, <1>9 DEF MigrationsNext

LEMMA MigrationsInvMeans == MigrationsInv => RowsStayReadable
<1> SUFFICES ASSUME MigrationsInv, app = [release |-> 20, ready |-> TRUE], stored # NoRow
             PROVE  IsReadable /\ (rowKind = "starter" => stored = StarterTemplate(20))
  BY DEF RowsStayReadable, Current
<1>1. rowKind \in RowKinds /\ version = 20
  BY DEF MigrationsInv
<1>2. RowInv(stored, 20)
  BY <1>1 DEF MigrationsInv
<1>3. ShapeOf(20) = Everything
  BY ShapeFacts
<1>4. CASE rowKind = "composition"
  <2>1. stored \in Layers /\ Everything \subseteq stored.has
    BY <1>2, <1>3, <1>4 DEF RowInv, LayerInv
  <2>2. stored.has = Everything /\ InTime(stored.auto) /\ InTime(stored.manual)
    BY <2>1 DEF Layers, InOrderTracks
  <2> QED
    BY <1>4, <2>2 DEF IsReadable
<1>5. CASE rowKind = "starter"
  <2>1. PICK has \in SUBSET Everything :
          Everything \subseteq has /\ stored = VideoLayer(has, <<>>, <<>>, <<>>)
    BY <1>2, <1>3, <1>5 DEF RowInv, StarterInv
  <2>2. stored = VideoLayer(Everything, <<>>, <<>>, <<>>)
    <3>1. has = Everything
      BY <2>1
    <3> QED
      BY <2>1, <3>1
  <2>3. stored.has = Everything /\ InTime(stored.auto) /\ InTime(stored.manual)
    BY <2>2, NoFrames DEF VideoLayer, InOrderTracks
  <2> QED
    BY <1>3, <1>5, <2>2, <2>3 DEF IsReadable, StarterTemplate
<1>6. CASE rowKind = "captions"
  BY <1>2, <1>6 DEF RowInv, CaptionsInv, IsReadable
<1>7. CASE rowKind = "audio"
  BY <1>2, <1>7 DEF RowInv, AudioInv, IsReadable
<1>8. CASE rowKind = "analyses"
  <2>1. \A a, b \in InUseOf(stored) : a = b
    BY <1>2, <1>8 DEF RowInv, AnalysesInv
  <2>2. Cardinality(InUseOf(stored)) <= 1
    <3>1. CASE InUseOf(stored) = {}
      BY <3>1, FS_EmptySet
    <3>2. CASE InUseOf(stored) # {}
      <4>1. PICK a : InUseOf(stored) = {a}
        BY <2>1, <3>2
      <4>2. Cardinality({a}) = 1
        BY FS_Singleton
      <4> QED
        BY <4>1, <4>2
    <3> QED
      BY <3>1, <3>2
  <2> QED
    BY <1>8, <2>2 DEF IsReadable
<1>9. CASE rowKind = "render"
  BY <1>2, <1>9 DEF RowInv, RenderInv, IsReadable
<1>10. CASE rowKind = "transcript"
  BY <1>2, <1>10 DEF RowInv, TranscriptInv, IsReadable
<1>11. CASE rowKind = "path"
  BY <1>2, <1>11 DEF RowInv, PathInv, IsReadable
<1>12. CASE rowKind = "candidate"
  BY <1>2, <1>12 DEF RowInv, CandidateInv, IsReadable
<1> QED
  BY <1>1, <1>4, <1>5, <1>6, <1>7, <1>8, <1>9, <1>10, <1>11, <1>12 DEF RowKinds

\* Through whatever releases a database went, and wherever an upgrade was cut
\* off, this release reads what they left in it.
THEOREM RowsAreReadable == MigrationsSpec => []RowsStayReadable
<1>1. MigrationsInit => MigrationsInv
  BY InitMigrationsInv
<1>2. MigrationsInv => RowsStayReadable
  BY MigrationsInvMeans
<1> QED
  BY <1>1, <1>2, NextMigrationsInv, PTL DEF MigrationsSpec
===============================================================================
