----------------------------- MODULE CloudAnalysis -----------------------------
(***************************************************************************)
(* The handler of analyze jobs (bootstrap.ts) and what it awaits: the      *)
(* Python worker, or the bridge to the Electron process                    *)
(* (openai-provider.ts, electron/main.ts), which keeps the credentials     *)
(* (credential-vault.ts) and sends the requests (openai-adapter.ts) after  *)
(* asking the core, before each, whether they are still authorized.        *)
(*                                                                         *)
(* One Episode and one job at a time, as the runner has it.  The messages  *)
(* of the bridge keep their order; each HTTP call from Electron to the     *)
(* core is served when it is served.  Progress events are left out, and    *)
(* the cancellations a timer repeats are one while one is under way.       *)
(***************************************************************************)
EXTENDS Naturals, Sequences, FiniteSets

CONSTANTS Handles,          \* of protected credentials
          NoHandle,
          Chunks,           \* of the audio of the Episode
          MaxJobs,          \* bounds: analyze jobs, edits of the transcript,
          MaxTranscripts,   \* grants, ends of a process
          MaxGrants,
          MaxEnds

ASSUME CloudHandlesAssumption == NoHandle \notin Handles
ASSUME CloudBoundsAssumption ==
    /\ Chunks \in Nat \ {0} /\ MaxJobs \in Nat
    /\ MaxTranscripts \in Nat /\ MaxGrants \in Nat /\ MaxEnds \in Nat

VARIABLES
    core,       \* "up", "stopping" (it waits for the handler) or "down"
    electron,   \* whether the Electron process and its channel are there
    task,       \* the analyze job and how far its handler is
    grant,      \* the credential the Episode's authorization names, in the database
    active,     \* activeCredentialHandles of the core
    vault,      \* handles in the protected store of Electron
    desktopCalls,      \* synchronizations and removals on their way to the core
    toElectron, toCore,
    operation,  \* openAiOperations of Electron: the request in its adapter
    episode,    \* accepted transcript, active analyses, missing
    spent,      \* how much of each bound
    lapsedPosts \* history: per credential, requests sent since it was last granted
                \* whose authorization had lapsed

cloudVars == <<core, electron, task, grant, active, vault, desktopCalls, toElectron,
               toCore, operation, episode, spent, lapsedPosts>>

MaxPosts == 3                       \* attempts of postWithRetry
AnalyzeKinds == {"speech", "analysis", "local speech", "local analysis"}
IsOpenAi(kind)   == kind \in {"speech", "analysis"}
IsAnalysis(kind) == kind \in {"analysis", "local analysis"}

NoTask == [kind |-> "speech", pc |-> "ended", handle |-> NoHandle, read |-> 0,
           cancelled |-> FALSE, staged |-> FALSE]
NoOperation == [pc |-> "none", kind |-> "speech", handle |-> NoHandle,
                chunk |-> 1, attempt |-> 1, aborted |-> FALSE]

Synchronize(handles) == [what |-> "synchronize", handles |-> handles]
Removal(what, h)     == [what |-> what, handles |-> {h}]

CloudInit ==
    /\ core = "up" /\ electron = TRUE
    /\ task = NoTask
    /\ grant = NoHandle /\ active = {}
    /\ vault = Handles
    /\ desktopCalls = {Synchronize(Handles)}
    /\ toElectron = <<>> /\ toCore = <<>>
    /\ operation = NoOperation
    /\ episode = [transcript |-> 1, analyses |-> {}, missing |-> FALSE]
    /\ spent = [jobs |-> 0, grants |-> 0, ends |-> 0]
    /\ lapsedPosts = [h \in Handles |-> 0]

HandlerRuns == core # "down" /\ task.pc \notin {"ended", "queued"}

validateCloudAuthorization(handle) == grant = handle /\ handle \in active
-----------------------------------------------------------------------------
(***************************************************************************)
(* The handler                                                             *)
(***************************************************************************)

Ended(t) == [t EXCEPT !.pc = "ended"]

\* storeTranscript, storeOpenAiSpeech: refused for a missing source;
\* acceptTranscriptRevision supersedes the analyses of the Episode.
Transcribed ==
    IF episode.missing THEN episode
    ELSE [episode EXCEPT !.transcript = @ + 1, !.analyses = {}]

\* insertAnalysisArtifactWinner: the identity of an analysis is what it read.
Recorded(t) ==
    IF IsAnalysis(t.kind) THEN [episode EXCEPT !.analyses = @ \cup {t.read}] ELSE Transcribed

\* An answer arrived: a cancelled job stores nothing.
AnswerArrives ==
    /\ episode' = IF task.cancelled THEN episode ELSE Recorded(task)
    /\ task' = Ended(task)

Request(t) == [what |-> "request", kind |-> t.kind, handle |-> t.handle]

\* request(): on a closed channel the send calls back with an error.
Asks(t) ==
    IF electron
    THEN task' = [t EXCEPT !.pc = "asking"] /\ toElectron' = Append(toElectron, Request(t))
    ELSE task' = Ended(t) /\ UNCHANGED toElectron

\* What follows the samples of an analysis, and the start of a transcription.
Consult(t) ==
    IF IsOpenAi(t.kind) THEN Asks(t)
    ELSE task' = [t EXCEPT !.pc = "working"] /\ UNCHANGED toElectron

\* The handler up to its first await.  An analysis of the same transcript is
\* used again.
Handler(t) ==
    /\ core = "up"
    /\ \/ /\ IsOpenAi(t.kind) /\ ~validateCloudAuthorization(t.handle)
          /\ task' = Ended(t) /\ UNCHANGED toElectron
       \/ /\ IsOpenAi(t.kind) => validateCloudAuthorization(t.handle)
          /\ IF ~IsAnalysis(t.kind) THEN Consult(t)
             ELSE /\ task' = IF episode.transcript \in episode.analyses THEN Ended(t)
                             ELSE [t EXCEPT !.pc = "sampling", !.read = episode.transcript]
                  /\ UNCHANGED toElectron
    /\ UNCHANGED <<core, electron, grant, active, vault, desktopCalls, toCore, operation,
                   episode, lapsedPosts>>

\* Enqueued for a source that is there, a cloud job with the credential of the
\* grant, and claimed.
Start(kind) ==
    /\ task.pc = "ended" /\ spent.jobs < MaxJobs
    /\ ~episode.missing
    /\ IsOpenAi(kind) => grant # NoHandle
    /\ spent' = [spent EXCEPT !.jobs = @ + 1]
    /\ Handler([NoTask EXCEPT !.kind = kind,
                             !.handle = IF IsOpenAi(kind) THEN grant ELSE NoHandle])

\* Put back by recoverJobs; the inputs of its first run may be there.
StartAgain ==
    /\ task.pc = "queued"
    /\ UNCHANGED spent
    /\ Handler(task)

\* The samples arrived.  The inputs are finalized under the job's name, which
\* fails for a job that did so before; then the provider is asked.
Sampled ==
    /\ HandlerRuns /\ task.pc = "sampling"
    /\ IF task.cancelled \/ task.staged
       THEN task' = Ended(task) /\ UNCHANGED toElectron
       ELSE Consult([task EXCEPT !.staged = TRUE])
    /\ UNCHANGED <<core, electron, grant, active, vault, desktopCalls, toCore, operation,
                   episode, spent, lapsedPosts>>

\* The worker or its supervisor may fail the call, also for a cancellation.
WorkerSettles ==
    /\ HandlerRuns
    /\ \/ task.pc = "working" /\ AnswerArrives
       \/ task.pc \in {"sampling", "working"} /\ task' = Ended(task) /\ UNCHANGED episode
    /\ UNCHANGED <<core, electron, grant, active, vault, desktopCalls, toElectron, toCore,
                   operation, spent, lapsedPosts>>

CancelJob ==
    /\ core = "up" /\ HandlerRuns /\ ~task.cancelled
    /\ task' = [task EXCEPT !.cancelled = TRUE]
    /\ UNCHANGED <<core, electron, grant, active, vault, desktopCalls, toElectron, toCore,
                   operation, episode, spent, lapsedPosts>>

CancelMessage == [what |-> "cancel", kind |-> task.kind, handle |-> task.handle]

\* Every 100 ms while the handler awaits.  On a closed channel the send is an
\* error event nobody handles, and the core dies of it.
CancelTimer ==
    /\ HandlerRuns /\ task.cancelled /\ task.pc = "asking"
    /\ CancelMessage \notin {toElectron[i] : i \in DOMAIN toElectron} /\ ~operation.aborted
    /\ IF electron
       THEN toElectron' = Append(toElectron, CancelMessage) /\ UNCHANGED <<core, active, toCore>>
       ELSE core' = "down" /\ active' = {} /\ toCore' = <<>> /\ UNCHANGED toElectron
    /\ UNCHANGED <<electron, task, grant, vault, desktopCalls, operation, episode, spent, lapsedPosts>>

\* receive(): an answer to what is no longer pending is dropped.
Receive ==
    /\ core # "down" /\ toCore # <<>>
    /\ toCore' = Tail(toCore)
    /\ IF task.pc # "asking" THEN UNCHANGED <<task, episode>>
       ELSE IF Head(toCore) = "result" THEN AnswerArrives
       ELSE task' = Ended(task) /\ UNCHANGED episode
    /\ UNCHANGED <<core, electron, grant, active, vault, desktopCalls, toElectron, operation,
                   spent, lapsedPosts>>
-----------------------------------------------------------------------------
(***************************************************************************)
(* The Electron side of the bridge                                         *)
(***************************************************************************)

\* Only while the core is connected.
Send(answer) == toCore' = IF core # "down" THEN Append(toCore, answer) ELSE toCore

\* Mutant: what was aborted is not answered.
SettleWanted(answer) ==
    /\ operation' = NoOperation
    /\ IF operation.aborted THEN UNCHANGED toCore ELSE Send(answer)

Settle(answer) == operation' = NoOperation /\ Send(answer)

OperationAt(pc) == electron /\ operation.pc = pc

Proceeds(pc) == operation' = [operation EXCEPT !.pc = pc] /\ UNCHANGED toCore

BridgeKeeps == UNCHANGED <<core, electron, task, grant, active, vault, desktopCalls, episode, spent>>

\* handleCoreMessage: the credential may be gone, or its storage locked.
ReceiveMessage ==
    /\ electron /\ toElectron # <<>>
    /\ toElectron' = Tail(toElectron)
    /\ LET m == Head(toElectron)
       IN  IF m.what = "cancel"
           THEN /\ operation' = [operation EXCEPT !.aborted = operation.pc # "none"]
                /\ UNCHANGED toCore
           ELSE \/ /\ m.handle \in vault
                   /\ operation' = [NoOperation EXCEPT !.pc = "preparing", !.kind = m.kind,
                                                       !.handle = m.handle]
                   /\ UNCHANGED toCore
                \/ Settle("error")
    /\ BridgeKeeps /\ UNCHANGED lapsedPosts

\* The audio in chunks, or the inputs read.
Prepared ==
    /\ OperationAt("preparing")
    /\ Proceeds("attempt") \/ Settle("error")
    /\ BridgeKeeps /\ UNCHANGED <<toElectron, lapsedPosts>>

\* Mutant: a retry relies on the authorization of the first attempt.
BeginAttemptTrusting ==
    /\ OperationAt("attempt")
    /\ IF operation.aborted THEN Settle("error")
       ELSE Proceeds(IF operation.attempt = 1 THEN "authorizing" ELSE "allowed")
    /\ BridgeKeeps /\ UNCHANGED <<toElectron, lapsedPosts>>

BeginAttempt ==
    /\ OperationAt("attempt")
    /\ IF operation.aborted THEN Settle("error") ELSE Proceeds("authorizing")
    /\ BridgeKeeps /\ UNCHANGED <<toElectron, lapsedPosts>>

\* The core validates, or is no longer listening.
Authorize ==
    /\ OperationAt("authorizing")
    /\ IF core # "up" THEN Settle("error")
       ELSE Proceeds(IF validateCloudAuthorization(operation.handle) THEN "allowed" ELSE "refused")
    /\ BridgeKeeps /\ UNCHANGED <<toElectron, lapsedPosts>>

Lapsed(handle) == grant # handle \/ handle \notin vault

\* The answer arrived: the vault still has the credential, and the request is sent.
Post ==
    /\ OperationAt("allowed") \/ OperationAt("refused")
    /\ IF operation.pc = "allowed" /\ operation.handle \in vault /\ ~operation.aborted
       THEN /\ Proceeds("posted")
            /\ lapsedPosts' = IF Lapsed(operation.handle)
                              THEN [lapsedPosts EXCEPT ![operation.handle] = @ + 1]
                              ELSE lapsedPosts
       ELSE Settle("error") /\ UNCHANGED lapsedPosts
    /\ BridgeKeeps /\ UNCHANGED toElectron

LastChunk == IF operation.kind = "speech" THEN Chunks ELSE 1

\* An answer that validates, one that does not, or a failure worth a retry.
PostEnds ==
    /\ OperationAt("posted")
    /\ \/ IF operation.chunk = LastChunk THEN Settle("result")
          ELSE /\ operation' = [operation EXCEPT !.pc = "attempt", !.chunk = @ + 1, !.attempt = 1]
               /\ UNCHANGED toCore
       \/ Settle("error")
       \/ /\ operation.attempt < MaxPosts
          /\ Proceeds("sleeping")
    /\ BridgeKeeps /\ UNCHANGED <<toElectron, lapsedPosts>>

Wake ==
    /\ OperationAt("sleeping")
    /\ IF operation.aborted THEN Settle("error")
       ELSE /\ operation' = [operation EXCEPT !.pc = "attempt", !.attempt = @ + 1]
            /\ UNCHANGED toCore
    /\ BridgeKeeps /\ UNCHANGED <<toElectron, lapsedPosts>>

BridgeStep == \/ ReceiveMessage \/ Prepared \/ BeginAttempt \/ Authorize
              \/ Post \/ PostEnds \/ Wake
-----------------------------------------------------------------------------
(***************************************************************************)
(* Credentials and authorizations                                          *)
(***************************************************************************)

CredentialsKeep == UNCHANGED <<core, electron, task, toElectron, toCore, operation, episode>>

Grant(h) ==
    /\ electron /\ core = "up"
    /\ h \in active /\ spent.grants < MaxGrants
    /\ grant' = h /\ lapsedPosts' = [lapsedPosts EXCEPT ![h] = 0]
    /\ spent' = [spent EXCEPT !.grants = @ + 1]
    /\ CredentialsKeep /\ UNCHANGED <<active, vault, desktopCalls>>

Revoke ==
    /\ electron /\ core = "up"
    /\ grant # NoHandle
    /\ grant' = NoHandle
    /\ CredentialsKeep /\ UNCHANGED <<active, vault, desktopCalls, spent, lapsedPosts>>

\* An existing credential is saved again: the handles are synchronized.
SaveCredential ==
    /\ electron /\ desktopCalls = {} /\ vault # {}
    /\ desktopCalls' = desktopCalls \cup {Synchronize(vault)}
    /\ CredentialsKeep /\ UNCHANGED <<grant, active, vault, spent, lapsedPosts>>

RemoveCredential(h) ==
    /\ electron /\ h \in vault
    /\ \A call \in desktopCalls : call.what = "synchronize"
    /\ desktopCalls' = desktopCalls \cup {Removal("remove", h)}
    /\ CredentialsKeep /\ UNCHANGED <<grant, active, vault, spent, lapsedPosts>>

\* synchronizeCredentialHandles, removeCredentialHandle; without a listening
\* core the call fails.
ServeCall(call) ==
    /\ call.what # "removed"
    /\ desktopCalls' = (desktopCalls \ {call}) \cup
                (IF core = "up" /\ call.what = "remove"
                 THEN {[call EXCEPT !.what = "removed"]} ELSE {})
    /\ active' = IF core # "up" THEN active
                 ELSE IF call.what = "synchronize" THEN call.handles ELSE active \ call.handles
    /\ grant' = IF core = "up" /\ call.what = "remove" /\ grant \in call.handles
                THEN NoHandle ELSE grant
    /\ CredentialsKeep /\ UNCHANGED <<vault, spent, lapsedPosts>>

\* credentials:remove, after its await.
RemoveProtected(call) ==
    /\ call.what = "removed"
    /\ desktopCalls' = desktopCalls \ {call}
    /\ vault' = vault \ call.handles
    /\ CredentialsKeep /\ UNCHANGED <<grant, active, spent, lapsedPosts>>
-----------------------------------------------------------------------------
(***************************************************************************)
(* The Episode, and the ends of the processes                              *)
(***************************************************************************)

EpisodeKeeps == UNCHANGED <<core, electron, task, grant, active, vault, desktopCalls, toElectron,
                            toCore, operation, spent, lapsedPosts>>

\* updateAcceptedTranscript
EditTranscript ==
    /\ core = "up" /\ ~episode.missing /\ episode.transcript < MaxTranscripts
    /\ episode' = Transcribed
    /\ EpisodeKeeps

SourceChanges ==
    /\ core = "up"
    /\ episode' = [episode EXCEPT !.missing = ~@]
    /\ EpisodeKeeps

\* Electron quits, and tells the core to stop, or dies.
ElectronEnds ==
    /\ electron /\ spent.ends < MaxEnds
    /\ electron' = FALSE
    /\ core' \in {core, IF core = "up" THEN "stopping" ELSE core}
    /\ operation' = NoOperation /\ desktopCalls' = {} /\ toElectron' = <<>>
    /\ spent' = [spent EXCEPT !.ends = @ + 1]
    /\ UNCHANGED <<task, grant, active, vault, toCore, episode, lapsedPosts>>

CoreDown == core' = "down" /\ active' = {} /\ toCore' = <<>>

CoreDies ==
    /\ core # "down" /\ spent.ends < MaxEnds
    /\ CoreDown
    /\ spent' = [spent EXCEPT !.ends = @ + 1]
    /\ UNCHANGED <<electron, task, grant, vault, desktopCalls, toElectron, operation, episode, lapsedPosts>>

\* The shutdown awaits the handler, which nothing but an answer ends.
CoreStops ==
    /\ core = "stopping" /\ task.pc \in {"ended", "queued"}
    /\ CoreDown
    /\ UNCHANGED <<electron, task, grant, vault, desktopCalls, toElectron, operation, episode, spent,
                   lapsedPosts>>

\* recoverJobs: a cloud analysis is not run again.
RecoveredTask ==
    IF task.pc # "ended" /\ ~task.cancelled /\ ~IsOpenAi(task.kind)
    THEN [task EXCEPT !.pc = "queued"] ELSE Ended(task)

\* The application starts again, once its core is gone.
Restart ==
    /\ ~electron /\ core = "down"
    /\ electron' = TRUE /\ core' = "up"
    /\ task' = RecoveredTask
    /\ desktopCalls' = {Synchronize(vault)}
    /\ UNCHANGED <<grant, active, vault, toElectron, toCore, operation, episode, spent, lapsedPosts>>

CloudNext ==
    \/ \E kind \in AnalyzeKinds : Start(kind)
    \/ StartAgain \/ Sampled \/ WorkerSettles \/ CancelJob \/ CancelTimer \/ Receive
    \/ BridgeStep
    \/ \E h \in Handles : Grant(h) \/ RemoveCredential(h)
    \/ Revoke \/ SaveCredential
    \/ \E call \in desktopCalls : ServeCall(call) \/ RemoveProtected(call)
    \/ EditTranscript \/ SourceChanges
    \/ ElectronEnds \/ CoreDies \/ CoreStops \/ Restart

\* The event loops of both processes turn, and the worker and requests settle.
CoreStep == StartAgain \/ Sampled \/ WorkerSettles \/ Receive

CloudFairness == WF_cloudVars(CoreStep) /\ WF_cloudVars(BridgeStep)

CloudSpec == CloudInit /\ [][CloudNext]_cloudVars /\ CloudFairness
-----------------------------------------------------------------------------
(***************************************************************************)
(* Once an authorization lapses, revoked by hand, with its credential or   *)
(* by the grant of another, at most the one request that was being sent    *)
(* under it still leaves the computer, however many chunks and retries     *)
(* were to come, until the credential is granted again.                    *)
(***************************************************************************)
RevocationStopsUploads == \A h \in Handles : lapsedPosts[h] <= 1

(***************************************************************************)
(* An analyze job that runs ends, or the application it depends on has     *)
(* ended: no answer, refusal or cancellation leaves the handler waiting.   *)
(***************************************************************************)
CloudJobsSettle == HandlerRuns ~> (~HandlerRuns \/ ~electron)

(***************************************************************************)
(* SPEC.md: an edit of the transcript invalidates the analyses that depend *)
(* on it, so the active ones are of the accepted transcript.               *)
(***************************************************************************)
ActiveAnalysisIsCurrent == episode.analyses \subseteq {episode.transcript}
=============================================================================
