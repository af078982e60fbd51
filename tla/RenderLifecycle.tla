--------------------------- MODULE RenderLifecycle ---------------------------
(***************************************************************************)
(* From an edited Short to a published schedule entry: the Short's         *)
(* revision and approval, the preflight bound to one revision, the Render  *)
(* attempts and the job each one is paired with, the renderer that runs    *)
(* one of them at a time across many awaits, and the schedule entries that *)
(* point at finished Renders.  Clients edit, approve, cancel, retry and    *)
(* schedule at any moment, the process crashes at any moment, and the      *)
(* restart reconciles artifacts and jobs in two separate transactions.     *)
(*                                                                         *)
(* Sources: repository.ts (Shorts, Renders, preflights, entries, recovery),*)
(* render.ts (the render handler), render-preflight.ts, jobs.ts (cancel    *)
(* and the runner, on render jobs), service.ts (schedule).                 *)
(*                                                                         *)
(* One action is one transaction, or one stretch of code between awaits.   *)
(* Every write of a client carries the revision it read and is refused     *)
(* without effect if that is not the current one, so an action happens at  *)
(* the current revision.  Content, paths and instants are left out; which  *)
(* claimed job is next is the subject of JobQueue.                         *)
(***************************************************************************)
EXTENDS Naturals, FiniteSets

CONSTANTS
    Shorts, Episodes,
    EpisodeOf,          \* [Shorts -> Episodes]
    Renders,            \* identifiers of Render attempts, and of their jobs
    None,               \* no Render
    MaxRevision,        \* bound: revisions of a Short
    MaxEntryRevision,   \* bound: revisions of an entry by moves and relinks
    MaxCrashes          \* bound: crashes of the core process

MaxAttempts == 3        \* per lineage (retryRenderAttempt), per job (recoverJobs)

ASSUME EpisodeOfAssumption == EpisodeOf \in [Shorts -> Episodes]
ASSUME NoneAssumption      == None \notin Renders
ASSUME BoundsAssumption    ==
    MaxRevision \in Nat /\ MaxEntryRevision \in Nat /\ MaxCrashes \in Nat

VARIABLES
    shorts,         \* short_projects
    lastAffecting,  \* history: the revision made by the last change that
                    \* affects pixels or audio; no code reads it
    missing,        \* episodes.missing
    unrelinked,     \* history: the Renders whose Episode was not relinked to
                    \* other content since they succeeded
    uncleaned,      \* history: the attempts whose files could not be removed
    checking,       \* preflights between their reads and their insert
    preflights,     \* render_preflights that passed
    renders,        \* renders
    jobs,           \* the jobs row paired with each Render
    worker,         \* the render handler the runner awaits
    entries,        \* schedule_entries; a Short has at most one
    mode,           \* "up", "crashed", "reconciled" (half restarted)
    crashes

vars == <<shorts, lastAffecting, missing, unrelinked, uncleaned, checking, preflights,
          renders, jobs, worker, entries, mode, crashes>>

attemptVars == <<unrelinked, uncleaned>>
shortVars   == <<shorts, lastAffecting, missing, attemptVars>>
preVars     == <<checking, preflights>>
processVars == <<mode, crashes>>

RenderStates == {"absent", "queued", "running",
                 "succeeded", "failed", "cancelled", "stale"}
JobStates    == {"absent", "queued", "running", "succeeded", "failed", "cancelled"}
Phases       == {"idle", "encoding", "finalizing", "returned", "threw"}

Binding  == [short : Shorts, revision : Nat]
ShortRow == [revision : Nat, approved : BOOLEAN, copyAccepted : BOOLEAN]
Render   == [state    : RenderStates,
             short    : Shorts \cup {None},
             revision : Nat,
             lineage  : Renders \cup {None},
             attempt  : Nat]
Job      == [state : JobStates, cancelRequested : BOOLEAN, attempts : Nat]
Entry    == [status        : {"none", "draft", "planned", "published"},
             render        : Renders \cup {None},
             needsRerender : BOOLEAN,
             revision      : Nat]

NoRenderRow == [state |-> "absent", short |-> None, revision |-> 0,
                lineage |-> None, attempt |-> 0]
NoJob       == [state |-> "absent", cancelRequested |-> FALSE, attempts |-> 0]
NoEntry     == [status |-> "none", render |-> None, needsRerender |-> FALSE,
                revision |-> 0]
IdleWorker  == [render |-> None, phase |-> "idle"]

Up == mode = "up"

OpenEntry(s) == entries[s].status \in {"draft", "planned"}
JobActive(r) == jobs[r].state \in {"queued", "running"}

\* createShort: revision 1, not approved, copy accepted or only proposed.
Init ==
    /\ \E accepted \in [Shorts -> BOOLEAN] :
         shorts = [s \in Shorts |-> [revision |-> 1, approved |-> FALSE,
                                     copyAccepted |-> accepted[s]]]
    /\ lastAffecting = [s \in Shorts |-> 1]
    /\ missing = [e \in Episodes |-> FALSE]
    /\ unrelinked = {}
    /\ uncleaned = {}
    /\ checking = {}
    /\ preflights = {}
    /\ renders = [r \in Renders |-> NoRenderRow]
    /\ jobs = [r \in Renders |-> NoJob]
    /\ worker = IdleWorker
    /\ entries = [s \in Shorts |-> NoEntry]
    /\ mode = "up"
    /\ crashes = 0
-----------------------------------------------------------------------------
(***************************************************************************)
(* Editing and approving a Short.                                          *)
(***************************************************************************)

\* UPDATE renders SET state='stale' WHERE id IN R AND state='succeeded'
StaleSucceeded(R) ==
    renders' = [r \in Renders |->
        IF r \in R /\ renders[r].state = "succeeded"
        THEN [renders[r] EXCEPT !.state = "stale"] ELSE renders[r]]

\* Mutant: only drafts are flagged.
FlagDrafts(S) ==
    entries' = [s \in Shorts |->
        IF s \in S /\ entries[s].status = "draft"
        THEN [entries[s] EXCEPT !.needsRerender = TRUE, !.revision = @ + 1]
        ELSE entries[s]]

\* UPDATE schedule_entries SET needs_rerender=1 ... AND status<>'published'
FlagEntries(S) ==
    entries' = [s \in Shorts |->
        IF s \in S /\ OpenEntry(s)
        THEN [entries[s] EXCEPT !.needsRerender = TRUE, !.revision = @ + 1]
        ELSE entries[s]]

RendersOf(S) == {r \in Renders : renders[r].short \in S}

\* A change to pixels or audio of every Short in S.
ReviseAffecting(S) ==
    /\ shorts' = [s \in Shorts |->
         IF s \in S THEN [shorts[s] EXCEPT !.approved = FALSE, !.revision = @ + 1]
         ELSE shorts[s]]
    /\ lastAffecting' = [s \in Shorts |->
         IF s \in S THEN shorts[s].revision + 1 ELSE lastAffecting[s]]

\* updateShort with a composition, captions or audio patch.
UpdateShort(s) ==
    /\ Up
    /\ shorts[s].revision < MaxRevision
    /\ ReviseAffecting({s})
    /\ StaleSucceeded({r \in RendersOf({s}) :
                          renders[r].revision # shorts[s].revision + 1})
    /\ FlagEntries({s})
    /\ UNCHANGED <<missing, attemptVars, preVars, jobs, worker, processVars>>

\* updateShort with a copy patch: nothing that reaches the output changes.
UpdateShortCopy(s) ==
    /\ Up
    /\ shorts[s].revision < MaxRevision
    /\ shorts' = [shorts EXCEPT ![s].revision = @ + 1, ![s].copyAccepted = TRUE]
    /\ UNCHANGED <<lastAffecting, missing, attemptVars, preVars, renders, jobs,
                   worker, entries, processVars>>

UpdateShortTimeline(s) ==
    /\ Up
    /\ shorts[s].revision < MaxRevision
    /\ ~missing[EpisodeOf[s]]
    /\ ReviseAffecting({s})
    /\ StaleSucceeded(RendersOf({s}))
    /\ FlagEntries({s})
    /\ UNCHANGED <<missing, attemptVars, preVars, jobs, worker, processVars>>

\* updateShortCaptions and updateShortAudio write the same columns.
UpdateShortTrack(s) ==
    /\ Up
    /\ shorts[s].revision < MaxRevision
    /\ ReviseAffecting({s})
    /\ StaleSucceeded({r \in RendersOf({s}) :
                          renders[r].revision < shorts[s].revision + 1})
    /\ FlagEntries({s})
    /\ UNCHANGED <<missing, attemptVars, preVars, jobs, worker, processVars>>

ShortsOf(e) == {s \in Shorts : EpisodeOf[s] = e}

\* acceptTranscriptRevision, on the Shorts of the Episode.
AcceptTranscriptRevision(e) ==
    /\ Up
    /\ ~missing[e]
    /\ \A s \in ShortsOf(e) : shorts[s].revision < MaxRevision
    /\ ReviseAffecting(ShortsOf(e))
    /\ StaleSucceeded(RendersOf(ShortsOf(e)))
    /\ FlagEntries(ShortsOf(e))
    /\ UNCHANGED <<missing, attemptVars, preVars, jobs, worker, processVars>>

ApproveShort(s) ==
    /\ Up
    /\ shorts[s].revision < MaxRevision
    /\ ~shorts[s].approved
    /\ shorts[s].copyAccepted
    /\ ~missing[EpisodeOf[s]]
    /\ shorts' = [shorts EXCEPT ![s].approved = TRUE, ![s].revision = @ + 1]
    /\ UNCHANGED <<lastAffecting, missing, attemptVars, preVars, renders, jobs,
                   worker, entries, processVars>>

MarkEpisodeSourceMissing(e) ==
    /\ Up
    /\ ~missing[e]
    /\ missing' = [missing EXCEPT ![e] = TRUE]
    /\ UNCHANGED <<shorts, lastAffecting, attemptVars, preVars, renders, jobs,
                   worker, entries, processVars>>

\* restoreEpisodeAtCurrentPath, and a relink to the same verified content.
RestoreEpisode(e) ==
    /\ Up
    /\ missing[e]
    /\ missing' = [missing EXCEPT ![e] = FALSE]
    /\ UNCHANGED <<shorts, lastAffecting, attemptVars, preVars, renders, jobs,
                   worker, entries, processVars>>

\* commitEpisodeRelink with forceIndexing: a confirmed relink to other content.
\* It makes no revision of a Short and leaves a running Render alone.
RelinkOtherContent(e) ==
    /\ Up
    /\ missing[e]
    /\ \A s \in ShortsOf(e) : entries[s].revision < MaxEntryRevision
    /\ missing' = [missing EXCEPT ![e] = FALSE]
    /\ unrelinked' = unrelinked \ RendersOf(ShortsOf(e))
    /\ StaleSucceeded(RendersOf(ShortsOf(e)))
    /\ FlagEntries(ShortsOf(e))
    /\ UNCHANGED <<shorts, lastAffecting, uncleaned, preVars, jobs, worker, processVars>>
-----------------------------------------------------------------------------
(***************************************************************************)
(* Preflight, start, retry, cancel.                                        *)
(***************************************************************************)

Current(s) == [short |-> s, revision |-> shorts[s].revision]

\* preflight reads the Short and the Episode, then awaits inspections.  Only
\* a preflight that has nothing against it so far matters: a failed row lets
\* no Render start.
BeginPreflight(s) ==
    /\ Up
    /\ shorts[s].approved
    /\ ~missing[EpisodeOf[s]]
    /\ checking' = checking \cup {Current(s)}
    /\ UNCHANGED <<shortVars, preflights, renders, jobs, worker, entries, processVars>>

\* The inspections end: a finding makes it a failed row, a changed revision
\* makes insertRenderPreflight throw, otherwise the passing row is stored.
EndPreflight(p, passed) ==
    /\ Up
    /\ p \in checking
    /\ checking' = checking \ {p}
    /\ preflights' = IF passed /\ shorts[p.short].revision = p.revision
                     THEN preflights \cup {p} ELSE preflights
    /\ UNCHANGED <<shortVars, renders, jobs, worker, entries, processVars>>

InsertAttempt(r, row) ==
    /\ renders[r].state = "absent"
    /\ renders' = [renders EXCEPT ![r] = row]
    /\ jobs' = [jobs EXCEPT ![r] = [NoJob EXCEPT !.state = "queued"]]
    /\ UNCHANGED <<shortVars, preVars, worker, entries, processVars>>

StartRenderAttempt(r, s) ==
    /\ Up
    /\ shorts[s].approved
    /\ Current(s) \in preflights
    /\ InsertAttempt(r,
         [state |-> "queued", short |-> s, revision |-> shorts[s].revision,
          lineage |-> r, attempt |-> 1])

Lineage(r) == {q \in Renders : renders[q].state # "absent"
                               /\ renders[q].lineage = renders[r].lineage}

\* Mutant: what was made can be made once more.
MayRetryFinished(source) ==
    /\ renders[source].state \in {"failed", "cancelled", "succeeded"}
    /\ shorts[renders[source].short].revision = renders[source].revision
    /\ shorts[renders[source].short].approved
    /\ \A q \in Lineage(source) : renders[q].attempt <= renders[source].attempt
    /\ Cardinality(Lineage(source)) < MaxAttempts

MayRetry(source) ==
    /\ renders[source].state \in {"failed", "cancelled"}
    /\ shorts[renders[source].short].revision = renders[source].revision
    /\ shorts[renders[source].short].approved
    /\ \A q \in Lineage(source) : renders[q].attempt <= renders[source].attempt
    /\ Cardinality(Lineage(source)) < MaxAttempts
    /\ renders[source].attempt < MaxAttempts

RetryRenderAttempt(r, source) ==
    /\ Up
    /\ MayRetry(source)
    /\ [short |-> renders[source].short, revision |-> renders[source].revision]
         \in preflights
    /\ InsertAttempt(r, [renders[source] EXCEPT
         !.state = "queued", !.attempt = @ + 1])

\* Mutant: cancelling a running job does not look at its Render.
CancelRunningAlways(r) ==
    /\ Up
    /\ jobs[r].state = "running"
    /\ jobs' = [jobs EXCEPT ![r].cancelRequested = TRUE]
    /\ UNCHANGED <<shortVars, preVars, renders, worker, entries, processVars>>

\* cancel on a running job, refused once the Render has succeeded.
CancelRunning(r) ==
    /\ Up
    /\ jobs[r].state = "running"
    /\ renders[r].state # "succeeded"
    /\ jobs' = [jobs EXCEPT ![r].cancelRequested = TRUE]
    /\ UNCHANGED <<shortVars, preVars, renders, worker, entries, processVars>>

\* Mutant: the Render of a cancelled queued job is left waiting.
CancelQueuedJobOnly(r) ==
    /\ Up
    /\ jobs[r].state = "queued"
    /\ jobs' = [jobs EXCEPT ![r].cancelRequested = TRUE, ![r].state = "cancelled"]
    /\ UNCHANGED <<shortVars, preVars, renders, worker, entries, processVars>>

\* cancel on a queued job takes the Render with it, or rolls back.
CancelQueued(r) ==
    /\ Up
    /\ jobs[r].state = "queued"
    /\ renders[r].state = "queued"
    /\ jobs' = [jobs EXCEPT ![r].cancelRequested = TRUE, ![r].state = "cancelled"]
    /\ renders' = [renders EXCEPT ![r].state = "cancelled"]
    /\ UNCHANGED <<shortVars, preVars, worker, entries, processVars>>
-----------------------------------------------------------------------------
(***************************************************************************)
(* The renderer: the runner claims a job and awaits render().              *)
(***************************************************************************)

\* claimNext takes queued jobs that nobody asked to cancel, one at a time.
Claimable(r) ==
    /\ Up
    /\ worker = IdleWorker
    /\ jobs[r].state = "queued"
    /\ ~jobs[r].cancelRequested

\* The claim and the transition of the Render to running are two transactions
\* of one synchronous stretch.
BeginRender(r) ==
    /\ Claimable(r)
    /\ jobs' = [jobs EXCEPT ![r].state = "running", ![r].attempts = @ + 1]
    /\ renders' = [renders EXCEPT ![r].state = IF @ = "queued" THEN "running" ELSE @]
    /\ worker' = [render |-> r,
                  phase |-> IF renders[r].state = "queued" THEN "encoding" ELSE "threw"]
    /\ UNCHANGED <<shortVars, preVars, entries, processVars>>

\* Only the death of the process separates the two.
CrashAfterClaim(r) ==
    /\ Claimable(r)
    /\ crashes < MaxCrashes
    /\ jobs' = [jobs EXCEPT ![r].state = "running", ![r].attempts = @ + 1]
    /\ checking' = {}
    /\ mode' = "crashed"
    /\ crashes' = crashes + 1
    /\ UNCHANGED <<shortVars, preflights, renders, worker, entries>>

\* How render() hands an error to the runner: swallowed after a cancellation.
Rethrown(r) == IF jobs[r].cancelRequested THEN "returned" ELSE "threw"

Rendering(r, phase) == Up /\ worker = [render |-> r, phase |-> phase]

\* The attempt ends with its Render in this state, whatever the reason.
EndAttempt(r, state, phase) ==
    /\ renders' = [renders EXCEPT ![r].state = state]
    /\ unrelinked' = IF state = "succeeded" THEN unrelinked \cup {r} ELSE unrelinked
    /\ worker' = [worker EXCEPT !.phase = phase]
    /\ UNCHANGED <<shorts, lastAffecting, missing, uncleaned, preVars, jobs, entries, processVars>>

\* A file of the attempt cannot be removed, and render() throws that error.
LeaveUncleaned(r) ==
    /\ uncleaned' = uncleaned \cup {r}
    /\ worker' = [worker EXCEPT !.phase = "threw"]
    /\ UNCHANGED <<shorts, lastAffecting, missing, unrelinked, preVars, renders, jobs,
                   entries, processVars>>

\* Any await of render() may fail: a captured file or dependency that changed,
\* ffmpeg, validation, the disk, or a cancellation noticed at a checkpoint.
AbortRender(r) ==
    /\ Rendering(r, "encoding") \/ Rendering(r, "finalizing")
    /\ renders[r].state = "running"
    /\ EndAttempt(r, IF jobs[r].cancelRequested THEN "cancelled" ELSE "failed",
                  Rethrown(r))

\* The catch discards the artifacts before it settles the Render, so an error
\* in it leaves the Render running.
AbortFails(r) ==
    /\ Rendering(r, "encoding") \/ Rendering(r, "finalizing")
    /\ renders[r].state = "running"
    /\ LeaveUncleaned(r)

\* The awaited rm of the finally fails, though the Render has its verdict.
CleanUpFails(r) ==
    /\ Rendering(r, "returned")
    /\ LeaveUncleaned(r)

BoundRevisionHolds(r) ==
    /\ shorts[renders[r].short].revision = renders[r].revision
    /\ shorts[renders[r].short].approved

\* After encoding: stop early if the Short has moved on.
DiscardOutdated(r) ==
    /\ Rendering(r, "encoding")
    /\ renders[r].state = "running"
    /\ ~BoundRevisionHolds(r)
    /\ EndAttempt(r, "stale", Rethrown(r))

FinalizeArtifacts(r) ==
    /\ Rendering(r, "encoding")
    /\ BoundRevisionHolds(r)
    /\ worker' = [worker EXCEPT !.phase = "finalizing"]
    /\ UNCHANGED <<shortVars, preVars, renders, jobs, entries, processVars>>

\* An earlier success of the same decision snapshot is the baseline.
HasBaseline(r) ==
    \E q \in Renders \ {r} :
        /\ renders[q].state = "succeeded"
        /\ renders[q].short = renders[r].short
        /\ renders[q].revision = renders[r].revision

\* Mutant: the approved revision is not compared again at completion.
CompletedWithoutRecheck(r, matches) ==
    IF jobs[r].cancelRequested THEN "cancelled"
    ELSE IF HasBaseline(r) /\ ~matches THEN "failed"
    ELSE "succeeded"

\* completeRenderAttempt decides in one transaction.
CompletedState(r, matches) ==
    IF jobs[r].cancelRequested THEN "cancelled"
    ELSE IF ~BoundRevisionHolds(r) THEN "stale"
    ELSE IF HasBaseline(r) /\ ~matches THEN "failed"
    ELSE "succeeded"

CompleteRenderAttempt(r, matches) ==
    /\ Rendering(r, "finalizing")
    /\ renders[r].state = "running"
    /\ LET state == CompletedState(r, matches)
       IN  EndAttempt(r, state,
                      IF state = "succeeded" THEN "returned" ELSE Rethrown(r))

\* The runner's last read of the request, and its write over state='running'.
JobVerdict(r) ==
    IF jobs[r].cancelRequested
    THEN IF worker.phase = "returned" /\ renders[r].state = "succeeded"
         THEN "succeeded" ELSE "cancelled"
    ELSE IF worker.phase = "returned" THEN "succeeded" ELSE "failed"

FinishJob(r) ==
    /\ Rendering(r, "returned") \/ Rendering(r, "threw")
    /\ jobs' = [jobs EXCEPT ![r].state =
                  IF @ = "running" THEN JobVerdict(r) ELSE @]
    /\ worker' = IdleWorker
    /\ UNCHANGED <<shortVars, preVars, renders, entries, processVars>>
-----------------------------------------------------------------------------
(***************************************************************************)
(* The schedule.                                                           *)
(***************************************************************************)

\* The eligibility query of draftSchedule.
Eligible(s, r) ==
    /\ renders[r].state = "succeeded"
    /\ renders[r].short = s
    /\ renders[r].revision = shorts[s].revision
    /\ shorts[s].approved

DraftSchedule(s, r) ==
    /\ Up
    /\ entries[s].status = "none"
    /\ Eligible(s, r)
    /\ entries' = [entries EXCEPT ![s] =
         [status |-> "draft", render |-> r, needsRerender |-> FALSE, revision |-> 1]]
    /\ UNCHANGED <<shortVars, preVars, renders, jobs, worker, processVars>>

MoveScheduleEntry(s) ==
    /\ Up
    /\ OpenEntry(s)
    /\ entries[s].revision < MaxEntryRevision
    /\ entries' = [entries EXCEPT ![s].status = "planned", ![s].revision = @ + 1]
    /\ UNCHANGED <<shortVars, preVars, renders, jobs, worker, processVars>>

MarkPublished(s) ==
    /\ Up
    /\ OpenEntry(s)
    /\ ~entries[s].needsRerender
    /\ entries' = [entries EXCEPT ![s].status = "published", ![s].revision = @ + 1]
    /\ UNCHANGED <<shortVars, preVars, renders, jobs, worker, processVars>>
-----------------------------------------------------------------------------
(***************************************************************************)
(* Crash and restart.                                                      *)
(***************************************************************************)

Crash ==
    /\ mode \in {"up", "reconciled"}
    /\ crashes < MaxCrashes
    /\ checking' = {}
    /\ worker' = IdleWorker
    /\ mode' = "crashed"
    /\ crashes' = crashes + 1
    /\ UNCHANGED <<shortVars, preflights, renders, jobs, entries>>

\* reconcileRenderArtifacts: successes whose file is gone or damaged.
ReconcileRenderArtifacts(corrupt) ==
    /\ mode = "crashed"
    /\ \A r \in corrupt : renders[r].state = "succeeded"
    /\ renders' = [r \in Renders |->
         IF r \in corrupt THEN [renders[r] EXCEPT !.state = "failed"] ELSE renders[r]]
    /\ entries' = [s \in Shorts |->
         IF OpenEntry(s) /\ entries[s].render \in corrupt
         THEN [entries[s] EXCEPT !.needsRerender = TRUE] ELSE entries[s]]
    /\ mode' = "reconciled"
    /\ UNCHANGED <<shortVars, preVars, jobs, worker, crashes>>

\* Mutant: only the job of an interrupted pair is failed.
RecoveredRenderKept(r) ==
    IF ~JobActive(r) \/ renders[r].state \notin {"queued", "running"} THEN renders[r].state
    ELSE IF jobs[r].cancelRequested THEN "cancelled"
    ELSE renders[r].state

\* recoverJobs, on the Render of a pair ...
RecoveredRender(r) ==
    IF ~JobActive(r) \/ renders[r].state \notin {"queued", "running"} THEN renders[r].state
    ELSE IF jobs[r].cancelRequested THEN "cancelled"
    ELSE IF renders[r].state = "running" THEN "failed"
    ELSE IF jobs[r].state = "running" /\ jobs[r].attempts >= MaxAttempts THEN "failed"
    ELSE renders[r].state

\* Mutant: a claim that was interrupted is always repeated.
RecoveredJobUnbounded(r) ==
    IF ~JobActive(r) THEN jobs[r].state
    ELSE IF jobs[r].cancelRequested THEN "cancelled"
    ELSE CASE renders[r].state = "succeeded" -> "succeeded"
           [] renders[r].state = "cancelled" -> "cancelled"
           [] renders[r].state \in {"failed", "stale", "running", "absent"} -> "failed"
           [] renders[r].state = "queued" -> "queued"

\* ... and on its job.
RecoveredJob(r) ==
    IF ~JobActive(r) THEN jobs[r].state
    ELSE IF jobs[r].cancelRequested THEN "cancelled"
    ELSE CASE renders[r].state = "succeeded" -> "succeeded"
           [] renders[r].state = "cancelled" -> "cancelled"
           [] renders[r].state \in {"failed", "stale", "running"} -> "failed"
           [] renders[r].state = "absent" -> "failed"
           [] renders[r].state = "queued" ->
                IF jobs[r].state = "running" /\ jobs[r].attempts >= MaxAttempts
                THEN "failed" ELSE "queued"

RecoverJobs ==
    /\ mode = "reconciled"
    /\ renders' = [r \in Renders |-> [renders[r] EXCEPT !.state = RecoveredRender(r)]]
    /\ jobs' = [r \in Renders |-> [jobs[r] EXCEPT !.state = RecoveredJob(r)]]
    /\ mode' = "up"
    /\ UNCHANGED <<shortVars, preVars, worker, entries, crashes>>
-----------------------------------------------------------------------------
EditStep ==
    \/ \E s \in Shorts :
          \/ UpdateShort(s)
          \/ UpdateShortCopy(s)
          \/ UpdateShortTimeline(s)
          \/ UpdateShortTrack(s)
          \/ ApproveShort(s)
    \/ \E e \in Episodes :
          \/ AcceptTranscriptRevision(e)
          \/ MarkEpisodeSourceMissing(e)
          \/ RestoreEpisode(e)
          \/ RelinkOtherContent(e)

RequestStep ==
    \/ \E s \in Shorts : BeginPreflight(s)
    \/ \E p \in checking, passed \in BOOLEAN : EndPreflight(p, passed)
    \/ \E r \in Renders, s \in Shorts : StartRenderAttempt(r, s)
    \/ \E r, source \in Renders : RetryRenderAttempt(r, source)
    \/ \E r \in Renders : CancelQueued(r) \/ CancelRunning(r)

HandlerStep(r) ==
    \/ AbortRender(r) \/ AbortFails(r)
    \/ DiscardOutdated(r)
    \/ FinalizeArtifacts(r)
    \/ \E matches \in BOOLEAN : CompleteRenderAttempt(r, matches)
    \/ CleanUpFails(r)
    \/ FinishJob(r)

ScheduleStep ==
    \/ \E s \in Shorts, r \in Renders : DraftSchedule(s, r)
    \/ \E s \in Shorts : MoveScheduleEntry(s) \/ MarkPublished(s)

Restart == (\E corrupt \in SUBSET Renders : ReconcileRenderArtifacts(corrupt))
           \/ RecoverJobs

Next ==
    \/ EditStep
    \/ RequestStep
    \/ \E r \in Renders : BeginRender(r) \/ HandlerStep(r)
    \/ ScheduleStep
    \/ Crash
    \/ \E r \in Renders : CrashAfterClaim(r)
    \/ Restart

Spec == Init /\ [][Next]_vars

(***************************************************************************)
(* The runner keeps ticking, every await of the handler settles (children  *)
(* are killed and requests time out), and the application is started again *)
(* after a crash.  Clients are not fair.                                   *)
(***************************************************************************)
Fairness ==
    /\ WF_vars(\E r \in Renders : BeginRender(r))
    /\ WF_vars(\E r \in Renders : HandlerStep(r))
    /\ WF_vars(Restart)

FairSpec == Spec /\ Fairness
-----------------------------------------------------------------------------
(***************************************************************************)
(* Properties                                                              *)
(***************************************************************************)

\* The type invariant of the module.
TypeOK ==
    /\ shorts \in [Shorts -> ShortRow]
    /\ lastAffecting \in [Shorts -> Nat]
    /\ missing \in [Episodes -> BOOLEAN]
    /\ unrelinked \subseteq Renders /\ uncleaned \subseteq Renders
    /\ checking \in SUBSET Binding
    /\ preflights \in SUBSET Binding
    /\ renders \in [Renders -> Render]
    /\ jobs \in [Renders -> Job]
    /\ worker \in [render : Renders \cup {None}, phase : Phases]
    /\ entries \in [Shorts -> Entry]
    /\ mode \in {"up", "crashed", "reconciled"}
    /\ crashes \in 0 .. MaxCrashes

\* The output of a success is that of its Short: nothing that affects pixels or
\* audio has changed since its revision, and the Episode was not relinked to
\* other content since it succeeded.
ShowsCurrent(r) ==
    lastAffecting[renders[r].short] <= renders[r].revision /\ r \in unrelinked

\* An entry that may be published points at a successful Render of its own
\* Short, and every edit and transcript since its revision, every damaged
\* artifact, and every relink since its success has reached either the Render
\* or the entry's flag.  A relink that is committed between the preflight of a
\* Render and its success is not among them: it makes no revision, the checks
\* of render() read the captured file at its old path, and completion compares
\* the revision only, so the old content can succeed unflagged.
PublishableIsCurrent ==
    \A s \in Shorts : OpenEntry(s) /\ ~entries[s].needsRerender =>
        LET r == entries[s].render
        IN  /\ r \in Renders
            /\ renders[r].state = "succeeded"
            /\ renders[r].short = s
            /\ ShowsCurrent(r)

\* A successful Render is never older than the last edit of its output, also
\* when the edit arrived while it was being made, and never older than a relink
\* to other content that came after it succeeded.
SuccessIsCurrent ==
    \A r \in Renders : renders[r].state = "succeeded" =>
        renders[r].short \in Shorts /\ ShowsCurrent(r)

\* Approval is a fact of the revision: a Render bound to the revision a Short
\* has now was started from, and stays, an approved revision.
BoundRevisionsAreApproved ==
    \A r \in Renders : renders[r].state # "absent" =>
        LET s == renders[r].short
        IN  /\ s \in Shorts
            /\ renders[r].revision <= shorts[s].revision
            /\ renders[r].revision = shorts[s].revision => shorts[s].approved

\* A Render and its job agree while the process lives: both wait, or the
\* runner is on both, or the job has its verdict.  A pair that disagrees would
\* be a Render queued for ever or a job that hides a running ffmpeg.  Only the
\* Render whose catch failed stays running behind the verdict of its job.
PairAgreement ==
    Up => \A r \in Renders :
        /\ renders[r].state = "queued" <=> jobs[r].state = "queued"
        /\ renders[r].state = "running" /\ r \notin uncleaned <=>
               worker.render = r /\ worker.phase \in {"encoding", "finalizing"}
        /\ jobs[r].state = "running" <=> worker.render = r

\* No false success: a successful Render was not cancelled at any time before
\* or after, and its job has succeeded or is about to, unless the clean-up of
\* the attempt failed: then its job can fail beside it.
SuccessIsNotCancelled ==
    \A r \in Renders : renders[r].state = "succeeded" =>
        /\ ~jobs[r].cancelRequested
        /\ \/ jobs[r].state \in {"running", "succeeded"}
           \/ jobs[r].state = "failed" /\ r \in uncleaned

\* The attempts of a lineage are a bounded chain: they differ in number, there
\* are at most three, and all but the newest have failed or were cancelled, so
\* no retry runs beside, or after, an attempt that may still be used.
LineageIsAChain ==
    \A q, r \in Renders :
        /\ q # r
        /\ renders[q].state # "absent" /\ renders[r].state # "absent"
        /\ renders[q].lineage = renders[r].lineage
        /\ renders[q].attempt <= renders[r].attempt
        => /\ renders[q].attempt < renders[r].attempt
           /\ renders[r].attempt <= MaxAttempts
           /\ renders[q].state \in {"failed", "cancelled"}

\* A published entry is a record of what was uploaded: no edit, relink,
\* transcript, damaged file, crash or restart touches it again.
PublishedIsFrozen ==
    [][\A s \in Shorts : entries[s].status = "published" =>
           entries'[s] = entries[s]]_vars

\* What a Render attempt came to is final: failed, cancelled and stale stay,
\* and a success can only be withdrawn, as stale or as failed.
VerdictsAreFinal ==
    [][\A r \in Renders :
          /\ renders[r].state \in {"failed", "cancelled", "stale"} =>
                 renders'[r].state = renders[r].state
          /\ renders[r].state = "succeeded" =>
                 renders'[r].state \in {"succeeded", "failed", "stale"}]_vars

\* What JobContract sees of the job of a Render.
Seen(row) == [state  |-> row.state,
              cancel |-> row.cancelRequested,
              runs   |-> row.attempts,
              budget |-> IF row.state = "absent" THEN 0 ELSE MaxAttempts]

Contract == INSTANCE JobContract WITH
    Jobs <- Renders, MaxBudget <- MaxAttempts,
    job <- [r \in Renders |-> Seen(jobs[r])]

\* The job of a Render is a job of JobContract: it runs at most three times,
\* not after a cancellation, and settles once, with the verdict "cancelled"
\* exactly when a cancellation was requested in time.
ImplementsContract == Contract!Spec

\* No infinite queued states: every attempt that was started comes to an end,
\* but for one whose catch failed while the process went on: its Render stays
\* running, since the recovery looks only at Renders of active jobs.
AttemptsEnd ==
    \A r \in Renders :
        renders[r].state \in {"queued", "running"} ~>
        renders[r].state \notin {"queued", "running"} \/ r \in uncleaned

\* The documented revision rule (SPEC.md, 5.3), on schedule entries: every
\* change of an entry increments its revision, exactly once.
EveryChangeIsARevision ==
    [][\A s \in Shorts : entries'[s] # entries[s] =>
           entries'[s].revision = entries[s].revision + 1]_vars
=============================================================================
