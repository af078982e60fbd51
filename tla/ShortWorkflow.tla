---------------------------- MODULE ShortWorkflow ----------------------------
(***************************************************************************)
(* The MP4-to-Short workflow (short-workflows.ts): one persistent row that *)
(* advance() carries from the import to the exported file, one state at a  *)
(* time, while its user approves, retries or cancels, the jobs it started  *)
(* run on their own, its Short is edited and the process dies.             *)
(*                                                                         *)
(* JavaScript runs one segment between two awaits without interruption:    *)
(* in the phases "sync" and "write" only advance() or a crash can follow.  *)
(* The row's revision is abstracted to what assertRevision tells apart:    *)
(* whether the row is still the one that was read (at.current).  A request *)
(* with an old expectedRevision changes nothing and is not modelled.       *)
(***************************************************************************)
EXTENDS Integers, Sequences, FiniteSets

CONSTANTS MaxEdits,         \* of the Short, by its editor
          MaxRetries,       \* by the user
          MaxDeaths         \* of the process

VARIABLES
    input,      \* the request: review first?  export at the end?
    wf,         \* the row of short_workflows
    at,         \* where advance() is, and the row it is about to write
    transcript, \* whether the Episode has an accepted transcript
    analyses,   \* the states of the Episode's analysis jobs
    short,      \* the Short, revision 0 before it exists
    renders,    \* its attempts, each with its job
    files,      \* per attempt, the exported file
    left        \* edits, retries and deaths still allowed

workflowVars == <<input, wf, at, transcript, analyses, short, renders, files, left>>
dataVars     == <<transcript, analyses, short, renders, files>>

Stages      == {"importing", "analyzing", "selecting_candidate", "assembling_draft",
                "awaiting_review", "preflighting", "rendering", "exporting"}
FinalStates == {"failed", "cancelled", "completed"}
Reached     == {"nothing", "episode", "candidate", "short"}

\* "cancelling": running, with cancel_requested set.
Pending   == {"queued", "running"}
Live      == Pending \cup {"cancelling"}
JobStates == Live \cup {"succeeded", "failed", "cancelled", "stale"}

\* 0 stands for null: no job, no attempt, no preflight, no failure stage.
NewRow == [state |-> "importing", failedAt |-> "none", retryable |-> FALSE,
           reached |-> "nothing", job |-> 0, preflight |-> 0, render |-> 0]

Idle == [phase |-> "idle", current |-> TRUE, todo |-> NewRow]

WorkflowInit ==
    /\ input \in [review : BOOLEAN, export : BOOLEAN]
    /\ wf = NewRow
    /\ at = Idle
    /\ transcript \in BOOLEAN
    /\ analyses \in {<<>>, <<"queued">>}
    /\ short = [revision |-> 0, approved |-> FALSE]
    /\ renders = <<>>
    /\ files = <<>>
    /\ left = [edits |-> MaxEdits, retries |-> MaxRetries, deaths |-> MaxDeaths]

WorkflowActive == wf.state \in Stages
Interruptible  == at.phase \notin {"sync", "write"}
-----------------------------------------------------------------------------
(***************************************************************************)
(* advance                                                                 *)
(***************************************************************************)

Reads(state) == at.phase = "sync" /\ wf.state = state

\* update() with the row that was read; until it commits a crash loses it.
Writes(row) == at' = [at EXCEPT !.phase = "write", !.todo = row]

Awaits(phase) == at' = [phase |-> phase, current |-> TRUE, todo |-> wf]

\* advanceSafely's catch: it reads the row again and leaves a settled one.
FailedWith(retryable) ==
    /\ at' = Idle
    /\ wf' = IF WorkflowActive
             THEN [wf EXCEPT !.state = "failed", !.failedAt = wf.state,
                             !.retryable = retryable]
             ELSE wf

\* Mutant: a job that did not succeed is still waited for.
WaitingForSuccess ==
    \/ wf.state \in FinalStates \cup {"awaiting_review"}
    \/ wf.state = "analyzing" /\ analyses[wf.job] # "succeeded"
    \/ wf.state = "rendering" /\ renders[wf.render].state \in Live

\* Where a pass returns: the workflow has ended, or waits for its user or a
\* job.  (The progress it then writes is a revision without effect.)
Waiting == \/ wf.state \in FinalStates \cup {"awaiting_review"}
           \/ wf.state = "analyzing" /\ analyses[wf.job] \in Live
           \/ wf.state = "rendering" /\ renders[wf.render].state \in Live

\* The timer and get() call advanceSafely, which the set "advancing" keeps
\* from running twice for one workflow.
Advance ==
    /\ at.phase = "idle"
    /\ ~Waiting
    /\ at' = [at EXCEPT !.phase = "sync", !.current = TRUE]
    /\ UNCHANGED <<input, wf, dataVars, left>>

Write ==
    /\ at.phase = "write"
    /\ IF at.current
       THEN wf' = at.todo /\ at' = [at EXCEPT !.phase = "sync"]
       ELSE FailedWith(FALSE)
    /\ UNCHANGED <<input, dataVars, left>>

Rest ==
    /\ at.phase = "sync"
    /\ Waiting
    /\ at' = Idle
    /\ UNCHANGED <<input, wf, dataVars, left>>

Import ==
    /\ Reads("importing")
    /\ Awaits("import")
    /\ UNCHANGED <<input, wf, dataVars, left>>

\* The import is back.  Without an accepted transcript a job of the Episode
\* that is still active is adopted, else one is queued.
ImportEnds ==
    /\ at.phase = "import"
    /\ LET active == {j \in DOMAIN analyses : analyses[j] \in Live}
           linked(j) == [at.todo EXCEPT !.state = "analyzing", !.reached = "episode", !.job = j]
       IN  \/ /\ transcript
              /\ Writes([at.todo EXCEPT !.state = "selecting_candidate", !.reached = "episode"])
              /\ UNCHANGED analyses
           \/ /\ ~transcript
              /\ \E j \in active : Writes(linked(j))
              /\ UNCHANGED analyses
           \/ /\ ~transcript
              /\ active = {}
              /\ analyses' = Append(analyses, "queued")
              /\ Writes(linked(Len(analyses) + 1))
    /\ UNCHANGED <<input, wf, transcript, short, renders, files, left>>

\* importPaths throws or rejects the file, or the source is gone.
ImportFails(retryable) ==
    /\ at.phase = "import"
    /\ FailedWith(retryable)
    /\ UNCHANGED <<input, dataVars, left>>

AnalysisEnded ==
    /\ Reads("analyzing")
    /\ \/ /\ analyses[wf.job] = "succeeded"
          /\ Writes([wf EXCEPT !.state = "selecting_candidate"])
          /\ UNCHANGED wf
       \/ /\ analyses[wf.job] \in {"failed", "cancelled"}
          /\ FailedWith(analyses[wf.job] = "failed")
    /\ UNCHANGED <<input, dataVars, left>>

\* generateCandidates, then the acceptance and review of the chosen one.
SelectCandidate ==
    /\ Reads("selecting_candidate")
    /\ Writes(IF wf.reached = "candidate"
              THEN [wf EXCEPT !.state = "assembling_draft"]
              ELSE [wf EXCEPT !.reached = "candidate"])
    /\ UNCHANGED <<input, wf, dataVars, left>>

NoCandidate ==
    /\ Reads("selecting_candidate")
    /\ FailedWith(FALSE)
    /\ UNCHANGED <<input, dataVars, left>>

\* The Short of the candidate is looked up before one is created.
AssembleDraft ==
    /\ Reads("assembling_draft")
    /\ short' = IF short.revision = 0 THEN [short EXCEPT !.revision = 1] ELSE short
    /\ Writes([wf EXCEPT !.reached = "short",
                         !.state = IF input.review THEN "awaiting_review" ELSE "preflighting"])
    /\ UNCHANGED <<input, wf, transcript, analyses, renders, files, left>>

\* preflighting approves whatever revision the Short has by now.
Approve ==
    /\ Reads("preflighting")
    /\ ~short.approved
    /\ short' = [revision |-> short.revision + 1, approved |-> TRUE]
    /\ UNCHANGED <<input, wf, at, transcript, analyses, renders, files, left>>

\* Mutant: only an attempt that has ended well is taken for the workflow's.
ReattachableEnded(r) ==
    /\ renders[r].revision = short.revision
    /\ renders[r].state = "succeeded"

Reattachable(r) ==
    /\ renders[r].revision = short.revision
    /\ renders[r].state \in Live \cup {"succeeded"}

Existing == {r \in DOMAIN renders : Reattachable(r)}

Reattach ==
    /\ Reads("preflighting") /\ short.approved
    /\ Existing # {}
    /\ LET r == CHOOSE q \in Existing : \A p \in Existing : p <= q
       IN  Writes([wf EXCEPT !.state = "rendering", !.render = r, !.preflight = renders[r].revision])
    /\ UNCHANGED <<input, wf, dataVars, left>>

BeginPreflight ==
    /\ Reads("preflighting") /\ short.approved
    /\ Existing = {} /\ wf.preflight = 0
    /\ at' = [phase |-> "preflight", current |-> TRUE,
              todo |-> [wf EXCEPT !.preflight = short.revision]]
    /\ UNCHANGED <<input, wf, dataVars, left>>

\* The row of a preflight is stored only while its revision is current.
PreflightEnds ==
    /\ at.phase = "preflight"
    /\ IF at.todo.preflight = short.revision
       THEN Writes(at.todo) /\ UNCHANGED wf
       ELSE FailedWith(FALSE)
    /\ UNCHANGED <<input, dataVars, left>>

PreflightFinds ==
    /\ at.phase = "preflight"
    /\ FailedWith(FALSE)
    /\ UNCHANGED <<input, dataVars, left>>

NewAttempt(lineage) ==
    [state |-> "queued", revision |-> short.revision, lineage |-> lineage, output |-> FALSE]

Queue(attempt) == /\ renders' = Append(renders, attempt)
                  /\ files' = Append(files, "none")

\* startRenderAttempt wants the preflight of the approved revision.
StartRender ==
    /\ Reads("preflighting") /\ short.approved
    /\ Existing = {} /\ wf.preflight # 0
    /\ IF wf.preflight = short.revision
       THEN /\ Queue(NewAttempt(Len(renders) + 1))
            /\ Writes([wf EXCEPT !.state = "rendering", !.render = Len(renders) + 1])
            /\ UNCHANGED wf
       ELSE FailedWith(FALSE) /\ UNCHANGED <<renders, files>>
    /\ UNCHANGED <<input, transcript, analyses, short, left>>

RenderEnded ==
    /\ Reads("rendering")
    /\ LET state == renders[wf.render].state
       IN  \/ /\ state = "succeeded"
              /\ Writes([wf EXCEPT !.state = IF input.export THEN "exporting" ELSE "completed"])
              /\ UNCHANGED wf
           \/ /\ state \in {"failed", "stale", "cancelled"}
              /\ FailedWith(state # "cancelled")
    /\ UNCHANGED <<input, dataVars, left>>

Export ==
    /\ Reads("exporting")
    /\ Awaits("lookup")
    /\ UNCHANGED <<input, wf, dataVars, left>>

\* A file with the Render's hash is the export of an earlier pass.
Exported(r) == files[r] = "whole"

Recovered ==
    /\ at.phase = "lookup"
    /\ Exported(at.todo.render)
    /\ Writes([at.todo EXCEPT !.state = "completed"])
    /\ UNCHANGED <<input, wf, dataVars, left>>

\* exportRender: only of a successful Render, and never over another file.
BeginCopy ==
    /\ at.phase = "lookup"
    /\ ~Exported(at.todo.render)
    /\ IF renders[at.todo.render].state = "succeeded" /\ files[at.todo.render] = "none"
       THEN /\ files' = [files EXCEPT ![at.todo.render] = "part"]
            /\ at' = [at EXCEPT !.phase = "copy"]
            /\ UNCHANGED wf
       ELSE FailedWith(FALSE) /\ UNCHANGED files
    /\ UNCHANGED <<input, transcript, analyses, short, renders, left>>

EndCopy ==
    /\ at.phase = "copy"
    /\ files' = [files EXCEPT ![at.todo.render] = "whole"]
    /\ Writes([at.todo EXCEPT !.state = "completed"])
    /\ UNCHANGED <<input, wf, transcript, analyses, short, renders, left>>

\* copyFile removes what it has written before it reports an error.
CopyFails ==
    /\ at.phase = "copy"
    /\ files' = [files EXCEPT ![at.todo.render] = "none"]
    /\ FailedWith(TRUE)
    /\ UNCHANGED <<input, transcript, analyses, short, renders, left>>

AdvanceStep ==
    \/ Advance \/ Write \/ Rest \/ Import \/ ImportEnds \/ AnalysisEnded
    \/ SelectCandidate \/ AssembleDraft \/ Approve \/ Reattach \/ BeginPreflight
    \/ PreflightEnds \/ StartRender \/ RenderEnded \/ Export \/ Recovered \/ BeginCopy
    \/ EndCopy

AdvanceFault == ImportFails(TRUE) \/ ImportFails(FALSE) \/ NoCandidate \/ PreflightFinds \/ CopyFails
-----------------------------------------------------------------------------
(***************************************************************************)
(* The user: approve_draft, retry, cancel.                                 *)
(***************************************************************************)

ApproveDraft ==
    /\ Interruptible /\ wf.state = "awaiting_review"
    /\ wf' = [wf EXCEPT !.state = "preflighting"]
    /\ at' = [at EXCEPT !.current = FALSE]
    /\ UNCHANGED <<input, dataVars, left>>

MayRetry == /\ at.phase = "idle"
            /\ wf.state = "failed" /\ wf.retryable
            /\ left.retries > 0
            /\ left' = [left EXCEPT !.retries = @ - 1]

Unfailed(row) == [row EXCEPT !.failedAt = "none", !.retryable = FALSE]

RendersAgain == wf.failedAt = "rendering"
                /\ renders[wf.render].state \in {"failed", "cancelled"}

\* retryRenderAttempt: the newest of at most three attempts, and the Short as
\* it was.  The row is written in a transaction of its own.
RetryRender ==
    /\ MayRetry
    /\ RendersAgain
    /\ LET source  == renders[wf.render]
           lineage == {r \in DOMAIN renders : renders[r].lineage = source.lineage}
       IN  /\ source.revision = short.revision /\ short.approved
           /\ \A r \in lineage : r <= wf.render
           /\ Cardinality(lineage) < 3
           /\ Queue(NewAttempt(source.lineage))
    /\ at' = [phase |-> "write", current |-> TRUE,
              todo |-> Unfailed([wf EXCEPT !.state = "rendering", !.render = Len(renders) + 1])]
    /\ UNCHANGED <<input, wf, transcript, analyses, short>>

RetryAnalysis ==
    /\ MayRetry
    /\ wf.failedAt = "analyzing"
    /\ analyses' = Append(analyses, "queued")
    /\ at' = [phase |-> "write", current |-> TRUE,
              todo |-> Unfailed([wf EXCEPT !.state = "analyzing", !.job = Len(analyses) + 1])]
    /\ UNCHANGED <<input, wf, transcript, short, renders, files>>

\* retryState
RetryState ==
    IF wf.failedAt = "exporting" THEN "exporting"
    ELSE CASE wf.reached = "short"     -> "preflighting"
           [] wf.reached = "candidate" -> "assembling_draft"
           [] wf.reached = "episode"   -> "selecting_candidate"
           [] OTHER                    -> "importing"

RetryStage ==
    /\ MayRetry
    /\ ~RendersAgain /\ wf.failedAt # "analyzing"
    /\ wf' = Unfailed([wf EXCEPT !.state = RetryState,
                                 !.preflight = IF wf.failedAt = "preflighting" THEN 0 ELSE @])
    /\ UNCHANGED <<input, at, dataVars>>

\* cancelJob: a queued job is over, a running one is asked to stop.
Cancelled(state) == CASE state = "queued" -> "cancelled"
                      [] state = "running" -> "cancelling"
                      [] OTHER -> state

CancelAnalysisJob(j) ==
    analyses' = IF j = 0 THEN analyses ELSE [analyses EXCEPT ![j] = Cancelled(@)]

\* Mutant: the Render's job goes on.
CancelNoRenderJob(r) == renders' = renders

CancelRenderJob(r) ==
    renders' = IF r = 0 THEN renders ELSE [renders EXCEPT ![r].state = Cancelled(@)]

Cancel ==
    /\ Interruptible /\ WorkflowActive
    /\ CancelAnalysisJob(wf.job) /\ CancelRenderJob(wf.render)
    /\ wf' = [wf EXCEPT !.state = "cancelled"]
    /\ at' = [at EXCEPT !.current = FALSE]
    /\ UNCHANGED <<input, transcript, short, files, left>>
-----------------------------------------------------------------------------
(***************************************************************************)
(* What the workflow meets: its jobs, an editor, an operator, a crash.     *)
(***************************************************************************)

AnalysisRuns ==
    /\ Interruptible
    /\ \E j \in DOMAIN analyses :
         \/ /\ analyses[j] = "queued"
            /\ analyses' = [analyses EXCEPT ![j] = "running"]
            /\ UNCHANGED transcript
         \/ /\ analyses[j] = "running"
            /\ \E verdict \in {"succeeded", "failed"} :
                 /\ analyses' = [analyses EXCEPT ![j] = verdict]
                 /\ transcript' = (transcript \/ verdict = "succeeded")
         \/ /\ analyses[j] = "cancelling"
            /\ analyses' = [analyses EXCEPT ![j] = "cancelled"]
            /\ UNCHANGED transcript
    /\ UNCHANGED <<input, wf, at, short, renders, files, left>>

Holds(r) == renders[r].revision = short.revision /\ short.approved

RenderRuns ==
    /\ Interruptible
    /\ \E r \in DOMAIN renders :
         \/ /\ renders[r].state = "queued"
            /\ renders' = [renders EXCEPT ![r].state = "running"]
         \/ /\ renders[r].state = "running"
            /\ renders' = [renders EXCEPT ![r].state = IF Holds(r) THEN "succeeded" ELSE "stale",
                                          ![r].output = Holds(r)]
         \/ /\ renders[r].state = "running"
            /\ renders' = [renders EXCEPT ![r].state = "failed"]
         \/ /\ renders[r].state = "cancelling"
            /\ renders' = [renders EXCEPT ![r].state = "cancelled"]
    /\ UNCHANGED <<input, wf, at, transcript, analyses, short, files, left>>

\* An edit withdraws the approval and makes finished Renders stale.
EditShort ==
    /\ Interruptible
    /\ short.revision > 0
    /\ left.edits > 0
    /\ left' = [left EXCEPT !.edits = @ - 1]
    /\ short' = [revision |-> short.revision + 1, approved |-> FALSE]
    /\ renders' = [r \in DOMAIN renders |->
                     IF renders[r].state = "succeeded"
                     THEN [renders[r] EXCEPT !.state = "stale"] ELSE renders[r]]
    /\ UNCHANGED <<input, wf, at, transcript, analyses, files>>

\* An operator cancels a job of the workflow directly.
OperatorCancels ==
    /\ Interruptible
    /\ \/ \E j \in DOMAIN analyses : /\ analyses[j] \in Pending /\ CancelAnalysisJob(j)
                                     /\ UNCHANGED renders
       \/ \E r \in DOMAIN renders : /\ renders[r].state \in Pending /\ CancelRenderJob(r)
                                    /\ UNCHANGED analyses
    /\ UNCHANGED <<input, wf, at, transcript, short, files, left>>

\* recoverJobs: asked-for cancellations are carried out; an analysis is
\* queued again, a Render that had begun has failed.
Restarted == /\ analyses' = [j \in DOMAIN analyses |->
                    CASE analyses[j] = "cancelling" -> "cancelled"
                      [] analyses[j] = "running"    -> "queued"
                      [] OTHER                      -> analyses[j]]
             /\ renders' = [r \in DOMAIN renders |->
                    [renders[r] EXCEPT !.state = CASE @ = "cancelling" -> "cancelled"
                                                   [] @ = "running"    -> "failed"
                                                   [] OTHER            -> @]]

Dies ==
    /\ left.deaths > 0
    /\ left' = [left EXCEPT !.deaths = @ - 1]
    /\ at' = Idle
    /\ UNCHANGED <<input, wf, transcript, short, files>>

Die == Dies /\ Restarted

\* The process dies in cancel(), with the jobs cancelled and the row as it was.
DieInCancel ==
    /\ Interruptible /\ WorkflowActive
    /\ Dies
    /\ CancelAnalysisJob(wf.job) /\ CancelRenderJob(wf.render)

UserStep == ApproveDraft \/ RetryRender \/ RetryAnalysis \/ RetryStage \/ Cancel
WorldStep == AnalysisRuns \/ RenderRuns \/ EditShort \/ OperatorCancels \/ Die \/ DieInCancel

WorkflowNext == AdvanceStep \/ AdvanceFault \/ UserStep \/ WorldStep

\* The timer keeps calling, and the runner runs the jobs.
WorkflowFairness ==
    /\ WF_workflowVars(AdvanceStep)
    /\ WF_workflowVars(AnalysisRuns)
    /\ WF_workflowVars(RenderRuns)

WorkflowSpec == WorkflowInit /\ [][WorkflowNext]_workflowVars /\ WorkflowFairness
-----------------------------------------------------------------------------
WorkflowTypeOK ==
    /\ wf \in [state : Stages \cup FinalStates, failedAt : Stages \cup {"none"},
               retryable : BOOLEAN, reached : Reached, job : 0..Len(analyses),
               preflight : Nat, render : 0..Len(renders)]
    /\ analyses \in Seq(JobStates)
    /\ Len(files) = Len(renders)

(***************************************************************************)
(* A cancelled workflow has no work of its own left: every job its row     *)
(* names is over or has been asked to stop, whatever advance() was waiting *)
(* for when the cancellation came and wherever the process died.           *)
(***************************************************************************)
CancelledWorkIsStopped ==
    wf.state = "cancelled" =>
        /\ wf.job # 0 => analyses[wf.job] \notin Pending
        /\ wf.render # 0 => renders[wf.render].state \notin Pending

(***************************************************************************)
(* A workflow renders its Short once at a time: no crash between the start *)
(* of an attempt and the row that names it, no retry and no edit makes it  *)
(* start a second attempt beside a live one.                               *)
(***************************************************************************)
OneLiveAttempt ==
    Cardinality({r \in DOMAIN renders : renders[r].state \in Live}) <= 1

(***************************************************************************)
(* completed means delivered: the attempt the row names has produced its   *)
(* output, and a requested export is a complete copy of it, not what a     *)
(* crash left of one.                                                      *)
(***************************************************************************)
CompletedIsDelivered ==
    wf.state = "completed" =>
        /\ renders[wf.render].output
        /\ input.export => files[wf.render] = "whole"

\* What a workflow's last state says has happened.
SettledRowsAreTrue == CancelledWorkIsStopped /\ CompletedIsDelivered

Unsettled == WorkflowActive /\ wf.state # "awaiting_review"

(***************************************************************************)
(* A workflow that has been left to itself comes to the review of its      *)
(* draft or to an end; cancelled, failed or lost jobs, edits and crashes   *)
(* included, it never stays in a stage for ever.                           *)
(***************************************************************************)
WorkflowsSettle == Unsettled ~> ~Unsettled
=============================================================================
