# A verification development for short-editor

short-editor turns long episodes into approved, rendered and scheduled Shorts.
A local core process (Node, better-sqlite3, ffmpeg, a Python worker) does the
work; an Electron shell, an HTTP API and an MCP server talk to it; a hosted
service (`src/apps`, `src/packages`) takes uploads of several organizations.
The modules here model that system from its source, TLC checks them on small
instances, and TLAPS proves the central results for every instance.

Paths that begin with `apps` or `packages` are relative to `src/`, all others to `src/src/`:
`core/jobs.ts` is the file `src/src/core/jobs.ts` of this tree.  `PROJECT.json` maps every
definition to the lines it stands for, lists the hazards with the properties that guard against
them, and the runs, mutants and theorems.

## Inventory

| Component | State | Operations | Talks to | What is hard | What makes it correct |
|---|---|---|---|---|---|
| Durable jobs and runner (`core/jobs.ts`, `recoverJobs`) | `jobs` table; the awaited handler | enqueue, enqueueUnique, cancel, claim, settle, stop, recover | every handler; every client | cancel racing a verdict; crash between claim and verdict; billed work not to be repeated | cancellation decides the verdict; bounded executions; one scan per target; every job settles |
| Shorts, Renders, recovery (`core/repository.ts`, `render.ts`, `render-preflight.ts`) | `short_projects`, `render_preflights`, `renders` and the paired job | edit, approve, preflight, start, retry, cancel, render, complete, reconcile, recover | jobs, artifacts, schedule | edits during a render of many awaits; two rows kept in step; two recovery transactions | nothing outdated is publishable; Render and job agree; a lineage is a chain |
| Schedule entries (`core/service.ts`) | `schedule_entries` | draft, move, publish, flagged by edits | Renders, scheduler | flags from every path that changes the output | published entries are frozen; the publishable ones are current |
| Cloud authorization (`core/service.ts`) | grants (durable), credential handles (process) | grant, revoke, remove, synchronize | jobs, Electron vault | a grant that lapses while a job waits; handles unknown after a restart | no unauthorized claim; no blocked queue |
| Short workflows (`core/short-workflows.ts`) | `short_workflows` | create, advance, cancel, retry | import, analysis, candidates, renders | cancellation during an awaited step; crash between two writes | every job a workflow starts is known to it; it ends |
| Artifact store (`core/artifact-store.ts`) | `artifacts` table and files | reserve, finalize, discard, reconcile | renders | rename and record are not atomic | a complete row has its file; orphans are removed |
| Episode sources (`core/media.ts`, `watched-folders.ts`) | episodes, roots, folders | import, hash, relink, scan, reconcile | jobs, Renders | decisions across awaits; stale confirmation token | an episode never shows content it was not verified with |
| Analysis and candidates (`core/candidates.ts`, `local-*.ts`, `analysis-cache.ts`) | candidates, transcripts, cache | analyse, review, accept | jobs, Shorts | review against a re-analysis | reviewed decisions survive |
| Captions, crops, audio (`core/captions.ts`, `crops.ts`, `audio.ts`) | none (pure) | cue layout, crop tracks, gain | Renders | interval boundaries | cues ordered and inside the timeline |
| Scheduler (`core/scheduler.ts`, `shared/schedule-time.ts`) | none (pure) | slot generation | schedule | daylight saving, week boundaries | cadence and spacing respected |
| Python worker supervisor (`core/python-worker-supervisor.ts`) | child process, pending requests, active jobs, restart count | start, run, cancel, restart | analysis | time-outs racing answers; restart racing restart | every promise settles once |
| Startup and migrations (`core/bootstrap.ts`, `database.ts`) | schema version, backups | migrate, recover, start | all of the core | crash during migration | recovery before the first claim |
| HTTP API, MCP, contracts (`core/api.ts`, `mcp`, `shared`) | none | validate, dispatch | all of the core | - | - |
| Electron shell (`electron`) | vault, model downloads | handles, install models | core | interrupted download | only verified models are installed |
| Desktop UI (`ui`) | editor state | edit, undo, save | API | save racing edit | undo restores |
| Hosted uploads and outbox (`apps/api`, `packages/infrastructure`) | uploads, usage, outbox | begin, complete, abort, publish | object store, queue | quota read and reserve apart; crash in the completing state; double delivery | reserved bytes add up; every upload ends |
| Hosted accounts (`apps/api/src/clerk.ts`) | users, organizations, memberships | webhooks | identity provider | late and repeated events | the newest event wins; deletion stays |
| Hosted worker (`apps/worker`) | claims | claim, process, complete | outbox | redelivery, death after claim | each job completed once |
| Web client (`apps/web`) | parts uploaded | run, pause, resume | uploads | resume beside a running batch | all parts once |

Everything in the core shares one synchronous database connection and one
event loop.  Code between two awaits is atomic against every other actor of
the process; only the death of the process can cut it.  This is the
granularity of all actions.

## Modules

```
JobContract        what a client may rely on: one durable job, abstractly
   ^        ^
   |        |            (refinement mappings, named Contract)
JobQueue   RenderLifecycle
   |             +-- MCRenderLifecycle: RenderLifecycle, RenderProgress,
   |             |                      RenderEntryRevision
   |             +-- RenderLifecycleProofs
   +-- MCJobQueue: JobQueue, JobQueueLifecycle
   +-- JobQueueProofs

EpisodeSource
   +-- MCEpisodeSource: EpisodeRelinkIdentity
   |      +-- MCEpisodeConcerns: EpisodeRelink
   +-- EpisodeSourceProofs

CloudAnalysis: CloudTranscript
CloudAnalysis, CandidatePool, ShortEdits, ModelInstall, Migrations
   +-- MCAnalysis: Analysis
   +-- AnalysisProofs

HostedJobs <-- HostedUploads;  HostedAccounts;  ResumableUpload
   +-- MCHosted: Hosted, HostedCancellation
   +-- HostedProofs

ShortWorkflow, WorkerSupervisor, ArtifactStore, Startup, Editor,
ScheduleDraft <-- Calendar, Timeline, CropTracks, CropGeneration,
CaptionLayout, RenderGraph, Candidates
   +-- MCDesktop: Desktop
   +-- ProposalProofs: ScheduleDraft, Calendar, Candidates
   +-- CompositionProofs: Timeline, CropTracks, CropGeneration, CaptionLayout, RenderGraph
   +-- DesktopProofs: ShortWorkflow, WorkerSupervisor, ArtifactStore, Startup, Editor;
                      with CompositionProofs and ProposalProofs, the functions on the data of MCDesktop
```

An MC module over several components has a variable `part`.  `Init` chooses the
part a behaviour exercises, and the variables of the others keep their
initial values, so that one run checks each component by itself, and `HostedUploads`
with `HostedJobs` also together (part "whole").

**JobContract** is the abstract specification: a job is created with a budget
of executions, starts only uncancelled and within it, may be put back on the
same terms, and settles once, as cancelled exactly when that was requested.
A step may move several jobs, since a recovery does.

**JobQueue** is `core/jobs.ts` with `recoverJobs` for all jobs but renders.
`jobs` is the table; `running` is the handler the runner awaits; `mode`
distinguishes serving, an orderly stop that waits for the handler, a closed
database and a crash; `grants` and `handles` are the durable and the volatile
half of a cloud authorization.  A handler is the two ways its promise settles.
The creation order of jobs is kept because the runner claims the oldest; equal
timestamps do not occur in the model, ties being broken arbitrarily in the code.

**RenderLifecycle** follows a Short to its schedule entry.

| Model | Code |
|---|---|
| `shorts`, `UpdateShort`, `UpdateShortCopy`, `UpdateShortTimeline`, `UpdateShortTrack`, `ApproveShort`, `AcceptTranscriptRevision` | the writers of `short_projects`, with the staleness and flag UPDATEs each of them makes in the same transaction |
| `missing`, `RelinkOtherContent`, ... | the episode's missing flag and `commitEpisodeRelink` |
| `checking`, `preflights` | a preflight between its reads and its insert; its passing row |
| `renders`, `jobs` | the attempt and the job row of the same identifier |
| `worker` | how far `render()` has got: `encoding` up to the check after ffmpeg, `finalizing` up to `completeRenderAttempt`, then `returned` or `threw` to the runner |
| `CancelQueued`, `CancelRunning` | `JobQueue.cancel` on a render job, which also reads and writes the Render |
| `entries` | `schedule_entries` |
| `CrashAfterClaim`, `Crash`, `ReconcileRenderArtifacts`, `RecoverJobs` | the points at which the process may die, and the two transactions of the restart, between which it may die again |
| `AbortFails`, `CleanUpFails`, `uncleaned` | an error of the catch, which discards artifacts before it settles the Render, and of the `rm` in the `finally`; the history of the attempts this befell |
| `lastAffecting`, `unrelinked` | history only: the last revision that changed pixels or audio; the Renders whose Episode was not relinked to other content since they succeeded |

Every client write carries an expected revision and is refused if it is not
the current one, so an action happens at the current revision and the refused
call is a stutter.  Bytes, paths, instants, captions and determinism evidence
are abstracted to whether they agree (`matches`).

**EpisodeSource** is about files that change while they are read.

| Model | Code |
|---|---|
| `files`, `WriteFile`, `RemoveFile`, `MoveFile` | the disk in the hands of the user, not code; a write gives a new modification time, a move keeps it |
| `episodes`, `MarkedMissing`, `Restored`, `Relinked` | the episodes table and its three UPDATEs, each of which reads the row again in its transaction |
| `imports`: inspecting, inspected, hashing, finalizing | `inspectSource` up to its second stat; waiting for the import before it; hashing itself and its look-alikes; the stat before the transaction |
| `Resolved`, `ResolveDuplicate`, `RejectUnresolved`, `InsertEpisode` | the transaction of `finalizeIdentity` |
| `relinks`, `CommitRelink`, `IssueToken` | `relinkSource`, which decides by the Episode it read before it inspected the candidate |
| `tokens`, `confirms`, `CommitConfirm` | `relink_comparisons` and `confirmRelink` |
| `toHash`, `BeginHash`, `EndHash` | a queued hash job and `hashEpisode` |
| `BeginReconcile`, `CheckSource`, `ApplyCheck` | the loop of `reconcile`: the read of an Episode shares a stretch with the write of the one before |
| `StoreTranscript` | the end of an analysis |
| `uses`, `analysed` | history only |

Bytes are values of `Contents`, and their SHA-256 is the value itself; the sampled
fingerprint is the function `FingerprintOf`, which the runs make constant, so that
only full hashes tell files apart.  Sizes and probes agree whenever fingerprints
do.  A file that is read under a pair of stats is read at one moment, and the
several hashes of one finalization are read at the same moment.  A comparison may be
refused at any time, which stands for its ten minutes.  Which content a relink moves
to is an input of RenderLifecycle (`RelinkOtherContent`), which has the Renders and
schedule entries a confirmed relink makes stale.

**ShortWorkflow** is `core/short-workflows.ts`: `wf` is the persistent row, `at` is where
`advance()` is between two awaits with the row it read.  The user approves, retries,
cancels; the jobs it started, the editor of its Short and a crash run beside it.  What is
kept of a row's revision is whether the row still is the one that was read.

**WorkerSupervisor** is `core/python-worker-supervisor.ts` with the command loop of
`worker.py`.  A killed process lives on for a while: `procs` keeps what every process
has written and not yet delivered, so that output and exits of an earlier one meet the state
(`child`, `ready`, `launching`, `timer`) of a later one.  Heartbeats are left out, repeated
cancel frames are one.  A cancellation nobody acknowledges rejects a promise that
`bootstrap.ts` does not await, which ends the core: the process `host` goes down.

**ArtifactStore** is `core/artifact-store.ts`: stage, rename, record, and the discards, with
a crash or a failure between any two of them, and `reconcile()` step by step, which may be cut off
too, with `cleanupInterruptedRenderArtifacts()` after it, artifact by artifact.  Which Renders were
interrupted is RenderLifecycle's, so any video may have to go, and none.  A rename, the row, the sync of a
directory and each removal that should take something back may fail.  An operation that could not take
back what it did is `abandoned`: it keeps the name of what it left out of step (`renamed`: a stray
file, or a row without its file) and of the paths it forgot to release (`paths`), and does nothing more
until the next start, so the number of operations also bounds how many of these there are at once.  A
later write to such a path is refused: the stray file is in its way, or the row whose file is gone.

**Startup** is `core/startup.ts`: refusal, checked copy, three renames, each of which may fail
or be the last thing the process does, over up to four starts.

**Editor** is the draft, its history and its saves (`ui/editor-state.ts`, `EditorWorkspace.tsx`),
with the server's row, other clients, conflicts, rebase and approval.  An edit made while a save is
in flight is replaced in the draft by the answer and survives in the undo history only; one made
while `loadLatest` awaits is lost.  `meant`, which `EditorIsTruthful` compares with the draft, is what
the user put in between calls.  Nothing in `EditorWorkspace.tsx` keeps a client from loading the latest
revision, and from approving it, while a save is in flight; `PatientSpec` is the editor of a user who
does not (see "Where documents and code differ").

**Timeline, CropTracks, CropGeneration, CaptionLayout, RenderGraph, ScheduleDraft, Candidates** are
pure functions, each checked against a reference definition on every small input:

| Module | Code | Reference definition |
|---|---|---|
| Timeline | output-to-source time in the player, captions, audio and crops | one mapping, which all of them must agree with |
| CropTracks | the crop a control, the preview and the filter of the Render give | equal at every instant, but for two stretches it names |
| CropGeneration | `crops.ts`: union, padding, shape, smoothing | inside the source, of the right shape, around the detection |
| CaptionLayout | wrapping, safe area, overlaps, the lines of text layers and their ellipsis | same words, in lines that fit or are warned of; text is cut only where it does not fit |
| RenderGraph | labels of the filter graph | every label is given once, taken once, and later; the output is given |
| ScheduleDraft | wall times, slots, drafts (stated as what the loop's greedy choice comes to: by priority, each Short has the earliest slot that is free) | slots read backwards by the zone are the rules' times |
| Candidates | windows, highlights, likenesses, diagnostics | a dropped window has a better likeness; every window is counted |

What these leave out: kerning; scores of candidates; rounding of crop values (inputs are
multiples of `Scale` or fractions of `Unit`); line breaks a text brings along; fonts and filter parameters.  A caption that starts
with spaces wider than the line begins with an empty line, which `WrappingIsSound` names.

**Calendar** has the rules, drafts, moves and publications over ScheduleDraft, for any Shorts with
their priorities and Episodes, and any set of rules a user may try.  One client acts on
an old screen, the others on the current state.  Which Short has a Render, and what flags an
entry, is RenderLifecycle's.

**CloudAnalysis** is the handler of analyze jobs with its worker, and the bridge to Electron:
messages in order (`toElectron`, `toCore`), HTTP calls of Electron served whenever they are, chunks,
retries and their waits.  `spent` and `lapsedPosts` are history; the latter counts, by credential, the
requests that were sent after the authorization had lapsed.

**CandidatePool** is what generations, reviews, accepted copy and Shorts do to the candidates;
**ShortEdits** the crop tracks and ranges of one Short as the service edits them; **ModelInstall**
the installation of the speech model in `electron/runtime-support.ts`; **Migrations** the rows of
`database.ts` through its twenty migrations, one after the other, in an upgrade that may be cut off
between any two, written by every release in the shape it knows.  Tables and indexes that a
migration only creates are static and not modelled.

In ShortEdits, `createShort` copies a template's tracks unvalidated, although `shortProjectSchema`
would refuse some: `inherited` marks such a Short until the edit that replaces them.
In ModelInstall every rename and removal may fail, those of the roll back too, and a removal may fail
or be cut off half-way.  `held` is the target as the last activation found it, and survives the end of
the application; `trouble` is what went wrong since with what had been put aside.  `ReadyModelIsWhole`
names what each kind of trouble leaves (see "Where documents and code differ").
Two `start()` calls at once and two concurrent `persist()` are excluded.  A `.partial` of full
length with wrong bytes, left by a crash, is answered 416 at every later start.

**HostedJobs, HostedUploads, HostedAccounts, ResumableUpload** are the hosted service: jobs, outbox,
publisher and workers over both database adapters; upload sessions, objects and quota, with answers of the database that are lost after the INSERT of a
session (`answered` is the history of the sessions a client was told of); webhooks
of the identity provider; the uploading client.  Clocks are left out: a lease may lapse and
a retry come at any time.  A database transaction is atomic, and there is one usage period.

## Runs

| Run | Asks | Instance | States |
|---|---|---|---|
| JobQueue | do jobs keep their promises through cancellations, lapsed authorizations, crashes and restarts; do they settle; is the contract implemented | 2 jobs; a scan, a hash and a cloud request; 1 credential; 3 crashes, 1 orderly restart | 231,480 |
| RenderLifecycle | can anything outdated be published, a Render and its job disagree, a lineage fork | 1 Short, 2 Renders, 4 revisions, 1 crash | 3,109,140 |
| RenderProgress | does every attempt end; do render jobs implement the contract | 2 Renders, 2 revisions, 3 crashes | 296,666 |
| EpisodeRelink | do concurrent imports of look-alikes leave two unhashed Episodes; is a confirmation used once; is an Episode ready only when analysed; does the table come to agree with the disk | imports: 2 imports and Episodes, 2 paths, 2 contents, 1 change; relinks: 1 Episode, 1 relink, 2 confirmations of 1 comparison, 3 changes | 327,015 |
| Hosted | does one worker run a job, does a verdict stand, does a completed upload and only that have its job, is the overdraft bounded, do memberships converge, does completion name all parts | 1 project, 1 job, 2 workers, 3 uploads of 1 unit, 2 calls, limit 1 unit; 1 user, 5 events; 3 parts, 3 runs | 492,471 |
| Desktop | is one worker serving and one attempt live, do settled workflows tell the truth, do files and rows agree, are data kept, does the editor show what is saved, does the calendar keep its rules, are the functional modules sound | 1 workflow; 2 processes, 2 calls; 2 operations, 2 crashes; 4 starts; 3 sections, 3 revisions, 1 commit; 2 rule sets, 3 Shorts | 181,265 |
| Analysis | do uploads stop with the authorization, is every handler answered, do reviews survive, do crop tracks fit the output, is a ready model whole, are old rows readable | 1 job, 2 transcripts, 2 grants, 2 chunks; 3 windows, 3 rows; 2 controls; 2 parts; 5 releases, 3 openings | 236,497 |
| JobQueueLifecycle (violation) | is the documented job lifecycle the code's | as JobQueue | |
| RenderEntryRevision (violation) | does every change of an entry increment its revision | as RenderLifecycle | |
| EpisodeRelinkIdentity (violation) | does a relink keep to the verified bytes | 1 Episode, 2 paths, 2 contents, 2 changes | |
| HostedCancellation (violation) | does a cancelled job settle | as Hosted, part "jobs" | |
| CloudTranscript (violation) | does an edit invalidate the analyses of the old transcript | CloudAnalysis alone | |

Bounds: three crashes exhaust the limit of three executions.  Two jobs are
enough for twins, for overtaking and for a queue blocked by its head.  Two
Renders are a baseline with its successor, or an attempt with its retry; that a lineage
stays a chain beyond two attempts, and within its limit of three, is proved.  With one Short
approved at revision 2, four revisions leave room for an edit and a second approval,
hence a Render at the current revision beside an outdated one.  `MaxEntryRevision` counts
moves and relinks of an entry.  RenderLifecycle identifies Renders up to permutation; no
constant of its configuration distinguishes them, and RenderProgress does without.

EpisodeRelink follows two concerns (`MCEpisodeConcerns`).  Imports: one change of the
disk and no relink; the disk may hold two copies of one file from the start, so two look-alikes need
none, and the change is the one that invalidates what was decided on.  Relinks: a single content, and
imports until an Episode is known; three changes let a source be lost, confirmed elsewhere and
lost again.  Identifiers are taken in order.

Hosted: with a limit of one unit and two calls, the third upload finds what the race of the first two
left.  Three leases are a delivery, a redelivery and one more after it; faults are at most two, and
at most one in part "uploads".  Part "whole" has one upload and one call, from creation to the
verdict of its job.  Five events are a creation, a deletion and a return, with two that are late.

Desktop: in the editor at most one call is under way, except an approval beside a save before the
first edit; that more of them, answered in any order, do no harm to a patient user is proved.  The
worker is followed while the core has calls for it.  Two processes are what output and exit of an
earlier one need to meet the state of a later one.  The functional inputs: ranges within four
instants, three cues, three controls, three layers, one change of offset, four segments.  Analysis:
one job at a time is what the runner has; the releases are the ones between which the shape of some
row changes.

Desktop, Hosted and Analysis do not check deadlock: in parts whose inputs are data nothing happens, and
the others stop at their bounds, or when everything is done.  In all other runs deadlock is checked:
an unfair client always has a request it can still make.

Every property has a mutant of a mapped definition that breaks it under its own run.
The mutated forms stand beside the originals, each after a comment that begins
with "Mutant:", and no specification uses them.

### Fairness

The runner ticks on an interval timer and after every handler, so a claim that
stays possible is made (`WF` on the claim; `BeginRender` for renders).  A
handler settles: every child process and request it awaits has a time-out or
is killed with it.  Orderly shutdown runs to its end, and the application is
started again after a crash.  Clients have no fairness.  The liveness results
are about an operator who does restart and about finitely many crashes, which
the bound expresses.  In EpisodeSource only the runner is fair: the interval timer
requests a reconciliation again and again and reads of the disk return.  Imports,
relinks and the user are not, and the user stops changing files only because
`MaxChanges` is reached; `SourcesAreReconciled` is about what follows that.

In Desktop, `AdvanceStep` is fair because the coordinator's timer comes again, and jobs
of a workflow end, as JobQueue and RenderLifecycle show.  Of the worker, a process that was told
to end does, and its loop, its threads and the event loop of the core go on; the half hour of a
job's time-out is not counted on.  In Analysis, both event loops turn and requests settle; nothing
is assumed of users or of Electron's life.  `CloudJobsSettle` therefore says "or Electron has
ended": the promise of a request in `core/openai-provider.ts` is settled by an answer of Electron
only, and neither a closed channel nor a time-out rejects it.  That every handler settles, as
JobQueue assumes, holds for a cloud analysis while Electron lives.

In Hosted, the publisher's loop comes again and a lease whose holder died lapses (`JobFairness`); of
workers nothing is assumed.  HostedCancellation adds that workers go on and that a job has
finitely many stages, and the property fails nevertheless.

### Where documents and code differ

- `SPEC.md` 5.2 lets a queued job go only to running or cancelled.  `claimNext`
  takes a cloud job whose authorization lapsed from queued to failed
  (run JobQueueLifecycle).
- `SPEC.md` 5.3 wants every mutation of a schedule entry to increment its
  revision once.  `reconcileRenderArtifacts` sets `needs_rerender` and leaves the
  revision (run RenderEntryRevision), so a client that read the entry before the
  restart does not notice that it was flagged.
- `SPEC.md` 5.3 wants a relink to content with a different verified hash rejected.
  `confirmRelink` compares the candidate with the comparison, not with the hash the
  Episode has by then (run EpisodeRelinkIdentity).  A comparison is issued for an
  Episode without a hash; its old file returns with other bytes, a hash job reads
  and records them, the file is lost again, and the confirmation still moves
  the Episode and overwrites the hash.
- `SPEC.md` (line 747) and `tests/transcript-editing.test.ts:263` have an edit of the transcript
  invalidate the analyses that depend on it.  One that is under way during the edit is stored
  after it and is active (run CloudTranscript).
- `docs/saas/SPEC.md` (line 88) has queue consumers honour cancellation.  Deleting a project sets
  its queued jobs to `cancel_requested`, a state in which `claim` answers "already running" and no
  worker ever runs or cancels them (run HostedCancellation).

Met while modelling, without a run of their own:

- In the editor, an old answer can be taken for the state of a newer revision.  A save at revision 1 is
  carried out and its answer is late; an approval at revision 1 conflicts; another client saves
  revision 3, which the user loads and approves as revision 4.  Then the answer of the save arrives and
  sets what is shown to revision 2, and the answer of the approval sets the revision, and only that,
  to 4.  The next save of a section goes through at revision 4 and overwrites what the other client
  put there with what revision 2 had.  `EditorIsTruthful` is proved of `PatientSpec`, where no load
  overtakes a save.
- Migration 14 makes succeeded Renders stale without flagging their schedule entries, and
  `markPublished` looks at the flag only.  `RowsStayReadable` names the exception.
- The update by which the Postgres adapter fails a job has no condition on its state, so that a
  late failure can overwrite a verdict; `SettledIsFinal` is stated of D1.
- The D1 webhook handler has no ordering, ignores the deletion of users and organizations, and
  marks a membership of an unknown user as processed.  On Postgres, `user.deleted` that arrives
  before an older `membership.created` leaves the membership active.  `MembershipConverges` is
  stated of Postgres, and convergence of users that were not deleted outright.
- On D1, a deletion of a project that is refused for its revision still cancels the jobs.
- An expired upload session keeps its reservation, and one whose API process died while
  completing stays in that state; `docs/saas/SPEC.md` has completion verify the stored object, and
  `r2.ts` returns what the session declared.
- Once flagged, a schedule entry can neither be published nor replaced by a draft of its Short.
- After a change of the rules a day may have more entries than the rules allow, because the
  entries at old times are not counted.
- The Render glides from an automatic crop into the first manual one, where
  `resolveEffectiveCrop` and `tests/crops.test.ts:185` jump; the preview holds between two manual
  crops what the Render moves.  `CropsAgree` names both stretches.
- A relink to other content that commits while a Render of the old content is being made is not noticed:
  the checks of `render()` read the captured file at its old path, `completeRenderAttempt` compares
  revisions, and `commitEpisodeRelink` makes none and leaves a running Render alone.  The old content
  can succeed and be published.  `PublishableIsCurrent` and `SuccessIsCurrent` follow a relink only
  from the success on (`unrelinked`), and say nothing of this one.
- The awaited `rm` of the working directory (`render.ts:281`) can fail after the Render has succeeded;
  the runner then fails the job beside it.  `SuccessIsNotCancelled` names the exception.
- The catch of `render()` discards the artifacts before it settles the Render.  If that throws, the
  Render stays running for good: its job has a verdict, and `recoverJobs` looks only at Renders of active
  jobs.  `PairAgreement` and `AttemptsEnd` name the exception.
- When `uploads.create` throws although its INSERT was committed, `createUpload` gives the reservation
  back, and the session stays open without one.  No client knows its id, so it cannot be completed;
  `SessionsHoldReservations` speaks of the sessions that were answered.
- A failing sync of the directory after the rename in `finalizeExternal` leaves the file without a row, and
  one after the unlink in `discardFinalized` rolls the row back while the file is gone; a removal in a
  catch can fail as well, and `discardExternal` then never releases its path.  `StoreAgrees` excepts
  the files of such an operation, and only those, until the next start puts them right.
- When the application ends between the two renames of `atomicInstallModel`, or its roll back fails,
  the previous model is in the backup only: no start brings it back, and the next activation begins by
  removing it.  A removal of the backup that stops half-way is rolled back over the new model, which
  is lost for what is left of the old.
- A cancellation of a workflow during its awaited import still starts an analysis job, which the settled
  row does not name (`short-workflows.ts:200`); `SettledRowsAreTrue` is about the jobs a row names.
- Three hazards lie outside the grain of the modules: a transcription of the old file stored for the relinked Episode
  (`bootstrap.ts:346`); a half-written copy of an export left by a crash, after which an export
  under that name is refused (`short-workflows.ts:160`); and a shutdown that waits for a handler after
  Electron's end (`openai-provider.ts:110`).

## Proofs

All theorems hold for every set of jobs, Renders, Shorts, Episodes, requests, credentials, paths,
uploads, workers, events and rules, and for every bound.  What is assumed of the constants is named in
the module that declares them, and TLC evaluates it in the runs:

| Module | Assumed |
|---|---|
| JobQueue | the jobs are finitely many (their number is the creation order); requests are well typed and only analyses go to the cloud; `None` is no identifier |
| RenderLifecycle, EpisodeSource, HostedAccounts, HostedJobs, CloudAnalysis | `None`, `Nobody` and `NoHandle` are no identifiers; `EpisodeOf` is a function |
| HostedUploads | sizes are positive (`createUploadSchema`); uploads and concurrent calls are finitely many, and there is a call |
| ArtifactStore | a video is not a sidecar |
| CandidatePool, WorkerSupervisor | windows have an order, and identifiers are finitely many |
| Editor | the sections the code names are among the sections |
| CropTracks, CropGeneration | the unit of the coordinates is positive; `Scale` is a multiple of every span of time, so that the integers of the model round nothing |
| Candidates | the bounds on durations are natural numbers in order |
| MCDesktop | the unit can be quartered; a day has the six hours its schedules name |
| ScheduleDraft, Calendar | a day has hours, and no zone is more than a day from UTC; Shorts are ordered by identifier |
| all | bounds are natural numbers |

**JobQueueProofs.**  The invariants are not inductive.  That a verdict honours
a cancellation needs that a queued job was never cancelled; the bound on
executions needs that a queued job has one left; both need that only an
analysis is a cloud job; and the recovery needs that no handler outlived its
process.  `IInv` adds these, and yields `TypeOK`, `RunningJobIsDriven`,
`VerdictHonoursCancel`, `BoundedExecutions` and `OneActivePerTarget`.  With it
every step maps, row by row under `Seen`, to a step of JobContract or to a
stutter, hence `Spec => ImplementsContract`.

**RenderLifecycleProofs** has three inductive invariants.

- `CoreInv`: `PublishableIsCurrent`, `SuccessIsCurrent` and
  `BoundRevisionsAreApproved`, with the fact that the last affecting change is
  not newer than the revision.  A relink takes its Renders out of `unrelinked` in the step in which it
  makes the successes among them stale; only a success puts one in.  The parts hold each other up.  An edit makes
  stale what is not bound to the revision it creates (`updateShort`), or what is
  older (`updateShortCaptions`); that this is every success follows from
  `BoundRevisionsAreApproved`, since no Render is ahead of its Short.  A success is
  only written at the current revision.  Two general lemmas carry it, one for
  steps of the render machinery, one for steps that revise or withdraw.
- `PairInv`: `PairAgreement` and `SuccessIsNotCancelled`.  While the process
  lives each pair satisfies `PairUp`; from a crash to the end of the recovery only
  the weaker `PairDown`, and the proof for `RecoverJobs` shows that this much is
  enough to restore `PairUp`.  A handler that threw beside a success must be one whose clean-up
  failed, or the last verdict of the runner could contradict it for no reason; and an attempt whose
  clean-up failed was started, so that no new or waiting one inherits the exception.
- `JobInv`, for the refinement `ImplementsContract`: `PairInv` says too little about the job of a
  Render.  A queued one has an execution left, and a Render that came out cancelled under an active job
  is one whose cancellation that job was asked for; otherwise the recovery would cancel a job nobody
  cancelled, which the contract forbids.  `Advances` is a step of the contract or a stutter, and
  every action is shown to make each job advance.

`PublishedIsFrozen` and `VerdictsAreFinal` follow from the types and the guards.  **LineagesAreChains**
is `LineageIsAChain` for any number of Renders; the run has two.  It is inductive with
`LineagesAreStarted`: every lineage is named after an attempt that was started, so that a new lineage
meets no older attempt.

**EpisodeSourceProofs.**  A row is good if it is well typed and a missing one has a status
to return to; `TypeInv` adds to `TypeOK` that all rows are, and that what imports
and jobs hold across an await names Episodes that exist.  Each of the
writes keeps rows good (lemmas on rows), hence `TypeOK`.  From it:

- `ConfirmationIsSingleUse`, since a comparison that was used is consumed, and only
  an issued one is committed.
- `ReadyIsAnalysed`: a step makes no Episode ready, now or on its return,
  that was not so before, except by a transcript, and a confirmed relink leaves
  the Episode neither.
- `DuplicatesAreResolved` is not inductive: the import that inserts an Episode decided
  on candidates read before it awaited the disk.  `DuplicateInv` adds that at most one
  import is finalized at a time and that, while one without a hash is, every
  Episode of its fingerprint has a hash.  It is kept because no other import inserts
  an Episode meanwhile, and because whatever takes on a fingerprint by a relink is
  hashed (`NoNewUnhashed`, what every write but the insertion satisfies).

**HostedProofs**, for both database adapters unless it says otherwise:

- `OneWorkerPerJob` needs that a job some worker has claimed is in no state from which it can be
  claimed (`JobsInv`); redeliveries and lapsed leases then do no harm.  `SettledIsFinal` is of D1.
- `UploadInv`: an upload under creation is known to one call, and completed by one call at most
  (`CallsAreApart`), and an answered session was inserted (`AnsweredAreInserted`); each phase of a call may count on a state of its session and its ledger although
  others ran since (`CallInv`); hence `SessionsHoldReservations` and `IngestIffComplete`.
- `OverdraftIsBounded`: of the calls that have passed the quota check and not reserved, one saw
  everything that is reserved so far, and the others add at most the largest upload each
  (`OverdraftInv`).  The bound is the limit and the calls but one times the largest upload.
- `MembershipConverges` (Postgres): the provider's membership is that of the last event issued for the
  user, and a row is that of an event that was processed and is at least as late as any other that was.
- `CompletionNamesEveryPart`: what a run has yet to sign, what it sends and what is stored are
  together all parts, whatever other runs do.

**AnalysisProofs:**

- `RevocationStopsUploads`: a request sent after its authorization lapsed leaves its credential
  without one, and what the core has just allowed is not under such a credential; so there is one at most
  for each credential.
- `ReadyModelIsWhole`: where the previous model, the new one and what is shown are at each of the
  steps of the installation and of its roll back, and what of it still holds after each kind of trouble
  (`InstallInv`).
- `PoolKeepsDecisions`: active candidates do not overlap, and a row on a screen is an earlier revision
  of a stored row or that row itself (`ShownInv`), which makes a review by revision safe.
- `EditsAreSound`: any two controls of a track are in order, not only neighbours; a track sorted anew
  is one.
- `RowsStayReadable`: each migration takes a row of the version before it to its own, by the kinds of
  rows.

**DesktopProofs:**

- `OneWorker`: a process that was not told to end is the child and has either answered or is the one a
  `start()` waits for; calls are sent only to a child that has answered (`WorkerInv`).
- `StartupKeepsData`: at each step of a start, where the newest data are (`StartupInv`).
- `OneLiveAttempt` and `SettledRowsAreTrue`: what a row of each state says of the jobs it names
  (`RowIsTrue`), that attempts follow each other, and that the row `advance()` holds across an await is
  the stored one unless the workflow was cancelled since (`AdvanceHolds`).
- `StoreAgrees` says nothing of a write that is under way, of the files an abandoned one left out of step
  (`Stray`), nor of what a crash leaves to the
  reconciliation.  `StoreInv` says of each phase of a write which of its files are renamed
  and which rows exist, of each step of `reconcile()` and of the clean-up what it has already cleared,
  and that no two operations share a path or stand between two awaits at once, which is what lets one
  operation be reasoned about by itself (`OwnStepKeeps`).
- `EditorIsTruthful`, of `PatientSpec`: revision and content go in pairs, in the editor and in every
  answer that is under way; a save is newer than anything that can be applied before it; and what the user
  means is in the draft and in everything a save or a load will restore (`EditorInv`).

- `OneTimeline`, `CropsAreShownAsEdited`, `RenderIsWellFormed` and `ProposalsAreSound`: the data of
  `MCDesktop` satisfy the hypotheses of the theorems of CompositionProofs and ProposalProofs, of which
  these are instances.

**CompositionProofs** is about the functions themselves, for sequences of any length.  There is no
induction over data here; what takes its place is a least counterexample.  `FoldExists` and `Iterates`
give a recursive function over `0..n` its solution, by the first length for which there would be
none, and an invariant of a fold is proved at the first index at which it would fail.

- `TimelinesAlwaysAgree`: the offset of a range is the sum of the lengths before it, offsets grow, and so
  the range the player finds, the one a cue lies in and the one a sample falls into are the same.
  Sorting is by rank: of a finite set with a total order, each rank is taken by one member
  (`InOrderOfTimeSorts`).
- `CropsAgreeAlways`: between two knots of the filter the resolved crop is linear, at a knot it is the
  knot's; controls are in strict order of time.
- `CropsAlwaysSound`: padding, shape and clamping keep a rectangle in the source and around what was
  detected, smoothing mixes rectangles that are.  That the shape is kept is stated up to the rounding of
  the integer model (`HasShape`), which the fractions of the code do not have.
- `GraphsAlwaysWired`: an invariant of the loops over assets, ranges, layers and graphics says which
  labels are open, and each step takes one and gives the next.  A snapshot (`IsSnapshot`) has layers of the kinds
  of the schema, assets that are listed once, and at least one range.
- `CaptionsAlwaysWrapped`: the words of the lines so far and of the line under construction are those of
  the tokens so far, and a line that is too wide consists of its first word.
- `TextLayersAlwaysFit`: among the beginnings of a line that fit with the ellipsis there is a
  longest, and what is drawn fits.

**ProposalProofs:**

- `WallTimesAreResolved`, `DraftsAreLegal` and `SchedulesAreSound` are about the functions: for any
  zone, any rules and any Shorts, a time that exists is resolved to the first instant of that local
  time and one that is skipped is moved on by the gap; a slot is accepted by the test that guards
  moves; and a draft is legal and keeps the spacing, beside the entries that stand.  The lemma
  behind the second is that the local date of a slot is at most a day from its date in UTC.
- `CalendarIsKept`: entries at different instants, those of an Episode apart under the rules of the
  later of the two (`EntriesAreApart`); a screen shows an earlier revision or the stored row
  (`ScreenIsTrue`); hence what is published is what its client saw.
- `CandidatesAlwaysSound` is about transcripts whose segments are ordered and do not overlap, as
  `timedSegmentsSchema` demands, of any length.  Best first is an order by number of better ones
  (`BestFirstSorts`).  Each proposal lies in one cluster, and the member its duplicates are compared
  with is its best (`ClustersAre`), so that what is dropped has a better likeness and what is offered
  has none (`SelectionIsSound`).  The sums of the diagnostic are folds over the segments; the windows
  from each are those rejected and those allowed (`WindowsCounted`).  A highlight is widened while it
  is too short, one segment at a time and never narrowed, and given up where it is too long or nothing
  is left to add; the steps are as many as there are segments (`HighlightCovered`).

What the proofs changed in the model.  Overlapping arms of a CASE leave the value open; TLC takes the
first and never shows it.  Four were found and made disjoint (`Audio` in Migrations, `Receive` in
CloudAnalysis, `Initialized` in ModelInstall, `RetryState` in ShortWorkflow).  `Advance` of ShortWorkflow
reads its row afresh, as the code does, and now says so.  `lapsedPosts` counts by credential, since a
new grant starts anew.  The attempt on `EditorIsTruthful` without `Patient` gave the behaviour of the
editor described above.

Proved without a run: `TypeOK` of JobQueue, RenderLifecycle and EpisodeSource, `StoreTypeOK`,
`JobTypeOK`, `SupervisorTypeOK` and `WorkflowTypeOK`; `RunningJobIsDriven`, `VerdictHonoursCancel`
and `BoundedExecutions` of JobQueue; `BoundRevisionsAreApproved`, `PublishedIsFrozen` and
`VerdictsAreFinal` of RenderLifecycle; and the theorems on the functions of ScheduleDraft, of
Candidates and of CompositionProofs.

Only model-checked:

- The liveness properties (`JobsSettle`, `AttemptsEnd`, `SourcesAreReconciled`, `WaitingEnds`,
  `CloudJobsSettle`, `JobsReachTheQueue`), which need ENABLED.
- The editor of an impatient user, whose other promises are checked within the bounds of the run only.

## Not modelled

Job progress and stage (display only); validation and dispatch in the HTTP and MCP
layers, which keep no state; views, windows and dialogs; release scripts; what
ffmpeg, the speech models and the identity provider compute.  Of modelled components: folder
configuration, watchers and globs; assets; the scores of candidates and the contents of prompts;
the tables and indexes of the migrations; path validation; invitations, seats, tokens and sessions of the hosted accounts; Screenletter recordings,
durable events and usage periods that end; a zone with two changes of offset within three
days, where the resolution picks the largest gap, and a gap at the boundary of a day.
`PROJECT.json` says of each component what is missing.

## Plan

What could follow, in this order:

1. The refinement of ArtifactStore to a set of complete artifacts that changes in one step.
2. What the editor keeps to without `Patient`.
3. A composition of EpisodeSource with RenderLifecycle, which decides which content a success
   shows, and of EpisodeSource with CloudAnalysis; they cover the relink during a
   Render and the first of the three hazards above.
4. Invitations and seats of the hosted accounts, and usage periods.
