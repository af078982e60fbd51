------------------------- MODULE RenderLifecycleProofs -------------------------
(***************************************************************************)
(* Proofs about RenderLifecycle, for any Shorts, Episodes, Renders and     *)
(* bounds: types, that nothing outdated can be published (CoreInv), two    *)
(* action properties, and that a Render and its job agree (PairInv).       *)
(***************************************************************************)
EXTENDS RenderLifecycle, TLAPS

-----------------------------------------------------------------------------
(***************************************************************************)
(* Types.                                                                  *)
(***************************************************************************)

LEMMA InitTypeOK == Init => TypeOK
<1> SUFFICES ASSUME Init PROVE TypeOK
  OBVIOUS
<1>1. shorts \in [Shorts -> ShortRow]
  <2>1. PICK accepted \in [Shorts -> BOOLEAN] :
          shorts = [s \in Shorts |-> [revision |-> 1, approved |-> FALSE,
                                      copyAccepted |-> accepted[s]]]
    BY DEF Init
  <2>2. QED
    BY <2>1 DEF ShortRow
<1>2. renders \in [Renders -> Render] /\ jobs \in [Renders -> Job]
  BY DEF Init, NoRenderRow, NoJob, Render, Job, RenderStates, JobStates
<1>3. entries \in [Shorts -> Entry]
  BY DEF Init, NoEntry, Entry
<1>4. QED
  BY <1>1, <1>2, <1>3, BoundsAssumption DEF Init, TypeOK, IdleWorker, Phases

\* The rows that edits write.
LEMMA RevisedRow ==
    ASSUME NEW row \in ShortRow
    PROVE  [row EXCEPT !.approved = FALSE, !.revision = @ + 1] \in ShortRow
<1>1. row.revision + 1 \in Nat
  BY DEF ShortRow
<1>2. QED
  BY <1>1 DEF ShortRow

LEMMA FlaggedRow ==
    ASSUME NEW row \in Entry
    PROVE  [row EXCEPT !.needsRerender = TRUE, !.revision = @ + 1] \in Entry
<1>1. row.revision + 1 \in Nat
  BY DEF Entry
<1>2. QED
  BY <1>1 DEF Entry

\* The three writes that edits share.
LEMMA ReviseType ==
    ASSUME TypeOK, NEW S, ReviseAffecting(S)
    PROVE  shorts' \in [Shorts -> ShortRow] /\ lastAffecting' \in [Shorts -> Nat]
<1>1. \A s \in Shorts : shorts[s] \in ShortRow /\ lastAffecting[s] \in Nat
  BY DEF TypeOK
<1>2. shorts' \in [Shorts -> ShortRow]
  BY <1>1, RevisedRow DEF ReviseAffecting
<1>3. lastAffecting' \in [Shorts -> Nat]
  <2>1. \A s \in Shorts : shorts[s].revision + 1 \in Nat
    BY <1>1 DEF ShortRow
  <2>2. lastAffecting' = [s \in Shorts |->
            IF s \in S THEN shorts[s].revision + 1 ELSE lastAffecting[s]]
    BY DEF ReviseAffecting
  <2>3. QED
    BY <1>1, <2>1, <2>2
<1>4. QED
  BY <1>2, <1>3

LEMMA StaleType ==
    ASSUME TypeOK, NEW R, StaleSucceeded(R) PROVE renders' \in [Renders -> Render]
BY DEF StaleSucceeded, TypeOK, Render, RenderStates

LEMMA FlagType ==
    ASSUME TypeOK, NEW S, FlagEntries(S) PROVE entries' \in [Shorts -> Entry]
<1>1. \A s \in Shorts : entries[s] \in Entry
  BY DEF TypeOK
<1>2. QED
  BY <1>1, FlaggedRow DEF FlagEntries

LEMMA EditType == ASSUME TypeOK, EditStep PROVE TypeOK'
<1>1. ASSUME NEW s \in Shorts, UpdateShort(s) PROVE TypeOK'
  BY <1>1, ReviseType, StaleType, FlagType
     DEF UpdateShort, TypeOK, attemptVars, preVars, processVars
<1>2. ASSUME NEW s \in Shorts, UpdateShortCopy(s) PROVE TypeOK'
  <2>1. /\ shorts[s] \in ShortRow
        /\ shorts' = [shorts EXCEPT ![s] =
             [shorts[s] EXCEPT !.revision = @ + 1, !.copyAccepted = TRUE]]
    BY <1>2 DEF UpdateShortCopy, TypeOK
  <2>2. shorts[s].revision + 1 \in Nat
    BY <2>1 DEF ShortRow
  <2>3. [shorts[s] EXCEPT !.revision = @ + 1, !.copyAccepted = TRUE] \in ShortRow
    BY <2>1, <2>2 DEF ShortRow
  <2>4. shorts' \in [Shorts -> ShortRow]
    BY <2>1, <2>3 DEF TypeOK
  <2>5. QED
    BY <1>2, <2>4 DEF UpdateShortCopy, TypeOK, attemptVars, preVars, processVars
<1>3. ASSUME NEW s \in Shorts, UpdateShortTimeline(s) PROVE TypeOK'
  BY <1>3, ReviseType, StaleType, FlagType
     DEF UpdateShortTimeline, TypeOK, attemptVars, preVars, processVars
<1>4. ASSUME NEW s \in Shorts, UpdateShortTrack(s) PROVE TypeOK'
  BY <1>4, ReviseType, StaleType, FlagType
     DEF UpdateShortTrack, TypeOK, attemptVars, preVars, processVars
<1>5. ASSUME NEW s \in Shorts, ApproveShort(s) PROVE TypeOK'
  BY <1>5 DEF ApproveShort, TypeOK, ShortRow, attemptVars, preVars, processVars
<1>6. ASSUME NEW e \in Episodes, AcceptTranscriptRevision(e) PROVE TypeOK'
  BY <1>6, ReviseType, StaleType, FlagType
     DEF AcceptTranscriptRevision, TypeOK, attemptVars, preVars, processVars
<1>7. ASSUME NEW e \in Episodes, MarkEpisodeSourceMissing(e) PROVE TypeOK'
  BY <1>7 DEF MarkEpisodeSourceMissing, TypeOK, attemptVars, preVars, processVars
<1>8. ASSUME NEW e \in Episodes, RestoreEpisode(e) PROVE TypeOK'
  BY <1>8 DEF RestoreEpisode, TypeOK, attemptVars, preVars, processVars
<1>9. ASSUME NEW e \in Episodes, RelinkOtherContent(e) PROVE TypeOK'
  BY <1>9, StaleType, FlagType DEF RelinkOtherContent, TypeOK, attemptVars, preVars, processVars
<1>10. QED
  BY <1>1, <1>2, <1>3, <1>4, <1>5, <1>6, <1>7, <1>8, <1>9 DEF EditStep

LEMMA InsertType ==
    ASSUME TypeOK, NEW r \in Renders, NEW row \in Render, InsertAttempt(r, row)
    PROVE  TypeOK'
<1>1. [NoJob EXCEPT !.state = "queued"] \in Job
  BY DEF NoJob, Job, JobStates
<1>2. QED
  BY <1>1 DEF InsertAttempt, TypeOK, shortVars, attemptVars, preVars, processVars

LEMMA RequestType == ASSUME TypeOK, RequestStep PROVE TypeOK'
<1>1. ASSUME NEW s \in Shorts, BeginPreflight(s) PROVE TypeOK'
  BY <1>1
     DEF BeginPreflight, Current, TypeOK, Binding, ShortRow, shortVars, attemptVars,
         processVars
<1>2. ASSUME NEW p \in checking, NEW passed \in BOOLEAN, EndPreflight(p, passed)
      PROVE  TypeOK'
  BY <1>2 DEF EndPreflight, TypeOK, shortVars, attemptVars, processVars
<1>3. ASSUME NEW r \in Renders, NEW s \in Shorts, StartRenderAttempt(r, s) PROVE TypeOK'
  <2>1. [state |-> "queued", short |-> s, revision |-> shorts[s].revision,
         lineage |-> r, attempt |-> 1] \in Render
    BY DEF TypeOK, ShortRow, Render, RenderStates
  <2>2. QED
    BY <1>3, <2>1, InsertType DEF StartRenderAttempt
<1>4. ASSUME NEW r \in Renders, NEW source \in Renders, RetryRenderAttempt(r, source)
      PROVE  TypeOK'
  <2>1. renders[source] \in Render /\ renders[source].attempt + 1 \in Nat
    BY DEF TypeOK, Render
  <2>2. [renders[source] EXCEPT !.state = "queued", !.attempt = @ + 1] \in Render
    BY <2>1 DEF Render, RenderStates
  <2>3. QED
    BY <1>4, <2>2, InsertType DEF RetryRenderAttempt
<1>5. ASSUME NEW r \in Renders, CancelQueued(r) PROVE TypeOK'
  BY <1>5 DEF CancelQueued, TypeOK, Job, JobStates, Render, RenderStates,
              shortVars, attemptVars, preVars, processVars
<1>6. ASSUME NEW r \in Renders, CancelRunning(r) PROVE TypeOK'
  BY <1>6 DEF CancelRunning, TypeOK, Job, shortVars, attemptVars, preVars, processVars
<1>7. QED
  BY <1>1, <1>2, <1>3, <1>4, <1>5, <1>6 DEF RequestStep

LEMMA EndType ==
    ASSUME TypeOK, NEW r \in Renders, NEW state \in RenderStates, NEW phase \in Phases,
           EndAttempt(r, state, phase)
    PROVE  TypeOK'
BY DEF EndAttempt, TypeOK, Render, shortVars, attemptVars, preVars, processVars

LEMMA HandlerType ==
    ASSUME TypeOK, NEW r \in Renders, BeginRender(r) \/ HandlerStep(r) PROVE TypeOK'
<1>1. CASE BeginRender(r)
  <2>1. renders' \in [Renders -> Render]
    BY <1>1 DEF BeginRender, TypeOK, Render, RenderStates
  <2>2. jobs' \in [Renders -> Job]
    BY <1>1 DEF BeginRender, TypeOK, Job, JobStates
  <2>3. QED
    BY <1>1, <2>1, <2>2
       DEF BeginRender, TypeOK, Phases, shortVars, attemptVars, preVars, processVars
<1>2. Rethrown(r) \in Phases
  BY DEF Rethrown, Phases
<1>3. CASE AbortRender(r)
  BY <1>2, <1>3, EndType DEF AbortRender, RenderStates
<1>4. CASE DiscardOutdated(r)
  BY <1>2, <1>4, EndType DEF DiscardOutdated, RenderStates
<1>5. CASE FinalizeArtifacts(r)
  BY <1>5 DEF FinalizeArtifacts, TypeOK, Phases, shortVars, attemptVars, preVars, processVars
<1>6. ASSUME NEW matches \in BOOLEAN, CompleteRenderAttempt(r, matches) PROVE TypeOK'
  <2>1. CompletedState(r, matches) \in RenderStates /\ "returned" \in Phases
    BY DEF CompletedState, RenderStates, Phases
  <2>2. QED
    BY <1>2, <1>6, <2>1, EndType DEF CompleteRenderAttempt
<1>7. CASE FinishJob(r)
  <2>1. JobVerdict(r) \in JobStates
    BY DEF JobVerdict, JobStates
  <2>2. QED
    BY <1>7, <2>1 DEF FinishJob, TypeOK, Job, IdleWorker, Phases,
                      shortVars, attemptVars, preVars, processVars
<1>8. CASE AbortFails(r) \/ CleanUpFails(r)
  BY <1>8 DEF AbortFails, CleanUpFails, LeaveUncleaned, TypeOK, Phases, preVars, processVars
<1>9. QED
  BY <1>1, <1>3, <1>4, <1>5, <1>6, <1>7, <1>8 DEF HandlerStep

LEMMA ScheduleType == ASSUME TypeOK, ScheduleStep PROVE TypeOK'
<1>1. ASSUME NEW s \in Shorts, NEW r \in Renders, DraftSchedule(s, r) PROVE TypeOK'
  BY <1>1 DEF DraftSchedule, TypeOK, Entry, shortVars, attemptVars, preVars, processVars
<1>2. ASSUME NEW s \in Shorts, MoveScheduleEntry(s) PROVE TypeOK'
  BY <1>2 DEF MoveScheduleEntry, TypeOK, Entry, shortVars, attemptVars, preVars, processVars
<1>3. ASSUME NEW s \in Shorts, MarkPublished(s) PROVE TypeOK'
  BY <1>3 DEF MarkPublished, TypeOK, Entry, shortVars, attemptVars, preVars, processVars
<1>4. QED
  BY <1>1, <1>2, <1>3 DEF ScheduleStep

LEMMA CrashType ==
    ASSUME TypeOK, Crash \/ \E r \in Renders : CrashAfterClaim(r) PROVE TypeOK'
<1>1. CASE Crash
  BY <1>1, BoundsAssumption DEF Crash, TypeOK, IdleWorker, Phases, shortVars, attemptVars
<1>2. ASSUME NEW r \in Renders, CrashAfterClaim(r) PROVE TypeOK'
  BY <1>2, BoundsAssumption DEF CrashAfterClaim, TypeOK, Job, JobStates, shortVars, attemptVars
<1>3. QED
  BY <1>1, <1>2

LEMMA RestartType == ASSUME TypeOK, Restart PROVE TypeOK'
<1>1. ASSUME NEW corrupt \in SUBSET Renders, ReconcileRenderArtifacts(corrupt)
      PROVE  TypeOK'
  <2>1. renders' \in [Renders -> Render]
    BY <1>1, SMTT(30) DEF ReconcileRenderArtifacts, TypeOK, Render, RenderStates
  <2>2. entries' \in [Shorts -> Entry]
    <3>1. \A s \in Shorts : /\ entries[s] \in Entry
                            /\ [entries[s] EXCEPT !.needsRerender = TRUE] \in Entry
      BY DEF TypeOK, Entry
    <3>2. QED
      BY <1>1, <3>1 DEF ReconcileRenderArtifacts
  <2>3. QED
    BY <1>1, <2>1, <2>2 DEF ReconcileRenderArtifacts, TypeOK, shortVars, attemptVars, preVars
<1>2. CASE RecoverJobs
  <2>1. \A r \in Renders : RecoveredRender(r) \in RenderStates
    BY DEF RecoveredRender, TypeOK, Render, RenderStates
  <2>2. \A r \in Renders : RecoveredJob(r) \in JobStates
    BY DEF RecoveredJob, TypeOK, Job, JobStates, Render, RenderStates
  <2>3. renders' \in [Renders -> Render]
    BY <1>2, <2>1 DEF RecoverJobs, TypeOK, Render
  <2>4. jobs' \in [Renders -> Job]
    BY <1>2, <2>2 DEF RecoverJobs, TypeOK, Job
  <2>5. QED
    BY <1>2, <2>3, <2>4 DEF RecoverJobs, TypeOK, shortVars, attemptVars, preVars
<1>3. QED
  BY <1>1, <1>2 DEF Restart

LEMMA NextTypeOK == ASSUME TypeOK, [Next]_vars PROVE TypeOK'
<1>1. CASE UNCHANGED vars
  BY <1>1 DEF vars, TypeOK
<1>2. QED
  BY <1>1, EditType, RequestType, HandlerType, ScheduleType, CrashType, RestartType
     DEF Next

\* Every table row, and what the process holds beside them, keeps its type.
THEOREM TypeCorrect == Spec => []TypeOK
BY InitTypeOK, NextTypeOK, PTL DEF Spec
-----------------------------------------------------------------------------
(***************************************************************************)
(* A success, and what is scheduled of it, is never outdated.  The four    *)
(* parts of CoreInv hold each other up: a Render completes as a success    *)
(* only at the revision its Short has, no revision is older than the last  *)
(* change to the output, and a change never meets a Render that is bound   *)
(* to the revision it is about to make.                                    *)
(***************************************************************************)

ChangesAreRevisions == \A s \in Shorts : lastAffecting[s] <= shorts[s].revision

CoreInv == /\ TypeOK
           /\ ChangesAreRevisions
           /\ BoundRevisionsAreApproved
           /\ SuccessIsCurrent
           /\ PublishableIsCurrent

LEMMA InitCore == Init => CoreInv
<1> SUFFICES ASSUME Init PROVE CoreInv
  OBVIOUS
<1>1. /\ \A s \in Shorts : shorts[s].revision = 1 /\ lastAffecting[s] = 1
      /\ \A r \in Renders : renders[r].state = "absent"
      /\ \A s \in Shorts : entries[s].status = "none"
  BY DEF Init, NoRenderRow, NoEntry
<1>2. QED
  BY <1>1, InitTypeOK DEF CoreInv, ChangesAreRevisions, BoundRevisionsAreApproved,
     SuccessIsCurrent, PublishableIsCurrent, OpenEntry

\* The parts of a row that identify what a Render shows.
SameBinding(r) == /\ renders'[r].short = renders[r].short
                  /\ renders'[r].revision = renders[r].revision

\* r shows the approved revision its Short has.
BoundToCurrent(r) == /\ renders'[r].short \in Shorts
                     /\ renders'[r].revision = shorts[renders'[r].short].revision
                     /\ shorts[renders'[r].short].approved

\* Steps of the render machinery: Renders appear, and succeed, at the current
\* revision, and no success is touched.
LEMMA RenderStepCore ==
    ASSUME CoreInv, TypeOK', UNCHANGED <<shorts, lastAffecting, entries>>,
           unrelinked \subseteq unrelinked',
           \A r \in Renders : renders'[r].state # "absent" =>
               (renders[r].state # "absent" /\ SameBinding(r)) \/ BoundToCurrent(r),
           \A r \in Renders : renders'[r].state = "succeeded" =>
               \/ renders[r].state = "succeeded" /\ SameBinding(r)
               \/ BoundToCurrent(r) /\ r \in unrelinked',
           \A r \in Renders : renders[r].state = "succeeded" =>
               renders'[r].state = "succeeded" /\ SameBinding(r)
    PROVE  CoreInv'
<1>1. ChangesAreRevisions'
  BY DEF CoreInv, ChangesAreRevisions
<1>2. \A s \in Shorts : shorts[s].revision \in Nat
  BY DEF CoreInv, TypeOK, ShortRow
<1>3. BoundRevisionsAreApproved'
  BY <1>2 DEF CoreInv, BoundRevisionsAreApproved, SameBinding, BoundToCurrent
<1>4. SuccessIsCurrent'
  BY <1>2
     DEF CoreInv, SuccessIsCurrent, ShowsCurrent, ChangesAreRevisions, SameBinding,
         BoundToCurrent
<1>5. PublishableIsCurrent'
  BY DEF CoreInv, PublishableIsCurrent, ShowsCurrent, OpenEntry, SameBinding
<1>6. QED
  BY <1>1, <1>3, <1>4, <1>5 DEF CoreInv

\* Steps that revise Shorts, withdraw successes or close entries: where the
\* output changes no success remains, and an entry that stays publishable
\* keeps its successful Render.
LEMMA RevisionStepCore ==
    ASSUME CoreInv, TypeOK', ChangesAreRevisions',
           \A s \in Shorts : shorts'[s] = shorts[s]
                             \/ shorts[s].revision < shorts'[s].revision,
           \A r \in Renders : /\ SameBinding(r)
                              /\ renders'[r].state = "absent" <=> renders[r].state = "absent"
                              /\ renders'[r].state = "succeeded" =>
                                   /\ renders[r].state = "succeeded"
                                   /\ lastAffecting'[renders[r].short]
                                        = lastAffecting[renders[r].short]
                                   /\ r \in unrelinked => r \in unrelinked',
           \A s \in Shorts : OpenEntry(s)' /\ ~entries'[s].needsRerender =>
               /\ OpenEntry(s) /\ ~entries[s].needsRerender
               /\ entries'[s].render = entries[s].render
               /\ renders'[entries[s].render].state = renders[entries[s].render].state
    PROVE  CoreInv'
<1>1. /\ \A s \in Shorts : shorts[s].revision \in Nat /\ shorts'[s].revision \in Nat
      /\ \A r \in Renders : renders[r].revision \in Nat
  BY DEF CoreInv, TypeOK, ShortRow, Render
<1>2. BoundRevisionsAreApproved'
  BY <1>1 DEF CoreInv, BoundRevisionsAreApproved, SameBinding
<1>3. SuccessIsCurrent'
  BY DEF CoreInv, SuccessIsCurrent, ShowsCurrent, SameBinding
<1>4. PublishableIsCurrent'
  BY DEF CoreInv, PublishableIsCurrent, ShowsCurrent, OpenEntry, SameBinding
<1>5. QED
  BY <1>2, <1>3, <1>4 DEF CoreInv

\* What the two UPDATE statements of an edit leave behind.
LEMMA StaleEffect ==
    ASSUME TypeOK, NEW R, StaleSucceeded(R)
    PROVE  \A r \in Renders :
             /\ SameBinding(r)
             /\ renders'[r].state = "absent" <=> renders[r].state = "absent"
             /\ renders'[r].state = "succeeded" => renders[r].state = "succeeded" /\ r \notin R
             /\ r \notin R => renders'[r].state = renders[r].state
BY DEF StaleSucceeded, TypeOK, Render, SameBinding

LEMMA FlagEffect ==
    ASSUME TypeOK, NEW S, FlagEntries(S)
    PROVE  \A s \in Shorts : OpenEntry(s)' /\ ~entries'[s].needsRerender =>
             s \notin S /\ entries'[s] = entries[s]
BY DEF FlagEntries, TypeOK, Entry, OpenEntry

LEMMA ReviseEffect ==
    ASSUME CoreInv, NEW S, ReviseAffecting(S)
    PROVE  /\ ChangesAreRevisions'
           /\ \A s \in Shorts : IF s \in S THEN shorts[s].revision < shorts'[s].revision
                                ELSE /\ shorts'[s] = shorts[s]
                                     /\ lastAffecting'[s] = lastAffecting[s]
<1>1. \A s \in Shorts : shorts[s] \in ShortRow /\ shorts[s].revision \in Nat
  BY DEF CoreInv, TypeOK, ShortRow
<1>2. ASSUME NEW s \in Shorts, s \in S
      PROVE  shorts'[s].revision = shorts[s].revision + 1
  BY <1>1, <1>2 DEF ReviseAffecting, ShortRow
<1>3. ASSUME NEW s \in Shorts, s \notin S
      PROVE  shorts'[s] = shorts[s] /\ lastAffecting'[s] = lastAffecting[s]
  BY <1>3 DEF ReviseAffecting
<1>4. ASSUME NEW s \in Shorts, s \in S
      PROVE  lastAffecting'[s] = shorts[s].revision + 1
  BY <1>4 DEF ReviseAffecting
<1>5. ChangesAreRevisions'
  <2>1. SUFFICES ASSUME NEW s \in Shorts
                 PROVE  lastAffecting'[s] <= shorts'[s].revision
    BY DEF ChangesAreRevisions
  <2>2. CASE s \in S
    BY <1>1, <1>2, <1>4, <2>2
  <2>3. CASE s \notin S
    BY <1>3, <2>3 DEF CoreInv, ChangesAreRevisions
  <2>4. QED
    BY <2>2, <2>3
<1>6. QED
  BY <1>1, <1>2, <1>3, <1>5

\* A change of the output of the Shorts in S is safe if it makes all their
\* successes stale and flags their entries.
LEMMA AffectingChangeCore ==
    ASSUME CoreInv, TypeOK', NEW S, NEW R, ReviseAffecting(S), StaleSucceeded(R),
           FlagEntries(S), unrelinked' = unrelinked, R \subseteq RendersOf(S),
           \A r \in RendersOf(S) : renders[r].state = "succeeded" => r \in R
    PROVE  CoreInv'
<1>1. TypeOK
  BY DEF CoreInv
<1>2. \A r \in Renders : renders[r].state = "succeeded" => renders[r].short \in Shorts
  BY DEF CoreInv, SuccessIsCurrent
<1>3. \A r \in Renders : renders'[r].state = "succeeded" =>
        /\ renders[r].state = "succeeded"
        /\ lastAffecting'[renders[r].short] = lastAffecting[renders[r].short]
  BY <1>1, <1>2, StaleEffect, ReviseEffect DEF RendersOf
<1>4. ASSUME NEW s \in Shorts, OpenEntry(s)', ~entries'[s].needsRerender
      PROVE  /\ OpenEntry(s) /\ ~entries[s].needsRerender
             /\ entries'[s].render = entries[s].render
             /\ renders'[entries[s].render].state = renders[entries[s].render].state
  <2>1. s \notin S /\ entries'[s] = entries[s]
    BY <1>1, <1>4, FlagEffect
  <2>2. OpenEntry(s) /\ ~entries[s].needsRerender
    BY <1>4, <2>1 DEF OpenEntry
  <2>3. entries[s].render \in Renders /\ renders[entries[s].render].short = s
    BY <2>2 DEF CoreInv, PublishableIsCurrent
  <2>4. QED
    BY <1>1, <2>1, <2>2, <2>3, StaleEffect DEF RendersOf
<1>5. QED
  BY <1>1, <1>3, <1>4, ReviseEffect, StaleEffect, RevisionStepCore

LEMMA EditCore == ASSUME CoreInv, TypeOK', EditStep PROVE CoreInv'
<1>1. /\ TypeOK
      /\ \A s \in Shorts : shorts[s].revision \in Nat
      /\ \A r \in Renders : renders[r].revision \in Nat
  BY DEF CoreInv, TypeOK, ShortRow, Render
<1>2. \A s \in Shorts : \A r \in RendersOf({s}) : renders[r].state = "succeeded" =>
        renders[r].revision <= shorts[s].revision
  BY DEF CoreInv, BoundRevisionsAreApproved, RendersOf
<1>3. ASSUME NEW s \in Shorts, UpdateShort(s) PROVE CoreInv'
  <2> DEFINE R == {r \in RendersOf({s}) : renders[r].revision # shorts[s].revision + 1}
  <2>1. /\ ReviseAffecting({s}) /\ StaleSucceeded(R) /\ FlagEntries({s})
        /\ unrelinked' = unrelinked
    BY <1>3 DEF UpdateShort, attemptVars
  <2>2. /\ R \subseteq RendersOf({s})
        /\ \A r \in RendersOf({s}) : renders[r].state = "succeeded" => r \in R
    BY <1>1, <1>2 DEF RendersOf
  <2> HIDE DEF R
  <2>3. QED
    BY <2>1, <2>2, AffectingChangeCore
<1>4. ASSUME NEW s \in Shorts, UpdateShortTimeline(s) PROVE CoreInv'
  BY <1>4, AffectingChangeCore DEF UpdateShortTimeline, attemptVars
<1>5. ASSUME NEW s \in Shorts, UpdateShortTrack(s) PROVE CoreInv'
  <2> DEFINE R == {r \in RendersOf({s}) : renders[r].revision < shorts[s].revision + 1}
  <2>1. /\ ReviseAffecting({s}) /\ StaleSucceeded(R) /\ FlagEntries({s})
        /\ unrelinked' = unrelinked
    BY <1>5 DEF UpdateShortTrack, attemptVars
  <2>2. /\ R \subseteq RendersOf({s})
        /\ \A r \in RendersOf({s}) : renders[r].state = "succeeded" => r \in R
    BY <1>1, <1>2 DEF RendersOf
  <2> HIDE DEF R
  <2>3. QED
    BY <2>1, <2>2, AffectingChangeCore
<1>6. ASSUME NEW e \in Episodes, AcceptTranscriptRevision(e) PROVE CoreInv'
  BY <1>6, AffectingChangeCore DEF AcceptTranscriptRevision, attemptVars
<1>7. ASSUME NEW s \in Shorts, UpdateShortCopy(s) \/ ApproveShort(s) PROVE CoreInv'
  <2>1. /\ UNCHANGED <<lastAffecting, unrelinked, renders, entries>>
        /\ \A q \in Shorts : shorts'[q] = shorts[q]
                             \/ shorts[q].revision < shorts'[q].revision
    BY <1>1, <1>7 DEF UpdateShortCopy, ApproveShort, TypeOK, ShortRow, attemptVars
  <2>2. ChangesAreRevisions'
    BY <1>1, <2>1 DEF CoreInv, ChangesAreRevisions, TypeOK, ShortRow
  <2>3. QED
    BY <2>1, <2>2, RevisionStepCore DEF SameBinding, OpenEntry
<1>8. ASSUME NEW e \in Episodes, MarkEpisodeSourceMissing(e) \/ RestoreEpisode(e)
      PROVE  CoreInv'
  <2>1. UNCHANGED <<shorts, lastAffecting, unrelinked, renders, entries>>
    BY <1>8 DEF MarkEpisodeSourceMissing, RestoreEpisode, attemptVars
  <2>2. QED
    BY <2>1, RenderStepCore DEF SameBinding
<1>9. ASSUME NEW e \in Episodes, RelinkOtherContent(e) PROVE CoreInv'
  <2>1. UNCHANGED <<shorts, lastAffecting>> /\ ChangesAreRevisions'
    BY <1>9 DEF RelinkOtherContent, CoreInv, ChangesAreRevisions
  <2>2. /\ StaleSucceeded(RendersOf(ShortsOf(e)))
        /\ FlagEntries(ShortsOf(e))
    BY <1>9 DEF RelinkOtherContent
  <2>3. ASSUME NEW s \in Shorts, OpenEntry(s)', ~entries'[s].needsRerender
        PROVE  /\ OpenEntry(s) /\ ~entries[s].needsRerender
               /\ entries'[s].render = entries[s].render
               /\ renders'[entries[s].render].state = renders[entries[s].render].state
    <3>1. s \notin ShortsOf(e) /\ entries'[s] = entries[s]
      BY <1>1, <2>2, <2>3, FlagEffect
    <3>2. OpenEntry(s) /\ ~entries[s].needsRerender
      BY <2>3, <3>1 DEF OpenEntry
    <3>3. entries[s].render \in Renders /\ renders[entries[s].render].short = s
      BY <3>2 DEF CoreInv, PublishableIsCurrent
    <3>4. QED
      BY <1>1, <2>2, <3>1, <3>2, <3>3, StaleEffect DEF RendersOf
  <2>4. \A r \in Renders :
          /\ SameBinding(r)
          /\ renders'[r].state = "absent" <=> renders[r].state = "absent"
          /\ renders'[r].state = "succeeded" =>
               renders[r].state = "succeeded" /\ r \notin RendersOf(ShortsOf(e))
    BY <1>1, <2>2, StaleEffect
  <2>5. \A r \in Renders : r \in unrelinked /\ r \notin RendersOf(ShortsOf(e)) =>
          r \in unrelinked'
    BY <1>9 DEF RelinkOtherContent
  <2>6. QED
    BY <2>1, <2>3, <2>4, <2>5, RevisionStepCore
<1>10. QED
  BY <1>3, <1>4, <1>5, <1>6, <1>7, <1>8, <1>9 DEF EditStep

\* One Render changes its state, from one that is not a success.
LEMMA OneRenderCore ==
    ASSUME CoreInv, TypeOK', UNCHANGED <<shorts, lastAffecting, entries>>,
           NEW r \in Renders, NEW state \in RenderStates,
           renders[r].state \notin {"absent", "succeeded"},
           renders' = [renders EXCEPT ![r].state = state],
           unrelinked \subseteq unrelinked',
           state = "succeeded" => BoundRevisionHolds(r) /\ r \in unrelinked'
    PROVE  CoreInv'
<1>1. TypeOK
  BY DEF CoreInv
<1>2. \A q \in Renders : /\ SameBinding(q)
                         /\ q # r => renders'[q].state = renders[q].state
  BY <1>1 DEF SameBinding, TypeOK, Render
<1>3. renders'[r].state = state
  BY <1>1 DEF TypeOK, Render
<1>4. renders[r].short \in Shorts
  BY DEF CoreInv, BoundRevisionsAreApproved
<1>5. state = "succeeded" => BoundToCurrent(r) /\ r \in unrelinked'
  BY <1>2, <1>4 DEF BoundRevisionHolds, BoundToCurrent, SameBinding
<1>6. QED
  BY <1>2, <1>3, <1>5, RenderStepCore

LEMMA InsertCore ==
    ASSUME CoreInv, TypeOK', NEW r \in Renders, NEW row, InsertAttempt(r, row),
           row.state = "queued", row.short \in Shorts,
           row.revision = shorts[row.short].revision, shorts[row.short].approved
    PROVE  CoreInv'
<1>1. /\ renders[r].state = "absent"
      /\ renders'[r] = row
      /\ \A q \in Renders \ {r} : renders'[q] = renders[q]
      /\ UNCHANGED <<shorts, lastAffecting, unrelinked, entries>>
  BY DEF InsertAttempt, CoreInv, TypeOK, shortVars, attemptVars
<1>2. BoundToCurrent(r) /\ \A q \in Renders \ {r} : SameBinding(q)
  BY <1>1 DEF BoundToCurrent, SameBinding
<1>3. QED
  BY <1>1, <1>2, RenderStepCore

LEMMA RequestCore == ASSUME CoreInv, TypeOK', RequestStep PROVE CoreInv'
<1>1. ASSUME UNCHANGED <<shorts, lastAffecting, unrelinked, renders, entries>>
      PROVE  CoreInv'
  BY <1>1, RenderStepCore DEF SameBinding
<1>2. ASSUME NEW s \in Shorts, BeginPreflight(s) PROVE CoreInv'
  BY <1>1, <1>2 DEF BeginPreflight, shortVars, attemptVars
<1>3. ASSUME NEW p \in checking, NEW passed \in BOOLEAN, EndPreflight(p, passed)
      PROVE  CoreInv'
  BY <1>1, <1>3 DEF EndPreflight, shortVars, attemptVars
<1>4. ASSUME NEW r \in Renders, NEW s \in Shorts, StartRenderAttempt(r, s) PROVE CoreInv'
  BY <1>4, InsertCore DEF StartRenderAttempt
<1>5. ASSUME NEW r \in Renders, NEW source \in Renders, RetryRenderAttempt(r, source)
      PROVE  CoreInv'
  <2>1. renders[source] \in Render /\ renders[source].short \in Shorts
    BY <1>5 DEF CoreInv, TypeOK, BoundRevisionsAreApproved, RetryRenderAttempt, MayRetry
  <2> DEFINE row == [renders[source] EXCEPT !.state = "queued", !.attempt = @ + 1]
  <2>2. /\ row.state = "queued"
        /\ row.short = renders[source].short
        /\ row.revision = renders[source].revision
    BY <2>1 DEF Render
  <2>3. InsertAttempt(r, row)
    BY <1>5 DEF RetryRenderAttempt
  <2>4. row.revision = shorts[row.short].revision /\ shorts[row.short].approved
    BY <1>5, <2>2 DEF RetryRenderAttempt, MayRetry
  <2> HIDE DEF row
  <2>5. QED
    BY <2>1, <2>2, <2>3, <2>4, InsertCore
<1>6. ASSUME NEW r \in Renders, CancelQueued(r) PROVE CoreInv'
  BY <1>6, OneRenderCore DEF CancelQueued, RenderStates, shortVars, attemptVars
<1>7. ASSUME NEW r \in Renders, CancelRunning(r) PROVE CoreInv'
  BY <1>1, <1>7 DEF CancelRunning, shortVars, attemptVars
<1>8. QED
  BY <1>2, <1>3, <1>4, <1>5, <1>6, <1>7 DEF RequestStep

LEMMA HandlerCore ==
    ASSUME CoreInv, TypeOK', NEW r \in Renders, BeginRender(r) \/ HandlerStep(r)
    PROVE  CoreInv'
<1>1. ASSUME UNCHANGED <<shorts, lastAffecting, unrelinked, renders, entries>>
      PROVE  CoreInv'
  BY <1>1, RenderStepCore DEF SameBinding
<1>2. CASE BeginRender(r)
  <2>1. CASE renders[r].state = "queued"
    <3>1. renders' = [renders EXCEPT ![r].state = "running"]
      BY <1>2, <2>1 DEF BeginRender
    <3>2. QED
      BY <1>2, <2>1, <3>1, OneRenderCore DEF BeginRender, RenderStates, shortVars, attemptVars
  <2>2. CASE renders[r].state # "queued"
    <3>1. renders' = renders
      BY <1>2, <2>2 DEF BeginRender, CoreInv, TypeOK, Render
    <3>2. QED
      BY <1>1, <1>2, <3>1 DEF BeginRender, shortVars, attemptVars
  <2>3. QED
    BY <2>1, <2>2
<1>3. ASSUME NEW state \in RenderStates, NEW phase, EndAttempt(r, state, phase),
             renders[r].state = "running", state = "succeeded" => BoundRevisionHolds(r)
      PROVE  CoreInv'
  <2>1. /\ unrelinked \subseteq unrelinked'
        /\ state = "succeeded" => r \in unrelinked'
    BY <1>3 DEF EndAttempt
  <2>2. QED
    BY <1>3, <2>1, OneRenderCore DEF EndAttempt
<1>4. CASE AbortRender(r)
  BY <1>3, <1>4 DEF AbortRender, RenderStates
<1>5. CASE DiscardOutdated(r)
  BY <1>3, <1>5 DEF DiscardOutdated, RenderStates
<1>6. CASE FinalizeArtifacts(r)
  BY <1>1, <1>6 DEF FinalizeArtifacts, shortVars, attemptVars
<1>7. ASSUME NEW matches \in BOOLEAN, CompleteRenderAttempt(r, matches) PROVE CoreInv'
  <2>1. /\ CompletedState(r, matches) \in RenderStates
        /\ CompletedState(r, matches) = "succeeded" => BoundRevisionHolds(r)
    BY DEF CompletedState, RenderStates
  <2>2. QED
    BY <1>3, <1>7, <2>1 DEF CompleteRenderAttempt
<1>8. CASE FinishJob(r)
  BY <1>1, <1>8 DEF FinishJob, shortVars, attemptVars
<1>9. CASE AbortFails(r) \/ CleanUpFails(r)
  BY <1>1, <1>9 DEF AbortFails, CleanUpFails, LeaveUncleaned
<1>10. QED
  BY <1>2, <1>4, <1>5, <1>6, <1>7, <1>8, <1>9 DEF HandlerStep

LEMMA ScheduleCore == ASSUME CoreInv, TypeOK', ScheduleStep PROVE CoreInv'
<1>1. TypeOK
  BY DEF CoreInv
<1>2. ASSUME UNCHANGED <<shorts, lastAffecting, unrelinked, renders>>,
             \A s \in Shorts : OpenEntry(s)' /\ ~entries'[s].needsRerender =>
                 /\ OpenEntry(s) /\ ~entries[s].needsRerender
                 /\ entries'[s].render = entries[s].render
      PROVE  CoreInv'
  BY <1>2, RevisionStepCore DEF SameBinding, CoreInv, ChangesAreRevisions
<1>3. ASSUME NEW s \in Shorts, NEW r \in Renders, DraftSchedule(s, r) PROVE CoreInv'
  <2>1. UNCHANGED <<shorts, lastAffecting, unrelinked, renders>>
    BY <1>3 DEF DraftSchedule, shortVars, attemptVars
  <2>2. entries'[s].render = r /\ \A q \in Shorts \ {s} : entries'[q] = entries[q]
    BY <1>1, <1>3 DEF DraftSchedule, TypeOK
  <2>3. /\ renders[r].state = "succeeded" /\ renders[r].short = s
        /\ ShowsCurrent(r)
    BY <1>3 DEF DraftSchedule, Eligible, CoreInv, SuccessIsCurrent
  <2>4. PublishableIsCurrent'
    BY <2>1, <2>2, <2>3 DEF PublishableIsCurrent, ShowsCurrent, OpenEntry, CoreInv
  <2>5. QED
    BY <2>1, <2>4 DEF CoreInv, ChangesAreRevisions, BoundRevisionsAreApproved,
                      SuccessIsCurrent, ShowsCurrent
<1>4. ASSUME NEW s \in Shorts, MoveScheduleEntry(s) PROVE CoreInv'
  BY <1>1, <1>2, <1>4 DEF MoveScheduleEntry, TypeOK, Entry, OpenEntry, shortVars, attemptVars
<1>5. ASSUME NEW s \in Shorts, MarkPublished(s) PROVE CoreInv'
  BY <1>1, <1>2, <1>5 DEF MarkPublished, TypeOK, Entry, OpenEntry, shortVars, attemptVars
<1>6. QED
  BY <1>3, <1>4, <1>5 DEF ScheduleStep

LEMMA CrashCore ==
    ASSUME CoreInv, TypeOK', Crash \/ \E r \in Renders : CrashAfterClaim(r)
    PROVE  CoreInv'
<1>1. UNCHANGED <<shorts, lastAffecting, unrelinked, renders, entries>>
  BY DEF Crash, CrashAfterClaim, shortVars, attemptVars
<1>2. QED
  BY <1>1, RenderStepCore DEF SameBinding

LEMMA RestartCore == ASSUME CoreInv, TypeOK', Restart PROVE CoreInv'
<1>1. TypeOK
  BY DEF CoreInv
<1>2. ASSUME NEW corrupt \in SUBSET Renders, ReconcileRenderArtifacts(corrupt)
      PROVE  CoreInv'
  <2>1. UNCHANGED <<shorts, lastAffecting, unrelinked>> /\ ChangesAreRevisions'
    BY <1>2 DEF ReconcileRenderArtifacts, CoreInv, ChangesAreRevisions, shortVars, attemptVars
  <2>2. \A r \in Renders :
          /\ SameBinding(r)
          /\ renders'[r].state = "absent" <=> renders[r].state = "absent"
          /\ renders'[r].state = "succeeded" => renders[r].state = "succeeded"
          /\ r \notin corrupt => renders'[r].state = renders[r].state
    BY <1>1, <1>2 DEF ReconcileRenderArtifacts, SameBinding, TypeOK, Render
  <2>3. \A s \in Shorts : OpenEntry(s)' /\ ~entries'[s].needsRerender =>
          entries'[s] = entries[s] /\ entries[s].render \notin corrupt
    BY <1>1, <1>2 DEF ReconcileRenderArtifacts, OpenEntry, TypeOK, Entry
  <2>4. \A s \in Shorts : OpenEntry(s)' /\ ~entries'[s].needsRerender =>
          /\ OpenEntry(s) /\ ~entries[s].needsRerender
          /\ entries[s].render \in Renders
    BY <2>3 DEF OpenEntry, CoreInv, PublishableIsCurrent
  <2>5. QED
    BY <2>1, <2>2, <2>3, <2>4, RevisionStepCore
<1>3. CASE RecoverJobs
  <2>1. UNCHANGED <<shorts, lastAffecting, unrelinked, entries>>
    BY <1>3 DEF RecoverJobs, shortVars, attemptVars
  <2>2. \A r \in Renders : /\ SameBinding(r)
                           /\ renders'[r].state = RecoveredRender(r)
    BY <1>1, <1>3 DEF RecoverJobs, SameBinding, TypeOK, Render
  <2>3. \A r \in Renders :
          /\ RecoveredRender(r) = "absent" <=> renders[r].state = "absent"
          /\ RecoveredRender(r) = "succeeded" <=> renders[r].state = "succeeded"
    BY DEF RecoveredRender
  <2>4. QED
    BY <2>1, <2>2, <2>3, RenderStepCore
<1>4. QED
  BY <1>2, <1>3 DEF Restart

LEMMA NextCore == ASSUME CoreInv, [Next]_vars PROVE CoreInv'
<1>1. TypeOK'
  BY NextTypeOK DEF CoreInv
<1>2. CASE UNCHANGED vars
  <2>1. UNCHANGED <<shorts, lastAffecting, unrelinked, renders, entries>>
    BY <1>2 DEF vars
  <2>2. QED
    BY <1>1, <2>1, RenderStepCore DEF SameBinding
<1>3. QED
  BY <1>1, <1>2, EditCore, RequestCore, HandlerCore, ScheduleCore, CrashCore, RestartCore
     DEF Next

THEOREM CoreInvariance == Spec => []CoreInv
BY InitCore, NextCore, PTL DEF Spec

\* An entry that may be published points at a successful Render of its Short
\* that no edit or transcript has outdated since its revision, and no relink
\* to other content since it succeeded.  Of a relink that is committed while
\* the Render is being made it says nothing: completion compares revisions,
\* and a relink makes none.
THEOREM ScheduleIsCurrent == Spec => []PublishableIsCurrent
<1>1. CoreInv => PublishableIsCurrent
  BY DEF CoreInv
<1>2. QED
  BY <1>1, CoreInvariance, PTL

\* A successful Render is never older than the last edit of its output, nor
\* than a relink to other content that came after it succeeded.
THEOREM SuccessesAreCurrent == Spec => []SuccessIsCurrent
<1>1. CoreInv => SuccessIsCurrent
  BY DEF CoreInv
<1>2. QED
  BY <1>1, CoreInvariance, PTL

\* A Render bound to the revision its Short has shows an approved revision.
THEOREM BindingsAreApproved == Spec => []BoundRevisionsAreApproved
<1>1. CoreInv => BoundRevisionsAreApproved
  BY DEF CoreInv
<1>2. QED
  BY <1>1, CoreInvariance, PTL

-----------------------------------------------------------------------------
(***************************************************************************)
(* Action properties that follow from the types alone: the guards of the   *)
(* actions do the rest.                                                    *)
(***************************************************************************)

\* No step touches a published entry.
LEMMA PublishedStep ==
    ASSUME TypeOK, [Next]_vars, NEW s \in Shorts, entries[s].status = "published"
    PROVE  entries'[s] = entries[s]
<1>1. CASE UNCHANGED entries
  BY <1>1
<1>2. ASSUME NEW S, FlagEntries(S) PROVE entries'[s] = entries[s]
  BY <1>2 DEF FlagEntries, OpenEntry
<1>3. CASE EditStep
  BY <1>1, <1>2, <1>3
     DEF EditStep, UpdateShort, UpdateShortCopy, UpdateShortTimeline, UpdateShortTrack,
         ApproveShort, AcceptTranscriptRevision, MarkEpisodeSourceMissing, RestoreEpisode,
         RelinkOtherContent
<1>4. CASE RequestStep
  BY <1>1, <1>4
     DEF RequestStep, BeginPreflight, EndPreflight, StartRenderAttempt,
         RetryRenderAttempt, InsertAttempt, CancelQueued, CancelRunning
<1>5. ASSUME NEW r \in Renders, BeginRender(r) \/ HandlerStep(r)
      PROVE  entries'[s] = entries[s]
  BY <1>1, <1>5
     DEF BeginRender, HandlerStep, AbortRender, AbortFails, DiscardOutdated,
         FinalizeArtifacts, CompleteRenderAttempt, EndAttempt, CleanUpFails, LeaveUncleaned,
         FinishJob
<1>6. CASE ScheduleStep
  BY <1>6 DEF ScheduleStep, DraftSchedule, MoveScheduleEntry, MarkPublished, OpenEntry, TypeOK
<1>7. CASE Crash \/ \E r \in Renders : CrashAfterClaim(r)
  BY <1>1, <1>7 DEF Crash, CrashAfterClaim
<1>8. CASE Restart
  BY <1>1, <1>8 DEF Restart, ReconcileRenderArtifacts, RecoverJobs, OpenEntry
<1>9. QED
  BY <1>1, <1>3, <1>4, <1>5, <1>6, <1>7, <1>8 DEF Next, vars

\* A published entry is never touched again, by any client, crash or restart.
THEOREM PublishedStaysFrozen == Spec => PublishedIsFrozen
<1>1. TypeOK /\ [Next]_vars =>
        [\A s \in Shorts : entries[s].status = "published" =>
             entries'[s] = entries[s]]_vars
  BY PublishedStep
<1>2. QED
  BY <1>1, TypeCorrect, PTL DEF Spec, PublishedIsFrozen

\* How the state of a Render may change once the attempt is over.
FinalStep(r) ==
    /\ renders[r].state \in {"failed", "cancelled", "stale"} =>
           renders'[r].state = renders[r].state
    /\ renders[r].state = "succeeded" =>
           renders'[r].state \in {"succeeded", "failed", "stale"}

LEMMA VerdictStep ==
    ASSUME TypeOK, [Next]_vars, NEW r \in Renders PROVE FinalStep(r)
<1>1. CASE UNCHANGED renders
  BY <1>1 DEF FinalStep
<1>2. ASSUME NEW R, StaleSucceeded(R) PROVE FinalStep(r)
  BY <1>2 DEF StaleSucceeded, FinalStep, TypeOK, Render
<1>3. ASSUME NEW q \in Renders, NEW row, renders' = [renders EXCEPT ![q] = row],
             renders[q].state \in {"absent", "queued", "running"}
      PROVE  FinalStep(r)
  BY <1>3 DEF FinalStep, TypeOK
<1>4. CASE EditStep
  BY <1>1, <1>2, <1>4
     DEF EditStep, UpdateShort, UpdateShortCopy, UpdateShortTimeline, UpdateShortTrack,
         ApproveShort, AcceptTranscriptRevision, MarkEpisodeSourceMissing, RestoreEpisode,
         RelinkOtherContent
<1>5. CASE RequestStep
  <2>1. ASSUME NEW q \in Renders, NEW row, InsertAttempt(q, row) PROVE FinalStep(r)
    BY <1>3, <2>1 DEF InsertAttempt
  <2>2. ASSUME NEW q \in Renders, CancelQueued(q) PROVE FinalStep(r)
    BY <1>3, <2>2 DEF CancelQueued
  <2>3. QED
    BY <1>1, <1>5, <2>1, <2>2
       DEF RequestStep, BeginPreflight, EndPreflight, StartRenderAttempt,
           RetryRenderAttempt, CancelRunning
<1>6. ASSUME NEW q \in Renders, BeginRender(q) PROVE FinalStep(r)
  <2>1. CASE renders[q].state = "queued"
    BY <1>3, <1>6, <2>1 DEF BeginRender
  <2>2. CASE renders[q].state # "queued"
    <3>1. renders' = renders
      BY <1>6, <2>2 DEF BeginRender, TypeOK, Render
    <3>2. QED
      BY <1>1, <3>1
  <2>3. QED
    BY <2>1, <2>2
<1>7. ASSUME NEW q \in Renders, HandlerStep(q) PROVE FinalStep(r)
  <2>1. ASSUME NEW state, NEW phase, EndAttempt(q, state, phase),
               renders[q].state = "running"
        PROVE  FinalStep(r)
    BY <1>3, <2>1 DEF EndAttempt
  <2>2. QED
    BY <1>1, <1>7, <2>1
       DEF HandlerStep, AbortRender, AbortFails, DiscardOutdated, FinalizeArtifacts,
           CompleteRenderAttempt, CleanUpFails, LeaveUncleaned, FinishJob
<1>8. CASE ScheduleStep \/ Crash \/ \E q \in Renders : CrashAfterClaim(q)
  BY <1>1, <1>8
     DEF ScheduleStep, DraftSchedule, MoveScheduleEntry, MarkPublished, Crash, CrashAfterClaim
<1>9. CASE Restart
  <2>1. ASSUME NEW corrupt \in SUBSET Renders, ReconcileRenderArtifacts(corrupt)
        PROVE  FinalStep(r)
    BY <2>1 DEF ReconcileRenderArtifacts, FinalStep, TypeOK, Render
  <2>2. CASE RecoverJobs
    BY <2>2 DEF RecoverJobs, RecoveredRender, FinalStep, TypeOK, Render
  <2>3. QED
    BY <1>9, <2>1, <2>2 DEF Restart
<1>10. QED
  BY <1>1, <1>4, <1>5, <1>6, <1>7, <1>8, <1>9 DEF Next, vars

\* The verdict of an attempt is final, and a success can only be withdrawn.
THEOREM VerdictsStayFinal == Spec => VerdictsAreFinal
<1>1. TypeOK /\ [Next]_vars =>
        [\A r \in Renders :
            /\ renders[r].state \in {"failed", "cancelled", "stale"} =>
                   renders'[r].state = renders[r].state
            /\ renders[r].state = "succeeded" =>
                   renders'[r].state \in {"succeeded", "failed", "stale"}]_vars
  BY VerdictStep DEF FinalStep
<1>2. QED
  BY <1>1, TypeCorrect, PTL DEF Spec, VerdictsAreFinal

-----------------------------------------------------------------------------
(***************************************************************************)
(* The attempts of a lineage.  That they form a chain is inductive once    *)
(* every lineage is named after an attempt that was started.               *)
(***************************************************************************)

LineagesAreStarted ==
    \A r \in Renders : renders[r].state # "absent" =>
        /\ renders[r].lineage \in Renders
        /\ renders[renders[r].lineage].state # "absent"

LineageInv == TypeOK /\ LineagesAreStarted /\ LineageIsAChain

SameAttempt(r) == /\ renders'[r].lineage = renders[r].lineage
                  /\ renders'[r].attempt = renders[r].attempt
                  /\ renders'[r].state = "absent" <=> renders[r].state = "absent"

\* The steps that start no attempt change no lineage.
LEMMA OtherStepAttempt ==
    ASSUME TypeOK, [Next]_vars, ~RequestStep, NEW r \in Renders PROVE SameAttempt(r)
<1>1. CASE UNCHANGED renders
  BY <1>1 DEF SameAttempt
<1>2. ASSUME NEW R, StaleSucceeded(R) PROVE SameAttempt(r)
  BY <1>2 DEF StaleSucceeded, SameAttempt, TypeOK, Render
<1>3. ASSUME NEW q \in Renders, NEW state, state # "absent", renders[q].state # "absent",
             renders' = [renders EXCEPT ![q].state = state]
      PROVE  SameAttempt(r)
  BY <1>3 DEF SameAttempt, TypeOK, Render
<1>4. CASE EditStep
  BY <1>1, <1>2, <1>4
     DEF EditStep, UpdateShort, UpdateShortCopy, UpdateShortTimeline, UpdateShortTrack,
         ApproveShort, AcceptTranscriptRevision, MarkEpisodeSourceMissing, RestoreEpisode,
         RelinkOtherContent
<1>6. ASSUME NEW q \in Renders, BeginRender(q) PROVE SameAttempt(r)
  <2>1. CASE renders[q].state = "queued"
    BY <1>3, <1>6, <2>1 DEF BeginRender
  <2>2. CASE renders[q].state # "queued"
    <3>1. renders' = renders
      BY <1>6, <2>2 DEF BeginRender, TypeOK, Render
    <3>2. QED
      BY <1>1, <3>1
  <2>3. QED
    BY <2>1, <2>2
<1>7. ASSUME NEW q \in Renders, HandlerStep(q) PROVE SameAttempt(r)
  <2>1. ASSUME NEW state, state # "absent", NEW phase, EndAttempt(q, state, phase),
               renders[q].state = "running"
        PROVE  SameAttempt(r)
    BY <1>3, <2>1 DEF EndAttempt
  <2>2. \A matches \in BOOLEAN : CompletedState(q, matches) # "absent"
    BY DEF CompletedState
  <2>3. QED
    BY <1>1, <1>7, <2>1, <2>2
       DEF HandlerStep, AbortRender, AbortFails, DiscardOutdated, FinalizeArtifacts,
           CompleteRenderAttempt, CleanUpFails, LeaveUncleaned, FinishJob
<1>8. CASE ScheduleStep \/ Crash \/ \E q \in Renders : CrashAfterClaim(q)
  BY <1>1, <1>8
     DEF ScheduleStep, DraftSchedule, MoveScheduleEntry, MarkPublished, Crash, CrashAfterClaim
<1>9. CASE Restart
  <2>1. ASSUME NEW corrupt \in SUBSET Renders, ReconcileRenderArtifacts(corrupt)
        PROVE  SameAttempt(r)
    BY <2>1 DEF ReconcileRenderArtifacts, SameAttempt, TypeOK, Render
  <2>2. CASE RecoverJobs
    <3>1. RecoveredRender(r) = "absent" <=> renders[r].state = "absent"
      BY DEF RecoveredRender
    <3>2. renders[r] \in Render
      BY DEF TypeOK
    <3>3. renders'[r] = [renders[r] EXCEPT !.state = RecoveredRender(r)]
      BY <2>2 DEF RecoverJobs
    <3>4. QED
      BY <3>1, <3>2, <3>3, Zenon DEF SameAttempt, Render
  <2>3. QED
    BY <1>9, <2>1, <2>2 DEF Restart
<1>10. QED
  BY <1>1, <1>4, <1>6, <1>7, <1>8, <1>9 DEF Next, vars

\* A step at which every attempt keeps its place keeps the chain: what failed
\* or was cancelled stays so.
LEMMA SameAttemptsChain ==
    ASSUME LineageInv, TypeOK', [Next]_vars, \A r \in Renders : SameAttempt(r)
    PROVE  LineageInv'
<1>1. LineagesAreStarted'
  BY DEF LineageInv, LineagesAreStarted, SameAttempt
<1>2. \A r \in Renders : FinalStep(r)
  BY VerdictStep DEF LineageInv
<1>3. LineageIsAChain'
  BY <1>2 DEF LineageInv, LineageIsAChain, SameAttempt, FinalStep
<1>4. QED
  BY <1>1, <1>3 DEF LineageInv

\* The first attempt of a lineage of its own.
LEMMA StartChain ==
    ASSUME LineageInv, TypeOK', NEW r \in Renders, NEW s \in Shorts, StartRenderAttempt(r, s)
    PROVE  LineageInv'
<1>1. /\ renders[r].state = "absent"
      /\ renders' \in [Renders -> Render]
      /\ renders'[r].lineage = r /\ renders'[r].state = "queued"
      /\ \A q \in Renders \ {r} : renders'[q] = renders[q]
  BY DEF StartRenderAttempt, InsertAttempt, LineageInv, TypeOK
<1>2. \A q \in Renders \ {r} :
          renders[q].state # "absent" => renders[q].lineage \in Renders \ {r}
  BY <1>1 DEF LineageInv, LineagesAreStarted
<1>3. LineagesAreStarted'
  BY <1>1, <1>2 DEF LineageInv, LineagesAreStarted
<1>4. LineageIsAChain'
  BY <1>1, <1>2 DEF LineageInv, LineageIsAChain
<1>5. QED
  BY <1>3, <1>4 DEF LineageInv

\* A retry goes to the end of its chain: its source was the newest attempt.
LEMMA RetryChain ==
    ASSUME LineageInv, TypeOK', NEW r \in Renders, NEW source \in Renders,
           RetryRenderAttempt(r, source)
    PROVE  LineageInv'
<1>1. /\ renders[r].state = "absent"
      /\ renders'[r].lineage = renders[source].lineage
      /\ renders'[r].state = "queued"
      /\ renders'[r].attempt = renders[source].attempt + 1
      /\ \A q \in Renders \ {r} : renders'[q] = renders[q]
  BY DEF RetryRenderAttempt, InsertAttempt, LineageInv, TypeOK, Render
<1>2. /\ renders[source].state \in {"failed", "cancelled"}
      /\ renders[source].attempt < MaxAttempts
      /\ \A q \in Renders :
             renders[q].state # "absent" /\ renders[q].lineage = renders[source].lineage
             => renders[q].attempt <= renders[source].attempt
  BY DEF RetryRenderAttempt, MayRetry, Lineage
<1>3. \A q \in Renders : renders[q].attempt \in Nat
  BY DEF LineageInv, TypeOK, Render
<1>4. \A q \in Renders :
          renders[q].state # "absent" /\ renders[q].lineage = renders[source].lineage
          => /\ renders[q].attempt < renders'[r].attempt
             /\ renders[q].state \in {"failed", "cancelled"}
  BY <1>1, <1>2, <1>3 DEF LineageInv, LineageIsAChain
<1>5. renders'[r].attempt <= MaxAttempts
  BY <1>1, <1>2, <1>3 DEF MaxAttempts
<1>6. LineagesAreStarted'
  BY <1>1, <1>2 DEF LineageInv, LineagesAreStarted
<1>7. LineageIsAChain'
  <2> SUFFICES ASSUME NEW p \in Renders, NEW q \in Renders, p # q,
                      renders'[p].state # "absent", renders'[q].state # "absent",
                      renders'[p].lineage = renders'[q].lineage,
                      renders'[p].attempt <= renders'[q].attempt
               PROVE  /\ renders'[p].attempt < renders'[q].attempt
                      /\ renders'[q].attempt <= MaxAttempts
                      /\ renders'[p].state \in {"failed", "cancelled"}
    BY DEF LineageIsAChain
  <2>1. CASE p # r /\ q # r
    BY <1>1, <2>1 DEF LineageInv, LineageIsAChain
  <2>2. CASE q = r
    BY <1>1, <1>4, <1>5, <2>2
  <2>3. CASE p = r
    BY <1>1, <1>3, <1>4, <2>3
  <2>4. QED
    BY <2>1, <2>2, <2>3
<1>8. QED
  BY <1>6, <1>7 DEF LineageInv

LEMMA RequestChain == ASSUME LineageInv, [Next]_vars, TypeOK', RequestStep PROVE LineageInv'
<1>1. ASSUME UNCHANGED renders PROVE LineageInv'
  <2>1. \A r \in Renders : SameAttempt(r)
    BY <1>1 DEF SameAttempt
  <2>2. QED
    BY <2>1, SameAttemptsChain
<1>2. ASSUME NEW r \in Renders, CancelQueued(r) PROVE LineageInv'
  <2>1. \A q \in Renders : SameAttempt(q)
    BY <1>2 DEF CancelQueued, SameAttempt, LineageInv, TypeOK, Render
  <2>2. QED
    BY <2>1, SameAttemptsChain
<1>3. QED
  BY <1>1, <1>2, StartChain, RetryChain
     DEF RequestStep, BeginPreflight, EndPreflight, CancelRunning

LEMMA NextChain == ASSUME LineageInv, [Next]_vars PROVE LineageInv'
<1>1. TypeOK'
  BY NextTypeOK DEF LineageInv
<1>2. CASE RequestStep
  BY <1>1, <1>2, RequestChain
<1>3. CASE ~RequestStep
  <2>1. \A r \in Renders : SameAttempt(r)
    BY <1>3, OtherStepAttempt DEF LineageInv
  <2>2. QED
    BY <1>1, <2>1, SameAttemptsChain
<1>4. QED
  BY <1>2, <1>3

LEMMA InitChain == Init => LineageInv
<1> SUFFICES ASSUME Init PROVE LineageInv
  OBVIOUS
<1>1. \A r \in Renders : renders[r].state = "absent"
  BY DEF Init, NoRenderRow
<1>2. QED
  BY <1>1, InitTypeOK DEF LineageInv, LineagesAreStarted, LineageIsAChain

\* However often attempts are retried, cancelled, recovered and retried again,
\* a lineage is a chain of at most MaxAttempts, only its end still usable.
THEOREM LineagesAreChains == Spec => []LineageIsAChain
<1>1. LineageInv => LineageIsAChain
  BY DEF LineageInv
<1>2. QED
  BY <1>1, InitChain, NextChain, PTL DEF Spec

-----------------------------------------------------------------------------
(***************************************************************************)
(* A Render and its job.  Between a crash and the end of the recovery the  *)
(* two may disagree in the ways PairDown allows, which are the ones        *)
(* recoverJobs repairs.  An attempt whose files could not be removed has   *)
(* been started, and is the only one that may go on running behind a job   *)
(* that has its verdict, or have succeeded before its job failed.          *)
(***************************************************************************)

Encoding(r) == worker.render = r /\ worker.phase \in {"encoding", "finalizing"}

PairUp(r) ==
    /\ renders[r].state = "queued" <=> jobs[r].state = "queued"
    /\ renders[r].state = "running" /\ r \notin uncleaned <=> Encoding(r)
    /\ jobs[r].state = "running" <=> worker.render = r
    /\ worker.render = r /\ worker.phase = "threw" /\ renders[r].state = "succeeded" =>
           r \in uncleaned
    /\ jobs[r].state = "absent" <=> renders[r].state = "absent"
    /\ jobs[r].state = "queued" => ~jobs[r].cancelRequested
    /\ r \in uncleaned => renders[r].state \notin {"absent", "queued"}

PairDown(r) ==
    /\ jobs[r].state = "queued" => renders[r].state = "queued" /\ ~jobs[r].cancelRequested
    /\ renders[r].state = "queued" => jobs[r].state \in {"queued", "running"}
    /\ renders[r].state = "running" => jobs[r].state = "running" \/ r \in uncleaned
    /\ jobs[r].state = "absent" <=> renders[r].state = "absent"
    /\ r \in uncleaned => renders[r].state \notin {"absent", "queued"}

\* A success that was not cancelled, and whose job says so or failed after it.
Honoured(r) ==
    /\ ~jobs[r].cancelRequested
    /\ \/ jobs[r].state \in {"running", "succeeded"}
       \/ jobs[r].state = "failed" /\ r \in uncleaned

PairInv ==
    /\ TypeOK
    /\ Up => \A r \in Renders : PairUp(r)
    /\ ~Up => worker = IdleWorker /\ \A r \in Renders : PairDown(r)
    /\ worker.phase = "idle" <=> worker.render = None
    /\ SuccessIsNotCancelled

LEMMA InitPair == Init => PairInv
<1> SUFFICES ASSUME Init PROVE PairInv
  OBVIOUS
<1>1. /\ \A r \in Renders : /\ renders[r].state = "absent"
                            /\ jobs[r].state = "absent"
                            /\ ~jobs[r].cancelRequested
      /\ Up /\ uncleaned = {}
      /\ worker.render = None /\ worker.phase = "idle"
  BY DEF Init, NoRenderRow, NoJob, IdleWorker, Up
<1>2. QED
  BY <1>1, InitTypeOK, NoneAssumption DEF PairInv, PairUp, Encoding, SuccessIsNotCancelled

\* Edits, and the reconciliation of damaged files, only withdraw successes.
LEMMA WithdrawPair ==
    ASSUME PairInv, TypeOK', UNCHANGED <<uncleaned, jobs, worker>>, Up' <=> Up,
           \A r \in Renders : \/ renders'[r].state = renders[r].state
                              \/ /\ renders[r].state = "succeeded"
                                 /\ renders'[r].state \in {"stale", "failed"}
    PROVE  PairInv'
<1>1. ASSUME NEW r \in Renders, renders[r].state = "succeeded"
      PROVE  jobs[r].state \in {"running", "succeeded", "failed"}
  BY <1>1 DEF PairInv, SuccessIsNotCancelled
<1>2. ASSUME Up, NEW r \in Renders PROVE PairUp(r)'
  BY <1>1, <1>2 DEF PairInv, PairUp, Encoding
<1>3. ASSUME ~Up, NEW r \in Renders PROVE PairDown(r)'
  BY <1>1, <1>3 DEF PairInv, PairDown
<1>4. SuccessIsNotCancelled'
  BY DEF PairInv, SuccessIsNotCancelled
<1>5. QED
  BY <1>2, <1>3, <1>4 DEF PairInv

\* While the process lives, a step on one Render and its job disturbs no other
\* pair as long as it leaves the worker to the Render that had it.
LEMMA OnePairStep ==
    ASSUME PairInv, TypeOK', Up, Up', NEW r \in Renders,
           \A q \in Renders \ {r} : renders'[q] = renders[q] /\ jobs'[q] = jobs[q],
           \A q \in Renders \ {r} : q \in uncleaned' <=> q \in uncleaned,
           \/ worker' = worker
           \/ {worker.render, worker'.render} \subseteq {r, None},
           PairUp(r)',
           renders'[r].state = "succeeded" => Honoured(r)',
           worker'.phase = "idle" <=> worker'.render = None
    PROVE  PairInv'
<1>1. ASSUME NEW q \in Renders PROVE PairUp(q)'
  <2>1. CASE q = r
    BY <2>1
  <2>2. CASE q # r
    <3>1. PairUp(q) /\ q # None
      BY NoneAssumption DEF PairInv
    <3>2. /\ renders'[q] = renders[q] /\ jobs'[q] = jobs[q]
          /\ q \in uncleaned' <=> q \in uncleaned
          /\ worker' = worker \/ (worker.render # q /\ worker'.render # q)
      BY <2>2, <3>1
    <3>3. QED
      BY <3>1, <3>2 DEF PairUp, Encoding
  <2>3. QED
    BY <2>1, <2>2
<1>2. ASSUME NEW q \in Renders, renders'[q].state = "succeeded" PROVE Honoured(q)'
  <2>1. CASE q = r
    BY <1>2, <2>1
  <2>2. CASE q # r
    <3>1. renders[q].state = "succeeded" => Honoured(q)
      BY DEF PairInv, SuccessIsNotCancelled, Honoured
    <3>2. /\ renders'[q] = renders[q] /\ jobs'[q] = jobs[q]
          /\ q \in uncleaned' <=> q \in uncleaned
      BY <2>2
    <3>3. QED
      BY <1>2, <3>1, <3>2 DEF Honoured
  <2>3. QED
    BY <2>1, <2>2
<1>3. SuccessIsNotCancelled'
  BY <1>2 DEF SuccessIsNotCancelled, Honoured
<1>4. QED
  BY <1>1, <1>3 DEF PairInv

LEMMA EditPair == ASSUME PairInv, TypeOK', EditStep PROVE PairInv'
<1>1. TypeOK
  BY DEF PairInv
<1>2. ASSUME NEW R, StaleSucceeded(R), UNCHANGED <<uncleaned, jobs, worker, mode>>
      PROVE  PairInv'
  <2>1. \A r \in Renders : \/ renders'[r].state = renders[r].state
                           \/ /\ renders[r].state = "succeeded"
                              /\ renders'[r].state \in {"stale", "failed"}
    BY <1>1, <1>2 DEF StaleSucceeded, TypeOK, Render
  <2>2. QED
    BY <1>2, <2>1, WithdrawPair DEF Up
<1>3. ASSUME UNCHANGED <<uncleaned, renders, jobs, worker, mode>> PROVE PairInv'
  BY <1>3, WithdrawPair DEF Up
<1>4. QED
  BY <1>2, <1>3
     DEF EditStep, UpdateShort, UpdateShortCopy, UpdateShortTimeline, UpdateShortTrack,
         ApproveShort, AcceptTranscriptRevision, MarkEpisodeSourceMissing, RestoreEpisode,
         RelinkOtherContent, attemptVars, processVars

LEMMA InsertPair ==
    ASSUME PairInv, TypeOK', Up, NEW r \in Renders, NEW row, row.state = "queued",
           InsertAttempt(r, row)
    PROVE  PairInv'
<1>1. /\ \A q \in Renders \ {r} : renders'[q] = renders[q] /\ jobs'[q] = jobs[q]
      /\ UNCHANGED <<uncleaned, worker, mode>>
  BY DEF InsertAttempt, PairInv, TypeOK, shortVars, attemptVars, processVars
<1>2. /\ renders[r].state = "absent" /\ renders'[r].state = "queued"
      /\ jobs'[r].state = "queued" /\ ~jobs'[r].cancelRequested
  BY DEF InsertAttempt, PairInv, TypeOK, NoJob
<1>3. worker.render # r /\ r \notin uncleaned
  BY <1>2 DEF PairInv, PairUp
<1>4. QED
  BY <1>1, <1>2, <1>3, OnePairStep DEF PairInv, PairUp, Encoding, Up

LEMMA RequestPair == ASSUME PairInv, TypeOK', RequestStep PROVE PairInv'
<1>1. ASSUME UNCHANGED <<uncleaned, renders, jobs, worker, mode>> PROVE PairInv'
  BY <1>1, WithdrawPair DEF Up
<1>2. ASSUME NEW s \in Shorts, BeginPreflight(s) PROVE PairInv'
  BY <1>1, <1>2 DEF BeginPreflight, shortVars, attemptVars, processVars
<1>3. ASSUME NEW p \in checking, NEW passed \in BOOLEAN, EndPreflight(p, passed)
      PROVE  PairInv'
  BY <1>1, <1>3 DEF EndPreflight, shortVars, attemptVars, processVars
<1>4. ASSUME NEW r \in Renders, NEW s \in Shorts, StartRenderAttempt(r, s) PROVE PairInv'
  BY <1>4, InsertPair DEF StartRenderAttempt
<1>5. ASSUME NEW r \in Renders, NEW source \in Renders, RetryRenderAttempt(r, source)
      PROVE  PairInv'
  <2> DEFINE row == [renders[source] EXCEPT !.state = "queued", !.attempt = @ + 1]
  <2>1. row.state = "queued"
    BY DEF PairInv, TypeOK, Render
  <2>2. InsertAttempt(r, row) /\ Up
    BY <1>5 DEF RetryRenderAttempt
  <2> HIDE DEF row
  <2>3. QED
    BY <2>1, <2>2, InsertPair
<1>6. ASSUME NEW r \in Renders, CancelQueued(r) PROVE PairInv'
  <2>1. /\ \A q \in Renders \ {r} : renders'[q] = renders[q] /\ jobs'[q] = jobs[q]
        /\ renders'[r].state = "cancelled" /\ jobs'[r].state = "cancelled"
        /\ jobs[r].state = "queued" /\ renders[r].state = "queued"
        /\ Up /\ Up' /\ worker' = worker /\ uncleaned' = uncleaned
    BY <1>6 DEF CancelQueued, PairInv, TypeOK, Render, Job, shortVars, attemptVars,
                processVars, Up
  <2>2. PairUp(r)
    BY <2>1 DEF PairInv
  <2>3. PairUp(r)'
    BY <2>1, <2>2 DEF PairUp, Encoding
  <2>4. QED
    BY <2>1, <2>3, OnePairStep DEF PairInv
<1>7. ASSUME NEW r \in Renders, CancelRunning(r) PROVE PairInv'
  <2>1. /\ \A q \in Renders \ {r} : renders'[q] = renders[q] /\ jobs'[q] = jobs[q]
        /\ renders' = renders /\ renders[r].state # "succeeded"
        /\ jobs'[r].state = "running" /\ jobs[r].state = "running"
        /\ Up /\ Up' /\ worker' = worker /\ uncleaned' = uncleaned
    BY <1>7 DEF CancelRunning, PairInv, TypeOK, Job, shortVars, attemptVars,
                processVars, Up
  <2>2. PairUp(r)
    BY <2>1 DEF PairInv
  <2>3. PairUp(r)'
    BY <2>1, <2>2 DEF PairUp, Encoding
  <2>4. QED
    BY <2>1, <2>3, OnePairStep DEF PairInv
<1>8. QED
  BY <1>2, <1>3, <1>4, <1>5, <1>6, <1>7 DEF RequestStep

\* The end of an attempt, whatever the reason.
LEMMA EndPair ==
    ASSUME PairInv, TypeOK', Up, NEW r \in Renders, Encoding(r),
           renders[r].state = "running",
           NEW state, NEW phase, EndAttempt(r, state, phase),
           state \in {"cancelled", "failed", "stale", "succeeded"},
           phase \in {"returned", "threw"},
           state = "succeeded" => ~jobs[r].cancelRequested /\ phase = "returned"
    PROVE  PairInv'
<1>1. /\ \A q \in Renders \ {r} : renders'[q] = renders[q] /\ jobs'[q] = jobs[q]
      /\ renders'[r].state = state
      /\ jobs' = jobs /\ uncleaned' = uncleaned
      /\ worker'.render = r /\ worker'.phase = phase
      /\ Up'
  BY DEF EndAttempt, Encoding, PairInv, TypeOK, Render, processVars, Up
<1>2. PairUp(r) /\ worker.render = r
  BY DEF PairInv, Encoding
<1>3. PairUp(r)'
  BY <1>1, <1>2 DEF PairUp, Encoding
<1>4. state = "succeeded" => Honoured(r)'
  BY <1>1, <1>2 DEF PairUp, Honoured
<1>5. QED
  BY <1>1, <1>2, <1>3, <1>4, NoneAssumption, OnePairStep

LEMMA HandlerPair ==
    ASSUME PairInv, TypeOK', NEW r \in Renders, BeginRender(r) \/ HandlerStep(r)
    PROVE  PairInv'
<1>1. TypeOK /\ (Up => PairUp(r))
  BY DEF PairInv
<1>2. CASE BeginRender(r)
  <2>1. /\ Up /\ Up' /\ worker.render = None
        /\ jobs[r].state = "queued" /\ ~jobs[r].cancelRequested
    BY <1>2 DEF BeginRender, Claimable, IdleWorker, processVars, Up
  <2>2. renders[r].state = "queued" /\ r \notin uncleaned
    BY <1>1, <2>1 DEF PairUp
  <2>3. worker' = [render |-> r, phase |-> "encoding"]
    BY <1>2, <2>2 DEF BeginRender
  <2>4. /\ \A q \in Renders \ {r} : renders'[q] = renders[q] /\ jobs'[q] = jobs[q]
        /\ renders'[r].state = "running" /\ uncleaned' = uncleaned
    BY <1>1, <1>2, <2>2 DEF BeginRender, TypeOK, Render, shortVars, attemptVars
  <2>5. jobs'[r].state = "running"
    <3>1. jobs' = [jobs EXCEPT ![r] = [jobs[r] EXCEPT !.state = "running",
                                                      !.attempts = @ + 1]]
      BY <1>1, <1>2 DEF BeginRender, TypeOK
    <3>2. jobs'[r] = [jobs[r] EXCEPT !.state = "running", !.attempts = @ + 1]
      BY <1>1, <3>1 DEF TypeOK
    <3>3. QED
      BY <1>1, <3>2 DEF TypeOK, Job
  <2>6. PairUp(r)'
    BY <2>1, <2>2, <2>3, <2>4, <2>5, <1>1 DEF PairUp, Encoding
  <2>7. QED
    BY <2>1, <2>3, <2>4, <2>6, NoneAssumption, OnePairStep
<1>3. Rethrown(r) \in {"returned", "threw"}
  BY DEF Rethrown
<1>4. ASSUME Rendering(r, "encoding") \/ Rendering(r, "finalizing") PROVE Encoding(r) /\ Up
  BY <1>4 DEF Rendering, Encoding
<1>5. CASE AbortRender(r)
  BY <1>3, <1>4, <1>5, EndPair DEF AbortRender
<1>6. CASE DiscardOutdated(r)
  BY <1>3, <1>4, <1>6, EndPair DEF DiscardOutdated
<1>7. CASE FinalizeArtifacts(r)
  <2>1. /\ Up /\ Up' /\ UNCHANGED <<uncleaned, renders, jobs>>
        /\ worker.render = r /\ worker.phase = "encoding"
        /\ worker'.render = r /\ worker'.phase = "finalizing"
    BY <1>1, <1>7 DEF FinalizeArtifacts, Rendering, TypeOK, shortVars, attemptVars,
                      processVars, Up
  <2>2. PairUp(r)'
    BY <1>1, <2>1 DEF PairUp, Encoding
  <2>3. QED
    BY <2>1, <2>2, NoneAssumption, OnePairStep DEF PairInv, SuccessIsNotCancelled, Honoured
<1>8. ASSUME NEW matches \in BOOLEAN, CompleteRenderAttempt(r, matches) PROVE PairInv'
  <2> DEFINE state == CompletedState(r, matches)
             phase == IF state = "succeeded" THEN "returned" ELSE Rethrown(r)
  <2>1. /\ state \in {"cancelled", "failed", "stale", "succeeded"}
        /\ state = "succeeded" => ~jobs[r].cancelRequested
    BY DEF CompletedState
  <2>2. /\ phase \in {"returned", "threw"}
        /\ state = "succeeded" => phase = "returned"
    BY <1>3
  <2>3. EndAttempt(r, state, phase) /\ Encoding(r) /\ Up /\ renders[r].state = "running"
    BY <1>4, <1>8 DEF CompleteRenderAttempt
  <2> HIDE DEF state, phase
  <2>4. QED
    BY <2>1, <2>2, <2>3, EndPair
<1>9. CASE FinishJob(r)
  <2>1. /\ Up /\ Up' /\ renders' = renders /\ uncleaned' = uncleaned
        /\ worker.render = r /\ worker.phase \in {"returned", "threw"}
        /\ worker'.render = None /\ worker'.phase = "idle"
        /\ \A q \in Renders \ {r} : jobs'[q] = jobs[q]
    BY <1>1, <1>9 DEF FinishJob, Rendering, IdleWorker, TypeOK, shortVars, attemptVars,
                      processVars, Up
  <2>2. jobs[r].state = "running"
    BY <1>1, <2>1 DEF PairUp
  <2>3. jobs'[r].state = JobVerdict(r)
        /\ jobs'[r].cancelRequested = jobs[r].cancelRequested
    BY <1>1, <1>9, <2>2 DEF FinishJob, TypeOK, Job
  <2>4. JobVerdict(r) \in {"succeeded", "cancelled", "failed"}
    BY DEF JobVerdict
  <2>5. renders[r].state = "succeeded" =>
          /\ ~jobs[r].cancelRequested
          /\ worker.phase = "returned" \/ r \in uncleaned
    BY <1>1, <2>1 DEF PairUp, PairInv, SuccessIsNotCancelled
  <2>6. renders[r].state = "succeeded" => Honoured(r)'
    BY <2>1, <2>3, <2>5 DEF JobVerdict, Honoured
  <2>7. /\ renders[r].state \notin {"absent", "queued"}
        /\ renders[r].state = "running" => r \in uncleaned
    BY <1>1, <2>1, <2>2 DEF PairUp, Encoding
  <2>8. PairUp(r)'
    BY <2>1, <2>3, <2>4, <2>7, NoneAssumption DEF PairUp, Encoding
  <2>9. QED
    BY <2>1, <2>6, <2>8, OnePairStep
<1>10. ASSUME LeaveUncleaned(r), Up, worker.render = r, worker.phase # "idle"
       PROVE  PairInv'
  <2>1. /\ Up' /\ UNCHANGED <<renders, jobs>>
        /\ worker'.render = r /\ worker'.phase = "threw"
        /\ r \in uncleaned'
        /\ \A q \in Renders \ {r} : q \in uncleaned' <=> q \in uncleaned
    BY <1>1, <1>10 DEF LeaveUncleaned, TypeOK, processVars, Up
  <2>2. jobs[r].state = "running" /\ renders[r].state \notin {"absent", "queued"}
    BY <1>1, <1>10 DEF PairUp
  <2>3. PairUp(r)'
    BY <2>1, <2>2 DEF PairUp, Encoding
  <2>4. renders[r].state = "succeeded" => Honoured(r)'
    BY <2>1, <2>2 DEF PairInv, SuccessIsNotCancelled, Honoured
  <2>5. QED
    BY <1>10, <2>1, <2>3, <2>4, NoneAssumption, OnePairStep
<1>11. CASE AbortFails(r) \/ CleanUpFails(r)
  BY <1>10, <1>11 DEF AbortFails, CleanUpFails, Rendering
<1>12. QED
  BY <1>2, <1>5, <1>6, <1>7, <1>8, <1>9, <1>11 DEF HandlerStep

LEMMA SchedulePair == ASSUME PairInv, TypeOK', ScheduleStep PROVE PairInv'
<1>1. UNCHANGED <<uncleaned, renders, jobs, worker, mode>>
  BY DEF ScheduleStep, DraftSchedule, MoveScheduleEntry, MarkPublished, shortVars,
         attemptVars, processVars
<1>2. QED
  BY <1>1, WithdrawPair DEF Up

LEMMA CrashPair ==
    ASSUME PairInv, TypeOK', Crash \/ \E r \in Renders : CrashAfterClaim(r)
    PROVE  PairInv'
<1>1. ASSUME Up, NEW r \in Renders PROVE PairDown(r)
  BY <1>1 DEF PairInv, PairUp, PairDown, Encoding
<1>2. CASE Crash
  <2>1. \A r \in Renders : PairDown(r)
    BY <1>1, <1>2 DEF PairInv
  <2>2. UNCHANGED <<uncleaned, renders, jobs>> /\ worker' = IdleWorker /\ ~Up'
    BY <1>2 DEF Crash, Up, shortVars, attemptVars
  <2>3. \A r \in Renders : PairDown(r)'
    BY <2>1, <2>2 DEF PairDown
  <2>4. QED
    BY <2>2, <2>3 DEF PairInv, IdleWorker, SuccessIsNotCancelled
<1>3. ASSUME NEW r \in Renders, CrashAfterClaim(r) PROVE PairInv'
  <2>1. /\ Up /\ ~Up' /\ worker = IdleWorker /\ worker' = worker /\ renders' = renders
        /\ jobs[r].state = "queued" /\ uncleaned' = uncleaned
        /\ \A q \in Renders \ {r} : jobs'[q] = jobs[q]
    BY <1>3 DEF CrashAfterClaim, Claimable, PairInv, TypeOK, Up, shortVars, attemptVars
  <2>2. jobs'[r].state = "running"
    <3>1. jobs'[r] = [jobs[r] EXCEPT !.state = "running", !.attempts = @ + 1]
      BY <1>3 DEF CrashAfterClaim, PairInv, TypeOK
    <3>2. QED
      BY <3>1 DEF PairInv, TypeOK, Job
  <2>3. /\ renders[r].state = "queued" /\ ~jobs[r].cancelRequested
        /\ r \notin uncleaned
    BY <2>1 DEF PairInv, PairUp
  <2>4. PairDown(r)'
    <3>1. renders'[r].state = "queued" /\ r \notin uncleaned'
      BY <2>1, <2>3
    <3>2. QED
      BY <2>2, <3>1 DEF PairDown
  <2>5. \A q \in Renders \ {r} : PairDown(q)'
    BY <1>1, <2>1 DEF PairDown
  <2>6. SuccessIsNotCancelled'
    BY <2>1, <2>3 DEF PairInv, SuccessIsNotCancelled
  <2>7. QED
    BY <2>1, <2>4, <2>5, <2>6 DEF PairInv
<1>4. QED
  BY <1>2, <1>3

LEMMA RestartPair == ASSUME PairInv, TypeOK', Restart PROVE PairInv'
<1>1. TypeOK
  BY DEF PairInv
<1>2. ASSUME NEW corrupt \in SUBSET Renders, ReconcileRenderArtifacts(corrupt)
      PROVE  PairInv'
  <2>1. UNCHANGED <<uncleaned, jobs, worker>> /\ ~Up /\ ~Up'
    BY <1>2 DEF ReconcileRenderArtifacts, Up, shortVars, attemptVars
  <2>2. \A r \in Renders : \/ renders'[r].state = renders[r].state
                           \/ /\ renders[r].state = "succeeded"
                              /\ renders'[r].state \in {"stale", "failed"}
    BY <1>1, <1>2 DEF ReconcileRenderArtifacts, TypeOK, Render
  <2>3. QED
    BY <2>1, <2>2, WithdrawPair
<1>3. CASE RecoverJobs
  <2>1. /\ ~Up /\ Up' /\ worker' = worker /\ worker = IdleWorker
        /\ uncleaned' = uncleaned
    BY <1>3 DEF RecoverJobs, PairInv, Up, shortVars, attemptVars
  <2>2. ASSUME NEW r \in Renders
        PROVE  /\ renders'[r].state = RecoveredRender(r)
               /\ jobs'[r].state = RecoveredJob(r)
               /\ jobs'[r].cancelRequested = jobs[r].cancelRequested
    BY <1>1, <1>3 DEF RecoverJobs, TypeOK, Render, Job
  <2>3. ASSUME NEW r \in Renders
        PROVE  /\ RecoveredRender(r) = "running" => r \in uncleaned
               /\ r \in uncleaned => RecoveredRender(r) \notin {"absent", "queued"}
               /\ RecoveredJob(r) # "running"
               /\ RecoveredRender(r) = "queued" <=> RecoveredJob(r) = "queued"
               /\ RecoveredJob(r) = "absent" <=> RecoveredRender(r) = "absent"
               /\ RecoveredJob(r) = "queued" => ~jobs[r].cancelRequested
               /\ RecoveredRender(r) = "succeeded" =>
                    /\ ~jobs[r].cancelRequested
                    /\ \/ RecoveredJob(r) = "succeeded"
                       \/ RecoveredJob(r) = "failed" /\ r \in uncleaned
    <3>1. PairDown(r)
      BY <2>1 DEF PairInv
    <3>2. renders[r].state \in RenderStates /\ jobs[r].state \in JobStates
      BY <1>1 DEF TypeOK, Render, Job
    <3>3. renders[r].state = "succeeded" => Honoured(r)
      BY DEF PairInv, SuccessIsNotCancelled, Honoured
    <3>4. QED
      BY <3>1, <3>2, <3>3
         DEF PairDown, Honoured, RecoveredRender, RecoveredJob, JobActive, RenderStates,
             JobStates
  <2>4. ASSUME NEW r \in Renders PROVE PairUp(r)'
    BY <2>1, <2>2, <2>3, NoneAssumption DEF PairUp, Encoding, IdleWorker
  <2>5. SuccessIsNotCancelled'
    BY <2>1, <2>2, <2>3 DEF SuccessIsNotCancelled
  <2>6. QED
    BY <2>1, <2>4, <2>5 DEF PairInv
<1>4. QED
  BY <1>2, <1>3 DEF Restart

LEMMA NextPair == ASSUME PairInv, [Next]_vars PROVE PairInv'
<1>1. TypeOK'
  BY NextTypeOK DEF PairInv
<1>2. CASE UNCHANGED vars
  <2>1. UNCHANGED <<uncleaned, renders, jobs, worker, mode>>
    BY <1>2 DEF vars
  <2>2. QED
    BY <1>1, <2>1, WithdrawPair DEF Up
<1>3. QED
  BY <1>1, <1>2, EditPair, RequestPair, HandlerPair, SchedulePair, CrashPair, RestartPair
     DEF Next

THEOREM PairInvariance == Spec => []PairInv
BY InitPair, NextPair, PTL DEF Spec

\* While the process lives a Render and its job agree; only the Render whose
\* catch failed stays running behind the verdict of its job.
THEOREM PairsAgree == Spec => []PairAgreement
<1>1. PairInv => PairAgreement
  BY DEF PairInv, PairUp, Encoding, PairAgreement
<1>2. QED
  BY <1>1, PairInvariance, PTL

\* A Render that succeeded was not cancelled, and its job succeeds too, unless
\* the removal of the working directory of the attempt failed, which makes
\* render() throw and the runner fail the job after the Render has succeeded.
THEOREM NoFalseSuccess == Spec => []SuccessIsNotCancelled
<1>1. PairInv => SuccessIsNotCancelled
  BY DEF PairInv
<1>2. QED
  BY <1>1, PairInvariance, PTL
-----------------------------------------------------------------------------
(***************************************************************************)
(* The job of a Render is a job of JobContract.  PairInv says too little:  *)
(* a queued job must have an execution left, and a Render that came out    *)
(* cancelled under an active job must be one whose cancellation that job   *)
(* was asked for, or the recovery would cancel a job nobody cancelled.     *)
(***************************************************************************)
JobRow(r) ==
    /\ jobs[r].attempts <= MaxAttempts
    /\ jobs[r].state = "queued" => jobs[r].attempts < MaxAttempts
    /\ jobs[r].state = "absent" => jobs[r] = NoJob
    /\ JobActive(r) /\ renders[r].state = "cancelled" => jobs[r].cancelRequested

JobInv == PairInv /\ \A r \in Renders : JobRow(r)

Advances(a, b) == a = b \/ Contract!Step(Seen(a), Seen(b))

\* One step, seen by one Render.
Follows(r) == JobRow(r)' /\ Advances(jobs[r], jobs'[r])

LEMMA InitJob == Init => JobInv
<1> SUFFICES ASSUME Init PROVE JobInv
  OBVIOUS
<1>1. \A r \in Renders : jobs[r] = NoJob
  BY DEF Init
<1>2. QED
  BY <1>1, InitPair DEF JobInv, JobRow, JobActive, NoJob, MaxAttempts

LEMMA SeenType == ASSUME JobInv, NEW r \in Renders PROVE Seen(jobs[r]) \in Contract!Row
<1>1. jobs[r] \in Job /\ jobs[r].attempts <= MaxAttempts
  BY DEF JobInv, JobRow, PairInv, TypeOK
<1>2. jobs[r].attempts \in 0 .. MaxAttempts
  BY <1>1 DEF Job, MaxAttempts
<1>3. (IF jobs[r].state = "absent" THEN 0 ELSE MaxAttempts) \in 0 .. MaxAttempts
  BY DEF MaxAttempts
<1>4. QED
  BY <1>1, <1>2, <1>3 DEF Seen, Contract!Row, Contract!Active, Contract!Verdicts, Job, JobStates

\* A job that is left alone, while its Render does not come out cancelled
\* without a request.
LEMMA JobLeftAlone ==
    ASSUME NEW r \in Renders, JobRow(r), jobs'[r] = jobs[r],
           renders'[r].state = "cancelled" =>
               renders[r].state = "cancelled" \/ jobs[r].cancelRequested
    PROVE  Follows(r)
BY DEF Follows, JobRow, JobActive, Advances

\* A job that was active takes a verdict, cancelled exactly when requested.
LEMMA JobSettles ==
    ASSUME NEW r \in Renders, JobRow(r), JobActive(r),
           jobs'[r].state \in {"succeeded", "failed", "cancelled"},
           jobs'[r].attempts = jobs[r].attempts,
           jobs[r].cancelRequested => jobs'[r].cancelRequested,
           jobs'[r].cancelRequested <=> jobs'[r].state = "cancelled"
    PROVE  Follows(r)
<1>1. JobRow(r)'
  BY DEF JobRow, JobActive
<1>2. Contract!Settled(Seen(jobs[r]), Seen(jobs'[r]))
  BY DEF Contract!Settled, Contract!Active, Contract!Verdicts, Seen, JobActive
<1>3. QED
  BY <1>1, <1>2 DEF Follows, Advances, Contract!Step

LEMMA InsertFollows ==
    ASSUME JobInv, NEW r \in Renders, NEW row, InsertAttempt(r, row), row.state = "queued"
    PROVE  \A q \in Renders : Follows(q)
<1>1. /\ \A q \in Renders \ {r} : jobs'[q] = jobs[q] /\ renders'[q] = renders[q]
      /\ jobs'[r] = [NoJob EXCEPT !.state = "queued"] /\ renders'[r] = row
      /\ renders[r].state = "absent" /\ jobs[r] \in Job
  BY DEF InsertAttempt, JobInv, PairInv, TypeOK
<1>2. jobs[r].state = "absent"
  BY <1>1 DEF JobInv, PairInv, PairUp, PairDown
<1>3. jobs[r] = NoJob
  BY <1>2 DEF JobInv, JobRow
<1>4. /\ jobs'[r].state = "queued" /\ ~jobs'[r].cancelRequested /\ jobs'[r].attempts = 0
  BY <1>1 DEF NoJob
<1>5. JobRow(r)'
  BY <1>1, <1>4 DEF JobRow, JobActive, MaxAttempts
<1>6. Contract!Created(Seen(jobs[r]), Seen(jobs'[r]))
  BY <1>3, <1>4 DEF Contract!Created, Contract!Absent, Seen, NoJob, MaxAttempts
<1>7. Follows(r)
  BY <1>5, <1>6 DEF Follows, Advances, Contract!Step
<1>8. \A q \in Renders \ {r} : Follows(q)
  BY <1>1, JobLeftAlone DEF JobInv
<1>9. QED
  BY <1>7, <1>8

\* The claim, whether the process survives it or not.
LEMMA ClaimFollows ==
    ASSUME JobInv, NEW r \in Renders, Claimable(r),
           jobs' = [jobs EXCEPT ![r].state = "running", ![r].attempts = @ + 1],
           \A q \in Renders : renders'[q].state = "cancelled" => renders[q].state = "cancelled"
    PROVE  \A q \in Renders : Follows(q)
<1>1. /\ jobs[r] \in Job /\ jobs[r].state = "queued" /\ ~jobs[r].cancelRequested
      /\ jobs[r].attempts < MaxAttempts /\ Up
  BY DEF Claimable, JobInv, JobRow, PairInv, TypeOK
<1>2. jobs' = [jobs EXCEPT ![r] = [jobs[r] EXCEPT !.state = "running", !.attempts = @ + 1]]
  BY DEF JobInv, PairInv, TypeOK
<1>3. \A q \in Renders \ {r} : jobs'[q] = jobs[q]
  BY <1>2 DEF JobInv, PairInv, TypeOK
<1>4. /\ jobs'[r].state = "running" /\ jobs'[r].cancelRequested = jobs[r].cancelRequested
      /\ jobs'[r].attempts = jobs[r].attempts + 1
  <2>1. jobs'[r] = [jobs[r] EXCEPT !.state = "running", !.attempts = @ + 1]
    BY <1>2 DEF JobInv, PairInv, TypeOK
  <2>2. jobs[r] \in Job
    BY <1>1
  <2>3. QED
    BY ONLY <2>1, <2>2, SMTT(30) DEF Job
<1>5. renders[r].state # "cancelled"
  BY <1>1 DEF JobInv, PairInv, PairUp
<1>6. JobRow(r)'
  BY <1>1, <1>4, <1>5 DEF JobRow, JobActive, Job, MaxAttempts
<1>7. Seen(jobs[r]) = [state |-> "queued", cancel |-> jobs[r].cancelRequested,
                       runs |-> jobs[r].attempts, budget |-> MaxAttempts]
  BY <1>1 DEF Seen
<1>8. Seen(jobs'[r]) = [state |-> "running", cancel |-> jobs[r].cancelRequested,
                        runs |-> jobs[r].attempts + 1, budget |-> MaxAttempts]
  BY <1>1, <1>4 DEF Seen
<1>9. Contract!Started(Seen(jobs[r]), Seen(jobs'[r]))
  BY <1>1, <1>7, <1>8 DEF Contract!Started
<1>10. Follows(r)
  BY <1>6, <1>9 DEF Follows, Advances, Contract!Step
<1>11. \A q \in Renders \ {r} : Follows(q)
  BY <1>3, JobLeftAlone DEF JobInv
<1>12. QED
  BY <1>10, <1>11

LEMMA CancelQueuedFollows ==
    ASSUME JobInv, NEW r \in Renders, CancelQueued(r)
    PROVE  \A q \in Renders : Follows(q)
<1>1. /\ jobs[r] \in Job /\ jobs[r].state = "queued"
      /\ \A q \in Renders \ {r} : jobs'[q] = jobs[q] /\ renders'[q] = renders[q]
  BY DEF CancelQueued, JobInv, PairInv, TypeOK
<1>2. jobs'[r] = [jobs[r] EXCEPT !.cancelRequested = TRUE, !.state = "cancelled"]
  BY DEF CancelQueued, JobInv, PairInv, TypeOK
<1>3. /\ jobs'[r].state = "cancelled" /\ jobs'[r].cancelRequested
      /\ jobs'[r].attempts = jobs[r].attempts
  BY <1>1, <1>2 DEF Job
<1>4. JobRow(r) /\ JobActive(r)
  BY <1>1 DEF JobInv, JobActive
<1>5. Follows(r)
  BY <1>3, <1>4, JobSettles
<1>6. \A q \in Renders \ {r} : Follows(q)
  BY <1>1, JobLeftAlone DEF JobInv
<1>7. QED
  BY <1>5, <1>6

LEMMA CancelRunningFollows ==
    ASSUME JobInv, NEW r \in Renders, CancelRunning(r)
    PROVE  \A q \in Renders : Follows(q)
<1>1. /\ jobs[r] \in Job /\ jobs[r].state = "running" /\ renders' = renders
      /\ jobs'[r] = [jobs[r] EXCEPT !.cancelRequested = TRUE]
      /\ \A q \in Renders \ {r} : jobs'[q] = jobs[q]
  BY DEF CancelRunning, JobInv, PairInv, TypeOK
<1>2. /\ jobs'[r].state = "running" /\ jobs'[r].cancelRequested
      /\ jobs'[r].attempts = jobs[r].attempts
  BY <1>1 DEF Job
<1>3. JobRow(r)'
  BY <1>1, <1>2 DEF JobRow, JobActive, JobInv
<1>4. Contract!CancelRequested(Seen(jobs[r]), Seen(jobs'[r]))
  BY <1>1, <1>2 DEF Contract!CancelRequested, Seen
<1>5. Follows(r)
  BY <1>3, <1>4 DEF Follows, Advances, Contract!Step
<1>6. \A q \in Renders \ {r} : Follows(q)
  BY <1>1, JobLeftAlone DEF JobInv
<1>7. QED
  BY <1>5, <1>6

LEMMA HandlerFollows ==
    ASSUME JobInv, NEW r \in Renders, HandlerStep(r)
    PROVE  \A q \in Renders : Follows(q)
<1>1. TypeOK /\ JobRow(r) /\ \A q \in Renders : JobRow(q)
  BY DEF JobInv, PairInv
<1>2. ASSUME NEW state, NEW phase, EndAttempt(r, state, phase),
             state = "cancelled" => jobs[r].cancelRequested
      PROVE  \A q \in Renders : Follows(q)
  <2>1. /\ jobs' = jobs
        /\ \A q \in Renders \ {r} : renders'[q] = renders[q]
        /\ renders'[r].state = state
    BY <1>1, <1>2 DEF EndAttempt, TypeOK, Render
  <2>2. QED
    BY <1>1, <1>2, <2>1, JobLeftAlone
<1>3. CASE AbortRender(r)
  BY <1>2, <1>3 DEF AbortRender
<1>4. CASE DiscardOutdated(r)
  BY <1>2, <1>4 DEF DiscardOutdated
<1>5. CASE FinalizeArtifacts(r)
  BY <1>1, <1>5, JobLeftAlone DEF FinalizeArtifacts
<1>6. ASSUME NEW matches \in BOOLEAN, CompleteRenderAttempt(r, matches)
      PROVE  \A q \in Renders : Follows(q)
  <2>1. CompletedState(r, matches) = "cancelled" => jobs[r].cancelRequested
    BY DEF CompletedState
  <2>2. QED
    BY <1>2, <1>6, <2>1 DEF CompleteRenderAttempt
<1>7. CASE FinishJob(r)
  <2>1. /\ Up /\ renders' = renders /\ worker.render = r
        /\ worker.phase \in {"returned", "threw"}
        /\ \A q \in Renders \ {r} : jobs'[q] = jobs[q]
    BY <1>1, <1>7 DEF FinishJob, Rendering, TypeOK
  <2>2. jobs[r].state = "running"
    BY <2>1 DEF JobInv, PairInv, PairUp
  <2>3. /\ jobs'[r].state = JobVerdict(r)
        /\ jobs'[r].cancelRequested = jobs[r].cancelRequested
        /\ jobs'[r].attempts = jobs[r].attempts
    BY <1>1, <1>7, <2>2 DEF FinishJob, TypeOK, Job
  <2>4. renders[r].state = "succeeded" => ~jobs[r].cancelRequested
    BY DEF JobInv, PairInv, SuccessIsNotCancelled
  <2>5. /\ JobVerdict(r) \in {"succeeded", "failed", "cancelled"}
        /\ jobs[r].cancelRequested <=> JobVerdict(r) = "cancelled"
    BY <2>4 DEF JobVerdict
  <2>6. Follows(r)
    BY <1>1, <2>2, <2>3, <2>5, JobSettles DEF JobActive
  <2>7. QED
    BY <1>1, <2>1, <2>6, JobLeftAlone
<1>8. CASE AbortFails(r) \/ CleanUpFails(r)
  BY <1>1, <1>8, JobLeftAlone DEF AbortFails, CleanUpFails, LeaveUncleaned
<1>9. QED
  BY <1>3, <1>4, <1>5, <1>6, <1>7, <1>8 DEF HandlerStep

LEMMA RecoverFollows ==
    ASSUME JobInv, RecoverJobs PROVE \A q \in Renders : Follows(q)
<1> SUFFICES ASSUME NEW r \in Renders PROVE Follows(r)
  OBVIOUS
<1>1. /\ jobs[r] \in Job /\ renders[r] \in Render /\ PairDown(r) /\ JobRow(r)
  BY DEF RecoverJobs, JobInv, PairInv, TypeOK, Up
<1>2. /\ jobs'[r] = [jobs[r] EXCEPT !.state = RecoveredJob(r)]
      /\ renders'[r] = [renders[r] EXCEPT !.state = RecoveredRender(r)]
  BY DEF RecoverJobs
<1>3. /\ jobs'[r].state = RecoveredJob(r) /\ jobs'[r].attempts = jobs[r].attempts
      /\ jobs'[r].cancelRequested = jobs[r].cancelRequested
      /\ renders'[r].state = RecoveredRender(r)
  BY <1>1, <1>2 DEF Job, Render
<1>4. RecoveredRender(r) = "cancelled" =>
          renders[r].state = "cancelled" \/ jobs[r].cancelRequested
  BY DEF RecoveredRender
<1>5. CASE RecoveredJob(r) = jobs[r].state
  <2>1. jobs'[r] = jobs[r]
    BY <1>1, <1>2, <1>5 DEF Job
  <2>2. QED
    BY <1>1, <1>3, <1>4, <2>1, JobLeftAlone
<1>6. CASE RecoveredJob(r) # jobs[r].state /\ RecoveredJob(r) = "queued"
  <2>1. /\ jobs[r].state = "running" /\ ~jobs[r].cancelRequested
        /\ jobs[r].attempts < MaxAttempts /\ renders[r].state = "queued"
    BY <1>1, <1>6 DEF RecoveredJob, JobActive, Job, Render, RenderStates, JobStates, MaxAttempts
  <2>2. RecoveredRender(r) = "queued"
    BY <1>1, <2>1 DEF RecoveredRender, JobActive, Job, MaxAttempts
  <2>3. JobRow(r)'
    BY <1>1, <1>3, <1>6, <2>1, <2>2 DEF JobRow, JobActive
  <2>4. Contract!Requeued(Seen(jobs[r]), Seen(jobs'[r]))
    BY <1>3, <1>6, <2>1 DEF Contract!Requeued, Seen
  <2>5. QED
    BY <2>3, <2>4 DEF Follows, Advances, Contract!Step
<1>7. CASE RecoveredJob(r) # jobs[r].state /\ RecoveredJob(r) # "queued"
  <2>1. JobActive(r)
    BY <1>7 DEF RecoveredJob
  <2>2. /\ renders[r].state = "succeeded" => ~jobs[r].cancelRequested
        /\ renders[r].state = "cancelled" => jobs[r].cancelRequested
    BY <1>1, <2>1 DEF JobInv, PairInv, SuccessIsNotCancelled, JobRow
  <2>3. /\ RecoveredJob(r) \in {"succeeded", "failed", "cancelled"}
        /\ jobs[r].cancelRequested <=> RecoveredJob(r) = "cancelled"
    BY <1>1, <1>7, <2>1, <2>2 DEF RecoveredJob, Render, RenderStates
  <2>4. QED
    BY <1>1, <1>3, <2>1, <2>3, JobSettles
<1>8. QED
  BY <1>5, <1>6, <1>7

\* Everything else leaves the jobs alone and cancels no Render.
LEMMA JobsLeftAlone ==
    ASSUME JobInv, jobs' = jobs,
           \A r \in Renders : renders'[r].state = "cancelled" => renders[r].state = "cancelled"
    PROVE  \A q \in Renders : Follows(q)
BY JobLeftAlone DEF JobInv

LEMMA EditFollows == ASSUME JobInv, EditStep PROVE \A q \in Renders : Follows(q)
<1>1. ASSUME NEW R, StaleSucceeded(R), jobs' = jobs PROVE \A q \in Renders : Follows(q)
  <2>1. \A r \in Renders : renders'[r].state = "cancelled" => renders[r].state = "cancelled"
    BY <1>1 DEF StaleSucceeded, JobInv, PairInv, TypeOK, Render
  <2>2. QED
    BY <1>1, <2>1, JobsLeftAlone
<1>2. ASSUME UNCHANGED <<renders, jobs>> PROVE \A q \in Renders : Follows(q)
  BY <1>2, JobsLeftAlone
<1>3. QED
  BY <1>1, <1>2
     DEF EditStep, UpdateShort, UpdateShortCopy, UpdateShortTimeline, UpdateShortTrack,
         ApproveShort, AcceptTranscriptRevision, MarkEpisodeSourceMissing, RestoreEpisode,
         RelinkOtherContent

LEMMA RequestFollows == ASSUME JobInv, RequestStep PROVE \A q \in Renders : Follows(q)
<1>1. ASSUME UNCHANGED <<renders, jobs>> PROVE \A q \in Renders : Follows(q)
  BY <1>1, JobsLeftAlone
<1>2. ASSUME NEW s \in Shorts, BeginPreflight(s) PROVE \A q \in Renders : Follows(q)
  BY <1>1, <1>2 DEF BeginPreflight
<1>3. ASSUME NEW p \in checking, NEW passed \in BOOLEAN, EndPreflight(p, passed)
      PROVE  \A q \in Renders : Follows(q)
  BY <1>1, <1>3 DEF EndPreflight
<1>4. ASSUME NEW r \in Renders, NEW s \in Shorts, StartRenderAttempt(r, s)
      PROVE  \A q \in Renders : Follows(q)
  BY <1>4, InsertFollows DEF StartRenderAttempt
<1>5. ASSUME NEW r \in Renders, NEW source \in Renders, RetryRenderAttempt(r, source)
      PROVE  \A q \in Renders : Follows(q)
  <2> DEFINE row == [renders[source] EXCEPT !.state = "queued", !.attempt = @ + 1]
  <2>1. row.state = "queued"
    BY DEF JobInv, PairInv, TypeOK, Render
  <2>2. InsertAttempt(r, row)
    BY <1>5 DEF RetryRenderAttempt
  <2> HIDE DEF row
  <2>3. QED
    BY <2>1, <2>2, InsertFollows
<1>6. ASSUME NEW r \in Renders, CancelQueued(r) \/ CancelRunning(r)
      PROVE  \A q \in Renders : Follows(q)
  BY <1>6, CancelQueuedFollows, CancelRunningFollows
<1>7. QED
  BY <1>2, <1>3, <1>4, <1>5, <1>6 DEF RequestStep

LEMMA NextFollows == ASSUME JobInv, [Next]_vars PROVE \A q \in Renders : Follows(q)
<1>1. ASSUME UNCHANGED <<renders, jobs>> PROVE \A q \in Renders : Follows(q)
  BY <1>1, JobsLeftAlone
<1>2. CASE ScheduleStep
  BY <1>1, <1>2 DEF ScheduleStep, DraftSchedule, MoveScheduleEntry, MarkPublished
<1>3. CASE Crash
  BY <1>1, <1>3 DEF Crash
<1>4. CASE UNCHANGED vars
  BY <1>1, <1>4 DEF vars
<1>5. ASSUME NEW r \in Renders, BeginRender(r) PROVE \A q \in Renders : Follows(q)
  <2>1. \A q \in Renders : renders'[q].state = "cancelled" => renders[q].state = "cancelled"
    BY <1>5 DEF BeginRender, JobInv, PairInv, TypeOK, Render
  <2>2. QED
    BY <1>5, <2>1, ClaimFollows DEF BeginRender
<1>6. ASSUME NEW r \in Renders, CrashAfterClaim(r) PROVE \A q \in Renders : Follows(q)
  BY <1>6, ClaimFollows DEF CrashAfterClaim
<1>7. ASSUME NEW corrupt \in SUBSET Renders, ReconcileRenderArtifacts(corrupt)
      PROVE  \A q \in Renders : Follows(q)
  <2>1. \A q \in Renders : renders'[q].state = "cancelled" => renders[q].state = "cancelled"
    BY <1>7 DEF ReconcileRenderArtifacts, JobInv, PairInv, TypeOK, Render
  <2>2. QED
    BY <1>7, <2>1, JobsLeftAlone DEF ReconcileRenderArtifacts
<1>8. QED
  BY <1>2, <1>3, <1>4, <1>5, <1>6, <1>7, EditFollows, RequestFollows, HandlerFollows,
     RecoverFollows DEF Next, Restart

LEMMA JobInvariance == Spec => []JobInv
<1>1. JobInv /\ [Next]_vars => JobInv'
  BY NextPair, NextFollows DEF JobInv, Follows
<1>2. QED
  BY <1>1, InitJob, PTL DEF Spec

\* The job of every Render is a job of JobContract, through edits, retries,
\* cancellations, crashes and recoveries (JobQueue.cancel, claimNext, JobRunner.tick,
\* recoverJobs on render jobs).
THEOREM RenderJobsFollowTheContract == Spec => ImplementsContract
<1>1. Init => Contract!Init
  BY DEF Init, Contract!Init, Contract!Absent, Seen, NoJob
<1>2. ASSUME JobInv, (\A r \in Renders : Seen(jobs[r]) \in Contract!Row)', [Next]_vars
      PROVE  [Contract!Next]_[r \in Renders |-> Seen(jobs[r])]
  <2> DEFINE job == [r \in Renders |-> Seen(jobs[r])]
  <2>1. job' \in [Renders -> Contract!Row]
    BY <1>2
  <2>2. \A r \in Renders : job'[r] = job[r] \/ Contract!Step(job[r], job'[r])
    BY <1>2, NextFollows DEF Follows, Advances
  <2>3. QED
    BY <2>1, <2>2 DEF Contract!Next
<1>3. JobInv => \A r \in Renders : Seen(jobs[r]) \in Contract!Row
  BY SeenType
<1>4. QED
  BY <1>1, <1>2, <1>3, JobInvariance, PTL DEF Spec, ImplementsContract, Contract!Spec
=============================================================================
