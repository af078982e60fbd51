--------------------------- MODULE ResumableUpload ---------------------------
(***************************************************************************)
(* The upload object of the hosted web client (apps/web/src/upload.ts):    *)
(* run() signs and sends the missing parts in batches and then asks the    *)
(* API to complete the session.  Pausing does not end a run, so a resume   *)
(* starts a second run beside one that still awaits its batch; a batch     *)
(* whose Promise.all rejected goes on sending its other parts.             *)
(***************************************************************************)
EXTENDS Naturals, FiniteSets, FiniteSetsExt

CONSTANTS
    PartCount,
    MaxParallelParts,
    Runs                \* bound: runs of one upload

ASSUME PartsAssumption == PartCount \in Nat /\ MaxParallelParts \in Nat \ {0}

VARIABLES
    paused,
    completed,  \* parts with an etag
    runs

clientVars == <<paused, completed, runs>>

Parts == 1 .. PartCount

\* sending is the rest of the batch, which a failed run leaves behind.
Run    == [phase : {"signing", "sending", "paused", "failed", "completing"},
           pending : SUBSET Parts, sending : SUBSET Parts, named : SUBSET Parts]
NotRun == [phase |-> "none", pending |-> {}, sending |-> {}, named |-> {}]

ClientInit ==
    /\ paused = FALSE
    /\ completed = {}
    /\ runs = [r \in Runs |-> NotRun]

\* pending.splice: the first parts of an ascending list.
Batch(pending) ==
    {k \in pending : Cardinality({i \in pending : i < k}) < MaxParallelParts}

\* From the head of the loop to the next await.
Continue(stopped, pending, done) ==
    IF stopped THEN [NotRun EXCEPT !.phase = "paused"]
    ELSE IF pending # {}
         THEN [phase |-> "signing", pending |-> pending \ Batch(pending),
               sending |-> Batch(pending), named |-> {}]
         ELSE [NotRun EXCEPT !.phase = "completing", !.named = done]

\* run, first or after resume.
StartRun(r) ==
    /\ runs[r].phase = "none"
    /\ ~paused
    /\ runs' = [runs EXCEPT ![r] = Continue(paused, Parts \ completed, completed)]
    /\ UNCHANGED <<paused, completed>>

Pause ==
    /\ \E r \in Runs : runs[r].phase # "none"
    /\ ~paused /\ paused' = TRUE
    /\ UNCHANGED <<completed, runs>>

Resume(r) ==
    /\ paused /\ paused' = FALSE
    /\ runs[r].phase = "none"
    /\ runs' = [runs EXCEPT ![r] = Continue(FALSE, Parts \ completed, completed)]
    /\ UNCHANGED completed

PartsSigned(r) ==
    /\ runs[r].phase = "signing"
    /\ \E phase \in {"sending", "failed"} :
          runs' = [runs EXCEPT ![r].phase = phase,
                               ![r].sending = IF phase = "failed" THEN {} ELSE @]
    /\ UNCHANGED <<paused, completed>>

\* The last part of a batch resumes the loop of its run.
PartStored(r, k) ==
    /\ runs[r].phase \in {"sending", "failed"}
    /\ k \in runs[r].sending
    /\ completed' = completed \cup {k}
    /\ runs' = [runs EXCEPT ![r] =
                  IF @.phase = "sending" /\ @.sending = {k}
                  THEN Continue(paused, @.pending, completed')
                  ELSE [@ EXCEPT !.sending = runs[r].sending \ {k}]]
    /\ UNCHANGED paused

\* Mutant: an answer that is not ok counts as the end of the part.
PartFailsQuietly(r, k) ==
    /\ runs[r].phase \in {"sending", "failed"}
    /\ k \in runs[r].sending
    /\ runs' = [runs EXCEPT ![r] =
                  IF @.phase = "sending" /\ @.sending = {k}
                  THEN Continue(paused, @.pending, completed)
                  ELSE [@ EXCEPT !.sending = runs[r].sending \ {k}]]
    /\ UNCHANGED <<paused, completed>>

\* The fetch fails or is not ok: the run rejects.
PartFails(r, k) ==
    /\ runs[r].phase \in {"sending", "failed"}
    /\ k \in runs[r].sending
    /\ runs' = [runs EXCEPT ![r].phase = "failed", ![r].sending = @ \ {k}]
    /\ UNCHANGED <<paused, completed>>

ClientNext ==
    \/ Pause
    \/ \E r \in Runs :
          \/ StartRun(r) \/ Resume(r) \/ PartsSigned(r)
          \/ \E k \in Parts : PartStored(r, k) \/ PartFails(r, k)

ClientSpec == ClientInit /\ [][ClientNext]_clientVars
-----------------------------------------------------------------------------
ClientTypeOK ==
    /\ paused \in BOOLEAN
    /\ completed \subseteq Parts
    /\ runs \in [Runs -> Run \cup {NotRun}]

\* Whatever was paused, resumed, failed or sent twice, the completion names
\* every part, so that the assembled object has no hole.
CompletionNamesEveryPart ==
    \A r \in Runs : runs[r].phase = "completing" => runs[r].named = Parts
=============================================================================
