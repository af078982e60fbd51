------------------------------ MODULE HostedJobs ------------------------------
(***************************************************************************)
(* The hosted job path: the jobs and outbox tables, the publisher that     *)
(* leases outbox records and sends them to a queue, and the workers that   *)
(* claim and run what the queue delivers, perhaps more than once.          *)
(*                                                                         *)
(* Sources: publisher.ts, processor.ts, and the two database adapters that *)
(* implement the same interfaces, postgres.ts and d1.ts, with the claim of *)
(* the outbox in migration 0002.  The adapters differ in their guards;     *)
(* Init picks one.                                                         *)
(*                                                                         *)
(* An action is one statement or transaction of the database, one call of  *)
(* the queue, or a stretch of the processor between two awaits.  Clocks    *)
(* are left out: a lease may lapse at any time, and the delay before a     *)
(* retry is any delay.                                                     *)
(***************************************************************************)
EXTENDS Naturals, FiniteSets

CONSTANTS
    Projects,
    Jobs,
    Workers,        \* workers, each with one job at a time
    Nobody,         \* no project, or no job
    MaxLeases,      \* bound: leases of one outbox record
    MaxFaults       \* bound: lost publishers and workers, failed calls

ASSUME NobodyAssumption == Nobody \notin Projects \cup Jobs
ASSUME JobBoundsAssumption == MaxLeases \in Nat /\ MaxFaults \in Nat

VARIABLES
    adapter,    \* "postgres" or "d1"
    projects,   \* the state column of the projects table
    jobs,       \* the jobs table
    outbox,     \* the outbox table
    sending,    \* leased records the publisher is awaiting something for
    queue,      \* jobs the queue may deliver
    workers,
    faults

jobTables == <<adapter, projects, jobs, outbox>>
jobVars   == <<adapter, projects, jobs, outbox, sending, queue, workers, faults>>

JobStates == {"queued", "running", "cancel_requested", "succeeded", "failed", "canceled"}
Settled   == {"succeeded", "canceled"}

Job   == [state : JobStates, project : Projects]
NoJob == [state |-> "absent", project |-> Nobody]

\* A claim stores a fresh token; the attempt number tells them apart as well.
OutboxRecord == [delivered : BOOLEAN, attempts : 0 .. MaxLeases,
                 leased : BOOLEAN, lapsed : BOOLEAN]
NoRecord     == [delivered |-> FALSE, attempts |-> 0, leased |-> FALSE, lapsed |-> FALSE]

Delivery == [job : Jobs, token : 1 .. MaxLeases, phase : {"leased", "sent", "failing"}]

\* The stretches of process; "reading" is the first half of the D1 claim.
Phases == {"reading", "claimed", "checking", "staging", "finishing", "failing"}
Worker == [phase : Phases, job : Jobs]
Idle   == [phase |-> "idle", job |-> Nobody]

Submitted == {j \in Jobs : jobs[j].state # "absent"}

JobInit ==
    /\ adapter \in {"postgres", "d1"}
    /\ projects = [p \in Projects |-> "active"]
    /\ jobs = [j \in Jobs |-> NoJob]
    /\ outbox = [j \in Jobs |-> NoRecord]
    /\ sending = {}
    /\ queue = {}
    /\ workers = [w \in Workers |-> Idle]
    /\ faults = 0

Fault == faults < MaxFaults /\ faults' = faults + 1
-----------------------------------------------------------------------------
(***************************************************************************)
(* Writers of the tables that the API calls.                               *)
(***************************************************************************)

\* insertJobAndOutbox: part of a transaction, one row in each table.
InsertJobAndOutbox(j, p) ==
    /\ jobs[j].state = "absent"
    /\ jobs' = [jobs EXCEPT ![j] = [state |-> "queued", project |-> p]]
    /\ UNCHANGED outbox

\* The jobs statement of the deletion of a project.
CancelledWith(p) ==
    [j \in Jobs |-> IF jobs[j].project = p /\ jobs[j].state \in {"queued", "running"}
                    THEN [jobs[j] EXCEPT !.state = "cancel_requested"] ELSE jobs[j]]

\* The revision, which the caller passes, is current or has been superseded.
\* D1 runs both statements of its batch also if the first matches no row.
DeleteProject(p, current) ==
    /\ LET deletes == current /\ projects[p] = "active"
       IN  /\ projects' = IF deletes THEN [projects EXCEPT ![p] = "deleting"] ELSE projects
           /\ jobs' = IF deletes \/ adapter = "d1" THEN CancelledWith(p) ELSE jobs
    /\ UNCHANGED <<adapter, outbox, sending, queue, workers, faults>>
-----------------------------------------------------------------------------
(***************************************************************************)
(* The publisher.  Records are leased in batches and then handled          *)
(* independently, so one lease is one Delivery.                            *)
(***************************************************************************)

\* Mutant: a lease is never taken over.
LeasableUnleased(j) ==
    /\ jobs[j].state # "absent"
    /\ ~outbox[j].delivered
    /\ ~outbox[j].leased

Leasable(j) ==
    /\ jobs[j].state # "absent"
    /\ ~outbox[j].delivered
    /\ ~outbox[j].leased \/ outbox[j].lapsed

ClaimOutbox(j) ==
    /\ Leasable(j)
    /\ outbox[j].attempts < MaxLeases
    /\ outbox' = [outbox EXCEPT ![j].attempts = @ + 1, ![j].leased = TRUE,
                                ![j].lapsed = FALSE]
    /\ sending' = sending \cup
         {[job |-> j, token |-> outbox[j].attempts + 1, phase |-> "leased"]}
    /\ UNCHANGED <<adapter, projects, jobs, queue, workers, faults>>


\* The token of the record is still the one of this delivery.
HoldsLease(d) ==
    /\ ~outbox[d.job].delivered
    /\ outbox[d.job].leased
    /\ outbox[d.job].attempts = d.token

\* Five minutes pass, for a publisher that died or for one that is slow.
LapseLease(j) ==
    /\ outbox[j].leased /\ ~outbox[j].lapsed /\ ~outbox[j].delivered
    /\ IF \E d \in sending : d.job = j /\ d.token = outbox[j].attempts
       THEN Fault ELSE UNCHANGED faults
    /\ outbox' = [outbox EXCEPT ![j].lapsed = TRUE]
    /\ UNCHANGED <<adapter, projects, jobs, sending, queue, workers>>

Goes(d, phase) == sending' = (sending \ {d}) \cup {[d EXCEPT !.phase = phase]}

Enqueue(d) ==
    /\ d.phase = "leased"
    /\ queue' = queue \cup {d.job}
    /\ Goes(d, "sent")
    /\ UNCHANGED <<jobTables, workers, faults>>

\* The send fails, before or after the queue took the message.
EnqueueFails(d) ==
    /\ d.phase = "leased"
    /\ Fault
    /\ queue' \in {queue, queue \cup {d.job}}
    /\ Goes(d, "failing")
    /\ UNCHANGED <<jobTables, workers>>

MarkDelivered(d) ==
    /\ d.phase = "sent"
    /\ outbox' = IF HoldsLease(d)
                 THEN [outbox EXCEPT ![d.job].delivered = TRUE, ![d.job].leased = FALSE,
                                     ![d.job].lapsed = FALSE]
                 ELSE outbox
    /\ sending' = sending \ {d}
    /\ UNCHANGED <<adapter, projects, jobs, queue, workers, faults>>

\* An acknowledgement that throws sends the delivery into the same catch.
MarkDeliveredFails(d) ==
    /\ d.phase = "sent"
    /\ Fault
    /\ Goes(d, "failing")
    /\ UNCHANGED <<jobTables, queue, workers>>

MarkFailed(d) ==
    /\ d.phase = "failing"
    /\ outbox' = IF HoldsLease(d)
                 THEN [outbox EXCEPT ![d.job].leased = FALSE, ![d.job].lapsed = FALSE]
                 ELSE outbox
    /\ sending' = sending \ {d}
    /\ UNCHANGED <<adapter, projects, jobs, queue, workers, faults>>

\* The publisher dies, or cannot even mark the failure.
LosePublisher(d) ==
    /\ Fault
    /\ sending' = sending \ {d}
    /\ UNCHANGED <<jobTables, queue, workers>>

PublisherStep ==
    \/ \E j \in Jobs : ClaimOutbox(j)
    \/ \E d \in sending : Enqueue(d) \/ MarkDelivered(d) \/ MarkFailed(d)

PublisherFault ==
    \E d \in sending : EnqueueFails(d) \/ MarkDeliveredFails(d) \/ LosePublisher(d)
-----------------------------------------------------------------------------
(***************************************************************************)
(* The workers.  The queue delivers a job at least once, to any worker     *)
(* that is free, and takes it back for another delivery when it likes.     *)
(***************************************************************************)

WorkerAt(w, phase) == workers[w].phase = phase

Moves(w, phase) ==
    workers' = [workers EXCEPT ![w] =
                  IF phase = "idle" THEN Idle ELSE [@ EXCEPT !.phase = phase]]

SetJob(j, state) == jobs' = [jobs EXCEPT ![j].state = state]

Claimable == {"queued", "failed"}

\* PostgresJobControl.claim locks the row; anything not claimable is answered
\* as a duplicate or as busy.
ClaimPostgres(w, j) ==
    /\ adapter = "postgres"
    /\ j \in queue
    /\ WorkerAt(w, "idle")
    /\ jobs[j].state \in Claimable
    /\ SetJob(j, "running")
    /\ workers' = [workers EXCEPT ![w] = [phase |-> "claimed", job |-> j]]
    /\ UNCHANGED <<adapter, projects, outbox, sending, queue, faults>>

\* The claim route checks the inputs first; D1JobControl.claim reads the state
\* and then updates under a condition.
ReadForClaim(w, j) ==
    /\ adapter = "d1"
    /\ j \in queue
    /\ WorkerAt(w, "idle")
    /\ projects[jobs[j].project] = "active"
    /\ jobs[j].state \in Claimable
    /\ workers' = [workers EXCEPT ![w] = [phase |-> "reading", job |-> j]]
    /\ UNCHANGED <<jobTables, sending, queue, faults>>

\* Mutant: the update trusts the state that was read.
ClaimD1Unconditionally(w) ==
    /\ WorkerAt(w, "reading")
    /\ SetJob(workers[w].job, "running")
    /\ Moves(w, "claimed")
    /\ UNCHANGED <<adapter, projects, outbox, sending, queue, faults>>

ClaimD1(w) ==
    /\ WorkerAt(w, "reading")
    /\ LET j == workers[w].job
       IN  IF jobs[j].state \in Claimable
           THEN SetJob(j, "running") /\ Moves(w, "claimed")
           ELSE UNCHANGED jobs /\ Moves(w, "idle")
    /\ UNCHANGED <<adapter, projects, outbox, sending, queue, faults>>

\* assertOrganizationOwnsInputs, then the first test for a cancellation.
AssertInputs(w) ==
    /\ WorkerAt(w, "claimed")
    /\ Moves(w, IF projects[jobs[workers[w].job].project] = "active"
                THEN "checking" ELSE "failing")
    /\ UNCHANGED <<jobTables, sending, queue, faults>>

CancellationRequested(w) ==
    /\ WorkerAt(w, "checking")
    /\ Moves(w, IF jobs[workers[w].job].state = "cancel_requested"
                THEN "failing" ELSE "staging")
    /\ UNCHANGED <<jobTables, sending, queue, faults>>

\* A stage is run, validated and promoted; the next one, if any, follows.
RunStage(w) ==
    /\ WorkerAt(w, "staging")
    /\ \E next \in {"checking", "finishing", "failing"} : Moves(w, next)
    /\ UNCHANGED <<jobTables, sending, queue, faults>>

\* The update matches no row if a cancellation was requested since.
Succeed(w) ==
    /\ WorkerAt(w, "finishing")
    /\ LET j == workers[w].job
       IN  IF jobs[j].state = "running" THEN SetJob(j, "succeeded") ELSE UNCHANGED jobs
    /\ Moves(w, "idle")
    /\ UNCHANGED <<adapter, projects, outbox, sending, queue, faults>>

\* The answer is lost, with or without the update: process goes on to its catch.
SucceedFails(w) ==
    /\ WorkerAt(w, "finishing")
    /\ Fault
    /\ LET j == workers[w].job
       IN  (jobs[j].state = "running" /\ SetJob(j, "succeeded")) \/ UNCHANGED jobs
    /\ Moves(w, "failing")
    /\ UNCHANGED <<adapter, projects, outbox, sending, queue>>

\* Mutant: the failure is recorded whatever the state of the job is.
FailAlways(w) ==
    /\ WorkerAt(w, "failing")
    /\ LET j == workers[w].job
       IN  SetJob(j, IF jobs[j].state = "cancel_requested" THEN "canceled" ELSE "failed")
    /\ Moves(w, "idle")
    /\ UNCHANGED <<adapter, projects, outbox, sending, queue, faults>>

\* Only the D1 update asks for a job that is still under way.
Fail(w) ==
    /\ WorkerAt(w, "failing")
    /\ LET j == workers[w].job
       IN  IF adapter = "d1" /\ jobs[j].state \notin {"running", "cancel_requested"}
           THEN UNCHANGED jobs
           ELSE SetJob(j, IF jobs[j].state = "cancel_requested" THEN "canceled" ELSE "failed")
    /\ Moves(w, "idle")
    /\ UNCHANGED <<adapter, projects, outbox, sending, queue, faults>>

LoseWorker(w) ==
    /\ ~WorkerAt(w, "idle")
    /\ Fault
    /\ Moves(w, "idle")
    /\ UNCHANGED <<jobTables, sending, queue>>

\* A worker that found its job settled acknowledges the message.
Acknowledge(j) ==
    /\ j \in queue
    /\ jobs[j].state \in Settled
    /\ queue' = queue \ {j}
    /\ UNCHANGED <<jobTables, sending, workers, faults>>

WorkerStep(w) ==
    \/ \E j \in Jobs : ClaimPostgres(w, j) \/ ReadForClaim(w, j)
    \/ ClaimD1(w)
    \/ AssertInputs(w)
    \/ CancellationRequested(w)
    \/ RunStage(w)
    \/ Succeed(w)
    \/ Fail(w)
-----------------------------------------------------------------------------
JobStep ==
    \/ PublisherStep
    \/ PublisherFault
    \/ \E j \in Jobs : LapseLease(j) \/ Acknowledge(j)
    \/ \E w \in Workers : WorkerStep(w) \/ SucceedFails(w) \/ LoseWorker(w)

\* The API inserts jobs of its own accord.
Submit ==
    /\ \E j \in Jobs, p \in Projects : projects[p] = "active" /\ InsertJobAndOutbox(j, p)
    /\ UNCHANGED <<adapter, projects, sending, queue, workers, faults>>

JobNext ==
    \/ Submit
    \/ \E p \in Projects, current \in BOOLEAN : DeleteProject(p, current)
    \/ JobStep

\* The publisher is a loop, or a scheduled function; a lease whose holder is
\* gone runs out.
JobFairness ==
    /\ \A j \in Jobs :
         /\ WF_jobVars(ClaimOutbox(j))
         /\ WF_jobVars(LapseLease(j) /\ UNCHANGED faults)
         /\ WF_jobVars(\E d \in sending : d.job = j /\ (Enqueue(d) \/ MarkDelivered(d) \/ MarkFailed(d)))

\* A worker goes on, and a job has finitely many stages.
WorkerFairness ==
    \A w \in Workers :
        /\ WF_jobVars(WorkerStep(w))
        /\ SF_jobVars(RunStage(w) /\ workers'[w].phase # "checking")

JobSpec == JobInit /\ [][JobNext]_jobVars /\ JobFairness
-----------------------------------------------------------------------------
JobTypeOK ==
    /\ adapter \in {"postgres", "d1"}
    /\ projects \in [Projects -> {"active", "deleting"}]
    /\ jobs \in [Jobs -> Job \cup {NoJob}]
    /\ outbox \in [Jobs -> OutboxRecord]
    /\ sending \subseteq Delivery
    /\ queue \subseteq Submitted
    /\ workers \in [Workers -> Worker \cup {Idle}]
    /\ faults \in 0 .. MaxFaults

\* Redelivered or not, a job is under way in one worker at a time: neither the
\* locked claim of postgres.ts nor the conditional update of d1.ts lets two
\* deliveries of one message through.
OneWorkerPerJob ==
    \A v, w \in Workers :
        /\ v # w
        /\ workers[v].job = workers[w].job
        /\ workers[v].job # Nobody
        => "reading" \in {workers[v].phase, workers[w].phase}

\* A verdict is final: a worker that lost the answer to its success and then
\* reports a failure, or a deletion of the project, does not reopen the job.
\* (The update of the Postgres adapter has no condition; see the README.)
SettledIsFinal ==
    [][\A j \in Jobs : adapter = "d1" /\ jobs[j].state \in Settled
                       => jobs'[j].state = jobs[j].state]_jobVars

\* Every job gets out of the outbox and into the queue, whichever publisher
\* dies on the way, and a failed send is never taken for one that went through.
JobsReachTheQueue ==
    \A j \in Jobs :
        jobs[j].state # "absent"
        ~> outbox[j].delivered /\ (jobs[j].state = "queued" => j \in queue)

\* "honor cancellation boundaries": a job whose cancellation was requested is
\* canceled in the end, or was done before.  It is not if it still waits in
\* the queue: every claim answers that it is busy.
CancelledJobsSettle ==
    \A j \in Jobs : jobs[j].state = "cancel_requested" ~> jobs[j].state \in Settled
=============================================================================
