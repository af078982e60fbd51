------------------------------- MODULE JobQueue -------------------------------
(***************************************************************************)
(* The durable job queue of the core process (src/src/core/jobs.ts) and    *)
(* the part of Repository.recoverJobs that deals with every job that is    *)
(* not a render: enqueue, cancel, the single-flight runner, shutdown,      *)
(* crash, and restart with recovery.  Render jobs, which share these rows  *)
(* with a Render, are in RenderLifecycle.                                  *)
(*                                                                         *)
(* The job table is SQLite and survives a crash; the runner, the handler   *)
(* it awaits and the set of usable credential handles live in the process  *)
(* and do not.  better-sqlite3 is synchronous, so one action is one        *)
(* stretch of code between two awaits.                                     *)
(*                                                                         *)
(* A handler is abstracted to the two ways its promise settles; what it    *)
(* does in between is the subject of other modules.  progress and stage    *)
(* of a job are display data and are left out.                             *)
(***************************************************************************)
EXTENDS Naturals, FiniteSets

CONSTANTS
    Jobs,           \* job identifiers (randomUUID)
    Requests,       \* the requests clients make: [type, entity, provider]
    Entities,       \* what jobs are about; null is one of them
    Credentials,    \* protected credential handles
    None,           \* no credential, no job
    MaxCrashes,     \* bound: crashes of the core process
    MaxRestarts     \* bound: orderly shutdowns

MaxAttempts == 3    \* recoverJobs gives up on an idempotent job after three runs

IdempotentTypes ==
    {"probe", "hash", "candidates", "watched_folder_scan", "source_reconcile"}
UniqueTypes == {"watched_folder_scan", "source_reconcile"}
Types       == IdempotentTypes \cup {"analyze"}
Providers   == {"none", "local", "openai"}

ASSUME JobsAssumption == IsFiniteSet(Jobs)
ASSUME RequestsAssumption ==
    Requests \subseteq [type : Types, entity : Entities, provider : Providers]
\* startAnalysis is the only caller that asks for the cloud provider.
ASSUME CloudAssumption ==
    \A req \in Requests : req.provider = "openai" => req.type = "analyze"
ASSUME NoneAssumption == None \notin Jobs /\ None \notin Credentials
ASSUME BoundsAssumption == MaxCrashes \in Nat /\ MaxRestarts \in Nat

VARIABLES
    jobs,       \* [Jobs -> row]: the jobs table, absent rows included
    running,    \* the job whose handler the runner awaits, or None
    mode,       \* "up", "stopping" (JobRunner.stop awaits), "closed" or "crashed"
    grants,     \* cloud_authorizations: the credential granted for an entity
    handles,    \* activeCredentialHandles of this process
    crashes, restarts

vars == <<jobs, running, mode, grants, handles, crashes, restarts>>

States   == {"absent", "queued", "running", "succeeded", "failed", "cancelled"}
Active   == {"queued", "running"}
Terminal == {"succeeded", "failed", "cancelled"}

Row == [state           : States,
        type            : Types,
        entity          : Entities \cup {None},
        provider        : Providers,
        credential      : Credentials \cup {None},
        cancelRequested : BOOLEAN,
        attempts        : Nat,
        createdAt       : Nat]

NoRow == [state |-> "absent", type |-> "hash", entity |-> None,
          provider |-> "none", credential |-> None, cancelRequested |-> FALSE,
          attempts |-> 0, createdAt |-> 0]

Exists(j)   == jobs[j].state # "absent"
IsActive(j) == jobs[j].state \in Active
IsCloud(row) == row.provider = "openai"

\* The types recoverJobs may run a second time.
SafeToRetry(row) ==
    \/ row.type \in IdempotentTypes
    \/ row.type = "analyze" /\ row.provider = "local"

\* The database is open: the service answers its clients.
Serving == mode \in {"up", "stopping"}

Init ==
    /\ jobs = [j \in Jobs |-> NoRow]
    /\ running = None
    /\ mode = "up"
    /\ grants = [e \in Entities |-> None]
    /\ handles = {}
    /\ crashes = 0
    /\ restarts = 0
-----------------------------------------------------------------------------
(***************************************************************************)
(* Enqueue and cancel, from any client of the core at any moment.          *)
(***************************************************************************)

Authorized(entity, credential) ==
    /\ credential # None
    /\ grants[entity] = credential
    /\ credential \in handles

Insert(j, req, credential) ==
    /\ ~Exists(j)
    /\ jobs' = [jobs EXCEPT ![j] =
         [state |-> "queued", type |-> req.type, entity |-> req.entity,
          provider |-> req.provider, credential |-> credential,
          cancelRequested |-> FALSE, attempts |-> 0,
          createdAt |-> Cardinality({k \in Jobs : Exists(k)})]]
    /\ UNCHANGED <<running, mode, grants, handles, crashes, restarts>>

Enqueue(j, req) ==
    /\ Serving
    /\ req.type \notin UniqueTypes
    /\ req.provider # "openai"
    /\ Insert(j, req, None)

\* A cloud job binds the credential of the grant in force; without one it throws.
EnqueueCloud(j, req) ==
    /\ Serving
    /\ req.provider = "openai"
    /\ Authorized(req.entity, grants[req.entity])
    /\ Insert(j, req, grants[req.entity])

\* Mutant: a running twin does not count.
QueuedTwins(req) ==
    {k \in Jobs : /\ jobs[k].state = "queued"
                  /\ jobs[k].type = req.type /\ jobs[k].entity = req.entity}

ActiveTwins(req) ==
    {k \in Jobs : IsActive(k) /\ jobs[k].type = req.type /\ jobs[k].entity = req.entity}

\* With a queued or running twin the twin is returned and nothing is written.
EnqueueUnique(j, req) ==
    /\ Serving
    /\ req.type \in UniqueTypes
    /\ ActiveTwins(req) = {}
    /\ Insert(j, req, None)

Cancel(j) ==
    /\ Serving
    /\ IsActive(j)
    /\ jobs' = [jobs EXCEPT
         ![j].cancelRequested = TRUE,
         ![j].state = IF jobs[j].state = "queued" THEN "cancelled" ELSE "running"]
    /\ UNCHANGED <<running, mode, grants, handles, crashes, restarts>>
-----------------------------------------------------------------------------
(***************************************************************************)
(* The runner: one claimed job at a time.                                  *)
(***************************************************************************)

Claimable(j) == jobs[j].state = "queued" /\ ~jobs[j].cancelRequested

Oldest(j) ==
    /\ Claimable(j)
    /\ \A k \in Jobs : Claimable(k) => jobs[j].createdAt <= jobs[k].createdAt

CloudPayloadIsCurrentlyAuthorized(j) ==
    Authorized(jobs[j].entity, jobs[j].credential)

Idle == mode = "up" /\ running = None

\* tick -> claimNext: the handler is running when the claim returns.
Claim(j) ==
    /\ Idle
    /\ Oldest(j)
    /\ IsCloud(jobs[j]) => CloudPayloadIsCurrentlyAuthorized(j)
    /\ jobs' = [jobs EXCEPT ![j].state = "running", ![j].attempts = @ + 1]
    /\ running' = j
    /\ UNCHANGED <<mode, grants, handles, crashes, restarts>>

\* Mutant: the refusal is not written to the job.
RefuseCloudSilently(j) ==
    /\ Idle
    /\ Oldest(j)
    /\ IsCloud(jobs[j]) /\ ~CloudPayloadIsCurrentlyAuthorized(j)
    /\ UNCHANGED vars

\* claimNext fails a cloud job whose authorization is no longer current.
RefuseCloud(j) ==
    /\ Idle
    /\ Oldest(j)
    /\ IsCloud(jobs[j]) /\ ~CloudPayloadIsCurrentlyAuthorized(j)
    /\ jobs' = [jobs EXCEPT ![j].state = "failed"]
    /\ UNCHANGED <<running, mode, grants, handles, crashes, restarts>>

\* The verdict is written only over state='running'; the request is re-read.
\* tick also takes a thrown JOB_CANCELLED for a request; a handler throws it
\* only where it has read the request, so the row says the same.
Verdict(j, settled) ==
    IF jobs[j].state # "running" THEN jobs[j].state
    ELSE IF jobs[j].cancelRequested THEN "cancelled"
    ELSE IF settled = "returned" THEN "succeeded" ELSE "failed"

HandlerSettles(settled) ==
    /\ Serving
    /\ running # None
    /\ jobs' = [jobs EXCEPT ![running].state = Verdict(running, settled)]
    /\ running' = None
    /\ UNCHANGED <<mode, grants, handles, crashes, restarts>>

HandlerReturns == HandlerSettles("returned")
HandlerThrows  == HandlerSettles("threw")
-----------------------------------------------------------------------------
(***************************************************************************)
(* Cloud authorization, as far as enqueue and claim read it.               *)
(***************************************************************************)

GrantCloudAuthorization(e, c) ==
    /\ Serving
    /\ c \in handles
    /\ grants' = [grants EXCEPT ![e] = c]
    /\ UNCHANGED <<jobs, running, mode, handles, crashes, restarts>>

RevokeCloudAuthorization(e) ==
    /\ Serving
    /\ grants[e] # None
    /\ grants' = [grants EXCEPT ![e] = None]
    /\ UNCHANGED <<jobs, running, mode, handles, crashes, restarts>>

RemoveCredentialHandle(c) ==
    /\ Serving
    /\ grants' = [e \in Entities |-> IF grants[e] = c THEN None ELSE grants[e]]
    /\ handles' = handles \ {c}
    /\ UNCHANGED <<jobs, running, mode, crashes, restarts>>

\* Electron pushes the handles of its vault, also some time after a restart.
SynchronizeCredentialHandles(cs) ==
    /\ Serving
    /\ handles' = cs
    /\ UNCHANGED <<jobs, running, mode, grants, crashes, restarts>>
-----------------------------------------------------------------------------
(***************************************************************************)
(* Shutdown, crash, restart.                                               *)
(***************************************************************************)

\* JobRunner.stop: no further claim; it resolves when the handler has settled.
Stop ==
    /\ mode = "up"
    /\ restarts < MaxRestarts
    /\ mode' = "stopping"
    /\ restarts' = restarts + 1
    /\ UNCHANGED <<jobs, running, grants, handles, crashes>>

CloseDatabase ==
    /\ mode = "stopping"
    /\ running = None
    /\ mode' = "closed"
    /\ UNCHANGED <<jobs, running, grants, handles, crashes, restarts>>

Crash ==
    /\ Serving
    /\ crashes < MaxCrashes
    /\ mode' = "crashed"
    /\ running' = None
    /\ handles' = {}
    /\ crashes' = crashes + 1
    /\ UNCHANGED <<jobs, grants, restarts>>

\* Mutant: recovery requeues before it looks at cancellation requests.
RecoveredStateCancelLast(row) ==
    IF row.state # "running" THEN row.state
    ELSE IF SafeToRetry(row) /\ row.attempts < MaxAttempts THEN "queued"
    ELSE IF row.cancelRequested THEN "cancelled" ELSE "failed"

\* recoverJobs on one row that is not a render's.
RecoveredState(row) ==
    IF row.state # "running" THEN row.state
    ELSE IF row.cancelRequested THEN "cancelled"
    ELSE IF SafeToRetry(row) /\ row.attempts < MaxAttempts THEN "queued"
    ELSE "failed"

\* createCore: recover in one transaction, then start the runner.
Restart ==
    /\ mode \in {"closed", "crashed"}
    /\ jobs' = [j \in Jobs |-> [jobs[j] EXCEPT !.state = RecoveredState(jobs[j])]]
    /\ mode' = "up"
    /\ handles' = {}
    /\ UNCHANGED <<running, grants, crashes, restarts>>
-----------------------------------------------------------------------------
Next ==
    \/ \E j \in Jobs, req \in Requests :
          Enqueue(j, req) \/ EnqueueCloud(j, req) \/ EnqueueUnique(j, req)
    \/ \E j \in Jobs : Cancel(j)
    \/ \E j \in Jobs : Claim(j)
    \/ \E j \in Jobs : RefuseCloud(j)
    \/ HandlerReturns
    \/ HandlerThrows
    \/ \E e \in Entities, c \in Credentials : GrantCloudAuthorization(e, c)
    \/ \E e \in Entities : RevokeCloudAuthorization(e)
    \/ \E c \in Credentials : RemoveCredentialHandle(c)
    \/ \E cs \in SUBSET Credentials : SynchronizeCredentialHandles(cs)
    \/ Stop
    \/ CloseDatabase
    \/ Crash
    \/ Restart

Spec == Init /\ [][Next]_vars

(***************************************************************************)
(* The interval timer and the microtask of tick keep the runner ticking,   *)
(* handlers bound their own work by timeouts, shutdown runs to its end and *)
(* the operator starts the application again.  Nothing forces a client to  *)
(* enqueue, cancel, grant or revoke, and nothing forces a crash.           *)
(***************************************************************************)
Fairness ==
    /\ WF_vars(\E j \in Jobs : Claim(j) \/ RefuseCloud(j))
    /\ WF_vars(HandlerReturns \/ HandlerThrows)
    /\ WF_vars(CloseDatabase)
    /\ WF_vars(Restart)

FairSpec == Spec /\ Fairness
-----------------------------------------------------------------------------
(***************************************************************************)
(* Properties                                                              *)
(***************************************************************************)

\* The type invariant of the module.
TypeOK ==
    /\ jobs \in [Jobs -> Row]
    /\ running \in Jobs \cup {None}
    /\ mode \in {"up", "stopping", "closed", "crashed"}
    /\ grants \in [Entities -> Credentials \cup {None}]
    /\ handles \in SUBSET Credentials
    /\ crashes \in 0 .. MaxCrashes
    /\ restarts \in 0 .. MaxRestarts

\* While the process lives, a job the table shows as running is the one the
\* runner awaits; after an orderly close no job is left running.  A running
\* row without a handler would stay so until the next restart, and would
\* swallow every later enqueueUnique for its target.
RunningJobIsDriven ==
    /\ Serving => \A j \in Jobs : jobs[j].state = "running" <=> j = running
    /\ mode = "closed" => \A j \in Jobs : jobs[j].state # "running"

\* A cancellation that was accepted decides the verdict: whichever of the
\* handler, the runner, a crash or the recovery settles the job, it ends
\* cancelled, and nothing else ever ends cancelled.
VerdictHonoursCancel ==
    \A j \in Jobs : jobs[j].state \in Terminal =>
        (jobs[j].cancelRequested <=> jobs[j].state = "cancelled")

Budget(row) == IF SafeToRetry(row) /\ ~IsCloud(row) THEN MaxAttempts ELSE 1

\* No sequence of crashes and restarts runs a job more often than is safe: an
\* idempotent one three times, a cloud (billed) or otherwise unsafe one once.
BoundedExecutions ==
    \A j \in Jobs : jobs[j].attempts <= Budget(jobs[j])

\* At most one scan per watched folder and one reconciliation is queued or
\* running, also after a recovery has put an interrupted one back in the queue.
OneActivePerTarget ==
    \A j, k \in Jobs :
        /\ IsActive(j) /\ IsActive(k)
        /\ jobs[j].type \in UniqueTypes
        /\ jobs[k].type = jobs[j].type /\ jobs[k].entity = jobs[j].entity
        => j = k

\* What a client sees of a row.
Seen(row) == [state  |-> row.state,
              cancel |-> row.cancelRequested,
              runs   |-> row.attempts,
              budget |-> IF row.state = "absent" THEN 0 ELSE Budget(row)]

Contract == INSTANCE JobContract WITH
    MaxBudget <- MaxAttempts,
    job <- [j \in Jobs |-> Seen(jobs[j])]

\* Every job its client sees is a job of JobContract: it starts and is put back
\* only uncancelled and within its budget, and settles once, "cancelled"
\* exactly when that was requested (the whole of JobQueue, JobRunner and
\* recoverJobs).
ImplementsContract == Contract!Spec

\* Every job that was enqueued settles: crashes, recoveries and cancellations
\* never leave one queued or running for ever.
JobsSettle ==
    \A j \in Jobs : IsActive(j) ~> jobs[j].state \in Terminal

\* The documented job lifecycle (SPEC.md, 5.2): queued goes to running or to
\* cancelled, running to a verdict.
DocumentedLifecycle ==
    [][\A j \in Jobs : jobs[j].state = "queued" =>
          jobs'[j].state \in {"queued", "running", "cancelled"}]_vars
=============================================================================
