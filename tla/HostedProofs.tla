----------------------------- MODULE HostedProofs -----------------------------
(***************************************************************************)
(* Proofs about the hosted service, for any number of jobs, workers,       *)
(* uploads, concurrent calls, faults, users, events, parts and runs, and   *)
(* for both database adapters: HostedJobs, HostedUploads with the jobs it  *)
(* creates, HostedAccounts, and ResumableUpload.                           *)
(***************************************************************************)
EXTENDS HostedUploads, HostedAccounts, ResumableUpload, FiniteSetTheorems, TLAPS

-----------------------------------------------------------------------------
(***************************************************************************)
(* Jobs.  That one worker runs a job needs that a job under way is in no   *)
(* state from which it can be claimed.                                     *)
(***************************************************************************)

\* The worker has claimed its job.
Busy(w) == workers[w].phase \notin {"idle", "reading"}

Taken == {"running", "cancel_requested", "succeeded"}

JobsInv ==
    /\ JobTypeOK
    /\ \A d \in sending : d.job \in Submitted
    /\ \A w \in Workers : workers[w].phase = "reading" => workers[w].job \in Submitted
    /\ \A w \in Workers : Busy(w) => jobs[workers[w].job].state \in Taken
    /\ \A v, w \in Workers : v # w /\ Busy(v) /\ Busy(w) => workers[v].job # workers[w].job

(***************************************************************************)
(* Uploads.                                                                *)
(***************************************************************************)

Creating   == {"admitted", "checked", "reserved", "opened"}
Completing == {"completing", "assembled"}

\* An upload that is created is known to one call only; one that is completed
\* is completed by one call only.
CallsAreApart ==
    \A c, d \in Calls : c # d /\ calls[c].upload = calls[d].upload =>
        /\ calls[c].phase \notin Creating
        /\ ~(calls[c].phase \in Completing /\ calls[d].phase \in Completing)

\* What a call of each phase may count on, though others ran since.
CallInv(c) ==
    LET u == calls[c].upload
    IN  /\ calls[c].phase \in Creating => uploads[u].state = "absent"
        /\ calls[c].phase \in {"found", "aborting", "cleared"} => u \in answered
        /\ calls[c].phase \in {"admitted", "checked"} => ledger[u] = {}
        /\ calls[c].phase \in {"reserved", "opened"} => ledger[u] = {"reserve"}
        /\ calls[c].phase = "releasing" =>
              u \notin Live /\ ledger[u] # {}
        /\ calls[c].phase \in Completing => uploads[u].state = "completing"
        /\ calls[c].phase = "assembled" => objects[u] = "assembled"

SessionsAreCharged ==
    \A u \in Live : ledger[u] = {"reserve"}

AnsweredAreInserted == \A u \in answered : uploads[u].state # "absent"

\* A completed session has exactly one job that reads it, any other none.
Read(u) == {j \in Submitted : inputs[j] = u}

ReadIffComplete ==
    \A u \in Uploads :
        IF uploads[u].state = "complete"
        THEN (\E j \in Jobs : Read(u) = {j}) /\ objects[u] = "assembled"
        ELSE Read(u) = {}

\* The calls that passed the check of the quota and have not reserved.
Checked == {c \in Calls : CallAt(c, "checked")}

Largest == Max({Bytes[u] : u \in Uploads} \cup {0})

Ceiling == StorageByteLimit + (Cardinality(Calls) - 1) * Largest

\* Whichever of them reserves first, one of them saw all that was reserved
\* before; the others add at most the largest upload each.
OverdraftInv ==
    IF Checked = {} THEN reserved <= Ceiling
    ELSE \E c \in Checked :
            reserved + Bytes[calls[c].upload] + (Cardinality(Checked) - 1) * Largest <= Ceiling

UploadInv ==
    /\ JobsInv
    /\ UploadTypeOK
    /\ CallsAreApart
    /\ \A c \in Calls : CallInv(c)
    /\ SessionsAreCharged
    /\ AnsweredAreInserted
    /\ reserved = Cardinality(Held)
    /\ ReadIffComplete
    /\ OverdraftInv

(***************************************************************************)
(* Accounts.  Rows remember the event that wrote them, and the provider's  *)
(* membership is that of the last event it issued for the user.            *)
(***************************************************************************)

Granting == {"organizationMembership.created", "organizationMembership.updated"}
Revoking == {"organizationMembership.deleted", "user.deleted"}

LogInv ==
    /\ IsFiniteSet(log)
    /\ \A e \in log : e.seq <= Cardinality(log)
    /\ \A e, f \in log : e.seq = f.seq => e = f
    /\ \A e \in log :
          IF e.type \in {"organization.created", "organization.deleted"}
          THEN e.user = None ELSE e.user \in Users

MembershipsOf(u) == {e \in log : e.type \in MembershipTypes /\ e.user = u}
IsLatest(e, u)   == e \in MembershipsOf(u) /\ \A f \in MembershipsOf(u) : f.seq <= e.seq

MembershipIsLatest(u) ==
    \/ Has("organization.deleted", None) \/ Has("user.deleted", u)
    \/ IF membership[u] = None
       THEN \/ MembershipsOf(u) = {}
            \/ \E e \in log : IsLatest(e, u) /\ e.type \notin Granting
       ELSE \E e \in log : IsLatest(e, u) /\ e.type \in Granting /\ e.role = membership[u]

\* The event e wrote the membership row of the user.
Wrote(e, u) ==
    /\ e.user = u /\ e.seq = members[u].seq
    /\ \/ e.type \in Granting /\ members[u].state = "active" /\ e.role = members[u].role
       \/ e.type \in Revoking /\ members[u].state = "revoked"

RowsInv ==
    store = "postgres" =>
        /\ checked = {}
        /\ \A e \in processed : e.type \in MembershipTypes => e.seq <= members[e.user].seq
        /\ \A u \in Users : members[u] = NoRow \/ \E e \in processed : Wrote(e, u)
        /\ \/ Has("organization.deleted", None)
           \/ IF \E e \in processed : e.type = "organization.created"
              THEN organization.state = "active" ELSE organization = NoRow

AccountInv ==
    AccountTypeOK /\ LogInv /\ (\A u \in Users : MembershipIsLatest(u)) /\ RowsInv

(***************************************************************************)
(* The upload object of the client.  What a run has yet to sign and what   *)
(* it sends are, with the parts stored so far, all parts.                  *)
(***************************************************************************)

RunIsOnItsWay(run, done) ==
    /\ run.phase \in {"signing", "sending"} => done \cup run.pending \cup run.sending = Parts
    /\ run.phase = "completing" => run.named = Parts

ClientInv == ClientTypeOK /\ \A r \in Runs : RunIsOnItsWay(runs[r], completed)
-----------------------------------------------------------------------------
(***************************************************************************)
(* Jobs: types, and one worker per job.                                    *)
(***************************************************************************)

LEMMA JobTypes ==
    ASSUME JobTypeOK
    PROVE  /\ \A j \in Jobs : jobs[j] \in Job \cup {NoJob}
           /\ \A j \in Jobs : j \in Submitted <=> jobs[j] \in Job
           /\ \A w \in Workers : workers[w] \in Worker \cup {Idle}
           /\ \A w \in Workers : workers[w].phase # "idle" => workers[w] \in Worker
BY DEF JobTypeOK, Job, NoJob, JobStates, Submitted, Idle

LEMMA InitJobsInv == JobInit => JobsInv
BY NobodyAssumption, JobBoundsAssumption
   DEF JobInit, JobsInv, JobTypeOK, NoJob, NoRecord, OutboxRecord, Idle, Submitted, Busy

LEMMA JobsInvUnchanged == ASSUME JobsInv, UNCHANGED jobVars PROVE JobsInv'
BY DEF JobsInv, jobVars, JobTypeOK, Submitted, Busy

LEMMA FaultType == ASSUME JobTypeOK, Fault PROVE faults' \in 0 .. MaxFaults
BY JobBoundsAssumption DEF JobTypeOK, Fault

\* The API inserts a job; it has no worker yet.
LEMMA InsertJobsInv ==
    ASSUME JobsInv, NEW j \in Jobs, NEW p \in Projects, InsertJobAndOutbox(j, p),
           UNCHANGED <<adapter, projects, sending, queue, workers>>,
           faults' \in 0 .. MaxFaults
    PROVE  JobsInv'
<1>1. jobs' \in [Jobs -> Job \cup {NoJob}]
  BY DEF InsertJobAndOutbox, JobsInv, JobTypeOK, Job, JobStates
<1>2. Submitted' = Submitted \cup {j}
  BY DEF InsertJobAndOutbox, JobsInv, JobTypeOK, Submitted
<1>3. \A w \in Workers : Busy(w) => workers[w].job \in Jobs /\ workers[w].job # j
  BY JobTypes DEF InsertJobAndOutbox, JobsInv, Busy, Worker, Taken
<1>4. \A w \in Workers : Busy(w) => jobs'[workers[w].job].state \in Taken
  BY <1>3 DEF InsertJobAndOutbox, JobsInv, JobTypeOK
<1>5. JobTypeOK'
  BY <1>1, <1>2 DEF InsertJobAndOutbox, JobsInv, JobTypeOK
<1>6. QED
  BY <1>2, <1>4, <1>5 DEF JobsInv, Busy

\* A deletion cancels what is queued or running.
LEMMA DeleteJobsInv ==
    ASSUME JobsInv, NEW p \in Projects, NEW current \in BOOLEAN, DeleteProject(p, current)
    PROVE  JobsInv'
<1>1. \A j \in Jobs : CancelledWith(p)[j] \in Job \cup {NoJob}
  BY JobTypes DEF CancelledWith, JobsInv, Job, JobStates, NoJob
<1>2. jobs' = CancelledWith(p) \/ jobs' = jobs
  BY DEF DeleteProject
<1>3. jobs' \in [Jobs -> Job \cup {NoJob}]
  BY <1>1, <1>2 DEF CancelledWith, JobsInv, JobTypeOK
<1>4. \A j \in Jobs : \/ jobs'[j] = jobs[j]
                      \/ /\ jobs[j].state \in {"queued", "running"}
                         /\ jobs'[j].state = "cancel_requested"
  BY <1>2, JobTypes DEF CancelledWith, JobsInv, Job, NoJob
<1>5. Submitted' = Submitted
  BY <1>4 DEF Submitted
<1>6. projects' \in [Projects -> {"active", "deleting"}]
  BY DEF DeleteProject, JobsInv, JobTypeOK
<1>7. JobTypeOK'
  BY <1>3, <1>5, <1>6 DEF DeleteProject, JobsInv, JobTypeOK
<1>8. \A w \in Workers : Busy(w) => jobs'[workers[w].job].state \in Taken
  BY <1>4, JobTypes DEF JobsInv, Busy, Worker, Taken
<1>9. QED
  BY <1>5, <1>7, <1>8 DEF DeleteProject, JobsInv, Busy

\* The publisher and the queue touch neither jobs nor workers.
LEMMA PublishJobsInv ==
    ASSUME JobsInv, UNCHANGED <<adapter, projects, jobs, workers>>,
           outbox' \in [Jobs -> OutboxRecord], sending' \subseteq Delivery,
           queue' \subseteq Submitted, \A d \in sending' : d.job \in Submitted,
           faults' \in 0 .. MaxFaults
    PROVE  JobsInv'
BY DEF JobsInv, JobTypeOK, Submitted, Busy

LEMMA GoesType ==
    ASSUME JobsInv, NEW d \in sending, NEW phase \in {"leased", "sent", "failing"},
           Goes(d, phase)
    PROVE  sending' \subseteq Delivery /\ \A e \in sending' : e.job \in Submitted
BY DEF JobsInv, JobTypeOK, Goes, Delivery

LEMMA OutboxRow ==
    ASSUME NEW row \in OutboxRecord, NEW delivered \in BOOLEAN, NEW lapsed \in BOOLEAN,
           NEW leased \in BOOLEAN, NEW attempts \in 0 .. MaxLeases
    PROVE  /\ [row EXCEPT !.lapsed = lapsed] \in OutboxRecord
           /\ [row EXCEPT !.leased = leased, !.lapsed = lapsed] \in OutboxRecord
           /\ [row EXCEPT !.delivered = delivered, !.leased = leased, !.lapsed = lapsed]
                 \in OutboxRecord
           /\ [row EXCEPT !.attempts = attempts, !.leased = leased, !.lapsed = lapsed]
                 \in OutboxRecord
<1> DEFINE N == 0 .. MaxLeases
<1> attempts \in N /\ OutboxRecord = [delivered : BOOLEAN, attempts : N,
                                      leased : BOOLEAN, lapsed : BOOLEAN]
  BY DEF OutboxRecord
<1> HIDE DEF N
<1>1. [row EXCEPT !.lapsed = lapsed] \in OutboxRecord
  OBVIOUS
<1>2. [row EXCEPT !.leased = leased, !.lapsed = lapsed] \in OutboxRecord
  OBVIOUS
<1>3. [row EXCEPT !.delivered = delivered, !.leased = leased, !.lapsed = lapsed] \in OutboxRecord
  OBVIOUS
<1>4. [row EXCEPT !.attempts = attempts, !.leased = leased, !.lapsed = lapsed] \in OutboxRecord
  OBVIOUS
<1>5. QED
  BY <1>1, <1>2, <1>3, <1>4

LEMMA PublisherJobsInv ==
    ASSUME JobsInv,
           PublisherStep \/ PublisherFault \/ \E j \in Jobs : LapseLease(j) \/ Acknowledge(j)
    PROVE  JobsInv'
<1> USE DEF jobTables
<1>1. /\ \A d \in sending : d \in Delivery /\ d.job \in Submitted
      /\ queue \subseteq Submitted /\ outbox \in [Jobs -> OutboxRecord]
      /\ faults \in 0 .. MaxFaults /\ JobTypeOK
  BY DEF JobsInv, JobTypeOK
<1>2. ASSUME NEW j \in Jobs, ClaimOutbox(j) PROVE JobsInv'
  <2>1. /\ outbox[j] \in OutboxRecord /\ outbox[j].attempts + 1 \in 1 .. MaxLeases
        /\ j \in Submitted
    BY <1>1, <1>2, JobBoundsAssumption
       DEF ClaimOutbox, Leasable, OutboxRecord, Submitted
  <2>2. [outbox[j] EXCEPT !.attempts = @ + 1, !.leased = TRUE, !.lapsed = FALSE] \in OutboxRecord
    <3>1. outbox[j].attempts + 1 \in 0 .. MaxLeases
      BY <2>1, JobBoundsAssumption
    <3>2. QED
      BY <2>1, <3>1, OutboxRow
  <2>3. outbox' \in [Jobs -> OutboxRecord]
    BY <1>1, <1>2, <2>2 DEF ClaimOutbox
  <2>4. [job |-> j, token |-> outbox[j].attempts + 1, phase |-> "leased"] \in Delivery
    BY <2>1 DEF Delivery
  <2>5. sending' \subseteq Delivery /\ \A d \in sending' : d.job \in Submitted
    BY <1>1, <1>2, <2>1, <2>4 DEF ClaimOutbox
  <2>6. QED
    BY <1>1, <1>2, <2>3, <2>5, PublishJobsInv DEF ClaimOutbox
<1>3. ASSUME NEW d \in sending, Enqueue(d) \/ EnqueueFails(d) PROVE JobsInv'
  <2>1. queue' \subseteq Submitted
    BY <1>1, <1>3 DEF Enqueue, EnqueueFails
  <2>2. sending' \subseteq Delivery /\ \A e \in sending' : e.job \in Submitted
    BY <1>3, GoesType DEF Enqueue, EnqueueFails
  <2>3. faults' \in 0 .. MaxFaults
    BY <1>1, <1>3, FaultType DEF Enqueue, EnqueueFails
  <2>4. QED
    BY <1>1, <1>3, <2>1, <2>2, <2>3, PublishJobsInv DEF Enqueue, EnqueueFails
<1>4. ASSUME NEW d \in sending, MarkDelivered(d) \/ MarkFailed(d) PROVE JobsInv'
  <2>1. outbox' \in [Jobs -> OutboxRecord]
    <3>1. d.job \in Jobs /\ outbox[d.job] \in OutboxRecord
      BY <1>1 DEF Delivery
    <3>2. [outbox[d.job] EXCEPT !.delivered = TRUE, !.leased = FALSE, !.lapsed = FALSE]
             \in OutboxRecord
      BY <3>1 DEF OutboxRecord
    <3>3. [outbox[d.job] EXCEPT !.leased = FALSE, !.lapsed = FALSE] \in OutboxRecord
      BY <3>1 DEF OutboxRecord
    <3>4. CASE MarkDelivered(d)
      BY <1>1, <3>1, <3>2, <3>4 DEF MarkDelivered
    <3>5. CASE MarkFailed(d)
      BY <1>1, <3>1, <3>3, <3>5 DEF MarkFailed
    <3>6. QED
      BY <1>4, <3>4, <3>5
  <2>2. QED
    BY <1>1, <1>4, <2>1, PublishJobsInv DEF MarkDelivered, MarkFailed
<1>5. ASSUME NEW d \in sending, MarkDeliveredFails(d) PROVE JobsInv'
  <2>1. sending' \subseteq Delivery /\ \A e \in sending' : e.job \in Submitted
    BY <1>5, GoesType DEF MarkDeliveredFails
  <2>2. QED
    BY <1>1, <1>5, <2>1, FaultType, PublishJobsInv DEF MarkDeliveredFails
<1>6. ASSUME NEW d \in sending, LosePublisher(d) PROVE JobsInv'
  BY <1>1, <1>6, FaultType, PublishJobsInv DEF LosePublisher
<1>7. ASSUME NEW j \in Jobs, LapseLease(j) PROVE JobsInv'
  <2>1. outbox' \in [Jobs -> OutboxRecord]
    <3>1. [outbox[j] EXCEPT !.lapsed = TRUE] \in OutboxRecord
      BY <1>1 DEF OutboxRecord
    <3>2. QED
      BY <1>1, <1>7, <3>1 DEF LapseLease
  <2>2. faults' \in 0 .. MaxFaults
    BY <1>1, <1>7, FaultType DEF LapseLease
  <2>3. QED
    BY <1>1, <1>7, <2>1, <2>2, PublishJobsInv DEF LapseLease
<1>8. ASSUME NEW j \in Jobs, Acknowledge(j) PROVE JobsInv'
  BY <1>1, <1>8, PublishJobsInv DEF Acknowledge
<1>9. QED
  BY <1>2, <1>3, <1>4, <1>5, <1>6, <1>7, <1>8 DEF PublisherStep, PublisherFault

\* What a worker step has to keep, whatever it does to the job.
LEMMA WorkerJobsInv ==
    ASSUME JobsInv, NEW w \in Workers, NEW new \in Worker \cup {Idle},
           workers' = [workers EXCEPT ![w] = new],
           jobs' \in [Jobs -> Job \cup {NoJob}], Submitted' = Submitted,
           UNCHANGED <<adapter, projects, outbox, sending, queue>>,
           faults' \in 0 .. MaxFaults,
           new.phase = "reading" => new.job \in Submitted,
           new.phase \notin {"idle", "reading"} =>
              /\ jobs'[new.job].state \in Taken
              /\ \A v \in Workers \ {w} : Busy(v) => workers[v].job # new.job,
           \A v \in Workers \ {w} : Busy(v) => jobs'[workers[v].job].state \in Taken
    PROVE  JobsInv'
<1>1. workers \in [Workers -> Worker \cup {Idle}]
  BY DEF JobsInv, JobTypeOK
<1>2. workers'[w] = new /\ \A v \in Workers \ {w} : workers'[v] = workers[v]
  BY <1>1
<1>3. workers' \in [Workers -> Worker \cup {Idle}]
  BY <1>1
<1>4. JobTypeOK'
  BY <1>3 DEF JobsInv, JobTypeOK
<1>5. \A v \in Workers : workers'[v].phase = "reading" => workers'[v].job \in Submitted
  BY <1>2 DEF JobsInv
<1>6. \A v \in Workers : Busy(v)' => jobs'[workers'[v].job].state \in Taken
  BY <1>2 DEF Busy
<1>7. \A u, v \in Workers : u # v /\ Busy(u)' /\ Busy(v)' => workers'[u].job # workers'[v].job
  BY <1>2 DEF JobsInv, Busy
<1>8. QED
  BY <1>4, <1>5, <1>6, <1>7 DEF JobsInv

\* A worker that has claimed its job goes on with it or gives it up.
LEMMA MoveJobsInv ==
    ASSUME JobsInv, NEW w \in Workers, NEW phase \in {"idle", "checking", "staging",
                                                     "finishing", "failing"},
           Busy(w) \/ phase = "idle", Moves(w, phase),
           UNCHANGED <<adapter, projects, jobs, outbox, sending, queue>>,
           faults' \in 0 .. MaxFaults
    PROVE  JobsInv'
<1>1. PICK new : /\ new \in Worker \cup {Idle} /\ new.phase # "reading"
                 /\ new.phase # "idle" => Busy(w) /\ new.job = workers[w].job
                 /\ workers' = [workers EXCEPT ![w] = new]
  <2>1. CASE phase = "idle"
    BY <2>1 DEF Moves, Idle
  <2>2. CASE phase # "idle"
    <3>1. workers[w] \in Worker
      BY <2>2, JobTypes DEF Busy, JobsInv
    <3>2. [workers[w] EXCEPT !.phase = phase] \in Worker
      <4>1. phase \in Phases
        BY <2>2 DEF Phases
      <4>2. QED
        BY <3>1, <4>1 DEF Worker
    <3>3. [workers[w] EXCEPT !.phase = phase].phase = phase
      BY <3>1 DEF Worker
    <3>4. [workers[w] EXCEPT !.phase = phase].job = workers[w].job
      BY <3>1 DEF Worker
    <3>5. QED
      BY <2>2, <3>2, <3>3, <3>4 DEF Moves
  <2>3. QED
    BY <2>1, <2>2
<1>2. Submitted' = Submitted /\ jobs' \in [Jobs -> Job \cup {NoJob}]
  BY DEF Submitted, JobsInv, JobTypeOK
<1>3. new.phase \notin {"idle", "reading"} =>
         /\ jobs'[new.job].state \in Taken
         /\ \A v \in Workers \ {w} : Busy(v) => workers[v].job # new.job
  BY <1>1 DEF JobsInv
<1>4. \A v \in Workers \ {w} : Busy(v) => jobs'[workers[v].job].state \in Taken
  BY DEF JobsInv
<1>5. QED
  BY <1>1, <1>2, <1>3, <1>4, WorkerJobsInv

LEMMA SetJobType ==
    ASSUME JobsInv, NEW j \in Submitted, NEW state \in JobStates, SetJob(j, state)
    PROVE  /\ jobs' \in [Jobs -> Job \cup {NoJob}] /\ Submitted' = Submitted
           /\ jobs'[j].state = state
           /\ \A i \in Jobs \ {j} : jobs'[i] = jobs[i]
<1>1. j \in Jobs /\ jobs[j] \in Job /\ jobs \in [Jobs -> Job \cup {NoJob}]
  BY JobTypes DEF JobsInv, JobTypeOK, Submitted
<1>2. [jobs[j] EXCEPT !.state = state] \in Job
  BY <1>1 DEF Job
<1>3. [jobs[j] EXCEPT !.state = state].state = state
  BY <1>1 DEF Job
<1>4. jobs' = [jobs EXCEPT ![j] = [jobs[j] EXCEPT !.state = state]]
  BY DEF SetJob
<1>5. jobs' \in [Jobs -> Job \cup {NoJob}]
  BY <1>1, <1>2, <1>4
<1>6. jobs'[j].state = state /\ \A i \in Jobs \ {j} : jobs'[i] = jobs[i]
  BY <1>1, <1>3, <1>4
<1>7. Submitted' = Submitted
  BY <1>6 DEF Submitted, JobStates
<1>8. QED
  BY <1>5, <1>6, <1>7

\* A worker gives its job a state, and is done or goes on to its catch.
LEMMA SettleJobsInv ==
    ASSUME JobsInv, NEW w \in Workers, Busy(w), NEW j, j = workers[w].job,
           NEW state \in JobStates, SetJob(j, state), NEW phase \in {"idle", "failing"}, Moves(w, phase),
           phase = "failing" => state \in Taken,
           UNCHANGED <<adapter, projects, outbox, sending, queue>>, faults' \in 0 .. MaxFaults
    PROVE  JobsInv'
<1>1. workers[w] \in Worker /\ j \in Submitted
  BY JobTypes DEF JobsInv, Busy, Worker, Taken, Submitted
<1>2. /\ jobs' \in [Jobs -> Job \cup {NoJob}] /\ Submitted' = Submitted
      /\ jobs'[j].state = state
      /\ \A i \in Jobs \ {j} : jobs'[i] = jobs[i]
  BY <1>1, SetJobType
<1>3. \A v \in Workers \ {w} : Busy(v) =>
         /\ workers[v].job # j
         /\ jobs'[workers[v].job].state \in Taken
  BY <1>2, JobTypes DEF JobsInv, Worker, Busy
<1>4. CASE phase = "idle"
  <2>1. Idle \in Worker \cup {Idle} /\ Idle.phase = "idle" /\ workers' = [workers EXCEPT ![w] = Idle]
    BY <1>4 DEF Moves, Idle
  <2>2. QED
    BY <1>2, <1>3, <2>1, WorkerJobsInv
<1>5. CASE phase = "failing"
  <2> DEFINE new == [workers[w] EXCEPT !.phase = "failing"]
  <2>1. new \in Worker /\ new.phase = "failing" /\ new.job = j
    BY <1>1 DEF Worker, Phases
  <2>2. workers' = [workers EXCEPT ![w] = new]
    BY <1>5 DEF Moves
  <2> HIDE DEF new
  <2>3. QED
    BY <1>2, <1>3, <1>5, <2>1, <2>2, WorkerJobsInv
<1>6. QED
  BY <1>4, <1>5

\* Either claim finds the job in a state no busy worker leaves it in.
LEMMA ClaimJobsInv ==
    ASSUME JobsInv, NEW w \in Workers, NEW j \in Submitted, jobs[j].state \in Claimable,
           SetJob(j, "running"), workers' = [workers EXCEPT ![w] = [phase |-> "claimed", job |-> j]],
           UNCHANGED <<adapter, projects, outbox, sending, queue, faults>>
    PROVE  JobsInv'
<1> DEFINE new == [phase |-> "claimed", job |-> j]
<1>1. new \in Worker /\ new.phase = "claimed" /\ new.job = j
  BY DEF Worker, Phases, Submitted
<1>2. /\ jobs' \in [Jobs -> Job \cup {NoJob}] /\ Submitted' = Submitted
      /\ jobs'[j].state = "running"
      /\ \A i \in Jobs \ {j} : jobs'[i] = jobs[i]
  BY SetJobType DEF JobStates
<1>3. \A v \in Workers \ {w} : Busy(v) =>
         /\ workers[v].job # j
         /\ jobs'[workers[v].job].state \in Taken
  BY <1>2, JobTypes DEF JobsInv, Worker, Busy, Taken, Claimable
<1>4. faults' \in 0 .. MaxFaults
  BY DEF JobsInv, JobTypeOK
<1>5. workers' = [workers EXCEPT ![w] = new]
  OBVIOUS
<1> HIDE DEF new
<1>6. "running" \in Taken
  BY DEF Taken
<1>7. /\ jobs'[new.job].state \in Taken
      /\ \A v \in Workers \ {w} : Busy(v) => workers[v].job # new.job
  BY <1>1, <1>2, <1>3, <1>6
<1>8. \A v \in Workers \ {w} : Busy(v) => jobs'[workers[v].job].state \in Taken
  BY <1>3
<1>9. new.phase # "reading" /\ new \in Worker \cup {Idle}
  BY <1>1
<1>10. QED
  BY <1>2, <1>4, <1>5, <1>7, <1>8, <1>9, WorkerJobsInv

LEMMA WorkersJobsInv ==
    ASSUME JobsInv, NEW w \in Workers, WorkerStep(w) \/ SucceedFails(w) \/ LoseWorker(w)
    PROVE  JobsInv'
<1> USE DEF jobTables, WorkerAt
<1>0. PICK j : j = workers[w].job
  OBVIOUS
<1>1. faults \in 0 .. MaxFaults /\ JobTypeOK /\ queue \subseteq Submitted
  BY DEF JobsInv, JobTypeOK
<1>2. ASSUME NEW i \in Jobs, ClaimPostgres(w, i) PROVE JobsInv'
  BY <1>1, <1>2, ClaimJobsInv DEF ClaimPostgres
<1>3. ASSUME NEW i \in Jobs, ReadForClaim(w, i) PROVE JobsInv'
  <2> DEFINE new == [phase |-> "reading", job |-> i]
  <2>1. new \in Worker /\ new.phase = "reading" /\ new.job \in Submitted
    BY <1>1, <1>3 DEF Worker, Phases, ReadForClaim
  <2>2. workers' = [workers EXCEPT ![w] = new]
    BY <1>3 DEF ReadForClaim
  <2> HIDE DEF new
  <2>3. jobs' \in [Jobs -> Job \cup {NoJob}] /\ Submitted' = Submitted /\ faults' \in 0 .. MaxFaults
    BY <1>1, <1>3 DEF ReadForClaim, JobTypeOK, Submitted
  <2>4. \A v \in Workers \ {w} : Busy(v) => jobs'[workers[v].job].state \in Taken
    BY <1>3 DEF ReadForClaim, JobsInv
  <2>5. UNCHANGED <<adapter, projects, outbox, sending, queue>>
    BY <1>3 DEF ReadForClaim
  <2>6. QED
    BY <2>1, <2>2, <2>3, <2>4, <2>5, WorkerJobsInv
<1>4. CASE ClaimD1(w)
  <2>1. workers[w] \in Worker /\ j \in Submitted
    BY <1>0, <1>1, <1>4, JobTypes DEF ClaimD1, JobsInv
  <2>2. CASE jobs[j].state \in Claimable
    <3>1. [workers[w] EXCEPT !.phase = "claimed"] = [phase |-> "claimed", job |-> j]
      BY <1>0, <2>1 DEF Worker
    <3>2. workers' = [workers EXCEPT ![w] = [phase |-> "claimed", job |-> j]]
      BY <1>0, <1>4, <2>2, <3>1 DEF ClaimD1, Moves
    <3>3. QED
      BY <1>0, <1>4, <2>1, <2>2, <3>2, ClaimJobsInv DEF ClaimD1
  <2>3. CASE jobs[j].state \notin Claimable
    BY <1>0, <1>1, <1>4, <2>3, MoveJobsInv DEF ClaimD1
  <2>4. QED
    BY <2>2, <2>3
<1>5. CASE AssertInputs(w) \/ CancellationRequested(w) \/ RunStage(w)
  <2>1. PICK phase \in {"checking", "staging", "finishing", "failing"} : Moves(w, phase)
    BY <1>5 DEF AssertInputs, CancellationRequested, RunStage
  <2>2. Busy(w) /\ UNCHANGED <<adapter, projects, jobs, outbox, sending, queue, faults>>
    BY <1>5 DEF AssertInputs, CancellationRequested, RunStage, Busy
  <2>3. QED
    BY <1>1, <2>1, <2>2, MoveJobsInv
<1>6. ASSUME Busy(w), UNCHANGED <<adapter, projects, outbox, sending, queue>>,
             faults' \in 0 .. MaxFaults, NEW phase \in {"idle", "failing"}, Moves(w, phase),
             NEW state \in JobStates, phase = "failing" => state \in Taken,
             UNCHANGED jobs \/ SetJob(j, state)
      PROVE  JobsInv'
  <2>1. CASE UNCHANGED jobs
    BY <1>6, <2>1, MoveJobsInv
  <2>2. CASE SetJob(j, state)
    BY <1>0, <1>6, <2>2, SettleJobsInv
  <2>3. QED
    BY <1>6, <2>1, <2>2
<1>7. CASE Succeed(w) \/ Fail(w)
  <2>1. PICK state \in JobStates : UNCHANGED jobs \/ SetJob(j, state)
    BY <1>0, <1>7 DEF Succeed, Fail, JobStates
  <2>2. /\ Busy(w) /\ Moves(w, "idle")
        /\ UNCHANGED <<adapter, projects, outbox, sending, queue, faults>>
    BY <1>7 DEF Succeed, Fail, Busy
  <2>3. QED
    BY <1>1, <1>6, <2>1, <2>2
<1>8. CASE SucceedFails(w)
  <2>1. UNCHANGED jobs \/ SetJob(j, "succeeded")
    BY <1>0, <1>8 DEF SucceedFails
  <2>2. /\ Busy(w) /\ Moves(w, "failing") /\ faults' \in 0 .. MaxFaults
        /\ UNCHANGED <<adapter, projects, outbox, sending, queue>>
    BY <1>1, <1>8, FaultType DEF SucceedFails, Busy
  <2>3. QED
    BY <1>6, <2>1, <2>2 DEF Taken, JobStates
<1>9. CASE LoseWorker(w)
  BY <1>1, <1>9, FaultType, MoveJobsInv DEF LoseWorker
<1>10. QED
  BY <1>2, <1>3, <1>4, <1>5, <1>7, <1>8, <1>9 DEF WorkerStep

LEMMA JobStepJobsInv == ASSUME JobsInv, JobStep PROVE JobsInv'
BY PublisherJobsInv, WorkersJobsInv DEF JobStep

LEMMA NextJobsInv == ASSUME JobsInv, [JobNext]_jobVars PROVE JobsInv'
<1>1. CASE Submit
  BY <1>1, InsertJobsInv DEF Submit, JobsInv, JobTypeOK
<1>2. CASE JobNext /\ ~Submit
  BY <1>2, DeleteJobsInv, JobStepJobsInv DEF JobNext
<1>3. QED
  BY <1>1, <1>2, JobsInvUnchanged DEF JobNext

LEMMA JobsInvOneWorker == ASSUME JobsInv PROVE OneWorkerPerJob
<1>1. SUFFICES ASSUME NEW v \in Workers, NEW w \in Workers, v # w,
                      workers[v].job = workers[w].job, workers[v].job # Nobody
               PROVE  "reading" \in {workers[v].phase, workers[w].phase}
  BY DEF OneWorkerPerJob
<1>2. workers[v].phase # "idle" /\ workers[w].phase # "idle"
  BY <1>1, JobTypes DEF JobsInv, Worker, Idle, Phases
<1>3. ~Busy(v) \/ ~Busy(w)
  BY <1>1 DEF JobsInv
<1>4. QED
  BY <1>2, <1>3 DEF Busy

LEMMA JobsInvariant == JobSpec => []JobsInv
BY InitJobsInv, NextJobsInv, PTL DEF JobSpec

\* The tables, the deliveries of the publisher and the workers of the hosted
\* service keep their types: in particular a worker and the queue only know
\* jobs that were submitted.
THEOREM JobTypeCorrect == JobSpec => []JobTypeOK
BY JobsInvariant, PTL DEF JobsInv

\* A job delivered any number of times, to any number of workers, is under way
\* in one of them at most, with the claim of either adapter.
THEOREM OneWorkerRunsAJob == JobSpec => []OneWorkerPerJob
BY JobsInvariant, JobsInvOneWorker, PTL

\* Nothing but a worker changes a job, apart from the API; the D1 statements
\* leave a settled one alone.
LEMMA JobChange ==
    ASSUME JobsInv, JobStep
    PROVE  \/ UNCHANGED jobs
           \/ \E i \in Submitted, state \in JobStates :
                 SetJob(i, state) /\ (adapter = "d1" => jobs[i].state \notin Settled)
<1>1. CASE PublisherStep \/ PublisherFault \/ \E i \in Jobs : LapseLease(i) \/ Acknowledge(i)
  BY <1>1 DEF PublisherStep, PublisherFault, ClaimOutbox, Enqueue, EnqueueFails, MarkDelivered,
     MarkDeliveredFails, MarkFailed, LosePublisher, LapseLease, Acknowledge, jobTables
<1>2. ASSUME NEW w \in Workers, WorkerStep(w) \/ SucceedFails(w) \/ LoseWorker(w), jobs' # jobs
      PROVE  \E i \in Submitted, state \in JobStates :
                SetJob(i, state) /\ (adapter = "d1" => jobs[i].state \notin Settled)
  <2>1. \A phase : phase \in Phases /\ WorkerAt(w, phase) => workers[w].job \in Submitted
    BY JobTypes DEF JobsInv, WorkerAt, Worker, Phases, Busy, Taken, Submitted
  <2>2. \A i \in Jobs : jobs[i].state \in Claimable => i \in Submitted
    BY DEF Submitted, Claimable
  <2>3. QED
    BY <1>2, <2>1, <2>2 DEF WorkerStep, ClaimPostgres, ReadForClaim, ClaimD1, AssertInputs,
       CancellationRequested, RunStage, Succeed, SucceedFails, Fail, LoseWorker, Settled,
       Claimable, jobTables, Phases, JobStates
<1>3. QED
  BY <1>1, <1>2 DEF JobStep

\* A step of the D1 adapter leaves a settled job settled as it was.
LEMMA StepKeepsSettled ==
    ASSUME JobsInv, [JobNext]_jobVars, NEW j \in Jobs, adapter = "d1",
           jobs[j].state \in Settled
    PROVE  jobs'[j] = jobs[j]
<1>1. jobs \in [Jobs -> Job \cup {NoJob}]
  BY DEF JobsInv, JobTypeOK
<1>2. CASE Submit
  BY <1>1, <1>2 DEF Submit, InsertJobAndOutbox, Settled
<1>3. ASSUME NEW p \in Projects, NEW current \in BOOLEAN, DeleteProject(p, current)
      PROVE  jobs'[j] = jobs[j]
  BY <1>3 DEF DeleteProject, CancelledWith, Settled
<1>4. CASE JobStep
  BY <1>1, <1>4, JobChange DEF SetJob
<1>5. CASE UNCHANGED jobVars
  BY <1>5 DEF jobVars
<1>6. QED
  BY <1>2, <1>3, <1>4, <1>5 DEF JobNext

\* With the D1 adapter a verdict is final: no deletion, redelivery or lost
\* answer reopens a job that succeeded or was canceled.
THEOREM VerdictsAreFinal == JobSpec => SettledIsFinal
<1>1. ASSUME JobsInv, [JobNext]_jobVars
      PROVE  [\A j \in Jobs : adapter = "d1" /\ jobs[j].state \in Settled
                             => jobs'[j].state = jobs[j].state]_jobVars
  BY <1>1, StepKeepsSettled
<1>2. QED
  BY <1>1, JobsInvariant, PTL DEF JobSpec, SettledIsFinal
-----------------------------------------------------------------------------
(***************************************************************************)
(* Uploads: the counter of the period is the number of bytes held, which   *)
(* one more or one less reservation changes by its bytes.                  *)
(***************************************************************************)

HeldBy(S) == UNION {{u} \X (1 .. Bytes[u]) : u \in S}

\* The calls that might reserve do not grow for it.
LEMMA LargestUpload ==
    /\ Largest \in Nat
    /\ \A u \in Uploads : Bytes[u] \in Nat \ {0} /\ Bytes[u] <= Largest
<1> DEFINE B == {Bytes[u] : u \in Uploads} \cup {0}
           Bounded(S) == \E u \in S : \A v \in S : Bytes[u] >= Bytes[v]
           Bad == {S \in SUBSET Uploads : S # {} /\ ~Bounded(S)}
<1>1. \A u \in Uploads : Bytes[u] \in Nat \ {0}
  BY BytesAssumption
<1>2. Bad \subseteq FiniteSubsetsOf(Uploads)
  BY BytesAssumption, FS_Subset DEF FiniteSubsetsOf
<1>3. ASSUME NEW S \in Bad, \A T \in Bad : <<T, S>> \notin StrictSubsetOrdering(Uploads)
      PROVE  FALSE
  <2>1. PICK u \in S : TRUE
    OBVIOUS
  <2>2. S \ {u} \notin Bad
    BY <1>2, <1>3, <2>1, FS_Subset DEF StrictSubsetOrdering, FiniteSubsetsOf
  <2>3. S \subseteq Uploads /\ ~Bounded(S)
    OBVIOUS
  <2>4. S \ {u} # {} /\ Bounded(S \ {u})
    <3>1. S # {u}
      BY <1>1, <2>1, <2>3
    <3>2. QED
      BY <2>1, <2>2, <2>3, <3>1
  <2>5. QED
    BY <1>1, <2>1, <2>3, <2>4
<1>4. Bad = {}
  <2> HIDE DEF Bad
  <2>1. QED
    BY <1>2, <1>3, FS_StrictSubsetOrderingWellFounded, WFMin
<1>5. \E m \in B : \A b \in B : m >= b
  <2>1. CASE Uploads = {}
    BY <2>1
  <2>2. CASE Uploads # {}
    <3>1. PICK u \in Uploads : \A v \in Uploads : Bytes[u] >= Bytes[v]
      BY <1>4, <2>2
    <3>2. QED
      BY <1>1, <3>1
  <2>3. QED
    BY <2>1, <2>2
<1>6. Largest \in B /\ \A b \in B : Largest >= b
  BY <1>5 DEF Largest, Max
<1>7. QED
  BY <1>1, <1>6

LEMMA HeldFinite == ASSUME NEW S \in SUBSET Uploads PROVE IsFiniteSet(HeldBy(S))
<1>1. IsFiniteSet(1 .. Largest) /\ IsFiniteSet(Uploads)
  BY LargestUpload, FS_Interval, BytesAssumption
<1>2. IsFiniteSet(Uploads \X (1 .. Largest))
  BY <1>1, FS_Product
<1>3. HeldBy(S) \subseteq Uploads \X (1 .. Largest)
  BY LargestUpload DEF HeldBy
<1>4. QED
  BY <1>2, <1>3, FS_Subset

LEMMA HeldGrows ==
    ASSUME NEW S \in SUBSET Uploads, NEW u \in Uploads \ S
    PROVE  /\ Cardinality(HeldBy(S)) \in Nat
           /\ Cardinality(HeldBy(S \cup {u})) = Cardinality(HeldBy(S)) + Bytes[u]
<1> DEFINE N == {u} \X (1 .. Bytes[u])
<1>1. Bytes[u] \in Nat \ {0}
  BY LargestUpload
<1>2. IsFiniteSet(1 .. Bytes[u]) /\ Cardinality(1 .. Bytes[u]) = Bytes[u]
  <2>1. PICK one, b \in Int : one = 1 /\ b = Bytes[u] /\ one <= b
    BY <1>1
  <2>2. IsFiniteSet(one .. b) /\ Cardinality(one .. b) = IF one > b THEN 0 ELSE b - one + 1
    BY ONLY FS_Interval, one \in Int, b \in Int
  <2>3. QED
    BY <2>1, <2>2
<1>3. IsFiniteSet({u}) /\ Cardinality({u}) = 1
  BY FS_Singleton
<1>4. IsFiniteSet(N) /\ Cardinality(N) = Bytes[u]
  <2>1. IsFiniteSet(N) /\ Cardinality(N) = Cardinality({u}) * Cardinality(1 .. Bytes[u])
    BY <1>2, <1>3, FS_Product
  <2>2. QED
    BY <1>1, <1>2, <1>3, <2>1
<1>5. IsFiniteSet(HeldBy(S))
  BY HeldFinite
<1>6. HeldBy(S \cup {u}) = HeldBy(S) \cup N
  BY DEF HeldBy
<1>7. HeldBy(S) \cap N = {}
  BY DEF HeldBy
<1>8. Cardinality(HeldBy(S)) \in Nat
  BY <1>5, FS_CardinalityType
<1>9. Cardinality(HeldBy(S) \cup N) = Cardinality(HeldBy(S)) + Cardinality(N) - Cardinality({})
  BY <1>4, <1>5, <1>7, FS_Union
<1>10. Cardinality({}) = 0
  BY FS_EmptySet
<1> HIDE DEF N
<1>11. Cardinality(HeldBy(S) \cup N) = Cardinality(HeldBy(S)) + Bytes[u]
  BY <1>1, <1>4, <1>8, <1>9, <1>10
<1>12. QED
  BY <1>6, <1>8, <1>11

LEMMA HeldIsHeldBy == Held = HeldBy(Charged) /\ Charged \in SUBSET Uploads
BY DEF Held, HeldBy, Charged
-----------------------------------------------------------------------------
(***************************************************************************)
(* Uploads: the overdraft.                                                 *)
(***************************************************************************)

LEMMA Product ==
    ASSUME NEW k \in Nat, NEW l \in Nat
    PROVE  k * l \in Nat /\ (k + 1) * l = k * l + l
OBVIOUS

LEMMA ProductGrows ==
    ASSUME NEW k \in Nat, NEW m \in Nat, NEW l \in Nat, k <= m
    PROVE  k * l <= m * l
<1>1. (m - k) * l \in Nat /\ m * l = k * l + (m - k) * l
  OBVIOUS
<1>2. k * l \in Nat
  OBVIOUS
<1>3. QED
  BY <1>1, <1>2

LEMMA CeilingType ==
    /\ Ceiling \in Nat /\ StorageByteLimit <= Ceiling /\ Cardinality(Calls) \in Nat \ {0}
    /\ Ceiling = StorageByteLimit + (Cardinality(Calls) - 1) * Largest
<1>1. Cardinality(Calls) \in Nat \ {0}
  BY BytesAssumption, FS_CardinalityType, FS_EmptySet
<1>2. (Cardinality(Calls) - 1) * Largest \in Nat
  BY <1>1, LargestUpload, Product
<1>3. QED
  BY <1>1, <1>2, BytesAssumption DEF Ceiling

LEMMA CheckedFinite ==
    /\ IsFiniteSet(Checked) /\ Cardinality(Checked) \in Nat
    /\ Cardinality(Checked) <= Cardinality(Calls)
    /\ Checked # {} => Cardinality(Checked) \in Nat \ {0}
<1>1. Checked \in SUBSET Calls
  BY DEF Checked
<1>2. QED
  BY <1>1, BytesAssumption, FS_Subset, FS_CardinalityType, FS_EmptySet

LEMMA CheckedUpload ==
    ASSUME UploadTypeOK, NEW c \in Checked
    PROVE  /\ calls[c] \in Call /\ calls[c].upload \in Uploads
           /\ Bytes[calls[c].upload] \in Nat /\ Bytes[calls[c].upload] <= Largest
BY LargestUpload DEF UploadTypeOK, Checked, CallAt, Call, NoCall

\* Whatever reserves nothing and passes no check.
LEMMA OverdraftKept ==
    ASSUME UploadTypeOK, OverdraftInv, reserved' \in Nat, reserved' <= reserved,
           Checked' \subseteq Checked,
           \A d \in Checked' : calls'[d].upload = calls[d].upload
    PROVE  OverdraftInv'
<1> DEFINE k == Cardinality(Checked)
           n == Cardinality(Checked')
           B(d) == Bytes[calls[d].upload]
<1>1. reserved \in Nat /\ Ceiling \in Nat /\ Largest \in Nat
  BY CeilingType, LargestUpload DEF UploadTypeOK
<1>2. \A d \in Checked : B(d) \in Nat /\ B(d) <= Largest
  BY CheckedUpload
<1>3. k \in Nat /\ (Checked # {} => k \in Nat \ {0})
  BY CheckedFinite
<1>4. n \in Nat /\ n <= k /\ (n = k => Checked' = Checked) /\ (Checked' # {} => n \in Nat \ {0})
  BY CheckedFinite, FS_Subset, FS_CardinalityType, FS_EmptySet
<1>5. CASE Checked = {}
  BY <1>1, <1>5 DEF OverdraftInv, Ceiling
<1>6. CASE Checked # {}
  <2>1. PICK c \in Checked : reserved + B(c) + (k - 1) * Largest <= Ceiling
    BY <1>6 DEF OverdraftInv
  <2>2. k - 1 \in Nat /\ (k - 1) * Largest \in Nat
    BY <1>1, <1>3, <1>6, Product
  <2>3. CASE Checked' = {}
    <3>1. reserved' <= Ceiling
      BY <1>1, <1>2, <2>1, <2>2
    <3>2. QED
      BY <2>3, <3>1 DEF OverdraftInv, Ceiling
  <2>4. CASE Checked' # {} /\ n = k
    <3>1. reserved' + B(c) + (n - 1) * Largest <= Ceiling
      BY <1>1, <1>2, <2>1, <2>2, <2>4
    <3>2. c \in Checked' /\ calls'[c].upload = calls[c].upload
      BY <1>4, <2>4
    <3>3. QED
      BY <2>4, <3>1, <3>2 DEF OverdraftInv, Ceiling
  <2>5. CASE Checked' # {} /\ n # k
    <3>1. PICK e \in Checked' : TRUE
      BY <2>5
    <3>2. n - 1 \in Nat /\ n <= k - 1 /\ n \in Nat
      BY <1>3, <1>4, <1>6, <2>5
    <3>3. n * Largest <= (k - 1) * Largest
      BY <1>1, <2>2, <3>2, ProductGrows
    <3>4. (n - 1) * Largest \in Nat /\ n * Largest = (n - 1) * Largest + Largest
      BY <1>1, <3>2, Product
    <3>5. reserved' + B(e) + (n - 1) * Largest <= Ceiling
      BY <1>1, <1>2, <2>1, <2>2, <3>1, <3>3, <3>4
    <3>6. QED
      BY <2>5, <3>1, <3>5 DEF OverdraftInv, Ceiling
  <2>6. QED
    BY <2>3, <2>4, <2>5
<1>7. QED
  BY <1>5, <1>6

\* A call passes the check: it has seen all that is reserved.
LEMMA OverdraftChecked ==
    ASSUME UploadTypeOK, NEW c \in Calls, c \notin Checked, Checked' = Checked \cup {c},
           calls'[c].upload = calls[c].upload, calls[c].upload \in Uploads, reserved' = reserved,
           reserved + Bytes[calls[c].upload] <= StorageByteLimit
    PROVE  OverdraftInv'
<1> DEFINE k == Cardinality(Checked)
           n == Cardinality(Checked')
           b == Bytes[calls[c].upload]
           m == Cardinality(Calls)
<1>1. n = k + 1 /\ k \in Nat
  BY CheckedFinite, FS_AddElement
<1>2. Checked' \in SUBSET Calls
  BY DEF Checked
<1>3. n <= m /\ m \in Nat \ {0} /\ Largest \in Nat
  BY <1>2, BytesAssumption, FS_Subset, CeilingType, LargestUpload
<1>4. (n - 1) * Largest <= (m - 1) * Largest
  <2>1. k <= m - 1 /\ m - 1 \in Nat /\ n - 1 = k
    BY <1>1, <1>3
  <2>2. QED
    BY <1>1, <1>3, <2>1, ProductGrows
<1>5. /\ (n - 1) * Largest \in Nat /\ (m - 1) * Largest \in Nat
      /\ Ceiling = StorageByteLimit + (m - 1) * Largest
  <2>1. n - 1 \in Nat /\ m - 1 \in Nat
    BY <1>1, <1>3
  <2>2. QED
    BY <1>3, <2>1, Product, CeilingType
<1>6. reserved \in Nat /\ b \in Nat /\ StorageByteLimit \in Nat
  BY LargestUpload, BytesAssumption DEF UploadTypeOK
<1>7. reserved + b + (n - 1) * Largest <= Ceiling
  <2>1. \A x, y \in Nat : x <= y => reserved + b + x <= StorageByteLimit + y
    BY <1>6
  <2>2. QED
    BY <1>4, <1>5, <2>1
<1>8. QED
  BY <1>7 DEF OverdraftInv, Ceiling

\* A call that passed the check reserves.
LEMMA OverdraftReserved ==
    ASSUME UploadTypeOK, OverdraftInv, NEW c \in Checked, Checked' = Checked \ {c},
           reserved' = reserved + Bytes[calls[c].upload],
           \A d \in Checked' : calls'[d].upload = calls[d].upload
    PROVE  OverdraftInv'
<1> DEFINE k == Cardinality(Checked)
           n == Cardinality(Checked')
           B(d) == Bytes[calls[d].upload]
<1>1. reserved \in Nat /\ Ceiling \in Nat /\ Largest \in Nat
  BY CeilingType, LargestUpload DEF UploadTypeOK
<1>2. \A d \in Checked : B(d) \in Nat /\ B(d) <= Largest
  BY CheckedUpload
<1>3. n = k - 1 /\ k \in Nat \ {0} /\ (Checked' # {} => n \in Nat \ {0})
  <2>1. k \in Nat \ {0} /\ IsFiniteSet(Checked)
    BY CheckedFinite
  <2>2. n = k - 1 /\ IsFiniteSet(Checked')
    BY <2>1, FS_RemoveElement
  <2>3. Checked' # {} => n # 0
    BY <2>2, FS_EmptySet
  <2>4. QED
    BY <2>1, <2>2, <2>3
<1>4. PICK d \in Checked : reserved + B(d) + (k - 1) * Largest <= Ceiling
  BY DEF OverdraftInv
<1>5. (k - 1) * Largest \in Nat
  BY <1>1, <1>3, Product
<1>6. CASE Checked' = {}
  <2>1. d = c
    BY <1>6
  <2>2. reserved' <= Ceiling
    BY <1>1, <1>2, <1>4, <1>5, <2>1
  <2>3. QED
    BY <1>6, <2>2 DEF OverdraftInv, Ceiling
<1>7. CASE Checked' # {}
  <2>1. n - 1 \in Nat
    BY <1>3, <1>7
  <2>2. (n - 1) * Largest \in Nat /\ n * Largest = (n - 1) * Largest + Largest
    <3>1. n = (n - 1) + 1
      BY <1>3, <1>7
    <3>2. QED
      BY <1>1, <2>1, <3>1, Product
  <2>3. (k - 1) * Largest = n * Largest
    BY <1>3
  <2>4. PICK e \in Checked' : d \in Checked' => e = d
    BY <1>7
  <2>5. B(c) + B(e) <= B(d) + Largest
    BY <1>1, <1>2, <2>4
  <2>6. reserved' + B(e) + (n - 1) * Largest <= Ceiling
    BY <1>1, <1>2, <1>4, <1>5, <2>2, <2>3, <2>4, <2>5
  <2>7. QED
    BY <1>7, <2>4, <2>6 DEF OverdraftInv, Ceiling
<1>8. QED
  BY <1>6, <1>7
-----------------------------------------------------------------------------
(***************************************************************************)
(* Uploads: the steps of a call.                                           *)
(***************************************************************************)

LEMMA CallTypes ==
    ASSUME UploadTypeOK, NEW c \in Calls
    PROVE  /\ calls[c].phase # "idle" =>
                 calls[c] \in Call /\ calls[c].upload \in Uploads
           /\ calls[c].phase = "idle" => calls[c] = NoCall
BY DEF UploadTypeOK, Call, NoCall, CallPhases

LEMMA UploadTypes ==
    ASSUME UploadTypeOK, NEW u \in Uploads
    PROVE  /\ uploads[u] \in Session \cup {NoUpload} /\ uploads[u].state \in UploadStates
           /\ uploads[u].state # "absent" =>
                 uploads[u] \in Session /\ uploads[u].project \in Projects
           /\ ledger[u] \subseteq {"reserve", "release"} /\ objects[u] \in ObjectStates
BY DEF UploadTypeOK, Session, NoUpload, UploadStates

\* A call goes to another phase of the same upload, or ends.
LEMMA GotoCall ==
    ASSUME UploadTypeOK, NEW c \in Calls, ~CallAt(c, "idle"), NEW phase \in CallPhases,
           Goto(c, phase)
    PROVE  \E new \in Call : /\ new.phase = phase /\ new.upload = calls[c].upload
                             /\ calls' = [calls EXCEPT ![c] = new]
<1> DEFINE new == [calls[c] EXCEPT !.phase = phase]
<1>1. calls[c] \in Call
  BY CallTypes DEF CallAt
<1>2. new \in Call /\ new.phase = phase /\ new.upload = calls[c].upload
  BY <1>1 DEF Call
<1>3. calls' = [calls EXCEPT ![c] = new]
  BY DEF Goto
<1> HIDE DEF new
<1>4. QED
  BY <1>2, <1>3

\* What a step of a call on its upload has to keep, for the other calls of the
\* upload among others.
LEMMA RowUploadInv ==
    ASSUME UploadInv, JobsInv', inputs' \in [Jobs -> Uploads \cup {Nobody}],
           NEW c \in Calls, NEW u \in Uploads, calls[c] \in Call, calls[c].upload = u,
           NEW new \in Call \cup {NoCall}, calls' = [calls EXCEPT ![c] = new],
           new.phase # "idle" => new.upload = u,
           new.phase \in Creating => calls[c].phase \in Creating,
           new.phase \in Completing => calls[c].phase \in Completing \/ uploads[u].state = "open",
           uploads' \in [Uploads -> Session \cup {NoUpload}],
           objects' \in [Uploads -> ObjectStates],
           ledger' \in [Uploads -> SUBSET {"reserve", "release"}],
           reserved' \in Nat,
           answered' \subseteq Uploads, u \in answered => u \in answered',
           \A v \in Uploads \ {u} :
              /\ uploads'[v] = uploads[v] /\ objects'[v] = objects[v] /\ ledger'[v] = ledger[v]
              /\ v \in answered' <=> v \in answered,
           CallInv(c)',
           calls[c].phase \notin Creating =>
              /\ u \notin Live => u \notin Live'
              /\ ledger[u] # {} => ledger'[u] # {}
              /\ uploads[u].state = "completing" =>
                    calls[c].phase \in Completing \/ uploads'[u].state = "completing"
              /\ objects[u] = "assembled" => objects'[u] = "assembled",
           u \notin Live' \/ ledger'[u] = {"reserve"},
           u \in answered' => uploads'[u].state # "absent",
           reserved' = Cardinality(Held'), ReadIffComplete', OverdraftInv'
    PROVE  UploadInv'
<1>1. /\ UploadTypeOK /\ CallsAreApart /\ SessionsAreCharged /\ AnsweredAreInserted
      /\ \A d \in Calls : CallInv(d)
      /\ calls \in [Calls -> Call \cup {NoCall}] /\ answered \subseteq Uploads
  BY DEF UploadInv, UploadTypeOK
<1>2. calls'[c] = new /\ \A d \in Calls \ {c} : calls'[d] = calls[d]
  BY <1>1
<1>3. UploadTypeOK'
  <2>1. calls' \in [Calls -> Call \cup {NoCall}]
    BY <1>1
  <2>2. QED
    BY <2>1 DEF UploadTypeOK
<1>4. \A d \in Calls \ {c} : calls[d].upload = u =>
         /\ calls[c].phase \notin Creating /\ calls[d].phase \notin Creating
         /\ ~(calls[c].phase \in Completing /\ calls[d].phase \in Completing)
         /\ ~(uploads[u].state = "open" /\ calls[d].phase \in Completing)
  BY <1>1 DEF CallsAreApart, CallInv
<1>5. \A d \in Calls \ {c} : calls[d].upload = new.upload =>
         /\ new.phase \notin Creating /\ calls[d].phase \notin Creating
         /\ ~(new.phase \in Completing /\ calls[d].phase \in Completing)
  <2>1. CASE new.phase # "idle"
    BY <1>4, <2>1
  <2>2. CASE new.phase = "idle"
    <3>1. new.upload \notin Uploads
      BY <2>2, BytesAssumption DEF Call, NoCall, CallPhases
    <3>2. \A d \in Calls : calls[d].phase \in Creating => calls[d].upload \in Uploads
      BY <1>1, CallTypes DEF Creating
    <3>3. QED
      BY <2>2, <3>1, <3>2 DEF Creating, Completing
  <2>3. QED
    BY <2>1, <2>2
<1>6. CallsAreApart'
  BY <1>1, <1>2, <1>5 DEF CallsAreApart
<1>7. ASSUME NEW d \in Calls \ {c} PROVE CallInv(d)'
  <2>1. CallInv(d) /\ calls'[d] = calls[d]
    BY <1>1, <1>2
  <2>2. CASE calls[d].upload = u
    <3>1. /\ calls[c].phase \notin Creating /\ calls[d].phase \notin Creating
          /\ ~(calls[c].phase \in Completing /\ calls[d].phase \in Completing)
      BY <1>4, <2>2
    <3>2. QED
      BY <2>1, <2>2, <3>1 DEF CallInv, Creating, Completing
  <2>3. CASE calls[d].upload # u /\ calls[d].phase # "idle"
    <3>1. calls[d].upload \in Uploads \ {u}
      BY <1>1, <2>3, CallTypes
    <3>2. QED
      BY <2>1, <3>1 DEF CallInv, Live
  <2>4. CASE calls[d].phase = "idle"
    BY <2>1, <2>4 DEF CallInv, Creating, Completing
  <2>5. QED
    BY <2>2, <2>3, <2>4
<1>8. SessionsAreCharged' /\ AnsweredAreInserted'
  <2>1. \A v \in Uploads \ {u} : (v \in Live' <=> v \in Live) /\ ledger'[v] = ledger[v]
    BY DEF Live
  <2>2. ASSUME NEW v \in Live' PROVE ledger'[v] = {"reserve"}
    <3>1. CASE v = u
      BY <2>2, <3>1
    <3>2. CASE v # u
      <4>1. v \in Uploads \ {u}
        BY <2>2, <3>2 DEF Live
      <4>2. v \in Live /\ ledger'[v] = ledger[v]
        BY <2>1, <2>2, <4>1
      <4>3. QED
        BY <1>1, <4>2 DEF SessionsAreCharged
    <3>3. QED
      BY <3>1, <3>2
  <2>3. AnsweredAreInserted'
    BY <1>1 DEF AnsweredAreInserted
  <2>4. QED
    BY <2>2, <2>3 DEF SessionsAreCharged
<1>9. \A d \in Calls : CallInv(d)'
  BY <1>7
<1>10. QED
  BY <1>3, <1>6, <1>8, <1>9 DEF UploadInv

\* The session stays complete, or stays short of it.
LEMMA ReadKept ==
    ASSUME UploadInv, Submitted' = Submitted, inputs' = inputs,
           \A v \in Uploads : uploads'[v].state = "complete" <=> uploads[v].state = "complete",
           \A v \in Uploads : uploads[v].state = "complete" /\ objects[v] = "assembled"
                              => objects'[v] = "assembled"
    PROVE  ReadIffComplete'
BY DEF UploadInv, ReadIffComplete, Read

LEMMA HeldKept ==
    ASSUME UploadInv, ledger' = ledger, reserved' = reserved
    PROVE  reserved' = Cardinality(Held')
BY DEF UploadInv, Held, Charged

\* A step of a call that reserves nothing and passes no check.
LEMMA UncheckedStep ==
    ASSUME UploadInv, NEW c \in Calls, NEW new \in Call \cup {NoCall},
           calls' = [calls EXCEPT ![c] = new], new.phase # "checked",
           reserved' \in Nat, reserved' <= reserved
    PROVE  OverdraftInv'
<1>1. UploadTypeOK /\ OverdraftInv /\ calls \in [Calls -> Call \cup {NoCall}]
  BY DEF UploadInv, UploadTypeOK
<1>2. Checked' \subseteq Checked /\ \A d \in Checked' : calls'[d].upload = calls[d].upload
  BY <1>1 DEF Checked, CallAt
<1>3. QED
  BY <1>1, <1>2, OverdraftKept

\* A call that touches no table and no object goes on or ends.
LEMMA QuietUploadInv ==
    ASSUME UploadInv, JobsInv', UNCHANGED <<jobs, uploadTables, objects>>, NEW c \in Calls,
           ~CallAt(c, "idle"), NEW new \in Call \cup {NoCall}, calls' = [calls EXCEPT ![c] = new],
           new.phase # "idle" => new.upload = calls[c].upload,
           new.phase \in Creating => calls[c].phase \in Creating,
           new.phase \notin Completing,
           CallInv(c)', OverdraftInv'
    PROVE  UploadInv'
<1> DEFINE u == calls[c].upload
<1>1. /\ UploadTypeOK /\ SessionsAreCharged /\ AnsweredAreInserted
      /\ calls[c] \in Call /\ u \in Uploads
  BY CallTypes DEF UploadInv, CallAt
<1>2. uploads' = uploads /\ objects' = objects /\ ledger' = ledger /\ reserved' = reserved
      /\ answered' = answered /\ inputs' = inputs /\ Submitted' = Submitted
  BY DEF uploadTables, Submitted
<1>3. ReadIffComplete'
  BY <1>2, ReadKept
<1>4. reserved' = Cardinality(Held')
  BY <1>2, HeldKept
<1>5. /\ uploads' \in [Uploads -> Session \cup {NoUpload}]
      /\ objects' \in [Uploads -> ObjectStates]
      /\ ledger' \in [Uploads -> SUBSET {"reserve", "release"}]
      /\ reserved' \in Nat /\ answered' \subseteq Uploads
      /\ inputs' \in [Jobs -> Uploads \cup {Nobody}]
  BY <1>1, <1>2 DEF UploadTypeOK
<1>6. /\ (u \in Live' <=> u \in Live) /\ (u \notin Live' \/ ledger'[u] = {"reserve"})
      /\ u \in answered' => uploads'[u].state # "absent"
  BY <1>1, <1>2 DEF SessionsAreCharged, AnsweredAreInserted, Live
<1>7. QED
  BY <1>1, <1>2, <1>3, <1>4, <1>5, <1>6, RowUploadInv

\* A call begins: with a fresh id, or with a session that is open.
LEMMA BeginUploadInv ==
    ASSUME UploadInv, NEW c \in Calls, NEW u \in Uploads, NEW p \in Projects, NEW phase,
           Begins(c, phase, u, p),
           \/ /\ phase = "admitted" /\ uploads[u].state = "absent" /\ ledger[u] = {}
              /\ \A d \in Calls : calls[d].upload # u
           \/ phase \in {"found", "aborting"} /\ uploads[u].state = "open" /\ u \in answered,
           UNCHANGED <<jobVars, uploadTables, objects>>
    PROVE  UploadInv'
<1> DEFINE new == [phase |-> phase, upload |-> u, project |-> p]
<1>1. /\ UploadTypeOK /\ CallsAreApart /\ SessionsAreCharged /\ AnsweredAreInserted /\ JobsInv
      /\ \A d \in Calls : CallInv(d)
      /\ calls \in [Calls -> Call \cup {NoCall}]
  BY DEF UploadInv, UploadTypeOK
<1>2. /\ new \in Call /\ new.phase = phase /\ new.upload = u
      /\ calls' = [calls EXCEPT ![c] = new]
  BY DEF Begins, Call, CallPhases
<1> HIDE DEF new
<1>3. uploads' = uploads /\ objects' = objects /\ ledger' = ledger /\ reserved' = reserved
      /\ answered' = answered /\ inputs' = inputs /\ Submitted' = Submitted
  BY DEF uploadTables, jobVars, Submitted
<1>4. calls'[c] = new /\ \A d \in Calls \ {c} : calls'[d] = calls[d]
  BY <1>1, <1>2
<1>5. calls' \in [Calls -> Call \cup {NoCall}]
  BY <1>1, <1>2
<1>6. UploadTypeOK'
  BY <1>1, <1>3, <1>5 DEF UploadTypeOK
<1>7. \A d \in Calls \ {c} : calls[d].upload = u =>
         /\ phase \notin Creating /\ calls[d].phase \notin Creating
         /\ phase \notin Completing
  <2>1. CASE phase = "admitted"
    BY <2>1
  <2>2. CASE phase \in {"found", "aborting"} /\ uploads[u].state = "open"
    <3>1. \A d \in Calls : calls[d].upload = u => calls[d].phase \notin Creating
      BY <1>1, <2>2 DEF CallInv
    <3>2. QED
      BY <2>2, <3>1 DEF Creating, Completing
  <2>3. QED
    BY <2>1, <2>2
<1>8. CallsAreApart'
  BY <1>1, <1>2, <1>4, <1>7 DEF CallsAreApart
<1>9. CallInv(c)'
  BY <1>2, <1>3, <1>4 DEF CallInv, Creating, Completing
<1>10. \A d \in Calls : CallInv(d)'
  BY <1>1, <1>3, <1>4, <1>9 DEF CallInv, Live
<1>11. ReadIffComplete' /\ reserved' = Cardinality(Held')
  BY <1>3, ReadKept, HeldKept
<1>12. OverdraftInv'
  <2>1. reserved' \in Nat /\ reserved' <= reserved /\ new.phase # "checked"
    BY <1>1, <1>2, <1>3 DEF UploadTypeOK
  <2>2. QED
    BY <1>2, <2>1, UncheckedStep
<1>13. JobsInv' /\ SessionsAreCharged' /\ AnsweredAreInserted'
  BY <1>1, <1>3, JobsInvUnchanged DEF SessionsAreCharged, AnsweredAreInserted, Live
<1>14. QED
  BY <1>6, <1>8, <1>10, <1>11, <1>12, <1>13 DEF UploadInv

\* A call ends, of its own accord or because its process dies.
LEMMA EndUploadInv ==
    ASSUME UploadInv, JobsInv', UNCHANGED <<jobs, uploadTables, objects>>, NEW c \in Calls,
           ~CallAt(c, "idle"), Ends(c)
    PROVE  UploadInv'
<1>1. /\ UploadTypeOK /\ reserved' \in Nat /\ reserved' <= reserved
      /\ calls \in [Calls -> Call \cup {NoCall}]
  BY DEF UploadInv, UploadTypeOK, uploadTables
<1>2. calls' = [calls EXCEPT ![c] = NoCall] /\ NoCall.phase = "idle" /\ calls'[c] = NoCall
  BY <1>1 DEF Ends, NoCall
<1>3. OverdraftInv'
  BY <1>1, <1>2, UncheckedStep
<1>4. CallInv(c)'
  BY <1>2 DEF CallInv, Creating, Completing
<1>5. QED
  BY <1>2, <1>3, <1>4, QuietUploadInv DEF Creating, Completing

\* A call goes on and touches nothing else.
LEMMA GoUploadInv ==
    ASSUME UploadInv, JobsInv', UNCHANGED <<jobs, uploadTables, objects>>, NEW c \in Calls,
           ~CallAt(c, "idle"), NEW phase \in CallPhases \ {"checked"}, Goto(c, phase),
           phase \in Creating => calls[c].phase \in Creating, phase \notin Completing, CallInv(c)'
    PROVE  UploadInv'
<1>1. UploadTypeOK /\ reserved' \in Nat /\ reserved' <= reserved
  BY DEF UploadInv, UploadTypeOK, uploadTables
<1>2. PICK new \in Call : /\ new.phase = phase /\ new.upload = calls[c].upload
                         /\ calls' = [calls EXCEPT ![c] = new]
  BY <1>1, GotoCall
<1>3. OverdraftInv'
  BY <1>1, <1>2, UncheckedStep
<1>4. QED
  BY <1>2, <1>3, QuietUploadInv

\* The quota is checked.
LEMMA CheckQuotaUploadInv ==
    ASSUME UploadInv, NEW c \in Calls, CheckQuota(c) PROVE UploadInv'
<1> DEFINE u == calls[c].upload
<1>1. /\ UploadTypeOK /\ JobsInv' /\ UNCHANGED <<jobs, uploadTables, objects>>
      /\ ~CallAt(c, "idle") /\ calls[c].phase = "admitted"
      /\ CallInv(c) /\ calls \in [Calls -> Call \cup {NoCall}]
  BY JobsInvUnchanged DEF CheckQuota, UploadInv, UploadTypeOK, jobVars, CallAt
<1>2. CASE reserved + Bytes[u] > StorageByteLimit
  BY <1>1, <1>2, EndUploadInv DEF CheckQuota
<1>3. CASE ~(reserved + Bytes[u] > StorageByteLimit)
  <2>1. PICK new \in Call : /\ new.phase = "checked" /\ new.upload = u
                           /\ calls' = [calls EXCEPT ![c] = new]
    BY <1>1, <1>3, GotoCall DEF CheckQuota, CallPhases
  <2>2. u \in Uploads
    BY <1>1, CallTypes
  <2>3. calls'[c] = new /\ \A d \in Calls \ {c} : calls'[d] = calls[d]
    BY <1>1, <2>1
  <2>4. c \notin Checked /\ Checked' = Checked \cup {c} /\ calls'[c].upload = u
    BY <1>1, <2>1, <2>3 DEF Checked, CallAt
  <2>5. reserved + Bytes[u] <= StorageByteLimit /\ reserved' = reserved
    BY <1>1, <1>3, <2>2, LargestUpload, BytesAssumption DEF UploadTypeOK, uploadTables
  <2>6. OverdraftInv'
    BY <1>1, <2>2, <2>4, <2>5, OverdraftChecked
  <2>7. CallInv(c)'
    BY <1>1, <2>1, <2>3 DEF CallInv, Creating, Completing, uploadTables
  <2>8. QED
    BY <1>1, <2>1, <2>6, <2>7, QuietUploadInv DEF Creating, Completing
<1>4. QED
  BY <1>2, <1>3

\* The bytes of a new upload are reserved.
LEMMA ReserveUploadInv ==
    ASSUME UploadInv, NEW c \in Calls, ReserveUpload(c) PROVE UploadInv'
<1> DEFINE u == calls[c].upload
<1>1. /\ UploadTypeOK /\ JobsInv' /\ Submitted' = Submitted
      /\ uploads' = uploads /\ objects' = objects /\ inputs' = inputs /\ answered' = answered
      /\ ~CallAt(c, "idle") /\ calls[c].phase = "checked" /\ c \in Checked
      /\ CallInv(c) /\ calls \in [Calls -> Call \cup {NoCall}]
      /\ OverdraftInv /\ SessionsAreCharged /\ AnsweredAreInserted /\ reserved = Cardinality(Held)
  BY JobsInvUnchanged
     DEF ReserveUpload, UploadInv, UploadTypeOK, jobVars, CallAt, Submitted, Checked
<1>2. u \in Uploads /\ calls[c] \in Call
  BY <1>1, CallTypes
<1>3. ledger[u] = {} /\ uploads[u].state = "absent"
  BY <1>1 DEF CallInv, Creating
<1>4. /\ ledger' = [ledger EXCEPT ![u] = {"reserve"}] /\ reserved' = reserved + Bytes[u]
      /\ Goto(c, "reserved")
  BY <1>3 DEF ReserveUpload
<1>5. PICK new \in Call : /\ new.phase = "reserved" /\ new.upload = u
                         /\ calls' = [calls EXCEPT ![c] = new]
  BY <1>1, <1>4, GotoCall DEF CallPhases
<1>6. calls'[c] = new /\ \A d \in Calls \ {c} : calls'[d] = calls[d]
  BY <1>1, <1>5
<1>7. Checked' = Checked \ {c}
  BY <1>5, <1>6 DEF Checked, CallAt
<1>8. OverdraftInv'
  BY <1>1, <1>4, <1>6, <1>7, OverdraftReserved DEF Checked
<1>9. ledger \in [Uploads -> SUBSET {"reserve", "release"}] /\ reserved \in Nat
  BY <1>1 DEF UploadTypeOK
<1>10. Charged' = Charged \cup {u} /\ u \notin Charged
  BY <1>2, <1>3, <1>4, <1>9 DEF Charged
<1>11. Charged \in SUBSET Uploads /\ Held = HeldBy(Charged) /\ Held' = HeldBy(Charged \cup {u})
  BY <1>10 DEF Held, HeldBy, Charged
<1>12. reserved' = Cardinality(Held') /\ reserved' \in Nat
  BY <1>1, <1>2, <1>4, <1>9, <1>10, <1>11, HeldGrows, LargestUpload
<1>13. CallInv(c)'
  BY <1>1, <1>2, <1>3, <1>4, <1>5, <1>6, <1>9 DEF CallInv, Creating, Completing
<1>14. ReadIffComplete'
  BY <1>1, ReadKept
<1>15. /\ ledger' \in [Uploads -> SUBSET {"reserve", "release"}] /\ ledger'[u] = {"reserve"}
       /\ \A v \in Uploads \ {u} : ledger'[v] = ledger[v]
  BY <1>2, <1>4, <1>9
<1>16. /\ uploads' \in [Uploads -> Session \cup {NoUpload}]
       /\ objects' \in [Uploads -> ObjectStates]
       /\ inputs' \in [Jobs -> Uploads \cup {Nobody}]
      /\ answered' \subseteq Uploads /\ u \notin answered'
  BY <1>1, <1>3 DEF UploadTypeOK, AnsweredAreInserted
<1>17. "checked" \in Creating /\ "reserved" \notin Completing
  BY DEF Creating, Completing
<1>18. QED
  BY <1>1, <1>2, <1>5, <1>8, <1>12, <1>13, <1>14, <1>15, <1>16, <1>17, RowUploadInv

\* An object of the upload is opened, assembled or dropped.
LEMMA ObjectUploadInv ==
    ASSUME UploadInv, UNCHANGED <<jobVars, uploadTables>>, NEW c \in Calls,
           calls[c].phase \in {"reserved", "completing", "aborting"},
           NEW phase \in {"opened", "releasing", "assembled", "cleared"}, Goto(c, phase),
           phase \in {"opened", "releasing"} <=> calls[c].phase = "reserved",
           phase = "assembled" <=> calls[c].phase = "completing",
           NEW object \in ObjectStates, objects' = [objects EXCEPT ![calls[c].upload] = object],
           phase = "assembled" => object = "assembled",
           phase = "cleared" /\ objects[calls[c].upload] = "assembled" => object = "assembled"
    PROVE  UploadInv'
<1> DEFINE u == calls[c].upload
<1>1. /\ UploadTypeOK /\ JobsInv' /\ Submitted' = Submitted
      /\ uploads' = uploads /\ inputs' = inputs /\ ledger' = ledger /\ reserved' = reserved
      /\ answered' = answered /\ answered \subseteq Uploads /\ AnsweredAreInserted
      /\ CallInv(c) /\ calls \in [Calls -> Call \cup {NoCall}] /\ SessionsAreCharged
  BY JobsInvUnchanged DEF UploadInv, UploadTypeOK, jobVars, uploadTables, Submitted
<1>2. u \in Uploads /\ calls[c] \in Call
  BY <1>1, CallTypes
<1>3. PICK new \in Call : /\ new.phase = phase /\ new.upload = u
                         /\ calls' = [calls EXCEPT ![c] = new]
  BY <1>1, GotoCall DEF CallPhases, CallAt
<1>4. calls'[c] = new
  BY <1>1, <1>3
<1>5. /\ uploads' \in [Uploads -> Session \cup {NoUpload}]
      /\ objects' \in [Uploads -> ObjectStates]
      /\ ledger' \in [Uploads -> SUBSET {"reserve", "release"}]
      /\ inputs' \in [Jobs -> Uploads \cup {Nobody}]
      /\ reserved' \in Nat /\ reserved' <= reserved
      /\ objects'[u] = object /\ \A v \in Uploads \ {u} : objects'[v] = objects[v]
  BY <1>1, <1>2 DEF UploadTypeOK
<1>6. OverdraftInv'
  BY <1>3, <1>5, UncheckedStep
<1>7. calls[c].phase \notin Creating /\ objects[u] = "assembled" => objects'[u] = "assembled"
  BY <1>5 DEF Creating
<1>8. calls[c].phase \in Creating => uploads[u].state = "absent"
  BY <1>1 DEF CallInv
<1>9. ReadIffComplete'
  <2>1. \A v \in Uploads : uploads[v].state = "complete" /\ objects[v] = "assembled"
                           => objects'[v] = "assembled"
    BY <1>5, <1>7, <1>8
  <2>2. QED
    BY <1>1, <2>1, ReadKept
<1>10. reserved' = Cardinality(Held')
  BY <1>1, HeldKept
<1>11. CallInv(c)'
  <2>1. uploads[u].state = "absent" => u \notin Live'
    BY <1>1 DEF Live
  <2>2. QED
    BY <1>1, <1>3, <1>4, <1>5, <2>1 DEF CallInv, Creating, Completing
<1>12. /\ (u \in Live' <=> u \in Live) /\ (u \notin Live' \/ ledger'[u] = {"reserve"})
       /\ u \in answered' => uploads'[u].state # "absent"
  BY <1>1, <1>2 DEF SessionsAreCharged, AnsweredAreInserted, Live
<1>13. /\ phase \in Creating => calls[c].phase \in Creating
       /\ phase \in Completing => calls[c].phase \in Completing
  BY DEF Creating, Completing
<1>14. QED
  BY <1>1, <1>2, <1>3, <1>5, <1>6, <1>7, <1>9, <1>10, <1>11, <1>12, <1>13, RowUploadInv

\* The state of a session goes on, short of complete.
LEMMA SessionUploadInv ==
    ASSUME UploadInv, UNCHANGED <<jobVars, objects, ledger, reserved, inputs>>, NEW c \in Calls,
           ~CallAt(c, "idle"), NEW session \in Session,
           uploads' = [uploads EXCEPT ![calls[c].upload] = session],
           NEW new \in Call \cup {NoCall}, calls' = [calls EXCEPT ![c] = new],
           new.phase # "idle" => new.upload = calls[c].upload,
           \/ /\ calls[c].phase = "opened" /\ session.state = "open"
              /\ \/ new.phase = "idle" /\ answered' = answered \cup {calls[c].upload}
                 \/ new.phase = "releasing" /\ answered' = answered
           \/ /\ uploads[calls[c].upload].state = "open" /\ calls[c].phase \in {"found", "cleared"}
              /\ answered' = answered
              /\ \/ session.state = "completing" /\ new.phase = "completing"
                 \/ session.state = "aborted" /\ new.phase = "releasing"
    PROVE  UploadInv'
<1> DEFINE u == calls[c].upload
<1>1. /\ UploadTypeOK /\ JobsInv' /\ Submitted' = Submitted
      /\ objects' = objects /\ inputs' = inputs /\ ledger' = ledger /\ reserved' = reserved
      /\ CallInv(c) /\ calls \in [Calls -> Call \cup {NoCall}]
      /\ SessionsAreCharged /\ AnsweredAreInserted
  BY JobsInvUnchanged DEF UploadInv, UploadTypeOK, jobVars, Submitted
<1>2. u \in Uploads /\ calls[c] \in Call
  BY <1>1, CallTypes DEF CallAt
<1>3. calls'[c] = new
  BY <1>1
<1>4. /\ uploads' \in [Uploads -> Session \cup {NoUpload}]
      /\ objects' \in [Uploads -> ObjectStates]
      /\ ledger' \in [Uploads -> SUBSET {"reserve", "release"}]
      /\ inputs' \in [Jobs -> Uploads \cup {Nobody}]
      /\ reserved' \in Nat /\ reserved' <= reserved
      /\ uploads'[u] = session /\ \A v \in Uploads \ {u} : uploads'[v] = uploads[v]
  BY <1>1, <1>2 DEF UploadTypeOK
<1>5. OverdraftInv'
  BY <1>4, UncheckedStep
<1>6. uploads[u].state = IF calls[c].phase = "opened" THEN "absent" ELSE "open"
  BY <1>1 DEF CallInv, Creating
<1>7. u \in answered <=> calls[c].phase # "opened"
  BY <1>1, <1>2, <1>6 DEF CallInv, AnsweredAreInserted
<1>8. ledger[u] = {"reserve"}
  BY <1>1, <1>2, <1>6, <1>7 DEF CallInv, SessionsAreCharged, Live
<1>9. ReadIffComplete'
  <2>1. \A v \in Uploads : uploads'[v].state = "complete" <=> uploads[v].state = "complete"
    BY <1>4, <1>6
  <2>2. QED
    BY <1>1, <2>1, ReadKept
<1>10. reserved' = Cardinality(Held')
  BY <1>1, HeldKept
<1>11. new.phase = "releasing" => u \notin Live'
  BY <1>4, <1>7 DEF Live
<1>12. CallInv(c)'
  BY <1>1, <1>3, <1>4, <1>8, <1>11 DEF CallInv, Creating, Completing
<1>13. /\ new.phase \in Creating => calls[c].phase \in Creating
       /\ new.phase \in Completing => uploads[u].state = "open"
  BY <1>6 DEF Creating, Completing
<1>14. calls[c].phase \notin Creating =>
          /\ u \in Live /\ uploads[u].state = "open"
          /\ objects[u] = "assembled" => objects'[u] = "assembled"
  BY <1>1, <1>2, <1>6, <1>7 DEF Creating, Live
<1>15. ledger'[u] = {"reserve"} /\ \A v \in Uploads \ {u} : objects'[v] = objects[v] /\ ledger'[v] = ledger[v]
  BY <1>1, <1>8
<1>16. /\ answered' \subseteq Uploads /\ (u \in answered => u \in answered')
       /\ \A v \in Uploads \ {u} : v \in answered' <=> v \in answered
       /\ uploads'[u].state # "absent"
  BY <1>1, <1>2, <1>4 DEF UploadTypeOK
<1>17. CallInv(c)' /\ OverdraftInv' /\ ReadIffComplete' /\ reserved' = Cardinality(Held') /\ JobsInv'
  BY <1>1, <1>5, <1>9, <1>10, <1>12
<1>18. calls[c].phase \notin Creating =>
          /\ u \notin Live => u \notin Live'
          /\ ledger[u] # {} => ledger'[u] # {}
          /\ uploads[u].state = "completing" =>
                calls[c].phase \in Completing \/ uploads'[u].state = "completing"
          /\ objects[u] = "assembled" => objects'[u] = "assembled"
  BY <1>1, <1>14
<1>19. QED
  BY <1>1, <1>2, <1>4, <1>13, <1>15, <1>16, <1>17, <1>18, RowUploadInv

\* A reservation is given back, once.
LEMMA ReleaseUploadInv ==
    ASSUME UploadInv, NEW c \in Calls, ReleaseUpload(c) PROVE UploadInv'
<1> DEFINE u == calls[c].upload
<1>1. /\ UploadTypeOK /\ JobsInv' /\ Submitted' = Submitted
      /\ uploads' = uploads /\ objects' = objects /\ inputs' = inputs /\ answered' = answered
      /\ ~CallAt(c, "idle") /\ calls[c].phase = "releasing" /\ AnsweredAreInserted
      /\ CallInv(c) /\ calls \in [Calls -> Call \cup {NoCall}]
      /\ SessionsAreCharged /\ reserved = Cardinality(Held)
      /\ ledger \in [Uploads -> SUBSET {"reserve", "release"}] /\ reserved \in Nat
  BY JobsInvUnchanged DEF ReleaseUpload, UploadInv, UploadTypeOK, jobVars, CallAt, Submitted
<1>2. u \in Uploads /\ calls[c] \in Call /\ Bytes[u] \in Nat
  BY <1>1, CallTypes, LargestUpload
<1>3. ledger[u] # {} /\ u \notin Live /\ u \notin Live'
  BY <1>1 DEF CallInv, Live
<1>4. calls' = [calls EXCEPT ![c] = NoCall] /\ NoCall.phase = "idle" /\ calls'[c] = NoCall
  BY <1>1 DEF ReleaseUpload, Ends, NoCall
<1>5. /\ ledger' \in [Uploads -> SUBSET {"reserve", "release"}] /\ ledger'[u] # {}
      /\ \A v \in Uploads \ {u} : ledger'[v] = ledger[v]
      /\ ledger'[u] # {"reserve"}
  <2>1. ledger' = [ledger EXCEPT ![u] =
            IF "reserve" \in ledger[u] THEN ledger[u] \cup {"release"} ELSE ledger[u]]
    BY DEF ReleaseUpload
  <2>2. ledger[u] \in SUBSET {"reserve", "release"}
    BY <1>1, <1>2
  <2>3. ledger'[u] = IF "reserve" \in ledger[u] THEN ledger[u] \cup {"release"} ELSE ledger[u]
    BY <1>1, <1>2, <2>1
  <2>4. ledger'[u] \in SUBSET {"reserve", "release"} /\ ledger'[u] # {}
    BY <1>3, <2>2, <2>3
  <2>5. ledger'[u] # {"reserve"}
    BY <2>3
  <2>6. \A v \in Uploads \ {u} : ledger'[v] = ledger[v]
    BY <1>1, <2>1
  <2>7. ledger' \in [Uploads -> SUBSET {"reserve", "release"}]
    BY <1>1, <2>1, <2>4, <2>6
  <2> QED
    BY <2>4, <2>5, <2>6, <2>7
<1>6. reserved' = Cardinality(Held') /\ reserved' \in Nat /\ reserved' <= reserved
  <2>1. Charged' = Charged \ {u} /\ Charged \in SUBSET Uploads
    BY <1>2, <1>5 DEF Charged
  <2>2. Held = HeldBy(Charged) /\ Held' = HeldBy(Charged \ {u})
    BY <2>1 DEF Held, HeldBy
  <2>3. CASE u \in Charged
    <3>1. (Charged \ {u}) \cup {u} = Charged /\ Charged \ {u} \in SUBSET Uploads
          /\ u \in Uploads \ (Charged \ {u})
      BY <1>2, <2>1, <2>3
    <3>2. /\ Cardinality(HeldBy(Charged \ {u})) \in Nat
          /\ Cardinality(HeldBy(Charged)) = Cardinality(HeldBy(Charged \ {u})) + Bytes[u]
      BY <3>1, HeldGrows
    <3>3. reserved' = IF reserved > Bytes[u] THEN reserved - Bytes[u] ELSE 0
      BY <2>3 DEF ReleaseUpload, Charged
    <3>4. PICK n \in Nat : n = Cardinality(HeldBy(Charged \ {u}))
      BY <3>2
    <3>5. reserved = n + Bytes[u]
      BY <1>1, <2>2, <3>2, <3>4
    <3>6. reserved' = n /\ n <= reserved
      BY <1>2, <3>3, <3>5
    <3>7. QED
      BY <2>2, <3>4, <3>6
  <2>4. CASE u \notin Charged
    <3>1. Charged \ {u} = Charged /\ reserved' = reserved
      BY <1>2, <2>4 DEF ReleaseUpload, Charged
    <3>2. QED
      BY <1>1, <2>2, <3>1
  <2>5. QED
    BY <2>3, <2>4
<1>7. OverdraftInv'
  BY <1>4, <1>6, UncheckedStep
<1>8. ReadIffComplete'
  BY <1>1, ReadKept
<1>9. /\ uploads' \in [Uploads -> Session \cup {NoUpload}]
      /\ objects' \in [Uploads -> ObjectStates]
      /\ inputs' \in [Jobs -> Uploads \cup {Nobody}]
      /\ answered' \subseteq Uploads /\ (u \in answered' => uploads'[u].state # "absent")
  BY <1>1 DEF UploadTypeOK, AnsweredAreInserted
<1>10. CallInv(c)'
  BY <1>4 DEF CallInv, Creating, Completing
<1>11. "idle" \notin Creating /\ "idle" \notin Completing
  BY DEF Creating, Completing
<1>12. QED
  BY <1>1, <1>2, <1>3, <1>4, <1>5, <1>6, <1>7, <1>8, <1>9, <1>10, <1>11, RowUploadInv

\* A session is completed, and the job that ingests it inserted with it.
LEMMA CompleteUploadInv ==
    ASSUME UploadInv, NEW c \in Calls, NEW j \in Jobs, CompleteWithOutbox(c, j)
    PROVE  UploadInv'
<1> DEFINE u == calls[c].upload
           completes == /\ uploads[u].state = "completing"
                        /\ adapter = "postgres" => Active(uploads[u].project)
<1>1. /\ UploadTypeOK /\ JobsInv /\ CallInv(c) /\ SessionsAreCharged /\ ReadIffComplete
      /\ answered' = answered /\ answered \subseteq Uploads /\ objects' = objects /\ ledger' = ledger /\ reserved' = reserved
      /\ ~CallAt(c, "idle") /\ calls[c].phase = "assembled"
      /\ calls \in [Calls -> Call \cup {NoCall}]
  BY DEF CompleteWithOutbox, UploadInv, UploadTypeOK, CallAt
<1>2. CASE ~completes
  <2>1. UNCHANGED <<jobVars, uploadTables, objects>>
    BY <1>2 DEF CompleteWithOutbox, jobVars, uploadTables
  <2>2. JobsInv'
    BY <1>1, <2>1, JobsInvUnchanged
  <2>3. QED
    BY <1>1, <2>1, <2>2, EndUploadInv DEF CompleteWithOutbox, jobVars
<1>3. CASE completes
  <2>1. u \in Uploads /\ calls[c] \in Call /\ objects[u] = "assembled"
    BY <1>1, CallTypes DEF CallInv
  <2>2. uploads[u] \in Session /\ uploads[u].state = "completing" /\ uploads[u].project \in Projects
    BY <1>1, <1>3, <2>1, UploadTypes
  <2> DEFINE p == uploads[u].project
             session == [uploads[u] EXCEPT !.state = "complete"]
  <2>3. /\ uploads' = [uploads EXCEPT ![u] = session] /\ InsertJobAndOutbox(j, p)
        /\ inputs' = [inputs EXCEPT ![j] = u]
        /\ UNCHANGED <<adapter, projects, sending, queue, workers, faults>>
    BY <1>3 DEF CompleteWithOutbox
  <2>4. session \in Session /\ session.state = "complete"
    BY <2>2 DEF Session, UploadStates
  <2>5. calls' = [calls EXCEPT ![c] = NoCall] /\ NoCall.phase = "idle" /\ calls'[c] = NoCall
    BY <1>1 DEF CompleteWithOutbox, Ends, NoCall
  <2>6. faults' \in 0 .. MaxFaults
    BY <1>1, <2>3 DEF JobsInv, JobTypeOK
  <2> HIDE DEF session, p
  <2>7. JobsInv'
    BY <1>1, <2>2, <2>3, <2>6, InsertJobsInv DEF p
  <2>8. /\ uploads' \in [Uploads -> Session \cup {NoUpload}]
        /\ uploads'[u].state = "complete"
        /\ \A v \in Uploads \ {u} : uploads'[v] = uploads[v]
    BY <1>1, <2>1, <2>3, <2>4 DEF UploadTypeOK
  <2>9. /\ objects' \in [Uploads -> ObjectStates]
        /\ ledger' \in [Uploads -> SUBSET {"reserve", "release"}]
        /\ reserved' \in Nat /\ reserved' <= reserved
    BY <1>1 DEF UploadTypeOK
  <2>10. inputs \in [Jobs -> Uploads \cup {Nobody}] /\ inputs' \in [Jobs -> Uploads \cup {Nobody}]
    BY <1>1, <2>1, <2>3 DEF UploadTypeOK
  <2>11. inputs'[j] = u /\ \A i \in Jobs \ {j} : inputs'[i] = inputs[i]
    BY <2>3, <2>10
  <2>12. Submitted' = Submitted \cup {j} /\ j \notin Submitted
    BY <1>1, <2>3 DEF InsertJobAndOutbox, JobsInv, JobTypeOK, Submitted
  <2>13. Read(u) = {}
    BY <1>1, <2>1, <2>2 DEF ReadIffComplete
  <2>14. \A v \in Uploads : Read(v)' = IF v = u THEN {j} ELSE Read(v)
    BY <2>1, <2>11, <2>12, <2>13 DEF Read, Submitted
  <2>15. ReadIffComplete'
    <3>1. ASSUME NEW v \in Uploads
          PROVE  IF uploads'[v].state = "complete"
                 THEN (\E i \in Jobs : Read(v)' = {i}) /\ objects'[v] = "assembled"
                 ELSE Read(v)' = {}
      BY <1>1, <2>1, <2>8, <2>14 DEF ReadIffComplete
    <3>2. QED
      BY <3>1 DEF ReadIffComplete
  <2>16. reserved' = Cardinality(Held')
    BY <1>1, HeldKept
  <2>17. OverdraftInv'
    BY <2>5, <2>9, UncheckedStep
  <2>18. CallInv(c)'
    BY <2>5 DEF CallInv, Creating, Completing
  <2>19. ledger'[u] = {"reserve"}
    BY <1>1, <2>1, <2>2 DEF SessionsAreCharged, Live
  <2>20. /\ "idle" \notin Creating /\ "idle" \notin Completing /\ "assembled" \in Completing
         /\ u \in Live
    BY <2>1, <2>2 DEF Creating, Completing, Live
  <2>21. QED
    BY <1>1, <2>1, <2>2, <2>5, <2>7, <2>8, <2>9, <2>10, <2>15, <2>16, <2>17, <2>18, <2>19, <2>20,
       RowUploadInv, ZenonT(60)
<1>4. QED
  BY <1>2, <1>3

\* Either the session was still in the state expected of it, or the call ends.
LEMMA SetUploadInv ==
    ASSUME UploadInv, NEW c \in Calls, BeginCompleting(c) \/ Aborted(c)
    PROVE  UploadInv'
<1> DEFINE u == calls[c].upload
<1>1. PICK to, phase : /\ SetUpload(c, "open", to, phase)
                       /\ \/ to = "completing" /\ phase = "completing" /\ calls[c].phase = "found"
                          \/ to = "aborted" /\ phase = "releasing" /\ calls[c].phase = "cleared"
  BY DEF BeginCompleting, Aborted, CallAt
<1>2. /\ UploadTypeOK /\ JobsInv' /\ ~CallAt(c, "idle")
      /\ answered' = answered /\ UNCHANGED <<jobVars, objects, ledger, reserved, inputs>>
  BY <1>1, JobsInvUnchanged DEF UploadInv, SetUpload, CallAt
<1>3. CASE Transition(c, "open")
  <2>1. u \in Uploads /\ uploads[u].state = "open" /\ uploads[u] \in Session
    BY <1>2, <1>3, CallTypes, UploadTypes DEF Transition, CallAt
  <2> DEFINE session == [uploads[u] EXCEPT !.state = to]
  <2>2. session \in Session /\ session.state = to
    BY <1>1, <2>1 DEF Session, UploadStates
  <2>3. uploads' = [uploads EXCEPT ![u] = session] /\ Goto(c, phase)
    BY <1>1, <1>3 DEF SetUpload
  <2>4. PICK new \in Call : /\ new.phase = phase /\ new.upload = u
                           /\ calls' = [calls EXCEPT ![c] = new]
    BY <1>1, <1>2, <2>3, GotoCall DEF CallPhases
  <2> HIDE DEF session
  <2>5. QED
    BY <1>1, <1>2, <2>1, <2>2, <2>3, <2>4, SessionUploadInv
<1>4. CASE ~Transition(c, "open")
  <2>1. UNCHANGED <<jobs, uploadTables, objects>> /\ Ends(c)
    BY <1>1, <1>2, <1>4 DEF SetUpload, uploadTables, jobVars
  <2>2. QED
    BY <1>2, <2>1, EndUploadInv
<1>5. QED
  BY <1>3, <1>4

LEMMA CallsUploadInv == ASSUME UploadInv, UploadStep PROVE UploadInv'
<1>1. /\ UploadTypeOK /\ JobsInv /\ \A c \in Calls : CallInv(c)
      /\ calls \in [Calls -> Call \cup {NoCall}]
  BY DEF UploadInv, UploadTypeOK
<1>2. ASSUME NEW c \in Calls, NEW u \in Uploads, NEW p \in Projects, CreateUpload(c, u, p)
      PROVE  UploadInv'
  BY <1>2, BeginUploadInv DEF CreateUpload
<1>3. ASSUME NEW c \in Calls, NEW u \in Uploads, NEW phase \in {"found", "aborting"},
             GetOpenUpload(c, u, phase)
      PROVE  UploadInv'
  <2>1. PICK p \in Projects : p = uploads[u].project
    BY <1>1, <1>3, UploadTypes DEF GetOpenUpload
  <2>2. Begins(c, phase, u, p)
    BY <1>3, <2>1 DEF GetOpenUpload, Begins
  <2>3. QED
    BY <1>3, <2>2, BeginUploadInv DEF GetOpenUpload
<1>4. ASSUME NEW c \in Calls, CreateMultipartUpload(c) PROVE UploadInv'
  BY <1>4, ObjectUploadInv DEF CreateMultipartUpload, CallAt, ObjectStates
<1>5. ASSUME NEW c \in Calls, CompleteMultipartUpload(c) PROVE UploadInv'
  BY <1>5, ObjectUploadInv DEF CompleteMultipartUpload, CallAt, ObjectStates
<1>6. ASSUME NEW c \in Calls, AbortMultipartUpload(c) PROVE UploadInv'
  <2> DEFINE u == calls[c].upload
             object == IF objects[u] = "multipart" THEN "gone" ELSE objects[u]
  <2>1. u \in Uploads /\ objects[u] \in ObjectStates
    BY <1>1, <1>6, CallTypes, UploadTypes DEF AbortMultipartUpload, CallAt
  <2>2. object \in ObjectStates /\ (objects[u] = "assembled" => object = "assembled")
    BY <2>1 DEF ObjectStates
  <2>3. objects' = [objects EXCEPT ![u] = object]
    BY <1>6 DEF AbortMultipartUpload
  <2> HIDE DEF object
  <2>4. QED
    BY <1>6, <2>2, <2>3, ObjectUploadInv DEF AbortMultipartUpload, CallAt
<1>7. ASSUME NEW c \in Calls, CreateMultipartUploadFails(c) PROVE UploadInv'
  <2> DEFINE u == calls[c].upload
  <2>1. u \in Uploads /\ objects \in [Uploads -> ObjectStates]
    BY <1>1, <1>7, CallTypes DEF CreateMultipartUploadFails, CallAt, UploadTypeOK
  <2>2. PICK object \in ObjectStates : objects' = [objects EXCEPT ![u] = object]
    <3>1. CASE UNCHANGED objects
      <4>1. objects' = [objects EXCEPT ![u] = objects[u]] /\ objects[u] \in ObjectStates
        BY <2>1, <3>1
      <4>2. QED
        BY <4>1
    <3>2. CASE objects' = [objects EXCEPT ![u] = "multipart"]
      BY <3>2 DEF ObjectStates
    <3>3. QED
      BY <1>7, <3>1, <3>2 DEF CreateMultipartUploadFails
  <2>3. /\ calls[c].phase = "reserved" /\ Goto(c, "releasing") /\ UNCHANGED <<jobVars, uploadTables>>
    BY <1>7 DEF CreateMultipartUploadFails, CallAt
  <2>4. QED
    BY <2>2, <2>3, ObjectUploadInv
<1>8. ASSUME NEW c \in Calls, CompleteMultipartUploadFails(c) \/ AbortMultipartUploadFails(c)
      PROVE  UploadInv'
  <2>1. /\ ~CallAt(c, "idle") /\ UNCHANGED <<jobs, uploadTables, objects>> /\ JobsInv' /\ Ends(c)
    BY <1>1, <1>8, JobsInvUnchanged
       DEF CompleteMultipartUploadFails, AbortMultipartUploadFails, CallAt, jobVars
  <2>2. QED
    BY <2>1, EndUploadInv
<1>9. ASSUME NEW c \in Calls, InsertSession(c) \/ InsertSessionFails(c) PROVE UploadInv'
  <2> DEFINE u == calls[c].upload
             session == [state |-> "open", project |-> calls[c].project]
  <2>1. /\ calls[c].phase = "opened" /\ ~CallAt(c, "idle") /\ calls[c] \in Call /\ JobsInv'
        /\ UNCHANGED <<jobVars, objects, ledger, reserved, inputs>>
    BY <1>1, <1>9, CallTypes, JobsInvUnchanged DEF InsertSession, InsertSessionFails, CallAt
  <2>2. session \in Session /\ session.state = "open"
    BY <2>1 DEF Session, UploadStates, Call
  <2>3. NoCall.phase = "idle"
    BY DEF NoCall
  <2>4. PICK new \in Call : new.phase = "releasing" /\ new.upload = u
                            /\ (Goto(c, "releasing") => calls' = [calls EXCEPT ![c] = new])
    <3> DEFINE new == [calls[c] EXCEPT !.phase = "releasing"]
    <3>1. new \in Call /\ new.phase = "releasing" /\ new.upload = u
      BY <2>1 DEF Call, CallPhases
    <3>2. Goto(c, "releasing") => calls' = [calls EXCEPT ![c] = new]
      BY <1>1 DEF Goto
    <3> HIDE DEF new
    <3>3. QED
      BY <3>1, <3>2
  <2>5. CASE InsertSession(c)
    <3>1. /\ uploads' = [uploads EXCEPT ![u] = session] /\ calls' = [calls EXCEPT ![c] = NoCall]
          /\ answered' = answered \cup {u}
      BY <2>5 DEF InsertSession, Inserted, Ends
    <3> HIDE DEF session
    <3>2. QED
      BY <2>1, <2>2, <2>3, <3>1, SessionUploadInv
  <2>6. CASE InsertSessionFails(c) /\ Inserted(c)
    <3>1. /\ uploads' = [uploads EXCEPT ![u] = session] /\ calls' = [calls EXCEPT ![c] = new]
          /\ answered' = answered
      BY <2>4, <2>6 DEF InsertSessionFails, Inserted
    <3> HIDE DEF session
    <3>2. QED
      BY <2>1, <2>2, <2>4, <3>1, SessionUploadInv
  <2>7. CASE InsertSessionFails(c) /\ UNCHANGED uploads
    <3>1. /\ Goto(c, "releasing") /\ UNCHANGED <<jobs, uploadTables, objects>>
      BY <2>7 DEF InsertSessionFails, uploadTables, jobVars
    <3>2. calls'[c] = new /\ uploads' = uploads /\ answered' = answered /\ ledger' = ledger
      BY <1>1, <2>4, <3>1 DEF uploadTables
    <3>3. uploads[u].state = "absent" /\ ledger[u] = {"reserve"}
      BY <1>1, <2>1 DEF CallInv, Creating
    <3>4. CallInv(c)'
      BY <2>4, <3>2, <3>3 DEF CallInv, Creating, Completing, Live
    <3>5. QED
      BY <2>1, <3>1, <3>4, GoUploadInv DEF CallPhases, Creating, Completing
  <2>8. QED
    BY <1>9, <2>5, <2>6, <2>7 DEF InsertSessionFails
<1>10. ASSUME NEW c \in Calls, LoseCall(c) PROVE UploadInv'
  <2>1. JobsInv'
    BY <1>1, <1>10, FaultType, PublishJobsInv DEF LoseCall, JobsInv, JobTypeOK
  <2>2. QED
    BY <1>10, <2>1, EndUploadInv DEF LoseCall
<1>11. QED
  BY <1>2, <1>3, <1>4, <1>5, <1>6, <1>7, <1>8, <1>9, <1>10, CheckQuotaUploadInv,
     ReserveUploadInv, ReleaseUploadInv, CompleteUploadInv, SetUploadInv DEF UploadStep

\* Workers, the publisher and a deletion leave the uploads and their jobs' inputs alone.
LEMMA JobsUploadInv ==
    ASSUME UploadInv, UNCHANGED uploadVars,
           JobStep \/ \E p \in Projects, current \in BOOLEAN : DeleteProject(p, current)
    PROVE  UploadInv'
<1>1. JobsInv
  BY DEF UploadInv
<1>2. JobsInv'
  BY <1>1, JobStepJobsInv, DeleteJobsInv
<1>3. Submitted' = Submitted
  <2>1. CASE JobStep
    <3>1. \A i \in Submitted, state \in JobStates : SetJob(i, state) => Submitted' = Submitted
      BY <1>1, SetJobType
    <3>2. UNCHANGED jobs => Submitted' = Submitted
      BY DEF Submitted
    <3>3. QED
      BY <1>1, <2>1, <3>1, <3>2, JobChange
  <2>2. ASSUME NEW p \in Projects, NEW current \in BOOLEAN, DeleteProject(p, current)
        PROVE  Submitted' = Submitted
    BY <2>2, <1>1, JobTypes DEF DeleteProject, CancelledWith, Submitted, JobsInv, Job, NoJob
  <2>3. QED
    BY <2>1, <2>2
<1>4. /\ uploads' = uploads /\ objects' = objects /\ ledger' = ledger /\ reserved' = reserved
      /\ answered' = answered /\ inputs' = inputs /\ calls' = calls
  BY DEF uploadVars
<1>5. ReadIffComplete' /\ reserved' = Cardinality(Held')
  BY <1>3, <1>4, ReadKept, HeldKept
<1>6. UploadTypeOK' /\ CallsAreApart' /\ SessionsAreCharged' /\ AnsweredAreInserted'
  BY <1>4 DEF UploadInv, UploadTypeOK, CallsAreApart, SessionsAreCharged, AnsweredAreInserted, Live
<1>7. \A c \in Calls : CallInv(c)'
  BY <1>4 DEF UploadInv, CallInv, Live
<1>8. OverdraftInv'
  BY <1>4 DEF UploadInv, OverdraftInv, Checked, CallAt
<1>9. QED
  BY <1>2, <1>5, <1>6, <1>7, <1>8 DEF UploadInv

LEMMA InitUploadInv == JobInit /\ UploadInit => UploadInv
<1> SUFFICES ASSUME JobInit, UploadInit PROVE UploadInv
  OBVIOUS
<1>1. JobsInv
  BY InitJobsInv
<1>2. UploadTypeOK
  BY DEF UploadInit, UploadTypeOK, NoUpload, NoCall, ObjectStates
<1>3. /\ CallsAreApart /\ SessionsAreCharged /\ AnsweredAreInserted
      /\ \A c \in Calls : CallInv(c)
  BY DEF UploadInit, CallsAreApart, SessionsAreCharged, AnsweredAreInserted, Live, CallInv, NoCall,
     NoUpload, Creating, Completing
<1>4. ReadIffComplete
  BY DEF UploadInit, JobInit, ReadIffComplete, Read, Submitted, NoUpload, NoJob
<1>5. reserved = Cardinality(Held)
  <2>1. Held = {}
    BY DEF UploadInit, Held, Charged
  <2>2. QED
    BY <2>1, FS_EmptySet DEF UploadInit
<1>6. OverdraftInv
  <2>1. Checked = {} /\ reserved = 0
    BY DEF UploadInit, Checked, CallAt, NoCall
  <2>2. QED
    BY <2>1, CeilingType DEF OverdraftInv
<1>7. QED
  BY <1>1, <1>2, <1>3, <1>4, <1>5, <1>6 DEF UploadInv

LEMMA NextUploadInv == ASSUME UploadInv, [UploadNext]_<<jobVars, uploadVars>> PROVE UploadInv'
<1>1. CASE UNCHANGED <<jobVars, uploadVars>>
  <2>1. JobsInv' /\ Submitted' = Submitted
    BY <1>1, JobsInvUnchanged DEF UploadInv, jobVars, Submitted
  <2>2. uploads' = uploads /\ objects' = objects /\ ledger' = ledger /\ reserved' = reserved
        /\ answered' = answered /\ inputs' = inputs /\ calls' = calls
    BY <1>1 DEF uploadVars
  <2>3. ReadIffComplete' /\ reserved' = Cardinality(Held')
    BY <2>1, <2>2, ReadKept, HeldKept
  <2>4. UploadTypeOK' /\ CallsAreApart' /\ SessionsAreCharged' /\ AnsweredAreInserted'
    BY <2>2
       DEF UploadInv, UploadTypeOK, CallsAreApart, SessionsAreCharged, AnsweredAreInserted,
           Live
  <2>5. \A c \in Calls : CallInv(c)'
    BY <2>2 DEF UploadInv, CallInv, Live
  <2>6. OverdraftInv'
    BY <2>2 DEF UploadInv, OverdraftInv, Checked, CallAt
  <2>7. QED
    BY <2>1, <2>3, <2>4, <2>5, <2>6 DEF UploadInv
<1>2. QED
  BY <1>1, CallsUploadInv, JobsUploadInv DEF UploadNext

LEMMA UploadInvariant == UploadSpec => []UploadInv
BY InitUploadInv, NextUploadInv, PTL DEF UploadSpec

LEMMA UploadInvHolds ==
    ASSUME UploadInv
    PROVE  SessionsHoldReservations /\ IngestIffComplete /\ OverdraftIsBounded
<1>1. SessionsHoldReservations
  BY DEF UploadInv, SessionsAreCharged, SessionsHoldReservations, Live, Charged
<1>2. IngestIffComplete
  BY FS_Singleton DEF UploadInv, ReadIffComplete, Read, IngestIffComplete
<1>3. OverdraftIsBounded
  <2>1. UploadTypeOK /\ OverdraftInv /\ reserved \in Nat
    BY DEF UploadInv, UploadTypeOK
  <2>2. reserved <= Ceiling
    <3>1. CASE Checked = {}
      BY <2>1, <3>1 DEF OverdraftInv
    <3>2. CASE Checked # {}
      <4>1. PICK c \in Checked :
               reserved + Bytes[calls[c].upload] + (Cardinality(Checked) - 1) * Largest <= Ceiling
        BY <2>1, <3>2 DEF OverdraftInv
      <4>2. Bytes[calls[c].upload] \in Nat
        BY <2>1, CheckedUpload
      <4>3. (Cardinality(Checked) - 1) * Largest \in Nat
        BY <3>2, CheckedFinite, LargestUpload, Product
      <4>4. Ceiling \in Nat
        BY CeilingType
      <4>5. QED
        BY <2>1, <4>1, <4>2, <4>3, <4>4
    <3>3. QED
      BY <3>1, <3>2
  <2>3. QED
    BY <2>2 DEF OverdraftIsBounded, Ceiling, Largest
<1>4. QED
  BY <1>1, <1>2, <1>3

\* However calls, crashes and deletions interleave, every session that can
\* still lead to a stored source keeps its reservation, and the counter of the
\* period is the bytes of the reservations that were not given back.
THEOREM SessionsKeepReservations == UploadSpec => []SessionsHoldReservations
BY UploadInvariant, UploadInvHolds, PTL

\* A completed session has exactly one job that ingests it, and its object has
\* been assembled; any other session has none.
THEOREM OneIngestPerSession == UploadSpec => []IngestIffComplete
BY UploadInvariant, UploadInvHolds, PTL

\* Any number of calls that race between the check of the quota and the
\* reservation overdraw it by what the others had under way at most.
THEOREM OverdraftHasABound == UploadSpec => []OverdraftIsBounded
BY UploadInvariant, UploadInvHolds, PTL

\* One worker runs a job also when completed uploads insert the jobs.
THEOREM OneWorkerRunsAnIngest == UploadSpec => []OneWorkerPerJob
<1>1. UploadInv => OneWorkerPerJob
  BY JobsInvOneWorker DEF UploadInv
<1>2. QED
  BY <1>1, UploadInvariant, PTL
-----------------------------------------------------------------------------
(***************************************************************************)
(* The client.                                                             *)
(***************************************************************************)

\* From the head of the loop, whichever way it goes on.
LEMMA ContinueInv ==
    ASSUME NEW stopped \in BOOLEAN, NEW pending \in SUBSET Parts, NEW done \in SUBSET Parts,
           done \cup pending = Parts
    PROVE  /\ Continue(stopped, pending, done) \in Run
           /\ RunIsOnItsWay(Continue(stopped, pending, done), done)
<1>1. Batch(pending) \subseteq pending
  BY DEF Batch
<1>2. CASE stopped
  BY <1>2 DEF Continue, NotRun, Run, RunIsOnItsWay
<1>3. CASE ~stopped /\ pending # {}
  <2> DEFINE run == [phase |-> "signing", pending |-> pending \ Batch(pending),
                     sending |-> Batch(pending), named |-> {}]
  <2>1. Continue(stopped, pending, done) = run
    BY <1>3 DEF Continue
  <2>2. run \in Run
    BY <1>1 DEF Run
  <2>3. RunIsOnItsWay(run, done)
    BY <1>1 DEF RunIsOnItsWay
  <2>4. QED
    BY <2>1, <2>2, <2>3
<1>4. CASE ~stopped /\ pending = {}
  BY <1>4 DEF Continue, NotRun, Run, RunIsOnItsWay
<1>5. QED
  BY <1>2, <1>3, <1>4

\* A step of one run that forgets no stored part.
LEMMA StepClientInv ==
    ASSUME ClientInv, paused' \in BOOLEAN, completed \subseteq completed', completed' \subseteq Parts,
           NEW r \in Runs, NEW run \in Run, runs' = [runs EXCEPT ![r] = run],
           RunIsOnItsWay(run, completed')
    PROVE  ClientInv'
<1>1. runs \in [Runs -> Run \cup {NotRun}]
  BY DEF ClientInv, ClientTypeOK
<1>2. ClientTypeOK'
  BY <1>1 DEF ClientTypeOK
<1>3. ASSUME NEW q \in Runs \ {r} PROVE RunIsOnItsWay(runs'[q], completed')
  <2>1. runs'[q] = runs[q] /\ RunIsOnItsWay(runs[q], completed)
    BY <1>1, <1>3 DEF ClientInv
  <2>2. runs[q].pending \subseteq Parts /\ runs[q].sending \subseteq Parts
    BY <1>1 DEF Run, NotRun
  <2>3. QED
    BY <2>1, <2>2 DEF RunIsOnItsWay
<1>4. runs'[r] = run
  BY <1>1
<1>5. \A q \in Runs : RunIsOnItsWay(runs[q], completed)'
  BY <1>3, <1>4
<1>6. QED
  BY <1>2, <1>5 DEF ClientInv

LEMMA InitClientInv == ClientInit => ClientInv
<1> SUFFICES ASSUME ClientInit PROVE ClientInv
  OBVIOUS
<1>1. ClientTypeOK
  BY DEF ClientInit, ClientTypeOK
<1>2. NotRun.phase = "none"
  BY DEF NotRun
<1>3. \A r \in Runs : runs[r].phase = "none"
  BY <1>2 DEF ClientInit
<1>4. QED
  BY <1>1, <1>3 DEF ClientInv, RunIsOnItsWay

LEMMA NextClientInv == ASSUME ClientInv, [ClientNext]_clientVars PROVE ClientInv'
<1>1. /\ paused \in BOOLEAN /\ completed \subseteq Parts
      /\ runs \in [Runs -> Run \cup {NotRun}]
      /\ \A r \in Runs : runs[r].phase # "none" => runs[r] \in Run
      /\ \A r \in Runs : RunIsOnItsWay(runs[r], completed)
  BY DEF ClientInv, ClientTypeOK, NotRun
<1>2. CASE Pause
  BY <1>1, <1>2 DEF Pause, ClientInv, ClientTypeOK
<1>3. ASSUME NEW r \in Runs, StartRun(r) \/ Resume(r) PROVE ClientInv'
  <2>1. completed \cup (Parts \ completed) = Parts
    BY <1>1
  <2>2. PICK stopped \in BOOLEAN :
           /\ runs' = [runs EXCEPT ![r] = Continue(stopped, Parts \ completed, completed)]
           /\ paused' \in BOOLEAN /\ completed' = completed
    BY <1>1, <1>3 DEF StartRun, Resume
  <2>3. /\ Continue(stopped, Parts \ completed, completed) \in Run
        /\ RunIsOnItsWay(Continue(stopped, Parts \ completed, completed), completed)
    BY <1>1, <2>1, ContinueInv
  <2>4. QED
    BY <1>1, <2>2, <2>3, StepClientInv
<1>4. ASSUME NEW r \in Runs, PartsSigned(r) PROVE ClientInv'
  <2>1. PICK phase \in {"sending", "failed"} :
           runs' = [runs EXCEPT ![r].phase = phase,
                                ![r].sending = IF phase = "failed" THEN {} ELSE @]
    BY <1>4 DEF PartsSigned
  <2> DEFINE left == IF phase = "failed" THEN {} ELSE runs[r].sending
             run == [runs[r] EXCEPT !.phase = phase, !.sending = left]
  <2>2. runs[r] \in Run /\ runs[r].phase = "signing" /\ RunIsOnItsWay(runs[r], completed)
    BY <1>1, <1>4 DEF PartsSigned
  <2>3. run \in Run /\ RunIsOnItsWay(run, completed)
    BY <2>2 DEF Run, RunIsOnItsWay
  <2>4. runs' = [runs EXCEPT ![r] = run]
    BY <1>1, <2>1
  <2>5. paused' = paused /\ completed' = completed
    BY <1>4 DEF PartsSigned
  <2> HIDE DEF run
  <2>6. QED
    BY <1>1, <2>3, <2>4, <2>5, StepClientInv
<1>5. ASSUME NEW r \in Runs, NEW k \in Parts, PartStored(r, k) PROVE ClientInv'
  <2>1. /\ runs[r] \in Run /\ k \in runs[r].sending /\ RunIsOnItsWay(runs[r], completed)
        /\ runs[r].phase \in {"sending", "failed"}
        /\ paused' = paused /\ completed' = completed \cup {k}
    BY <1>1, <1>5 DEF PartStored
  <2>2. completed' \subseteq Parts /\ completed \subseteq completed'
    BY <1>1, <2>1
  <2>3. CASE runs[r].phase = "sending" /\ runs[r].sending = {k}
    <3>1. runs[r].pending \in SUBSET Parts
      BY <2>1 DEF Run
    <3>2. completed' \cup runs[r].pending = Parts
      BY <2>1, <2>3 DEF RunIsOnItsWay
    <3>3. runs' = [runs EXCEPT ![r] = Continue(paused, runs[r].pending, completed')]
      BY <1>5, <2>3 DEF PartStored
    <3>4. /\ Continue(paused, runs[r].pending, completed') \in Run
          /\ RunIsOnItsWay(Continue(paused, runs[r].pending, completed'), completed')
      BY <1>1, <2>2, <3>1, <3>2, ContinueInv
    <3>5. QED
      BY <1>1, <2>1, <2>2, <3>3, <3>4, StepClientInv
  <2>4. CASE ~(runs[r].phase = "sending" /\ runs[r].sending = {k})
    <3> DEFINE run == [runs[r] EXCEPT !.sending = runs[r].sending \ {k}]
    <3>1. runs' = [runs EXCEPT ![r] = run]
      <4>1. runs' = [runs EXCEPT ![r] =
                       IF runs[r].phase = "sending" /\ runs[r].sending = {k}
                       THEN Continue(paused, runs[r].pending, completed') ELSE run]
        BY <1>5 DEF PartStored
      <4>2. QED
        BY <2>4, <4>1
    <3>2. run \in Run
      BY <2>1 DEF Run
    <3>3. RunIsOnItsWay(run, completed')
      BY <2>1 DEF RunIsOnItsWay, Run
    <3> HIDE DEF run
    <3>4. QED
      BY <1>1, <2>1, <2>2, <3>1, <3>2, <3>3, StepClientInv
  <2>5. QED
    BY <2>3, <2>4
<1>6. ASSUME NEW r \in Runs, NEW k \in Parts, PartFails(r, k) PROVE ClientInv'
  <2>1. /\ runs[r] \in Run /\ paused' = paused /\ completed' = completed
    BY <1>1, <1>6 DEF PartFails
  <2> DEFINE run == [runs[r] EXCEPT !.phase = "failed", !.sending = runs[r].sending \ {k}]
  <2>2. runs' = [runs EXCEPT ![r] = run]
    BY <1>1, <1>6 DEF PartFails
  <2>3. run \in Run /\ RunIsOnItsWay(run, completed)
    BY <2>1 DEF Run, RunIsOnItsWay
  <2> HIDE DEF run
  <2>4. QED
    BY <1>1, <2>1, <2>2, <2>3, StepClientInv
<1>7. CASE UNCHANGED clientVars
  BY <1>7 DEF clientVars, ClientInv, ClientTypeOK
<1>8. QED
  BY <1>2, <1>3, <1>4, <1>5, <1>6, <1>7 DEF ClientNext

\* Whatever was paused, resumed beside an older run, failed or sent twice, a
\* run that asks for the completion names every part of the source.
THEOREM CompletionHasNoHole == ClientSpec => []CompletionNamesEveryPart
<1>1. ClientInv => CompletionNamesEveryPart
  BY DEF ClientInv, RunIsOnItsWay, CompletionNamesEveryPart
<1>2. QED
  BY <1>1, InitClientInv, NextClientInv, PTL DEF ClientSpec
-----------------------------------------------------------------------------
(***************************************************************************)
(* Accounts: the provider.                                                 *)
(***************************************************************************)

LEMMA InitAccountInv == AccountInit => AccountInv
<1> SUFFICES ASSUME AccountInit PROVE AccountInv
  OBVIOUS
<1>1. AccountTypeOK
  BY MaxEventsAssumption DEF AccountInit, AccountTypeOK, Row, NoRow
<1>2. LogInv
  BY FS_EmptySet DEF AccountInit, LogInv
<1>3. \A u \in Users : MembershipIsLatest(u)
  BY DEF AccountInit, MembershipIsLatest, MembershipsOf
<1>4. RowsInv
  BY DEF AccountInit, RowsInv
<1>5. QED
  BY <1>1, <1>2, <1>3, <1>4 DEF AccountInv

\* The event is the last one issued, and nothing of the service changes.
LEMMA Issued ==
    ASSUME AccountInv, NEW type \in Types, NEW u \in Users \cup {None}, NEW role \in Roles \cup {None},
           Issue(type, u, role), membership' \in [Users -> Roles \cup {None}],
           type \in {"organization.created", "organization.deleted"} <=> u = None,
           \A v \in Users : MembershipIsLatest(v)'
    PROVE  AccountInv'
<1> DEFINE e == [type |-> type, user |-> u, role |-> role, seq |-> Cardinality(log) + 1]
<1>1. /\ AccountTypeOK /\ LogInv /\ RowsInv
  BY DEF AccountInv
<1>2. Cardinality(log) \in Nat /\ IsFiniteSet(log)
  BY <1>1, FS_CardinalityType DEF LogInv
<1>3. Cardinality(log) + 1 \in 1 .. MaxEvents
  BY <1>2, MaxEventsAssumption DEF Issue
<1>4. e \in Event /\ e.seq = Cardinality(log) + 1 /\ e.type = type /\ e.user = u
  BY <1>3 DEF Event
<1>5. log' = log \cup {e} /\ UNCHANGED <<store, accountTables, checked, processed>>
  BY DEF Issue
<1> HIDE DEF e
<1>6. AccountTypeOK'
  BY <1>1, <1>4, <1>5 DEF AccountTypeOK, accountTables
<1>7. e \notin log
  BY <1>1, <1>2, <1>4 DEF LogInv
<1>8. IsFiniteSet(log') /\ Cardinality(log') = Cardinality(log) + 1
  BY <1>2, <1>5, <1>7, FS_AddElement
<1>9. \A f \in log : f.seq \in Nat /\ f.seq <= Cardinality(log)
  BY <1>1 DEF AccountTypeOK, Event, LogInv
<1>10. LogInv'
  <2>1. \A f \in log' : f.seq <= Cardinality(log')
    BY <1>2, <1>4, <1>5, <1>8, <1>9
  <2>2. \A f, g \in log' : f.seq = g.seq => f = g
    BY <1>1, <1>2, <1>4, <1>5, <1>9 DEF LogInv
  <2>3. \A f \in log' : IF f.type \in {"organization.created", "organization.deleted"}
                        THEN f.user = None ELSE f.user \in Users
    BY <1>1, <1>4, <1>5 DEF LogInv
  <2>4. QED
    BY <1>8, <2>1, <2>2, <2>3 DEF LogInv
<1>11. Has("organization.deleted", None) => Has("organization.deleted", None)'
  BY <1>5 DEF Has
<1>12. RowsInv'
  BY <1>1, <1>5, <1>11 DEF RowsInv, Wrote, accountTables
<1>13. QED
  BY <1>6, <1>10, <1>12 DEF AccountInv

\* What was issued stays issued; an event of a membership is the latest of it.
LEMMA IssuedLatest ==
    ASSUME AccountInv, NEW type \in Types, NEW u \in Users \cup {None}, NEW role \in Roles \cup {None},
           Issue(type, u, role)
    PROVE  /\ \A t, v : Has(t, v) => Has(t, v)'
           /\ Has(type, u)'
           /\ \A v \in Users : v # u \/ type \notin MembershipTypes =>
                 /\ MembershipsOf(v)' = MembershipsOf(v)
                 /\ \A e \in log : IsLatest(e, v) => e \in log' /\ IsLatest(e, v)'
           /\ type \in MembershipTypes =>
                 \E e \in log' : e.type = type /\ e.role = role /\ IsLatest(e, u)'
<1>0. PICK e : e = [type |-> type, user |-> u, role |-> role, seq |-> Cardinality(log) + 1]
  OBVIOUS
<1>1. /\ Cardinality(log) \in Nat
      /\ \A f \in log : f.seq \in Nat /\ f.seq <= Cardinality(log)
  BY FS_CardinalityType DEF AccountInv, LogInv, AccountTypeOK, Event
<1>2. e.seq = Cardinality(log) + 1 /\ e.type = type /\ e.user = u /\ e.role = role
  BY <1>0
<1>3. log' = log \cup {e}
  BY <1>0 DEF Issue
<1>4. ASSUME NEW v \in Users, v # u \/ type \notin MembershipTypes
      PROVE  /\ MembershipsOf(v)' = MembershipsOf(v)
             /\ \A f \in log : IsLatest(f, v) => f \in log' /\ IsLatest(f, v)'
  <2>1. MembershipsOf(v)' = MembershipsOf(v)
    BY <1>2, <1>3, <1>4 DEF MembershipsOf
  <2>2. QED
    BY <1>3, <2>1 DEF IsLatest
<1>5. ASSUME type \in MembershipTypes
      PROVE  \E f \in log' : f.type = type /\ f.role = role /\ IsLatest(f, u)'
  <2>1. e \in log' /\ e \in MembershipsOf(u)'
    BY <1>2, <1>3, <1>5 DEF MembershipsOf
  <2>2. \A f \in log' : f.seq <= e.seq
    BY <1>1, <1>2, <1>3
  <2>3. \A f \in MembershipsOf(u)' : f.seq <= e.seq
    BY <2>2 DEF MembershipsOf
  <2>4. IsLatest(e, u)'
    BY <2>1, <2>3 DEF IsLatest
  <2>5. QED
    BY <1>2, <2>1, <2>4
<1>6. \A t, v : Has(t, v) => Has(t, v)'
  BY <1>3 DEF Has
<1>7. Has(type, u)'
  BY <1>2, <1>3 DEF Has
<1>8. QED
  BY <1>4, <1>5, <1>6, <1>7

\* The membership of a user whose events are the old ones is still right.
LEMMA MembershipKept ==
    ASSUME AccountInv, NEW type \in Types, NEW u \in Users \cup {None}, NEW role \in Roles \cup {None},
           Issue(type, u, role), NEW v \in Users, v # u \/ type \notin MembershipTypes,
           membership'[v] = membership[v]
    PROVE  MembershipIsLatest(v)'
<1>1. MembershipIsLatest(v)
  BY DEF AccountInv
<1>2. /\ Has("organization.deleted", None) => Has("organization.deleted", None)'
      /\ Has("user.deleted", v) => Has("user.deleted", v)'
      /\ MembershipsOf(v)' = MembershipsOf(v)
      /\ \A e \in log : IsLatest(e, v) => e \in log' /\ IsLatest(e, v)'
  BY IssuedLatest
<1>3. QED
  BY <1>1, <1>2 DEF MembershipIsLatest

LEMMA TypesOfEvents ==
    /\ MembershipTypes \subseteq Types /\ Granting \subseteq MembershipTypes
    /\ "organizationMembership.deleted" \in MembershipTypes \ Granting
    /\ {"organization.created", "organization.deleted", "user.created", "user.deleted"}
          \subseteq Types \ MembershipTypes
BY DEF Types, MembershipTypes, Granting

LEMMA ProviderAccountInv == ASSUME AccountInv, Provider PROVE AccountInv'
<1>1. /\ membership \in [Users -> Roles \cup {None}]
      /\ \A u \in Users : u # None
  BY NoneAssumption DEF AccountInv, AccountTypeOK
<1>2. CASE CreateOrganization
  <2>1. Issue("organization.created", None, None) /\ UNCHANGED membership
    BY <1>2 DEF CreateOrganization
  <2>2. \A v \in Users : MembershipIsLatest(v)'
    BY <2>1, TypesOfEvents, MembershipKept
  <2>3. QED
    BY <1>1, <2>1, <2>2, TypesOfEvents, Issued
<1>3. CASE DropOrganization
  <2>1. Issue("organization.deleted", None, None) /\ membership' = [u \in Users |-> None]
    BY <1>3 DEF DropOrganization
  <2>2. Has("organization.deleted", None)'
    BY <2>1, TypesOfEvents, IssuedLatest
  <2>3. \A v \in Users : MembershipIsLatest(v)'
    BY <2>2 DEF MembershipIsLatest
  <2>4. membership' \in [Users -> Roles \cup {None}]
    BY <2>1
  <2>5. QED
    BY <2>1, <2>3, <2>4, TypesOfEvents, Issued
<1>4. ASSUME NEW u \in Users, CreateUser(u) PROVE AccountInv'
  <2>1. Issue("user.created", u, None) /\ UNCHANGED membership
    BY <1>4 DEF CreateUser
  <2>2. \A v \in Users : MembershipIsLatest(v)'
    BY <2>1, TypesOfEvents, MembershipKept
  <2>3. QED
    BY <1>1, <2>1, <2>2, TypesOfEvents, Issued
<1>5. ASSUME NEW u \in Users, DropUser(u) PROVE AccountInv'
  <2>1. Issue("user.deleted", u, None) /\ membership' = [membership EXCEPT ![u] = None]
    BY <1>5 DEF DropUser
  <2>2. Has("user.deleted", u)'
    BY <2>1, TypesOfEvents, IssuedLatest
  <2>3. MembershipIsLatest(u)'
    BY <2>2 DEF MembershipIsLatest
  <2>4. \A v \in Users \ {u} : MembershipIsLatest(v)'
    BY <1>1, <2>1, TypesOfEvents, MembershipKept
  <2>5. membership' \in [Users -> Roles \cup {None}]
    BY <1>1, <2>1
  <2>6. QED
    BY <1>1, <2>1, <2>3, <2>4, <2>5, TypesOfEvents, Issued
<1>6. ASSUME NEW u \in Users, NEW type \in MembershipTypes, NEW role \in Roles,
             Issue(type, u, role), NEW now, membership' = [membership EXCEPT ![u] = now],
             IF type \in Granting THEN now = role ELSE now = None
      PROVE  AccountInv'
  <2>1. PICK e \in log' : e.type = type /\ e.role = role /\ IsLatest(e, u)'
    BY <1>6, TypesOfEvents, IssuedLatest
  <2>2. now \in Roles \cup {None} /\ (now = None <=> type \notin Granting)
    BY <1>6, NoneAssumption
  <2>3. membership'[u] = now /\ membership' \in [Users -> Roles \cup {None}]
    BY <1>1, <1>6, <2>2
  <2>4. MembershipIsLatest(u)'
    BY <1>6, <2>1, <2>2, <2>3 DEF MembershipIsLatest
  <2>5. \A v \in Users \ {u} : MembershipIsLatest(v)'
    BY <1>1, <1>6, TypesOfEvents, MembershipKept
  <2>6. type \notin {"organization.created", "organization.deleted"} /\ type \in Types
    BY TypesOfEvents
  <2>7. QED
    BY <1>1, <1>6, <2>3, <2>4, <2>5, <2>6, Issued
<1>7. ASSUME NEW u \in Users, DropMembership(u) PROVE AccountInv'
  <2>1. membership[u] \in Roles
    BY <1>1, <1>7 DEF DropMembership
  <2>2. QED
    BY <1>6, <1>7, <2>1, TypesOfEvents DEF DropMembership
<1>8. ASSUME NEW u \in Users, NEW role \in Roles, SetMembership(u, role) PROVE AccountInv'
  <2>1. PICK type \in Granting : Issue(type, u, role)
    BY <1>8 DEF SetMembership, Granting
  <2>2. QED
    BY <1>6, <1>8, <2>1, TypesOfEvents DEF SetMembership
<1>9. QED
  BY <1>2, <1>3, <1>4, <1>5, <1>7, <1>8 DEF Provider
-----------------------------------------------------------------------------
(***************************************************************************)
(* Accounts: the webhooks.                                                 *)
(***************************************************************************)

LEMMA EventTypes ==
    ASSUME AccountTypeOK, LogInv, NEW e \in log
    PROVE  /\ e.type \in Types /\ e.role \in Roles \cup {None} /\ e.seq \in 1 .. MaxEvents
           /\ e.type \notin {"organization.created", "organization.deleted"} =>
                 e.user \in Users /\ e.user # None
           /\ e.type \in {"organization.created", "organization.deleted"} => e.user = None
BY NoneAssumption DEF AccountTypeOK, LogInv, Event

\* The log and the provider are as they were.
LEMMA WebhookAccountInv ==
    ASSUME AccountInv, UNCHANGED <<store, log, membership>>, organization' \in Row,
           known' \subseteq Users, members' \in [Users -> Row], checked' \subseteq log,
           processed' \subseteq log, RowsInv'
    PROVE  AccountInv'
<1>1. AccountTypeOK' /\ LogInv'
  BY DEF AccountInv, AccountTypeOK, LogInv
<1>2. \A v \in Users : MembershipIsLatest(v)'
  BY DEF AccountInv, MembershipIsLatest, Has, IsLatest, MembershipsOf
<1>3. QED
  BY <1>1, <1>2 DEF AccountInv

LEMMA MembershipRow ==
    ASSUME AccountTypeOK, LogInv, NEW e \in log, e.type \in MembershipTypes
    PROVE  /\ Stored(e) \in Row /\ Stored(e).seq = e.seq /\ Stored(e).role = e.role
           /\ \/ e.type \in Granting /\ Stored(e).state = "active"
              \/ e.type \in Revoking /\ Stored(e).state = "revoked"
<1>1. e.role \in Roles \cup {None} /\ e.seq \in 1 .. MaxEvents
  BY EventTypes
<1>2. e.seq \in 0 .. MaxEvents
  BY <1>1
<1>3. State(e) \in {None, "active", "revoked"}
  BY DEF State
<1>4. Stored(e) \in Row
  BY <1>1, <1>2, <1>3 DEF Stored, Row
<1>5. QED
  BY <1>4 DEF Stored, State, MembershipTypes, Granting, Revoking

\* A row that an event may write is written by it or by a later one.
LEMMA MembersApplied ==
    ASSUME AccountInv, NEW e \in log, ApplyMembers(e)
    PROVE  /\ members' \in [Users -> Row]
           /\ \A v \in Users : members[v].seq <= members'[v].seq
           /\ e.type \in MembershipTypes => e.seq <= members'[e.user].seq
           /\ \A v \in Users : members'[v] = members[v] \/ Wrote(e, v)'
<1>1. /\ members \in [Users -> Row] /\ AccountTypeOK /\ LogInv
      /\ \A v \in Users : members[v].seq \in Nat
      /\ e.seq \in Nat
  <2>1. \A r \in Row : r.seq \in Nat
    BY MaxEventsAssumption DEF Row
  <2>2. QED
    BY <2>1, EventTypes DEF AccountInv, AccountTypeOK
<1>2. CASE e.user = None \/ ~IsCurrent(members[e.user], e)
  <2>1. members' = members
    BY <1>2 DEF ApplyMembers
  <2>2. e.type \in MembershipTypes => e.user \in Users /\ e.user # None
    BY <1>1, EventTypes, TypesOfEvents
  <2>3. e.type \in MembershipTypes => e.seq <= members'[e.user].seq
    BY <1>1, <1>2, <2>1, <2>2 DEF IsCurrent
  <2>4. QED
    BY <1>1, <2>1, <2>3
<1>3. CASE e.user # None /\ IsCurrent(members[e.user], e) /\ e.type \in MembershipTypes
  <2>1. e.user \in Users
    BY <1>1, <1>3, EventTypes, TypesOfEvents
  <2>2. members' = [members EXCEPT ![e.user] = Stored(e)]
    BY <1>3 DEF ApplyMembers, MembershipTypes
  <2>3. /\ Stored(e) \in Row /\ Stored(e).seq = e.seq /\ Stored(e).role = e.role
        /\ \/ e.type \in Granting /\ Stored(e).state = "active"
           \/ e.type \in Revoking /\ Stored(e).state = "revoked"
    BY <1>1, <1>3, MembershipRow
  <2>4. /\ members' \in [Users -> Row] /\ members'[e.user] = Stored(e)
        /\ \A v \in Users \ {e.user} : members'[v] = members[v]
    BY <1>1, <2>1, <2>2, <2>3
  <2>5. Wrote(e, e.user)'
    BY <2>3, <2>4 DEF Wrote
  <2>6. members[e.user].seq <= members'[e.user].seq
    BY <1>3, <2>3, <2>4 DEF IsCurrent
  <2>7. e.seq <= members'[e.user].seq
    BY <1>1, <2>3, <2>4
  <2>8. QED
    BY <1>1, <2>4, <2>5, <2>6, <2>7
<1>4. CASE e.user # None /\ IsCurrent(members[e.user], e) /\ e.type \notin MembershipTypes
  <2>1. CASE e.type = "user.deleted" /\ members[e.user].state # None
    <3> DEFINE row == [members[e.user] EXCEPT !.state = "revoked", !.seq = e.seq]
    <3>1. e.user \in Users /\ e.seq \in 1 .. MaxEvents
      BY <1>1, <2>1, EventTypes
    <3>2. row \in Row /\ row.seq = e.seq /\ row.state = "revoked"
      <4>1. e.seq \in 0 .. MaxEvents
        BY <3>1
      <4>2. members[e.user] \in Row
        BY <1>1, <3>1
      <4> DEFINE N == 0 .. MaxEvents
      <4>3. Row = [state : {None, "active", "revoked"}, role : Roles \cup {None}, seq : N]
        BY DEF Row
      <4> HIDE DEF N
      <4>4. e.seq \in N
        BY <4>1 DEF N
      <4>5. QED
        BY <4>2, <4>3, <4>4
    <3>3. members' = [members EXCEPT ![e.user] = row]
      <4>1. members' = [members EXCEPT ![e.user].state = "revoked", ![e.user].seq = e.seq]
        BY <1>4, <2>1 DEF ApplyMembers
      <4>2. QED
        BY <1>1, <3>1, <4>1
    <3> HIDE DEF row
    <3>4. /\ members' \in [Users -> Row] /\ members'[e.user] = row
          /\ \A v \in Users \ {e.user} : members'[v] = members[v]
      BY <1>1, <3>1, <3>2, <3>3
    <3>5. Wrote(e, e.user)'
      BY <2>1, <3>2, <3>4 DEF Wrote, Revoking
    <3>6. members[e.user].seq <= members'[e.user].seq
      BY <1>4, <3>2, <3>4 DEF IsCurrent
    <3>7. QED
      BY <1>1, <1>4, <3>4, <3>5, <3>6
  <2>2. CASE ~(e.type = "user.deleted" /\ members[e.user].state # None)
    <3>1. members' = members
      BY <1>4, <2>2 DEF ApplyMembers
    <3>2. QED
      BY <1>1, <1>4, <3>1
  <2>3. QED
    BY <2>1, <2>2
<1>5. QED
  BY <1>2, <1>3, <1>4

\* An organization that was not deleted is active as soon as its creation has
\* been processed, and untouched before.
LEMMA OrganizationApplied ==
    ASSUME AccountInv, NEW e \in log, ApplyOrganization(e)
    PROVE  /\ organization' \in Row
           /\ \/ Has("organization.deleted", None)
              \/ /\ e.type # "organization.deleted"
                 /\ e.type # "organization.created" => organization' = organization
                 /\ e.type = "organization.created" =>
                      /\ organization = NoRow => organization'.state = "active"
                      /\ organization.state = "active" => organization'.state = "active"
<1>1. AccountTypeOK /\ LogInv /\ organization \in Row
  BY DEF AccountInv, AccountTypeOK
<1> DEFINE N == 0 .. MaxEvents
<1>2. /\ Row = [state : {None, "active", "revoked"}, role : Roles \cup {None}, seq : N]
      /\ e.seq \in N
  BY <1>1, EventTypes DEF Row
<1>3. organization = NoRow => IsCurrent(organization, e)
  BY <1>1, EventTypes DEF NoRow, IsCurrent
<1> HIDE DEF N
<1>4. [organization EXCEPT !.seq = e.seq, !.state = "revoked"] \in Row
  BY <1>1, <1>2
<1>5. [organization EXCEPT !.seq = e.seq,
                           !.state = IF organization.state = None THEN "active"
                                     ELSE organization.state] \in Row
  BY <1>1, <1>2
<1>6. e.type = "organization.deleted" => Has("organization.deleted", None)
  BY <1>1, EventTypes DEF Has
<1>7. CASE e.type = "organization.created" /\ IsCurrent(organization, e)
  <2>1. organization' = [organization EXCEPT !.seq = e.seq,
                           !.state = IF organization.state = None THEN "active"
                                     ELSE organization.state]
    BY <1>7 DEF ApplyOrganization
  <2>2. organization'.state = IF organization.state = None THEN "active" ELSE organization.state
    BY <1>1, <1>2, <2>1
  <2>3. QED
    BY <1>5, <1>7, <2>1, <2>2 DEF NoRow
<1>8. CASE e.type = "organization.deleted" /\ IsCurrent(organization, e)
  BY <1>1, <1>4, <1>6, <1>8 DEF ApplyOrganization
<1>9. CASE e.type \notin {"organization.created", "organization.deleted"}
          \/ ~IsCurrent(organization, e)
  BY <1>1, <1>3, <1>6, <1>9 DEF ApplyOrganization
<1>10. QED
  BY <1>7, <1>8, <1>9

LEMMA ApplyWebhookAccountInv ==
    ASSUME AccountInv, NEW e \in log, ApplyWebhook(e)
    PROVE  AccountInv'
<1>1. /\ AccountTypeOK /\ LogInv /\ RowsInv /\ store = "postgres"
      /\ processed \subseteq log /\ checked \subseteq log /\ known \subseteq Users
      /\ \A v \in Users : members[v].seq \in Nat
      /\ \A f \in log : f.seq \in Nat
  <2>1. \A r \in Row : r.seq \in Nat
    BY MaxEventsAssumption DEF Row
  <2>2. QED
    BY <2>1, EventTypes DEF AccountInv, AccountTypeOK, ApplyWebhook
<1>2. /\ processed' = processed \cup {e} /\ log' = log /\ checked' = checked
      /\ store' = store /\ membership' = membership
  BY DEF ApplyWebhook
<1>3. /\ members' \in [Users -> Row]
      /\ \A v \in Users : members[v].seq <= members'[v].seq
      /\ e.type \in MembershipTypes => e.seq <= members'[e.user].seq
      /\ \A v \in Users : members'[v] = members[v] \/ Wrote(e, v)'
  BY MembersApplied DEF ApplyWebhook
<1>4. /\ organization' \in Row
      /\ \/ Has("organization.deleted", None)
         \/ /\ e.type # "organization.deleted"
            /\ e.type # "organization.created" => organization' = organization
            /\ e.type = "organization.created" =>
                 /\ organization = NoRow => organization'.state = "active"
                 /\ organization.state = "active" => organization'.state = "active"
  BY OrganizationApplied DEF ApplyWebhook
<1>5. known' \subseteq Users
  BY <1>1, EventTypes DEF ApplyWebhook
<1>6. ASSUME NEW f \in processed', f.type \in MembershipTypes
      PROVE  f.seq <= members'[f.user].seq
  <2>1. CASE f = e
    BY <1>3, <1>6, <2>1
  <2>2. CASE f \in processed
    <3>1. f.seq <= members[f.user].seq /\ f \in log
      BY <1>1, <1>6, <2>2 DEF RowsInv
    <3>2. f.user \in Users
      BY <1>1, <1>6, <3>1, EventTypes, TypesOfEvents
    <3>3. f.seq \in Nat /\ members[f.user].seq \in Nat /\ members'[f.user].seq \in Nat
      BY <1>1, <1>3, <3>1, <3>2, MaxEventsAssumption DEF Row
    <3>4. members[f.user].seq <= members'[f.user].seq
      BY <1>3, <3>2
    <3>5. QED
      BY <3>1, <3>3, <3>4
  <2>3. QED
    BY <1>2, <1>6, <2>1, <2>2
<1>7. ASSUME NEW v \in Users
      PROVE  members'[v] = NoRow \/ \E f \in processed' : Wrote(f, v)'
  <2>1. CASE Wrote(e, v)'
    BY <1>2, <2>1
  <2>2. CASE members'[v] = members[v]
    <3>1. members[v] = NoRow \/ \E f \in processed : Wrote(f, v)
      BY <1>1 DEF RowsInv
    <3>2. \A f \in processed : Wrote(f, v) => Wrote(f, v)'
      BY <2>2 DEF Wrote
    <3>3. QED
      BY <1>2, <2>2, <3>1, <3>2
  <2>3. QED
    BY <1>3, <2>1, <2>2
<1>8. \/ Has("organization.deleted", None)'
      \/ IF \E f \in processed' : f.type = "organization.created"
         THEN organization'.state = "active" ELSE organization' = NoRow
  <2>1. Has("organization.deleted", None)' <=> Has("organization.deleted", None)
    BY <1>2 DEF Has
  <2>2. \/ Has("organization.deleted", None)
        \/ IF \E f \in processed : f.type = "organization.created"
           THEN organization.state = "active" ELSE organization = NoRow
    BY <1>1 DEF RowsInv
  <2>3. QED
    BY <1>2, <1>4, <2>1, <2>2
<1>9. RowsInv'
  BY <1>1, <1>2, <1>6, <1>7, <1>8 DEF RowsInv
<1>10. QED
  BY <1>1, <1>2, <1>3, <1>4, <1>5, <1>9, WebhookAccountInv

\* The other store keeps its types.
LEMMA D1AccountInv ==
    ASSUME AccountInv,
           \/ \E e \in log : CheckWebhook(e)
           \/ \E e \in checked, again \in BOOLEAN : ApplyClerkWebhook(e, again)
    PROVE  AccountInv'
<1>1. /\ AccountTypeOK /\ LogInv /\ RowsInv
      /\ processed \subseteq log /\ checked \subseteq log /\ known \subseteq Users
      /\ organization \in Row /\ members \in [Users -> Row]
  BY DEF AccountInv, AccountTypeOK
<1>2. ASSUME NEW e \in log, CheckWebhook(e) PROVE AccountInv'
  <2>1. /\ store = "d1" /\ UNCHANGED <<store, log, membership, accountTables, processed>>
        /\ checked' \subseteq log
    BY <1>1, <1>2 DEF CheckWebhook
  <2>2. RowsInv'
    BY <2>1 DEF RowsInv
  <2>3. organization' = organization /\ known' = known /\ members' = members /\ processed' = processed
    BY <2>1 DEF accountTables
  <2>4. QED
    BY <1>1, <2>1, <2>2, <2>3, WebhookAccountInv
<1>3. ASSUME NEW e \in checked, NEW again \in BOOLEAN, ApplyClerkWebhook(e, again)
      PROVE  AccountInv'
  <2>1. /\ store # "postgres" /\ UNCHANGED <<store, log, membership>> /\ e \in log
        /\ checked' \subseteq log /\ processed' \subseteq log
    BY <1>1, <1>3 DEF RowsInv, ApplyClerkWebhook
  <2>2. RowsInv'
    BY <2>1 DEF RowsInv
  <2>3. organization' \in Row
    BY <1>1, <1>3, MaxEventsAssumption DEF ApplyClerkWebhook, NoRow, Row
  <2>4. known' \subseteq Users
    BY <1>1, <1>3, <2>1, EventTypes DEF ApplyClerkWebhook
  <2>5. members' \in [Users -> Row]
    <3>1. e.type \in MembershipTypes => Stored(e) \in Row
      BY <1>1, <2>1, MembershipRow
    <3>2. members' = members \/ (Stored(e) \in Row /\ members' = [members EXCEPT ![e.user] = Stored(e)])
      BY <1>3, <3>1 DEF ApplyClerkWebhook
    <3>3. QED
      BY <1>1, <3>2
  <2>6. QED
    BY <2>1, <2>2, <2>3, <2>4, <2>5, WebhookAccountInv
<1>4. QED
  BY <1>2, <1>3

LEMMA NextAccountInv == ASSUME AccountInv, [AccountNext]_accountVars PROVE AccountInv'
<1>1. CASE UNCHANGED accountVars
  <2>1. UNCHANGED <<store, log, membership, organization, known, members, checked, processed>>
    BY <1>1 DEF accountVars, accountTables
  <2>2. RowsInv'
    BY <2>1 DEF AccountInv, RowsInv, Has, Wrote
  <2>3. QED
    BY <2>1, <2>2, WebhookAccountInv DEF AccountInv, AccountTypeOK
<1>2. QED
  BY <1>1, ProviderAccountInv, ApplyWebhookAccountInv, D1AccountInv DEF AccountNext

LEMMA AccountInvConverges == ASSUME AccountInv PROVE MembershipConverges
<1> SUFFICES ASSUME store = "postgres"
             PROVE  /\ RevocationIsKept
                    /\ processed = log =>
                         \A u \in Users :
                            OrganizationLives /\ ~Has("user.deleted", u) =>
                                /\ MayEnter(u) <=> membership[u] # None
                                /\ MayEnter(u) => members[u].role = membership[u]
  BY DEF MembershipConverges
<1>1. /\ AccountTypeOK /\ LogInv /\ processed \subseteq log
      /\ \A e \in processed : e.type \in MembershipTypes => e.seq <= members[e.user].seq
      /\ \A u \in Users : members[u] = NoRow \/ \E e \in processed : Wrote(e, u)
      /\ \/ Has("organization.deleted", None)
         \/ IF \E e \in processed : e.type = "organization.created"
            THEN organization.state = "active" ELSE organization = NoRow
  BY DEF AccountInv, AccountTypeOK, RowsInv
<1>2. /\ \A e \in log : e.seq \in Nat
      /\ \A e, f \in log : e.seq = f.seq => e = f
  BY <1>1, EventTypes DEF LogInv
<1>3. \A u \in Users : members[u].state = "active" =>
         \E e \in processed : e.type \in Granting /\ Wrote(e, u) /\ e.role = members[u].role
  BY <1>1 DEF Wrote, NoRow, None
<1>4. ASSUME NEW u \in Users, NEW e \in processed,
             e.type = "organizationMembership.deleted", e.user = u,
             \A f \in log : f.user = u => f.seq <= e.seq, MayEnter(u)
      PROVE  FALSE
  <2>1. PICK f \in processed : f.type \in Granting /\ Wrote(f, u)
    BY <1>3, <1>4 DEF MayEnter
  <2>2. f.seq <= e.seq /\ e.seq <= f.seq
    BY <1>1, <1>4, <2>1, TypesOfEvents DEF Wrote
  <2>3. f.seq = e.seq
    BY <1>1, <1>2, <2>2
  <2>4. QED
    BY <1>1, <1>2, <1>4, <2>1, <2>3, TypesOfEvents
<1>5. RevocationIsKept
  BY <1>4 DEF RevocationIsKept
<1>6. ASSUME processed = log, NEW u \in Users, OrganizationLives, ~Has("user.deleted", u)
      PROVE  /\ MayEnter(u) <=> membership[u] # None
             /\ MayEnter(u) => members[u].role = membership[u]
  <2>1. organization.state = "active"
    BY <1>1, <1>6 DEF OrganizationLives, Has
  <2>2. MembershipIsLatest(u) /\ ~Has("organization.deleted", None)
    BY <1>6 DEF AccountInv, OrganizationLives
  <2>3. \A e \in MembershipsOf(u) : e \in processed /\ e.seq <= members[u].seq
    BY <1>1, <1>6 DEF MembershipsOf
  <2>4. ASSUME NEW e \in log, IsLatest(e, u), NEW f \in processed, Wrote(f, u)
        PROVE  f = e
    <3>1. f \in MembershipsOf(u)
      BY <1>1, <1>6, <2>4, TypesOfEvents DEF MembershipsOf, Wrote, Revoking, Has
    <3>2. f.seq <= e.seq /\ e.seq <= f.seq
      BY <2>3, <2>4, <3>1 DEF IsLatest, Wrote
    <3>3. QED
      BY <1>1, <1>2, <2>4, <3>2
  <2>5. CASE membership[u] = None
    <3>1. \A e \in log : IsLatest(e, u) => e.type \notin Granting
      BY <1>6, <2>2, <2>5, <1>2 DEF MembershipIsLatest, IsLatest
    <3>2. members[u].state # "active"
      <4>1. SUFFICES ASSUME members[u].state = "active" PROVE FALSE
        OBVIOUS
      <4>2. PICK f \in processed : f.type \in Granting /\ Wrote(f, u)
        BY <1>3, <4>1
      <4>3. f \in MembershipsOf(u)
        BY <1>1, <4>2, TypesOfEvents DEF MembershipsOf, Wrote
      <4>4. PICK e \in log : IsLatest(e, u) /\ e.type \notin Granting
        BY <2>2, <1>6, <2>5, <4>3 DEF MembershipIsLatest
      <4>5. QED
        BY <2>4, <4>2, <4>4
    <3>3. QED
      BY <2>5, <3>2 DEF MayEnter
  <2>6. CASE membership[u] # None
    <3>1. PICK e \in log : IsLatest(e, u) /\ e.type \in Granting /\ e.role = membership[u]
      BY <1>6, <2>2, <2>6 DEF MembershipIsLatest
    <3>2. members[u] # NoRow
      <4>1. e \in MembershipsOf(u) /\ e.seq \in 1 .. MaxEvents
        BY <1>1, <3>1, EventTypes DEF IsLatest
      <4>2. e.seq <= members[u].seq /\ e.seq > 0
        BY <2>3, <4>1
      <4>3. QED
        BY <4>1, <4>2 DEF NoRow
    <3>3. PICK f \in processed : Wrote(f, u)
      BY <1>1, <3>2
    <3>4. f = e
      BY <2>4, <3>1, <3>3
    <3>5. members[u].state = "active" /\ members[u].role = membership[u]
      BY <3>1, <3>3, <3>4 DEF Wrote, Granting, Revoking
    <3>6. QED
      BY <2>1, <2>6, <3>5 DEF MayEnter
  <2>7. QED
    BY <2>5, <2>6
<1>7. QED
  BY <1>5, <1>6

\* On Postgres no redelivered or late event lets a removed user in again, and
\* when every event has been processed, in any order and however often, the
\* table is the provider's.
THEOREM MembershipsConverge == AccountSpec => []MembershipConverges
BY InitAccountInv, NextAccountInv, AccountInvConverges, PTL DEF AccountSpec
=============================================================================
