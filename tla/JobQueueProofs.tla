---------------------------- MODULE JobQueueProofs ----------------------------
(***************************************************************************)
(* Proofs about JobQueue, for any jobs, requests, entities, credentials    *)
(* and any number of crashes and shutdowns.                                *)
(*                                                                         *)
(* The invariants of JobQueue are not inductive: that a verdict honours a  *)
(* cancellation needs that a queued job was never cancelled, the bound on  *)
(* executions needs that a queued job has one left, and both need to know  *)
(* that only an analysis is ever sent to the cloud.  IInv adds these.      *)
(***************************************************************************)
EXTENDS JobQueue, FiniteSetTheorems, TLAPS

\* No handler outlives its process.
NoOrphanHandler == ~Serving => running = None

\* What a row says while its job waits, runs, or is not there.
RowInv ==
    \A j \in Jobs :
        /\ IsCloud(jobs[j]) => jobs[j].type = "analyze"
        /\ jobs[j].state = "absent" => jobs[j] = NoRow
        /\ jobs[j].state = "queued" =>
              ~jobs[j].cancelRequested /\ jobs[j].attempts < Budget(jobs[j])

IInv ==
    /\ TypeOK
    /\ NoOrphanHandler
    /\ RowInv
    /\ RunningJobIsDriven
    /\ VerdictHonoursCancel
    /\ BoundedExecutions
    /\ OneActivePerTarget
-----------------------------------------------------------------------------
\* The constants' assumptions, under one name.
LEMMA Constants ==
    /\ IsFiniteSet(Jobs)
    /\ None \notin Jobs
    /\ \A req \in Requests :
          /\ req.type \in Types /\ req.entity \in Entities /\ req.provider \in Providers
          /\ req.provider = "openai" => req.type = "analyze"
    /\ MaxCrashes \in Nat /\ MaxRestarts \in Nat
BY JobsAssumption, NoneAssumption, RequestsAssumption, CloudAssumption, BoundsAssumption

\* The creation order of the next job is a number, since jobs are finitely many.
LEMMA CreatedAtIsNat == Cardinality({k \in Jobs : Exists(k)}) \in Nat
<1>1. IsFiniteSet({k \in Jobs : Exists(k)})
  BY Constants, FS_Subset
<1>2. QED
  BY <1>1, FS_CardinalityType

\* Every job may run once, and none more than three times.
LEMMA BudgetType == ASSUME NEW row PROVE Budget(row) \in {1, MaxAttempts}
BY DEF Budget

LEMMA InitIInv == Init => IInv
<1> SUFFICES ASSUME Init PROVE IInv
  OBVIOUS
<1>1. TypeOK
  BY Constants DEF Init, TypeOK, Row, NoRow, States, Types, IdempotentTypes, Providers
<1>2. NoOrphanHandler
  BY DEF Init, NoOrphanHandler
<1>3. RowInv
  BY DEF Init, RowInv, NoRow, IsCloud
<1>4. RunningJobIsDriven
  BY Constants DEF Init, RunningJobIsDriven, NoRow
<1>5. VerdictHonoursCancel
  BY DEF Init, VerdictHonoursCancel, NoRow, Terminal
<1>6. BoundedExecutions
  BY DEF Init, BoundedExecutions, NoRow, Budget, MaxAttempts, SafeToRetry, IsCloud
<1>7. OneActivePerTarget
  BY DEF Init, OneActivePerTarget, NoRow, IsActive, Active
<1>8. QED
  BY <1>1, <1>2, <1>3, <1>4, <1>5, <1>6, <1>7 DEF IInv

\* A new row: it has executions left, and no twin if its type is unique.
LEMMA InsertStep ==
    ASSUME IInv, Serving,
           NEW j \in Jobs, NEW req \in Requests, NEW c \in Credentials \cup {None},
           Insert(j, req, c),
           req.type \in UniqueTypes => ActiveTwins(req) = {}
    PROVE  IInv'
<1> DEFINE new == [state |-> "queued", type |-> req.type, entity |-> req.entity,
                   provider |-> req.provider, credential |-> c,
                   cancelRequested |-> FALSE, attempts |-> 0,
                   createdAt |-> Cardinality({k \in Jobs : Exists(k)})]
<1>1. /\ jobs \in [Jobs -> Row] /\ jobs' = [jobs EXCEPT ![j] = new]
      /\ jobs[j].state = "absent"
      /\ UNCHANGED <<running, mode, grants, handles, crashes, restarts>>
  BY DEF Insert, IInv, TypeOK, Exists
<1>2. new \in Row
  BY Constants, CreatedAtIsNat DEF Row, States
<1>3. /\ new.state = "queued" /\ new.type = req.type /\ new.entity = req.entity
      /\ new.provider = req.provider /\ ~new.cancelRequested /\ new.attempts = 0
  OBVIOUS
<1> HIDE DEF new
<1>4. jobs'[j] = new /\ \A k \in Jobs \ {j} : jobs'[k] = jobs[k]
  BY <1>1
<1>5. TypeOK'
  BY <1>1, <1>2 DEF IInv, TypeOK
<1>6. NoOrphanHandler'
  BY <1>1 DEF IInv, NoOrphanHandler, Serving
<1>7. Budget(new) \in Nat /\ Budget(new) > 0
  BY BudgetType DEF MaxAttempts
<1>8. RowInv'
  BY <1>3, <1>4, <1>7, Constants DEF IInv, RowInv, IsCloud
<1>9. RunningJobIsDriven'
  BY <1>1, <1>3, <1>4 DEF IInv, RunningJobIsDriven, Serving
<1>10. VerdictHonoursCancel'
  BY <1>3, <1>4 DEF IInv, VerdictHonoursCancel, Terminal
<1>11. BoundedExecutions'
  BY <1>3, <1>4, <1>7 DEF IInv, BoundedExecutions
<1>12. OneActivePerTarget'
  <2> SUFFICES ASSUME NEW k \in Jobs, NEW l \in Jobs,
                      IsActive(k)', IsActive(l)',
                      jobs'[k].type \in UniqueTypes,
                      jobs'[l].type = jobs'[k].type, jobs'[l].entity = jobs'[k].entity
               PROVE  k = l
    BY DEF OneActivePerTarget
  <2>1. CASE k = j /\ l # j
    BY <2>1, <1>3, <1>4 DEF ActiveTwins, IsActive
  <2>2. CASE k # j /\ l = j
    BY <2>2, <1>3, <1>4 DEF ActiveTwins, IsActive
  <2>3. CASE k # j /\ l # j
    BY <2>3, <1>4 DEF IInv, OneActivePerTarget, IsActive
  <2>4. QED
    BY <2>1, <2>2, <2>3
<1>13. QED
  BY <1>5, <1>6, <1>8, <1>9, <1>10, <1>11, <1>12 DEF IInv
-----------------------------------------------------------------------------
\* The budget of a job depends on nothing a step changes.
LEMMA BudgetKept ==
    ASSUME NEW a, NEW b, a.type = b.type, a.provider = b.provider
    PROVE  Budget(a) = Budget(b)
BY DEF Budget, SafeToRetry, IsCloud

\* A step that keeps the targets and activates no job adds no twin.
LEMMA TwinsKept ==
    ASSUME OneActivePerTarget,
           \A j \in Jobs : /\ jobs'[j].type = jobs[j].type
                           /\ jobs'[j].entity = jobs[j].entity
                           /\ jobs'[j].state \in Active => jobs[j].state \in Active
    PROVE  OneActivePerTarget'
BY DEF OneActivePerTarget, IsActive

\* One row moves to another state, for the same target and within its budget.
LEMMA MoveStep ==
    ASSUME IInv,
           NEW j \in Jobs, NEW new \in Row,
           jobs' = [jobs EXCEPT ![j] = new],
           jobs[j].state \in Active, new.state # "absent", new.state # "queued",
           new.type = jobs[j].type, new.entity = jobs[j].entity,
           new.provider = jobs[j].provider,
           new.attempts <= Budget(jobs[j]),
           new.state \in Terminal => (new.cancelRequested <=> new.state = "cancelled"),
           new.state = "running" => running \in {None, j} /\ running' = j,
           new.state # "running" =>
               running' = IF jobs[j].state = "running" THEN None ELSE running,
           Serving, UNCHANGED <<mode, grants, handles, crashes, restarts>>
    PROVE  IInv'
<1>1. jobs'[j] = new /\ \A k \in Jobs \ {j} : jobs'[k] = jobs[k]
  BY DEF IInv, TypeOK
<1>2. Budget(new) = Budget(jobs[j]) /\ Budget(new) \in {1, MaxAttempts}
  BY BudgetKept, BudgetType
<1>3. TypeOK'
  BY DEF IInv, TypeOK
<1>4. NoOrphanHandler'
  BY DEF NoOrphanHandler, Serving
<1>5. RowInv'
  BY <1>1 DEF IInv, RowInv, IsCloud
<1>6. RunningJobIsDriven'
  <2>1. mode' # "closed"
    BY DEF Serving
  <2>2. ASSUME NEW k \in Jobs PROVE (jobs'[k].state = "running") <=> (k = running')
    <3>1. CASE k = j
      BY <3>1, <1>1, Constants DEF IInv, RunningJobIsDriven
    <3>2. CASE k # j
      BY <3>2, <1>1, Constants DEF IInv, RunningJobIsDriven
    <3>3. QED
      BY <3>1, <3>2
  <2>3. QED
    BY <2>1, <2>2 DEF RunningJobIsDriven
<1>7. VerdictHonoursCancel'
  BY <1>1 DEF IInv, VerdictHonoursCancel
<1>8. BoundedExecutions'
  BY <1>1, <1>2 DEF IInv, BoundedExecutions
<1>9. OneActivePerTarget'
  BY <1>1, TwinsKept DEF IInv
<1>10. QED
  BY <1>3, <1>4, <1>5, <1>6, <1>7, <1>8, <1>9 DEF IInv

LEMMA CancelStep == ASSUME IInv, NEW j \in Jobs, Cancel(j) PROVE IInv'
<1> DEFINE new == [jobs[j] EXCEPT !.cancelRequested = TRUE,
                     !.state = IF jobs[j].state = "queued" THEN "cancelled" ELSE "running"]
<1>1. /\ jobs' = [jobs EXCEPT ![j] = new] /\ jobs[j] \in Row
      /\ jobs[j].state \in Active /\ Serving
      /\ UNCHANGED <<running, mode, grants, handles, crashes, restarts>>
  BY DEF Cancel, IInv, TypeOK, IsActive
<1>2. /\ new \in Row
      /\ new.state = IF jobs[j].state = "queued" THEN "cancelled" ELSE "running"
      /\ new.cancelRequested
      /\ new.type = jobs[j].type /\ new.entity = jobs[j].entity
      /\ new.provider = jobs[j].provider /\ new.attempts = jobs[j].attempts
  BY <1>1 DEF Row, States
<1> HIDE DEF new
<1>3. new.attempts <= Budget(jobs[j])
  BY <1>2 DEF IInv, BoundedExecutions
<1>4. /\ jobs[j].state = "running" => running = j
      /\ jobs[j].state = "queued" => running # j
  BY <1>1 DEF IInv, RunningJobIsDriven
<1>5. QED
  BY <1>1, <1>2, <1>3, <1>4, MoveStep DEF Active, Terminal

LEMMA ClaimStep == ASSUME IInv, NEW j \in Jobs, Claim(j) PROVE IInv'
<1> DEFINE new == [jobs[j] EXCEPT !.state = "running", !.attempts = @ + 1]
<1>1. /\ jobs' = [jobs EXCEPT ![j] = new] /\ jobs[j] \in Row
      /\ jobs[j].state = "queued" /\ running = None /\ running' = j /\ Serving
      /\ UNCHANGED <<mode, grants, handles, crashes, restarts>>
  BY DEF Claim, Idle, Oldest, Claimable, Serving, IInv, TypeOK
<1>2. jobs[j].attempts \in Nat /\ jobs[j].attempts < Budget(jobs[j])
  BY <1>1 DEF IInv, RowInv, Row
<1>3. /\ new \in Row /\ new.state = "running"
      /\ new.type = jobs[j].type /\ new.entity = jobs[j].entity
      /\ new.provider = jobs[j].provider /\ new.attempts = jobs[j].attempts + 1
  <2>1. jobs[j].attempts + 1 \in Nat
    BY <1>2
  <2>2. QED
    BY <1>1, <2>1 DEF Row, States
<1> HIDE DEF new
<1>4. new.attempts <= Budget(jobs[j])
  BY <1>2, <1>3, BudgetType DEF MaxAttempts
<1>5. QED
  BY <1>1, <1>3, <1>4, MoveStep DEF Active, Terminal

LEMMA RefuseStep == ASSUME IInv, NEW j \in Jobs, RefuseCloud(j) PROVE IInv'
<1> DEFINE new == [jobs[j] EXCEPT !.state = "failed"]
<1>1. /\ jobs' = [jobs EXCEPT ![j] = new] /\ jobs[j] \in Row
      /\ jobs[j].state = "queued" /\ ~jobs[j].cancelRequested
      /\ running = None /\ running' = None /\ Serving
      /\ UNCHANGED <<mode, grants, handles, crashes, restarts>>
  BY DEF RefuseCloud, Idle, Oldest, Claimable, Serving, IInv, TypeOK
<1>2. /\ new \in Row /\ new.state = "failed" /\ ~new.cancelRequested
      /\ new.type = jobs[j].type /\ new.entity = jobs[j].entity
      /\ new.provider = jobs[j].provider /\ new.attempts = jobs[j].attempts
  BY <1>1 DEF Row, States
<1> HIDE DEF new
<1>3. new.attempts <= Budget(jobs[j])
  BY <1>2 DEF IInv, BoundedExecutions
<1>4. QED
  BY <1>1, <1>2, <1>3, MoveStep DEF Active, Terminal

LEMMA SettleStep ==
    ASSUME IInv, NEW settled \in {"returned", "threw"}, HandlerSettles(settled)
    PROVE  IInv'
<1> DEFINE new == [jobs[running] EXCEPT !.state = Verdict(running, settled)]
<1>1. /\ running \in Jobs /\ running' = None /\ Serving
      /\ jobs' = [jobs EXCEPT ![running] = new] /\ jobs[running] \in Row
      /\ UNCHANGED <<mode, grants, handles, crashes, restarts>>
  BY DEF HandlerSettles, IInv, TypeOK
<1>2. jobs[running].state = "running"
  BY <1>1 DEF IInv, RunningJobIsDriven
<1>3. /\ Verdict(running, settled) \in Terminal
      /\ jobs[running].cancelRequested <=> Verdict(running, settled) = "cancelled"
  BY <1>2 DEF Verdict, Terminal
<1>4. /\ new \in Row /\ new.state = Verdict(running, settled)
      /\ new.cancelRequested = jobs[running].cancelRequested
      /\ new.type = jobs[running].type /\ new.entity = jobs[running].entity
      /\ new.provider = jobs[running].provider /\ new.attempts = jobs[running].attempts
  BY <1>1, <1>3 DEF Row, States, Terminal
<1> HIDE DEF new
<1>5. new.attempts <= Budget(jobs[running])
  BY <1>1, <1>4 DEF IInv, BoundedExecutions
<1>6. QED
  BY <1>1, <1>2, <1>3, <1>4, <1>5, MoveStep DEF Active, Terminal
-----------------------------------------------------------------------------
\* Steps that leave every job, and the handler, as they are.
LEMMA JobsKept ==
    ASSUME IInv, UNCHANGED <<jobs, running>>, TypeOK',
           Serving, mode' \notin {"up", "stopping"} => running = None
    PROVE  IInv'
<1>1. NoOrphanHandler' /\ RowInv'
  BY DEF IInv, NoOrphanHandler, RowInv, Serving, IsCloud
<1>2. RunningJobIsDriven'
  BY Constants DEF IInv, RunningJobIsDriven, Serving
<1>3. VerdictHonoursCancel' /\ BoundedExecutions' /\ OneActivePerTarget'
  BY DEF IInv, VerdictHonoursCancel, BoundedExecutions, OneActivePerTarget, IsActive
<1>4. QED
  BY <1>1, <1>2, <1>3 DEF IInv

LEMMA AuthorizationStep ==
    ASSUME IInv,
           \/ \E e \in Entities, c \in Credentials : GrantCloudAuthorization(e, c)
           \/ \E e \in Entities : RevokeCloudAuthorization(e)
           \/ \E c \in Credentials : RemoveCredentialHandle(c)
           \/ \E cs \in SUBSET Credentials : SynchronizeCredentialHandles(cs)
    PROVE  IInv'
<1>1. Serving /\ UNCHANGED <<jobs, running, mode, crashes, restarts>>
  BY DEF GrantCloudAuthorization, RevokeCloudAuthorization,
         RemoveCredentialHandle, SynchronizeCredentialHandles
<1>2. /\ grants' \in [Entities -> Credentials \cup {None}]
      /\ handles' \in SUBSET Credentials
  <2>1. CASE \E e \in Entities, c \in Credentials : GrantCloudAuthorization(e, c)
    BY <2>1 DEF GrantCloudAuthorization, IInv, TypeOK
  <2>2. CASE \E e \in Entities : RevokeCloudAuthorization(e)
    BY <2>2 DEF RevokeCloudAuthorization, IInv, TypeOK
  <2>3. CASE \E c \in Credentials : RemoveCredentialHandle(c)
    BY <2>3 DEF RemoveCredentialHandle, IInv, TypeOK
  <2>4. CASE \E cs \in SUBSET Credentials : SynchronizeCredentialHandles(cs)
    BY <2>4 DEF SynchronizeCredentialHandles, IInv, TypeOK
  <2>5. QED
    BY <2>1, <2>2, <2>3, <2>4
<1>3. TypeOK'
  BY <1>1, <1>2 DEF IInv, TypeOK
<1>4. QED
  BY <1>1, <1>3, JobsKept DEF Serving

LEMMA StopStep == ASSUME IInv, Stop PROVE IInv'
<1>1. TypeOK'
  BY Constants DEF Stop, IInv, TypeOK
<1>2. QED
  BY <1>1, JobsKept DEF Stop, Serving

LEMMA CloseStep == ASSUME IInv, CloseDatabase PROVE IInv'
<1>1. TypeOK'
  BY DEF CloseDatabase, IInv, TypeOK
<1>2. QED
  BY <1>1, JobsKept DEF CloseDatabase, Serving

\* After a crash nothing is claimed of the running rows: Restart repairs them.
LEMMA CrashStep == ASSUME IInv, Crash PROVE IInv'
<1>1. TypeOK'
  BY Constants DEF Crash, IInv, TypeOK, Serving
<1>2. NoOrphanHandler' /\ RowInv'
  BY DEF Crash, IInv, NoOrphanHandler, RowInv, IsCloud
<1>3. RunningJobIsDriven'
  BY DEF Crash, RunningJobIsDriven, Serving
<1>4. VerdictHonoursCancel' /\ BoundedExecutions' /\ OneActivePerTarget'
  BY DEF Crash, IInv, VerdictHonoursCancel, BoundedExecutions, OneActivePerTarget, IsActive
<1>5. QED
  BY <1>1, <1>2, <1>3, <1>4 DEF IInv

\* Recovery decides on each interrupted row by itself.
LEMMA RestartStep == ASSUME IInv, Restart PROVE IInv'
<1> DEFINE new(j) == [jobs[j] EXCEPT !.state = RecoveredState(jobs[j])]
<1>1. /\ jobs' = [j \in Jobs |-> new(j)] /\ running = None /\ running' = None
      /\ mode' = "up" /\ handles' = {} /\ UNCHANGED <<grants, crashes, restarts>>
  BY DEF Restart, IInv, NoOrphanHandler, Serving
<1>2. ASSUME NEW j \in Jobs
      PROVE  /\ new(j) \in Row
             /\ new(j).state = RecoveredState(jobs[j])
             /\ new(j).type = jobs[j].type /\ new(j).entity = jobs[j].entity
             /\ new(j).provider = jobs[j].provider
             /\ new(j).attempts = jobs[j].attempts
             /\ new(j).cancelRequested = jobs[j].cancelRequested
             /\ new(j).state = "absent" => new(j) = jobs[j]
  <2>1. jobs[j] \in Row
    BY DEF IInv, TypeOK
  <2>2. RecoveredState(jobs[j]) \in States
    BY <2>1 DEF RecoveredState, Row, States
  <2>3. RecoveredState(jobs[j]) = "absent" => jobs[j].state = "absent"
    BY DEF RecoveredState
  <2>4. QED
    BY <2>1, <2>2, <2>3 DEF Row
<1> HIDE DEF new
<1>3. \A j \in Jobs : jobs'[j] = new(j)
  BY <1>1
<1>4. ASSUME NEW j \in Jobs PROVE Budget(jobs'[j]) = Budget(jobs[j])
  BY <1>2, <1>3, BudgetKept
<1>5. TypeOK'
  BY <1>1, <1>2 DEF IInv, TypeOK
<1>6. NoOrphanHandler'
  BY <1>1 DEF NoOrphanHandler
<1>7. RowInv'
  <2> SUFFICES ASSUME NEW j \in Jobs
               PROVE  /\ IsCloud(jobs'[j]) => jobs'[j].type = "analyze"
                      /\ jobs'[j].state = "absent" => jobs'[j] = NoRow
                      /\ jobs'[j].state = "queued" =>
                            /\ ~jobs'[j].cancelRequested
                            /\ jobs'[j].attempts < Budget(jobs'[j])
    BY DEF RowInv
  <2>1. IsCloud(jobs'[j]) => jobs'[j].type = "analyze"
    BY <1>2, <1>3 DEF IInv, RowInv, IsCloud
  <2>2. jobs'[j].state = "absent" => jobs'[j] = NoRow
    BY <1>2, <1>3 DEF IInv, RowInv
  <2>3. ASSUME jobs'[j].state = "queued"
        PROVE  ~jobs'[j].cancelRequested /\ jobs'[j].attempts < Budget(jobs'[j])
    <3>1. RecoveredState(jobs[j]) = "queued"
      BY <2>3, <1>2, <1>3
    <3>2. CASE jobs[j].state = "queued"
      BY <3>2, <1>2, <1>3, <1>4 DEF IInv, RowInv
    <3>3. CASE jobs[j].state # "queued"
      <4>1. /\ ~jobs[j].cancelRequested
            /\ SafeToRetry(jobs[j]) /\ jobs[j].attempts < MaxAttempts
        BY <3>1, <3>3 DEF RecoveredState
      <4>2. ~IsCloud(jobs[j])
        BY <4>1 DEF SafeToRetry, IsCloud, IInv, RowInv, IdempotentTypes
      <4>3. QED
        BY <4>1, <4>2, <1>2, <1>3, <1>4 DEF Budget
    <3>4. QED
      BY <3>2, <3>3
  <2>4. QED
    BY <2>1, <2>2, <2>3
<1>8. ASSUME NEW j \in Jobs PROVE jobs'[j].state # "running"
  BY <1>2, <1>3 DEF RecoveredState
<1>9. RunningJobIsDriven'
  BY <1>1, <1>8, Constants DEF RunningJobIsDriven
<1>10. VerdictHonoursCancel'
  BY <1>2, <1>3 DEF IInv, VerdictHonoursCancel, RowInv, RecoveredState, Terminal
<1>11. BoundedExecutions'
  BY <1>2, <1>3, <1>4 DEF IInv, BoundedExecutions
<1>12. OneActivePerTarget'
  BY <1>2, <1>3, TwinsKept DEF IInv, RecoveredState, Active
<1>13. QED
  BY <1>5, <1>6, <1>7, <1>9, <1>10, <1>11, <1>12 DEF IInv
-----------------------------------------------------------------------------
\* A new job, in its three forms.
LEMMA EnqueueStep ==
    ASSUME IInv, NEW j \in Jobs, NEW req \in Requests,
           Enqueue(j, req) \/ EnqueueCloud(j, req) \/ EnqueueUnique(j, req)
    PROVE  IInv'
<1>1. CASE Enqueue(j, req)
  BY <1>1, InsertStep DEF Enqueue
<1>2. CASE EnqueueCloud(j, req)
  <2>1. grants[req.entity] \in Credentials \cup {None}
    BY Constants DEF IInv, TypeOK
  <2>2. req.type \notin UniqueTypes
    BY <1>2, Constants DEF EnqueueCloud, UniqueTypes
  <2>3. QED
    BY <1>2, <2>1, <2>2, InsertStep DEF EnqueueCloud
<1>3. CASE EnqueueUnique(j, req)
  BY <1>3, InsertStep DEF EnqueueUnique
<1>4. QED
  BY <1>1, <1>2, <1>3

LEMMA NextIInv == ASSUME IInv, [Next]_vars PROVE IInv'
<1>1. ASSUME NEW j \in Jobs, NEW req \in Requests,
             Enqueue(j, req) \/ EnqueueCloud(j, req) \/ EnqueueUnique(j, req)
      PROVE  IInv'
  BY <1>1, EnqueueStep
<1>2. ASSUME NEW j \in Jobs, Cancel(j) PROVE IInv'
  BY <1>2, CancelStep
<1>3. ASSUME NEW j \in Jobs, Claim(j) PROVE IInv'
  BY <1>3, ClaimStep
<1>4. ASSUME NEW j \in Jobs, RefuseCloud(j) PROVE IInv'
  BY <1>4, RefuseStep
<1>5. CASE HandlerReturns \/ HandlerThrows
  BY <1>5, SettleStep DEF HandlerReturns, HandlerThrows
<1>6. CASE Stop
  BY <1>6, StopStep
<1>7. CASE CloseDatabase
  BY <1>7, CloseStep
<1>8. CASE Crash
  BY <1>8, CrashStep
<1>9. CASE Restart
  BY <1>9, RestartStep
<1>10. CASE UNCHANGED vars
  <2>1. TypeOK'
    BY <1>10 DEF vars, IInv, TypeOK
  <2>2. NoOrphanHandler' /\ RowInv' /\ RunningJobIsDriven'
    BY <1>10 DEF vars, IInv, NoOrphanHandler, RowInv, RunningJobIsDriven, Serving
  <2>3. VerdictHonoursCancel' /\ BoundedExecutions' /\ OneActivePerTarget'
    BY <1>10 DEF vars, IInv, VerdictHonoursCancel, BoundedExecutions,
                 OneActivePerTarget, IsActive
  <2>4. QED
    BY <2>1, <2>2, <2>3 DEF IInv
<1>11. QED
  BY <1>1, <1>2, <1>3, <1>4, <1>5, <1>6, <1>7, <1>8, <1>9, <1>10, AuthorizationStep
     DEF Next

THEOREM Invariance == Spec => []IInv
BY InitIInv, NextIInv, PTL DEF Spec

\* Every row of the table, and every variable beside it, keeps its type.
THEOREM TypeCorrect == Spec => []TypeOK
BY Invariance, PTL DEF IInv

\* A job the table shows as running is the one the runner awaits, and none is
\* left running by an orderly shutdown (JobRunner.tick, stop; recoverJobs).
THEOREM RunningIsDriven == Spec => []RunningJobIsDriven
BY Invariance, PTL DEF IInv

\* An accepted cancellation decides the verdict, through handlers, crashes and
\* recoveries (JobQueue.cancel, JobRunner.tick, recoverJobs).
THEOREM CancelIsHonoured == Spec => []VerdictHonoursCancel
BY Invariance, PTL DEF IInv

\* No job runs more often than is safe, a cloud analysis never twice, however
\* often the process dies (claimNext, recoverJobs).
THEOREM ExecutionsAreBounded == Spec => []BoundedExecutions
BY Invariance, PTL DEF IInv

\* At most one scan of a folder and one reconciliation is active
\* (enqueueUnique, recoverJobs).
THEOREM TargetsAreUnique == Spec => []OneActivePerTarget
BY Invariance, PTL DEF IInv
-----------------------------------------------------------------------------
(***************************************************************************)
(* JobQueue implements JobContract: each row makes, in every step, a step  *)
(* of the contract or none.                                                *)
(***************************************************************************)
Advances(a, b) == a = b \/ Contract!Step(Seen(a), Seen(b))

LEMMA SeenType == ASSUME IInv, NEW j \in Jobs PROVE Seen(jobs[j]) \in Contract!Row
<1>1. jobs[j] \in Row /\ jobs[j].attempts <= Budget(jobs[j])
  BY DEF IInv, TypeOK, BoundedExecutions
<1>2. Budget(jobs[j]) \in {1, MaxAttempts}
  BY BudgetType
<1>3. jobs[j].attempts \in 0 .. MaxAttempts
  BY <1>1, <1>2 DEF Row, MaxAttempts
<1>4. (IF jobs[j].state = "absent" THEN 0 ELSE Budget(jobs[j])) \in 0 .. MaxAttempts
  BY <1>2 DEF MaxAttempts
<1>5. QED
  BY <1>1, <1>3, <1>4 DEF Seen, Contract!Row, Contract!Active, Contract!Verdicts, Row, States

LEMMA InsertAdvances ==
    ASSUME IInv, NEW j \in Jobs, NEW req \in Requests, NEW c \in Credentials \cup {None},
           Insert(j, req, c)
    PROVE  \A k \in Jobs : Advances(jobs[k], jobs'[k])
<1>1. jobs[j] = NoRow /\ jobs \in [Jobs -> Row]
  BY DEF Insert, Exists, IInv, RowInv, TypeOK
<1>2. /\ jobs'[j].state = "queued" /\ ~jobs'[j].cancelRequested /\ jobs'[j].attempts = 0
      /\ \A k \in Jobs \ {j} : jobs'[k] = jobs[k]
  BY <1>1 DEF Insert
<1>3. Budget(jobs'[j]) \in {1, MaxAttempts}
  BY BudgetType
<1>4. Contract!Created(Seen(jobs[j]), Seen(jobs'[j]))
  BY <1>1, <1>2, <1>3 DEF Contract!Created, Contract!Absent, Seen, NoRow, MaxAttempts
<1>5. QED
  BY <1>2, <1>4 DEF Advances, Contract!Step

\* A row that changes its state, request and attempts only.
LEMMA MovedRow ==
    ASSUME NEW a, NEW b, a.state # "absent", b.state # "absent",
           a.type = b.type, a.provider = b.provider
    PROVE  Seen(b) = [state |-> b.state, cancel |-> b.cancelRequested,
                      runs |-> b.attempts, budget |-> Seen(a).budget]
BY BudgetKept DEF Seen

LEMMA CancelAdvances ==
    ASSUME IInv, NEW j \in Jobs, Cancel(j)
    PROVE  \A k \in Jobs : Advances(jobs[k], jobs'[k])
<1>1. jobs[j] \in Row /\ jobs[j].state \in Active /\ \A k \in Jobs \ {j} : jobs'[k] = jobs[k]
  BY DEF Cancel, IInv, TypeOK, IsActive
<1>2. jobs'[j] = [jobs[j] EXCEPT !.cancelRequested = TRUE,
                    !.state = IF jobs[j].state = "queued" THEN "cancelled" ELSE "running"]
  BY DEF Cancel, IInv, TypeOK
<1>3. CASE jobs[j].state = "queued"
  <2>1. Contract!Settled(Seen(jobs[j]), Seen(jobs'[j]))
    BY <1>1, <1>2, <1>3, MovedRow
       DEF Contract!Settled, Contract!Active, Contract!Verdicts, Seen, Row
  <2>2. QED
    BY <1>1, <2>1 DEF Advances, Contract!Step
<1>4. CASE jobs[j].state = "running"
  <2>1. /\ jobs'[j].state = "running" /\ jobs'[j].cancelRequested
        /\ jobs'[j].attempts = jobs[j].attempts
        /\ jobs'[j].type = jobs[j].type /\ jobs'[j].provider = jobs[j].provider
    BY <1>1, <1>2, <1>4 DEF Row
  <2>2. Seen(jobs[j]) = [state |-> "running", cancel |-> jobs[j].cancelRequested,
                         runs |-> jobs[j].attempts, budget |-> Budget(jobs[j])]
    BY <1>4 DEF Seen
  <2>3. Seen(jobs'[j]) = [state |-> "running", cancel |-> TRUE,
                          runs |-> jobs[j].attempts, budget |-> Budget(jobs[j])]
    BY <1>4, <2>1, BudgetKept DEF Seen
  <2>4. Contract!CancelRequested(Seen(jobs[j]), Seen(jobs'[j]))
    BY <2>2, <2>3 DEF Contract!CancelRequested
  <2>5. QED
    BY <1>1, <2>4 DEF Advances, Contract!Step
<1>5. QED
  BY <1>1, <1>3, <1>4 DEF Active

LEMMA ClaimAdvances ==
    ASSUME IInv, NEW j \in Jobs, Claim(j)
    PROVE  \A k \in Jobs : Advances(jobs[k], jobs'[k])
<1>1. /\ jobs[j] \in Row /\ jobs[j].state = "queued" /\ ~jobs[j].cancelRequested
      /\ jobs[j].attempts \in Nat /\ jobs[j].attempts < Budget(jobs[j])
      /\ \A k \in Jobs \ {j} : jobs'[k] = jobs[k]
  BY DEF Claim, Oldest, Claimable, IInv, TypeOK, RowInv, Row
<1>2. jobs'[j] = [jobs[j] EXCEPT !.state = "running", !.attempts = @ + 1]
  BY DEF Claim, IInv, TypeOK
<1>3. /\ jobs'[j].state = "running" /\ jobs'[j].cancelRequested = jobs[j].cancelRequested
      /\ jobs'[j].attempts = jobs[j].attempts + 1
      /\ jobs'[j].type = jobs[j].type /\ jobs'[j].provider = jobs[j].provider
  BY <1>1, <1>2 DEF Row
<1>4. Seen(jobs[j]) = [state |-> "queued", cancel |-> jobs[j].cancelRequested,
                       runs |-> jobs[j].attempts, budget |-> Budget(jobs[j])]
  BY <1>1 DEF Seen
<1>5. Seen(jobs'[j]) = [state |-> "running", cancel |-> jobs[j].cancelRequested,
                        runs |-> jobs[j].attempts + 1, budget |-> Budget(jobs[j])]
  BY <1>1, <1>3, BudgetKept DEF Seen
<1>6. Contract!Started(Seen(jobs[j]), Seen(jobs'[j]))
  BY <1>1, <1>4, <1>5 DEF Contract!Started
<1>7. QED
  BY <1>1, <1>6 DEF Advances, Contract!Step

\* A row that takes a verdict the cancellation request agrees with.
LEMMA SettledRow ==
    ASSUME NEW a \in Row, NEW state \in Terminal, a.state \in Active,
           a.cancelRequested <=> state = "cancelled"
    PROVE  Advances(a, [a EXCEPT !.state = state])
<1> DEFINE b == [a EXCEPT !.state = state]
<1>1. /\ b.state = state /\ b.cancelRequested = a.cancelRequested
      /\ b.attempts = a.attempts /\ b.type = a.type /\ b.provider = a.provider
  BY DEF Row
<1> HIDE DEF b
<1>2. Seen(b).budget = Seen(a).budget
  BY <1>1, MovedRow DEF Active, Terminal
<1>3. Contract!Settled(Seen(a), Seen(b))
  BY <1>1, <1>2
     DEF Contract!Settled, Contract!Active, Contract!Verdicts, Seen, Active, Terminal
<1>4. Advances(a, b)
  BY <1>3 DEF Advances, Contract!Step
<1>5. QED
  BY <1>4 DEF b

LEMMA RefuseAdvances ==
    ASSUME IInv, NEW j \in Jobs, RefuseCloud(j)
    PROVE  \A k \in Jobs : Advances(jobs[k], jobs'[k])
<1>1. /\ jobs[j] \in Row /\ jobs[j].state = "queued" /\ ~jobs[j].cancelRequested
      /\ \A k \in Jobs \ {j} : jobs'[k] = jobs[k]
      /\ jobs'[j] = [jobs[j] EXCEPT !.state = "failed"]
  BY DEF RefuseCloud, Oldest, Claimable, IInv, TypeOK
<1>2. Advances(jobs[j], jobs'[j])
  BY <1>1, SettledRow DEF Active, Terminal
<1>3. QED
  BY <1>1, <1>2 DEF Advances

LEMMA SettleAdvances ==
    ASSUME IInv, NEW settled \in {"returned", "threw"}, HandlerSettles(settled)
    PROVE  \A k \in Jobs : Advances(jobs[k], jobs'[k])
<1>1. running \in Jobs /\ jobs[running] \in Row /\ jobs[running].state = "running"
  BY DEF HandlerSettles, IInv, TypeOK, RunningJobIsDriven
<1>2. /\ \A k \in Jobs \ {running} : jobs'[k] = jobs[k]
      /\ jobs'[running] = [jobs[running] EXCEPT !.state = Verdict(running, settled)]
  BY <1>1 DEF HandlerSettles, IInv, TypeOK
<1>3. /\ Verdict(running, settled) \in Terminal
      /\ jobs[running].cancelRequested <=> Verdict(running, settled) = "cancelled"
  BY <1>1 DEF Verdict, Terminal
<1>4. Advances(jobs[running], jobs'[running])
  BY <1>1, <1>2, <1>3, SettledRow DEF Active
<1>5. QED
  BY <1>2, <1>4 DEF Advances

LEMMA RestartAdvances ==
    ASSUME IInv, Restart
    PROVE  \A k \in Jobs : Advances(jobs[k], jobs'[k])
<1> SUFFICES ASSUME NEW k \in Jobs PROVE Advances(jobs[k], jobs'[k])
  OBVIOUS
<1>1. /\ jobs[k] \in Row /\ jobs'[k] = [jobs[k] EXCEPT !.state = RecoveredState(jobs[k])]
  BY DEF Restart, IInv, TypeOK
<1>2. CASE jobs[k].state # "running"
  <2>1. jobs'[k] = jobs[k]
    BY <1>1, <1>2 DEF RecoveredState, Row
  <2>2. QED
    BY <2>1 DEF Advances
<1>3. CASE jobs[k].state = "running" /\ RecoveredState(jobs[k]) = "queued"
  <2>1. /\ ~jobs[k].cancelRequested /\ SafeToRetry(jobs[k])
        /\ jobs[k].attempts < MaxAttempts
    BY <1>3 DEF RecoveredState
  <2>2. Budget(jobs[k]) = MaxAttempts
    BY <2>1 DEF Budget, SafeToRetry, IsCloud, IInv, RowInv, IdempotentTypes
  <2>3. Contract!Requeued(Seen(jobs[k]), Seen(jobs'[k]))
    BY <1>1, <1>3, <2>1, <2>2, MovedRow DEF Contract!Requeued, Seen, Row
  <2>4. QED
    BY <2>3 DEF Advances, Contract!Step
<1>4. CASE jobs[k].state = "running" /\ RecoveredState(jobs[k]) # "queued"
  <2>1. /\ RecoveredState(jobs[k]) \in Terminal
        /\ jobs[k].cancelRequested <=> RecoveredState(jobs[k]) = "cancelled"
    BY <1>4 DEF RecoveredState, Terminal
  <2>2. QED
    BY <1>1, <1>4, <2>1, SettledRow DEF Active
<1>5. QED
  BY <1>2, <1>3, <1>4

\* One lemma per action that writes a row; the others keep the table.
LEMMA NextAdvances ==
    ASSUME IInv, [Next]_vars
    PROVE  \A k \in Jobs : Advances(jobs[k], jobs'[k])
<1>1. ASSUME NEW j \in Jobs, NEW req \in Requests,
             Enqueue(j, req) \/ EnqueueCloud(j, req) \/ EnqueueUnique(j, req)
      PROVE  \A k \in Jobs : Advances(jobs[k], jobs'[k])
  <2>1. grants[req.entity] \in Credentials \cup {None}
    BY Constants DEF IInv, TypeOK
  <2>2. QED
    BY <1>1, <2>1, InsertAdvances DEF Enqueue, EnqueueCloud, EnqueueUnique
<1>2. ASSUME NEW j \in Jobs, Cancel(j) PROVE \A k \in Jobs : Advances(jobs[k], jobs'[k])
  BY <1>2, CancelAdvances
<1>3. ASSUME NEW j \in Jobs, Claim(j) PROVE \A k \in Jobs : Advances(jobs[k], jobs'[k])
  BY <1>3, ClaimAdvances
<1>4. ASSUME NEW j \in Jobs, RefuseCloud(j)
      PROVE \A k \in Jobs : Advances(jobs[k], jobs'[k])
  BY <1>4, RefuseAdvances
<1>5. CASE HandlerReturns \/ HandlerThrows
  BY <1>5, SettleAdvances DEF HandlerReturns, HandlerThrows
<1>6. CASE Restart
  BY <1>6, RestartAdvances
<1>7. CASE UNCHANGED jobs
  BY <1>7 DEF Advances
<1>8. QED
  BY <1>1, <1>2, <1>3, <1>4, <1>5, <1>6, <1>7
     DEF Next, vars, Stop, CloseDatabase, Crash, GrantCloudAuthorization,
         RevokeCloudAuthorization, RemoveCredentialHandle, SynchronizeCredentialHandles

\* Every job is a job of JobContract, whatever the clients, the operator and the
\* crashes do (JobQueue, JobRunner, recoverJobs).
THEOREM JobsFollowTheContract == Spec => ImplementsContract
<1>1. Init => Contract!Init
  BY DEF Init, Contract!Init, Contract!Absent, Seen, NoRow
<1>2. ASSUME IInv, (\A j \in Jobs : Seen(jobs[j]) \in Contract!Row)', [Next]_vars
      PROVE  [Contract!Next]_[j \in Jobs |-> Seen(jobs[j])]
  <2> DEFINE job == [j \in Jobs |-> Seen(jobs[j])]
  <2>1. job' \in [Jobs -> Contract!Row]
    BY <1>2
  <2>2. \A j \in Jobs : job'[j] = job[j] \/ Contract!Step(job[j], job'[j])
    BY <1>2, NextAdvances DEF Advances
  <2>3. QED
    BY <2>1, <2>2 DEF Contract!Next
<1>3. IInv => \A j \in Jobs : Seen(jobs[j]) \in Contract!Row
  BY SeenType
<1>4. QED
  BY <1>1, <1>2, <1>3, Invariance, PTL DEF Spec, ImplementsContract, Contract!Spec
=============================================================================
