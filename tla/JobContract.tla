----------------------------- MODULE JobContract -----------------------------
(***************************************************************************)
(* What a client that holds a job id may rely on, whatever the job does:   *)
(* the abstract specification of a durable job, without runner, database,  *)
(* crash or recovery.  JobQueue (every job but renders) and                *)
(* RenderLifecycle (render jobs) are both checked to implement it.         *)
(*                                                                         *)
(* A job is created queued with a budget of executions.  An execution      *)
(* starts only while the job is not cancelled and the budget is not spent; *)
(* an interrupted one may put the job back in the queue on the same terms. *)
(* The job settles once, for good, and the verdict is "cancelled" exactly  *)
(* when a cancellation was requested before it settled.                    *)
(***************************************************************************)
EXTENDS Naturals

CONSTANTS
    Jobs,           \* job identifiers
    MaxBudget       \* largest number of executions any job may be given

VARIABLE job        \* job[j]: what the job table shows about j

Active   == {"queued", "running"}
Verdicts == {"succeeded", "failed", "cancelled"}

Row == [state  : {"absent"} \cup Active \cup Verdicts,
        cancel : BOOLEAN,           \* a cancellation was requested
        runs   : 0 .. MaxBudget,    \* executions started so far
        budget : 0 .. MaxBudget]    \* executions it may ever have

Absent == [state |-> "absent", cancel |-> FALSE, runs |-> 0, budget |-> 0]

Created(a, b) ==
    /\ a = Absent
    /\ b.state = "queued" /\ ~b.cancel /\ b.runs = 0 /\ b.budget > 0

Started(a, b) ==
    /\ a.state = "queued" /\ ~a.cancel /\ a.runs < a.budget
    /\ b.state = "running" /\ b.runs = a.runs + 1
    /\ b.cancel = a.cancel /\ b.budget = a.budget

\* An interrupted execution gives the job back to the queue.
Requeued(a, b) ==
    /\ a.state = "running" /\ ~a.cancel /\ a.runs < a.budget
    /\ b.state = "queued"
    /\ b.cancel = a.cancel /\ b.runs = a.runs /\ b.budget = a.budget

\* A running job notices the request later; until then only the flag shows.
CancelRequested(a, b) ==
    /\ a.state = "running"
    /\ b.state = "running" /\ b.cancel
    /\ b.runs = a.runs /\ b.budget = a.budget

Settled(a, b) ==
    /\ a.state \in Active
    /\ b.state \in Verdicts
    /\ b.runs = a.runs /\ b.budget = a.budget
    /\ a.cancel => b.cancel
    /\ b.cancel <=> b.state = "cancelled"

Step(a, b) ==
    \/ Created(a, b)
    \/ Started(a, b)
    \/ Requeued(a, b)
    \/ CancelRequested(a, b)
    \/ Settled(a, b)

Init == job = [j \in Jobs |-> Absent]

\* One step of an implementation may move several jobs (a recovery does).
Next ==
    /\ job' \in [Jobs -> Row]
    /\ \A j \in Jobs : job'[j] = job[j] \/ Step(job[j], job'[j])

Spec == Init /\ [][Next]_job
=============================================================================
