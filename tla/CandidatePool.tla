---------------------------- MODULE CandidatePool ----------------------------
(***************************************************************************)
(* The Candidates of one Episode, their review, their copy, and the Shorts *)
(* made of them (repository.ts, service.ts).  Each operation is one        *)
(* transaction; a client shows the revision it has read.                   *)
(*                                                                         *)
(* A window is a place on a line and conflicts with its neighbours, as     *)
(* windows that overlap do: of three in a row the outer two do not.        *)
(* Refused calls change nothing and are left out.                          *)
(***************************************************************************)
EXTENDS Integers, Sequences, FiniteSets, SequencesExt

CONSTANTS Places,          \* a range of integers
          MaxRows,          \* bounds: rows of the table,
          MaxReviews        \* and revisions of a row

ASSUME PoolAssumption ==
    /\ Places \subseteq Int /\ IsFiniteSet(Places)
    /\ MaxRows \in Nat /\ MaxReviews \in Nat \ {0}

VARIABLES pool,             \* the candidates, by identity, as rows of the table
          shorts,           \* the Shorts made: candidate and state of the copy
          shown             \* what a client has on its screen: an identity and its row

poolVars == <<pool, shorts, shown>>

NothingShown == [id |-> 0]

\* The accepted content package is a row of analysis_artifacts.
CandidateRow(w) == [window |-> w, status |-> "pending", copy |-> "proposed",
           state |-> "active", revision |-> 1]

PoolInit == pool = <<>> /\ shorts = {} /\ shown = NothingShown

\* candidatesConflict
conflicting(v, w) == v - w \in -1..1

Distinct(S) == \A v, w \in S : conflicting(v, w) => v = w

\* generateCandidates proposes windows that do not conflict (Candidates).
Proposals == {S \in SUBSET Places : Distinct(S)}

InUse(id)  == pool[id].state = "active"
Decided(id) == pool[id].status # "pending" \/ pool[id].copy = "accepted"

InUseIds == {id \in DOMAIN pool : InUse(id)}

\* Mutant: what may be superseded is read from the review only.
RetainedReviewed(strategy) ==
    {id \in InUseIds : pool[id].status # "pending" \/ strategy = "append_pending"}

\* retainedDecisions, and retainedPending when the generation appends.
Retained(strategy) == {id \in InUseIds : Decided(id) \/ strategy = "append_pending"}

Superseded(id, strategy) ==
    IF id \in InUseIds \ Retained(strategy)
    THEN [pool[id] EXCEPT !.state = "superseded", !.revision = @ + 1]
    ELSE pool[id]

\* The rows of a generation are inserted in the order of its proposals.
InOrder(S) == CHOOSE s \in SetToSeqs(S) : \A i, j \in DOMAIN s : i < j => s[i] < s[j]

\* saveCandidateGeneration
Generate(strategy, proposals) ==
    LET novel == {w \in proposals :
                    \A id \in Retained(strategy) : ~conflicting(pool[id].window, w)}
    IN  /\ Len(pool) + Cardinality(novel) <= MaxRows
        /\ pool' = [id \in DOMAIN pool |-> Superseded(id, strategy)]
                     \o [i \in 1..Cardinality(novel) |-> CandidateRow(InOrder(novel)[i])]
        /\ UNCHANGED <<shorts, shown>>

\* The test every mutation begins with: the revision of the screen is the row's.
ExpectedCandidate(id) ==
    shown.id = id /\ shown.row.revision = pool[id].revision /\ pool[id].revision < MaxReviews

reviewCandidate(id, status) ==
    /\ ExpectedCandidate(id) /\ InUse(id)
    /\ pool' = [pool EXCEPT ![id].status = status, ![id].revision = @ + 1]
    /\ UNCHANGED <<shorts, shown>>

acceptCandidateContentPackage(id) ==
    /\ ExpectedCandidate(id) /\ InUse(id)
    /\ pool' = [pool EXCEPT ![id].copy = "accepted", ![id].revision = @ + 1]
    /\ UNCHANGED <<shorts, shown>>

\* It takes no expected revision.  (A missing source refuses it.)
createShortOf(id) ==
    /\ InUse(id) /\ pool[id].status = "approved"
    /\ shorts' = shorts \cup {[candidate |-> id, copy |-> pool[id].copy]}
    /\ UNCHANGED <<pool, shown>>

\* getCandidate, listCandidates
Show(id) ==
    /\ shown' = [id |-> id, row |-> pool[id]]
    /\ UNCHANGED <<pool, shorts>>

PoolNext ==
    \/ \E strategy \in {"replace_pending", "append_pending"}, proposals \in Proposals :
          Generate(strategy, proposals)
    \/ \E id \in DOMAIN pool :
          \/ Show(id)
          \/ \E status \in {"approved", "rejected"} : reviewCandidate(id, status)
          \/ acceptCandidateContentPackage(id)
          \/ createShortOf(id)

PoolSpec == PoolInit /\ [][PoolNext]_poolVars
-----------------------------------------------------------------------------
(***************************************************************************)
(* No two active candidates conflict, whichever generations and decisions  *)
(* brought them together; what a person decided is not superseded, and was *)
(* decided on what the screen showed: a revision names one row.            *)
(***************************************************************************)
PoolKeepsDecisions ==
    /\ \A i, j \in InUseIds : conflicting(pool[i].window, pool[j].window) => i = j
    /\ \A id \in DOMAIN pool : Decided(id) => InUse(id)
    /\ \A s \in shorts : s.candidate \in InUseIds
    /\ shown.id \in DOMAIN pool /\ shown.row.revision = pool[shown.id].revision
         => shown.row = pool[shown.id]
==============================================================================
