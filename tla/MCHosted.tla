------------------------------- MODULE MCHosted -------------------------------
(***************************************************************************)
(* The hosted system for TLC.  A behaviour exercises one part of it, which *)
(* Init chooses; the variables of the others keep their initial values.    *)
(***************************************************************************)
EXTENDS HostedUploads, HostedAccounts, ResumableUpload

CONSTANTS OneCall, OneUpload    \* the only ones of the part "whole"

VARIABLE part

hostedVars == <<part, jobVars, uploadVars, accountVars, clientVars>>

HostedInit ==
    /\ JobInit /\ UploadInit /\ AccountInit /\ ClientInit
    /\ part \in {"jobs", "uploads", "whole", "accounts", "client"}
    /\ part \in {"accounts", "client"} => adapter = "d1"
    /\ part # "accounts" => store = "d1"

Bytes1 == [u \in Uploads |-> 1]

Deletion == \E p \in Projects, current \in BOOLEAN : DeleteProject(p, current)

HostedNext ==
    /\ UNCHANGED part
    /\ \/ /\ part = "jobs"
          /\ JobNext
          /\ UNCHANGED <<uploadVars, accountVars, clientVars>>
       \/ /\ part = "uploads"
          /\ UploadStep \/ (Deletion /\ UNCHANGED uploadVars)
          /\ faults' <= 1
          /\ UNCHANGED <<accountVars, clientVars>>
       \/ /\ part = "whole"
          /\ UploadNext
          /\ \A c \in Calls : calls'[c].phase # "idle" => c = OneCall /\ calls'[c].upload = OneUpload
          /\ UNCHANGED <<accountVars, clientVars>>
       \/ /\ part = "accounts"
          /\ AccountNext
          /\ UNCHANGED <<jobVars, uploadVars, clientVars>>
       \/ /\ part = "client"
          /\ ClientNext
          /\ UNCHANGED <<jobVars, uploadVars, accountVars>>

HostedSpec == HostedInit /\ [][HostedNext]_hostedVars /\ JobFairness

\* One part only, with workers that go on.
CancellationSpec == HostedInit /\ part = "jobs" /\ [][HostedNext]_hostedVars
                    /\ JobFairness /\ WorkerFairness

HostedTypeOK == JobTypeOK /\ UploadTypeOK /\ AccountTypeOK /\ ClientTypeOK
=============================================================================
