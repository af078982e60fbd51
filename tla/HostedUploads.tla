---------------------------- MODULE HostedUploads ----------------------------
(***************************************************************************)
(* Multipart uploads of the hosted API: sessions, the objects they fill,   *)
(* the storage quota they reserve, and the ingest job a completed session  *)
(* leaves in the outbox of HostedJobs.                                     *)
(*                                                                         *)
(* Sources: createUpload, completeUpload and abortUpload of service.ts,    *)
(* the upload and usage repositories of both adapters, and r2.ts.          *)
(*                                                                         *)
(* Calls run concurrently and interleave at every await; an action is the  *)
(* stretch between two awaits or one transaction of the database.  Files   *)
(* carry a size only.  There is one usage period.  The evidence that       *)
(* completeMultipartUpload returns is read back from the session, so the   *)
(* comparison of checksums in completeUpload cannot fail and is left out.  *)
(***************************************************************************)
EXTENDS HostedJobs, FiniteSetsExt

CONSTANTS
    Uploads,
    Calls,              \* concurrent calls of the API
    Bytes,              \* expectedBytes, by upload
    StorageByteLimit    \* of the organization's subscription

ASSUME BytesAssumption ==
    /\ Bytes \in [Uploads -> Nat \ {0}]
    /\ StorageByteLimit \in Nat
    /\ Nobody \notin Uploads
    /\ IsFiniteSet(Uploads) /\ IsFiniteSet(Calls) /\ Calls # {}

VARIABLES
    uploads,    \* the upload_sessions table
    answered,      \* the uploads whose createUpload answered a client
    objects,    \* the multipart uploads and objects of the bucket
    ledger,     \* the usage_ledger_entries table
    reserved,   \* storage_bytes_reserved of the usage period
    inputs,     \* payload.uploadId of the jobs
    calls

uploadTables == <<uploads, answered, ledger, reserved, inputs>>
uploadVars   == <<uploads, answered, objects, ledger, reserved, inputs, calls>>

UploadStates == {"absent", "open", "completing", "complete", "aborted"}
ObjectStates == {"none", "multipart", "assembled", "gone"}
CallPhases ==
    {"admitted", "checked", "reserved", "opened", "releasing",
     "found", "completing", "assembled", "aborting", "cleared"}

Call     == [phase : CallPhases, upload : Uploads, project : Projects]
NoCall   == [phase |-> "idle", upload |-> Nobody, project |-> Nobody]
Session  == [state : UploadStates \ {"absent"}, project : Projects]
NoUpload == [state |-> "absent", project |-> Nobody]

UploadInit ==
    /\ uploads = [u \in Uploads |-> NoUpload]
    /\ answered = {}
    /\ objects = [u \in Uploads |-> "none"]
    /\ ledger = [u \in Uploads |-> {}]
    /\ reserved = 0
    /\ inputs = [j \in Jobs |-> Nobody]
    /\ calls = [c \in Calls |-> NoCall]

CallAt(c, phase) == calls[c].phase = phase
Goto(c, phase)   == calls' = [calls EXCEPT ![c].phase = phase]
Ends(c)          == calls' = [calls EXCEPT ![c] = NoCall]
Begins(c, phase, u, p) ==
    /\ CallAt(c, "idle")
    /\ calls' = [calls EXCEPT ![c] = [phase |-> phase, upload |-> u, project |-> p]]

Active(p) == projects[p] = "active"
-----------------------------------------------------------------------------
(***************************************************************************)
(* createUpload.                                                           *)
(***************************************************************************)

\* The id is fresh; the project and the subscription have been looked up.
CreateUpload(c, u, p) ==
    /\ uploads[u].state = "absent" /\ ledger[u] = {}
    /\ \A d \in Calls : calls[d].upload # u
    /\ Active(p)
    /\ Begins(c, "admitted", u, p)
    /\ UNCHANGED <<jobVars, uploadTables, objects>>

\* Mutant: the request itself is not counted.
CheckQuotaWithoutRequest(c) ==
    /\ CallAt(c, "admitted")
    /\ IF reserved > StorageByteLimit THEN Ends(c) ELSE Goto(c, "checked")
    /\ UNCHANGED <<jobVars, uploadTables, objects>>

\* storageBytesUsed is written nowhere and stays 0.
CheckQuota(c) ==
    /\ CallAt(c, "admitted")
    /\ IF reserved + Bytes[calls[c].upload] > StorageByteLimit
       THEN Ends(c) ELSE Goto(c, "checked")
    /\ UNCHANGED <<jobVars, uploadTables, objects>>

ReserveUpload(c) ==
    /\ CallAt(c, "checked")
    /\ LET u == calls[c].upload
       IN  /\ ledger' = [ledger EXCEPT ![u] = @ \cup {"reserve"}]
           /\ reserved' = IF "reserve" \in ledger[u] THEN reserved ELSE reserved + Bytes[u]
    /\ Goto(c, "reserved")
    /\ UNCHANGED <<jobVars, uploads, answered, objects, inputs>>

CreateMultipartUpload(c) ==
    /\ CallAt(c, "reserved")
    /\ objects' = [objects EXCEPT ![calls[c].upload] = "multipart"]
    /\ Goto(c, "opened")
    /\ UNCHANGED <<jobVars, uploadTables>>

\* Of a request whose answer is lost the upload stays in the bucket.
CreateMultipartUploadFails(c) ==
    /\ CallAt(c, "reserved")
    /\ \/ UNCHANGED objects
       \/ objects' = [objects EXCEPT ![calls[c].upload] = "multipart"]
    /\ Goto(c, "releasing")
    /\ UNCHANGED <<jobVars, uploadTables>>

\* The statement selects the project, and inserts nothing if it is deleted.
Inserted(c) ==
    LET p == calls[c].project
    IN  /\ Active(p)
        /\ uploads' = [uploads EXCEPT ![calls[c].upload] = [state |-> "open", project |-> p]]

\* Only the answer names the session to a client: no route lists sessions.
InsertSession(c) ==
    /\ CallAt(c, "opened")
    /\ Inserted(c)
    /\ answered' = answered \cup {calls[c].upload}
    /\ Ends(c)
    /\ UNCHANGED <<jobVars, objects, ledger, reserved, inputs>>

\* Nothing was inserted, or the answer of the database was lost.
InsertSessionFails(c) ==
    /\ CallAt(c, "opened")
    /\ Inserted(c) \/ UNCHANGED uploads
    /\ Goto(c, "releasing")
    /\ UNCHANGED <<jobVars, answered, objects, ledger, reserved, inputs>>

\* The catch of createUpload, and the end of abortUpload.
ReleaseUpload(c) ==
    /\ CallAt(c, "releasing")
    /\ LET u == calls[c].upload
       IN  /\ ledger' = [ledger EXCEPT ![u] = IF "reserve" \in @ THEN @ \cup {"release"} ELSE @]
           /\ reserved' = IF ledger[u] = {"reserve"}
                          THEN IF reserved > Bytes[u] THEN reserved - Bytes[u] ELSE 0
                          ELSE reserved
    /\ Ends(c)
    /\ UNCHANGED <<jobVars, uploads, answered, objects, inputs>>
-----------------------------------------------------------------------------
(***************************************************************************)
(* completeUpload and abortUpload.                                         *)
(***************************************************************************)

\* getOpenUpload; a session that expired stays open and is refused here.
GetOpenUpload(c, u, phase) ==
    /\ u \in answered
    /\ uploads[u].state = "open"
    /\ Active(uploads[u].project)
    /\ Begins(c, phase, u, uploads[u].project)
    /\ UNCHANGED <<jobVars, uploadTables, objects>>

\* Mutant: the update does not compare the state.
TransitionUnchecked(c, from) ==
    Active(uploads[calls[c].upload].project)

Transition(c, from) ==
    /\ uploads[calls[c].upload].state = from
    /\ Active(uploads[calls[c].upload].project)

\* transition: INVALID_STATE ends the call.
SetUpload(c, from, to, phase) ==
    /\ IF Transition(c, from)
       THEN /\ uploads' = [uploads EXCEPT ![calls[c].upload].state = to]
            /\ Goto(c, phase)
       ELSE UNCHANGED uploads /\ Ends(c)
    /\ UNCHANGED <<jobVars, answered, objects, ledger, reserved, inputs>>

BeginCompleting(c) ==
    CallAt(c, "found") /\ SetUpload(c, "open", "completing", "completing")

\* The parts may be incomplete, or the multipart upload gone.
CompleteMultipartUpload(c) ==
    /\ CallAt(c, "completing")
    /\ objects[calls[c].upload] = "multipart"
    /\ objects' = [objects EXCEPT ![calls[c].upload] = "assembled"]
    /\ Goto(c, "assembled")
    /\ UNCHANGED <<jobVars, uploadTables>>

CompleteMultipartUploadFails(c) ==
    /\ CallAt(c, "completing")
    /\ Ends(c)
    /\ UNCHANGED <<jobVars, uploadTables, objects>>

\* Only the Postgres update joins the project.
CompleteWithOutbox(c, j) ==
    /\ CallAt(c, "assembled")
    /\ LET u == calls[c].upload
       IN  IF /\ uploads[u].state = "completing"
              /\ adapter = "postgres" => Active(uploads[u].project)
           THEN /\ uploads' = [uploads EXCEPT ![u].state = "complete"]
                /\ InsertJobAndOutbox(j, uploads[u].project)
                /\ inputs' = [inputs EXCEPT ![j] = u]
           ELSE UNCHANGED <<uploads, inputs, jobs, outbox>>
    /\ Ends(c)
    /\ UNCHANGED <<adapter, projects, sending, queue, workers, faults>>
    /\ UNCHANGED <<answered, objects, ledger, reserved>>

\* The bucket drops the parts; of an assembled object it drops nothing.
AbortMultipartUpload(c) ==
    /\ CallAt(c, "aborting")
    /\ objects' = [objects EXCEPT ![calls[c].upload] = IF @ = "multipart" THEN "gone" ELSE @]
    /\ Goto(c, "cleared")
    /\ UNCHANGED <<jobVars, uploadTables>>

AbortMultipartUploadFails(c) ==
    /\ CallAt(c, "aborting")
    /\ Ends(c)
    /\ UNCHANGED <<jobVars, uploadTables, objects>>

\* Mutant: the reservation is given back whether or not the session was open.
AbortedRegardless(c) ==
    /\ CallAt(c, "cleared")
    /\ uploads' = IF Transition(c, "open")
                  THEN [uploads EXCEPT ![calls[c].upload].state = "aborted"] ELSE uploads
    /\ Goto(c, "releasing")
    /\ UNCHANGED <<jobVars, answered, objects, ledger, reserved, inputs>>

Aborted(c) ==
    CallAt(c, "cleared") /\ SetUpload(c, "open", "aborted", "releasing")

\* The API process dies.
LoseCall(c) ==
    /\ ~CallAt(c, "idle")
    /\ Fault
    /\ Ends(c)
    /\ UNCHANGED <<adapter, projects, jobs, outbox, sending, queue, workers>>
    /\ UNCHANGED <<uploadTables, objects>>

UploadStep ==
    \/ \E c \in Calls, u \in Uploads :
          \/ \E p \in Projects : CreateUpload(c, u, p)
          \/ \E phase \in {"found", "aborting"} : GetOpenUpload(c, u, phase)
    \/ \E c \in Calls :
          \/ CheckQuota(c)
          \/ ReserveUpload(c)
          \/ CreateMultipartUpload(c) \/ CreateMultipartUploadFails(c)
          \/ InsertSession(c) \/ InsertSessionFails(c)
          \/ ReleaseUpload(c)
          \/ BeginCompleting(c)
          \/ CompleteMultipartUpload(c) \/ CompleteMultipartUploadFails(c)
          \/ \E j \in Jobs : CompleteWithOutbox(c, j)
          \/ AbortMultipartUpload(c) \/ AbortMultipartUploadFails(c)
          \/ Aborted(c)
          \/ LoseCall(c)

UploadNext ==
    \/ UploadStep
    \/ /\ \/ JobStep
          \/ \E p \in Projects, current \in BOOLEAN : DeleteProject(p, current)
       /\ UNCHANGED uploadVars

UploadSpec == JobInit /\ UploadInit /\ [][UploadNext]_<<jobVars, uploadVars>>
-----------------------------------------------------------------------------
UploadTypeOK ==
    /\ uploads \in [Uploads -> Session \cup {NoUpload}]
    /\ answered \subseteq Uploads
    /\ objects \in [Uploads -> ObjectStates]
    /\ ledger \in [Uploads -> SUBSET {"reserve", "release"}]
    /\ reserved \in Nat
    /\ inputs \in [Jobs -> Uploads \cup {Nobody}]
    /\ calls \in [Calls -> Call \cup {NoCall}]

Charged == {u \in Uploads : ledger[u] = {"reserve"}}

\* The bytes that are reserved, each named by its upload and its place in it.
Held == UNION {{u} \X (1 .. Bytes[u]) : u \in Charged}

\* The sessions that can still lead to a stored source: those on their way,
\* and the open ones that a client can name.
Live == {u \in Uploads : \/ uploads[u].state \in {"completing", "complete"}
                         \/ uploads[u].state = "open" /\ u \in answered}

\* Every session that can still lead to a stored source keeps its reservation,
\* and the counter of the period is the sum of the reservations not given
\* back: an abort that loses the race with a completion releases nothing.  A
\* session whose INSERT was committed without an answer is not one of them:
\* createUpload gives its reservation back, and the row stays open for ever
\* without one, but no client learns its id and so none can complete it.
SessionsHoldReservations ==
    /\ Live \subseteq Charged
    /\ reserved = Cardinality(Held)

\* A session is complete exactly if one ingest job reads it, and then its
\* object has been assembled.
IngestIffComplete ==
    \A u \in Uploads :
        LET readers == {j \in Submitted : inputs[j] = u}
        IN  IF uploads[u].state = "complete"
            THEN Cardinality(readers) = 1 /\ objects[u] = "assembled"
            ELSE readers = {}

\* The check of the quota and the reservation are separate transactions: the
\* limit can be overdrawn, but only by what the other calls had under way.
OverdraftIsBounded ==
    reserved <= StorageByteLimit
                + (Cardinality(Calls) - 1) * Max({Bytes[u] : u \in Uploads} \cup {0})
=============================================================================
