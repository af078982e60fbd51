------------------------------ MODULE MCJobQueue ------------------------------
(* JobQueue on a small instance: two jobs over a folder and an episode, one *)
(* credential.  The requests cover the classes the code distinguishes: a    *)
(* unique idempotent type, an idempotent type and a cloud job.              *)
EXTENDS JobQueue

CONSTANTS folder, episode, cred, j1, j2

MCEntities == {folder, episode}

Scan  == [type |-> "watched_folder_scan", entity |-> folder, provider |-> "none"]
Hash  == [type |-> "hash", entity |-> episode, provider |-> "none"]
Cloud == [type |-> "analyze", entity |-> episode, provider |-> "openai"]

MCRequests == {Scan, Hash, Cloud}
=============================================================================
