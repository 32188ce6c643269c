----------------------------- MODULE MCSyncJobs -----------------------------
(* SyncJobs for TLC: two peers. *)
EXTENDS SyncJobs

=============================================================================
