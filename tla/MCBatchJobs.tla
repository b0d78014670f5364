---------------------------- MODULE MCBatchJobs ----------------------------
(* A small instance of BatchJobs for TLC: uploads of one length. *)
EXTENDS BatchJobs

CONSTANT LinesPerUpload

MCLines == [f \in Uploads |-> LinesPerUpload]
=============================================================================
