--------------------------- MODULE MCArchiveJobs ----------------------------
(* Constants for the runs of ArchiveJobs. *)
EXTENDS ArchiveJobs

MCSegs == 1..2
MCBig  == {2}
MCCallers == Jobs \cup Verifiers
=============================================================================
