----------------------------- MODULE MCJobLogs -----------------------------
(* Two jobs, of which each may be run twice; logs of two lines.            *)
EXTENDS JobLogs
=============================================================================
