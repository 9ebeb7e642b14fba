------------------------------- MODULE MCJobStore -------------------------------
(* The job store: two jobs, each with one of two configurations.              *)
EXTENDS JobStore

CONSTANTS p1, p2, j1, j2, c1, c2
================================================================================
