------------------------------- MODULE MCIngest -------------------------------
(* The pipeline: records a and b are well-formed, m is malformed, p is one    *)
(* the database refuses, u has a source it refuses.                           *)
EXTENDS Ingest

===============================================================================
