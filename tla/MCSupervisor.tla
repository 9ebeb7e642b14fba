----------------------------- MODULE MCSupervisor -----------------------------
(* The supervisor, with configurations as model values: i is installed at the *)
(* start, a is another good one, r is one syslog-ng refuses to load.          *)
EXTENDS Supervisor

CONSTANTS i, a, r
===============================================================================
