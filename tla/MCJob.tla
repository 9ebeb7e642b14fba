--------------------------------- MODULE MCJob ---------------------------------
(* The job, with two configurations: `few' stops after two messages, `many'   *)
(* has no limit.                                                              *)
EXTENDS Job, TLC

CONSTANTS few, many, p1, p2, p3, k1, k2

MCLimit == few :> 2 @@ many :> 0
================================================================================
