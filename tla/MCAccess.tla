------------------------------ MODULE MCAccess ------------------------------
(* Sessions, Throttle and Buckets, each with small bounds of its own: the   *)
(* guard's cache and the live tails do not read one another, and are        *)
(* explored apart.                                                          *)
EXTENDS Sessions, Throttle, Buckets, TLC
VARIABLE part

Parts == {"guard", "tail", "edits", "idle", "throttle", "shares"}

(* Edits of roles and of disabled flags, without passwords. *)
NoPasswords == \A p \in Proc : /\ op'[p].at # "revokeOwn"
                               /\ op'[p].at = "update" => ~op'[p].reset

NoGuard == cache' = <<>> /\ \A p \in Proc : op'[p].at \notin {"asking", "told", "proxyLogout"}

Sessions_ ==
  /\ SessNext
  /\ UNCHANGED <<throttleVars, bucketVars>>
  /\ CASE part = "guard" -> tails' = <<>> /\ UNCHANGED idleTTL /\ NoPasswords
       [] part = "tail" -> NoGuard /\ UNCHANGED idleTTL /\ NoPasswords
       [] part = "edits" -> tails' = <<>> /\ NoGuard /\ UNCHANGED <<idleTTL, clock>>
       [] part = "idle" -> tails' = <<>> /\ NoGuard /\ UNCHANGED users

RolesMC == [m \in Member |-> IF m = "a" THEN "admin" ELSE "analyst"]

(* Accounts are made in the part that edits them. *)
MCInit ==
  /\ SessInit /\ ThrottleInit /\ BucketsInit /\ part \in Parts
  /\ part # "edits" => \A u \in User : users[u].is = "here"
MCNext ==
  /\ UNCHANGED part
  /\ \/ part = "throttle" /\ ThrottleNext /\ UNCHANGED <<sessVars, bucketVars>>
     \/ part = "shares" /\ BucketsNext /\ UNCHANGED <<sessVars, throttleVars>>
     \/ part \notin {"throttle", "shares"} /\ Sessions_
MCSpec == MCInit /\ [][MCNext]_<<sessVars, throttleVars, bucketVars, part>>
Symmetric == Permutations(Proc) \cup Permutations(Saver) \cup Permutations(Attempt) \cup Permutations(Source)
=============================================================================
