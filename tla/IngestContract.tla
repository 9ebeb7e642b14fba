---------------------------- MODULE IngestContract ----------------------------
(***************************************************************************)
(* What syslog-bucket's ingest pipeline promises about each record,        *)
(* without its connections, queue, batches and retries: a record that was  *)
(* read is settled once and for good, what live tail and the notifier are  *)
(* shown only grows, by whole groups of records that were not settled      *)
(* before, and the pipeline ends with everything settled.                  *)
(***************************************************************************)
EXTENDS Naturals, Sequences

CONSTANT Records

VARIABLES
  fate,   (* fate[r]: unread, taken, inserted, dropped or bad               *)
  shown,  (* what live tail and the notifier were given, in order           *)
  ended   (* the pipeline has returned                                      *)

vars == <<fate, shown, ended>>

With(f) == {r \in Records : fate[r] = f}

Init == fate = [r \in Records |-> "unread"] /\ shown = <<>> /\ ended = FALSE

Settle(from, S, to) ==
  /\ S \subseteq With(from)
  /\ fate' = [r \in Records |-> IF r \in S THEN to ELSE fate[r]]

Take(r) == ~ended /\ Settle("unread", {r}, "taken") /\ UNCHANGED <<shown, ended>>
Refuse(r) ==
  /\ ~ended
  /\ \E from \in {"unread", "taken"} : Settle(from, {r}, "bad")
  /\ UNCHANGED <<shown, ended>>

Drop == ~ended /\ (\E S \in SUBSET With("taken") : Settle("taken", S, "dropped")) /\ UNCHANGED <<shown, ended>>

(* A group is shown: each of it for the first time, and none of it twice.     *)
Show ==
  /\ ~ended
  /\ LET new == {i \in DOMAIN shown' : i > Len(shown)} IN
       /\ SubSeq(shown', 1, Len(shown)) = shown
       /\ \A i, j \in new : shown'[i] = shown'[j] => i = j
       /\ Settle("taken", {shown'[i] : i \in new}, "inserted")
  /\ UNCHANGED ended

End ==
  /\ ~ended /\ With("taken") = {}
  /\ ended' = TRUE
  /\ UNCHANGED <<fate, shown>>

Next == (\E r \in Records : Take(r) \/ Refuse(r)) \/ Drop \/ Show \/ End

Spec == Init /\ [][Next]_vars
===============================================================================
