---------------------------------- MODULE Job ----------------------------------
(***************************************************************************)
(* One job of syslog-hose: a stream of generated messages that is started, *)
(* stopped, edited and deleted by concurrent requests                      *)
(* (internal/engine/job.go, and the Start, Stop, StopAll, Update and       *)
(* Delete of internal/engine/manager.go).                                  *)
(*                                                                         *)
(*   - Procs are the goroutines that serve the API, those of StopAll and   *)
(*     NewManager's autostart; each does one operation at a time.          *)
(*   - Runs are the successive generator goroutines.  The dial belongs to  *)
(*     its run here, though start makes it, and calls finish when it fails.*)
(*                                                                         *)
(* A critical section under job.mu is one action.  What goes between two   *)
(* of them is not: the lookup in the manager's map, the dial, the sends,   *)
(* the wait for the run to exit.                                           *)
(***************************************************************************)
EXTENDS Naturals

CONSTANTS
  Procs,       (* the goroutines that call the manager                      *)
  Runs,        (* bound: the runs the job can make                          *)
  Cfgs,        (* the configurations it is given                            *)
  Limit,       (* MaxEvents of each, 0 for none                             *)
  MaxSent,     (* bound: messages a run without a limit sends               *)
  NoRun        (* the run of nobody                                         *)

ASSUME JobAssumption ==
  /\ NoRun \notin Runs
  /\ Limit \in [Cfgs -> Nat]
  /\ MaxSent \in Nat
  /\ Cfgs # {}

VARIABLES
  inMap,       (* the manager's map has the job                             *)
  deleted,     (* j.deleted                                                 *)
  state,       (* j.state                                                   *)
  cur,         (* the run that j.cancel and j.done belong to                *)
  armed,       (* j.cancel is not nil                                       *)
  cfg,         (* j.cfg                                                     *)
  sent,        (* j.sent                                                    *)
  phase,       (* where each run is                                         *)
  runCfg,      (* its copy of the configuration                             *)
  cancelled,   (* the runs whose context is cancelled                       *)
  emitted,     (* history: messages each run sent                           *)
  pc,          (* where each goroutine is                                   *)
  awaited,     (* the run whose done channel it waits on                    *)
  quiet        (* history: a Delete stopped the job in time                 *)

job    == <<inMap, deleted, state, cur, armed, cfg, sent>>
runs   == <<phase, runCfg, cancelled, emitted>>
callers == <<pc, awaited, quiet>>
vars   == <<job, runs, callers>>

(* A run that can still send, or has not yet handed the job back.             *)
Live(k) == phase[k] \in {"dial", "loop", "send", "finish"}

FlagsOK ==
  /\ inMap \in BOOLEAN /\ deleted \in BOOLEAN
  /\ armed \in BOOLEAN /\ quiet \in BOOLEAN

DataOK ==
  /\ state \in {"idle", "running", "stopping"}
  /\ cur \in Runs \cup {NoRun}
  /\ cfg \in Cfgs /\ sent \in Nat
  /\ phase \in [Runs -> {"none", "dial", "loop", "send", "finish", "close", "gone"}]
  /\ runCfg \in [Runs -> Cfgs]
  /\ cancelled \subseteq Runs
  /\ emitted \in [Runs -> Nat]
  /\ pc \in [Procs -> {"idle", "start", "mark", "halt", "haltDeleted", "wait", "waitDeleted"}]
  /\ awaited \in [Procs -> Runs \cup {NoRun}]

TypeOK == FlagsOK /\ DataOK

Init ==
  /\ inMap = TRUE /\ deleted = FALSE /\ state = "idle"
  /\ cur = NoRun /\ armed = FALSE /\ sent = 0
  /\ cfg \in Cfgs
  /\ phase = [k \in Runs |-> "none"]
  /\ runCfg \in [Runs -> {cfg}]
  /\ cancelled = {} /\ emitted = [k \in Runs |-> 0]
  /\ pc = [p \in Procs |-> "idle"]
  /\ awaited = [p \in Procs |-> NoRun]
  /\ quiet = FALSE

Goto(p, at) == pc' = [pc EXCEPT ![p] = at]

-------------------------------------------------------------------------------
(* The manager's operations.  Those that do not find the job answer "job not  *)
(* found" and change nothing.                                                 *)

LookupToStart(p) ==
  /\ pc[p] = "idle" /\ inMap
  /\ Goto(p, "start")
  /\ UNCHANGED <<job, runs, awaited, quiet>>

(* Stop, and each goroutine of StopAll.                                       *)
LookupToStop(p) ==
  /\ pc[p] = "idle" /\ inMap
  /\ Goto(p, "halt")
  /\ UNCHANGED <<job, runs, awaited, quiet>>

Unmap(p) ==
  /\ pc[p] = "idle" /\ inMap
  /\ inMap' = FALSE
  /\ Goto(p, "mark")
  /\ UNCHANGED <<deleted, state, cur, armed, cfg, sent, runs, awaited, quiet>>

(* Mutant: Delete halts the job without marking it.                           *)
MarkDeleted_not(p) ==
  /\ pc[p] = "mark"
  /\ Goto(p, "haltDeleted")
  /\ UNCHANGED <<job, runs, awaited, quiet>>

MarkDeleted(p) ==
  /\ pc[p] = "mark"
  /\ deleted' = TRUE
  /\ Goto(p, "haltDeleted")
  /\ UNCHANGED <<inMap, state, cur, armed, cfg, sent, runs, awaited, quiet>>

(* Update holds the manager's mutex and the job's.                            *)
SetConfig(c) ==
  /\ inMap /\ state = "idle"
  /\ cfg' = c
  /\ UNCHANGED <<inMap, deleted, state, cur, armed, sent, runs, callers>>

-------------------------------------------------------------------------------
(* start: the section under the mutex, then the dial outside it.              *)

(* The job is deleted, running or stopping, or its preset does not exist.     *)
StartRefused(p) ==
  /\ pc[p] = "start"
  /\ Goto(p, "idle")
  /\ UNCHANGED <<job, runs, awaited, quiet>>

Begin(p, k) ==
  /\ phase[k] = "none"
  /\ state' = "running" /\ cur' = k /\ armed' = TRUE
  /\ sent' = 0
  /\ phase' = [phase EXCEPT ![k] = "dial"]
  /\ runCfg' = [runCfg EXCEPT ![k] = cfg]
  /\ Goto(p, "idle")
  /\ UNCHANGED <<inMap, deleted, cfg, cancelled, emitted, awaited, quiet>>

(* Mutant: only a running job refuses a start.                                *)
Start_whileStopping(p, k) ==
  /\ pc[p] = "start" /\ ~deleted /\ state # "running"
  /\ Begin(p, k)

Start(p, k) ==
  /\ pc[p] = "start" /\ ~deleted /\ state = "idle"
  /\ Begin(p, k)

RunAt(k, at) == phase' = [phase EXCEPT ![k] = at]

Dial(k) ==
  /\ phase[k] = "dial"
  /\ \/ RunAt(k, "loop")
     \/ RunAt(k, "finish")                   \* an error, or the context's end
  /\ UNCHANGED <<job, runCfg, cancelled, emitted, callers>>

-------------------------------------------------------------------------------
(* run.                                                                       *)

(* A tick came, and the context's error was looked at just before the send.   *)
BeginSend(k) ==
  /\ phase[k] = "loop" /\ k \notin cancelled
  /\ Limit[runCfg[k]] = 0 => sent < MaxSent
  /\ RunAt(k, "send")
  /\ UNCHANGED <<job, runCfg, cancelled, emitted, callers>>

Enough(c, n) == c > 0 /\ n >= c

Sent(k) ==
  /\ phase[k] = "send"
  /\ sent' = sent + 1
  /\ emitted' = [emitted EXCEPT ![k] = @ + 1]
  /\ RunAt(k, IF Enough(Limit[runCfg[k]], sent + 1) THEN "finish" ELSE "loop")
  /\ UNCHANGED <<inMap, deleted, state, cur, armed, cfg, runCfg, cancelled, callers>>

(* A failed send ends a cancelled run; another one counts it as an error, and *)
(* then asks whether enough was sent.                                         *)
SendFails(k) ==
  /\ phase[k] = "send"
  /\ RunAt(k, IF k \in cancelled \/ Enough(Limit[runCfg[k]], sent) THEN "finish" ELSE "loop")
  /\ UNCHANGED <<job, runCfg, cancelled, emitted, callers>>

(* The context is done, or the configured duration is over.                   *)
RunEnds(k) ==
  /\ phase[k] = "loop"
  /\ RunAt(k, "finish")
  /\ UNCHANGED <<job, runCfg, cancelled, emitted, callers>>

(* finish's section under the mutex; cancelling is what j.cancel does to the  *)
(* run it belongs to.                                                         *)
Finish(k) ==
  /\ phase[k] = "finish"
  /\ cancelled' = IF armed THEN cancelled \cup {cur} ELSE cancelled
  /\ armed' = FALSE
  /\ state' = "idle"
  /\ RunAt(k, "close")
  /\ UNCHANGED <<inMap, deleted, cur, cfg, sent, runCfg, emitted, callers>>

(* Mutant: a finished run forgets its waiters.                                *)
CloseDone_never(k) == phase[k] = "close" /\ FALSE /\ UNCHANGED vars

CloseDone(k) ==
  /\ phase[k] = "close"
  /\ RunAt(k, "gone")
  /\ UNCHANGED <<job, runCfg, cancelled, emitted, callers>>

-------------------------------------------------------------------------------
(* halt: the section under the mutex, then the wait for the run to exit.      *)

Halt(p) ==
  /\ pc[p] \in {"halt", "haltDeleted"}
  /\ \/ /\ state = "idle"
        /\ Goto(p, "idle")
        /\ quiet' = (quiet \/ pc[p] = "haltDeleted")
        /\ UNCHANGED <<job, cancelled, awaited>>
     \/ /\ state # "idle"
        /\ cancelled' = cancelled \cup {cur}
        /\ state' = "stopping"
        /\ awaited' = [awaited EXCEPT ![p] = cur]
        /\ Goto(p, IF pc[p] = "halt" THEN "wait" ELSE "waitDeleted")
        /\ UNCHANGED <<inMap, deleted, cur, armed, cfg, sent, quiet>>
  /\ UNCHANGED <<phase, runCfg, emitted>>

Waits(p) == pc[p] \in {"wait", "waitDeleted"}

HaltDone(p) ==
  /\ Waits(p) /\ phase[awaited[p]] = "gone"
  /\ quiet' = (quiet \/ pc[p] = "waitDeleted")
  /\ awaited' = [awaited EXCEPT ![p] = NoRun]
  /\ Goto(p, "idle")
  /\ UNCHANGED <<job, runs>>

(* stopTimeout.  Delete logs it and goes on, Stop answers an error.           *)
HaltTimeout(p) ==
  /\ Waits(p)
  /\ awaited' = [awaited EXCEPT ![p] = NoRun]
  /\ Goto(p, "idle")
  /\ UNCHANGED <<job, runs, quiet>>

-------------------------------------------------------------------------------
RunStep(k)  == Dial(k) \/ BeginSend(k) \/ Sent(k) \/ SendFails(k) \/ RunEnds(k)
                 \/ Finish(k) \/ CloseDone(k)
CallStep(p) == LookupToStart(p) \/ LookupToStop(p) \/ Unmap(p) \/ MarkDeleted(p)
                 \/ StartRefused(p) \/ Halt(p) \/ HaltDone(p) \/ HaltTimeout(p)

Next ==
  \/ \E p \in Procs : CallStep(p) \/ \E k \in Runs : Start(p, k)
  \/ \E k \in Runs : RunStep(k)
  \/ \E c \in Cfgs : SetConfig(c)

Spec == Init /\ [][Next]_vars

(* A run's goroutine is scheduled; once its context is cancelled, a dial or a *)
(* send in flight returns (sender.go arms an abort on the context) and the    *)
(* select takes ctx.Done, which stays ready, sooner or later.  A run nobody   *)
(* cancels may block in a send, or go on sending, for ever.  A goroutine that *)
(* serves a Stop or a Delete is scheduled; the timer is asked nothing.        *)
Ends(k) == Dial(k) \/ Sent(k) \/ SendFails(k) \/ RunEnds(k)

Fairness ==
  /\ \A k \in Runs : /\ WF_vars(k \in cancelled /\ Ends(k))
                     /\ WF_vars(Finish(k))
                     /\ WF_vars(CloseDone(k))
  /\ \A p \in Procs : WF_vars(MarkDeleted(p)) /\ WF_vars(Halt(p)) /\ WF_vars(HaltDone(p))

FairSpec == Spec /\ Fairness

-------------------------------------------------------------------------------
(* Properties.                                                                *)

(* A start never overlaps a run that is still winding down (jobState's        *)
(* comment): there is at most one live run, and it is the one the job's       *)
(* cancel and done belong to.                                                 *)
OneRun == \A k \in Runs : Live(k) => k = cur /\ state # "idle"

(* Whoever finds the job running or stopping can cancel it: j.cancel is there *)
(* to be called, for a run that has not given the job back.  An idle job has  *)
(* none, so finish cancels no run but its own (halt 266-271, finish 252-258). *)
CancelReady ==
  IF state = "idle" THEN ~armed
  ELSE armed /\ cur \in Runs /\ Live(cur) /\ (state = "stopping" => cur \in cancelled)

(* Once a Delete has stopped the job, nothing sends for it any more, however  *)
(* old the lookup of a Start that is still under way (Delete 196-199).        *)
DeletedQuiet == quiet => \A k \in Runs : ~Live(k)

(* What a run sends is what the job's configuration says: it was not edited   *)
(* since the run began (Update 175-177).                                      *)
AsConfigured == \A k \in Runs : Live(k) => runCfg[k] = cfg

(* The job's counter is that of its last run, and a limited run stops at its  *)
(* limit exactly, however its sends fail and whenever it is stopped.          *)
CountsOwn ==
  /\ cur \in Runs => sent = emitted[cur]
  /\ \A k \in Runs : Limit[runCfg[k]] > 0 => emitted[k] <= Limit[runCfg[k]]

(* A Stop or Delete whose run was cancelled is released by that run's exit,   *)
(* without the help of the timer.                                             *)
CancelledExits == \A k \in Runs : k \in cancelled ~> phase[k] = "gone"

(* A Delete that began silences the job, and for good: a run under way ends,  *)
(* and no Start that was in flight makes another (Delete 194-201).            *)
DeleteEnds == ~inMap ~> [](\A k \in Runs : ~Live(k))
================================================================================
