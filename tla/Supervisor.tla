------------------------------ MODULE Supervisor ------------------------------
(***************************************************************************)
(* syslog-valve's supervisor: it runs syslog-ng as a child process, and    *)
(* installs configurations in it (internal/supervisor/supervisor.go).      *)
(*                                                                         *)
(* Four activities share the state:                                        *)
(*   - the applier: one Apply at a time, because every caller holds the    *)
(*     server's mutex (server.go apply, rollback); `pc' is its position;   *)
(*   - the run loop goroutine, at position `loop';                         *)
(*   - the copier goroutine os/exec runs for the child's output, which     *)
(*     calls logLine for every line in `pipe';                             *)
(*   - syslog-ng itself, which is not in the repository: it reads          *)
(*     current.conf when it starts and at every SIGHUP, and reports the    *)
(*     outcome of a reload with the lines logLine looks for.               *)
(***************************************************************************)
EXTENDS Naturals, Sequences

CONSTANTS
  Configs,     (* the configurations anybody applies                        *)
  Initial,     (* the one installed when the history begins                 *)
  Refused,     (* those that pass --syntax-only and syslog-ng cannot load   *)
  NotRead,     (* Apply could not read the text it replaced (prevErr # nil) *)
  PipeCap      (* lines the child can have written and nobody read          *)

ASSUME ConfigsAssumption ==
  /\ Initial \in Configs \ Refused
  /\ Refused \subseteq Configs
  /\ NotRead \notin Configs
  /\ PipeCap \in Nat /\ PipeCap >= 2

VARIABLES
  current,     (* the text in current.conf                                  *)
  history,     (* the configurations in history/                            *)
  pc,          (* where the applier is                                      *)
  target,      (* Apply's conf                                              *)
  prev,        (* Apply's prev, the text it replaced, or NotRead            *)
  verdict,     (* how Reload ended; when idle, what Apply answered          *)
  reload,      (* s.reload: no waiter, a waiter, a waiter marked failed     *)
  result,      (* the waiter's channel, of capacity 1                       *)
  cmd,         (* s.cmd # nil                                               *)
  kick,        (* a token in the kick channel                               *)
  loop,        (* where the run loop is                                     *)
  stopping,    (* the context is cancelled                                  *)
  child,       (* the syslog-ng process                                     *)
  loaded,      (* the configuration it runs                                 *)
  hup,         (* a SIGHUP it has not acted on                              *)
  pipe,        (* its output, oldest line first                             *)
  confirmed,   (* history: it loaded the target since Apply installed it    *)
  unsettled    (* history: since it was spawned, an Apply ended without a   *)
               (* verdict, or could not write, or had not read, a file it   *)
               (* had to put in place                                       *)

applier  == <<current, history, pc, target, prev, verdict>>
waiter   == <<reload, result>>
runner   == <<cmd, kick, loop, stopping>>
process  == <<child, loaded, hup, pipe>>
ghosts   == <<confirmed, unsettled>>
vars     == <<applier, waiter, runner, process, ghosts>>

Lines    == {"reverting", "finished", "error"}
Verdicts == {"none", "ok", "notRunning", "refused", "unconfirmed", "failed"}
Alive    == child \in {"boot", "ready"}

FlagsOK ==
  /\ cmd \in BOOLEAN /\ kick \in BOOLEAN /\ stopping \in BOOLEAN
  /\ hup \in BOOLEAN /\ confirmed \in BOOLEAN /\ unsettled \in BOOLEAN

DataOK ==
  /\ current \in Configs /\ target \in Configs /\ prev \in Configs \cup {NotRead}
  /\ loaded \in Configs /\ history \subseteq Configs
  /\ pc \in {"idle", "install", "reload", "await", "archive", "restore", "rehup"}
  /\ verdict \in Verdicts
  /\ reload \in {"none", "armed", "failed"}
  /\ result \in {"empty", "ok", "refused", "exited"}
  /\ loop \in {"start", "spawned", "wait", "drain", "backoff", "done"}
  /\ child \in {"none", "boot", "ready", "dead"}
  /\ pipe \in Seq(Lines)

TypeOK == FlagsOK /\ DataOK

Init ==
  /\ current = Initial /\ history = {}
  /\ pc = "idle" /\ target = Initial /\ prev = Initial /\ verdict = "none"
  /\ reload = "none" /\ result = "empty"
  /\ cmd = FALSE /\ kick = FALSE /\ loop = "start" /\ stopping = FALSE
  /\ child = "none" /\ loaded = Initial /\ hup = FALSE /\ pipe = <<>>
  /\ confirmed = FALSE /\ unsettled = FALSE

-------------------------------------------------------------------------------
(* The applier.  A candidate Validate refuses changes nothing, so Apply       *)
(* begins with one that passed.                                               *)

Apply(c) ==
  /\ pc = "idle"
  /\ target' = c
  /\ pc' = "install"
  /\ confirmed' = FALSE
  /\ UNCHANGED <<current, history, prev, verdict, waiter, runner, process, unsettled>>

(* prev is read, which may fail, then current.conf replaced all the same.     *)
Install ==
  /\ pc = "install"
  /\ prev' \in {current, NotRead}
  /\ \/ /\ current' = target
        /\ pc' = "reload"
        /\ UNCHANGED verdict
     \/ /\ pc' = "idle"                      \* the write failed
        /\ verdict' = "failed"
        /\ UNCHANGED current
  /\ UNCHANGED <<history, target, waiter, runner, process, ghosts>>

(* Reload's three ways in: no process; a process that was waited for already, *)
(* to which Signal answers an error; and one that gets the SIGHUP.            *)
ReloadNotRunning ==
  /\ pc = "reload" /\ ~cmd
  /\ pc' = "archive"
  /\ verdict' = "notRunning"
  /\ UNCHANGED <<current, history, target, prev, waiter, runner, process, ghosts>>

ReloadSignalFails ==
  /\ pc = "reload" /\ cmd /\ loop = "drain"
  /\ pc' = "restore"
  /\ verdict' = "unconfirmed"
  /\ UNCHANGED <<current, history, target, prev, waiter, runner, process, ghosts>>

ReloadSignal ==
  /\ pc = "reload" /\ cmd /\ loop # "drain"
  /\ reload' = "armed"
  /\ result' = "empty"
  /\ hup' = Alive
  /\ pc' = "await"
  /\ UNCHANGED <<current, history, target, prev, verdict, runner, child, loaded, pipe, ghosts>>

TakeVerdict ==
  /\ pc = "await" /\ result # "empty"
  /\ result' = "empty"
  /\ \/ /\ result = "ok"
        /\ pc' = "archive" /\ verdict' = "ok"
     \/ /\ result = "refused"
        /\ pc' = "restore" /\ verdict' = "refused"
     \/ /\ result = "exited"
        /\ pc' = "restore" /\ verdict' = "unconfirmed"
  /\ UNCHANGED <<current, history, target, prev, reload, runner, process, ghosts>>

(* Mutant: there is no timeout. *)
ReloadTimeout_never == FALSE /\ UNCHANGED vars

(* A verdict that raced the timer is drained from the channel, as by          *)
(* TakeVerdict: only an empty channel lets the timeout through.               *)
ReloadTimeout ==
  /\ pc = "await" /\ result = "empty"
  /\ reload' = "none"
  /\ pc' = "restore" /\ verdict' = "unconfirmed"
  /\ unsettled' = TRUE
  /\ UNCHANGED <<current, history, target, prev, result, runner, process, confirmed>>

(* Mutant: the run loop is not kicked. *)
Archive_noKick ==
  /\ pc = "archive"
  /\ pc' = "idle"
  /\ history' = history \cup {target}
  /\ UNCHANGED <<current, target, prev, verdict, waiter, runner, process, ghosts>>

Archive ==
  /\ pc = "archive"
  /\ pc' = "idle"
  /\ \/ /\ history' = history \cup {target}
        /\ kick' = (kick \/ verdict = "notRunning")
        /\ UNCHANGED <<verdict, unsettled>>
     \/ /\ verdict' = "failed"               \* a write failed: no kick either
        /\ history' \in {history, history \cup {target}}
        /\ unsettled' = (unsettled \/ verdict = "notRunning")
        /\ UNCHANGED kick
  /\ UNCHANGED <<current, target, prev, waiter, cmd, loop, stopping, process, confirmed>>

(* Mutant: only a reload without a verdict brings the file back. *)
Restore_notWhenRefused ==
  /\ pc = "restore"
  /\ pc' = IF verdict = "refused" \/ prev = NotRead THEN "idle" ELSE "rehup"
  /\ current' = IF verdict = "refused" \/ prev = NotRead THEN current ELSE prev
  /\ unsettled' = (unsettled \/ prev = NotRead)
  /\ UNCHANGED <<history, target, prev, verdict, waiter, runner, process, confirmed>>

(* The previous file comes back; without a verdict it is signalled too.  When *)
(* the write fails the answer says so ("failed").  A file Apply could not     *)
(* read is neither put back nor signalled: the new one stays installed.       *)
Restore ==
  /\ pc = "restore"
  /\ pc' = IF verdict = "refused" \/ prev = NotRead THEN "idle" ELSE "rehup"
  /\ \/ prev # NotRead /\ current' = prev /\ UNCHANGED <<verdict, unsettled>>
     \/ prev # NotRead /\ verdict' = "failed" /\ unsettled' = TRUE /\ UNCHANGED current
     \/ prev = NotRead /\ unsettled' = TRUE /\ UNCHANGED <<current, verdict>>
  /\ UNCHANGED <<history, target, prev, waiter, runner, process, confirmed>>

(* signal(SIGHUP): nobody waits for what this reload reports.                 *)
Rehup ==
  /\ pc = "rehup"
  /\ hup' = (hup \/ (cmd /\ Alive))
  /\ pc' = "idle"
  /\ unsettled' = TRUE
  /\ UNCHANGED <<current, history, target, prev, verdict, waiter, runner,
                 child, loaded, pipe, confirmed>>

-------------------------------------------------------------------------------
(* The run loop: runLoop and runOnce.                                         *)

Spawn ==
  /\ loop = "start"
  /\ \/ /\ ~stopping
        /\ child' = "boot" /\ loop' = "spawned"
        /\ unsettled' = (unsettled /\ pc # "idle")
     \/ /\ loop' = "drain"                   \* cmd.Start failed
        /\ UNCHANGED <<child, unsettled>>
  /\ UNCHANGED <<applier, waiter, cmd, kick, stopping, loaded, hup, pipe, confirmed>>

Register ==
  /\ loop = "spawned"
  /\ cmd' = TRUE
  /\ loop' = "wait"
  /\ UNCHANGED <<applier, waiter, kick, stopping, process, ghosts>>

(* cmd.Wait first collects the process, then waits for the copier.            *)
Reap ==
  /\ loop = "wait" /\ child = "dead"
  /\ loop' = "drain"
  /\ UNCHANGED <<applier, waiter, cmd, kick, stopping, process, ghosts>>

(* ... but no longer than WaitDelay: what is in the pipe then is lost.        *)
WaitDelay ==
  /\ loop = "drain" /\ pipe # <<>>
  /\ pipe' = <<>>
  /\ UNCHANGED <<applier, waiter, runner, child, loaded, hup, ghosts>>

(* Mutant: the loop goes on after its context is cancelled. *)
LoopExit_ignoresContext ==
  /\ loop = "drain" /\ pipe = <<>>
  /\ cmd' = FALSE
  /\ child' = "none"
  /\ reload' = "none"
  /\ result' = IF reload = "none" THEN result ELSE "exited"
  /\ loop' = "backoff"
  /\ UNCHANGED <<applier, kick, stopping, loaded, hup, pipe, ghosts>>

LoopExit ==
  /\ loop = "drain" /\ pipe = <<>>
  /\ cmd' = FALSE
  /\ child' = "none"
  /\ \/ /\ reload = "none"
        /\ UNCHANGED waiter
     \/ /\ reload # "none" /\ result = "empty"
        /\ reload' = "none"
        /\ result' = "exited"
  /\ loop' = IF stopping THEN "done" ELSE "backoff"
  /\ UNCHANGED <<applier, kick, stopping, loaded, hup, pipe, ghosts>>

(* The wait between two starts ends with the timer, a kick or the context.    *)
Backoff ==
  /\ loop = "backoff"
  /\ \/ loop' = "start" /\ UNCHANGED kick
     \/ kick /\ loop' = "start" /\ kick' = FALSE
     \/ stopping /\ loop' = "done" /\ UNCHANGED kick
  /\ UNCHANGED <<applier, waiter, cmd, stopping, process, ghosts>>

Cancel ==
  /\ ~stopping
  /\ stopping' = TRUE
  /\ UNCHANGED <<applier, waiter, cmd, kick, loop, process, ghosts>>

-------------------------------------------------------------------------------
(* The copier: logLine and finishReload, for one line.                        *)

Finish(failed) ==
  /\ result = "empty"                           \* a full channel blocks, mu held
  /\ reload' = "none"
  /\ result' = IF failed THEN "refused" ELSE "ok"

(* Mutant: "reverting to old config" is not noticed. *)
LogLine_missesReverting ==
  /\ pipe # <<>>
  /\ pipe' = Tail(pipe)
  /\ \/ (reload = "none" \/ Head(pipe) = "reverting") /\ UNCHANGED waiter
     \/ reload # "none" /\ Head(pipe) = "error" /\ Finish(TRUE)
     \/ reload # "none" /\ Head(pipe) = "finished" /\ Finish(FALSE)
  /\ UNCHANGED <<applier, runner, child, loaded, hup, ghosts>>

LogLine ==
  /\ pipe # <<>>
  /\ pipe' = Tail(pipe)
  /\ \/ reload = "none" /\ UNCHANGED waiter
     \/ /\ reload # "none" /\ Head(pipe) = "reverting"
        /\ reload' = "failed" /\ UNCHANGED result
     \/ reload # "none" /\ Head(pipe) = "error" /\ Finish(TRUE)
     \/ reload # "none" /\ Head(pipe) = "finished" /\ Finish(reload = "failed")
  /\ UNCHANGED <<applier, runner, child, loaded, hup, ghosts>>

-------------------------------------------------------------------------------
(* syslog-ng, from the lines logLine expects of it and the stand-in of        *)
(* supervisor_test.go.                                                        *)

ChildStart ==
  /\ child = "boot"
  /\ \/ current \in Refused /\ child' = "dead" /\ hup' = FALSE
        /\ UNCHANGED <<loaded, confirmed>>
     \/ /\ current \notin Refused
        /\ child' = "ready" /\ loaded' = current
        /\ confirmed' = (confirmed \/ (pc \in {"reload", "await"} /\ current = target))
        /\ UNCHANGED hup
  /\ UNCHANGED <<applier, waiter, runner, pipe, unsettled>>

ChildReload ==
  /\ child = "ready" /\ hup
  /\ hup' = FALSE
  /\ \/ /\ current \notin Refused /\ Len(pipe) + 1 <= PipeCap
        /\ loaded' = current
        /\ confirmed' = (confirmed \/ (pc \in {"reload", "await"} /\ current = target))
        /\ pipe' = Append(pipe, "finished")
     \/ /\ current \in Refused /\ Len(pipe) + 2 <= PipeCap
        /\ pipe' = pipe \o <<"reverting", "finished">>
        /\ UNCHANGED <<loaded, confirmed>>
     \/ /\ current \in Refused /\ Len(pipe) + 1 <= PipeCap
        /\ pipe' = Append(pipe, "error")
        /\ UNCHANGED <<loaded, confirmed>>
  /\ UNCHANGED <<applier, waiter, runner, child, unsettled>>

(* It crashes, or ends after the SIGTERM (SIGKILL) that cancelling sends.     *)
ChildExit ==
  /\ Alive
  /\ child' = "dead"
  /\ hup' = FALSE
  /\ UNCHANGED <<applier, waiter, runner, loaded, pipe, ghosts>>

-------------------------------------------------------------------------------
ApplierStep == Install \/ ReloadNotRunning \/ ReloadSignalFails \/ ReloadSignal
                 \/ TakeVerdict \/ ReloadTimeout \/ Archive \/ Restore \/ Rehup
LoopStep    == Spawn \/ Register \/ Reap \/ WaitDelay \/ LoopExit \/ Backoff
ChildStep   == ChildStart \/ ChildReload \/ ChildExit

Next ==
  \/ \E c \in Configs : Apply(c)
  \/ ApplierStep \/ LoopStep \/ ChildStep \/ LogLine \/ Cancel

Spec == Init /\ [][Next]_vars

(* Goroutines that can run do run, timers fire, and a cancelled context ends  *)
(* the child (SIGKILL after StopTimeout).  Nothing else is asked of syslog-ng. *)
Fairness ==
  /\ WF_vars(ApplierStep)
  /\ WF_vars(LoopStep)
  /\ WF_vars(LogLine)
  /\ WF_vars(stopping /\ ChildExit)

FairSpec == Spec /\ Fairness

-------------------------------------------------------------------------------
(* Properties.                                                                *)

(* An Apply that waits for a verdict is owed exactly one: either its waiter   *)
(* is registered and its channel empty, or the verdict is in the channel.     *)
(* Outside the wait nobody is registered, so "another reload is in progress"  *)
(* never happens and no sender ever blocks holding the supervisor's mutex     *)
(* (Reload 473-512, finishReload 286, runLoop 163).                           *)
OneVerdictOwed ==
  IF pc = "await" THEN (reload # "none") <=> (result = "empty")
                  ELSE reload = "none" /\ result = "empty"

(* While no earlier Apply ended without a verdict in the life of this         *)
(* process, or without a file it had to put in place, a verdict is about the  *)
(* configuration being applied: "ok" means syslog-ng loaded it after it was   *)
(* installed, "refused" that it cannot.                                       *)
VerdictIsOurs ==
  ~unsettled /\ pc \in {"archive", "restore"} =>
    /\ verdict = "ok" => confirmed
    /\ verdict = "refused" => target \in Refused

(* Under the same premise, with no Apply in progress and no signal pending,   *)
(* a running syslog-ng runs what current.conf says, unless the installation   *)
(* was made while no process was registered: then a restart kick is pending.  *)
RunsInstalled ==
  ~unsettled /\ pc = "idle" /\ child = "ready" /\ ~hup => loaded = current \/ kick

(* An Apply that was refused, or whose reload was never confirmed, leaves     *)
(* in place the file it found, provided it could read that file before it     *)
(* replaced it; else the refused configuration itself stays installed         *)
(* (Apply's prevErr), which its comment (332-335) does not say.               *)
RefusalRestores ==
  pc = "idle" /\ verdict \in {"refused", "unconfirmed"} =>
    current = IF prev = NotRead THEN target ELSE prev

(* "Only a confirmed config is archived" (Apply's comment, 332-333): one that *)
(* syslog-ng refuses enters the history only by way of the not-running case.  *)
(* The code breaks this: see the README, "Late verdicts".                     *)
RefusedNotArchived ==
  [][history' # history => (verdict = "notRunning" \/ target \notin Refused)]_vars

(* Every Apply answers, whatever syslog-ng does.                              *)
ApplyAnswers == pc # "idle" ~> pc = "idle"

(* Shutdown returns: once the context is cancelled the run loop ends.         *)
ShutdownReturns == stopping ~> loop = "done"
===============================================================================
