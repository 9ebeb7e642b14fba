--------------------------- MODULE Supervisor_proofs ---------------------------
(***************************************************************************)
(* The supervisor's safety, for every set of configurations.               *)
(***************************************************************************)
EXTENDS Supervisor, TLAPS

(* A process that is not there holds no signal, and one that the run loop has *)
(* left behind has also left nothing in the pipe.                             *)
ProcessInv ==
  /\ hup => Alive
  /\ loop \in {"start", "drain", "backoff", "done"} => ~Alive
  /\ loop \in {"start", "backoff", "done"} => pipe = <<>>

(* The lines in the pipe are those of the reload this Apply asked for.        *)
OwnReport ==
  \/ pipe = <<>>
  \/ pipe = <<"finished">> /\ reload = "armed" /\ confirmed
  \/ pipe = <<"finished">> /\ reload = "failed" /\ target \in Refused
  \/ pipe = <<"reverting", "finished">> /\ target \in Refused
  \/ pipe = <<"error">> /\ target \in Refused

Settled ==
  ~unsettled =>
    IF pc = "await" /\ reload # "none"
    THEN OwnReport /\ (hup => pipe = <<>> /\ reload = "armed")
    ELSE ~hup /\ pipe = <<>>

AwaitInv ==
  ~unsettled /\ pc = "await" =>
    /\ result = "ok" => confirmed
    /\ result = "refused" => target \in Refused

InstalledInv == pc \in {"reload", "await", "archive", "restore"} => current = target

ConfirmedInv ==
  /\ pc = "install" => ~confirmed
  /\ pc \in {"reload", "await", "archive"} /\ confirmed /\ child = "ready" => loaded = target

KeptInv ==
  ~unsettled /\ child = "ready" =>
    /\ pc \in {"idle", "install"} => loaded = current \/ kick
    /\ pc \in {"reload", "await", "restore"} /\ target \in Refused =>
         prev = NotRead \/ loaded = prev \/ kick

VerdictInv ==
  /\ pc = "archive" => verdict \in {"ok", "notRunning"}
  /\ pc = "restore" => verdict \in {"refused", "unconfirmed"}
  /\ pc = "rehup" => verdict \in {"unconfirmed", "failed"}
  /\ pc = "rehup" => prev # NotRead
  /\ pc = "rehup" /\ verdict = "unconfirmed" => current = prev

IInv ==
  /\ TypeOK /\ OneVerdictOwed /\ VerdictIsOurs /\ RunsInstalled /\ RefusalRestores
  /\ ProcessInv /\ Settled /\ AwaitInv /\ InstalledInv /\ ConfirmedInv /\ KeptInv
  /\ VerdictInv
-------------------------------------------------------------------------------
(* Every variable keeps its type.                                             *)
THEOREM TypeCorrect == Spec => []TypeOK
<1> USE DEF applier, waiter, runner, process, ghosts
<1>1. Init => TypeOK
  <2>1. Init => FlagsOK
    BY DEF Init, FlagsOK
  <2>2. Init => DataOK
    BY ConfigsAssumption DEF Init, DataOK, Lines, Verdicts
  <2>3. QED
    BY <2>1, <2>2 DEF TypeOK
<1>2. FlagsOK /\ [Next]_vars => FlagsOK'
  <2> SUFFICES ASSUME FlagsOK, [Next]_vars PROVE FlagsOK'
    OBVIOUS
  <2> USE DEF FlagsOK, Alive
  <2>1. ASSUME NEW c \in Configs, Apply(c) PROVE FlagsOK'
    BY <2>1 DEF Apply
  <2>2. CASE Install
    BY <2>2 DEF Install
  <2>3. CASE ReloadNotRunning
    BY <2>3 DEF ReloadNotRunning
  <2>4. CASE ReloadSignalFails
    BY <2>4 DEF ReloadSignalFails
  <2>5. CASE ReloadSignal
    BY <2>5 DEF ReloadSignal
  <2>6. CASE TakeVerdict
    BY <2>6 DEF TakeVerdict
  <2>7. CASE ReloadTimeout
    BY <2>7 DEF ReloadTimeout
  <2>8. CASE Archive
    BY <2>8 DEF Archive
  <2>9. CASE Restore
    BY <2>9 DEF Restore
  <2>10. CASE Rehup
    BY <2>10 DEF Rehup
  <2>11. CASE Spawn
    BY <2>11 DEF Spawn
  <2>12. CASE Register
    BY <2>12 DEF Register
  <2>13. CASE Reap
    BY <2>13 DEF Reap
  <2>14. CASE WaitDelay
    BY <2>14 DEF WaitDelay
  <2>15. CASE LoopExit
    BY <2>15 DEF LoopExit
  <2>16. CASE Backoff
    BY <2>16 DEF Backoff
  <2>17. CASE ChildStart
    BY <2>17 DEF ChildStart
  <2>18. CASE ChildReload
    BY <2>18 DEF ChildReload
  <2>19. CASE ChildExit
    BY <2>19 DEF ChildExit
  <2>20. CASE LogLine
    BY <2>20 DEF LogLine, Finish
  <2>21. CASE Cancel
    BY <2>21 DEF Cancel
  <2>22. CASE UNCHANGED vars
    BY <2>22 DEF vars
  <2>23. QED
    BY <2>1, <2>2, <2>3, <2>4, <2>5, <2>6, <2>7, <2>8, <2>9, <2>10, <2>11, <2>12, <2>13, <2>14, <2>15, <2>16, <2>17, <2>18, <2>19, <2>20, <2>21, <2>22 DEF Next, ApplierStep, LoopStep, ChildStep
<1>3. DataOK /\ [Next]_vars => DataOK'
  <2> SUFFICES ASSUME DataOK, [Next]_vars PROVE DataOK'
    OBVIOUS
  <2> USE DEF DataOK
  <2>1. ASSUME NEW c \in Configs, Apply(c) PROVE DataOK'
    BY <2>1 DEF Apply
  <2>2. CASE Install
    BY <2>2 DEF Install, Verdicts
  <2>3. CASE ReloadNotRunning
    BY <2>3 DEF ReloadNotRunning, Verdicts
  <2>4. CASE ReloadSignalFails
    BY <2>4 DEF ReloadSignalFails, Verdicts
  <2>5. CASE ReloadSignal
    BY <2>5 DEF ReloadSignal
  <2>6. CASE TakeVerdict
    BY <2>6 DEF TakeVerdict, Verdicts
  <2>7. CASE ReloadTimeout
    BY <2>7 DEF ReloadTimeout, Verdicts
  <2>8. CASE Archive
    BY <2>8 DEF Archive, Verdicts
  <2>9. CASE Restore
    BY <2>9 DEF Restore, Verdicts
  <2>10. CASE Rehup
    BY <2>10 DEF Rehup
  <2>11. CASE Spawn
    BY <2>11 DEF Spawn
  <2>12. CASE Register
    BY <2>12 DEF Register
  <2>13. CASE Reap
    BY <2>13 DEF Reap
  <2>14. CASE WaitDelay
    BY <2>14 DEF WaitDelay, Lines
  <2>15. CASE LoopExit
    BY <2>15 DEF LoopExit
  <2>16. CASE Backoff
    BY <2>16 DEF Backoff
  <2>17. CASE ChildStart
    BY <2>17 DEF ChildStart
  <2>18. CASE ChildReload
    <3>1. <<"reverting", "finished">> \in Seq(Lines)
      BY DEF Lines
    <3>2. pipe \o <<"reverting", "finished">> \in Seq(Lines)
      BY <3>1
    <3>3. Append(pipe, "finished") \in Seq(Lines) /\ Append(pipe, "error") \in Seq(Lines)
      BY DEF Lines
    <3>4. pipe' \in Seq(Lines) /\ loaded' \in Configs
      BY <2>18, <3>2, <3>3 DEF ChildReload
    <3>5. QED
      BY <2>18, <3>4 DEF ChildReload
  <2>19. CASE ChildExit
    BY <2>19 DEF ChildExit
  <2>20. CASE LogLine
    BY <2>20 DEF LogLine, Finish, Lines
  <2>21. CASE Cancel
    BY <2>21 DEF Cancel
  <2>22. CASE UNCHANGED vars
    BY <2>22 DEF vars
  <2>23. QED
    BY <2>1, <2>2, <2>3, <2>4, <2>5, <2>6, <2>7, <2>8, <2>9, <2>10, <2>11, <2>12, <2>13, <2>14, <2>15, <2>16, <2>17, <2>18, <2>19, <2>20, <2>21, <2>22 DEF Next, ApplierStep, LoopStep, ChildStep
<1>4. QED
  BY <1>1, <1>2, <1>3, PTL DEF Spec, TypeOK

(* A process the run loop has left behind holds no signal and no output.      *)
LEMMA ProcessCorrect == Spec => []ProcessInv
<1> USE DEF applier, waiter, runner, process, ghosts
<1>1. Init => ProcessInv
  BY ConfigsAssumption DEF Init, ProcessInv, Alive, DataOK
<1>2. ProcessInv /\ DataOK /\ [Next]_vars => ProcessInv'
  <2> SUFFICES ASSUME ProcessInv, DataOK, [Next]_vars PROVE ProcessInv'
    OBVIOUS
  <2> USE DEF ProcessInv, Alive, DataOK
  <2>1. ASSUME NEW c \in Configs, Apply(c) PROVE ProcessInv'
    BY <2>1 DEF Apply
  <2>2. CASE Install
    BY <2>2 DEF Install
  <2>3. CASE ReloadNotRunning
    BY <2>3 DEF ReloadNotRunning
  <2>4. CASE ReloadSignalFails
    BY <2>4 DEF ReloadSignalFails
  <2>5. CASE ReloadSignal
    BY <2>5 DEF ReloadSignal
  <2>6. CASE TakeVerdict
    BY <2>6 DEF TakeVerdict
  <2>7. CASE ReloadTimeout
    BY <2>7 DEF ReloadTimeout
  <2>8. CASE Archive
    BY <2>8 DEF Archive
  <2>9. CASE Restore
    BY <2>9 DEF Restore
  <2>10. CASE Rehup
    BY <2>10 DEF Rehup
  <2>11. CASE Spawn
    BY <2>11 DEF Spawn
  <2>12. CASE Register
    BY <2>12 DEF Register
  <2>13. CASE Reap
    BY <2>13 DEF Reap
  <2>14. CASE WaitDelay
    BY <2>14 DEF WaitDelay
  <2>15. CASE LoopExit
    BY <2>15 DEF LoopExit
  <2>16. CASE Backoff
    BY <2>16 DEF Backoff
  <2>17. CASE ChildStart
    BY <2>17 DEF ChildStart
  <2>18. CASE ChildReload
    BY <2>18 DEF ChildReload
  <2>19. CASE ChildExit
    BY <2>19 DEF ChildExit
  <2>20. CASE LogLine
    BY <2>20 DEF LogLine, Finish
  <2>21. CASE Cancel
    BY <2>21 DEF Cancel
  <2>22. CASE UNCHANGED vars
    BY <2>22 DEF vars
  <2>23. QED
    BY <2>1, <2>2, <2>3, <2>4, <2>5, <2>6, <2>7, <2>8, <2>9, <2>10, <2>11, <2>12, <2>13, <2>14, <2>15, <2>16, <2>17, <2>18, <2>19, <2>20, <2>21, <2>22 DEF Next, ApplierStep, LoopStep, ChildStep
<1>3. QED
  BY <1>1, <1>2, TypeCorrect, PTL DEF Spec, TypeOK

(* A waiting Apply is owed exactly one verdict, and nobody else has a waiter. *)
THEOREM VerdictOwed == Spec => []OneVerdictOwed
<1> USE DEF applier, waiter, runner, process, ghosts
<1>1. Init => OneVerdictOwed
  BY ConfigsAssumption DEF Init, OneVerdictOwed
<1>2. OneVerdictOwed /\ [Next]_vars => OneVerdictOwed'
  <2> SUFFICES ASSUME OneVerdictOwed, [Next]_vars PROVE OneVerdictOwed'
    OBVIOUS
  <2> USE DEF OneVerdictOwed
  <2>1. ASSUME NEW c \in Configs, Apply(c) PROVE OneVerdictOwed'
    BY <2>1 DEF Apply
  <2>2. CASE Install
    BY <2>2 DEF Install
  <2>3. CASE ReloadNotRunning
    BY <2>3 DEF ReloadNotRunning
  <2>4. CASE ReloadSignalFails
    BY <2>4 DEF ReloadSignalFails
  <2>5. CASE ReloadSignal
    BY <2>5 DEF ReloadSignal
  <2>6. CASE TakeVerdict
    BY <2>6 DEF TakeVerdict
  <2>7. CASE ReloadTimeout
    BY <2>7 DEF ReloadTimeout
  <2>8. CASE Archive
    BY <2>8 DEF Archive
  <2>9. CASE Restore
    BY <2>9 DEF Restore
  <2>10. CASE Rehup
    BY <2>10 DEF Rehup
  <2>11. CASE Spawn
    BY <2>11 DEF Spawn
  <2>12. CASE Register
    BY <2>12 DEF Register
  <2>13. CASE Reap
    BY <2>13 DEF Reap
  <2>14. CASE WaitDelay
    BY <2>14 DEF WaitDelay
  <2>15. CASE LoopExit
    BY <2>15 DEF LoopExit
  <2>16. CASE Backoff
    BY <2>16 DEF Backoff
  <2>17. CASE ChildStart
    BY <2>17 DEF ChildStart
  <2>18. CASE ChildReload
    BY <2>18 DEF ChildReload
  <2>19. CASE ChildExit
    BY <2>19 DEF ChildExit
  <2>20. CASE LogLine
    BY <2>20 DEF LogLine, Finish
  <2>21. CASE Cancel
    BY <2>21 DEF Cancel
  <2>22. CASE UNCHANGED vars
    BY <2>22 DEF vars
  <2>23. QED
    BY <2>1, <2>2, <2>3, <2>4, <2>5, <2>6, <2>7, <2>8, <2>9, <2>10, <2>11, <2>12, <2>13, <2>14, <2>15, <2>16, <2>17, <2>18, <2>19, <2>20, <2>21, <2>22 DEF Next, ApplierStep, LoopStep, ChildStep
<1>3. QED
  BY <1>1, <1>2, PTL DEF Spec

(* What is installed while an Apply is under way, and what it may answer.     *)
LEMMA InstalledCorrect == Spec => [](InstalledInv /\ VerdictInv)
<1> USE DEF applier, waiter, runner, process, ghosts
<1>1. Init => (InstalledInv /\ VerdictInv)
  BY ConfigsAssumption DEF Init, InstalledInv, VerdictInv, OneVerdictOwed
<1>2. (InstalledInv /\ VerdictInv) /\ OneVerdictOwed /\ [Next]_vars => (InstalledInv /\ VerdictInv)'
  <2> SUFFICES ASSUME (InstalledInv /\ VerdictInv), OneVerdictOwed, [Next]_vars PROVE (InstalledInv /\ VerdictInv)'
    OBVIOUS
  <2> USE DEF InstalledInv, VerdictInv, OneVerdictOwed
  <2>1. ASSUME NEW c \in Configs, Apply(c) PROVE (InstalledInv /\ VerdictInv)'
    BY <2>1 DEF Apply
  <2>2. CASE Install
    BY <2>2 DEF Install
  <2>3. CASE ReloadNotRunning
    BY <2>3 DEF ReloadNotRunning
  <2>4. CASE ReloadSignalFails
    BY <2>4 DEF ReloadSignalFails
  <2>5. CASE ReloadSignal
    BY <2>5 DEF ReloadSignal
  <2>6. CASE TakeVerdict
    BY <2>6 DEF TakeVerdict
  <2>7. CASE ReloadTimeout
    BY <2>7 DEF ReloadTimeout
  <2>8. CASE Archive
    BY <2>8 DEF Archive
  <2>9. CASE Restore
    BY <2>9 DEF Restore
  <2>10. CASE Rehup
    BY <2>10 DEF Rehup
  <2>11. CASE Spawn
    BY <2>11 DEF Spawn
  <2>12. CASE Register
    BY <2>12 DEF Register
  <2>13. CASE Reap
    BY <2>13 DEF Reap
  <2>14. CASE WaitDelay
    BY <2>14 DEF WaitDelay
  <2>15. CASE LoopExit
    BY <2>15 DEF LoopExit
  <2>16. CASE Backoff
    BY <2>16 DEF Backoff
  <2>17. CASE ChildStart
    BY <2>17 DEF ChildStart
  <2>18. CASE ChildReload
    BY <2>18 DEF ChildReload
  <2>19. CASE ChildExit
    BY <2>19 DEF ChildExit
  <2>20. CASE LogLine
    BY <2>20 DEF LogLine, Finish
  <2>21. CASE Cancel
    BY <2>21 DEF Cancel
  <2>22. CASE UNCHANGED vars
    BY <2>22 DEF vars
  <2>23. QED
    BY <2>1, <2>2, <2>3, <2>4, <2>5, <2>6, <2>7, <2>8, <2>9, <2>10, <2>11, <2>12, <2>13, <2>14, <2>15, <2>16, <2>17, <2>18, <2>19, <2>20, <2>21, <2>22 DEF Next, ApplierStep, LoopStep, ChildStep
<1>3. QED
  BY <1>1, <1>2, VerdictOwed, PTL DEF Spec

(* A refused or unconfirmed Apply leaves the file it found, if it could read  *)
(* it, and else the configuration it installed.                               *)
THEOREM RefusalCorrect == Spec => []RefusalRestores
<1> USE DEF applier, waiter, runner, process, ghosts
<1>1. Init => RefusalRestores
  BY ConfigsAssumption DEF Init, RefusalRestores
<1>2. RefusalRestores /\ InstalledInv /\ VerdictInv /\ [Next]_vars => RefusalRestores'
  <2> SUFFICES ASSUME RefusalRestores, InstalledInv, VerdictInv, [Next]_vars PROVE RefusalRestores'
    OBVIOUS
  <2> USE DEF RefusalRestores, VerdictInv
  <2>1. ASSUME NEW c \in Configs, Apply(c) PROVE RefusalRestores'
    BY <2>1 DEF Apply
  <2>2. CASE Install
    BY <2>2 DEF Install
  <2>3. CASE ReloadNotRunning
    BY <2>3 DEF ReloadNotRunning
  <2>4. CASE ReloadSignalFails
    BY <2>4 DEF ReloadSignalFails
  <2>5. CASE ReloadSignal
    BY <2>5 DEF ReloadSignal
  <2>6. CASE TakeVerdict
    BY <2>6 DEF TakeVerdict
  <2>7. CASE ReloadTimeout
    BY <2>7 DEF ReloadTimeout
  <2>8. CASE Archive
    BY <2>8 DEF Archive
  <2>9. CASE Restore
    BY <2>9 DEF Restore, InstalledInv
  <2>10. CASE Rehup
    BY <2>10 DEF Rehup
  <2>11. CASE Spawn
    BY <2>11 DEF Spawn
  <2>12. CASE Register
    BY <2>12 DEF Register
  <2>13. CASE Reap
    BY <2>13 DEF Reap
  <2>14. CASE WaitDelay
    BY <2>14 DEF WaitDelay
  <2>15. CASE LoopExit
    BY <2>15 DEF LoopExit
  <2>16. CASE Backoff
    BY <2>16 DEF Backoff
  <2>17. CASE ChildStart
    BY <2>17 DEF ChildStart
  <2>18. CASE ChildReload
    BY <2>18 DEF ChildReload
  <2>19. CASE ChildExit
    BY <2>19 DEF ChildExit
  <2>20. CASE LogLine
    BY <2>20 DEF LogLine, Finish
  <2>21. CASE Cancel
    BY <2>21 DEF Cancel
  <2>22. CASE UNCHANGED vars
    BY <2>22 DEF vars
  <2>23. QED
    BY <2>1, <2>2, <2>3, <2>4, <2>5, <2>6, <2>7, <2>8, <2>9, <2>10, <2>11, <2>12, <2>13, <2>14, <2>15, <2>16, <2>17, <2>18, <2>19, <2>20, <2>21, <2>22 DEF Next, ApplierStep, LoopStep, ChildStep
<1>3. QED
  BY <1>1, <1>2, InstalledCorrect, PTL DEF Spec, TypeOK

(* What syslog-ng reports while an Apply waits is about its configuration.     *)
LEMMA ReportCorrect == Spec => [](Settled /\ AwaitInv)
<1> USE DEF applier, waiter, runner, process, ghosts
<1>1. Init => (Settled /\ AwaitInv)
  BY ConfigsAssumption DEF Init, Settled, AwaitInv, OwnReport, ProcessInv, OneVerdictOwed, InstalledInv, Alive, DataOK
<1>2. (Settled /\ AwaitInv) /\ DataOK /\ ProcessInv /\ OneVerdictOwed /\ InstalledInv /\ [Next]_vars => (Settled /\ AwaitInv)'
  <2> SUFFICES ASSUME (Settled /\ AwaitInv), DataOK, ProcessInv, OneVerdictOwed, InstalledInv, [Next]_vars PROVE (Settled /\ AwaitInv)'
    OBVIOUS
  <2> USE DEF Settled, AwaitInv, OwnReport, ProcessInv, OneVerdictOwed, InstalledInv, Alive, DataOK
  <2>1. ASSUME NEW c \in Configs, Apply(c) PROVE (Settled /\ AwaitInv)'
    BY <2>1 DEF Apply
  <2>2. CASE Install
    BY <2>2 DEF Install
  <2>3. CASE ReloadNotRunning
    BY <2>3 DEF ReloadNotRunning
  <2>4. CASE ReloadSignalFails
    BY <2>4 DEF ReloadSignalFails
  <2>5. CASE ReloadSignal
    BY <2>5 DEF ReloadSignal
  <2>6. CASE TakeVerdict
    BY <2>6 DEF TakeVerdict
  <2>7. CASE ReloadTimeout
    BY <2>7 DEF ReloadTimeout
  <2>8. CASE Archive
    BY <2>8 DEF Archive
  <2>9. CASE Restore
    BY <2>9 DEF Restore
  <2>10. CASE Rehup
    BY <2>10 DEF Rehup
  <2>11. CASE Spawn
    BY <2>11 DEF Spawn
  <2>12. CASE Register
    BY <2>12 DEF Register
  <2>13. CASE Reap
    BY <2>13 DEF Reap
  <2>14. CASE WaitDelay
    BY <2>14 DEF WaitDelay
  <2>15. CASE LoopExit
    BY <2>15 DEF LoopExit
  <2>16. CASE Backoff
    BY <2>16 DEF Backoff
  <2>17. CASE ChildStart
    <3>1. (confirmed => confirmed') /\ (hup' => hup)
      <4>1. CASE current \in Refused
        BY <2>17, <4>1 DEF ChildStart
      <4>2. CASE current \notin Refused
        <5>1. hup' = hup /\ confirmed' = (confirmed \/ (pc \in {"reload", "await"} /\ current = target))
          BY <2>17, <4>2 DEF ChildStart
        <5>2. QED
          BY <5>1, Zenon
      <4>3. QED
        BY <4>1, <4>2
    <3>2. UNCHANGED <<applier, waiter, pipe, unsettled>>
      BY <2>17 DEF ChildStart
    <3>3. OwnReport => OwnReport'
      BY <3>1, <3>2 DEF OwnReport
    <3>4. QED
      BY <3>1, <3>2, <3>3
  <2>18. CASE ChildReload
    <3>1. UNCHANGED <<applier, waiter, unsettled>> /\ ~hup' /\ hup
      BY <2>18 DEF ChildReload
    <3>2. CASE unsettled
      BY <3>1, <3>2
    <3>3. CASE ~unsettled
      <4>1. pc = "await" /\ reload = "armed" /\ pipe = <<>> /\ current = target
        BY <2>18, <3>3 DEF ChildReload
      <4>2. Append(pipe, "finished") = <<"finished">> /\ Append(pipe, "error") = <<"error">>
        BY <4>1
      <4>3. pipe \o <<"reverting", "finished">> = <<"reverting", "finished">>
        BY <4>1
      <4>4. \/ pipe' = <<"finished">> /\ confirmed'
            \/ pipe' = <<"reverting", "finished">> /\ target \in Refused
            \/ pipe' = <<"error">> /\ target \in Refused
        BY <2>18, <4>1, <4>2, <4>3 DEF ChildReload
      <4>5. OwnReport'
        BY <3>1, <4>1, <4>4 DEF OwnReport
      <4>6. result = "empty"
        BY <4>1
      <4>7. QED
        BY <3>1, <4>1, <4>5, <4>6
    <3>4. QED
      BY <3>2, <3>3
  <2>19. CASE ChildExit
    BY <2>19 DEF ChildExit
  <2>20. CASE LogLine
    <3>1. UNCHANGED <<applier, hup, ghosts>> /\ pipe # <<>> /\ pipe' = Tail(pipe)
      BY <2>20 DEF LogLine
    <3>2. CASE unsettled
      BY <3>1, <3>2
    <3>3. CASE ~unsettled
      <4>1. pc = "await" /\ reload # "none" /\ ~hup /\ OwnReport
        BY <3>1, <3>3
      <4>2. Tail(<<"finished">>) = <<>> /\ Tail(<<"error">>) = <<>>
        OBVIOUS
      <4>3. Tail(<<"reverting", "finished">>) = <<"finished">>
        OBVIOUS
      <4>4. CASE pipe = <<"finished">> /\ reload = "armed" /\ confirmed
        <5>1. pipe' = <<>> /\ reload' = "none" /\ result' = "ok"
          BY <2>20, <3>1, <4>2, <4>4 DEF LogLine, Finish
        <5>2. QED
          BY <3>1, <4>1, <4>4, <5>1
      <4>5. CASE pipe = <<"finished">> /\ reload = "failed" /\ target \in Refused
        <5>1. pipe' = <<>> /\ reload' = "none" /\ result' = "refused"
          BY <2>20, <3>1, <4>2, <4>5 DEF LogLine, Finish
        <5>2. QED
          BY <3>1, <4>1, <4>5, <5>1
      <4>6. CASE pipe = <<"reverting", "finished">> /\ target \in Refused
        <5>1. pipe' = <<"finished">> /\ reload' = "failed" /\ result' = result
          BY <2>20, <3>1, <4>1, <4>3, <4>6 DEF LogLine, Finish
        <5>2. QED
          BY <3>1, <4>1, <4>6, <5>1
      <4>7. CASE pipe = <<"error">> /\ target \in Refused
        <5>1. pipe' = <<>> /\ reload' = "none" /\ result' = "refused"
          BY <2>20, <3>1, <4>1, <4>2, <4>7 DEF LogLine, Finish
        <5>2. QED
          BY <3>1, <4>1, <4>7, <5>1
      <4>8. QED
        BY <3>1, <4>1, <4>4, <4>5, <4>6, <4>7 DEF OwnReport
    <3>4. QED
      BY <3>2, <3>3
  <2>21. CASE Cancel
    BY <2>21 DEF Cancel
  <2>22. CASE UNCHANGED vars
    BY <2>22 DEF vars
  <2>23. QED
    BY <2>1, <2>2, <2>3, <2>4, <2>5, <2>6, <2>7, <2>8, <2>9, <2>10, <2>11, <2>12, <2>13, <2>14, <2>15, <2>16, <2>17, <2>18, <2>19, <2>20, <2>21, <2>22 DEF Next, ApplierStep, LoopStep, ChildStep
<1>3. QED
  BY <1>1, <1>2, TypeCorrect, ProcessCorrect, VerdictOwed, InstalledCorrect, PTL DEF Spec, TypeOK

(* A reload never takes a confirmation back, and outside Apply's wait it gives *)
(* none.                                                                      *)
LEMMA ReloadConfirms ==
  ASSUME ChildReload
  PROVE  (confirmed => confirmed') /\ (pc \notin {"reload", "await"} => (confirmed' => confirmed))
<1>1. CASE current \in Refused
  <2>1. confirmed' = confirmed
    BY <1>1 DEF ChildReload
  <2>2. QED
    BY <2>1
<1>2. CASE current \notin Refused
  <2>1. confirmed' = (confirmed \/ (pc \in {"reload", "await"} /\ current = target))
    BY <1>2 DEF ChildReload
  <2>2. QED
    BY <2>1, Zenon
<1>3. QED
  BY <1>1, <1>2

(* A verdict an Apply acts on is about the configuration it applies, unless   *)
(* an earlier one ended without a verdict in the life of this process.        *)
THEOREM VerdictCorrect == Spec => []VerdictIsOurs
<1> USE DEF applier, waiter, runner, process, ghosts
<1>1. Init => VerdictIsOurs
  BY ConfigsAssumption DEF Init, VerdictIsOurs, AwaitInv, InstalledInv
<1>2. VerdictIsOurs /\ AwaitInv /\ InstalledInv /\ [Next]_vars => VerdictIsOurs'
  <2> SUFFICES ASSUME VerdictIsOurs, AwaitInv, InstalledInv, [Next]_vars PROVE VerdictIsOurs'
    OBVIOUS
  <2> USE DEF VerdictIsOurs, AwaitInv, InstalledInv
  <2>1. ASSUME NEW c \in Configs, Apply(c) PROVE VerdictIsOurs'
    BY <2>1 DEF Apply
  <2>2. CASE Install
    BY <2>2 DEF Install
  <2>3. CASE ReloadNotRunning
    BY <2>3 DEF ReloadNotRunning
  <2>4. CASE ReloadSignalFails
    BY <2>4 DEF ReloadSignalFails
  <2>5. CASE ReloadSignal
    BY <2>5 DEF ReloadSignal
  <2>6. CASE TakeVerdict
    BY <2>6 DEF TakeVerdict
  <2>7. CASE ReloadTimeout
    BY <2>7 DEF ReloadTimeout
  <2>8. CASE Archive
    BY <2>8 DEF Archive
  <2>9. CASE Restore
    BY <2>9 DEF Restore
  <2>10. CASE Rehup
    BY <2>10 DEF Rehup
  <2>11. CASE Spawn
    BY <2>11 DEF Spawn
  <2>12. CASE Register
    BY <2>12 DEF Register
  <2>13. CASE Reap
    BY <2>13 DEF Reap
  <2>14. CASE WaitDelay
    BY <2>14 DEF WaitDelay
  <2>15. CASE LoopExit
    BY <2>15 DEF LoopExit
  <2>16. CASE Backoff
    BY <2>16 DEF Backoff
  <2>17. CASE ChildStart
    BY <2>17 DEF ChildStart
  <2>18. CASE ChildReload
    <3>2. (confirmed => confirmed') /\ (pc \notin {"reload", "await"} => (confirmed' => confirmed))
      BY <2>18, ReloadConfirms
    <3>3. UNCHANGED <<pc, verdict, target, unsettled>>
      BY <2>18 DEF ChildReload
    <3>4. QED
      BY <3>2, <3>3
  <2>19. CASE ChildExit
    BY <2>19 DEF ChildExit
  <2>20. CASE LogLine
    BY <2>20 DEF LogLine, Finish
  <2>21. CASE Cancel
    BY <2>21 DEF Cancel
  <2>22. CASE UNCHANGED vars
    BY <2>22 DEF vars
  <2>23. QED
    BY <2>1, <2>2, <2>3, <2>4, <2>5, <2>6, <2>7, <2>8, <2>9, <2>10, <2>11, <2>12, <2>13, <2>14, <2>15, <2>16, <2>17, <2>18, <2>19, <2>20, <2>21, <2>22 DEF Next, ApplierStep, LoopStep, ChildStep
<1>3. QED
  BY <1>1, <1>2, ReportCorrect, InstalledCorrect, PTL DEF Spec

(* Once it loaded the target, a running syslog-ng runs it until the archive.  *)
LEMMA ConfirmedCorrect == Spec => []ConfirmedInv
<1> USE DEF applier, waiter, runner, process, ghosts
<1>1. Init => ConfirmedInv
  BY ConfigsAssumption DEF Init, ConfirmedInv, InstalledInv
<1>2. ConfirmedInv /\ InstalledInv /\ OneVerdictOwed /\ [Next]_vars => ConfirmedInv'
  <2> SUFFICES ASSUME ConfirmedInv, InstalledInv, OneVerdictOwed, [Next]_vars PROVE ConfirmedInv'
    OBVIOUS
  <2> USE DEF ConfirmedInv, InstalledInv
  <2>1. ASSUME NEW c \in Configs, Apply(c) PROVE ConfirmedInv'
    BY <2>1 DEF Apply
  <2>2. CASE Install
    BY <2>2 DEF Install
  <2>3. CASE ReloadNotRunning
    BY <2>3 DEF ReloadNotRunning
  <2>4. CASE ReloadSignalFails
    BY <2>4 DEF ReloadSignalFails
  <2>5. CASE ReloadSignal
    BY <2>5 DEF ReloadSignal
  <2>6. CASE TakeVerdict
    BY <2>6 DEF TakeVerdict
  <2>7. CASE ReloadTimeout
    BY <2>7 DEF ReloadTimeout
  <2>8. CASE Archive
    BY <2>8 DEF Archive
  <2>9. CASE Restore
    BY <2>9 DEF Restore
  <2>10. CASE Rehup
    BY <2>10 DEF Rehup
  <2>11. CASE Spawn
    BY <2>11 DEF Spawn
  <2>12. CASE Register
    BY <2>12 DEF Register
  <2>13. CASE Reap
    BY <2>13 DEF Reap
  <2>14. CASE WaitDelay
    BY <2>14 DEF WaitDelay
  <2>15. CASE LoopExit
    BY <2>15 DEF LoopExit
  <2>16. CASE Backoff
    BY <2>16 DEF Backoff
  <2>17. CASE ChildStart
    <3>1. \/ confirmed' = (confirmed \/ (pc \in {"reload", "await"} /\ current = target))
          \/ confirmed' = confirmed
      BY <2>17, Zenon DEF ChildStart
    <3>2. pc = "install" => (confirmed' => confirmed)
      BY <3>1, Zenon
    <3>3. UNCHANGED <<pc, target, current>> /\ (child' = "ready" => loaded' = current)
      BY <2>17 DEF ChildStart
    <3>4. QED
      BY <3>2, <3>3
  <2>18. CASE ChildReload
    <3>2. (confirmed => confirmed') /\ (pc \notin {"reload", "await"} => (confirmed' => confirmed))
      BY <2>18, ReloadConfirms
    <3>3. UNCHANGED <<pc, target, child>> /\ child = "ready" /\ loaded' \in {loaded, current}
      BY <2>18 DEF ChildReload
    <3>4. CASE loaded' = current
      BY <3>2, <3>3, <3>4
    <3>5. CASE loaded' = loaded
      <4>1. CASE current \in Refused
        <5>1. confirmed' = confirmed
          BY <2>18, <4>1 DEF ChildReload
        <5>2. QED
          BY <3>3, <3>5, <5>1
      <4>2. CASE current \notin Refused
        <5>1. loaded' = current
          BY <2>18, <4>2 DEF ChildReload
        <5>2. QED
          BY <3>4, <5>1
      <4>3. QED
        BY <4>1, <4>2
    <3>6. QED
      BY <3>3, <3>4, <3>5
  <2>19. CASE ChildExit
    BY <2>19 DEF ChildExit
  <2>20. CASE LogLine
    BY <2>20 DEF LogLine, Finish
  <2>21. CASE Cancel
    BY <2>21 DEF Cancel
  <2>22. CASE UNCHANGED vars
    BY <2>22 DEF vars
  <2>23. QED
    BY <2>1, <2>2, <2>3, <2>4, <2>5, <2>6, <2>7, <2>8, <2>9, <2>10, <2>11, <2>12, <2>13, <2>14, <2>15, <2>16, <2>17, <2>18, <2>19, <2>20, <2>21, <2>22 DEF Next, ApplierStep, LoopStep, ChildStep
<1>3. QED
  BY <1>1, <1>2, InstalledCorrect, VerdictOwed, PTL DEF Spec

(* Between two Applies syslog-ng runs current.conf, and during one of a        *)
(* configuration it refuses, the previous text if Apply could read it.        *)
LEMMA KeptCorrect == Spec => []KeptInv
<1> USE DEF applier, waiter, runner, process, ghosts
<1>1. Init => KeptInv
  BY ConfigsAssumption DEF Init, KeptInv, ProcessInv, Settled, InstalledInv, VerdictInv, VerdictIsOurs, ConfirmedInv, Alive, DataOK
<1>2. KeptInv /\ DataOK /\ ProcessInv /\ Settled /\ InstalledInv /\ VerdictInv /\ VerdictIsOurs /\ ConfirmedInv /\ [Next]_vars => KeptInv'
  <2> SUFFICES ASSUME KeptInv, DataOK, ProcessInv, Settled, InstalledInv, VerdictInv, VerdictIsOurs, ConfirmedInv, [Next]_vars PROVE KeptInv'
    OBVIOUS
  <2> USE DEF KeptInv, ProcessInv, Settled, InstalledInv, VerdictInv, VerdictIsOurs, ConfirmedInv, Alive, DataOK
  <2>1. ASSUME NEW c \in Configs, Apply(c) PROVE KeptInv'
    BY <2>1 DEF Apply
  <2>2. CASE Install
    BY <2>2 DEF Install
  <2>3. CASE ReloadNotRunning
    BY <2>3 DEF ReloadNotRunning
  <2>4. CASE ReloadSignalFails
    BY <2>4 DEF ReloadSignalFails
  <2>5. CASE ReloadSignal
    BY <2>5 DEF ReloadSignal
  <2>6. CASE TakeVerdict
    BY <2>6 DEF TakeVerdict
  <2>7. CASE ReloadTimeout
    BY <2>7 DEF ReloadTimeout
  <2>8. CASE Archive
    BY <2>8 DEF Archive
  <2>9. CASE Restore
    BY <2>9 DEF Restore
  <2>10. CASE Rehup
    BY <2>10 DEF Rehup
  <2>11. CASE Spawn
    BY <2>11 DEF Spawn
  <2>12. CASE Register
    BY <2>12 DEF Register
  <2>13. CASE Reap
    BY <2>13 DEF Reap
  <2>14. CASE WaitDelay
    BY <2>14 DEF WaitDelay
  <2>15. CASE LoopExit
    BY <2>15 DEF LoopExit
  <2>16. CASE Backoff
    BY <2>16 DEF Backoff
  <2>17. CASE ChildStart
    BY <2>17 DEF ChildStart
  <2>18. CASE ChildReload
    BY <2>18 DEF ChildReload
  <2>19. CASE ChildExit
    BY <2>19 DEF ChildExit
  <2>20. CASE LogLine
    BY <2>20 DEF LogLine, Finish
  <2>21. CASE Cancel
    BY <2>21 DEF Cancel
  <2>22. CASE UNCHANGED vars
    BY <2>22 DEF vars
  <2>23. QED
    BY <2>1, <2>2, <2>3, <2>4, <2>5, <2>6, <2>7, <2>8, <2>9, <2>10, <2>11, <2>12, <2>13, <2>14, <2>15, <2>16, <2>17, <2>18, <2>19, <2>20, <2>21, <2>22 DEF Next, ApplierStep, LoopStep, ChildStep
<1>3. QED
  BY <1>1, <1>2, TypeCorrect, ProcessCorrect, ReportCorrect, InstalledCorrect, VerdictCorrect, ConfirmedCorrect, PTL DEF Spec, TypeOK

(* Under the same premise a running syslog-ng runs what is installed, or a    *)
(* restart kick is pending.                                                   *)
THEOREM InstalledRuns == Spec => []RunsInstalled
<1>1. KeptInv => RunsInstalled
  BY DEF KeptInv, RunsInstalled
<1>2. QED
  BY <1>1, KeptCorrect, PTL

===============================================================================
