------------------------------- MODULE Job_proofs -------------------------------
(***************************************************************************)
(* The job's safety, for any number of concurrent callers, runs and        *)
(* configurations.                                                         *)
(***************************************************************************)
EXTENDS Job, TLAPS

(* A Delete past its mark has marked the job; the run it waits for is the     *)
(* job's last, since no other can begin.                                      *)
DeletedInv ==
  /\ \A p \in Procs : pc[p] \in {"haltDeleted", "waitDeleted"} => deleted
  /\ \A p \in Procs : pc[p] = "waitDeleted" => awaited[p] = cur
  /\ quiet => deleted /\ state = "idle"

(* A run that has not begun has sent nothing; one that can still send has     *)
(* room for it.                                                               *)
RoomInv ==
  \A k \in Runs :
    /\ phase[k] = "none" => emitted[k] = 0
    /\ Limit[runCfg[k]] > 0 =>
         /\ phase[k] \in {"dial", "loop", "send"} => emitted[k] < Limit[runCfg[k]]
         /\ emitted[k] <= Limit[runCfg[k]]

CounterInv == cur \in Runs => sent = emitted[cur]

RunInv == OneRun /\ CancelReady
-------------------------------------------------------------------------------
(* Every variable keeps its type.                                             *)
LEMMA TypeStep ==
  /\ Init => TypeOK
  /\ TypeOK /\ RunInv /\ [Next]_vars => TypeOK'
<1> USE JobAssumption DEF job, runs, callers
<1>1. ASSUME Init PROVE TypeOK
  <2>1. FlagsOK
    BY <1>1, Zenon DEF Init, FlagsOK
  <2>2. DataOK
    BY <1>1 DEF Init, DataOK
  <2>3. QED
    BY <2>1, <2>2 DEF TypeOK
<1>2. TypeOK /\ RunInv /\ [Next]_vars => TypeOK'
  <2> SUFFICES ASSUME TypeOK, RunInv, [Next]_vars PROVE TypeOK'
    OBVIOUS
  <2> USE DEF TypeOK, DataOK
  <2>1. ASSUME NEW p \in Procs, LookupToStart(p) PROVE TypeOK'
    <3>1. FlagsOK'
      BY <2>1, Zenon DEF LookupToStart, FlagsOK
    <3>2. DataOK'
      BY <2>1 DEF LookupToStart, Goto
    <3>3. QED
      BY <3>1, <3>2
  <2>2. ASSUME NEW p \in Procs, LookupToStop(p) PROVE TypeOK'
    <3>1. FlagsOK'
      BY <2>2, Zenon DEF LookupToStop, FlagsOK
    <3>2. DataOK'
      BY <2>2 DEF LookupToStop, Goto
    <3>3. QED
      BY <3>1, <3>2
  <2>3. ASSUME NEW p \in Procs, Unmap(p) PROVE TypeOK'
    <3>1. FlagsOK'
      BY <2>3, Zenon DEF Unmap, FlagsOK
    <3>2. DataOK'
      BY <2>3 DEF Unmap, Goto
    <3>3. QED
      BY <3>1, <3>2
  <2>4. ASSUME NEW p \in Procs, MarkDeleted(p) PROVE TypeOK'
    <3>1. FlagsOK'
      BY <2>4, Zenon DEF MarkDeleted, FlagsOK
    <3>2. DataOK'
      BY <2>4 DEF MarkDeleted, Goto
    <3>3. QED
      BY <3>1, <3>2
  <2>5. ASSUME NEW p \in Procs, StartRefused(p) PROVE TypeOK'
    <3>1. FlagsOK'
      BY <2>5, Zenon DEF StartRefused, FlagsOK
    <3>2. DataOK'
      BY <2>5 DEF StartRefused, Goto
    <3>3. QED
      BY <3>1, <3>2
  <2>6. ASSUME NEW p \in Procs, Halt(p) PROVE TypeOK'
    <3>1. cur \in Runs \/ state = "idle"
      BY Zenon DEF RunInv, CancelReady
    <3>2. FlagsOK'
      BY <2>6, Zenon DEF Halt, FlagsOK
    <3>3. DataOK'
      BY <2>6, <3>1 DEF Halt, Goto
    <3>4. QED
      BY <3>2, <3>3
  <2>7. ASSUME NEW p \in Procs, HaltDone(p) PROVE TypeOK'
    <3>1. FlagsOK'
      BY <2>7, Zenon DEF HaltDone, FlagsOK
    <3>2. DataOK'
      BY <2>7 DEF HaltDone, Goto, Waits
    <3>3. QED
      BY <3>1, <3>2
  <2>8. ASSUME NEW p \in Procs, HaltTimeout(p) PROVE TypeOK'
    <3>1. FlagsOK'
      BY <2>8, Zenon DEF HaltTimeout, FlagsOK
    <3>2. DataOK'
      BY <2>8 DEF HaltTimeout, Goto, Waits
    <3>3. QED
      BY <3>1, <3>2
  <2>9. ASSUME NEW p \in Procs, NEW k \in Runs, Start(p,k) PROVE TypeOK'
    <3>1. FlagsOK'
      BY <2>9, Zenon DEF Start, Begin, FlagsOK
    <3>2. DataOK'
      BY <2>9 DEF Start, Goto, Begin
    <3>3. QED
      BY <3>1, <3>2
  <2>10. ASSUME NEW k \in Runs, Dial(k) PROVE TypeOK'
    <3>1. FlagsOK'
      BY <2>10, Zenon DEF Dial, FlagsOK
    <3>2. DataOK'
      BY <2>10 DEF Dial, RunAt
    <3>3. QED
      BY <3>1, <3>2
  <2>11. ASSUME NEW k \in Runs, BeginSend(k) PROVE TypeOK'
    <3>1. FlagsOK'
      BY <2>11, Zenon DEF BeginSend, FlagsOK
    <3>2. DataOK'
      BY <2>11 DEF BeginSend, RunAt
    <3>3. QED
      BY <3>1, <3>2
  <2>12. ASSUME NEW k \in Runs, Sent(k) PROVE TypeOK'
    <3>1. FlagsOK'
      BY <2>12, Zenon DEF Sent, FlagsOK
    <3>2. DataOK'
      BY <2>12 DEF Sent, RunAt
    <3>3. QED
      BY <3>1, <3>2
  <2>13. ASSUME NEW k \in Runs, SendFails(k) PROVE TypeOK'
    <3>1. FlagsOK'
      BY <2>13, Zenon DEF SendFails, FlagsOK
    <3>2. DataOK'
      BY <2>13 DEF SendFails, RunAt
    <3>3. QED
      BY <3>1, <3>2
  <2>14. ASSUME NEW k \in Runs, RunEnds(k) PROVE TypeOK'
    <3>1. FlagsOK'
      BY <2>14, Zenon DEF RunEnds, FlagsOK
    <3>2. DataOK'
      BY <2>14 DEF RunEnds, RunAt
    <3>3. QED
      BY <3>1, <3>2
  <2>15. ASSUME NEW k \in Runs, Finish(k) PROVE TypeOK'
    <3>1. cur \in Runs
      BY <2>15, Zenon DEF Finish, RunInv, OneRun, CancelReady, Live
    <3>2. FlagsOK'
      BY <2>15, Zenon DEF Finish, FlagsOK
    <3>3. DataOK'
      BY <2>15, <3>1 DEF Finish, RunAt
    <3>4. QED
      BY <3>2, <3>3
  <2>16. ASSUME NEW k \in Runs, CloseDone(k) PROVE TypeOK'
    <3>1. FlagsOK'
      BY <2>16, Zenon DEF CloseDone, FlagsOK
    <3>2. DataOK'
      BY <2>16 DEF CloseDone, RunAt
    <3>3. QED
      BY <3>1, <3>2
  <2>17. ASSUME NEW c \in Cfgs, SetConfig(c) PROVE TypeOK'
    <3>1. FlagsOK'
      BY <2>17, Zenon DEF SetConfig, FlagsOK
    <3>2. DataOK'
      BY <2>17 DEF SetConfig
    <3>3. QED
      BY <3>1, <3>2
  <2>18. CASE UNCHANGED vars
    BY <2>18 DEF vars, FlagsOK
  <2>19. QED
    BY <2>1, <2>2, <2>3, <2>4, <2>5, <2>6, <2>7, <2>8, <2>9, <2>10, <2>11, <2>12, <2>13, <2>14, <2>15, <2>16, <2>17, <2>18 DEF Next, CallStep, RunStep
<1>3. QED
  BY <1>1, <1>2

(* Runs never overlap and the busy job can be cancelled.                       *)
LEMMA RunStepInv ==
  /\ Init => RunInv
  /\ RunInv /\ DataOK /\ [Next]_vars => RunInv'
<1> USE JobAssumption DEF job, runs, callers
<1>1. Init => RunInv
  BY DEF Init, RunInv, OneRun, CancelReady, Live, DataOK
<1>2. RunInv /\ DataOK /\ [Next]_vars => RunInv'
  <2> SUFFICES ASSUME RunInv, DataOK, [Next]_vars PROVE RunInv'
    OBVIOUS
  <2> USE DEF RunInv, OneRun, CancelReady, Live, DataOK
  <2>1. ASSUME NEW p \in Procs, LookupToStart(p) PROVE RunInv'
    BY <2>1 DEF LookupToStart, Goto
  <2>2. ASSUME NEW p \in Procs, LookupToStop(p) PROVE RunInv'
    BY <2>2 DEF LookupToStop, Goto
  <2>3. ASSUME NEW p \in Procs, Unmap(p) PROVE RunInv'
    BY <2>3 DEF Unmap, Goto
  <2>4. ASSUME NEW p \in Procs, MarkDeleted(p) PROVE RunInv'
    BY <2>4 DEF MarkDeleted, Goto
  <2>5. ASSUME NEW p \in Procs, StartRefused(p) PROVE RunInv'
    BY <2>5 DEF StartRefused, Goto
  <2>6. ASSUME NEW p \in Procs, Halt(p) PROVE RunInv'
    BY <2>6 DEF Halt, Goto
  <2>7. ASSUME NEW p \in Procs, HaltDone(p) PROVE RunInv'
    BY <2>7 DEF HaltDone, Goto, Waits
  <2>8. ASSUME NEW p \in Procs, HaltTimeout(p) PROVE RunInv'
    BY <2>8 DEF HaltTimeout, Goto, Waits
  <2>9. ASSUME NEW p \in Procs, NEW k \in Runs, Start(p,k) PROVE RunInv'
    BY <2>9 DEF Start, Goto, Begin
  <2>10. ASSUME NEW k \in Runs, Dial(k) PROVE RunInv'
    BY <2>10 DEF Dial, RunAt
  <2>11. ASSUME NEW k \in Runs, BeginSend(k) PROVE RunInv'
    BY <2>11 DEF BeginSend, RunAt
  <2>12. ASSUME NEW k \in Runs, Sent(k) PROVE RunInv'
    BY <2>12 DEF Sent, RunAt
  <2>13. ASSUME NEW k \in Runs, SendFails(k) PROVE RunInv'
    BY <2>13 DEF SendFails, RunAt
  <2>14. ASSUME NEW k \in Runs, RunEnds(k) PROVE RunInv'
    BY <2>14 DEF RunEnds, RunAt
  <2>15. ASSUME NEW k \in Runs, Finish(k) PROVE RunInv'
    BY <2>15 DEF Finish, RunAt
  <2>16. ASSUME NEW k \in Runs, CloseDone(k) PROVE RunInv'
    BY <2>16 DEF CloseDone, RunAt
  <2>17. ASSUME NEW c \in Cfgs, SetConfig(c) PROVE RunInv'
    BY <2>17 DEF SetConfig
  <2>18. CASE UNCHANGED vars
    BY <2>18 DEF vars
  <2>19. QED
    BY <2>1, <2>2, <2>3, <2>4, <2>5, <2>6, <2>7, <2>8, <2>9, <2>10, <2>11, <2>12, <2>13, <2>14, <2>15, <2>16, <2>17, <2>18 DEF Next, CallStep, RunStep
<1>3. QED
  BY <1>1, <1>2

(* What a Delete under way, or done, relies on.                               *)
LEMMA DeletedStep ==
  /\ Init => DeletedInv
  /\ DeletedInv /\ DataOK /\ RunInv /\ [Next]_vars => DeletedInv'
<1> USE JobAssumption DEF job, runs, callers
<1>1. Init => DeletedInv
  BY DEF Init, DeletedInv, RunInv, OneRun, CancelReady, Live, DataOK
<1>2. DeletedInv /\ DataOK /\ RunInv /\ [Next]_vars => DeletedInv'
  <2> SUFFICES ASSUME DeletedInv, DataOK, RunInv, [Next]_vars PROVE DeletedInv'
    OBVIOUS
  <2> USE DEF DeletedInv, RunInv, OneRun, CancelReady, Live, DataOK
  <2>1. ASSUME NEW p \in Procs, LookupToStart(p) PROVE DeletedInv'
    BY <2>1 DEF LookupToStart, Goto
  <2>2. ASSUME NEW p \in Procs, LookupToStop(p) PROVE DeletedInv'
    BY <2>2 DEF LookupToStop, Goto
  <2>3. ASSUME NEW p \in Procs, Unmap(p) PROVE DeletedInv'
    BY <2>3 DEF Unmap, Goto
  <2>4. ASSUME NEW p \in Procs, MarkDeleted(p) PROVE DeletedInv'
    BY <2>4 DEF MarkDeleted, Goto
  <2>5. ASSUME NEW p \in Procs, StartRefused(p) PROVE DeletedInv'
    BY <2>5 DEF StartRefused, Goto
  <2>6. ASSUME NEW p \in Procs, Halt(p) PROVE DeletedInv'
    <3>1. CASE state = "idle"
      <4>1. UNCHANGED <<deleted, state, cur, awaited>> /\ pc' = [pc EXCEPT ![p] = "idle"]
        BY <2>6, <3>1 DEF Halt, Goto
      <4>2. quiet' => quiet \/ pc[p] = "haltDeleted"
        BY <2>6, <3>1, Zenon DEF Halt
      <4>3. QED
        BY <3>1, <4>1, <4>2
    <3>2. CASE state # "idle"
      <4>1. UNCHANGED <<deleted, cur, quiet>> /\ awaited' = [awaited EXCEPT ![p] = cur]
        BY <2>6, <3>2 DEF Halt
      <4>2. pc' = [pc EXCEPT ![p] = IF pc[p] = "halt" THEN "wait" ELSE "waitDeleted"] /\ pc[p] \in {"halt", "haltDeleted"}
        BY <2>6, <3>2 DEF Halt, Goto
      <4>3. QED
        BY <3>2, <4>1, <4>2
    <3>3. QED
      BY <3>1, <3>2
  <2>7. ASSUME NEW p \in Procs, HaltDone(p) PROVE DeletedInv'
    BY <2>7 DEF HaltDone, Goto, Waits
  <2>8. ASSUME NEW p \in Procs, HaltTimeout(p) PROVE DeletedInv'
    BY <2>8 DEF HaltTimeout, Goto, Waits
  <2>9. ASSUME NEW p \in Procs, NEW k \in Runs, Start(p,k) PROVE DeletedInv'
    BY <2>9 DEF Start, Goto, Begin
  <2>10. ASSUME NEW k \in Runs, Dial(k) PROVE DeletedInv'
    BY <2>10 DEF Dial, RunAt
  <2>11. ASSUME NEW k \in Runs, BeginSend(k) PROVE DeletedInv'
    BY <2>11 DEF BeginSend, RunAt
  <2>12. ASSUME NEW k \in Runs, Sent(k) PROVE DeletedInv'
    BY <2>12 DEF Sent, RunAt
  <2>13. ASSUME NEW k \in Runs, SendFails(k) PROVE DeletedInv'
    BY <2>13 DEF SendFails, RunAt
  <2>14. ASSUME NEW k \in Runs, RunEnds(k) PROVE DeletedInv'
    BY <2>14 DEF RunEnds, RunAt
  <2>15. ASSUME NEW k \in Runs, Finish(k) PROVE DeletedInv'
    BY <2>15 DEF Finish, RunAt
  <2>16. ASSUME NEW k \in Runs, CloseDone(k) PROVE DeletedInv'
    BY <2>16 DEF CloseDone, RunAt
  <2>17. ASSUME NEW c \in Cfgs, SetConfig(c) PROVE DeletedInv'
    BY <2>17 DEF SetConfig
  <2>18. CASE UNCHANGED vars
    BY <2>18 DEF vars
  <2>19. QED
    BY <2>1, <2>2, <2>3, <2>4, <2>5, <2>6, <2>7, <2>8, <2>9, <2>10, <2>11, <2>12, <2>13, <2>14, <2>15, <2>16, <2>17, <2>18 DEF Next, CallStep, RunStep
<1>3. QED
  BY <1>1, <1>2

(* Nobody edits the job under its run.                                        *)
LEMMA ConfigStep ==
  /\ Init => AsConfigured
  /\ AsConfigured /\ DataOK /\ RunInv /\ [Next]_vars => AsConfigured'
<1> USE JobAssumption DEF job, runs, callers
<1>1. Init => AsConfigured
  BY DEF Init, AsConfigured, RunInv, OneRun, CancelReady, Live, DataOK
<1>2. AsConfigured /\ DataOK /\ RunInv /\ [Next]_vars => AsConfigured'
  <2> SUFFICES ASSUME AsConfigured, DataOK, RunInv, [Next]_vars PROVE AsConfigured'
    OBVIOUS
  <2> USE DEF AsConfigured, RunInv, OneRun, CancelReady, Live, DataOK
  <2>1. ASSUME NEW p \in Procs, LookupToStart(p) PROVE AsConfigured'
    BY <2>1 DEF LookupToStart, Goto
  <2>2. ASSUME NEW p \in Procs, LookupToStop(p) PROVE AsConfigured'
    BY <2>2 DEF LookupToStop, Goto
  <2>3. ASSUME NEW p \in Procs, Unmap(p) PROVE AsConfigured'
    BY <2>3 DEF Unmap, Goto
  <2>4. ASSUME NEW p \in Procs, MarkDeleted(p) PROVE AsConfigured'
    BY <2>4 DEF MarkDeleted, Goto
  <2>5. ASSUME NEW p \in Procs, StartRefused(p) PROVE AsConfigured'
    BY <2>5 DEF StartRefused, Goto
  <2>6. ASSUME NEW p \in Procs, Halt(p) PROVE AsConfigured'
    BY <2>6 DEF Halt, Goto
  <2>7. ASSUME NEW p \in Procs, HaltDone(p) PROVE AsConfigured'
    BY <2>7 DEF HaltDone, Goto, Waits
  <2>8. ASSUME NEW p \in Procs, HaltTimeout(p) PROVE AsConfigured'
    BY <2>8 DEF HaltTimeout, Goto, Waits
  <2>9. ASSUME NEW p \in Procs, NEW k \in Runs, Start(p,k) PROVE AsConfigured'
    BY <2>9 DEF Start, Goto, Begin
  <2>10. ASSUME NEW k \in Runs, Dial(k) PROVE AsConfigured'
    BY <2>10 DEF Dial, RunAt
  <2>11. ASSUME NEW k \in Runs, BeginSend(k) PROVE AsConfigured'
    BY <2>11 DEF BeginSend, RunAt
  <2>12. ASSUME NEW k \in Runs, Sent(k) PROVE AsConfigured'
    BY <2>12 DEF Sent, RunAt
  <2>13. ASSUME NEW k \in Runs, SendFails(k) PROVE AsConfigured'
    BY <2>13 DEF SendFails, RunAt
  <2>14. ASSUME NEW k \in Runs, RunEnds(k) PROVE AsConfigured'
    BY <2>14 DEF RunEnds, RunAt
  <2>15. ASSUME NEW k \in Runs, Finish(k) PROVE AsConfigured'
    BY <2>15 DEF Finish, RunAt
  <2>16. ASSUME NEW k \in Runs, CloseDone(k) PROVE AsConfigured'
    BY <2>16 DEF CloseDone, RunAt
  <2>17. ASSUME NEW c \in Cfgs, SetConfig(c) PROVE AsConfigured'
    BY <2>17 DEF SetConfig
  <2>18. CASE UNCHANGED vars
    BY <2>18 DEF vars
  <2>19. QED
    BY <2>1, <2>2, <2>3, <2>4, <2>5, <2>6, <2>7, <2>8, <2>9, <2>10, <2>11, <2>12, <2>13, <2>14, <2>15, <2>16, <2>17, <2>18 DEF Next, CallStep, RunStep
<1>3. QED
  BY <1>1, <1>2

(* The counter belongs to the last run.                                       *)
LEMMA CounterStep ==
  /\ Init => CounterInv
  /\ CounterInv /\ DataOK /\ RunInv /\ RoomInv /\ [Next]_vars => CounterInv'
<1> USE JobAssumption DEF job, runs, callers
<1>1. Init => CounterInv
  BY DEF Init, CounterInv, RoomInv, RunInv, OneRun, CancelReady, Live, DataOK
<1>2. CounterInv /\ DataOK /\ RunInv /\ RoomInv /\ [Next]_vars => CounterInv'
  <2> SUFFICES ASSUME CounterInv, DataOK, RunInv, RoomInv, [Next]_vars PROVE CounterInv'
    OBVIOUS
  <2> USE DEF CounterInv, RoomInv, RunInv, OneRun, CancelReady, Live, DataOK
  <2>1. ASSUME NEW p \in Procs, LookupToStart(p) PROVE CounterInv'
    BY <2>1 DEF LookupToStart, Goto
  <2>2. ASSUME NEW p \in Procs, LookupToStop(p) PROVE CounterInv'
    BY <2>2 DEF LookupToStop, Goto
  <2>3. ASSUME NEW p \in Procs, Unmap(p) PROVE CounterInv'
    BY <2>3 DEF Unmap, Goto
  <2>4. ASSUME NEW p \in Procs, MarkDeleted(p) PROVE CounterInv'
    BY <2>4 DEF MarkDeleted, Goto
  <2>5. ASSUME NEW p \in Procs, StartRefused(p) PROVE CounterInv'
    BY <2>5 DEF StartRefused, Goto
  <2>6. ASSUME NEW p \in Procs, Halt(p) PROVE CounterInv'
    BY <2>6 DEF Halt, Goto
  <2>7. ASSUME NEW p \in Procs, HaltDone(p) PROVE CounterInv'
    BY <2>7 DEF HaltDone, Goto, Waits
  <2>8. ASSUME NEW p \in Procs, HaltTimeout(p) PROVE CounterInv'
    BY <2>8 DEF HaltTimeout, Goto, Waits
  <2>9. ASSUME NEW p \in Procs, NEW k \in Runs, Start(p,k) PROVE CounterInv'
    BY <2>9 DEF Start, Goto, Begin
  <2>10. ASSUME NEW k \in Runs, Dial(k) PROVE CounterInv'
    BY <2>10 DEF Dial, RunAt
  <2>11. ASSUME NEW k \in Runs, BeginSend(k) PROVE CounterInv'
    BY <2>11 DEF BeginSend, RunAt
  <2>12. ASSUME NEW k \in Runs, Sent(k) PROVE CounterInv'
    BY <2>12 DEF Sent, RunAt
  <2>13. ASSUME NEW k \in Runs, SendFails(k) PROVE CounterInv'
    BY <2>13 DEF SendFails, RunAt
  <2>14. ASSUME NEW k \in Runs, RunEnds(k) PROVE CounterInv'
    BY <2>14 DEF RunEnds, RunAt
  <2>15. ASSUME NEW k \in Runs, Finish(k) PROVE CounterInv'
    BY <2>15 DEF Finish, RunAt
  <2>16. ASSUME NEW k \in Runs, CloseDone(k) PROVE CounterInv'
    BY <2>16 DEF CloseDone, RunAt
  <2>17. ASSUME NEW c \in Cfgs, SetConfig(c) PROVE CounterInv'
    BY <2>17 DEF SetConfig
  <2>18. CASE UNCHANGED vars
    BY <2>18 DEF vars
  <2>19. QED
    BY <2>1, <2>2, <2>3, <2>4, <2>5, <2>6, <2>7, <2>8, <2>9, <2>10, <2>11, <2>12, <2>13, <2>14, <2>15, <2>16, <2>17, <2>18 DEF Next, CallStep, RunStep
<1>3. QED
  BY <1>1, <1>2

(* A limited run sends only while it has room.                                *)
LEMMA RoomStep ==
  /\ Init => RoomInv
  /\ RoomInv /\ DataOK /\ RunInv /\ CounterInv /\ [Next]_vars => RoomInv'
<1> USE JobAssumption DEF job, runs, callers
<1>1. Init => RoomInv
  BY DEF Init, CounterInv, RoomInv, RunInv, OneRun, CancelReady, Live, DataOK
<1>2. RoomInv /\ DataOK /\ RunInv /\ CounterInv /\ [Next]_vars => RoomInv'
  <2> SUFFICES ASSUME RoomInv, DataOK, RunInv, CounterInv, [Next]_vars PROVE RoomInv'
    OBVIOUS
  <2> USE DEF CounterInv, RoomInv, RunInv, OneRun, CancelReady, Live, DataOK
  <2>1. ASSUME NEW p \in Procs, LookupToStart(p) PROVE RoomInv'
    BY <2>1 DEF LookupToStart, Goto
  <2>2. ASSUME NEW p \in Procs, LookupToStop(p) PROVE RoomInv'
    BY <2>2 DEF LookupToStop, Goto
  <2>3. ASSUME NEW p \in Procs, Unmap(p) PROVE RoomInv'
    BY <2>3 DEF Unmap, Goto
  <2>4. ASSUME NEW p \in Procs, MarkDeleted(p) PROVE RoomInv'
    BY <2>4 DEF MarkDeleted, Goto
  <2>5. ASSUME NEW p \in Procs, StartRefused(p) PROVE RoomInv'
    BY <2>5 DEF StartRefused, Goto
  <2>6. ASSUME NEW p \in Procs, Halt(p) PROVE RoomInv'
    BY <2>6 DEF Halt, Goto
  <2>7. ASSUME NEW p \in Procs, HaltDone(p) PROVE RoomInv'
    BY <2>7 DEF HaltDone, Goto, Waits
  <2>8. ASSUME NEW p \in Procs, HaltTimeout(p) PROVE RoomInv'
    BY <2>8 DEF HaltTimeout, Goto, Waits
  <2>9. ASSUME NEW p \in Procs, NEW k \in Runs, Start(p,k) PROVE RoomInv'
    BY <2>9 DEF Start, Goto, Begin
  <2>10. ASSUME NEW k \in Runs, Dial(k) PROVE RoomInv'
    BY <2>10 DEF Dial, RunAt
  <2>11. ASSUME NEW k \in Runs, BeginSend(k) PROVE RoomInv'
    BY <2>11 DEF BeginSend, RunAt
  <2>12. ASSUME NEW k \in Runs, Sent(k) PROVE RoomInv'
    BY <2>12 DEF Sent, RunAt, Enough
  <2>13. ASSUME NEW k \in Runs, SendFails(k) PROVE RoomInv'
    BY <2>13 DEF SendFails, RunAt, Enough
  <2>14. ASSUME NEW k \in Runs, RunEnds(k) PROVE RoomInv'
    BY <2>14 DEF RunEnds, RunAt
  <2>15. ASSUME NEW k \in Runs, Finish(k) PROVE RoomInv'
    BY <2>15 DEF Finish, RunAt
  <2>16. ASSUME NEW k \in Runs, CloseDone(k) PROVE RoomInv'
    BY <2>16 DEF CloseDone, RunAt
  <2>17. ASSUME NEW c \in Cfgs, SetConfig(c) PROVE RoomInv'
    BY <2>17 DEF SetConfig
  <2>18. CASE UNCHANGED vars
    BY <2>18 DEF vars
  <2>19. QED
    BY <2>1, <2>2, <2>3, <2>4, <2>5, <2>6, <2>7, <2>8, <2>9, <2>10, <2>11, <2>12, <2>13, <2>14, <2>15, <2>16, <2>17, <2>18 DEF Next, CallStep, RunStep
<1>3. QED
  BY <1>1, <1>2

(* The invariant the theorems rest on, whole.                                 *)
LEMMA Invariance == Spec => [](TypeOK /\ RunInv /\ DeletedInv /\ AsConfigured /\ CounterInv /\ RoomInv)
<1>1. Init => TypeOK /\ RunInv /\ DeletedInv /\ AsConfigured /\ CounterInv /\ RoomInv
  BY TypeStep, RunStepInv, DeletedStep, ConfigStep, CounterStep, RoomStep
<1>2. TypeOK /\ RunInv /\ DeletedInv /\ AsConfigured /\ CounterInv /\ RoomInv /\ [Next]_vars
        => TypeOK' /\ RunInv' /\ DeletedInv' /\ AsConfigured' /\ CounterInv' /\ RoomInv'
  BY TypeStep, RunStepInv, DeletedStep, ConfigStep, CounterStep, RoomStep DEF TypeOK
<1>3. QED
  BY <1>1, <1>2, PTL DEF Spec

(* Every variable keeps its type: in particular a caller never cancels the    *)
(* run of nobody.                                                             *)
THEOREM TypeCorrect == Spec => []TypeOK
<1>1. QED
  BY Invariance, PTL

(* Runs never overlap, and the job is busy exactly while one can be cancelled *)
(* (start, halt and finish).                                                  *)
THEOREM RunsCorrect == Spec => [](OneRun /\ CancelReady)
<1>1. RunInv <=> OneRun /\ CancelReady
  BY DEF RunInv
<1>2. QED
  BY <1>1, Invariance, PTL

(* After a Delete that stopped the job no run is live, whatever starts were   *)
(* under way (Delete).                                                        *)
THEOREM DeletedCorrect == Spec => []DeletedQuiet
<1>1. RunInv /\ DeletedInv => DeletedQuiet
  BY Zenon DEF RunInv, DeletedInv, OneRun, DeletedQuiet
<1>2. QED
  BY <1>1, Invariance, PTL

(* A live run works with the job's configuration (Update, start).             *)
THEOREM ConfigCorrect == Spec => []AsConfigured
<1>1. QED
  BY Invariance, PTL

(* The counter is the last run's, and no limited run passes its limit (run).  *)
THEOREM CountCorrect == Spec => []CountsOwn
<1>1. CounterInv /\ RoomInv => CountsOwn
  BY Zenon DEF CounterInv, RoomInv, CountsOwn
<1>2. QED
  BY <1>1, Invariance, PTL
================================================================================
