---------------------------- MODULE Dispatcher_proofs ----------------------------
(***************************************************************************)
(* The dispatcher's safety, for any number of deliveries, channels, workers*)
(* and reloads, any queue depth and any rate.                              *)
(***************************************************************************)
EXTENDS Dispatcher, SequenceTheorems, TLAPS

(* A worker has a delivery in hand exactly while it works on one.             *)
HandInv ==
  \A w \in Workers : hand[w] = None <=> worker[w] \in {"none", "recv", "done"}

(* Workers end when the queue is closed and empty; Shutdown has them started, *)
(* and past its wait they have all ended or are abandoned.                    *)
StopInv ==
  /\ closed <=> shutdown # "no"
  /\ shutdown = "grace" => abandon
  /\ \A w \in Workers :
       /\ worker[w] = "done" => closed /\ queue = <<>>
       /\ closed => worker[w] # "none"
       /\ shutdown \in {"flush", "write", "done"} /\ ~abandon => worker[w] = "done"

(* A limiter that was never thrown away has counted every delivery.           *)
RateInv ==
  Rate > 0 => \A c \in Channels \ lost :
    /\ spent[c] = NoLimiter => minute[c] = 0
    /\ spent[c] # NoLimiter => minute[c] = spent[c] /\ spent[c] <= Rate
-------------------------------------------------------------------------------
(* The queue takes a delivery while there is room.                            *)
LEMMA Appends ==
  ASSUME NEW j, Dispatch(j)
  PROVE  queue' = queue \/ (Len(queue) < QueueDepth /\ queue' = Append(queue, j))
BY Zenon DEF Dispatch

(* Every variable keeps its type.                                             *)
LEMMA TypeStep ==
  /\ Init => TypeOK
  /\ TypeOK /\ HandInv /\ [Next]_vars => TypeOK'
<1> USE DispatcherAssumption DEF delivering, stopping, reloading, limiting
<1>1. ASSUME Init PROVE TypeOK
  <2>1. FlagsOK
    BY <1>1, Zenon DEF Init, FlagsOK
  <2>2. DataOK
    BY <1>1, EmptySeq DEF Init, DataOK, Limiters, NoLimiter, Exists, States, Unread
  <2>3. QED
    BY <2>1, <2>2 DEF TypeOK
<1>2. TypeOK /\ HandInv /\ [Next]_vars => TypeOK'
  <2> SUFFICES ASSUME TypeOK, HandInv, [Next]_vars PROVE TypeOK'
    OBVIOUS
  <2> USE DEF TypeOK, DataOK
  <2>1. ASSUME NEW j \in Deliveries, Dispatch(j) PROVE TypeOK'
    <3>1. FlagsOK'
      BY <2>1, Zenon DEF Dispatch, FlagsOK
    <3>2. queue' \in Seq(Deliveries) /\ Len(queue') <= QueueDepth
      <4>1. queue' = queue \/ (Len(queue) < QueueDepth /\ queue' = Append(queue, j))
        BY <2>1, Appends, Zenon
      <4>2. Append(queue, j) \in Seq(Deliveries) /\ Len(Append(queue, j)) = Len(queue) + 1
        BY AppendProperties
      <4>3. Len(queue) \in Nat
        BY LenProperties
      <4>4. CASE queue' = queue
        BY <4>4
      <4>5. CASE Len(queue) < QueueDepth /\ queue' = Append(queue, j)
        <5> HIDE DEF DataOK
        <5>1. Len(queue) + 1 <= QueueDepth
          BY <4>3, <4>5
        <5>2. QED
          BY <5>1, <4>2, <4>5
      <4>6. QED
        BY <4>1, <4>4, <4>5
    <3>3. DataOK'
      BY <2>1, <3>2 DEF Dispatch
    <3>4. QED
      BY <3>1, <3>3
  <2>2. ASSUME NEW w \in Workers, Receive(w) PROVE TypeOK'
    <3>1. FlagsOK'
      BY <2>2, Zenon DEF Receive, FlagsOK
    <3>2. DataOK'
      BY <2>2 DEF Receive, States, NoLimiter, Limiters, HandInv, Move
    <3>3. QED
      BY <3>1, <3>2
  <2>3. ASSUME NEW w \in Workers, WorkerEnds(w) PROVE TypeOK'
    <3>1. FlagsOK'
      BY <2>3, Zenon DEF WorkerEnds, FlagsOK
    <3>2. DataOK'
      BY <2>3 DEF WorkerEnds, States, NoLimiter, Limiters, HandInv, Move
    <3>3. QED
      BY <3>1, <3>2
  <2>4. ASSUME NEW w \in Workers, Abandon(w) PROVE TypeOK'
    <3>1. FlagsOK'
      BY <2>4, Zenon DEF Abandon, FlagsOK
    <3>2. DataOK'
      BY <2>4 DEF Abandon, States, NoLimiter, Limiters, HandInv, Move
    <3>3. QED
      BY <3>1, <3>2
  <2>5. ASSUME NEW w \in Workers, Handle(w) PROVE TypeOK'
    <3>1. FlagsOK'
      BY <2>5, Zenon DEF Handle, FlagsOK
    <3> DEFINE c == ChannelOf[hand[w]]
    <3>2. c \in Channels /\ hand[w] \in Deliveries
      BY <2>5 DEF Handle, HandInv
    <3>3. minute' \in [Channels -> Nat] /\ spent' \in [Channels -> 0..NoLimiter]
      <4> HIDE DEF c
      <4>1. UNCHANGED <<minute, spent>>
              \/ /\ minute' = [minute EXCEPT ![c] = minute[c] + 1]
                 /\ \/ spent' = spent
                    \/ spent[c] < Rate /\ spent' = [spent EXCEPT ![c] = spent[c] + 1]
        BY <2>5 DEF Handle, c
      <4>2. spent[c] \in Nat /\ minute[c] + 1 \in Nat
        BY <3>2 DEF NoLimiter
      <4>3. spent[c] < Rate => spent[c] + 1 \in 0..NoLimiter
        BY <4>2 DEF NoLimiter
      <4>4. minute' \in [Channels -> Nat]
        BY <4>1, <4>2
      <4>5. spent' \in [Channels -> 0..NoLimiter]
        BY <4>1, <4>3
      <4>6. QED
        BY <4>4, <4>5
    <3>4. hand' \in [Workers -> Deliveries \cup {None}] /\ settled' \subseteq Deliveries
            /\ worker' \in [Workers -> {"none", "recv", "got", "send", "log", "done"}]
      BY <2>5, <3>2 DEF Handle, Move, Settle
    <3>5. DataOK'
      BY <2>5, <3>3, <3>4 DEF Handle
    <3>6. QED
      BY <3>1, <3>5
  <2>6. ASSUME NEW w \in Workers, Sent(w) PROVE TypeOK'
    <3>1. FlagsOK'
      BY <2>6, Zenon DEF Sent, FlagsOK
    <3>2. DataOK'
      BY <2>6 DEF Sent, States, NoLimiter, Limiters, HandInv, Move
    <3>3. QED
      BY <3>1, <3>2
  <2>7. ASSUME NEW w \in Workers, Log(w) PROVE TypeOK'
    <3>1. FlagsOK'
      BY <2>7, Zenon DEF Log, FlagsOK
    <3>2. DataOK'
      BY <2>7 DEF Log, States, NoLimiter, Limiters, HandInv, Move, Settle
    <3>3. QED
      BY <3>1, <3>2
  <2>8. ASSUME NEW r \in Reloaders, List(r) PROVE TypeOK'
    <3>1. FlagsOK'
      BY <2>8, Zenon DEF List, FlagsOK
    <3>2. DataOK'
      <4>1. \/ listed' = [listed EXCEPT ![r] = table] /\ reload' = [reload EXCEPT ![r] = "set"]
            \/ reload' = [reload EXCEPT ![r] = "idle"] /\ listed' = listed
        BY <2>8, Zenon DEF List
      <4>2. UNCHANGED <<asked, delivering, stopping, table, channels, edits, limiting>>
        BY <2>8, Zenon DEF List
      <4>3. listed' \in [Reloaders -> [Channels -> States]]
        BY <4>1
      <4>4. reload' \in [Reloaders -> {"idle", "list", "set"}]
        BY <4>1
      <4>5. QED
        BY <4>2, <4>3, <4>4
    <3>3. QED
      BY <3>1, <3>2
  <2>9. ASSUME NEW r \in Reloaders, Set(r) PROVE TypeOK'
    <3>1. FlagsOK'
      BY <2>9, Zenon DEF Set, FlagsOK
    <3>2. DataOK'
      <4>1. /\ channels' = listed[r] /\ lost' \subseteq Channels
            /\ spent' = [c \in Channels |->
                 IF spent[c] # NoLimiter /\ Exists(listed[r][c])
                 THEN spent[c] ELSE Limiters(listed[r])[c]]
            /\ reload' = [reload EXCEPT ![r] = "idle"]
            /\ listed' = [listed EXCEPT ![r] = Unread]
        BY <2>9 DEF Set
      <4>2. UNCHANGED <<asked, delivering, stopping, table, edits, minute>>
        BY <2>9, Zenon DEF Set
      <4>3. channels' \in [Channels -> States] /\ spent' \in [Channels -> 0..NoLimiter]
        BY <4>1 DEF Limiters, NoLimiter
      <4>4. reload' \in [Reloaders -> {"idle", "list", "set"}]
        BY <4>1
      <4>5. listed' \in [Reloaders -> [Channels -> States]]
        <5>1. Unread \in [Channels -> States]
          BY DEF Unread, States
        <5>2. QED
          BY <4>1, <5>1
      <4>6. QED
        BY <4>1, <4>2, <4>3, <4>4, <4>5
    <3>3. QED
      BY <3>1, <3>2
  <2>10. ASSUME NEW r \in Reloaders, NEW c \in Channels, NEW s \in States, Edit(r,c,s) PROVE TypeOK'
    <3>1. FlagsOK'
      BY <2>10, Zenon DEF Edit, FlagsOK
    <3>2. DataOK'
      BY <2>10 DEF Edit, States, NoLimiter, Limiters, HandInv
    <3>3. QED
      BY <3>1, <3>2
  <2>11. CASE ReloadTick
    <3>1. FlagsOK'
      BY <2>11, Zenon DEF ReloadTick, FlagsOK
    <3>2. DataOK'
      BY <2>11 DEF ReloadTick, States, NoLimiter, Limiters, HandInv, Selects
    <3>3. QED
      BY <3>1, <3>2
  <2>12. CASE MinutePasses
    <3>1. FlagsOK'
      BY <2>12, Zenon DEF MinutePasses, FlagsOK
    <3>2. DataOK'
      BY <2>12 DEF MinutePasses, States, NoLimiter, Limiters, HandInv
    <3>3. QED
      BY <3>1, <3>2
  <2>13. CASE StartWorkers
    <3>1. FlagsOK'
      BY <2>13, Zenon DEF StartWorkers, FlagsOK
    <3>2. DataOK'
      BY <2>13 DEF StartWorkers, States, NoLimiter, Limiters, HandInv, StartedWorkers
    <3>3. QED
      BY <3>1, <3>2
  <2>14. CASE FlushTick
    <3>1. FlagsOK'
      BY <2>14, Zenon DEF FlushTick, FlagsOK
    <3>2. DataOK'
      BY <2>14 DEF FlushTick, States, NoLimiter, Limiters, HandInv, FlushDrops, Selects
    <3>3. QED
      BY <3>1, <3>2
  <2>15. CASE RunReturns
    <3>1. FlagsOK'
      BY <2>15, Zenon DEF RunReturns, FlagsOK
    <3>2. DataOK'
      BY <2>15 DEF RunReturns, States, NoLimiter, Limiters, HandInv, FlushDrops, Selects
    <3>3. QED
      BY <3>1, <3>2
  <2>16. CASE RowsWritten
    <3>1. FlagsOK'
      BY <2>16, Zenon DEF RowsWritten, FlagsOK
    <3>2. DataOK'
      BY <2>16 DEF RowsWritten, States, NoLimiter, Limiters, HandInv
    <3>3. QED
      BY <3>1, <3>2
  <2>17. CASE Shutdown
    <3>1. FlagsOK'
      BY <2>17, Zenon DEF Shutdown, FlagsOK
    <3>2. DataOK'
      BY <2>17 DEF Shutdown, States, NoLimiter, Limiters, HandInv, StartedWorkers
    <3>3. QED
      BY <3>1, <3>2
  <2>18. CASE Deadline
    <3>1. FlagsOK'
      BY <2>18, Zenon DEF Deadline, FlagsOK
    <3>2. DataOK'
      BY <2>18 DEF Deadline, States, NoLimiter, Limiters, HandInv
    <3>3. QED
      BY <3>1, <3>2
  <2>19. CASE WaitEnds
    <3>1. FlagsOK'
      BY <2>19, Zenon DEF WaitEnds, FlagsOK
    <3>2. DataOK'
      BY <2>19 DEF WaitEnds, States, NoLimiter, Limiters, HandInv
    <3>3. QED
      BY <3>1, <3>2
  <2>20. CASE ShutdownEnds
    <3>1. FlagsOK'
      BY <2>20, Zenon DEF ShutdownEnds, FlagsOK
    <3>2. DataOK'
      BY <2>20 DEF ShutdownEnds, States, NoLimiter, Limiters, HandInv, FlushDrops
    <3>3. QED
      BY <3>1, <3>2
  <2>21. CASE LastRows
    <3>1. FlagsOK'
      BY <2>21, Zenon DEF LastRows, FlagsOK
    <3>2. DataOK'
      BY <2>21 DEF LastRows, States, NoLimiter, Limiters, HandInv
    <3>3. QED
      BY <3>1, <3>2
  <2>22. CASE UNCHANGED vars
    BY <2>22 DEF vars, FlagsOK
  <2>23. QED
    BY <2>1, <2>2, <2>3, <2>4, <2>5, <2>6, <2>7, <2>8, <2>9, <2>10, <2>11, <2>12, <2>13, <2>14, <2>15, <2>16, <2>17, <2>18, <2>19, <2>20, <2>21, <2>22 DEF Next, WorkerStep, RunStep, StopStep
<1>3. QED
  BY <1>1, <1>2

(* Hands and places go together.                                              *)
LEMMA HandStep ==
  /\ Init => HandInv
  /\ HandInv /\ DataOK /\ [Next]_vars => HandInv'
<1> USE DispatcherAssumption DEF delivering, stopping, reloading, limiting
<1>1. Init => HandInv
  BY DEF Init, Limiters, NoLimiter, Exists, States, HandInv, DataOK
<1>2. HandInv /\ DataOK /\ [Next]_vars => HandInv'
  <2> SUFFICES ASSUME HandInv, DataOK, [Next]_vars PROVE HandInv'
    OBVIOUS
  <2> USE DEF HandInv, DataOK
  <2>1. ASSUME NEW j \in Deliveries, Dispatch(j) PROVE HandInv'
    BY <2>1 DEF Dispatch
  <2>2. ASSUME NEW w \in Workers, Receive(w) PROVE HandInv'
    BY <2>2 DEF Receive, Move
  <2>3. ASSUME NEW w \in Workers, WorkerEnds(w) PROVE HandInv'
    BY <2>3 DEF WorkerEnds, Move
  <2>4. ASSUME NEW w \in Workers, Abandon(w) PROVE HandInv'
    BY <2>4 DEF Abandon, Move
  <2>5. ASSUME NEW w \in Workers, Handle(w) PROVE HandInv'
    <3>1. /\ worker[w] = "got"
          /\ \/ worker' = [worker EXCEPT ![w] = "send"] /\ hand' = hand
             \/ worker' = [worker EXCEPT ![w] = "log"] /\ hand' = hand
             \/ worker' = [worker EXCEPT ![w] = "recv"] /\ hand' = [hand EXCEPT ![w] = None]
      BY <2>5 DEF Handle, Move, Settle
    <3>2. QED
      BY <3>1
  <2>6. ASSUME NEW w \in Workers, Sent(w) PROVE HandInv'
    <3>1. worker' = [worker EXCEPT ![w] = "log"] /\ worker[w] = "send" /\ hand' = hand
      BY <2>6 DEF Sent, Move
    <3>2. QED
      BY <3>1
  <2>7. ASSUME NEW w \in Workers, Log(w) PROVE HandInv'
    BY <2>7 DEF Log, Move, Settle
  <2>8. ASSUME NEW r \in Reloaders, List(r) PROVE HandInv'
    BY <2>8 DEF List
  <2>9. ASSUME NEW r \in Reloaders, Set(r) PROVE HandInv'
    BY <2>9 DEF Set
  <2>10. ASSUME NEW r \in Reloaders, NEW c \in Channels, NEW s \in States, Edit(r,c,s) PROVE HandInv'
    BY <2>10 DEF Edit
  <2>11. CASE ReloadTick
    BY <2>11 DEF ReloadTick, Selects
  <2>12. CASE MinutePasses
    BY <2>12 DEF MinutePasses
  <2>13. CASE StartWorkers
    BY <2>13 DEF StartWorkers, StartedWorkers
  <2>14. CASE FlushTick
    BY <2>14 DEF FlushTick, FlushDrops, Selects
  <2>15. CASE RunReturns
    BY <2>15 DEF RunReturns, FlushDrops, Selects
  <2>16. CASE RowsWritten
    BY <2>16 DEF RowsWritten
  <2>17. CASE Shutdown
    BY <2>17 DEF Shutdown, StartedWorkers
  <2>18. CASE Deadline
    BY <2>18 DEF Deadline
  <2>19. CASE WaitEnds
    BY <2>19 DEF WaitEnds
  <2>20. CASE ShutdownEnds
    BY <2>20 DEF ShutdownEnds, FlushDrops
  <2>21. CASE LastRows
    BY <2>21 DEF LastRows
  <2>22. CASE UNCHANGED vars
    BY <2>22 DEF vars
  <2>23. QED
    BY <2>1, <2>2, <2>3, <2>4, <2>5, <2>6, <2>7, <2>8, <2>9, <2>10, <2>11, <2>12, <2>13, <2>14, <2>15, <2>16, <2>17, <2>18, <2>19, <2>20, <2>21, <2>22 DEF Next, WorkerStep, RunStep, StopStep
<1>3. QED
  BY <1>1, <1>2

(* How the workers end.                                                       *)
LEMMA StopStepInv ==
  /\ Init => StopInv
  /\ StopInv /\ DataOK /\ [Next]_vars => StopInv'
<1> USE DispatcherAssumption DEF delivering, stopping, reloading, limiting
<1>1. Init => StopInv
  BY DEF Init, Limiters, NoLimiter, Exists, States, StopInv, DataOK
<1>2. StopInv /\ DataOK /\ [Next]_vars => StopInv'
  <2> SUFFICES ASSUME StopInv, DataOK, [Next]_vars PROVE StopInv'
    OBVIOUS
  <2> USE DEF StopInv, DataOK
  <2>1. ASSUME NEW j \in Deliveries, Dispatch(j) PROVE StopInv'
    BY <2>1 DEF Dispatch
  <2>2. ASSUME NEW w \in Workers, Receive(w) PROVE StopInv'
    BY <2>2 DEF Receive, Move
  <2>3. ASSUME NEW w \in Workers, WorkerEnds(w) PROVE StopInv'
    BY <2>3 DEF WorkerEnds, Move
  <2>4. ASSUME NEW w \in Workers, Abandon(w) PROVE StopInv'
    BY <2>4 DEF Abandon, Move
  <2>5. ASSUME NEW w \in Workers, Handle(w) PROVE StopInv'
    BY <2>5 DEF Handle, Move, Settle
  <2>6. ASSUME NEW w \in Workers, Sent(w) PROVE StopInv'
    BY <2>6 DEF Sent, Move
  <2>7. ASSUME NEW w \in Workers, Log(w) PROVE StopInv'
    BY <2>7 DEF Log, Move, Settle
  <2>8. ASSUME NEW r \in Reloaders, List(r) PROVE StopInv'
    BY <2>8 DEF List
  <2>9. ASSUME NEW r \in Reloaders, Set(r) PROVE StopInv'
    BY <2>9 DEF Set
  <2>10. ASSUME NEW r \in Reloaders, NEW c \in Channels, NEW s \in States, Edit(r,c,s) PROVE StopInv'
    BY <2>10 DEF Edit
  <2>11. CASE ReloadTick
    BY <2>11 DEF ReloadTick, Selects
  <2>12. CASE MinutePasses
    BY <2>12 DEF MinutePasses
  <2>13. CASE StartWorkers
    BY <2>13 DEF StartWorkers, StartedWorkers
  <2>14. CASE FlushTick
    BY <2>14 DEF FlushTick, FlushDrops, Selects
  <2>15. CASE RunReturns
    BY <2>15 DEF RunReturns, FlushDrops, Selects
  <2>16. CASE RowsWritten
    BY <2>16 DEF RowsWritten
  <2>17. CASE Shutdown
    BY <2>17 DEF Shutdown, StartedWorkers
  <2>18. CASE Deadline
    BY <2>18 DEF Deadline
  <2>19. CASE WaitEnds
    BY <2>19 DEF WaitEnds, NoneLeft
  <2>20. CASE ShutdownEnds
    BY <2>20 DEF ShutdownEnds, FlushDrops
  <2>21. CASE LastRows
    BY <2>21 DEF LastRows
  <2>22. CASE UNCHANGED vars
    BY <2>22 DEF vars
  <2>23. QED
    BY <2>1, <2>2, <2>3, <2>4, <2>5, <2>6, <2>7, <2>8, <2>9, <2>10, <2>11, <2>12, <2>13, <2>14, <2>15, <2>16, <2>17, <2>18, <2>19, <2>20, <2>21, <2>22 DEF Next, WorkerStep, RunStep, StopStep
<1>3. QED
  BY <1>1, <1>2

(* Limiters count what they let through.                                      *)
LEMMA RateStep ==
  /\ Init => RateInv
  /\ RateInv /\ DataOK /\ [Next]_vars => RateInv'
<1> USE DispatcherAssumption DEF delivering, stopping, reloading, limiting
<1>1. Init => RateInv
  BY DEF Init, Limiters, NoLimiter, Exists, States, RateInv, DataOK, NoLimiter
<1>2. RateInv /\ DataOK /\ [Next]_vars => RateInv'
  <2> SUFFICES ASSUME RateInv, DataOK, [Next]_vars PROVE RateInv'
    OBVIOUS
  <2> USE DEF RateInv, DataOK, NoLimiter
  <2>1. ASSUME NEW j \in Deliveries, Dispatch(j) PROVE RateInv'
    BY <2>1 DEF Dispatch, Limiters
  <2>2. ASSUME NEW w \in Workers, Receive(w) PROVE RateInv'
    BY <2>2 DEF Receive, Move, Limiters
  <2>3. ASSUME NEW w \in Workers, WorkerEnds(w) PROVE RateInv'
    BY <2>3 DEF WorkerEnds, Move, Limiters
  <2>4. ASSUME NEW w \in Workers, Abandon(w) PROVE RateInv'
    BY <2>4 DEF Abandon, Move, Limiters
  <2>5. ASSUME NEW w \in Workers, Handle(w) PROVE RateInv'
    BY <2>5 DEF Handle, Move, Settle, Limiters
  <2>6. ASSUME NEW w \in Workers, Sent(w) PROVE RateInv'
    BY <2>6 DEF Sent, Move, Limiters
  <2>7. ASSUME NEW w \in Workers, Log(w) PROVE RateInv'
    BY <2>7 DEF Log, Move, Settle, Limiters
  <2>8. ASSUME NEW r \in Reloaders, List(r) PROVE RateInv'
    BY <2>8 DEF List, Limiters
  <2>9. ASSUME NEW r \in Reloaders, Set(r) PROVE RateInv'
    BY <2>9 DEF Set, Limiters
  <2>10. ASSUME NEW r \in Reloaders, NEW c \in Channels, NEW s \in States, Edit(r,c,s) PROVE RateInv'
    BY <2>10 DEF Edit, Limiters
  <2>11. CASE ReloadTick
    BY <2>11 DEF ReloadTick, Selects, Limiters
  <2>12. CASE MinutePasses
    BY <2>12 DEF MinutePasses, Limiters
  <2>13. CASE StartWorkers
    BY <2>13 DEF StartWorkers, StartedWorkers, Limiters
  <2>14. CASE FlushTick
    BY <2>14 DEF FlushTick, FlushDrops, Selects, Limiters
  <2>15. CASE RunReturns
    BY <2>15 DEF RunReturns, FlushDrops, Selects, Limiters
  <2>16. CASE RowsWritten
    BY <2>16 DEF RowsWritten, Limiters
  <2>17. CASE Shutdown
    BY <2>17 DEF Shutdown, StartedWorkers, Limiters
  <2>18. CASE Deadline
    BY <2>18 DEF Deadline, Limiters
  <2>19. CASE WaitEnds
    BY <2>19 DEF WaitEnds, Limiters
  <2>20. CASE ShutdownEnds
    BY <2>20 DEF ShutdownEnds, FlushDrops, Limiters
  <2>21. CASE LastRows
    BY <2>21 DEF LastRows, Limiters
  <2>22. CASE UNCHANGED vars
    BY <2>22 DEF vars, Limiters
  <2>23. QED
    BY <2>1, <2>2, <2>3, <2>4, <2>5, <2>6, <2>7, <2>8, <2>9, <2>10, <2>11, <2>12, <2>13, <2>14, <2>15, <2>16, <2>17, <2>18, <2>19, <2>20, <2>21, <2>22 DEF Next, WorkerStep, RunStep, StopStep
<1>3. QED
  BY <1>1, <1>2

(* What a queue holds, and that it holds nothing twice.                       *)
Items(q) == {q[i] : i \in DOMAIN q}
Apart(q) == \A i, k \in DOMAIN q : q[i] = q[k] => i = k

(* A queue that takes a new delivery holds that one more, still once each.    *)
LEMMA AppendItems ==
  ASSUME NEW q \in Seq(Deliveries), NEW j \in Deliveries, j \notin Items(q), Apart(q)
  PROVE  Items(Append(q, j)) = Items(q) \cup {j} /\ Apart(Append(q, j))
<1> DEFINE a == Append(q, j)
<1>1. /\ Len(q) \in Nat /\ DOMAIN q = 1..Len(q)
      /\ DOMAIN a = 1..(Len(q) + 1)
      /\ \A i \in 1..Len(q) : a[i] = q[i]
      /\ a[Len(q) + 1] = j
  BY AppendProperties, LenProperties
<1> HIDE DEF a
<1>2. Items(a) = Items(q) \cup {j}
  <2>1. ASSUME NEW x \in Items(a) PROVE x \in Items(q) \cup {j}
    BY <2>1, <1>1 DEF Items
  <2>2. ASSUME NEW x \in Items(q) PROVE x \in Items(a)
    <3>1. PICK i \in 1..Len(q) : q[i] = x
      BY <1>1 DEF Items
    <3>2. i \in DOMAIN a /\ a[i] = x
      BY <3>1, <1>1
    <3>3. QED
      BY <3>2 DEF Items
  <2>3. j \in Items(a)
    <3>1. Len(q) + 1 \in DOMAIN a
      BY <1>1
    <3>2. QED
      BY <3>1, <1>1 DEF Items
  <2>4. QED
    BY <2>1, <2>2, <2>3
<1>3. Apart(a)
  <2>1. \A i \in 1..Len(q) : q[i] # j
    BY <1>1 DEF Items
  <2>2. SUFFICES ASSUME NEW i \in DOMAIN a, NEW k \in DOMAIN a, a[i] = a[k] PROVE i = k
    BY DEF Apart
  <2>3. CASE i \in 1..Len(q) /\ k \in 1..Len(q)
    BY <2>2, <2>3, <1>1 DEF Apart
  <2>4. CASE i = Len(q) + 1 \/ k = Len(q) + 1
    BY <2>1, <2>2, <2>4, <1>1
  <2>5. QED
    BY <2>3, <2>4, <1>1
<1>4. QED
  BY <1>2, <1>3 DEF a

(* A queue that gives its head up holds one less, and not that one again.     *)
LEMMA TailItems ==
  ASSUME NEW q \in Seq(Deliveries), q # <<>>, Apart(q)
  PROVE  /\ Head(q) \in Items(q)
         /\ Items(Tail(q)) = Items(q) \ {Head(q)} /\ Apart(Tail(q))
<1> DEFINE t == Tail(q)
<1>1. /\ Len(q) \in Nat \ {0} /\ DOMAIN q = 1..Len(q)
      /\ Head(q) = q[1]
      /\ DOMAIN t = 1..(Len(q) - 1)
      /\ \A i \in 1..(Len(q) - 1) : t[i] = q[i + 1]
  BY HeadTailProperties, LenProperties, EmptySeq
<1> HIDE DEF t
<1>2. Head(q) \in Items(q)
  <2>1. 1 \in DOMAIN q
    BY <1>1
  <2>2. QED
    BY <2>1, <1>1 DEF Items
<1>3. Items(t) = Items(q) \ {Head(q)}
  <2>1. ASSUME NEW x \in Items(t) PROVE x \in Items(q) \ {Head(q)}
    <3>1. PICK i \in 1..(Len(q) - 1) : x = q[i + 1]
      BY <1>1 DEF Items
    <3>2. i + 1 \in DOMAIN q /\ 1 \in DOMAIN q /\ i + 1 # 1
      BY <1>1
    <3>3. q[i + 1] # q[1]
      BY <3>2 DEF Apart
    <3>4. QED
      BY <3>1, <3>2, <3>3, <1>1 DEF Items
  <2>2. ASSUME NEW x \in Items(q), x # Head(q) PROVE x \in Items(t)
    <3>1. PICK i \in 1..Len(q) : x = q[i]
      BY <1>1 DEF Items
    <3>2. i - 1 \in 1..(Len(q) - 1) /\ (i - 1) + 1 = i
      BY <3>1, <2>2, <1>1
    <3>3. i - 1 \in DOMAIN t /\ t[i - 1] = x
      BY <3>1, <3>2, <1>1
    <3>4. QED
      BY <3>3 DEF Items
  <2>3. QED
    BY <2>1, <2>2
<1>4. Apart(t)
  <2>1. SUFFICES ASSUME NEW i \in 1..(Len(q) - 1), NEW k \in 1..(Len(q) - 1), t[i] = t[k] PROVE i = k
    BY <1>1 DEF Apart
  <2>2. q[i + 1] = q[k + 1] /\ i + 1 \in DOMAIN q /\ k + 1 \in DOMAIN q
    BY <2>1, <1>1
  <2>3. i + 1 = k + 1
    BY <2>2 DEF Apart
  <2>4. QED
    BY <2>3
<1>5. QED
  BY <1>2, <1>3, <1>4 DEF t

(* A queue that stays holds what it held.                                     *)
LEMMA QueueStays ==
  ASSUME UNCHANGED queue, Apart(queue)
  PROVE  InQueue' = InQueue /\ Apart(queue)'
BY DEF InQueue, Apart

(* No two workers hold the same delivery: taking one and putting it down.     *)
HandsApart == \A v, w \in Workers : hand[v] = hand[w] /\ hand[v] # None => v = w

(* Hands that stay hold what they held.                                       *)
LEMMA HandsStay ==
  ASSUME UNCHANGED hand, HandsApart
  PROVE  InHand' = InHand /\ HandsApart'
BY DEF InHand, HandsApart

(* A worker takes what nobody has in hand.                                    *)
LEMMA TakesInHand ==
  ASSUME hand \in [Workers -> Deliveries \cup {None}], HandsApart, NEW w \in Workers, hand[w] = None,
         NEW j \in Deliveries, j \notin InHand, hand' = [hand EXCEPT ![w] = j]
  PROVE  InHand' = InHand \cup {j} /\ HandsApart'
<1> USE DispatcherAssumption
<1>1. InHand' = InHand \cup {j}
  BY DEF InHand
<1>2. HandsApart'
  BY DEF InHand, HandsApart
<1>3. QED
  BY <1>1, <1>2

(* A worker puts down what it alone had in hand.                              *)
LEMMA LeavesHand ==
  ASSUME hand \in [Workers -> Deliveries \cup {None}], HandsApart, NEW w \in Workers, hand[w] # None,
         hand' = [hand EXCEPT ![w] = None]
  PROVE  hand[w] \in InHand /\ InHand' = InHand \ {hand[w]} /\ HandsApart'
<1> USE DispatcherAssumption
<1>1. hand[w] \in InHand
  BY DEF InHand
<1>2. InHand' = InHand \ {hand[w]}
  BY DEF InHand, HandsApart
<1>3. HandsApart'
  BY DEF HandsApart
<1>4. QED
  BY <1>1, <1>2, <1>3

(* The fates of the deliveries, in these words.                               *)
Fates ==
  /\ asked = UNION {InQueue, InHand, drops, reported, settled}
  /\ Apart(queue) /\ HandsApart
  /\ InQueue \cap InHand = {}
  /\ (InQueue \cup InHand) \cap (drops \cup reported \cup settled) = {}
  /\ drops \cap reported = {} /\ (drops \cup reported) \cap settled = {}

(* The fates depend on the places of the deliveries only.                     *)
LEMMA FatesStay ==
  ASSUME Fates, UNCHANGED <<asked, queue, hand, drops, reported, settled>>
  PROVE  Fates'
<1>1. /\ InQueue' = InQueue /\ Apart(queue)'
      /\ InHand' = InHand /\ HandsApart'
  BY QueueStays, HandsStay DEF Fates
<1>2. QED
  BY <1>1 DEF Fates

(* Every step keeps the fates apart.                                          *)
LEMMA FatesStep ==
  /\ Init => Fates
  /\ Fates /\ HandInv /\ DataOK /\ [Next]_vars => Fates'
<1> USE DispatcherAssumption DEF delivering, stopping, reloading, limiting
<1>1. Init => Fates
  BY EmptySeq DEF Init, Fates, InQueue, InHand, Apart, HandsApart
<1>2. Fates /\ HandInv /\ DataOK /\ [Next]_vars => Fates'
  <2> SUFFICES ASSUME Fates, HandInv, DataOK, [Next]_vars PROVE Fates'
    OBVIOUS
  <2> USE DEF DataOK
  <2>1. ASSUME NEW j \in Deliveries, Dispatch(j) PROVE Fates'
    <3>1. asked' = asked \cup {j} /\ j \notin asked
      BY <2>1, Zenon DEF Dispatch
    <3>2. UNCHANGED <<reported, settled>> /\ InHand' = InHand /\ HandsApart'
      BY <2>1, HandsStay DEF Dispatch, Fates
    <3>3. CASE queue' = Append(queue, j) /\ UNCHANGED drops
      <4>1. j \notin Items(queue)
        BY <3>1 DEF Fates, InQueue, Items
      <4>2. InQueue' = Items(Append(queue, j)) /\ InQueue = Items(queue)
        BY <3>3 DEF InQueue, Items
      <4>3. InQueue' = InQueue \cup {j} /\ Apart(queue)'
        BY <3>3, <4>1, <4>2, AppendItems DEF Fates
      <4>4. QED
        BY <3>1, <3>2, <3>3, <4>3 DEF Fates
    <3>4. CASE drops' = drops \cup {j} /\ UNCHANGED queue
      <4>1. InQueue' = InQueue /\ Apart(queue)'
        BY <3>4, QueueStays DEF Fates
      <4>2. QED
        BY <3>1, <3>2, <3>4, <4>1 DEF Fates
    <3>5. QED
      BY <2>1, <3>3, <3>4, Zenon DEF Dispatch
  <2>2. ASSUME NEW w \in Workers, Receive(w) PROVE Fates'
    <3>1. /\ UNCHANGED <<asked, drops, reported, settled>>
          /\ queue # <<>> /\ queue' = Tail(queue)
          /\ hand[w] = None /\ hand' = [hand EXCEPT ![w] = Head(queue)]
      BY <2>2 DEF Receive, HandInv
    <3>2. Head(queue) \in InQueue /\ InQueue' = InQueue \ {Head(queue)} /\ Apart(queue)'
      <4>1. InQueue = Items(queue) /\ InQueue' = Items(queue')
        BY DEF InQueue, Items
      <4>2. queue \in Seq(Deliveries) /\ Apart(queue)
        BY DEF Fates
      <4>3. QED
        BY <3>1, <4>1, <4>2, TailItems DEF Apart
    <3>3. Head(queue) \in Deliveries /\ Head(queue) \notin InHand
      BY <3>1, <3>2, HeadTailProperties DEF Fates
    <3>4. InHand' = InHand \cup {Head(queue)} /\ HandsApart'
      BY <3>1, <3>3, TakesInHand DEF Fates
    <3> DEFINE j == Head(queue)
    <3> HIDE DEF j
    <3>5. QED
      BY <3>1, <3>2, <3>3, <3>4 DEF Fates, j
  <2>3. ASSUME NEW w \in Workers, WorkerEnds(w) PROVE Fates'
    <3>1. UNCHANGED <<asked, queue, hand, drops, reported, settled>>
      BY <2>3, Zenon DEF WorkerEnds, vars
    <3>2. QED
      BY <3>1, FatesStay
  <2>4. ASSUME NEW w \in Workers, Abandon(w) PROVE Fates'
    <3>1. /\ UNCHANGED <<asked, queue, reported, settled>>
          /\ drops' = drops \cup {hand[w]}
          /\ hand[w] # None /\ hand' = [hand EXCEPT ![w] = None]
      BY <2>4 DEF Abandon, HandInv
    <3>2. InQueue' = InQueue /\ Apart(queue)'
      BY <3>1, QueueStays DEF Fates
    <3>3. hand[w] \in InHand /\ InHand' = InHand \ {hand[w]} /\ HandsApart'
      BY <3>1, LeavesHand DEF Fates
    <3>4. QED
      BY <3>1, <3>2, <3>3 DEF Fates
  <2>5. ASSUME NEW w \in Workers, Handle(w) PROVE Fates'
    <3>1. UNCHANGED <<asked, queue, drops, reported>>
      BY <2>5, Zenon DEF Handle
    <3>2. InQueue' = InQueue /\ Apart(queue)'
      BY <3>1, QueueStays DEF Fates
    <3>3. CASE UNCHANGED <<hand, settled>>
      <4>1. InHand' = InHand /\ HandsApart'
        BY <3>3, HandsStay DEF Fates
      <4>2. QED
        BY <3>1, <3>2, <3>3, <4>1 DEF Fates
    <3>4. CASE Settle(w)
      <4>1. settled' = settled \cup {hand[w]} /\ hand[w] # None /\ hand' = [hand EXCEPT ![w] = None]
        BY <2>5, <3>4 DEF Handle, Settle, HandInv
      <4>2. hand[w] \in InHand /\ InHand' = InHand \ {hand[w]} /\ HandsApart'
        BY <4>1, LeavesHand DEF Fates
      <4>3. QED
        BY <3>1, <3>2, <4>1, <4>2 DEF Fates
    <3>5. QED
      BY <2>5, <3>3, <3>4, Zenon DEF Handle
  <2>6. ASSUME NEW w \in Workers, Sent(w) PROVE Fates'
    <3>1. UNCHANGED <<asked, queue, hand, drops, reported, settled>>
      BY <2>6, Zenon DEF Sent, vars
    <3>2. QED
      BY <3>1, FatesStay
  <2>7. ASSUME NEW w \in Workers, Log(w) PROVE Fates'
    <3>1. /\ UNCHANGED <<asked, queue, reported, drops>>
          /\ settled' = settled \cup {hand[w]}
          /\ hand[w] # None /\ hand' = [hand EXCEPT ![w] = None]
      BY <2>7 DEF Log, Settle, HandInv
    <3>2. InQueue' = InQueue /\ Apart(queue)'
      BY <3>1, QueueStays DEF Fates
    <3>3. hand[w] \in InHand /\ InHand' = InHand \ {hand[w]} /\ HandsApart'
      BY <3>1, LeavesHand DEF Fates
    <3>4. QED
      BY <3>1, <3>2, <3>3 DEF Fates
  <2>8. ASSUME NEW r \in Reloaders, List(r) PROVE Fates'
    <3>1. UNCHANGED <<asked, queue, hand, drops, reported, settled>>
      BY <2>8, Zenon DEF List, vars
    <3>2. QED
      BY <3>1, FatesStay
  <2>9. ASSUME NEW r \in Reloaders, Set(r) PROVE Fates'
    <3>1. UNCHANGED <<asked, queue, hand, drops, reported, settled>>
      BY <2>9, Zenon DEF Set, vars
    <3>2. QED
      BY <3>1, FatesStay
  <2>10. ASSUME NEW r \in Reloaders, NEW c \in Channels, NEW s \in States, Edit(r,c,s) PROVE Fates'
    <3>1. UNCHANGED <<asked, queue, hand, drops, reported, settled>>
      BY <2>10, Zenon DEF Edit, vars
    <3>2. QED
      BY <3>1, FatesStay
  <2>11. CASE ReloadTick
    <3>1. UNCHANGED <<asked, queue, hand, drops, reported, settled>>
      BY <2>11, Zenon DEF ReloadTick, vars
    <3>2. QED
      BY <3>1, FatesStay
  <2>12. CASE MinutePasses
    <3>1. UNCHANGED <<asked, queue, hand, drops, reported, settled>>
      BY <2>12, Zenon DEF MinutePasses, vars
    <3>2. QED
      BY <3>1, FatesStay
  <2>13. CASE StartWorkers
    <3>1. UNCHANGED <<asked, queue, hand, drops, reported, settled>>
      BY <2>13, Zenon DEF StartWorkers, vars
    <3>2. QED
      BY <3>1, FatesStay
  <2>14. CASE FlushTick
    <3>1. UNCHANGED <<asked, queue, hand, settled>>
      BY <2>14, Zenon DEF FlushTick
    <3>2. reported' = reported \cup drops /\ drops' = {}
      BY <2>14, Zenon DEF FlushTick, FlushDrops
    <3>3. /\ InQueue' = InQueue /\ Apart(queue)'
          /\ InHand' = InHand /\ HandsApart'
      BY <3>1, QueueStays, HandsStay DEF Fates
    <3>4. QED
      BY <3>1, <3>2, <3>3 DEF Fates
  <2>15. CASE RunReturns
    <3>1. UNCHANGED <<asked, queue, hand, settled>>
      BY <2>15, Zenon DEF RunReturns
    <3>2. reported' = reported \cup drops /\ drops' = {}
      BY <2>15, Zenon DEF RunReturns, FlushDrops
    <3>3. /\ InQueue' = InQueue /\ Apart(queue)'
          /\ InHand' = InHand /\ HandsApart'
      BY <3>1, QueueStays, HandsStay DEF Fates
    <3>4. QED
      BY <3>1, <3>2, <3>3 DEF Fates
  <2>16. CASE RowsWritten
    <3>1. UNCHANGED <<asked, queue, hand, drops, reported, settled>>
      BY <2>16, Zenon DEF RowsWritten, vars
    <3>2. QED
      BY <3>1, FatesStay
  <2>17. CASE Shutdown
    <3>1. UNCHANGED <<asked, queue, hand, drops, reported, settled>>
      BY <2>17, Zenon DEF Shutdown, vars
    <3>2. QED
      BY <3>1, FatesStay
  <2>18. CASE Deadline
    <3>1. UNCHANGED <<asked, queue, hand, drops, reported, settled>>
      BY <2>18, Zenon DEF Deadline, vars
    <3>2. QED
      BY <3>1, FatesStay
  <2>19. CASE WaitEnds
    <3>1. UNCHANGED <<asked, queue, hand, drops, reported, settled>>
      BY <2>19, Zenon DEF WaitEnds, vars
    <3>2. QED
      BY <3>1, FatesStay
  <2>20. CASE ShutdownEnds
    <3>1. UNCHANGED <<asked, queue, hand, settled>>
      BY <2>20, Zenon DEF ShutdownEnds
    <3>2. reported' = reported \cup drops /\ drops' = {}
      BY <2>20, Zenon DEF ShutdownEnds, FlushDrops
    <3>3. /\ InQueue' = InQueue /\ Apart(queue)'
          /\ InHand' = InHand /\ HandsApart'
      BY <3>1, QueueStays, HandsStay DEF Fates
    <3>4. QED
      BY <3>1, <3>2, <3>3 DEF Fates
  <2>21. CASE LastRows
    <3>1. UNCHANGED <<asked, queue, hand, drops, reported, settled>>
      BY <2>21, Zenon DEF LastRows, vars
    <3>2. QED
      BY <3>1, FatesStay
  <2>22. CASE UNCHANGED vars
    BY <2>22, FatesStay DEF vars
  <2>23. QED
    BY <2>1, <2>2, <2>3, <2>4, <2>5, <2>6, <2>7, <2>8, <2>9, <2>10, <2>11, <2>12, <2>13, <2>14, <2>15, <2>16, <2>17, <2>18, <2>19, <2>20, <2>21, <2>22 DEF Next, WorkerStep, RunStep, StopStep
<1>3. QED
  BY <1>1, <1>2

(* The invariant the theorems rest on, whole.                                 *)
LEMMA Invariance == Spec => [](TypeOK /\ HandInv /\ StopInv /\ RateInv /\ Fates)
<1>1. Init => TypeOK /\ HandInv /\ StopInv /\ RateInv /\ Fates
  BY TypeStep, HandStep, StopStepInv, RateStep, FatesStep
<1>2. TypeOK /\ HandInv /\ StopInv /\ RateInv /\ Fates /\ [Next]_vars
        => TypeOK' /\ HandInv' /\ StopInv' /\ RateInv' /\ Fates'
  BY TypeStep, HandStep, StopStepInv, RateStep, FatesStep DEF TypeOK
<1>3. QED
  BY <1>1, <1>2, PTL DEF Spec

(* Every variable keeps its type; the queue never holds more than it can.     *)
THEOREM TypeCorrect == Spec => []TypeOK
<1>1. QED
  BY Invariance, PTL

(* Every delivery Dispatch was asked for has exactly one fate, for any number *)
(* of workers and whenever Shutdown comes.                                    *)
THEOREM FateCorrect == Spec => []OneFate
<1>1. Fates => OneFate
  BY Zenon DEF Fates, OneFate, Apart, HandsApart
<1>2. QED
  BY <1>1, Invariance, PTL

(* A Shutdown that met its deadline leaves nothing in the queue or in a hand. *)
THEOREM DrainCorrect == Spec => []DrainedInTime
<1>1. HandInv /\ StopInv => DrainedInTime
  <2> SUFFICES ASSUME HandInv, StopInv, shutdown \in {"flush", "write", "done"}, ~abandon
               PROVE  queue = <<>> /\ InHand = {}
    BY DEF DrainedInTime
  <2>1. \A w \in Workers : worker[w] = "done"
    BY DEF StopInv
  <2>2. \A w \in Workers : queue = <<>> /\ hand[w] = None
    BY <2>1 DEF StopInv, HandInv
  <2>3. QED
    BY <2>2, DispatcherAssumption DEF InHand
<1>2. QED
  BY <1>1, Invariance, PTL

(* While a channel keeps its limiter, no more than its rate passes in a       *)
(* minute (Reload, channel and allow).                                        *)
THEOREM RateCorrect == Spec => []RateHeld
<1>1. ASSUME RateInv PROVE RateHeld
  <2> SUFFICES ASSUME NEW c \in Channels \ lost, Rate > 0 PROVE minute[c] <= Rate
    BY DEF RateHeld
  <2>1. /\ spent[c] = NoLimiter => minute[c] = 0
        /\ spent[c] # NoLimiter => minute[c] = spent[c] /\ spent[c] <= Rate
    BY <1>1 DEF RateInv
  <2>2. QED
    BY <2>1, DispatcherAssumption
<1>2. QED
  BY <1>1, Invariance, PTL DEF TypeOK
================================================================================
