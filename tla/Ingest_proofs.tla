---------------------------- MODULE Ingest_proofs ----------------------------
(***************************************************************************)
(* The ingest pipeline's safety, and that it keeps IngestContract, for     *)
(* every number of connections, every set of records and every queue and   *)
(* batch size.                                                             *)
(***************************************************************************)
EXTENDS Ingest, TLAPS, SequenceTheorems

(* A handler that resolves or sends holds a record.                           *)
HandOK == \A c \in Conns : conn[c] \in {"resolving", "sending"} => hand[c] \in Records

(* The batcher collects less than a full batch, and inserts something.        *)
BatchOK ==
  /\ bat = "recv" => Len(batch) < BatchSize
  /\ bat \in {"begin", "insert", "backoff"} => batch # <<>>
  /\ bat \in {"publish", "done"} => batch = <<>>

(* How far serve is, the accept loop and the queue agree.                     *)
ShutdownOK ==
  /\ closed <=> srv \in {"flushing", "stopped"}
  /\ srv \in {"draining", "flushing", "stopped"} => acc = "done"

DataInv == DataOK /\ HandOK /\ BatchOK
-------------------------------------------------------------------------------
(* A row is done with: the flush goes on with what is left, or ends.          *)
LEMMA RowDone ==
  ASSUME DataOK, BatchOK, batch # <<>>, batch' = Tail(batch), bat' = NextRow
  PROVE  /\ batch' \in Seq(Records) /\ Len(batch') <= BatchSize
         /\ bat' \in {"begin", "publish"}
         /\ BatchOK'
<1> USE DEF DataOK
<1>1. Tail(batch) \in Seq(Records) /\ Len(Tail(batch)) = Len(batch) - 1 /\ Len(batch) \in Nat
  OBVIOUS
<1>2. Len(<<>>) = 0 /\ <<>> \in Seq(Records) /\ \A s \in Seq(Records) : s # <<>> => Len(s) \in Nat \ {0}
  BY EmptySeq
<1>3. ASSUME Tail(batch) = <<>> PROVE Len(batch) = 1
  <2>1. Len(Tail(batch)) = 0
    BY <1>2, <1>3, Zenon
  <2>2. \A n \in Nat : n - 1 = 0 => n = 1
    OBVIOUS
  <2>3. QED
    BY <1>1, <2>1, <2>2, Zenon
<1>4. ASSUME Tail(batch) # <<>> PROVE Len(batch) # 1
  <2>1. Len(Tail(batch)) \in Nat \ {0}
    BY <1>1, <1>2, <1>4
  <2>2. QED
    BY <1>1, <2>1
<1>5. Len(batch) <= BatchSize /\ BatchSize \in Nat
  BY IngestAssumption
<1>6. CASE Len(batch) = 1
  <2>1. batch' = <<>> /\ bat' = "publish"
    BY <1>4, <1>6 DEF NextRow
  <2>2. QED
    BY <1>2, <1>5, <2>1 DEF BatchOK
<1>7. CASE Len(batch) # 1
  <2>1. batch' # <<>> /\ bat' = "begin"
    BY <1>3, <1>7 DEF NextRow
  <2>2. QED
    BY <1>1, <1>5, <2>1 DEF BatchOK
<1>8. QED
  BY <1>6, <1>7

(* Every variable keeps its type, hands hold records, batches are bounded and *)
(* what is being inserted is not empty.                                       *)
LEMMA TypeInvariant == Spec => [](FlagsOK /\ DataInv)
<1> USE DEF handlers, control, batcher, outcome
<1>1. Init => FlagsOK /\ DataInv
  <2> SUFFICES ASSUME Init PROVE FlagsOK /\ DataInv
    OBVIOUS
  <2>1. FlagsOK
    BY DEF Init, FlagsOK
  <2>2. DataOK
    <3>1. Len(<<>>) = 0 /\ <<>> \in Seq(Records)
      OBVIOUS
    <3>2. QED
      BY <3>1, IngestAssumption DEF Init, DataOK
  <2>3. HandOK /\ BatchOK
    BY IngestAssumption DEF Init, HandOK, BatchOK
  <2>4. QED
    BY <2>1, <2>2, <2>3 DEF DataInv
<1>2. FlagsOK /\ [Next]_vars => FlagsOK'
  <2> SUFFICES ASSUME FlagsOK, [Next]_vars PROVE FlagsOK'
    OBVIOUS
  <2> USE DEF FlagsOK
  <2>1. ASSUME NEW c \in Conns, Accept(c) PROVE FlagsOK'
    BY <2>1 DEF Accept
  <2>2. ASSUME NEW c \in Conns, Register(c) PROVE FlagsOK'
    BY <2>2 DEF Register
  <2>3. ASSUME NEW c \in Conns, NEW r \in Records, Read(c,r) PROVE FlagsOK'
    BY <2>3 DEF Read
  <2>4. ASSUME NEW c \in Conns, Resolve(c) PROVE FlagsOK'
    BY <2>4 DEF Resolve
  <2>5. ASSUME NEW c \in Conns, ResolveFails(c) PROVE FlagsOK'
    BY <2>5 DEF ResolveFails
  <2>6. ASSUME NEW c \in Conns, Send(c) PROVE FlagsOK'
    BY <2>6 DEF Send
  <2>7. ASSUME NEW c \in Conns, Exit(c) PROVE FlagsOK'
    BY <2>7 DEF Exit
  <2>8. CASE AcceptEnds
    BY <2>8 DEF AcceptEnds
  <2>9. CASE Shutdown
    BY <2>9 DEF Shutdown
  <2>10. CASE Drain
    BY <2>10 DEF Drain
  <2>11. CASE DrainDeadline
    BY <2>11 DEF DrainDeadline
  <2>12. CASE CloseQueue
    BY <2>12 DEF CloseQueue
  <2>13. CASE Stop
    BY <2>13 DEF Stop
  <2>14. CASE Receive
    BY <2>14 DEF Receive
  <2>15. CASE Tick
    BY <2>15 DEF Tick
  <2>16. CASE QueueEnds
    BY <2>16 DEF QueueEnds
  <2>17. CASE Begin
    BY <2>17 DEF Begin
  <2>18. CASE Commit
    BY <2>18 DEF Commit
  <2>19. CASE Unavailable
    BY <2>19 DEF Unavailable
  <2>20. CASE LostAck
    BY <2>20 DEF LostAck
  <2>21. CASE BackoffEnds
    BY <2>21 DEF BackoffEnds
  <2>22. CASE RejectBatch
    BY <2>22 DEF RejectBatch
  <2>23. CASE RejectRow
    BY <2>23 DEF RejectRow
  <2>24. CASE GiveUp
    BY <2>24 DEF GiveUp
  <2>25. CASE Publish
    BY <2>25 DEF Publish
  <2>26. CASE Stopped
    BY <2>26 DEF Stopped, vars
  <2>27. CASE UNCHANGED vars
    BY <2>27 DEF vars
  <2>28. QED
    BY <2>1, <2>2, <2>3, <2>4, <2>5, <2>6, <2>7, <2>8, <2>9, <2>10, <2>11, <2>12, <2>13, <2>14, <2>15, <2>16, <2>17, <2>18, <2>19, <2>20, <2>21, <2>22, <2>23, <2>24, <2>25, <2>26, <2>27 DEF Next, Handler, Serve, Batcher, Flush
<1>3. DataInv /\ [Next]_vars => DataInv'
  <2> SUFFICES ASSUME DataInv, [Next]_vars PROVE DataInv'
    OBVIOUS
  <2> USE DEF DataInv, DataOK, HandOK, BatchOK, SeqSet, Attempt, NextRow
  <2>1. ASSUME NEW c \in Conns, Accept(c) PROVE DataInv'
    BY <2>1, IngestAssumption DEF Accept
  <2>2. ASSUME NEW c \in Conns, Register(c) PROVE DataInv'
    BY <2>2, IngestAssumption DEF Register
  <2>3. ASSUME NEW c \in Conns, NEW r \in Records, Read(c,r) PROVE DataInv'
    BY <2>3, IngestAssumption DEF Read
  <2>4. ASSUME NEW c \in Conns, Resolve(c) PROVE DataInv'
    BY <2>4, IngestAssumption DEF Resolve
  <2>5. ASSUME NEW c \in Conns, ResolveFails(c) PROVE DataInv'
    BY <2>5, IngestAssumption DEF ResolveFails
  <2>6. ASSUME NEW c \in Conns, Send(c) PROVE DataInv'
    BY <2>6, IngestAssumption DEF Send
  <2>7. ASSUME NEW c \in Conns, Exit(c) PROVE DataInv'
    BY <2>7, IngestAssumption DEF Exit
  <2>8. CASE AcceptEnds
    BY <2>8, IngestAssumption DEF AcceptEnds
  <2>9. CASE Shutdown
    BY <2>9, IngestAssumption DEF Shutdown
  <2>10. CASE Drain
    BY <2>10, IngestAssumption DEF Drain
  <2>11. CASE DrainDeadline
    BY <2>11, IngestAssumption DEF DrainDeadline
  <2>12. CASE CloseQueue
    BY <2>12, IngestAssumption DEF CloseQueue
  <2>13. CASE Stop
    BY <2>13, IngestAssumption DEF Stop
  <2>14. CASE Receive
    BY <2>14, IngestAssumption DEF Receive
  <2>15. CASE Tick
    BY <2>15, IngestAssumption DEF Tick
  <2>16. CASE QueueEnds
    BY <2>16, IngestAssumption DEF QueueEnds
  <2>17. CASE Begin
    BY <2>17, IngestAssumption DEF Begin
  <2>18. CASE Commit
    <3>1. batch \in Seq(Records) /\ batch # <<>>
      BY <2>18 DEF Commit
    <3>2. Head(batch) \in Records /\ Tail(batch) \in Seq(Records) /\ Len(Tail(batch)) = Len(batch) - 1
      BY <3>1
    <3>3. Len(batch) \in Nat /\ <<>> \in Seq(Records) /\ Len(<<>>) = 0
      BY <3>1, EmptySeq
    <3>4. UNCHANGED <<unread, conn, hand, acc, srv, queue, bad, accepted, inserted, told>>
      BY <2>18 DEF Commit
    <3>5. dropped' = dropped /\ db' \in [Records -> Nat]
      BY <2>18, <3>1, <3>2 DEF Commit
    <3>6. CASE rows
      <4>1. batch' = Tail(batch) /\ bat' = NextRow /\ stored' = Append(stored, Head(batch))
        BY <2>18, <3>6, Zenon DEF Commit
      <4>2. batch' \in Seq(Records) /\ Len(batch') <= BatchSize /\ bat' \in {"begin", "publish"} /\ BatchOK'
        BY <3>1, <4>1, RowDone DEF NextRow
      <4>3. stored' \in Seq(Records)
        BY <3>1, <3>2, <3>5, <4>1
      <4>4. QED
        BY <3>4, <3>5, <4>2, <4>3
    <3>7. CASE ~rows
      <4>1. batch' = <<>> /\ bat' = "publish" /\ stored' = batch
        BY <2>18, <3>7, Zenon DEF Commit
      <4>2. QED
        BY <3>1, <3>3, <3>4, <3>5, <4>1, IngestAssumption
    <3>8. QED
      BY <3>6, <3>7
  <2>19. CASE Unavailable
    BY <2>19, IngestAssumption DEF Unavailable
  <2>20. CASE LostAck
    BY <2>20, IngestAssumption DEF LostAck
  <2>21. CASE BackoffEnds
    BY <2>21, IngestAssumption DEF BackoffEnds
  <2>22. CASE RejectBatch
    BY <2>22, IngestAssumption DEF RejectBatch
  <2>23. CASE RejectRow
    <3>1. batch \in Seq(Records) /\ batch # <<>>
      BY <2>23 DEF RejectRow
    <3>2. Head(batch) \in Records /\ Tail(batch) \in Seq(Records) /\ Len(Tail(batch)) = Len(batch) - 1
      BY <3>1
    <3>3. Len(batch) \in Nat /\ <<>> \in Seq(Records) /\ Len(<<>>) = 0
      BY <3>1, EmptySeq
    <3>4. UNCHANGED <<unread, conn, hand, acc, srv, queue, bad, accepted, inserted, told, stored, db>>
      BY <2>23 DEF RejectRow
    <3>5. dropped' \subseteq Records /\ batch' = Tail(batch) /\ bat' = NextRow
      BY <2>23, <3>2 DEF RejectRow
    <3>6. batch' \in Seq(Records) /\ Len(batch') <= BatchSize /\ bat' \in {"begin", "publish"} /\ BatchOK'
      BY <3>1, <3>5, RowDone DEF NextRow
    <3>7. QED
      BY <3>1, <3>2, <3>4, <3>5, <3>6
  <2>24. CASE GiveUp
    <3>1. batch \in Seq(Records) /\ batch # <<>>
      BY <2>24 DEF GiveUp
    <3>2. Head(batch) \in Records /\ Tail(batch) \in Seq(Records) /\ Len(Tail(batch)) = Len(batch) - 1
      BY <3>1
    <3>3. Len(batch) \in Nat /\ <<>> \in Seq(Records) /\ Len(<<>>) = 0
      BY <3>1, EmptySeq
    <3>4. UNCHANGED <<unread, conn, hand, acc, srv, queue, bad, accepted, inserted, told>>
      BY <2>24 DEF GiveUp
    <3>5. stored' = stored /\ db' = db /\ dropped' \subseteq Records
      BY <2>24, <3>1, <3>2 DEF GiveUp
    <3>6. CASE rows
      <4>1. batch' = Tail(batch) /\ bat' = NextRow /\ TRUE
        BY <2>24, <3>6, Zenon DEF GiveUp
      <4>2. batch' \in Seq(Records) /\ Len(batch') <= BatchSize /\ bat' \in {"begin", "publish"} /\ BatchOK'
        BY <3>1, <4>1, RowDone DEF NextRow
      <4>3. stored' \in Seq(Records)
        BY <3>1, <3>2, <3>5, <4>1
      <4>4. QED
        BY <3>4, <3>5, <4>2, <4>3
    <3>7. CASE ~rows
      <4>1. batch' = <<>> /\ bat' = "publish" /\ TRUE
        BY <2>24, <3>7, Zenon DEF GiveUp
      <4>2. QED
        BY <3>1, <3>3, <3>4, <3>5, <4>1, IngestAssumption
    <3>8. QED
      BY <3>6, <3>7
  <2>25. CASE Publish
    BY <2>25, IngestAssumption DEF Publish
  <2>26. CASE Stopped
    BY <2>26 DEF Stopped, vars
  <2>27. CASE UNCHANGED vars
    BY <2>27 DEF vars
  <2>28. QED
    BY <2>1, <2>2, <2>3, <2>4, <2>5, <2>6, <2>7, <2>8, <2>9, <2>10, <2>11, <2>12, <2>13, <2>14, <2>15, <2>16, <2>17, <2>18, <2>19, <2>20, <2>21, <2>22, <2>23, <2>24, <2>25, <2>26, <2>27 DEF Next, Handler, Serve, Batcher, Flush
<1>4. QED
  BY <1>1, <1>2, <1>3, PTL DEF Spec

(* Every variable keeps its type.                                             *)
THEOREM TypeCorrect == Spec => []TypeOK
<1>1. FlagsOK /\ DataInv => TypeOK
  BY DEF TypeOK, DataInv
<1>2. QED
  BY <1>1, TypeInvariant, PTL

(* Nobody sends on the closed queue: it is closed after the accept loop has   *)
(* ended and the last handler has gone.                                       *)
THEOREM ClosedCorrect == Spec => []NoSendOnClosed
<1> USE DEF handlers, control, batcher, outcome
<1>1. Init => ShutdownOK /\ NoSendOnClosed
  BY DEF Init, ShutdownOK, NoSendOnClosed
<1>2. ShutdownOK /\ [Next]_vars => ShutdownOK'
  <2> SUFFICES ASSUME ShutdownOK, [Next]_vars PROVE ShutdownOK'
    OBVIOUS
  <2> USE DEF ShutdownOK
  <2>1. ASSUME NEW c \in Conns, Accept(c) PROVE ShutdownOK'
    BY <2>1 DEF Accept
  <2>2. ASSUME NEW c \in Conns, Register(c) PROVE ShutdownOK'
    BY <2>2 DEF Register
  <2>3. ASSUME NEW c \in Conns, NEW r \in Records, Read(c,r) PROVE ShutdownOK'
    BY <2>3 DEF Read
  <2>4. ASSUME NEW c \in Conns, Resolve(c) PROVE ShutdownOK'
    BY <2>4 DEF Resolve
  <2>5. ASSUME NEW c \in Conns, ResolveFails(c) PROVE ShutdownOK'
    BY <2>5 DEF ResolveFails
  <2>6. ASSUME NEW c \in Conns, Send(c) PROVE ShutdownOK'
    BY <2>6 DEF Send
  <2>7. ASSUME NEW c \in Conns, Exit(c) PROVE ShutdownOK'
    BY <2>7 DEF Exit
  <2>8. CASE AcceptEnds
    BY <2>8 DEF AcceptEnds
  <2>9. CASE Shutdown
    BY <2>9 DEF Shutdown
  <2>10. CASE Drain
    BY <2>10 DEF Drain
  <2>11. CASE DrainDeadline
    BY <2>11 DEF DrainDeadline
  <2>12. CASE CloseQueue
    BY <2>12 DEF CloseQueue
  <2>13. CASE Stop
    BY <2>13 DEF Stop
  <2>14. CASE Receive
    BY <2>14 DEF Receive
  <2>15. CASE Tick
    BY <2>15 DEF Tick
  <2>16. CASE QueueEnds
    BY <2>16 DEF QueueEnds
  <2>17. CASE Begin
    BY <2>17 DEF Begin
  <2>18. CASE Commit
    BY <2>18 DEF Commit
  <2>19. CASE Unavailable
    BY <2>19 DEF Unavailable
  <2>20. CASE LostAck
    BY <2>20 DEF LostAck
  <2>21. CASE BackoffEnds
    BY <2>21 DEF BackoffEnds
  <2>22. CASE RejectBatch
    BY <2>22 DEF RejectBatch
  <2>23. CASE RejectRow
    BY <2>23 DEF RejectRow
  <2>24. CASE GiveUp
    BY <2>24 DEF GiveUp
  <2>25. CASE Publish
    BY <2>25 DEF Publish
  <2>26. CASE Stopped
    BY <2>26 DEF Stopped, vars
  <2>27. CASE UNCHANGED vars
    BY <2>27 DEF vars
  <2>28. QED
    BY <2>1, <2>2, <2>3, <2>4, <2>5, <2>6, <2>7, <2>8, <2>9, <2>10, <2>11, <2>12, <2>13, <2>14, <2>15, <2>16, <2>17, <2>18, <2>19, <2>20, <2>21, <2>22, <2>23, <2>24, <2>25, <2>26, <2>27 DEF Next, Handler, Serve, Batcher, Flush
<1>3. NoSendOnClosed /\ ShutdownOK /\ DataInv /\ [Next]_vars => NoSendOnClosed'
  <2> SUFFICES ASSUME NoSendOnClosed, ShutdownOK, DataInv, [Next]_vars PROVE NoSendOnClosed'
    OBVIOUS
  <2> USE DEF ShutdownOK, NoSendOnClosed, DataInv, DataOK
  <2>1. ASSUME NEW c \in Conns, Accept(c) PROVE NoSendOnClosed'
    BY <2>1 DEF Accept
  <2>2. ASSUME NEW c \in Conns, Register(c) PROVE NoSendOnClosed'
    BY <2>2 DEF Register
  <2>3. ASSUME NEW c \in Conns, NEW r \in Records, Read(c,r) PROVE NoSendOnClosed'
    BY <2>3 DEF Read
  <2>4. ASSUME NEW c \in Conns, Resolve(c) PROVE NoSendOnClosed'
    BY <2>4 DEF Resolve
  <2>5. ASSUME NEW c \in Conns, ResolveFails(c) PROVE NoSendOnClosed'
    BY <2>5 DEF ResolveFails
  <2>6. ASSUME NEW c \in Conns, Send(c) PROVE NoSendOnClosed'
    BY <2>6 DEF Send
  <2>7. ASSUME NEW c \in Conns, Exit(c) PROVE NoSendOnClosed'
    BY <2>7 DEF Exit
  <2>8. CASE AcceptEnds
    BY <2>8 DEF AcceptEnds
  <2>9. CASE Shutdown
    BY <2>9 DEF Shutdown
  <2>10. CASE Drain
    BY <2>10 DEF Drain
  <2>11. CASE DrainDeadline
    BY <2>11 DEF DrainDeadline
  <2>12. CASE CloseQueue
    BY <2>12 DEF CloseQueue
  <2>13. CASE Stop
    BY <2>13 DEF Stop
  <2>14. CASE Receive
    BY <2>14 DEF Receive
  <2>15. CASE Tick
    BY <2>15 DEF Tick
  <2>16. CASE QueueEnds
    BY <2>16 DEF QueueEnds
  <2>17. CASE Begin
    BY <2>17 DEF Begin
  <2>18. CASE Commit
    BY <2>18 DEF Commit
  <2>19. CASE Unavailable
    BY <2>19 DEF Unavailable
  <2>20. CASE LostAck
    BY <2>20 DEF LostAck
  <2>21. CASE BackoffEnds
    BY <2>21 DEF BackoffEnds
  <2>22. CASE RejectBatch
    BY <2>22 DEF RejectBatch
  <2>23. CASE RejectRow
    BY <2>23 DEF RejectRow
  <2>24. CASE GiveUp
    BY <2>24 DEF GiveUp
  <2>25. CASE Publish
    BY <2>25 DEF Publish
  <2>26. CASE Stopped
    BY <2>26 DEF Stopped, vars
  <2>27. CASE UNCHANGED vars
    BY <2>27 DEF vars
  <2>28. QED
    BY <2>1, <2>2, <2>3, <2>4, <2>5, <2>6, <2>7, <2>8, <2>9, <2>10, <2>11, <2>12, <2>13, <2>14, <2>15, <2>16, <2>17, <2>18, <2>19, <2>20, <2>21, <2>22, <2>23, <2>24, <2>25, <2>26, <2>27 DEF Next, Handler, Serve, Batcher, Flush
<1>4. QED
  BY <1>1, <1>2, <1>3, TypeInvariant, PTL DEF Spec

(* Until the drain deadline nothing the database would take is lost.          *)
THEOREM LossCorrect == Spec => []NoEarlyLoss
<1> USE DEF handlers, control, batcher, outcome
<1>1. Init => NoEarlyLoss
  BY DEF Init, NoEarlyLoss
<1>2. NoEarlyLoss /\ [Next]_vars => NoEarlyLoss'
  <2> SUFFICES ASSUME NoEarlyLoss, [Next]_vars PROVE NoEarlyLoss'
    OBVIOUS
  <2> USE DEF NoEarlyLoss, Attempt
  <2>1. ASSUME NEW c \in Conns, Accept(c) PROVE NoEarlyLoss'
    BY <2>1 DEF Accept
  <2>2. ASSUME NEW c \in Conns, Register(c) PROVE NoEarlyLoss'
    BY <2>2 DEF Register
  <2>3. ASSUME NEW c \in Conns, NEW r \in Records, Read(c,r) PROVE NoEarlyLoss'
    BY <2>3 DEF Read
  <2>4. ASSUME NEW c \in Conns, Resolve(c) PROVE NoEarlyLoss'
    BY <2>4 DEF Resolve
  <2>5. ASSUME NEW c \in Conns, ResolveFails(c) PROVE NoEarlyLoss'
    BY <2>5 DEF ResolveFails
  <2>6. ASSUME NEW c \in Conns, Send(c) PROVE NoEarlyLoss'
    BY <2>6 DEF Send
  <2>7. ASSUME NEW c \in Conns, Exit(c) PROVE NoEarlyLoss'
    BY <2>7 DEF Exit
  <2>8. CASE AcceptEnds
    BY <2>8 DEF AcceptEnds
  <2>9. CASE Shutdown
    BY <2>9 DEF Shutdown
  <2>10. CASE Drain
    BY <2>10 DEF Drain
  <2>11. CASE DrainDeadline
    BY <2>11 DEF DrainDeadline
  <2>12. CASE CloseQueue
    BY <2>12 DEF CloseQueue
  <2>13. CASE Stop
    BY <2>13 DEF Stop
  <2>14. CASE Receive
    BY <2>14 DEF Receive
  <2>15. CASE Tick
    BY <2>15 DEF Tick
  <2>16. CASE QueueEnds
    BY <2>16 DEF QueueEnds
  <2>17. CASE Begin
    BY <2>17 DEF Begin
  <2>18. CASE Commit
    BY <2>18 DEF Commit
  <2>19. CASE Unavailable
    BY <2>19 DEF Unavailable
  <2>20. CASE LostAck
    BY <2>20 DEF LostAck
  <2>21. CASE BackoffEnds
    BY <2>21 DEF BackoffEnds
  <2>22. CASE RejectBatch
    BY <2>22 DEF RejectBatch
  <2>23. CASE RejectRow
    BY <2>23 DEF RejectRow
  <2>24. CASE GiveUp
    BY <2>24 DEF GiveUp
  <2>25. CASE Publish
    BY <2>25 DEF Publish
  <2>26. CASE Stopped
    BY <2>26 DEF Stopped, vars
  <2>27. CASE UNCHANGED vars
    BY <2>27 DEF vars
  <2>28. QED
    BY <2>1, <2>2, <2>3, <2>4, <2>5, <2>6, <2>7, <2>8, <2>9, <2>10, <2>11, <2>12, <2>13, <2>14, <2>15, <2>16, <2>17, <2>18, <2>19, <2>20, <2>21, <2>22, <2>23, <2>24, <2>25, <2>26, <2>27 DEF Next, Handler, Serve, Batcher, Flush
<1>3. QED
  BY <1>1, <1>2, PTL DEF Spec

-------------------------------------------------------------------------------
(* Where the records are, and the pipeline's contract. *)

(* No record twice in a sequence. *)
Distinct(s) == \A i, j \in 1..Len(s) : s[i] = s[j] => i = j

(* A record is appended to a sequence. *)
LEMMA AppendSet ==
  ASSUME NEW s \in Seq(Records), NEW x \in Records
  PROVE  /\ SeqSet(Append(s, x)) = SeqSet(s) \cup {x}
         /\ Distinct(s) /\ x \notin SeqSet(s) => Distinct(Append(s, x))
<1> DEFINE t == Append(s, x)
<1>1. /\ DOMAIN s = 1..Len(s) /\ Len(s) \in Nat /\ DOMAIN t = 1..(Len(s) + 1) /\ Len(t) = Len(s) + 1
      /\ \A i \in 1..Len(s) : t[i] = s[i]
      /\ t[Len(s) + 1] = x
  BY AppendProperties, LenProperties
<1> HIDE DEF t
<1>2. SeqSet(t) = SeqSet(s) \cup {x}
  <2>1. \A i \in DOMAIN t : t[i] \in SeqSet(s) \cup {x}
    BY <1>1 DEF SeqSet
  <2>2. \A i \in DOMAIN s : s[i] \in SeqSet(t)
    BY <1>1 DEF SeqSet
  <2>3. x \in SeqSet(t)
    BY <1>1 DEF SeqSet
  <2>4. QED
    BY <2>1, <2>2, <2>3 DEF SeqSet
<1>3. Distinct(s) /\ x \notin SeqSet(s) => Distinct(t)
  BY <1>1 DEF Distinct, SeqSet
<1>4. QED
  BY <1>2, <1>3 DEF t

(* The first record is taken off a sequence without repetitions. *)
LEMMA TailSet ==
  ASSUME NEW s \in Seq(Records), s # <<>>, Distinct(s)
  PROVE  /\ Head(s) \in Records /\ Head(s) \in SeqSet(s) /\ Tail(s) \in Seq(Records)
         /\ SeqSet(Tail(s)) = SeqSet(s) \ {Head(s)} /\ Distinct(Tail(s))
<1> DEFINE t == Tail(s)
<1>1. /\ DOMAIN s = 1..Len(s) /\ Len(s) \in Nat /\ Len(s) >= 1 /\ Head(s) = s[1] /\ Head(s) \in Records
      /\ t \in Seq(Records) /\ DOMAIN t = 1..(Len(s) - 1) /\ Len(t) = Len(s) - 1
      /\ \A i \in 1..(Len(s) - 1) : t[i] = s[i + 1]
  BY LenProperties, EmptySeq
<1> HIDE DEF t
<1>2. Distinct(t)
  BY <1>1 DEF Distinct
<1>3. \A i \in DOMAIN t : t[i] \in SeqSet(s) /\ t[i] # s[1]
  BY <1>1 DEF SeqSet, Distinct
<1>4. \A i \in DOMAIN s : i # 1 => s[i] \in SeqSet(t)
  <2>1. ASSUME NEW i \in 2..Len(s)
        PROVE  s[i] \in SeqSet(t)
    <3>1. i - 1 \in DOMAIN t /\ t[i - 1] = s[i]
      BY <1>1
    <3>2. QED
      BY <3>1 DEF SeqSet
  <2>2. QED
    BY <1>1, <2>1
<1>5. SeqSet(t) = SeqSet(s) \ {s[1]} /\ s[1] \in SeqSet(s)
  <2>1. s[1] \in SeqSet(s)
    BY <1>1 DEF SeqSet
  <2>2. \A x \in SeqSet(t) : x \in SeqSet(s) \ {s[1]}
    BY <1>3 DEF SeqSet
  <2>3. \A x \in SeqSet(s) \ {s[1]} : x \in SeqSet(t)
    BY <1>4 DEF SeqSet
  <2>4. QED
    BY <2>1, <2>2, <2>3
<1>6. QED
  BY <1>1, <1>2, <1>5 DEF t

(* The empty sequence. *)
LEMMA EmptySet == SeqSet(<<>>) = {} /\ Distinct(<<>>)
BY DEF SeqSet, Distinct
-------------------------------------------------------------------------------
(* Some handler holds the record. *)
Held(r) == \E c \in Conns : hand[c] = r

(* Where records are: at one place each, once in a sequence; only a handler   *)
(* that resolves or sends holds one; and outside row by row inserts stored is *)
(* filled by the commit that ends the flush.                                  *)
HeldOnce ==
  /\ \A c \in Conns : conn[c] \notin {"resolving", "sending"} => hand[c] = None
  /\ \A c, d \in Conns : hand[c] \in Records /\ hand[c] = hand[d] => c = d

StageOK == /\ bat = "recv" => ~rows
           /\ ~rows /\ bat # "publish" => stored = <<>>

SeqsOK == Distinct(queue) /\ Distinct(batch) /\ Distinct(stored)

PlacedOnce ==
  \A r \in Records :
    Count(r \in unread) + Count(Held(r)) + Count(r \in SeqSet(queue)) + Count(r \in SeqSet(batch))
      + Count(r \in SeqSet(stored)) + Count(r \in inserted) + Count(r \in dropped) + Count(r \in bad) = 1

PlaceInv == HeldOnce /\ StageOK /\ SeqsOK /\ PlacedOnce

(* A record is in at most one of two of the places. *)
LEMMA Apart ==
  ASSUME PlacedOnce, NEW r \in Records
  PROVE  /\ r \in SeqSet(batch) => r \notin SeqSet(queue) /\ r \notin SeqSet(stored)
         /\ r \in SeqSet(queue) => r \notin SeqSet(batch)
         /\ Held(r) => r \notin SeqSet(queue) /\ r \notin unread /\ r \notin bad
         /\ r \in unread => ~Held(r)
BY DEF PlacedOnce, Count

(* A handler that held nothing takes a record nobody holds. *)
LEMMA HandTakes ==
  ASSUME DataOK, HeldOnce, NEW c \in Conns, NEW r \in Records, hand[c] = None, ~Held(r),
         conn[c] = "reading", conn' = [conn EXCEPT ![c] = "resolving"], hand' = [hand EXCEPT ![c] = r]
  PROVE  HeldOnce' /\ \A x \in Records : Held(x)' <=> Held(x) \/ x = r
<1>1. /\ hand'[c] = r /\ conn'[c] = "resolving"
      /\ \A d \in Conns : d # c => hand'[d] = hand[d] /\ conn'[d] = conn[d]
  BY DEF DataOK
<1>2. \A d \in Conns : hand[d] # r
  BY DEF Held
<1>3. HeldOnce'
  BY <1>1, <1>2 DEF HeldOnce
<1>4. ASSUME NEW x \in Records PROVE Held(x)' <=> Held(x) \/ x = r
  BY <1>1, <1>2, IngestAssumption DEF Held
<1>5. QED
  BY <1>3, <1>4

(* A handler lets its record go. *)
LEMMA HandGives ==
  ASSUME DataOK, HeldOnce, NEW c \in Conns, hand[c] \in Records,
         conn' = [conn EXCEPT ![c] = "reading"], hand' = [hand EXCEPT ![c] = None]
  PROVE  HeldOnce' /\ Held(hand[c]) /\ \A x \in Records : Held(x)' <=> Held(x) /\ x # hand[c]
<1>1. /\ hand'[c] = None /\ conn'[c] = "reading"
      /\ \A d \in Conns : d # c => hand'[d] = hand[d] /\ conn'[d] = conn[d]
  BY DEF DataOK
<1>2. \A d \in Conns : d # c => hand[d] # hand[c]
  BY DEF HeldOnce
<1>3. HeldOnce'
  BY <1>1, IngestAssumption DEF HeldOnce
<1>4. ASSUME NEW x \in Records PROVE Held(x)' <=> Held(x) /\ x # hand[c]
  BY <1>1, <1>2, IngestAssumption DEF Held
<1>5. Held(hand[c])
  BY DEF Held
<1>6. QED
  BY <1>3, <1>4, <1>5

(* Reading a record. *)
LEMMA PlaceRead ==
  ASSUME DataInv, PlaceInv, NEW c \in Conns, NEW r \in Records, Read(c, r)
  PROVE  PlaceInv'
<1> USE DEF PlaceInv
<1>1. /\ UNCHANGED <<acc, srv, queue, bat, batch, rows, stored, inserted, dropped>>
      /\ conn[c] = "reading" /\ r \in unread /\ unread' = unread \ {r}
  BY DEF Read, control, batcher, outcome
<1>2. (StageOK /\ SeqsOK)'
  BY <1>1 DEF StageOK, SeqsOK, Distinct
<1>3. hand[c] = None /\ ~Held(r)
  BY <1>1, Apart DEF HeldOnce
<1>4. CASE r \in Malformed
  <2>1. bad' = bad \cup {r} /\ UNCHANGED <<conn, hand>>
    BY <1>4 DEF Read
  <2>2. HeldOnce' /\ \A x : Held(x)' <=> Held(x)
    BY <2>1 DEF HeldOnce, Held
  <2>3. PlacedOnce'
    BY <1>1, <2>1, <2>2 DEF PlacedOnce, Count, SeqSet
  <2>4. QED
    BY <1>2, <2>2, <2>3
<1>5. CASE r \notin Malformed
  <2>1. bad' = bad /\ conn' = [conn EXCEPT ![c] = "resolving"] /\ hand' = [hand EXCEPT ![c] = r]
    BY <1>5 DEF Read
  <2>2. HeldOnce' /\ \A x \in Records : Held(x)' <=> Held(x) \/ x = r
    BY <1>1, <1>3, <2>1, HandTakes DEF DataInv
  <2>3. PlacedOnce'
    BY <1>1, <2>1, <2>2 DEF PlacedOnce, Count, SeqSet
  <2>4. QED
    BY <1>2, <2>2, <2>3
<1>6. QED
  BY <1>4, <1>5

(* A record whose source is refused. *)
LEMMA PlaceResolveFails ==
  ASSUME DataInv, PlaceInv, NEW c \in Conns, ResolveFails(c)
  PROVE  PlaceInv'
<1> USE DEF PlaceInv
<1>1. /\ UNCHANGED <<unread, acc, srv, queue, bat, batch, rows, stored, inserted, dropped>>
      /\ bad' = bad \cup {hand[c]} /\ hand[c] \in Records
      /\ conn' = [conn EXCEPT ![c] = "reading"] /\ hand' = [hand EXCEPT ![c] = None]
  BY DEF ResolveFails, control, batcher, outcome, DataInv, HandOK
<1>2. (StageOK /\ SeqsOK)'
  BY <1>1 DEF StageOK, SeqsOK, Distinct
<1>3. HeldOnce' /\ Held(hand[c]) /\ \A x \in Records : Held(x)' <=> Held(x) /\ x # hand[c]
  BY <1>1, HandGives DEF DataInv
<1>4. PlacedOnce'
  BY <1>1, <1>3 DEF PlacedOnce, Count, SeqSet
<1>5. QED
  BY <1>2, <1>3, <1>4

(* A record is queued. *)
LEMMA PlaceSend ==
  ASSUME DataInv, PlaceInv, NEW c \in Conns, Send(c)
  PROVE  PlaceInv'
<1> USE DEF PlaceInv
<1>1. /\ UNCHANGED <<unread, acc, bat, batch, rows, stored, inserted, dropped, bad>>
      /\ queue' = Append(queue, hand[c]) /\ hand[c] \in Records
      /\ conn' = [conn EXCEPT ![c] = "reading"] /\ hand' = [hand EXCEPT ![c] = None]
  BY DEF Send, control, batcher, outcome, DataInv, HandOK
<1>2. HeldOnce' /\ Held(hand[c]) /\ \A x \in Records : Held(x)' <=> Held(x) /\ x # hand[c]
  BY <1>1, HandGives DEF DataInv
<1>3. hand[c] \notin SeqSet(queue)
  BY <1>1, <1>2, Apart
<1>4. SeqSet(queue') = SeqSet(queue) \cup {hand[c]} /\ Distinct(queue')
  BY <1>1, <1>3, AppendSet DEF DataInv, DataOK, SeqsOK
<1>5. (StageOK /\ SeqsOK)'
  BY <1>1, <1>4 DEF StageOK, SeqsOK, Distinct
<1>6. SeqSet(batch)' = SeqSet(batch) /\ SeqSet(stored)' = SeqSet(stored) /\ SeqSet(queue)' = SeqSet(queue')
  BY <1>1 DEF SeqSet
<1>7. PlacedOnce'
  BY <1>1, <1>2, <1>3, <1>4, <1>6 DEF PlacedOnce, Count
<1>8. QED
  BY <1>2, <1>5, <1>7

(* The batcher takes a record off the queue. *)
LEMMA PlaceReceive ==
  ASSUME DataInv, PlaceInv, Receive
  PROVE  PlaceInv'
<1> USE DEF PlaceInv
<1>1. /\ UNCHANGED <<unread, conn, hand, acc, rows, stored, inserted, dropped, bad>>
      /\ queue # <<>> /\ queue' = Tail(queue) /\ batch' = Append(batch, Head(queue))
      /\ bat = "recv" /\ bat' \in {"begin", "recv"}
  BY DEF Receive, handlers, control, outcome
<1>2. queue \in Seq(Records) /\ batch \in Seq(Records) /\ Distinct(queue) /\ Distinct(batch)
  BY DEF DataInv, DataOK, SeqsOK
<1>3. /\ Head(queue) \in Records /\ Head(queue) \in SeqSet(queue)
      /\ SeqSet(queue') = SeqSet(queue) \ {Head(queue)} /\ Distinct(queue')
  BY <1>1, <1>2, TailSet
<1>4. Head(queue) \notin SeqSet(batch)
  BY <1>3, Apart
<1>5. SeqSet(batch') = SeqSet(batch) \cup {Head(queue)} /\ Distinct(batch')
  BY <1>1, <1>2, <1>3, <1>4, AppendSet
<1>6. (HeldOnce /\ StageOK /\ SeqsOK)' /\ \A x : Held(x)' <=> Held(x)
  BY <1>1, <1>3, <1>5 DEF HeldOnce, Held, StageOK, SeqsOK, Distinct
<1>7. SeqSet(stored)' = SeqSet(stored) /\ SeqSet(queue)' = SeqSet(queue') /\ SeqSet(batch)' = SeqSet(batch')
  BY <1>1 DEF SeqSet
<1>8. PlacedOnce'
  BY <1>1, <1>3, <1>5, <1>6, <1>7 DEF PlacedOnce, Count
<1>9. QED
  BY <1>6, <1>8

(* A batch, or a row of it, is committed. *)
LEMMA PlaceCommit ==
  ASSUME FlagsOK, DataInv, PlaceInv, Commit
  PROVE  PlaceInv'
<1> USE DEF PlaceInv
<1>1. UNCHANGED <<unread, conn, hand, acc, queue, rows, inserted, dropped, bad>> /\ bat = "insert"
  BY DEF Commit, handlers, control
<1>2. batch \in Seq(Records) /\ stored \in Seq(Records) /\ batch # <<>> /\ Distinct(batch) /\ Distinct(stored)
  BY <1>1 DEF DataInv, DataOK, BatchOK, SeqsOK
<1>3. HeldOnce' /\ (\A x : Held(x)' <=> Held(x)) /\ Distinct(queue') /\ SeqSet(queue)' = SeqSet(queue)
  BY <1>1 DEF HeldOnce, Held, SeqsOK, Distinct, SeqSet
<1>4. CASE rows
  <2>1. /\ batch' = Tail(batch) /\ stored' = Append(stored, Head(batch))
        /\ bat' \in {"begin", "publish"}
    BY <1>4, Zenon DEF Commit, NextRow
  <2>2. /\ Head(batch) \in Records /\ Head(batch) \in SeqSet(batch)
        /\ SeqSet(batch') = SeqSet(batch) \ {Head(batch)} /\ Distinct(batch')
    BY <1>2, <2>1, TailSet
  <2>3. Head(batch) \notin SeqSet(stored)
    BY <2>2, Apart
  <2>4. SeqSet(stored') = SeqSet(stored) \cup {Head(batch)} /\ Distinct(stored')
    BY <1>2, <2>1, <2>2, <2>3, AppendSet
  <2>5. (StageOK /\ SeqsOK)'
    BY <1>1, <1>3, <1>4, <2>1, <2>2, <2>4 DEF StageOK, SeqsOK, Distinct
  <2>6. SeqSet(stored)' = SeqSet(stored') /\ SeqSet(batch)' = SeqSet(batch')
    BY DEF SeqSet
  <2>7. PlacedOnce'
    BY <1>1, <1>3, <2>2, <2>4, <2>6 DEF PlacedOnce, Count
  <2>8. QED
    BY <1>3, <2>5, <2>7
<1>5. CASE ~rows
  <2>1. batch' = <<>> /\ stored' = batch /\ bat' = "publish"
    BY <1>5, Zenon DEF Commit
  <2>2. stored = <<>>
    BY <1>1, <1>5 DEF StageOK
  <2>3. SeqSet(batch)' = {} /\ SeqSet(stored)' = SeqSet(batch) /\ SeqSet(stored) = {}
    BY <2>1, <2>2, EmptySet DEF SeqSet
  <2>4. (StageOK /\ SeqsOK)'
    BY <1>1, <1>2, <1>3, <2>1, EmptySet DEF StageOK, SeqsOK, Distinct
  <2>5. PlacedOnce'
    BY <1>1, <1>3, <2>3 DEF PlacedOnce, Count
  <2>6. QED
    BY <1>3, <2>4, <2>5
<1>6. QED
  BY <1>4, <1>5

(* The batch, or a row of it, is dropped. *)
LEMMA PlaceDrop ==
  ASSUME FlagsOK, DataInv, PlaceInv, RejectRow \/ GiveUp
  PROVE  PlaceInv'
<1> USE DEF PlaceInv
<1>1. /\ UNCHANGED <<unread, conn, hand, acc, queue, rows, stored, inserted, bad>>
      /\ bat \in {"begin", "insert", "backoff"}
  BY DEF RejectRow, GiveUp, handlers, control
<1>2. batch \in Seq(Records) /\ batch # <<>> /\ Distinct(batch)
  BY <1>1 DEF DataInv, DataOK, BatchOK, SeqsOK
<1>3. /\ HeldOnce' /\ (\A x : Held(x)' <=> Held(x)) /\ Distinct(queue') /\ Distinct(stored')
      /\ SeqSet(queue)' = SeqSet(queue) /\ SeqSet(stored)' = SeqSet(stored)
  BY <1>1 DEF HeldOnce, Held, SeqsOK, Distinct, SeqSet
<1>4. CASE rows
  <2>1. batch' = Tail(batch) /\ dropped' = dropped \cup {Head(batch)} /\ bat' \in {"begin", "publish"}
    BY <1>4, Zenon DEF RejectRow, GiveUp, NextRow
  <2>2. /\ Head(batch) \in Records /\ Head(batch) \in SeqSet(batch)
        /\ SeqSet(batch') = SeqSet(batch) \ {Head(batch)} /\ Distinct(batch')
    BY <1>2, <2>1, TailSet
  <2>3. (StageOK /\ SeqsOK)'
    BY <1>1, <1>3, <1>4, <2>1, <2>2 DEF StageOK, SeqsOK, Distinct
  <2>4. SeqSet(batch)' = SeqSet(batch')
    BY DEF SeqSet
  <2>5. PlacedOnce'
    BY <1>1, <1>3, <2>1, <2>2, <2>4 DEF PlacedOnce, Count
  <2>6. QED
    BY <1>3, <2>3, <2>5
<1>5. CASE ~rows
  <2>1. batch' = <<>> /\ dropped' = dropped \cup SeqSet(batch) /\ bat' = "publish"
    BY <1>5, Zenon DEF RejectRow, GiveUp
  <2>2. SeqSet(batch)' = {} /\ (StageOK /\ SeqsOK)'
    BY <1>1, <1>3, <2>1, EmptySet DEF StageOK, SeqsOK, Distinct, SeqSet
  <2>3. PlacedOnce'
    BY <1>1, <1>3, <2>1, <2>2 DEF PlacedOnce, Count
  <2>4. QED
    BY <1>3, <2>2, <2>3
<1>6. QED
  BY <1>4, <1>5

(* What was committed is counted. *)
LEMMA PlacePublish ==
  ASSUME PlaceInv, Publish
  PROVE  PlaceInv'
<1> USE DEF PlaceInv
<1>1. /\ UNCHANGED <<unread, conn, hand, acc, queue, batch, dropped, bad>>
      /\ inserted' = inserted \cup SeqSet(stored) /\ stored' = <<>> /\ bat' = "recv" /\ rows' = FALSE
  BY DEF Publish, handlers, control
<1>2. /\ HeldOnce' /\ (\A x : Held(x)' <=> Held(x)) /\ SeqSet(stored)' = {}
      /\ SeqSet(queue)' = SeqSet(queue) /\ SeqSet(batch)' = SeqSet(batch)
  BY <1>1, EmptySet DEF HeldOnce, Held, SeqSet
<1>3. (StageOK /\ SeqsOK)'
  BY <1>1, EmptySet DEF StageOK, SeqsOK, Distinct
<1>4. PlacedOnce'
  BY <1>1, <1>2 DEF PlacedOnce, Count
<1>5. QED
  BY <1>2, <1>3, <1>4

(* A step that moves no record. *)
LEMMA PlaceStays ==
  ASSUME PlaceInv, UNCHANGED <<unread, hand, queue, batch, stored, inserted, dropped, bad>>, HeldOnce', StageOK'
  PROVE  PlaceInv'
<1>1. SeqsOK' /\ \A x : Held(x)' <=> Held(x)
  BY DEF PlaceInv, SeqsOK, Distinct, Held
<1>2. PlacedOnce'
  BY <1>1 DEF PlaceInv, PlacedOnce, Count, SeqSet
<1>3. QED
  BY <1>1, <1>2 DEF PlaceInv

(* Every step keeps each record at one place. *)
LEMMA PlaceInvariant == Spec => []PlaceInv
<1> USE DEF handlers, control, batcher, outcome
<1>1. Init => PlaceInv
  <2> SUFFICES ASSUME Init PROVE PlaceInv
    OBVIOUS
  <2>1. HeldOnce /\ StageOK /\ SeqsOK /\ \A r \in Records : ~Held(r)
    BY IngestAssumption, EmptySet DEF Init, HeldOnce, StageOK, SeqsOK, Held
  <2>2. PlacedOnce
    BY <2>1, EmptySet DEF Init, PlacedOnce, Count
  <2>3. QED
    BY <2>1, <2>2 DEF PlaceInv
<1>2. FlagsOK /\ DataInv /\ PlaceInv /\ [Next]_vars => PlaceInv'
  <2> SUFFICES ASSUME FlagsOK, DataInv, PlaceInv, [Next]_vars PROVE PlaceInv'
    OBVIOUS
  <2> DEFINE Still == UNCHANGED <<unread, hand, queue, batch, stored, inserted, dropped, bad>>
  <2>1. ASSUME NEW c \in Conns, Accept(c) PROVE PlaceInv'
    <3>1. Still /\ HeldOnce' /\ StageOK'
      BY <2>1 DEF Accept, PlaceInv, HeldOnce, StageOK, DataInv, DataOK
    <3>2. QED
      BY <3>1, PlaceStays
  <2>2. ASSUME NEW c \in Conns, Register(c) PROVE PlaceInv'
    <3>1. Still /\ HeldOnce' /\ StageOK'
      BY <2>2 DEF Register, PlaceInv, HeldOnce, StageOK, DataInv, DataOK
    <3>2. QED
      BY <3>1, PlaceStays
  <2>3. ASSUME NEW c \in Conns, Resolve(c) PROVE PlaceInv'
    <3>1. Still /\ HeldOnce' /\ StageOK'
      BY <2>3 DEF Resolve, PlaceInv, HeldOnce, StageOK, DataInv, DataOK
    <3>2. QED
      BY <3>1, PlaceStays
  <2>4. ASSUME NEW c \in Conns, Exit(c) PROVE PlaceInv'
    <3>1. Still /\ HeldOnce' /\ StageOK'
      BY <2>4 DEF Exit, PlaceInv, HeldOnce, StageOK, DataInv, DataOK
    <3>2. QED
      BY <3>1, PlaceStays
  <2>5. CASE Serve
    <3>1. Still /\ UNCHANGED <<conn, bat, rows>>
      BY <2>5 DEF Serve, AcceptEnds, Shutdown, Drain, DrainDeadline, CloseQueue, Stop
    <3>2. HeldOnce' /\ StageOK'
      BY <3>1 DEF PlaceInv, HeldOnce, StageOK
    <3>3. QED
      BY <3>1, <3>2, PlaceStays
  <2>6. CASE Tick \/ QueueEnds \/ Begin \/ Unavailable \/ LostAck \/ BackoffEnds \/ RejectBatch
    <3>1. Still /\ conn' = conn
      BY <2>6 DEF Tick, QueueEnds, Begin, Unavailable, LostAck, BackoffEnds, RejectBatch
    <3>2. HeldOnce'
      BY <3>1 DEF PlaceInv, HeldOnce
    <3>3. StageOK'
      <4>1. CASE Tick
        BY <4>1 DEF Tick, PlaceInv, StageOK
      <4>2. CASE QueueEnds
        BY <4>2 DEF QueueEnds, PlaceInv, StageOK
      <4>3. CASE Begin
        BY <4>3 DEF Begin, PlaceInv, StageOK
      <4>4. CASE Unavailable
        BY <4>4 DEF Unavailable, PlaceInv, StageOK
      <4>5. CASE LostAck
        BY <4>5 DEF LostAck, PlaceInv, StageOK
      <4>6. CASE BackoffEnds
        BY <4>6 DEF BackoffEnds, PlaceInv, StageOK
      <4>7. CASE RejectBatch
        BY <4>7 DEF RejectBatch, PlaceInv, StageOK
      <4>8. QED
        BY <2>6, <4>1, <4>2, <4>3, <4>4, <4>5, <4>6, <4>7
    <3>4. QED
      BY <3>1, <3>2, <3>3, PlaceStays
  <2>7. CASE Stopped \/ UNCHANGED vars
    <3>1. Still /\ HeldOnce' /\ StageOK'
      BY <2>7 DEF Stopped, vars, PlaceInv, HeldOnce, StageOK
    <3>2. QED
      BY <3>1, PlaceStays
  <2>8. ASSUME NEW c \in Conns, NEW r \in Records, Read(c, r) PROVE PlaceInv'
    BY <2>8, PlaceRead
  <2>9. ASSUME NEW c \in Conns, ResolveFails(c) PROVE PlaceInv'
    BY <2>9, PlaceResolveFails
  <2>10. ASSUME NEW c \in Conns, Send(c) PROVE PlaceInv'
    BY <2>10, PlaceSend
  <2>11. CASE Receive
    BY <2>11, PlaceReceive
  <2>12. CASE Commit
    BY <2>12, PlaceCommit
  <2>13. CASE RejectRow \/ GiveUp
    BY <2>13, PlaceDrop
  <2>14. CASE Publish
    BY <2>14, PlacePublish
  <2>15. QED
    BY <2>1, <2>2, <2>3, <2>4, <2>5, <2>6, <2>7, <2>8, <2>9, <2>10, <2>11, <2>12, <2>13, <2>14 DEF Next, Handler, Batcher, Flush
<1>3. QED
  BY <1>1, <1>2, TypeInvariant, PTL DEF Spec

(* Every record is in exactly one place, through retries, lost                *)
(* acknowledgements, refused rows and the shutdown (ingest.go: handleConn,    *)
(* batcher, flush).                                                           *)
THEOREM PlaceCorrect == Spec => []OnePlace
<1>1. PlaceInv => OnePlace
  <2> SUFFICES ASSUME PlaceInv, NEW r \in Records
               PROVE  /\ Count(r \in unread) + Count(\E c \in Conns : hand[c] = r)
                           + Count(r \in SeqSet(queue)) + Count(r \in SeqSet(batch)) + Count(r \in SeqSet(stored))
                           + Count(r \in inserted) + Count(r \in dropped) + Count(r \in bad) = 1
                      /\ \A c, d \in Conns : hand[c] = r /\ hand[d] = r => c = d
    BY DEF OnePlace
  <2>1. Count(r \in unread) + Count(Held(r)) + Count(r \in SeqSet(queue)) + Count(r \in SeqSet(batch))
          + Count(r \in SeqSet(stored)) + Count(r \in inserted) + Count(r \in dropped) + Count(r \in bad) = 1
    BY DEF PlaceInv, PlacedOnce
  <2>2. \A c, d \in Conns : hand[c] = r /\ hand[d] = r => c = d
    BY DEF PlaceInv, HeldOnce
  <2>3. QED
    BY <2>1, <2>2, Zenon DEF Held
<1>2. QED
  BY <1>1, PlaceInvariant, PTL
-------------------------------------------------------------------------------
(* The batcher ends on a closed and empty queue, and serve after it. *)
EndOK == /\ bat = "done" => closed /\ queue = <<>> /\ stored = <<>>
         /\ srv = "stopped" => bat = "done"

(* The batcher ends only with the queue closed and nothing left. *)
LEMMA EndInvariant == Spec => []EndOK
<1> USE DEF handlers, control, batcher, outcome
<1>1. Init => EndOK
  BY DEF Init, EndOK
<1>2. EndOK /\ NoSendOnClosed /\ PlaceInv /\ [Next]_vars => EndOK'
  <2> SUFFICES ASSUME EndOK, NoSendOnClosed, PlaceInv, [Next]_vars PROVE EndOK'
    OBVIOUS
  <2> USE DEF EndOK
  <2>1. ASSUME NEW c \in Conns, Send(c) PROVE EndOK'
    BY <2>1 DEF Send, NoSendOnClosed
  <2>2. ASSUME NEW c \in Conns, Handler(c), ~Send(c) PROVE EndOK'
    <3>1. UNCHANGED <<control, queue, batcher>>
      BY <2>2 DEF Handler, Accept, Register, Read, Resolve, ResolveFails, Exit
    <3>2. QED
      BY <3>1
  <2>3. CASE Serve
    BY <2>3 DEF Serve, AcceptEnds, Shutdown, Drain, DrainDeadline, CloseQueue, Stop
  <2>4. CASE Receive \/ Tick \/ QueueEnds
    BY <2>4 DEF Receive, Tick, QueueEnds, PlaceInv, StageOK
  <2>5. CASE Flush
    <3>1. bat # "done" /\ UNCHANGED control
      BY <2>5 DEF Flush, Begin, Commit, Unavailable, LostAck, BackoffEnds, RejectBatch, RejectRow, GiveUp, Publish
    <3>2. bat' # "done"
      BY <2>5 DEF Flush, Begin, Commit, Unavailable, LostAck, BackoffEnds, RejectBatch, RejectRow, GiveUp, Publish, NextRow
    <3>3. QED
      BY <3>1, <3>2
  <2>6. CASE Stopped \/ UNCHANGED vars
    BY <2>6 DEF Stopped, vars
  <2>7. QED
    BY <2>1, <2>2, <2>3, <2>4, <2>5, <2>6 DEF Next, Batcher
<1>3. QED
  BY <1>1, <1>2, ClosedCorrect, PlaceInvariant, PTL DEF Spec

(* A change of fates, as the contract has it. *)
LEMMA Settles ==
  ASSUME NEW S, NEW from, NEW to, S \subseteq Records, \A r \in S : Fate(r) = from,
         \A r \in Records : Fate(r)' = IF r \in S THEN to ELSE Fate(r)
  PROVE  Contract!Settle(from, S, to)
BY DEF Contract!Settle, Contract!With

(* A record that is in no counter is unread or taken. *)
LEMMA FateOf ==
  ASSUME PlaceInv, NEW r \in Records
  PROVE  /\ r \in unread => Fate(r) = "unread" /\ r \notin inserted /\ r \notin dropped /\ r \notin bad
         /\ Held(r) \/ r \in SeqSet(batch) \/ r \in SeqSet(stored)
              => Fate(r) = "taken" /\ r \notin unread /\ r \notin inserted /\ r \notin dropped /\ r \notin bad
         /\ Fate(r) = "taken" => Held(r) \/ r \in SeqSet(queue) \/ r \in SeqSet(batch) \/ r \in SeqSet(stored)
BY DEF PlaceInv, PlacedOnce, Count, Fate

(* A step that leaves counters and what was shown alone is none of the contract's. *)
LEMMA Stutters ==
  ASSUME UNCHANGED <<unread, inserted, dropped, bad, told>>, (srv' = "stopped") = (srv = "stopped")
  PROVE  UNCHANGED Contract!vars
<1>1. \A r : Fate(r)' = Fate(r)
  BY DEF Fate
<1>2. QED
  BY <1>1 DEF Contract!vars

(* Reading a record, or failing to resolve its source. *)
LEMMA HandlerImplements ==
  ASSUME DataInv, PlaceInv, EndOK, NoSendOnClosed, NEW c \in Conns, Handler(c)
  PROVE  [Contract!Next]_(Contract!vars)
<1> USE DEF handlers, control, batcher, outcome
<1>1. ASSUME NEW r \in Records, Read(c, r) PROVE Contract!Next
  <2>1. /\ UNCHANGED <<inserted, dropped, told, srv>> /\ conn[c] = "reading" /\ r \in unread
        /\ unread' = unread \ {r}
    BY <1>1 DEF Read
  <2>2. Fate(r) = "unread" /\ r \notin inserted /\ r \notin dropped /\ r \notin bad
    BY <2>1, FateOf
  <2>3. srv # "stopped"
    BY <2>1 DEF EndOK, NoSendOnClosed
  <2>4. CASE r \in Malformed
    <3>1. bad' = bad \cup {r}
      BY <1>1, <2>4 DEF Read
    <3>2. \A x \in Records : Fate(x)' = IF x \in {r} THEN "bad" ELSE Fate(x)
      BY <2>1, <2>2, <3>1 DEF Fate
    <3>3. Contract!Settle("unread", {r}, "bad")
      BY <2>2, <3>2, Settles
    <3>4. QED
      BY <2>1, <2>3, <3>3 DEF Contract!Next, Contract!Refuse
  <2>5. CASE r \notin Malformed
    <3>1. bad' = bad
      BY <1>1, <2>5 DEF Read
    <3>2. \A x \in Records : Fate(x)' = IF x \in {r} THEN "taken" ELSE Fate(x)
      BY <2>1, <2>2, <3>1 DEF Fate
    <3>3. Contract!Settle("unread", {r}, "taken")
      BY <2>2, <3>2, Settles
    <3>4. QED
      BY <2>1, <2>3, <3>3 DEF Contract!Next, Contract!Take
  <2>6. QED
    BY <2>4, <2>5
<1>2. ASSUME ResolveFails(c) PROVE Contract!Next
  <2>1. /\ UNCHANGED <<unread, inserted, dropped, told, srv>> /\ conn[c] = "resolving" /\ hand[c] \in Records
        /\ bad' = bad \cup {hand[c]}
    BY <1>2 DEF ResolveFails, DataInv, HandOK
  <2>2. /\ Fate(hand[c]) = "taken" /\ hand[c] \notin unread /\ hand[c] \notin inserted
        /\ hand[c] \notin dropped /\ hand[c] \notin bad
    BY <2>1, FateOf DEF Held
  <2>3. srv # "stopped"
    BY <2>1 DEF EndOK, NoSendOnClosed
  <2>4. \A x \in Records : Fate(x)' = IF x \in {hand[c]} THEN "bad" ELSE Fate(x)
    BY <2>1, <2>2 DEF Fate
  <2>5. Contract!Settle("taken", {hand[c]}, "bad")
    BY <2>1, <2>2, <2>4, Settles
  <2>6. QED
    BY <2>1, <2>3, <2>5 DEF Contract!Next, Contract!Refuse
<1>3. CASE Accept(c) \/ Register(c) \/ Resolve(c) \/ Send(c) \/ Exit(c)
  <2>1. UNCHANGED <<unread, inserted, dropped, bad, told, srv>>
    BY <1>3 DEF Accept, Register, Resolve, Send, Exit
  <2>2. QED
    BY <2>1, Stutters
<1>4. QED
  BY <1>1, <1>2, <1>3 DEF Handler

(* A group of the batch is dropped. *)
LEMMA DropImplements ==
  ASSUME FlagsOK, DataInv, PlaceInv, EndOK, RejectRow \/ GiveUp
  PROVE  Contract!Next
<1> USE DEF handlers, control, batcher, outcome
<1>1. UNCHANGED <<unread, inserted, bad, told, srv>> /\ bat \in {"begin", "insert", "backoff"}
  BY DEF RejectRow, GiveUp
<1>2. batch \in Seq(Records) /\ batch # <<>> /\ Distinct(batch) /\ srv # "stopped"
  BY <1>1 DEF DataInv, DataOK, BatchOK, PlaceInv, SeqsOK, EndOK
<1>3. PICK S : S \subseteq SeqSet(batch) /\ dropped' = dropped \cup S
  <2>1. Head(batch) \in SeqSet(batch)
    BY <1>2, TailSet
  <2>2. dropped' = dropped \cup {Head(batch)} \/ dropped' = dropped \cup SeqSet(batch)
    BY Zenon DEF RejectRow, GiveUp
  <2>3. QED
    BY <2>1, <2>2
<1>4. S \subseteq Records
  BY <1>2, <1>3 DEF SeqSet
<1>5. \A r \in S : Fate(r) = "taken" /\ r \notin unread /\ r \notin inserted /\ r \notin bad
  BY <1>3, <1>4, FateOf
<1>6. \A x \in Records : Fate(x)' = IF x \in S THEN "dropped" ELSE Fate(x)
  BY <1>1, <1>3, <1>5 DEF Fate
<1>7. Contract!Settle("taken", S, "dropped")
  BY <1>4, <1>5, <1>6, Settles
<1>8. S \in SUBSET Contract!With("taken")
  BY <1>4, <1>5 DEF Contract!With
<1>9. QED
  BY <1>1, <1>2, <1>7, <1>8 DEF Contract!Next, Contract!Drop

(* What was stored is shown: each record for the first time, none twice. *)
LEMMA PublishImplements ==
  ASSUME FlagsOK, DataInv, PlaceInv, EndOK, Publish
  PROVE  Contract!Next
<1> USE DEF handlers, control, batcher, outcome
<1>1. /\ UNCHANGED <<unread, dropped, bad, srv>> /\ srv # "stopped"
      /\ inserted' = inserted \cup SeqSet(stored) /\ told' = told \o stored
  BY DEF Publish, EndOK
<1>2. told \in Seq(Records) /\ stored \in Seq(Records) /\ Distinct(stored)
  BY DEF DataInv, DataOK, PlaceInv, SeqsOK
<1> DEFINE new == {i \in DOMAIN told' : i > Len(told)}
<1>3. /\ Len(told) \in Nat /\ Len(stored) \in Nat
      /\ DOMAIN stored = 1..Len(stored) /\ DOMAIN told' = 1..(Len(told) + Len(stored))
      /\ \A i \in 1..Len(told) : told'[i] = told[i]
      /\ \A i \in 1..Len(stored) : told'[Len(told) + i] = stored[i]
      /\ told' \in Seq(Records) /\ Len(told') = Len(told) + Len(stored)
  BY <1>1, <1>2, ConcatProperties, LenProperties
<1>4. SubSeq(told', 1, Len(told)) = told
  <2>1. SubSeq(told', 1, Len(told)) \in Seq(Records) /\ Len(SubSeq(told', 1, Len(told))) = Len(told)
        /\ \A i \in 1..Len(told) : SubSeq(told', 1, Len(told))[i] = told'[i]
    <3>1. 1 \in 1..(Len(told') + 1) /\ Len(told) \in 0..Len(told')
      BY <1>3
    <3>2. QED
      BY <1>3, <3>1, SubSeqProperties
  <2>2. QED
    BY <1>2, <1>3, <2>1, SeqEqual
<1>5. \A i \in new : i - Len(told) \in 1..Len(stored) /\ told'[i] = stored[i - Len(told)]
  BY <1>3
<1>6. \A i, j \in new : told'[i] = told'[j] => i = j
  BY <1>2, <1>3, <1>5 DEF Distinct
<1>7. {told'[i] : i \in new} = SeqSet(stored)
  <2>1. \A i \in new : told'[i] \in SeqSet(stored)
    BY <1>3, <1>5 DEF SeqSet
  <2>2. \A i \in DOMAIN stored : stored[i] \in {told'[k] : k \in new}
    <3> TAKE i \in DOMAIN stored
    <3>1. Len(told) + i \in new /\ told'[Len(told) + i] = stored[i]
      BY <1>3
    <3>2. QED
      BY <3>1
  <2>3. QED
    BY <2>1, <2>2 DEF SeqSet
<1>8. SeqSet(stored) \subseteq Records
  BY <1>2 DEF SeqSet
<1>9. \A r \in SeqSet(stored) : Fate(r) = "taken" /\ r \notin unread
  BY <1>8, FateOf
<1>10. \A x \in Records : Fate(x)' = IF x \in SeqSet(stored) THEN "inserted" ELSE Fate(x)
  BY <1>1, <1>9 DEF Fate
<1>11. Contract!Settle("taken", {told'[i] : i \in new}, "inserted")
  BY <1>7, <1>8, <1>9, <1>10, Settles
<1>12. QED
  BY <1>1, <1>4, <1>6, <1>11 DEF Contract!Next, Contract!Show

(* serve returns with nothing taken that is not settled. *)
LEMMA StopImplements ==
  ASSUME DataInv, PlaceInv, EndOK, NoSendOnClosed, Stop
  PROVE  Contract!Next
<1> USE DEF handlers, control, batcher, outcome
<1>1. UNCHANGED <<unread, inserted, dropped, bad, told>> /\ srv = "flushing" /\ srv' = "stopped" /\ bat = "done"
  BY DEF Stop
<1>2. queue = <<>> /\ batch = <<>> /\ \A c \in Conns : conn[c] = "none"
  BY <1>1 DEF EndOK, NoSendOnClosed, DataInv, BatchOK
<1>3. stored = <<>>
  BY <1>1 DEF EndOK
<1>4. \A r \in Records : Fate(r) # "taken"
  <2> TAKE r \in Records
  <2>1. ~Held(r)
    BY <1>2, IngestAssumption DEF Held, PlaceInv, HeldOnce
  <2>2. r \notin SeqSet(queue) /\ r \notin SeqSet(batch) /\ r \notin SeqSet(stored)
    BY <1>2, <1>3, EmptySet
  <2>3. QED
    BY <2>1, <2>2, FateOf
<1>5. Contract!With("taken") = {}
  BY <1>4 DEF Contract!With
<1>6. \A r : Fate(r)' = Fate(r)
  BY <1>1 DEF Fate
<1>7. QED
  BY <1>1, <1>5, <1>6 DEF Contract!Next, Contract!End

(* The pipeline keeps its contract: a record is settled once and for good,    *)
(* what is shown only grows, and the end finds everything settled             *)
(* (ingest.go: handleConn, batcher, flush, serve).                            *)
THEOREM ContractCorrect == Spec => Implements
<1> USE DEF handlers, control, batcher, outcome
<1>1. Init => Contract!Init
  <2> SUFFICES ASSUME Init PROVE Contract!Init
    OBVIOUS
  <2>1. \A r \in Records : Fate(r) = "unread"
    BY DEF Init, Fate
  <2>2. QED
    BY <2>1 DEF Init, Contract!Init
<1>2. FlagsOK /\ DataInv /\ PlaceInv /\ EndOK /\ NoSendOnClosed /\ [Next]_vars => [Contract!Next]_(Contract!vars)
  <2> SUFFICES ASSUME FlagsOK, DataInv, PlaceInv, EndOK, NoSendOnClosed, [Next]_vars
               PROVE  [Contract!Next]_(Contract!vars)
    OBVIOUS
  <2>1. ASSUME NEW c \in Conns, Handler(c) PROVE [Contract!Next]_(Contract!vars)
    BY <2>1, HandlerImplements
  <2>2. CASE AcceptEnds \/ Shutdown \/ Drain \/ DrainDeadline \/ CloseQueue
    <3>1. UNCHANGED <<unread, inserted, dropped, bad, told>> /\ (srv' = "stopped" <=> srv = "stopped")
      BY <2>2 DEF AcceptEnds, Shutdown, Drain, DrainDeadline, CloseQueue, EndOK
    <3>2. QED
      BY <3>1, Stutters
  <2>3. CASE Stop
    BY <2>3, StopImplements
  <2>4. CASE Receive \/ Tick \/ QueueEnds \/ Begin \/ Commit \/ Unavailable \/ LostAck \/ BackoffEnds \/ RejectBatch
    <3>1. UNCHANGED <<unread, inserted, dropped, bad, told, srv>>
      BY <2>4 DEF Receive, Tick, QueueEnds, Begin, Commit, Unavailable, LostAck, BackoffEnds, RejectBatch
    <3>2. QED
      BY <3>1, Stutters
  <2>5. CASE RejectRow \/ GiveUp
    BY <2>5, DropImplements
  <2>6. CASE Publish
    BY <2>6, PublishImplements
  <2>7. CASE Stopped \/ UNCHANGED vars
    <3>1. UNCHANGED <<unread, inserted, dropped, bad, told, srv>>
      BY <2>7 DEF Stopped, vars
    <3>2. QED
      BY <3>1, Stutters
  <2>8. QED
    BY <2>1, <2>2, <2>3, <2>4, <2>5, <2>6, <2>7 DEF Next, Serve, Batcher, Flush
<1>3. QED
  BY <1>1, <1>2, TypeInvariant, PlaceInvariant, EndInvariant, ClosedCorrect, PTL DEF Spec, Implements, Contract!Spec

(* When serve has returned, everything that was read is counted               *)
(* (ingest.go: serve).                                                        *)
THEOREM DrainedCorrect == Spec => []DrainedAtStop
<1>1. DataInv /\ PlaceInv /\ EndOK /\ NoSendOnClosed => DrainedAtStop
  <2> SUFFICES ASSUME DataInv, PlaceInv, EndOK, NoSendOnClosed, srv = "stopped"
               PROVE  inserted \cup dropped \cup bad = Records \ unread
    BY DEF DrainedAtStop
  <2>1. queue = <<>> /\ batch = <<>> /\ stored = <<>> /\ \A c \in Conns : conn[c] = "none"
    BY DEF EndOK, NoSendOnClosed, DataInv, BatchOK
  <2>2. inserted \subseteq Records /\ dropped \subseteq Records /\ bad \subseteq Records
    BY DEF DataInv, DataOK
  <2>3. ASSUME NEW r \in Records
        PROVE  r \notin unread <=> r \in inserted \/ r \in dropped \/ r \in bad
    <3>1. ~Held(r)
      BY <2>1, IngestAssumption DEF Held, PlaceInv, HeldOnce
    <3>2. r \notin SeqSet(queue) /\ r \notin SeqSet(batch) /\ r \notin SeqSet(stored)
      BY <2>1, EmptySet
    <3>3. QED
      BY <3>1, <3>2 DEF PlaceInv, PlacedOnce, Count
  <2>4. QED
    BY <2>2, <2>3
<1>2. QED
  BY <1>1, TypeInvariant, PlaceInvariant, EndInvariant, ClosedCorrect, PTL

-------------------------------------------------------------------------------
(* The order in which records are shown.                                      *)

(* All of S were queued before all of T; a sequence follows the queue.        *)
InLine(a, S, T) == \A x \in S, y \in T : Before(a, x, y)
Rising(a, s) == \A i, j \in DOMAIN s : i < j => Before(a, s[i], s[j])

(* What was shown, is stored, is in the batch and is in the queue follow one  *)
(* another in the order a.                                                    *)
Line(a, t, s, b, q) ==
  /\ Rising(a, t) /\ Rising(a, s) /\ Rising(a, b) /\ Rising(a, q)
  /\ InLine(a, SeqSet(t), SeqSet(s) \cup SeqSet(b) \cup SeqSet(q))
  /\ InLine(a, SeqSet(s), SeqSet(b) \cup SeqSet(q)) /\ InLine(a, SeqSet(b), SeqSet(q))

(* The line, and what it is made of: what was queued has not been lost sight  *)
(* of, and what was or will be shown is in the database.                      *)
OrderInv ==
  /\ Distinct(accepted) /\ Line(accepted, told, stored, batch, queue)
  /\ SeqSet(accepted) = SeqSet(queue) \cup SeqSet(batch) \cup SeqSet(stored) \cup inserted \cup dropped
  /\ SeqSet(told) = inserted
  /\ \A r \in inserted \cup SeqSet(stored) : db[r] >= 1

(* Nothing is in the empty line. *)
LEMMA EmptyLine == \A a : Rising(a, <<>>) /\ SeqSet(<<>>) = {}
BY DEF Rising, SeqSet

(* The last one of a sequence comes after the others. *)
LEMMA RisingAppend ==
  ASSUME NEW a, NEW s \in Seq(Records), NEW x \in Records, Rising(a, s), InLine(a, SeqSet(s), {x})
  PROVE  Rising(a, Append(s, x)) /\ SeqSet(Append(s, x)) = SeqSet(s) \cup {x}
<1> DEFINE t == Append(s, x)
<1>1. /\ DOMAIN s = 1..Len(s) /\ Len(s) \in Nat /\ DOMAIN t = 1..(Len(s) + 1)
      /\ \A i \in 1..Len(s) : t[i] = s[i]
      /\ t[Len(s) + 1] = x
  BY AppendProperties, LenProperties
<1> HIDE DEF t
<1>2. ASSUME NEW i \in DOMAIN t, NEW j \in DOMAIN t, i < j PROVE Before(a, t[i], t[j])
  <2>1. CASE j \in DOMAIN s
    BY <1>1, <1>2, <2>1 DEF Rising
  <2>2. CASE j \notin DOMAIN s
    <3>1. j = Len(s) + 1 /\ i \in DOMAIN s
      BY <1>1, <1>2, <2>2
    <3>2. s[i] \in SeqSet(s) /\ t[i] = s[i] /\ t[j] = x
      BY <1>1, <3>1 DEF SeqSet
    <3> QED BY <3>2 DEF InLine
  <2> QED BY <2>1, <2>2
<1> QED BY <1>2, AppendSet DEF Rising, t

(* The first one of a sequence comes before the others. *)
LEMMA RisingTail ==
  ASSUME NEW a, NEW s \in Seq(Records), s # <<>>, Rising(a, s)
  PROVE  /\ Head(s) \in Records /\ Tail(s) \in Seq(Records)
         /\ Rising(a, Tail(s)) /\ InLine(a, {Head(s)}, SeqSet(Tail(s)))
         /\ SeqSet(s) = {Head(s)} \cup SeqSet(Tail(s))
<1> DEFINE t == Tail(s)
<1>1. /\ DOMAIN s = 1..Len(s) /\ Len(s) \in Nat /\ Len(s) >= 1 /\ Head(s) = s[1] /\ Head(s) \in Records
      /\ t \in Seq(Records) /\ DOMAIN t = 1..(Len(s) - 1)
      /\ \A i \in 1..(Len(s) - 1) : t[i] = s[i + 1]
  BY LenProperties, EmptySeq
<1> HIDE DEF t
<1>2. Rising(a, t)
  <2> SUFFICES ASSUME NEW i \in DOMAIN t, NEW j \in DOMAIN t, i < j PROVE Before(a, t[i], t[j])
    BY DEF Rising
  <2>1. /\ i + 1 \in DOMAIN s /\ j + 1 \in DOMAIN s /\ i + 1 < j + 1
        /\ t[i] = s[i + 1] /\ t[j] = s[j + 1]
    BY <1>1
  <2> QED BY <2>1 DEF Rising
<1>3. InLine(a, {s[1]}, SeqSet(t))
  <2> SUFFICES ASSUME NEW i \in DOMAIN t PROVE Before(a, s[1], t[i])
    BY DEF InLine, SeqSet
  <2>1. i + 1 \in DOMAIN s /\ 1 \in DOMAIN s /\ 1 < i + 1 /\ t[i] = s[i + 1]
    BY <1>1
  <2> QED BY <2>1 DEF Rising
<1>4. SeqSet(s) = {s[1]} \cup SeqSet(t)
  <2>1. \A i \in DOMAIN s : s[i] \in {s[1]} \cup SeqSet(t)
    <3> SUFFICES ASSUME NEW i \in DOMAIN s, i # 1 PROVE s[i] \in SeqSet(t)
      OBVIOUS
    <3>1. i - 1 \in DOMAIN t /\ t[i - 1] = s[i]
      BY <1>1
    <3> QED BY <3>1 DEF SeqSet
  <2>2. \A i \in DOMAIN t : t[i] \in SeqSet(s)
    BY <1>1 DEF SeqSet
  <2>3. s[1] \in SeqSet(s)
    BY <1>1 DEF SeqSet
  <2> QED BY <2>1, <2>2, <2>3 DEF SeqSet
<1> QED BY <1>1, <1>2, <1>3, <1>4 DEF t

(* Two sequences in line make one. *)
LEMMA RisingJoin ==
  ASSUME NEW a, NEW s \in Seq(Records), NEW t \in Seq(Records), Rising(a, s), Rising(a, t),
         InLine(a, SeqSet(s), SeqSet(t))
  PROVE  Rising(a, s \o t) /\ SeqSet(s \o t) = SeqSet(s) \cup SeqSet(t)
<1> DEFINE u == s \o t
<1>1. /\ DOMAIN s = 1..Len(s) /\ DOMAIN t = 1..Len(t) /\ Len(s) \in Nat /\ Len(t) \in Nat
      /\ DOMAIN u = 1..(Len(s) + Len(t))
      /\ \A i \in DOMAIN u : u[i] = IF i <= Len(s) THEN s[i] ELSE t[i - Len(s)]
  BY ConcatProperties, LenProperties
<1> HIDE DEF u
<1>2. \A i \in DOMAIN u : \/ i \in DOMAIN s /\ u[i] = s[i]
                          \/ i - Len(s) \in DOMAIN t /\ u[i] = t[i - Len(s)] /\ i \notin DOMAIN s
  BY <1>1
<1>3. ASSUME NEW i \in DOMAIN u, NEW j \in DOMAIN u, i < j PROVE Before(a, u[i], u[j])
  <2>1. CASE j \in DOMAIN s
    BY <1>1, <1>3, <2>1 DEF Rising
  <2>2. CASE i \in DOMAIN s /\ j \notin DOMAIN s
    <3>1. u[i] \in SeqSet(s) /\ u[j] \in SeqSet(t)
      BY <1>2, <2>2 DEF SeqSet
    <3> QED BY <3>1 DEF InLine
  <2>3. CASE i \notin DOMAIN s
    <3>1. /\ i - Len(s) \in DOMAIN t /\ u[i] = t[i - Len(s)]
          /\ j - Len(s) \in DOMAIN t /\ u[j] = t[j - Len(s)] /\ i - Len(s) < j - Len(s)
      BY <1>1, <1>3, <2>3
    <3> QED BY <3>1 DEF Rising
  <2> QED BY <1>1, <1>3, <2>1, <2>2, <2>3
<1>4. SeqSet(u) = SeqSet(s) \cup SeqSet(t)
  <2>1. \A i \in DOMAIN u : u[i] \in SeqSet(s) \cup SeqSet(t)
    BY <1>2 DEF SeqSet
  <2>2. \A i \in DOMAIN s : s[i] \in SeqSet(u)
    BY <1>1 DEF SeqSet
  <2>3. ASSUME NEW i \in DOMAIN t PROVE t[i] \in SeqSet(u)
    <3>1. i + Len(s) \in DOMAIN u /\ u[i + Len(s)] = t[i]
      BY <1>1
    <3> QED BY <3>1 DEF SeqSet
  <2> QED BY <2>1, <2>2, <2>3 DEF SeqSet
<1> QED BY <1>3, <1>4 DEF Rising, u

(* What is queued anew comes last. *)
LEMMA QueuedLast ==
  ASSUME NEW a \in Seq(Records), NEW x \in Records
  PROVE  /\ \A y, z : Before(a, y, z) => Before(Append(a, x), y, z)
         /\ \A y \in SeqSet(a) : Before(Append(a, x), y, x)
<1> DEFINE b == Append(a, x)
<1>1. /\ DOMAIN a = 1..Len(a) /\ Len(a) \in Nat /\ DOMAIN b = 1..(Len(a) + 1)
      /\ \A i \in 1..Len(a) : b[i] = a[i]
      /\ b[Len(a) + 1] = x
  BY AppendProperties, LenProperties
<1> HIDE DEF b
<1>2. ASSUME NEW y, NEW z, Before(a, y, z) PROVE Before(b, y, z)
  BY <1>1, <1>2 DEF Before
<1>3. ASSUME NEW i \in DOMAIN a PROVE Before(b, a[i], x)
  BY <1>1 DEF Before
<1> QED BY <1>2, <1>3 DEF b, SeqSet

(* Records that were queued once each have one order. *)
LEMMA OneOrder ==
  ASSUME NEW a \in Seq(Records), Distinct(a), NEW x, NEW y, Before(a, x, y)
  PROVE  ~Before(a, y, x)
<1>1. DOMAIN a = 1..Len(a) /\ Len(a) \in Nat
  BY LenProperties
<1> QED BY <1>1 DEF Distinct, Before

-------------------------------------------------------------------------------
(* How the line moves. *)

(* A step that does not touch it. *)
LEMMA OrderStays ==
  ASSUME OrderInv, UNCHANGED <<accepted, told, stored, batch, queue, inserted, dropped>>,
         \A r \in Records : db'[r] >= db[r], db \in [Records -> Nat], db' \in [Records -> Nat],
         inserted \cup SeqSet(stored) \subseteq Records
  PROVE  OrderInv'
<1>1. SeqSet(stored)' = SeqSet(stored)
  BY DEF SeqSet
<1>2. \A r \in inserted \cup SeqSet(stored) : db'[r] >= 1
  BY DEF OrderInv
<1>3. (Distinct(accepted) /\ Line(accepted, told, stored, batch, queue))'
  BY DEF OrderInv, Distinct, Line, Rising, InLine, Before, SeqSet
<1>4. SeqSet(accepted)' = SeqSet(accepted) /\ SeqSet(queue)' = SeqSet(queue)
      /\ SeqSet(batch)' = SeqSet(batch) /\ SeqSet(told)' = SeqSet(told)
  BY DEF SeqSet
<1> QED BY <1>1, <1>2, <1>3, <1>4 DEF OrderInv

(* What lines say, without the sequences. *)
LEMMA Primes ==
  /\ Line(accepted, told, stored, batch, queue)' <=> Line(accepted', told', stored', batch', queue')
  /\ SeqSet(accepted)' = SeqSet(accepted') /\ SeqSet(told)' = SeqSet(told')
  /\ SeqSet(stored)' = SeqSet(stored') /\ SeqSet(batch)' = SeqSet(batch') /\ SeqSet(queue)' = SeqSet(queue')
  /\ Distinct(accepted)' <=> Distinct(accepted')
<1>1. Line(accepted, told, stored, batch, queue)' <=> Line(accepted', told', stored', batch', queue')
  BY DEF Line, Rising, InLine, Before, SeqSet
<1>2. /\ SeqSet(accepted)' = SeqSet(accepted') /\ SeqSet(told)' = SeqSet(told')
      /\ SeqSet(stored)' = SeqSet(stored') /\ SeqSet(batch)' = SeqSet(batch') /\ SeqSet(queue)' = SeqSet(queue')
      /\ Distinct(accepted)' <=> Distinct(accepted')
  BY DEF SeqSet, Distinct
<1> QED BY <1>1, <1>2

(* A record is queued: it comes after everything that ever was.               *)
LEMMA LineQueues ==
  ASSUME NEW a \in Seq(Records), NEW x \in Records, NEW t, NEW s, NEW b, NEW q \in Seq(Records),
         Line(a, t, s, b, q), SeqSet(t) \cup SeqSet(s) \cup SeqSet(b) \cup SeqSet(q) \subseteq SeqSet(a)
  PROVE  Line(Append(a, x), t, s, b, Append(q, x))
<1> DEFINE c == Append(a, x)
<1>1. \A y, z : Before(a, y, z) => Before(c, y, z)
  BY QueuedLast
<1>2. \A y \in SeqSet(a) : Before(c, y, x)
  BY QueuedLast
<1> HIDE DEF c
<1>3. Rising(c, t) /\ Rising(c, s) /\ Rising(c, b) /\ Rising(c, q)
  BY <1>1 DEF Line, Rising
<1>4. InLine(c, SeqSet(q), {x})
  BY <1>2 DEF InLine
<1>5. Rising(c, Append(q, x)) /\ SeqSet(Append(q, x)) = SeqSet(q) \cup {x}
  BY <1>3, <1>4, RisingAppend
<1>6. /\ InLine(c, SeqSet(t), SeqSet(s) \cup SeqSet(b) \cup (SeqSet(q) \cup {x}))
      /\ InLine(c, SeqSet(s), SeqSet(b) \cup (SeqSet(q) \cup {x}))
      /\ InLine(c, SeqSet(b), SeqSet(q) \cup {x})
  BY <1>1, <1>2 DEF Line, InLine
<1>7. Line(c, t, s, b, Append(q, x))
  BY <1>3, <1>5, <1>6 DEF Line
<1> QED BY <1>7 DEF c

(* The batcher takes the first of the queue.                                  *)
LEMMA LineReceives ==
  ASSUME NEW a, NEW t, NEW s, NEW b \in Seq(Records), NEW q \in Seq(Records), q # <<>>, Line(a, t, s, b, q)
  PROVE  Line(a, t, s, Append(b, Head(q)), Tail(q))
<1>1. /\ Head(q) \in Records /\ Rising(a, Tail(q)) /\ InLine(a, {Head(q)}, SeqSet(Tail(q)))
      /\ SeqSet(q) = {Head(q)} \cup SeqSet(Tail(q))
  BY RisingTail DEF Line
<1>2. Rising(a, Append(b, Head(q))) /\ SeqSet(Append(b, Head(q))) = SeqSet(b) \cup {Head(q)}
  <2>1. InLine(a, SeqSet(b), {Head(q)}) /\ Rising(a, b)
    BY <1>1 DEF Line, InLine
  <2> QED BY <1>1, <2>1, RisingAppend
<1> QED BY <1>1, <1>2 DEF Line, InLine

(* A row is committed.                                                        *)
LEMMA LineStores ==
  ASSUME NEW a, NEW t, NEW s \in Seq(Records), NEW b \in Seq(Records), NEW q, b # <<>>, Line(a, t, s, b, q)
  PROVE  Line(a, t, Append(s, Head(b)), Tail(b), q) /\ SeqSet(Append(s, Head(b))) = SeqSet(s) \cup {Head(b)}
<1>1. /\ Head(b) \in Records /\ Rising(a, Tail(b)) /\ InLine(a, {Head(b)}, SeqSet(Tail(b)))
      /\ SeqSet(b) = {Head(b)} \cup SeqSet(Tail(b))
  BY RisingTail DEF Line
<1>2. Rising(a, Append(s, Head(b))) /\ SeqSet(Append(s, Head(b))) = SeqSet(s) \cup {Head(b)}
  <2>1. InLine(a, SeqSet(s), {Head(b)}) /\ Rising(a, s)
    BY <1>1 DEF Line, InLine
  <2> QED BY <1>1, <2>1, RisingAppend
<1> QED BY <1>1, <1>2 DEF Line, InLine

(* A batch is committed.                                                      *)
LEMMA LineStoresAll ==
  ASSUME NEW a, NEW t, NEW b, NEW q, Line(a, t, <<>>, b, q) PROVE Line(a, t, b, <<>>, q)
BY EmptyLine DEF Line, InLine

(* A row, or all that is left of a batch, is dropped.                         *)
LEMMA LineDrops ==
  ASSUME NEW a, NEW t, NEW s, NEW b \in Seq(Records), NEW q, Line(a, t, s, b, q)
  PROVE  Line(a, t, s, <<>>, q) /\ (b # <<>> => Line(a, t, s, Tail(b), q))
<1>1. Line(a, t, s, <<>>, q)
  BY EmptyLine DEF Line, InLine
<1>2. ASSUME b # <<>> PROVE Line(a, t, s, Tail(b), q)
  <2>1. Rising(a, Tail(b)) /\ SeqSet(b) = {Head(b)} \cup SeqSet(Tail(b))
    BY <1>2, RisingTail DEF Line
  <2> QED BY <2>1 DEF Line, InLine
<1> QED BY <1>1, <1>2

(* What is stored is shown.                                                   *)
LEMMA LinePublishes ==
  ASSUME NEW a, NEW t \in Seq(Records), NEW s \in Seq(Records), NEW b, NEW q, Line(a, t, s, b, q)
  PROVE  Line(a, t \o s, <<>>, b, q) /\ SeqSet(t \o s) = SeqSet(t) \cup SeqSet(s)
<1>1. Rising(a, t \o s) /\ SeqSet(t \o s) = SeqSet(t) \cup SeqSet(s)
  BY RisingJoin DEF Line, InLine
<1> QED BY <1>1, EmptyLine DEF Line, InLine

-------------------------------------------------------------------------------
(* Sending: the record was in nobody's line.                                  *)
LEMMA OrderSend ==
  ASSUME DataInv, PlaceInv, OrderInv, NEW c \in Conns, Send(c)
  PROVE  OrderInv'
<1>1. /\ UNCHANGED <<told, stored, batch, inserted, dropped, db>> /\ hand[c] \in Records
      /\ queue' = Append(queue, hand[c]) /\ accepted' = Append(accepted, hand[c])
  BY DEF Send, control, batcher, outcome, DataInv, HandOK
<1>2. Held(hand[c])
  BY DEF Held
<1>3. hand[c] \notin SeqSet(accepted)
  <2>1. hand[c] \notin SeqSet(queue) /\ hand[c] \notin SeqSet(batch) /\ hand[c] \notin SeqSet(stored)
        /\ hand[c] \notin inserted /\ hand[c] \notin dropped
    BY <1>1, <1>2 DEF PlaceInv, PlacedOnce, Count
  <2> QED BY <2>1 DEF OrderInv
<1>4. accepted \in Seq(Records) /\ queue \in Seq(Records)
  BY DEF DataInv, DataOK
<1>5. Distinct(accepted') /\ SeqSet(accepted') = SeqSet(accepted) \cup {hand[c]}
      /\ SeqSet(queue') = SeqSet(queue) \cup {hand[c]}
  BY <1>1, <1>3, <1>4, AppendSet DEF OrderInv
<1>6. Line(accepted', told', stored', batch', queue')
  BY <1>1, <1>4, LineQueues DEF OrderInv
<1> QED BY <1>1, <1>5, <1>6, Primes DEF OrderInv

(* Receiving.                                                                 *)
LEMMA OrderReceive ==
  ASSUME DataInv, OrderInv, Receive
  PROVE  OrderInv'
<1>1. /\ UNCHANGED <<accepted, told, stored, inserted, dropped, db>> /\ queue # <<>>
      /\ queue' = Tail(queue) /\ batch' = Append(batch, Head(queue))
  BY DEF Receive, outcome
<1>2. batch \in Seq(Records) /\ queue \in Seq(Records)
  BY DEF DataInv, DataOK
<1>3. Line(accepted', told', stored', batch', queue')
  BY <1>1, <1>2, LineReceives DEF OrderInv
<1>4. Head(queue) \in Records /\ SeqSet(queue) = {Head(queue)} \cup SeqSet(queue')
  BY <1>1, <1>2, RisingTail DEF OrderInv, Line
<1>5. SeqSet(batch') = SeqSet(batch) \cup {Head(queue)}
  BY <1>1, <1>2, <1>4, AppendSet
<1> QED BY <1>1, <1>3, <1>4, <1>5, Primes DEF OrderInv

(* Committing: what is stored is in the database.                             *)
LEMMA OrderCommit ==
  ASSUME FlagsOK, DataInv, PlaceInv, OrderInv, Commit
  PROVE  OrderInv'
<1>1. /\ UNCHANGED <<accepted, told, queue, inserted, dropped>> /\ bat = "insert"
      /\ db' = [r \in Records |-> IF r \in Attempt THEN db[r] + 1 ELSE db[r]]
  BY DEF Commit
<1>2. /\ batch \in Seq(Records) /\ stored \in Seq(Records) /\ batch # <<>> /\ db \in [Records -> Nat]
      /\ inserted \subseteq Records /\ SeqSet(stored) \subseteq Records /\ SeqSet(batch) \subseteq Records
  BY <1>1 DEF DataInv, DataOK, BatchOK, SeqSet
<1>3. \A r \in Records : db'[r] >= db[r] /\ (r \in Attempt => db'[r] >= 1)
  BY <1>1, <1>2
<1>4. CASE rows
  <2>1. stored' = Append(stored, Head(batch)) /\ batch' = Tail(batch) /\ Attempt = {Head(batch)}
    BY <1>4, Zenon DEF Commit, Attempt
  <2>2. Line(accepted', told', stored', batch', queue') /\ SeqSet(stored') = SeqSet(stored) \cup {Head(batch)}
    BY <1>1, <1>2, <2>1, LineStores DEF OrderInv
  <2>3. Head(batch) \in Records /\ SeqSet(batch) = {Head(batch)} \cup SeqSet(batch')
    BY <1>2, <2>1, RisingTail DEF OrderInv, Line
  <2>4. \A r \in inserted' \cup SeqSet(stored') : db'[r] >= 1
    BY <1>1, <1>2, <1>3, <2>1, <2>2, <2>3 DEF OrderInv
  <2> QED BY <1>1, <2>2, <2>3, <2>4, Primes DEF OrderInv
<1>5. CASE ~rows
  <2>1. stored' = batch /\ batch' = <<>> /\ Attempt = SeqSet(batch) /\ stored = <<>>
    BY <1>1, <1>5, Zenon DEF Commit, Attempt, PlaceInv, StageOK
  <2>2. Line(accepted', told', stored', batch', queue')
    BY <1>1, <2>1, LineStoresAll DEF OrderInv
  <2>3. SeqSet(stored') = SeqSet(batch) /\ SeqSet(batch') = {} /\ SeqSet(stored) = {}
    BY <2>1, EmptyLine
  <2>4. \A r \in inserted' \cup SeqSet(stored') : db'[r] >= 1
    BY <1>1, <1>2, <1>3, <2>1, <2>3 DEF OrderInv
  <2> QED BY <1>1, <2>2, <2>3, <2>4, Primes DEF OrderInv
<1> QED BY <1>4, <1>5

(* Dropping: what is left keeps its order.                                    *)
LEMMA OrderDrop ==
  ASSUME FlagsOK, DataInv, OrderInv, RejectRow \/ GiveUp
  PROVE  OrderInv'
<1>1. UNCHANGED <<accepted, told, queue, stored, inserted, db>> /\ bat \in {"begin", "insert", "backoff"}
  BY DEF RejectRow, GiveUp
<1>2. batch \in Seq(Records) /\ batch # <<>>
  BY <1>1 DEF DataInv, DataOK, BatchOK
<1>3. CASE rows
  <2>1. batch' = Tail(batch) /\ dropped' = dropped \cup {Head(batch)}
    BY <1>3, Zenon DEF RejectRow, GiveUp
  <2>2. Line(accepted', told', stored', batch', queue')
    BY <1>1, <1>2, <2>1, LineDrops DEF OrderInv
  <2>3. SeqSet(batch) = {Head(batch)} \cup SeqSet(batch')
    BY <1>2, <2>1, RisingTail DEF OrderInv, Line
  <2> QED BY <1>1, <2>1, <2>2, <2>3, Primes DEF OrderInv
<1>4. CASE ~rows
  <2>1. batch' = <<>> /\ dropped' = dropped \cup SeqSet(batch)
    BY <1>4, Zenon DEF RejectRow, GiveUp
  <2>2. Line(accepted', told', stored', batch', queue')
    BY <1>1, <1>2, <2>1, LineDrops DEF OrderInv
  <2>3. SeqSet(batch') = {}
    BY <2>1, EmptyLine
  <2> QED BY <1>1, <2>1, <2>2, <2>3, Primes DEF OrderInv
<1> QED BY <1>3, <1>4

(* Showing what is stored.                                                    *)
LEMMA OrderPublish ==
  ASSUME DataInv, OrderInv, Publish
  PROVE  OrderInv'
<1>1. /\ UNCHANGED <<accepted, queue, batch, dropped, db>> /\ told' = told \o stored /\ stored' = <<>>
      /\ inserted' = inserted \cup SeqSet(stored)
  BY DEF Publish
<1>2. told \in Seq(Records) /\ stored \in Seq(Records)
  BY DEF DataInv, DataOK
<1>3. Line(accepted', told', stored', batch', queue') /\ SeqSet(told') = SeqSet(told) \cup SeqSet(stored)
  <2>1. Line(accepted, told, stored, batch, queue)
    BY DEF OrderInv
  <2>2. /\ Line(accepted, told \o stored, <<>>, batch, queue)
        /\ SeqSet(told \o stored) = SeqSet(told) \cup SeqSet(stored)
    BY <1>2, <2>1, LinePublishes
  <2> QED BY <1>1, <2>2
<1>4. SeqSet(stored') = {}
  BY <1>1, EmptyLine
<1> QED BY <1>1, <1>3, <1>4, Primes DEF OrderInv

(* Records are shown in the order they were queued, each once and stored,     *)
(* whatever becomes of the batch they are in (ingest.go: batcher, flush,      *)
(* insertEach, publish).                                                      *)
THEOREM ShownCorrect == Spec => []ShownInOrder
<1>1. Init => OrderInv
  <2> SUFFICES ASSUME Init PROVE OrderInv
    OBVIOUS
  <2>1. Distinct(accepted) /\ SeqSet(accepted) = {} /\ inserted = {} /\ dropped = {}
        /\ told = <<>> /\ stored = <<>> /\ batch = <<>> /\ queue = <<>>
    BY EmptySet DEF Init
  <2> QED BY <2>1, EmptyLine DEF OrderInv, Line, InLine
<1>2. FlagsOK /\ DataInv /\ PlaceInv /\ OrderInv /\ [Next]_vars /\ DataInv' => OrderInv'
  <2> SUFFICES ASSUME FlagsOK, DataInv, PlaceInv, OrderInv, [Next]_vars, DataInv' PROVE OrderInv'
    OBVIOUS
  <2>1. db \in [Records -> Nat] /\ db' \in [Records -> Nat] /\ inserted \cup SeqSet(stored) \subseteq Records
    BY DEF DataInv, DataOK, SeqSet
  <2> DEFINE Still == UNCHANGED <<accepted, told, stored, batch, queue, inserted, dropped>>
  <2>2. ASSUME Still, db' = db PROVE OrderInv'
    BY <2>1, <2>2, OrderStays
  <2>3. ASSUME NEW c \in Conns, Handler(c), ~Send(c) PROVE OrderInv'
    <3>1. Still /\ db' = db
      BY <2>3, Zenon DEF Handler, Accept, Register, Read, Resolve, ResolveFails, Exit, batcher, outcome
    <3> QED BY <2>2, <3>1
  <2>4. CASE Serve
    <3>1. Still /\ db' = db
      BY <2>4 DEF Serve, AcceptEnds, Shutdown, Drain, DrainDeadline, CloseQueue, Stop, batcher, outcome
    <3> QED BY <2>2, <3>1
  <2>5. CASE Tick \/ QueueEnds \/ Begin \/ Unavailable \/ BackoffEnds \/ RejectBatch
    <3>1. Still /\ db' = db
      BY <2>5 DEF Tick, QueueEnds, Begin, Unavailable, BackoffEnds, RejectBatch, outcome
    <3> QED BY <2>2, <3>1
  <2>6. CASE LostAck
    <3>1. Still /\ \A r \in Records : db'[r] >= db[r]
      BY <2>1, <2>6 DEF LostAck
    <3> QED BY <2>1, <3>1, OrderStays
  <2>7. CASE Stopped \/ UNCHANGED vars
    <3>1. Still /\ db' = db
      BY <2>7 DEF Stopped, vars, batcher, outcome
    <3> QED BY <2>2, <3>1
  <2>8. ASSUME NEW c \in Conns, Send(c) PROVE OrderInv'
    BY <2>8, OrderSend
  <2> QED
    BY <2>3, <2>4, <2>5, <2>6, <2>7, <2>8, OrderReceive, OrderCommit, OrderDrop, OrderPublish
    DEF Next, Batcher, Flush
<1>3. DataInv /\ OrderInv => ShownInOrder
  <2> SUFFICES ASSUME DataInv, OrderInv PROVE ShownInOrder
    OBVIOUS
  <2>1. accepted \in Seq(Records)
    BY DEF DataInv, DataOK
  <2>2. \A x, y : Before(accepted, x, y) => ~Before(accepted, y, x)
    BY <2>1, OneOrder DEF OrderInv
  <2> QED BY <2>2 DEF OrderInv, Line, Rising, ShownInOrder
<1> QED BY <1>1, <1>2, <1>3, TypeInvariant, PlaceInvariant, PTL DEF Spec
=============================================================================
