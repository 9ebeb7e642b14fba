-------------------------------- MODULE Ingest --------------------------------
(***************************************************************************)
(* syslog-bucket's ingest pipeline (internal/ingest/ingest.go).  syslog-ng *)
(* sends records over TCP connections; a handler per connection turns each *)
(* one into an entry and sends it on a bounded queue; one batcher takes    *)
(* entries off the queue, inserts them in batches and shows what was       *)
(* committed to live tail and to the notifier.  Run's own goroutine ends   *)
(* it all in order when the context is cancelled.                          *)
(*                                                                         *)
(* The database may be away for any time, may refuse a row for good, and   *)
(* may commit a batch and lose the acknowledgement.                        *)
(***************************************************************************)
EXTENDS Naturals, Sequences

CONSTANTS
  Conns,       (* connection slots                                          *)
  Records,     (* the records syslog-ng may send, each of them once         *)
  Malformed,   (* those that are not JSON                                   *)
  Unsourced,   (* those whose source row Postgres refuses                   *)
  Poison,      (* those whose entry row Postgres refuses                    *)
  None,        (* no record                                                 *)
  QueueDepth,  (* capacity of the queue                                     *)
  BatchSize,   (* entries in a full batch                                   *)
  MaxCopies    (* bound: commits of one record                              *)

ASSUME IngestAssumption ==
  /\ None \notin Records
  /\ Malformed \subseteq Records /\ Unsourced \subseteq Records /\ Poison \subseteq Records
  /\ QueueDepth \in Nat /\ BatchSize \in Nat \ {0} /\ MaxCopies \in Nat \ {0}

VARIABLES
  unread,      (* records no handler has read                               *)
  conn,        (* conn[c]: where the handler of slot c is                   *)
  hand,        (* hand[c]: the record it is working on                      *)
  acc,         (* the accept loop                                           *)
  srv,         (* serve                                                     *)
  closed,      (* the queue is closed                                       *)
  dbLive,      (* dbCtx is not cancelled                                    *)
  queue,       (* entries in the channel                                    *)
  bat,         (* the batcher                                               *)
  batch,       (* what it collects, or has still to insert                  *)
  rows,        (* it inserts row by row, after a refusal of the whole       *)
  stored,      (* what the current flush has committed                      *)
  db,          (* db[r]: rows of r in the database                          *)
  inserted, dropped, bad,  (* what the counters of those names count        *)
  told,        (* what live tail and the notifier were shown, in order      *)
  accepted     (* history: what was sent on the queue, in order             *)

handlers == <<unread, conn, hand, acc>>
control  == <<srv, closed, dbLive>>
batcher  == <<bat, batch, rows, stored>>
outcome  == <<db, inserted, dropped, told>>
vars     == <<handlers, control, queue, batcher, outcome, bad, accepted>>

SeqSet(s) == {s[i] : i \in DOMAIN s}

FlagsOK == closed \in BOOLEAN /\ dbLive \in BOOLEAN /\ rows \in BOOLEAN

DataOK ==
  /\ unread \subseteq Records
  /\ conn \in [Conns -> {"none", "accepted", "reading", "resolving", "sending"}]
  /\ hand \in [Conns -> Records \cup {None}]
  /\ acc \in {"accept", "register", "done"}
  /\ srv \in {"serving", "closing", "draining", "flushing", "stopped"}
  /\ queue \in Seq(Records) /\ Len(queue) <= QueueDepth
  /\ bat \in {"recv", "begin", "insert", "backoff", "publish", "done"}
  /\ batch \in Seq(Records) /\ Len(batch) <= BatchSize
  /\ stored \in Seq(Records)
  /\ db \in [Records -> Nat]
  /\ inserted \subseteq Records /\ dropped \subseteq Records /\ bad \subseteq Records
  /\ told \in Seq(Records) /\ accepted \in Seq(Records)

TypeOK == FlagsOK /\ DataOK

Init ==
  /\ unread = Records
  /\ conn = [c \in Conns |-> "none"] /\ hand = [c \in Conns |-> None]
  /\ acc = "accept" /\ srv = "serving" /\ closed = FALSE /\ dbLive = TRUE
  /\ queue = <<>>
  /\ bat = "recv" /\ batch = <<>> /\ rows = FALSE /\ stored = <<>>
  /\ db = [r \in Records |-> 0]
  /\ inserted = {} /\ dropped = {} /\ bad = {}
  /\ told = <<>> /\ accepted = <<>>

-------------------------------------------------------------------------------
(* The accept loop.  Between ln.Accept's return and the registration the      *)
(* connection is in neither s.conns nor connWG.                               *)

Accept(c) ==
  /\ acc = "accept" /\ srv = "serving" /\ conn[c] = "none"
  /\ acc' = "register"
  /\ conn' = [conn EXCEPT ![c] = "accepted"]
  /\ UNCHANGED <<unread, hand, control, queue, batcher, outcome, bad, accepted>>

Register(c) ==
  /\ acc = "register" /\ conn[c] = "accepted"
  /\ acc' = "accept"
  /\ conn' = [conn EXCEPT ![c] = "reading"]
  /\ UNCHANGED <<unread, hand, control, queue, batcher, outcome, bad, accepted>>

(* The listener is closed: Accept fails, and the loop ends. *)
AcceptEnds ==
  /\ acc = "accept" /\ srv # "serving"
  /\ acc' = "done"
  /\ UNCHANGED <<unread, conn, hand, control, queue, batcher, outcome, bad, accepted>>

-------------------------------------------------------------------------------
(* serve, after its two goroutines are started. *)

Shutdown ==
  /\ srv = "serving"
  /\ srv' = "closing"                        \* ctx cancelled, ln.Close()
  /\ UNCHANGED <<handlers, closed, dbLive, queue, batcher, outcome, bad, accepted>>

(* The accept loop is over: the drain timer is armed and every registered     *)
(* connection gets its read deadline.                                         *)
Drain ==
  /\ srv = "closing" /\ acc = "done"
  /\ srv' = "draining"
  /\ UNCHANGED <<handlers, closed, dbLive, queue, batcher, outcome, bad, accepted>>

(* Mutant: the deadline runs from the queue's closing only.                  *)
DrainDeadline_late ==
  /\ srv = "flushing" /\ dbLive
  /\ dbLive' = FALSE
  /\ UNCHANGED <<handlers, srv, closed, queue, batcher, outcome, bad, accepted>>

(* DrainTimeout passes: dbCancel. *)
DrainDeadline ==
  /\ srv \in {"draining", "flushing"} /\ dbLive
  /\ dbLive' = FALSE
  /\ UNCHANGED <<handlers, srv, closed, queue, batcher, outcome, bad, accepted>>

(* connWG.Wait returned: nothing sends any more. *)
CloseQueue ==
  /\ srv = "draining" /\ \A c \in Conns : conn[c] = "none"
  /\ closed' = TRUE
  /\ srv' = "flushing"
  /\ UNCHANGED <<handlers, dbLive, queue, batcher, outcome, bad, accepted>>

(* The batcher is done: serve returns, with its deferred dbCancel. *)
Stop ==
  /\ srv = "flushing" /\ bat = "done"
  /\ srv' = "stopped"
  /\ dbLive' = FALSE
  /\ UNCHANGED <<handlers, closed, queue, batcher, outcome, bad, accepted>>

-------------------------------------------------------------------------------
(* handleConn.  A line that is not JSON is counted and skipped.               *)

Read(c, r) ==
  /\ conn[c] = "reading" /\ r \in unread
  /\ unread' = unread \ {r}
  /\ IF r \in Malformed
     THEN /\ bad' = bad \cup {r}
          /\ UNCHANGED <<conn, hand>>
     ELSE /\ conn' = [conn EXCEPT ![c] = "resolving"]
          /\ hand' = [hand EXCEPT ![c] = r]
          /\ UNCHANGED bad
  /\ UNCHANGED <<acc, control, queue, batcher, outcome, accepted>>

(* toEntry got its source: from the cache, or from a database that is there.  *)
Resolve(c) ==
  /\ conn[c] = "resolving" /\ hand[c] \notin Unsourced
  /\ conn' = [conn EXCEPT ![c] = "sending"]
  /\ UNCHANGED <<unread, hand, acc, control, queue, batcher, outcome, bad, accepted>>

(* sourceID failed for good: refused, or dbCtx ended while it was retried.    *)
(* While the database is away it is retried, and nothing changes.             *)
ResolveFails(c) ==
  /\ conn[c] = "resolving"
  /\ hand[c] \in Unsourced \/ ~dbLive
  /\ bad' = bad \cup {hand[c]}
  /\ conn' = [conn EXCEPT ![c] = "reading"]
  /\ hand' = [hand EXCEPT ![c] = None]
  /\ UNCHANGED <<unread, acc, control, queue, batcher, outcome, accepted>>

(* Mutant: a handler drops what a full queue does not take.                  *)
Send_unblocking(c) ==
  /\ conn[c] = "sending"
  /\ conn' = [conn EXCEPT ![c] = "reading"]
  /\ hand' = [hand EXCEPT ![c] = None]
  /\ queue' = IF Len(queue) < QueueDepth THEN Append(queue, hand[c]) ELSE queue
  /\ accepted' = Append(accepted, hand[c])
  /\ UNCHANGED <<unread, acc, control, batcher, outcome, bad>>

(* A full queue blocks the handler, and through it syslog-ng. *)
Send(c) ==
  /\ conn[c] = "sending" /\ Len(queue) < QueueDepth
  /\ conn' = [conn EXCEPT ![c] = "reading"]
  /\ hand' = [hand EXCEPT ![c] = None]
  /\ queue' = Append(queue, hand[c])
  /\ accepted' = Append(accepted, hand[c])
  /\ UNCHANGED <<unread, acc, control, batcher, outcome, bad>>

(* Scan ends: the peer closed, the connection failed, or the read deadline    *)
(* serve set has passed.                                                      *)
Exit(c) ==
  /\ conn[c] = "reading"
  /\ conn' = [conn EXCEPT ![c] = "none"]
  /\ UNCHANGED <<unread, hand, acc, control, queue, batcher, outcome, bad, accepted>>

-------------------------------------------------------------------------------
(* The batcher.                                                               *)

Receive ==
  /\ bat = "recv" /\ queue # <<>>
  /\ queue' = Tail(queue)
  /\ batch' = Append(batch, Head(queue))
  /\ bat' = IF Len(batch) + 1 >= BatchSize THEN "begin" ELSE "recv"
  /\ UNCHANGED <<handlers, control, rows, stored, outcome, bad, accepted>>

(* Mutant: the ticker flushes full batches only.                             *)
Tick_fullOnly ==
  /\ bat = "recv" /\ Len(batch) >= BatchSize
  /\ bat' = "begin"
  /\ UNCHANGED <<handlers, control, queue, batch, rows, stored, outcome, bad, accepted>>

Tick ==
  /\ bat = "recv" /\ batch # <<>>
  /\ bat' = "begin"
  /\ UNCHANGED <<handlers, control, queue, batch, rows, stored, outcome, bad, accepted>>

(* The queue is closed and empty: flush what is left, then return.  (With     *)
(* something left the code returns right after the flush; here the flush goes *)
(* back to "recv", and this action is all that can follow.)                   *)
QueueEnds ==
  /\ bat = "recv" /\ closed /\ queue = <<>>
  /\ bat' = IF batch = <<>> THEN "done" ELSE "begin"
  /\ UNCHANGED <<handlers, control, queue, batch, rows, stored, outcome, bad, accepted>>

(* What one InsertEntries is given: the batch, or the next row of it. *)
Attempt == IF rows THEN {Head(batch)} ELSE SeqSet(batch)

(* An attempt begins: with a cancelled dbCtx no transaction is opened. *)
Begin ==
  /\ bat = "begin" /\ dbLive
  /\ bat' = "insert"
  /\ UNCHANGED <<handlers, control, queue, batch, rows, stored, outcome, bad, accepted>>

(* What the flush of batch goes on with after a row: the next one, or its end. *)
NextRow == IF Len(batch) = 1 THEN "publish" ELSE "begin"

(* Mutant: a committed batch is not reset.                                   *)
Commit_keepsBatch ==
  /\ bat = "insert" /\ Attempt \cap Poison = {}
  /\ \A r \in Attempt : db[r] < MaxCopies
  /\ db' = [r \in Records |-> IF r \in Attempt THEN db[r] + 1 ELSE db[r]]
  /\ IF rows
     THEN stored' = Append(stored, Head(batch)) /\ batch' = Tail(batch) /\ bat' = NextRow
     ELSE stored' = batch /\ bat' = "publish" /\ UNCHANGED batch
  /\ UNCHANGED <<handlers, control, queue, rows, inserted, dropped, told, bad, accepted>>

(* InsertEntries succeeds: all its entries are committed. *)
Commit ==
  /\ bat = "insert" /\ Attempt \cap Poison = {}
  /\ \A r \in Attempt : db[r] < MaxCopies
  /\ db' = [r \in Records |-> IF r \in Attempt THEN db[r] + 1 ELSE db[r]]
  /\ IF rows
     THEN /\ stored' = Append(stored, Head(batch))
          /\ batch' = Tail(batch)
          /\ bat' = NextRow
     ELSE /\ stored' = batch
          /\ batch' = <<>>
          /\ bat' = "publish"
  /\ UNCHANGED <<handlers, control, queue, rows, inserted, dropped, told, bad, accepted>>

(* The attempt gets no answer from the server, a transient error: before the  *)
(* commit, or (LostAck) after it.  retry waits, unless dbCtx has ended.       *)
Unavailable ==
  /\ bat = "insert" /\ dbLive
  /\ bat' = "backoff"
  /\ UNCHANGED <<handlers, control, queue, batch, rows, stored, outcome, bad, accepted>>

LostAck ==
  /\ bat = "insert" /\ Attempt \cap Poison = {}
  /\ \A r \in Attempt : db[r] + 1 < MaxCopies
  /\ db' = [r \in Records |-> IF r \in Attempt THEN db[r] + 1 ELSE db[r]]
  /\ bat' = "backoff"
  /\ UNCHANGED <<handlers, control, queue, batch, rows, stored, inserted, dropped, told, bad, accepted>>

BackoffEnds ==
  /\ bat = "backoff" /\ dbLive
  /\ bat' = "begin"
  /\ UNCHANGED <<handlers, control, queue, batch, rows, stored, outcome, bad, accepted>>

(* The server refuses.  A batch is tried again row by row, a row is dropped.  *)
RejectBatch ==
  /\ bat = "insert" /\ ~rows /\ dbLive /\ Attempt \cap Poison # {}
  /\ rows' = TRUE
  /\ bat' = "begin"
  /\ UNCHANGED <<handlers, control, queue, batch, stored, outcome, bad, accepted>>

(* Mutant: a refused row is shown with the others.                           *)
RejectRow_shown ==
  /\ bat = "insert" /\ rows /\ dbLive /\ Attempt \cap Poison # {}
  /\ dropped' = dropped \cup {Head(batch)}
  /\ stored' = Append(stored, Head(batch))
  /\ batch' = Tail(batch)
  /\ bat' = NextRow
  /\ UNCHANGED <<handlers, control, queue, rows, db, inserted, told, bad, accepted>>

RejectRow ==
  /\ bat = "insert" /\ rows /\ dbLive /\ Attempt \cap Poison # {}
  /\ dropped' = dropped \cup {Head(batch)}
  /\ batch' = Tail(batch)
  /\ bat' = NextRow
  /\ UNCHANGED <<handlers, control, queue, rows, stored, db, inserted, told, bad, accepted>>

(* dbCtx has ended: an attempt that fails, or is in backoff, or would begin,  *)
(* is given up.  In row mode the flush still goes through the other rows.     *)
GiveUp ==
  /\ bat \in {"begin", "insert", "backoff"} /\ ~dbLive
  /\ IF rows
     THEN /\ dropped' = dropped \cup {Head(batch)}
          /\ batch' = Tail(batch)
          /\ bat' = NextRow
     ELSE /\ dropped' = dropped \cup SeqSet(batch)
          /\ batch' = <<>>
          /\ bat' = "publish"
  /\ UNCHANGED <<handlers, control, queue, rows, stored, db, inserted, told, bad, accepted>>

(* The end of a flush: what was committed is counted, broadcast and           *)
(* dispatched; neither call blocks.                                           *)
Publish ==
  /\ bat = "publish"
  /\ inserted' = inserted \cup SeqSet(stored)
  /\ told' = told \o stored
  /\ stored' = <<>>
  /\ bat' = "recv"
  /\ rows' = FALSE
  /\ UNCHANGED <<handlers, control, queue, batch, db, dropped, bad, accepted>>

-------------------------------------------------------------------------------
(* serve has returned: nothing moves. *)
Stopped == srv = "stopped" /\ UNCHANGED vars

Handler(c) ==
  \/ Accept(c) \/ Register(c)
  \/ \E r \in Records : Read(c, r)
  \/ Resolve(c) \/ ResolveFails(c) \/ Send(c) \/ Exit(c)

Serve == AcceptEnds \/ Shutdown \/ Drain \/ DrainDeadline \/ CloseQueue \/ Stop

Flush ==
  \/ Begin \/ Commit \/ Unavailable \/ LostAck \/ BackoffEnds
  \/ RejectBatch \/ RejectRow \/ GiveUp \/ Publish

Batcher == Receive \/ Tick \/ QueueEnds \/ Flush

Next == (\E c \in Conns : Handler(c)) \/ Serve \/ Batcher \/ Stopped

Spec == Init /\ [][Next]_vars

(* Goroutines that can run do and timers fire.  Of the database it is only    *)
(* assumed that a call returns once dbCtx has ended: it never has to be       *)
(* there.  A connection whose read deadline has passed ends.                  *)
CutOff(c)  == srv = "draining" /\ Exit(c)
Abandon(c) == ~dbLive /\ ResolveFails(c)

Fairness ==
  /\ WF_vars(AcceptEnds \/ Drain \/ CloseQueue \/ Stop)
  /\ WF_vars(DrainDeadline)
  /\ \A c \in Conns : WF_vars(Register(c) \/ Abandon(c) \/ Send(c)) /\ WF_vars(CutOff(c))
  /\ WF_vars(Receive) /\ WF_vars(Tick) /\ WF_vars(QueueEnds)
  /\ WF_vars(Begin \/ BackoffEnds \/ GiveUp \/ Publish)

FairSpec == Spec /\ Fairness

(* The database is there often enough: an attempt tried again and again is    *)
(* answered in the end.                                                       *)
Answering == SF_vars(Commit \/ RejectBatch \/ RejectRow)

-------------------------------------------------------------------------------
(* Properties.                                                                *)

Count(P) == IF P THEN 1 ELSE 0

(* Every record is in exactly one place: still to be read, held by one        *)
(* handler, queued, in the batch, committed but not shown yet, or counted by  *)
(* exactly one of inserted, dropped and bad.  Nothing is lost without being   *)
(* counted and nothing is counted twice, whatever the database does and       *)
(* whenever the shutdown comes.                                               *)
OnePlace ==
  \A r \in Records :
    /\ Count(r \in unread) + Count(\E c \in Conns : hand[c] = r)
         + Count(r \in SeqSet(queue)) + Count(r \in SeqSet(batch)) + Count(r \in SeqSet(stored))
         + Count(r \in inserted) + Count(r \in dropped) + Count(r \in bad) = 1
    /\ \A c, d \in Conns : hand[c] = r /\ hand[d] = r => c = d

(* The queue is closed only when no handler is left and none can start, so    *)
(* nobody sends on a closed channel (the comment of handleConn's send).       *)
NoSendOnClosed ==
  closed => acc = "done" /\ \A c \in Conns : conn[c] = "none"

(* Live tail and the notifier are shown exactly the records counted as        *)
(* inserted, each once, in the order they were queued (which each is once),   *)
(* through retries, row by row inserts and lost acknowledgements; and only    *)
(* committed ones.                                                            *)
Before(s, x, y) == \E k, l \in DOMAIN s : k < l /\ s[k] = x /\ s[l] = y

ShownInOrder ==
  /\ SeqSet(told) = inserted /\ inserted \subseteq SeqSet(accepted)
  /\ \A i, j \in DOMAIN told : i < j => Before(accepted, told[i], told[j])
  /\ \A x, y \in SeqSet(accepted) : Before(accepted, x, y) => ~Before(accepted, y, x)
  /\ \A r \in inserted : db[r] >= 1

(* Until the drain deadline no record is lost that the database would take: a *)
(* refused row takes no other row of its batch with it, and an outage drops   *)
(* nothing.                                                                   *)
NoEarlyLoss ==
  dbLive => dropped \subseteq Poison /\ bad \subseteq Malformed \cup Unsourced

(* Run returns only when everything that was read is accounted for.           *)
DrainedAtStop ==
  srv = "stopped" => inserted \cup dropped \cup bad = Records \ unread

(* Once the context is cancelled Run returns, even if the database never      *)
(* answers again and handlers are blocked on a full queue.                    *)
RunReturns == srv = "closing" ~> srv = "stopped"

(* With a database that comes back, every record that was queued is shown or  *)
(* dropped, whether or not anything follows it.                               *)
QueuedSettles ==
  Answering => \A r \in Records : r \in SeqSet(accepted) ~> r \in inserted \cup dropped

(* What the pipeline promises, in terms of IngestContract.                    *)
Fate(r) ==
  CASE r \in unread -> "unread" [] r \in inserted -> "inserted" [] r \in dropped -> "dropped"
    [] r \in bad -> "bad" [] OTHER -> "taken"

Contract == INSTANCE IngestContract WITH
  fate <- [r \in Records |-> Fate(r)], shown <- told, ended <- srv = "stopped"

Implements == Contract!Spec
===============================================================================
