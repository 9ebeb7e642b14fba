-------------------------------- MODULE Dispatcher --------------------------------
(***************************************************************************)
(* syslog-bucket's notification dispatcher (internal/notify/notify.go and  *)
(* limiter.go).  Ingest hands it the deliveries that notify rules asked    *)
(* for; a bounded queue and a few workers take them to their channels.     *)
(*                                                                         *)
(* The channels come from the database: a snapshot that Reload replaces,   *)
(* from Run's ticker and from every API request that edits a channel.      *)
(* Shutdown, called when ingest has stopped, drains the queue for a while, *)
(* then cancels what is being sent and has the rest counted as dropped.    *)
(***************************************************************************)
EXTENDS Naturals, Sequences

CONSTANTS
  Deliveries,  (* what Dispatch is asked to enqueue, each of them once      *)
  Channels,    (* the ids channels can have                                 *)
  ChannelOf,   (* the channel of each delivery                              *)
  Workers,     (* the worker pool                                           *)
  Reloaders,   (* who calls Reload: Run's ticker and the API's handlers     *)
  Ticker,      (* the first of them                                         *)
  QueueDepth,  (* capacity of the queue                                     *)
  Rate,        (* deliveries per minute and channel, 0 for no limit         *)
  MaxEdits,    (* bound: edits of the channels                              *)
  None         (* no delivery                                               *)

ASSUME DispatcherAssumption ==
  /\ None \notin Deliveries
  /\ ChannelOf \in [Deliveries -> Channels]
  /\ Ticker \in Reloaders /\ Workers # {}
  /\ QueueDepth \in Nat /\ Rate \in Nat /\ MaxEdits \in Nat

VARIABLES
  asked,       (* deliveries Dispatch has seen                              *)
  queue,       (* the channel of jobs                                       *)
  closed,      (* ... which is closed                                       *)
  worker,      (* where each worker is                                      *)
  hand,        (* the delivery it is working on                             *)
  abandon,     (* d.abandon                                                 *)
  live,        (* deliverCtx is not cancelled                               *)
  drops,       (* counted as dropped, not yet written to the log            *)
  shutdown,    (* where Shutdown is                                         *)
  run,         (* where Run is                                              *)
  reported,    (* dropped, and taken by a flush to the log                  *)
  settled,     (* sent, failed, limited or skipped                          *)
  table,       (* the channels in the database                              *)
  channels,    (* d.channels                                                *)
  spent,       (* d.limiters: what each let through in the last minute, or  *)
               (* NoLimiter                                                 *)
  reload,      (* where each Reload is                                      *)
  listed,      (* the list it read                                          *)
  edits,       (* history: edits made                                       *)
  minute,      (* history: deliveries let through in the last minute        *)
  lost         (* history: channels whose limiter a Reload threw away       *)

delivering == <<queue, worker, hand, drops, reported, settled>>
stopping   == <<closed, abandon, live, shutdown, run>>
reloading  == <<table, channels, reload, listed, edits>>
limiting   == <<spent, minute, lost>>
vars       == <<asked, delivering, stopping, reloading, limiting>>

(* A channel that does not exist yet, one that does, and one that was deleted.*)
States == {"absent", "off", "on", "deleted"}
Exists(s) == s \in {"off", "on"}
NoLimiter == Rate + 1

FlagsOK == closed \in BOOLEAN /\ abandon \in BOOLEAN /\ live \in BOOLEAN

DataOK ==
  /\ asked \subseteq Deliveries /\ queue \in Seq(Deliveries) /\ Len(queue) <= QueueDepth
  /\ worker \in [Workers -> {"none", "recv", "got", "send", "log", "done"}]
  /\ hand \in [Workers -> Deliveries \cup {None}]
  /\ drops \subseteq Deliveries /\ reported \subseteq Deliveries /\ settled \subseteq Deliveries
  /\ shutdown \in {"no", "wait", "grace", "flush", "write", "done"}
  /\ run \in {"start", "loop", "write", "last", "returned"}
  /\ table \in [Channels -> States] /\ channels \in [Channels -> States]
  /\ spent \in [Channels -> 0..NoLimiter] /\ minute \in [Channels -> Nat]
  /\ lost \subseteq Channels
  /\ reload \in [Reloaders -> {"idle", "list", "set"}]
  /\ listed \in [Reloaders -> [Channels -> States]]
  /\ edits \in Nat

TypeOK == FlagsOK /\ DataOK

Unread == [c \in Channels |-> "absent"]

Limiters(chs) == [c \in Channels |-> IF Exists(chs[c]) THEN 0 ELSE NoLimiter]

(* main: New, then a first Reload; Run has not been scheduled yet.            *)
Init ==
  /\ asked = {} /\ queue = <<>> /\ closed = FALSE
  /\ worker = [w \in Workers |-> "none"] /\ hand = [w \in Workers |-> None]
  /\ abandon = FALSE /\ live = TRUE /\ drops = {} /\ shutdown = "no" /\ run = "start"
  /\ reported = {} /\ settled = {}
  /\ table \in [Channels -> {"absent", "off", "on"}] /\ channels = table
  /\ lost = {}
  /\ spent = Limiters(table) /\ minute = [c \in Channels |-> 0]
  /\ reload = [r \in Reloaders |-> "idle"] /\ listed = [r \in Reloaders |-> Unread]
  /\ edits = 0

-------------------------------------------------------------------------------
(* Dispatch, for one delivery: it never waits.                                *)

Dispatch(j) ==
  /\ j \notin asked
  /\ asked' = asked \cup {j}
  /\ \/ /\ ~closed /\ Len(queue) < QueueDepth
        /\ queue' = Append(queue, j)
        /\ UNCHANGED drops
     \/ /\ closed \/ Len(queue) >= QueueDepth
        /\ drops' = drops \cup {j}
        /\ UNCHANGED queue
  /\ UNCHANGED <<worker, hand, reported, settled, stopping, reloading, limiting>>

(* A flush takes the counts, and then writes their rows, if there are any.    *)
(* The inserts have no deadline.                                              *)
FlushDrops ==
  /\ reported' = reported \cup drops
  /\ drops' = {}

-------------------------------------------------------------------------------
(* Run: the workers, and then a loop of one thing at a time.                  *)

StartedWorkers == [w \in Workers |-> IF worker[w] = "none" THEN "recv" ELSE worker[w]]

StartWorkers ==
  /\ run = "start"
  /\ run' = "loop"
  /\ worker' = IF closed THEN worker ELSE StartedWorkers
  /\ UNCHANGED <<asked, queue, hand, drops, reported, settled, closed, abandon, live,
                 shutdown, reloading, limiting>>

Selects == run = "loop" /\ reload[Ticker] = "idle"

FlushTick ==
  /\ Selects /\ drops # {}
  /\ run' = "write"
  /\ FlushDrops
  /\ UNCHANGED <<asked, queue, worker, hand, settled, closed, abandon, live, shutdown,
                 reloading, limiting>>

(* Its context ended.                                                         *)
RunReturns ==
  /\ Selects
  /\ run' = IF drops = {} THEN "returned" ELSE "last"
  /\ FlushDrops
  /\ UNCHANGED <<asked, queue, worker, hand, settled, closed, abandon, live, shutdown,
                 reloading, limiting>>

RowsWritten ==
  /\ \/ run = "write" /\ run' = "loop"
     \/ run = "last" /\ run' = "returned"
  /\ UNCHANGED <<asked, delivering, closed, abandon, live, shutdown, reloading, limiting>>

-------------------------------------------------------------------------------
(* Reload: the list from the database, then the snapshot and the limiters     *)
(* under d.mu.                                                                *)

(* An API request that edits a channel, and then reloads.                     *)
Edit(r, c, s) ==
  /\ r # Ticker /\ reload[r] = "idle" /\ edits < MaxEdits
  /\ \/ table[c] = "absent" /\ s \in {"off", "on"}
     \/ Exists(table[c]) /\ s \in {"off", "on", "deleted"} \ {table[c]}
  /\ table' = [table EXCEPT ![c] = s]
  /\ edits' = edits + 1
  /\ reload' = [reload EXCEPT ![r] = "list"]
  /\ UNCHANGED <<asked, delivering, stopping, channels, listed, limiting>>

(* Mutant: only the edits reload.                                             *)
ReloadTick_never == Selects /\ FALSE /\ UNCHANGED vars

ReloadTick ==
  /\ Selects
  /\ reload' = [reload EXCEPT ![Ticker] = "list"]
  /\ UNCHANGED <<asked, delivering, stopping, table, channels, listed, edits, limiting>>

List(r) ==
  /\ reload[r] = "list"
  /\ \/ listed' = [listed EXCEPT ![r] = table] /\ reload' = [reload EXCEPT ![r] = "set"]
     \/ reload' = [reload EXCEPT ![r] = "idle"] /\ UNCHANGED listed   \* the query failed
  /\ UNCHANGED <<asked, delivering, stopping, table, channels, edits, limiting>>

(* Mutant: every reload starts with new limiters.                             *)
Set_newLimiters(r) ==
  /\ reload[r] = "set"
  /\ channels' = listed[r]
  /\ spent' = Limiters(listed[r])
  /\ reload' = [reload EXCEPT ![r] = "idle"]
  /\ listed' = [listed EXCEPT ![r] = Unread]
  /\ UNCHANGED <<asked, delivering, stopping, table, edits, minute, lost>>

Set(r) ==
  /\ reload[r] = "set"
  /\ channels' = listed[r]
  /\ spent' = [c \in Channels |->
       IF spent[c] # NoLimiter /\ Exists(listed[r][c]) THEN spent[c] ELSE Limiters(listed[r])[c]]
  /\ lost' = lost \cup {c \in Channels : spent[c] # NoLimiter /\ ~Exists(listed[r][c])}
  /\ reload' = [reload EXCEPT ![r] = "idle"]
  /\ listed' = [listed EXCEPT ![r] = Unread]
  /\ UNCHANGED <<asked, delivering, stopping, table, edits, minute>>

(* A minute without deliveries: the windows are empty.                        *)
MinutePasses ==
  /\ minute # [c \in Channels |-> 0]
  /\ minute' = [c \in Channels |-> 0]
  /\ spent' = [c \in Channels |-> IF spent[c] = NoLimiter THEN NoLimiter ELSE 0]
  /\ UNCHANGED <<asked, delivering, stopping, reloading, lost>>

-------------------------------------------------------------------------------
(* A worker.                                                                  *)

Move(w, at) == worker' = [worker EXCEPT ![w] = at]

(* Mutant: a worker takes one delivery, and no other.                         *)
Receive_first(w) ==
  /\ worker[w] = "recv" /\ queue # <<>> /\ hand[w] = None /\ settled = {}
  /\ hand' = [hand EXCEPT ![w] = Head(queue)]
  /\ queue' = Tail(queue)
  /\ Move(w, "got")
  /\ UNCHANGED <<asked, drops, reported, settled, stopping, reloading, limiting>>

Receive(w) ==
  /\ worker[w] = "recv" /\ queue # <<>>
  /\ hand' = [hand EXCEPT ![w] = Head(queue)]
  /\ queue' = Tail(queue)
  /\ Move(w, "got")
  /\ UNCHANGED <<asked, drops, reported, settled, stopping, reloading, limiting>>

WorkerEnds(w) ==
  /\ worker[w] = "recv" /\ queue = <<>> /\ closed
  /\ Move(w, "done")
  /\ UNCHANGED <<asked, queue, hand, drops, reported, settled, stopping, reloading, limiting>>

(* Mutant: an abandoned delivery is not counted.                              *)
Abandon_uncounted(w) ==
  /\ worker[w] = "got" /\ abandon
  /\ hand' = [hand EXCEPT ![w] = None]
  /\ Move(w, "recv")
  /\ UNCHANGED <<asked, queue, drops, reported, settled, stopping, reloading, limiting>>

Abandon(w) ==
  /\ worker[w] = "got" /\ abandon
  /\ drops' = drops \cup {hand[w]}
  /\ hand' = [hand EXCEPT ![w] = None]
  /\ Move(w, "recv")
  /\ UNCHANGED <<asked, queue, reported, settled, stopping, reloading, limiting>>

Settle(w) ==
  /\ settled' = settled \cup {hand[w]}
  /\ hand' = [hand EXCEPT ![w] = None]
  /\ Move(w, "recv")

(* The channel and its limiter are looked up together, and the limiter asked; *)
(* a Reload in between would not change its answer.  A channel that is gone   *)
(* or disabled takes no delivery and leaves no row; a limited delivery leaves *)
(* one.                                                                       *)
Handle(w) ==
  LET c == ChannelOf[hand[w]] IN
  /\ worker[w] = "got" /\ ~abandon
  /\ \/ /\ channels[c] = "on" /\ (Rate = 0 \/ spent[c] < Rate)
        /\ spent' = IF Rate = 0 THEN spent ELSE [spent EXCEPT ![c] = @ + 1]
        /\ minute' = [minute EXCEPT ![c] = @ + 1]
        /\ Move(w, "send")
        /\ UNCHANGED <<settled, hand>>
     \/ /\ channels[c] = "on" /\ Rate > 0 /\ spent[c] >= Rate
        /\ Move(w, "log")
        /\ UNCHANGED <<settled, hand, spent, minute>>
     \/ /\ channels[c] # "on"
        /\ Settle(w)
        /\ UNCHANGED <<spent, minute>>
  /\ UNCHANGED <<asked, queue, drops, reported, stopping, reloading, lost>>

(* The endpoint answers, or the client's timeout or the context ends it.      *)
Sent(w) ==
  /\ worker[w] = "send"
  /\ Move(w, "log")
  /\ UNCHANGED <<asked, queue, hand, drops, reported, settled, stopping, reloading, limiting>>

(* The delivery's row, written or not; the insert has no deadline.            *)
Log(w) ==
  /\ worker[w] = "log"
  /\ Settle(w)
  /\ UNCHANGED <<asked, queue, drops, reported, stopping, reloading, limiting>>

-------------------------------------------------------------------------------
(* Shutdown.                                                                  *)

(* main cancels the context Run has before it calls Shutdown; Run may not     *)
(* have noticed.                                                              *)
Shutdown ==
  /\ shutdown = "no"
  /\ worker' = StartedWorkers
  /\ closed' = TRUE
  /\ shutdown' = "wait"
  /\ UNCHANGED <<asked, queue, hand, drops, reported, settled, abandon, live, run,
                 reloading, limiting>>

(* workerWG's counter is zero.                                                *)
NoneLeft == \A w \in Workers : worker[w] \in {"none", "done"}

Deadline ==
  /\ shutdown = "wait"
  /\ shutdown' = "grace"
  /\ abandon' = TRUE /\ live' = FALSE
  /\ UNCHANGED <<asked, delivering, closed, run, reloading, limiting>>

(* The workers came back, or the second of grace is over.                     *)
WaitEnds ==
  /\ \/ shutdown = "wait" /\ NoneLeft
     \/ shutdown = "grace"
  /\ shutdown' = "flush"
  /\ live' = FALSE
  /\ UNCHANGED <<asked, delivering, closed, abandon, run, reloading, limiting>>

ShutdownEnds ==
  /\ shutdown = "flush"
  /\ FlushDrops
  /\ shutdown' = IF drops = {} THEN "done" ELSE "write"
  /\ UNCHANGED <<asked, queue, worker, hand, settled, closed, abandon, live, run,
                 reloading, limiting>>

LastRows ==
  /\ shutdown = "write"
  /\ shutdown' = "done"
  /\ UNCHANGED <<asked, delivering, closed, abandon, live, run, reloading, limiting>>

-------------------------------------------------------------------------------
WorkerStep(w) == Receive(w) \/ WorkerEnds(w) \/ Abandon(w) \/ Handle(w)
                   \/ Sent(w) \/ Log(w)
RunStep       == StartWorkers \/ FlushTick \/ RunReturns \/ RowsWritten
StopStep      == Shutdown \/ Deadline \/ WaitEnds \/ ShutdownEnds \/ LastRows

Next ==
  \/ \E j \in Deliveries : Dispatch(j)
  \/ \E w \in Workers : WorkerStep(w)
  \/ \E r \in Reloaders : List(r) \/ Set(r) \/ \E c \in Channels, s \in States : Edit(r, c, s)
  \/ ReloadTick \/ MinutePasses \/ RunStep \/ StopStep

Spec == Init /\ [][Next]_vars

(* Goroutines that can run do run, timers fire, and the client's timeout ends *)
(* every request.  No row need ever be written, and no list read.             *)
Fairness ==
  /\ \A w \in Workers : WF_vars(Receive(w) \/ WorkerEnds(w) \/ Abandon(w) \/ Handle(w) \/ Sent(w))
  /\ WF_vars(Deadline \/ WaitEnds \/ ShutdownEnds)

FairSpec == Spec /\ Fairness

(* The database answers: rows get written, lists read, and the ticker's list  *)
(* does not fail for ever.                                                    *)
Answering ==
  /\ WF_vars(StartWorkers \/ RowsWritten) /\ SF_vars(FlushTick) /\ SF_vars(ReloadTick)
  /\ \A w \in Workers : WF_vars(Log(w))
  /\ \A r \in Reloaders : WF_vars(List(r) \/ Set(r))
  /\ SF_vars(List(Ticker) /\ reload'[Ticker] = "set")

-------------------------------------------------------------------------------
(* Properties.                                                                *)

InQueue == {queue[i] : i \in DOMAIN queue}
InHand  == {hand[w] : w \in Workers} \ {None}

(* Every delivery Dispatch was asked for has exactly one fate: it waits once, *)
(* is in one worker's hands, is counted as dropped once, or was dealt with.   *)
OneFate ==
  /\ asked = UNION {InQueue, InHand, drops, reported, settled}
  /\ \A i, k \in DOMAIN queue : queue[i] = queue[k] => i = k
  /\ \A v, w \in Workers : hand[v] = hand[w] /\ hand[v] # None => v = w
  /\ InQueue \cap InHand = {}
  /\ (InQueue \cup InHand) \cap (drops \cup reported \cup settled) = {}
  /\ drops \cap reported = {} /\ (drops \cup reported) \cap settled = {}

(* A Shutdown that ended before its deadline left nothing behind, though Run  *)
(* may never have started the workers (Shutdown 238, 243-250).                *)
DrainedInTime ==
  shutdown \in {"flush", "write", "done"} /\ ~abandon => queue = <<>> /\ InHand = {}

(* A limited channel gets no more than its rate in a minute, however many     *)
(* workers deliver to it and however often the channels are reloaded or the   *)
(* channel disabled and enabled, unless a Reload threw its limiter away.      *)
RateHeld == \A c \in Channels \ lost : Rate > 0 => minute[c] <= Rate

(* If the database answers, every delivery that waits is dealt with while Run *)
(* goes on, or its drop is reported.                                          *)
QueuedHandled ==
  Answering =>
    \A j \in Deliveries : j \in InQueue ~> j \in reported \cup settled \/ run = "returned"

(* If the database answers, then while Run goes on, and once the edits end,   *)
(* the snapshot catches up with the table, whatever order the reloads         *)
(* finished in and whichever failed (Reload 97-107).                          *)
CatchesUp == Answering => <>[](channels = table) \/ <>(run = "returned")
================================================================================
