----------------------------- MODULE ValveNotify -----------------------------
(***************************************************************************)
(* The notify dispatcher of the valve (internal/notify): datagrams from    *)
(* syslog-ng are queued for the worker of the node they name, while graphs *)
(* are applied that keep, start and stop workers, and while the valve      *)
(* shuts down.                                                             *)
(*                                                                         *)
(* A target gets a number when it is started.  Messages are told apart     *)
(* only by where they are, so queues and fates are counted.                *)
(***************************************************************************)
EXTENDS Integers, Sequences, FiniteSets, SequencesExt

CONSTANTS
  NotifyNode,       \* idents of notify nodes
  Rate,             \* rates per minute that a graph may set (EffectiveRate)
  NotifyQueue,      \* capacity of a target's queue (queueSize)
  Minute,           \* ticks of the limiter's window
  MaxGraphs,        \* bound: graphs applied
  MaxDatagrams,     \* bound: messages received
  MaxNotifyTime     \* bound: the clock stops here

ASSUME NotifyAssumption ==
  /\ Rate \subseteq Nat \ {0} /\ {NotifyQueue, Minute} \subseteq Nat \ {0}
  /\ {MaxGraphs, MaxDatagrams, MaxNotifyTime} \subseteq Nat
  /\ IsFiniteSet(NotifyNode)

VARIABLES
  targetOf,    \* Dispatcher.targets: [node -> number of its target]
  started,     \* all targets that were ever started
  datagram,    \* handle, after its look-up: {} or {[target, rate]}
  received,    \* messages that handle took
  graphs,      \* graphs applied
  time,        \* the clock
  closing      \* the context: "no", "done", then "stopped"

notifyVars == <<targetOf, started, datagram, received, graphs, time, closing>>

NewTarget(rate) ==
  [rate |-> rate, times |-> <<>>, queue |-> 0, quit |-> FALSE, worker |-> "waits",
   pending |-> 0, taken |-> 0,                     \* drops not yet reported
   given |-> 0, sent |-> 0, failed |-> 0, dropped |-> 0, reported |-> 0]

NotifyInit ==
  /\ targetOf = <<>> /\ started = <<>> /\ datagram = {} /\ received = 0 /\ graphs = 0
  /\ time = 0 /\ closing = "no"

NotifyTick == /\ time < MaxNotifyTime /\ time' = time + 1
              /\ UNCHANGED <<targetOf, started, datagram, received, graphs, closing>>

Update(t, fields) ==
  started' = [started EXCEPT ![t] = [f \in DOMAIN @ |-> IF f \in DOMAIN fields THEN fields[f] ELSE @[f]]]

-----------------------------------------------------------------------------
(* Graphs: nodes that stay keep their target and everything it counts.       *)

SetNodes(g) ==
  LET kept  == DOMAIN g \cap DOMAIN targetOf
      fresh == SetToSeq(DOMAIN g \ kept)
  IN
  /\ started' = [t \in 1..(Len(started) + Len(fresh)) |->
                 IF t > Len(started) THEN NewTarget(g[fresh[t - Len(started)]])
                 ELSE IF \E n \in kept : targetOf[n] = t
                      THEN [started[t] EXCEPT !.rate = g[CHOOSE n \in kept : targetOf[n] = t]]
                 ELSE IF \E n \in DOMAIN targetOf : targetOf[n] = t
                      THEN [started[t] EXCEPT !.quit = TRUE]
                 ELSE started[t]]
  /\ targetOf' = [n \in DOMAIN g |-> IF n \in kept THEN targetOf[n]
                   ELSE Len(started) + CHOOSE i \in DOMAIN fresh : fresh[i] = n]

ApplyGraph ==
  /\ graphs < MaxGraphs /\ graphs' = graphs + 1
  /\ \E nodes \in SUBSET NotifyNode : \E g \in [nodes -> Rate] : SetNodes(g)
  /\ UNCHANGED <<datagram, received, time, closing>>

CloseSocket ==
  /\ closing = "no" /\ closing' = "done"
  /\ UNCHANGED <<targetOf, started, datagram, received, graphs, time>>

(* The goroutine that waits for the context; an apply may still come.        *)
StopWorkers ==
  /\ closing = "done" /\ closing' = "stopped" /\ SetNodes(<<>>)
  /\ UNCHANGED <<datagram, received, graphs, time>>

-----------------------------------------------------------------------------
(* handle: the look-up, and what follows without the lock.                   *)

LookUp(n) ==
  /\ closing = "no" /\ datagram = {} /\ received < MaxDatagrams /\ n \in DOMAIN targetOf
  /\ datagram' = {[target |-> targetOf[n], rate |-> started[targetOf[n]].rate]}
  /\ received' = received + 1
  /\ UNCHANGED <<targetOf, started, graphs, time, closing>>

Recent(times) == SelectSeq(times, LAMBDA x : x >= time - Minute)

Handle(d) ==
  LET t       == started[d.target]
      allowed == Len(Recent(t.times)) < d.rate
      times   == IF allowed THEN Append(Recent(t.times), time) ELSE Recent(t.times)
  IN
  /\ IF allowed /\ t.queue < NotifyQueue
     THEN Update(d.target, [times |-> times, given |-> t.given + 1, queue |-> t.queue + 1])
     ELSE Update(d.target, [times |-> times, given |-> t.given + 1, dropped |-> t.dropped + 1,
                            pending |-> t.pending + 1])
  /\ datagram' = {}
  /\ UNCHANGED <<targetOf, received, graphs, time, closing>>

-----------------------------------------------------------------------------
(* A target's worker: its select takes either of what is ready.              *)

WorkerQuits(i) ==
  /\ started[i].worker = "waits" /\ started[i].quit
  /\ Update(i, [worker |-> "ended"])
  /\ UNCHANGED <<targetOf, datagram, received, graphs, time, closing>>

(* Taking a message takes the drops to report with it.                       *)
TakeMessage(i) ==
  /\ started[i].worker = "waits" /\ started[i].queue > 0
  /\ Update(i, [worker |-> "reports", queue |-> started[i].queue - 1,
                taken |-> started[i].pending, pending |-> 0])
  /\ UNCHANGED <<targetOf, datagram, received, graphs, time, closing>>

(* Mutant: the count is cleared when it has been reported.                   *)
X_ReportedDrops(t) == [reported |-> t.reported + t.taken, taken |-> 0, pending |-> 0,
                       worker |-> "sends"]

ReportedDrops(t) == [reported |-> t.reported + t.taken, taken |-> 0, worker |-> "sends"]

ReportDrops(i) ==
  /\ started[i].worker = "reports" /\ Update(i, ReportedDrops(started[i]))
  /\ UNCHANGED <<targetOf, datagram, received, graphs, time, closing>>

Deliver(i, ok) ==
  /\ started[i].worker = "sends"
  /\ Update(i, [worker |-> "waits",
                sent |-> started[i].sent + IF ok THEN 1 ELSE 0,
                failed |-> started[i].failed + IF ok THEN 0 ELSE 1])
  /\ UNCHANGED <<targetOf, datagram, received, graphs, time, closing>>

NotifyNext ==
  \/ NotifyTick \/ ApplyGraph \/ CloseSocket \/ StopWorkers
  \/ \E n \in NotifyNode : LookUp(n)
  \/ \E d \in datagram : Handle(d)
  \/ \E i \in DOMAIN started : \/ WorkerQuits(i) \/ TakeMessage(i) \/ ReportDrops(i)
                              \/ \E ok \in BOOLEAN : Deliver(i, ok)

NotifySpec == NotifyInit /\ [][NotifyNext]_notifyVars

-----------------------------------------------------------------------------
(* Every message that reached a target is in its queue, with its worker, or  *)
(* in one of its counters; every drop is reported once or will be; and the   *)
(* worker of a node keeps running however graphs follow one another, until   *)
(* the node is taken away.                                                   *)
WithWorker(t) == IF t.worker \in {"reports", "sends"} THEN 1 ELSE 0
NotifyCounted ==
  /\ \A i \in DOMAIN started :
       LET t == started[i] IN
       /\ t.given = t.queue + WithWorker(t) + t.sent + t.failed + t.dropped
       /\ t.dropped = t.pending + t.taken + t.reported
       /\ t.quit = (\A n \in DOMAIN targetOf : targetOf[n] # i)
       /\ t.worker = "ended" => t.quit
  /\ \A m, n \in DOMAIN targetOf : targetOf[m] = targetOf[n] => m = n
=============================================================================
