-------------------------------- MODULE Audit --------------------------------
(***************************************************************************)
(* The audit log of the bucket (internal/audit, store/audit.go and the     *)
(* listing in api/audit.go): handlers record events while the writer       *)
(* stores them in batches, the recorder is shut down, expired rows are     *)
(* pruned, and an administrator pages through the listing.                 *)
(*                                                                         *)
(* A time is a tick of the clock, in which several events may fall.  The   *)
(* text of an event is left out; which events a listing's filters accept   *)
(* is a set of them.                                                       *)
(***************************************************************************)
EXTENDS Integers, Sequences, FiniteSets, FiniteSetsExt, SequencesExt, Ordering

CONSTANTS
  Event,        \* what handlers record, each once
  QueueSize,    \* capacity of the recorder's queue (queueSize)
  MaxBatch,     \* most events of one insert (maxBatch)
  PageLimit,    \* rows of a page
  Retention,    \* age in ticks from which rows are pruned, 0 keeps them
  MaxAt         \* bound: the clock stops here

ASSUME AuditAssumption ==
  /\ IsFiniteSet(Event) /\ {QueueSize, MaxBatch, PageLimit} \subseteq Nat \ {0}
  /\ {Retention, MaxAt} \subseteq Nat

VARIABLES
  at,         \* the clock
  stamped,    \* calls of Record that took their time: [event -> time]
  auditQueue, \* Recorder.queue, of [ev, at]
  batch,      \* the batch the writer collects
  writer,     \* Recorder.write: "waits", "collects", "done"
  table,      \* audit_log: rows [id, ev, at]
  lastId,     \* the sequence behind audit_log.id
  pruned,     \* events whose rows expired
  log,        \* events that logLost wrote to the process log
  unacked,    \* history: events that were stored without the writer hearing of it
  recorded,   \* events whose Record returned
  stopping,   \* Shutdown: "no", "waits", "done", "late"
  listing     \* the administrator's listing: its filter, cursor and pages

auditVars == <<at, stamped, auditQueue, batch, writer, table, lastId, pruned, log, unacked,
               recorded, stopping, listing>>

NoCursor == [at |-> MaxAt + 1, id |-> 0]
NotListing == [accepts |-> {}, before |-> NoCursor, pages |-> <<>>, first |-> {}, more |-> FALSE]

AuditInit ==
  /\ at = 0 /\ stamped = <<>> /\ auditQueue = <<>> /\ batch = <<>> /\ writer = "waits"
  /\ table = {} /\ lastId = 0 /\ pruned = {} /\ log = {} /\ unacked = {} /\ recorded = {}
  /\ stopping = "no" /\ listing = NotListing

Running == stopping \in {"no", "waits"}
Events(s) == {s[i].ev : i \in DOMAIN s}

Clock == /\ at < MaxAt /\ at' = at + 1
         /\ UNCHANGED <<stamped, auditQueue, batch, writer, table, lastId, pruned, log, unacked,
                        recorded, stopping, listing>>

-----------------------------------------------------------------------------
(* Recording: the time is taken first, the lock after it. *)

Stamp(e) ==
  /\ Running /\ e \notin recorded \cup DOMAIN stamped
  /\ stamped' = [x \in DOMAIN stamped \cup {e} |-> IF x = e THEN at ELSE stamped[x]]
  /\ UNCHANGED <<at, auditQueue, batch, writer, table, lastId, pruned, log, unacked, recorded,
                 stopping, listing>>

Record(e) ==
  /\ Running /\ e \in DOMAIN stamped
  /\ IF stopping = "no" /\ Len(auditQueue) < QueueSize
     THEN auditQueue' = Append(auditQueue, [ev |-> e, at |-> stamped[e]]) /\ UNCHANGED log
     ELSE log' = log \cup {e} /\ UNCHANGED auditQueue
  /\ recorded' = recorded \cup {e}
  /\ stamped' = [x \in DOMAIN stamped \ {e} |-> stamped[x]]
  /\ UNCHANGED <<at, batch, writer, table, lastId, pruned, unacked, stopping, listing>>

-----------------------------------------------------------------------------
(* The writer *)

Take(limit) ==
  /\ Running /\ auditQueue # <<>> /\ Len(batch) < limit
  /\ batch' = Append(batch, Head(auditQueue)) /\ auditQueue' = Tail(auditQueue)
  /\ writer' = "collects"
  /\ UNCHANGED <<at, stamped, table, lastId, pruned, log, unacked, recorded, stopping, listing>>

TakeFirst == writer = "waits" /\ Take(1)
TakeMore == writer = "collects" /\ Take(MaxBatch)

(* Mutant: a failed batch is reported, its events are not written to the log. *)
X_InsertAudit(committed, acknowledged) ==
  /\ table' = IF committed
              THEN table \cup {[id |-> lastId + i, ev |-> batch[i].ev, at |-> batch[i].at] :
                                i \in DOMAIN batch}
              ELSE table
  /\ lastId' = IF committed THEN lastId + Len(batch) ELSE lastId
  /\ unacked' = IF committed /\ ~acknowledged THEN unacked \cup Events(batch) ELSE unacked
  /\ UNCHANGED log

(* The insert is one implicit transaction; its ids follow the batch. *)
InsertAudit(committed, acknowledged) ==
  /\ table' = IF committed
              THEN table \cup {[id |-> lastId + i, ev |-> batch[i].ev, at |-> batch[i].at] :
                                i \in DOMAIN batch}
              ELSE table
  /\ lastId' = IF committed THEN lastId + Len(batch) ELSE lastId
  /\ log' = IF acknowledged THEN log ELSE log \cup Events(batch)
  /\ unacked' = IF committed /\ ~acknowledged THEN unacked \cup Events(batch) ELSE unacked

WriteBatch ==
  /\ Running /\ writer = "collects" /\ (auditQueue = <<>> \/ Len(batch) = MaxBatch)
  /\ \/ InsertAudit(TRUE, TRUE)
     \/ InsertAudit(FALSE, FALSE)
     \/ InsertAudit(TRUE, FALSE)      \* the acknowledgement is lost
  /\ batch' = <<>> /\ writer' = "waits"
  /\ UNCHANGED <<at, stamped, auditQueue, pruned, recorded, stopping, listing>>

WriterEnds ==
  /\ Running /\ writer = "waits" /\ auditQueue = <<>> /\ stopping = "waits"
  /\ writer' = "done"
  /\ UNCHANGED <<at, stamped, auditQueue, batch, table, lastId, pruned, log, unacked, recorded,
                 stopping, listing>>

Expired == {r \in table : Retention > 0 /\ r.at < at - Retention}
PruneAudit ==
  /\ Running /\ Expired # {}
  /\ table' = table \ Expired /\ pruned' = pruned \cup {r.ev : r \in Expired}
  /\ UNCHANGED <<at, stamped, auditQueue, batch, writer, lastId, log, unacked, recorded, stopping, listing>>

-----------------------------------------------------------------------------
(* Shutdown, the last step of main: the process ends when it returns. *)

ShutdownAudit ==
  /\ stopping = "no" /\ stopping' = "waits"
  /\ UNCHANGED <<at, stamped, auditQueue, batch, writer, table, lastId, pruned, log, unacked,
                 recorded, listing>>

AuditStopped ==
  /\ stopping = "waits"
  /\ \/ writer = "done" /\ stopping' = "done"
     \/ writer # "done" /\ stopping' = "late"
  /\ UNCHANGED <<at, stamped, auditQueue, batch, writer, table, lastId, pruned, log, unacked,
                 recorded, listing>>

-----------------------------------------------------------------------------
(* The listing, newest first *)

(* Mutant: the cursor is the time alone. *)
X_Before(r, c) == r.at < c.at

Before(r, c) == r.at < c.at \/ (r.at = c.at /\ r.id < c.id)

Newest(rows) ==
  Sorted(rows, {p \in rows \X rows : \/ p[1].at > p[2].at
                                     \/ p[1].at = p[2].at /\ p[1].id > p[2].id})

ListAudit(accepts, cursor) ==
  LET found == Newest({r \in table : r.ev \in accepts /\ Before(r, cursor)})
  IN  SubSeq(found, 1, Min({PageLimit, Len(found)}))

(* The following page starts at the last row of a full one. *)
GetAudit(accepts, cursor, pages, first) ==
  LET events == ListAudit(accepts, cursor)
      full   == Len(events) = PageLimit
  IN  listing' = [accepts |-> accepts, first |-> first, more |-> full,
                  pages |-> pages \o [i \in DOMAIN events |-> events[i].id],
                  before |-> IF full THEN [at |-> Last(events).at, id |-> Last(events).id]
                             ELSE cursor]

List ==
  /\ Running /\ table # {}
  /\ \/ \E accepts \in SUBSET Event :
          /\ listing = NotListing /\ accepts # {}
          /\ GetAudit(accepts, NoCursor, <<>>, {r.id : r \in {x \in table : x.ev \in accepts}})
     \/ /\ listing.more
        /\ GetAudit(listing.accepts, listing.before, listing.pages, listing.first)
  /\ UNCHANGED <<at, stamped, auditQueue, batch, writer, table, lastId, pruned, log, unacked,
                 recorded, stopping>>

AuditNext ==
  \/ Clock \/ TakeFirst \/ TakeMore \/ WriteBatch \/ WriterEnds \/ PruneAudit
  \/ ShutdownAudit \/ AuditStopped \/ List
  \/ \E e \in Event : Stamp(e) \/ Record(e)

AuditSpec == AuditInit /\ [][AuditNext]_auditVars

-----------------------------------------------------------------------------
(* Nothing is lost: an event that was recorded waits in the queue or in the  *)
(* batch, or reached the table or the log.  It is in both exactly when the   *)
(* acknowledgement of its insert was lost, and has one row at most; when     *)
(* Shutdown did not give up, nothing waits any more.                         *)
Stored == {r.ev : r \in table} \cup pruned
Waiting == Events(auditQueue) \cup Events(batch)
AuditKept ==
  /\ recorded = Waiting \cup Stored \cup log
  /\ Waiting \cap (Stored \cup log) = {}
  /\ Stored \cap log = unacked
  /\ Cardinality(table) + Cardinality(pruned) = Cardinality(Stored)
  /\ stopping = "done" => Waiting = {}

(* Paging: although events arrive and expire between the pages, an event that*)
(* the listing found at its first page and that is still there is on exactly *)
(* one page, and no row is shown twice.                                      *)
PagedOnce ==
  /\ IsInjective(listing.pages)
  /\ (listing # NotListing /\ ~listing.more) =>
       {r.id : r \in table} \cap listing.first \subseteq ToSet(listing.pages)
=============================================================================
