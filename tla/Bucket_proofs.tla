--------------------------- MODULE Bucket_proofs ----------------------------
(***************************************************************************)
(* The bucket's records: what ORDER BY and LIMIT give, that the audit log  *)
(* loses nothing and pages through everything once, that feeds keep their  *)
(* last good state, that a client is listed every entry once and in order, *)
(* that nothing dangles when rules, tags and channels are edited, that     *)
(* rules treat the past as the future, that the network view counts what   *)
(* it lists, and that a condition means in memory what it means in SQL;    *)
(* for every number of events, entries, rules, handlers, feeds and         *)
(* addresses, and for conditions of every depth.                           *)
(***************************************************************************)
EXTENDS Audit, Conditions, RuleEngine, NetFeeds, Listing, NetClass, FiniteSetTheorems, SequenceTheorems,
        WellFoundedInduction, TLAPS

-----------------------------------------------------------------------------
(* Ordering: lists of finite sets.                                           *)

(* A function on 1..n is a sequence of length n. *)
LEMMA TupleSeq == ASSUME NEW n \in Nat, NEW R, NEW F \in [1..n -> R] PROVE F \in Seq(R) /\ Len(F) = n
  OBVIOUS

(* Ranks of a finite, totally ordered set are its numbers of elements below. *)
LEMMA Ranks ==
  ASSUME NEW S, IsFiniteSet(S), NEW order, IsTotal(S, order)
  PROVE  /\ \A x \in S : Cardinality(Earlier(S, order, x)) \in 0..(Cardinality(S) - 1)
         /\ \A x, y \in S : <<x, y>> \in order =>
              Cardinality(Earlier(S, order, x)) < Cardinality(Earlier(S, order, y))
<1>1. \A x \in S : IsFiniteSet(Earlier(S, order, x)) /\ Cardinality(Earlier(S, order, x)) \in Nat
  <2> SUFFICES ASSUME NEW x \in S
               PROVE  IsFiniteSet(Earlier(S, order, x)) /\ Cardinality(Earlier(S, order, x)) \in Nat
    OBVIOUS
  <2>1. Earlier(S, order, x) \in SUBSET S
    BY DEF Earlier
  <2> QED BY <2>1, FS_Subset, FS_CardinalityType
<1>2. ASSUME NEW A, NEW B, IsFiniteSet(B), A \in SUBSET B, A # B
      PROVE  Cardinality(A) < Cardinality(B)
  <2>1. Cardinality(A) <= Cardinality(B) /\ Cardinality(A) # Cardinality(B) /\ IsFiniteSet(A)
    BY <1>2, FS_Subset
  <2>2. Cardinality(A) \in Nat /\ Cardinality(B) \in Nat
    BY <1>2, <2>1, FS_CardinalityType
  <2> QED BY <2>1, <2>2
<1>3. ASSUME NEW x \in S PROVE Cardinality(Earlier(S, order, x)) < Cardinality(S)
  <2>1. Earlier(S, order, x) \in SUBSET S /\ x \notin Earlier(S, order, x)
    BY DEF Earlier, IsTotal
  <2> QED BY <2>1, <1>2
<1>4. ASSUME NEW x \in S, NEW y \in S, <<x, y>> \in order
      PROVE  Cardinality(Earlier(S, order, x)) < Cardinality(Earlier(S, order, y))
  <2>1. Earlier(S, order, x) \subseteq Earlier(S, order, y)
    BY <1>4 DEF Earlier, IsTotal
  <2>2. x \in Earlier(S, order, y) /\ x \notin Earlier(S, order, x)
    BY <1>4 DEF Earlier, IsTotal
  <2> QED BY <2>1, <2>2, <1>1, <1>2
<1>5. Cardinality(S) \in Nat
  BY FS_CardinalityType
<1> QED BY <1>1, <1>3, <1>4, <1>5

(* Sorted lists every member of the set once, in the order.                  *)
LEMMA SortedLists ==
  ASSUME NEW S, IsFiniteSet(S), NEW order, IsTotal(S, order)
  PROVE  LET s == Sorted(S, order) IN
         /\ s \in Seq(S) /\ Len(s) = Cardinality(S) /\ Len(s) \in Nat /\ DOMAIN s = 1..Len(s)
         /\ \A k \in 1..Len(s) : s[k] \in S
         /\ \A x \in S : \E k \in 1..Len(s) : s[k] = x
         /\ \A j, k \in 1..Len(s) : j < k => <<s[j], s[k]>> \in order
<1> DEFINE n == Cardinality(S)
           rank == [x \in S |-> Cardinality(Earlier(S, order, x)) + 1]
           s == Sorted(S, order)
<1>1. n \in Nat /\ IsFiniteSet(1..n) /\ Cardinality(1..n) = n
  <2>1. n \in Nat
    BY FS_CardinalityType
  <2> QED BY <2>1, FS_Interval
<1>2. rank \in Injection(S, 1..n)
  <2>1. rank \in [S -> 1..n]
    BY <1>1, Ranks
  <2>2. \A x, y \in S : x # y => rank[x] # rank[y]
    <3> SUFFICES ASSUME NEW x \in S, NEW y \in S, x # y PROVE rank[x] # rank[y]
      OBVIOUS
    <3>1. \/ Cardinality(Earlier(S, order, x)) < Cardinality(Earlier(S, order, y))
          \/ Cardinality(Earlier(S, order, y)) < Cardinality(Earlier(S, order, x))
      BY Ranks DEF IsTotal
    <3>2. Cardinality(Earlier(S, order, x)) \in Int /\ Cardinality(Earlier(S, order, y)) \in Int
      BY <1>1, Ranks
    <3> QED BY <3>1, <3>2
  <2> QED BY <2>1, <2>2 DEF Injection, IsInjective
<1>3. rank \in Surjection(S, 1..n)
  BY <1>1, <1>2, FS_Injection
<1>4. \A k \in 1..n : \E x \in S : rank[x] = k
  BY <1>3 DEF Surjection
<1>5. s = [k \in 1..n |-> CHOOSE x \in S : Cardinality(Earlier(S, order, x)) = k - 1]
  BY DEF Sorted
<1>6. \A k \in 1..n : s[k] \in S /\ rank[s[k]] = k
  <2> SUFFICES ASSUME NEW k \in 1..n PROVE s[k] \in S /\ rank[s[k]] = k
    OBVIOUS
  <2>1. PICK x \in S : rank[x] = k
    BY <1>4
  <2>2. Cardinality(Earlier(S, order, x)) = k - 1
    BY <2>1, <1>1, Ranks
  <2>3. s[k] \in S /\ Cardinality(Earlier(S, order, s[k])) = k - 1
    BY <2>2, <1>5
  <2> QED BY <2>3
<1> HIDE DEF s
<1>7. s \in [1..n -> S]
  <2>1. DOMAIN s = 1..n /\ s = [k \in 1..n |-> s[k]]
    BY <1>5
  <2> QED BY <2>1, <1>6
<1>8. s \in Seq(S) /\ Len(s) = n
  BY <1>1, <1>7, TupleSeq
<1>9. \A x \in S : rank[x] \in 1..n /\ s[rank[x]] = x
  BY <1>2, <1>6 DEF Injection, IsInjective
<1>10. ASSUME NEW j \in 1..n, NEW k \in 1..n, j < k PROVE <<s[j], s[k]>> \in order
  <2>1. s[j] \in S /\ s[k] \in S /\ rank[s[j]] = j /\ rank[s[k]] = k
    BY <1>6
  <2>2. <<s[k], s[j]>> \in order => rank[s[k]] < rank[s[j]]
    <3>1. <<s[k], s[j]>> \in order =>
            Cardinality(Earlier(S, order, s[k])) < Cardinality(Earlier(S, order, s[j]))
      BY <2>1, Ranks
    <3>2. Cardinality(Earlier(S, order, s[k])) \in Int /\ Cardinality(Earlier(S, order, s[j])) \in Int
      BY <2>1, <1>1, Ranks
    <3> QED BY <2>1, <3>1, <3>2
  <2>3. s[j] # s[k]
    BY <2>1, <1>10
  <2> HIDE DEF rank
  <2> QED BY <2>1, <2>2, <2>3, <1>1, <1>10 DEF IsTotal
<1>11. DOMAIN s = 1..n
  BY <1>7
<1> HIDE DEF rank, n
<1>12. \A x \in S : \E k \in 1..n : s[k] = x
  BY <1>9
<1> QED BY <1>1, <1>6, <1>8, <1>10, <1>11, <1>12, Zenon DEF s, n

(* The beginning of a list. *)
LEMMA Beginning ==
  ASSUME NEW R, NEW s \in Seq(R), NEW m \in Nat, m <= Len(s)
  PROVE  /\ SubSeq(s, 1, m) \in Seq(R) /\ Len(SubSeq(s, 1, m)) = m /\ DOMAIN SubSeq(s, 1, m) = 1..m
         /\ \A k \in 1..m : SubSeq(s, 1, m)[k] = s[k]
  OBVIOUS

(* LIMIT m keeps the first m members: what it leaves out comes after them.   *)
LEMMA SortedFirst ==
  ASSUME NEW S, IsFiniteSet(S), NEW order, IsTotal(S, order), NEW m \in Nat, m <= Cardinality(S)
  PROVE  LET s == SubSeq(Sorted(S, order), 1, m) IN
         /\ s \in Seq(S) /\ Len(s) = m /\ DOMAIN s = 1..m
         /\ \A k \in 1..m : s[k] \in S
         /\ \A j, k \in 1..m : j < k => <<s[j], s[k]>> \in order
         /\ \A x \in S : \/ \E k \in 1..m : s[k] = x
                         \/ m < Cardinality(S) /\ \A k \in 1..m : <<s[k], x>> \in order
<1> DEFINE list == Sorted(S, order)
           s    == SubSeq(list, 1, m)
           n    == Cardinality(S)
<1>1. /\ list \in Seq(S) /\ Len(list) = n /\ n \in Nat /\ DOMAIN list = 1..n
      /\ \A k \in 1..n : list[k] \in S
      /\ \A x \in S : \E k \in 1..n : list[k] = x
      /\ \A j, k \in 1..n : j < k => <<list[j], list[k]>> \in order
  BY SortedLists
<1> HIDE DEF list
<1>2. s \in Seq(S) /\ Len(s) = m /\ DOMAIN s = 1..m /\ \A k \in 1..m : s[k] = list[k]
  BY <1>1, Beginning
<1> HIDE DEF s
<1>3. \A k \in 1..m : k \in 1..n
  BY <1>1
<1>4. (\A k \in 1..m : s[k] \in S) /\ \A j, k \in 1..m : j < k => <<s[j], s[k]>> \in order
  BY <1>1, <1>2, <1>3
<1>5. ASSUME NEW x \in S
      PROVE  (\E k \in 1..m : s[k] = x) \/ (m < n /\ \A k \in 1..m : <<s[k], x>> \in order)
  <2>1. PICK i \in 1..n : list[i] = x
    BY <1>1
  <2>2. CASE i \in 1..m
    BY <1>2, <2>1, <2>2
  <2>3. CASE i \notin 1..m
    <3>1. m < n /\ \A k \in 1..m : k < i
      BY <1>1, <2>3
    <3>2. \A k \in 1..m : <<s[k], x>> \in order
      BY <1>1, <1>2, <1>3, <2>1, <3>1
    <3> QED BY <3>1, <3>2
  <2> QED BY <2>2, <2>3
<1> QED BY <1>2, <1>4, <1>5 DEF s, list, n

-----------------------------------------------------------------------------
(* Audit: the log and its listing.                                           *)

(* What waits in the queue or the batch, and the events that rows hold.      *)
Item == [ev : Event, at : Nat]
RowEvents == {r.ev : r \in table}

(* A sequence of items holds no event twice. *)
NoTwice(s) == \A i, j \in DOMAIN s : s[i].ev = s[j].ev => i = j

(* What each variable holds.                                                 *)
AuditType ==
  /\ at \in Nat /\ DOMAIN stamped \subseteq Event /\ \A e \in DOMAIN stamped : stamped[e] \in Nat
  /\ auditQueue \in Seq(Item) /\ batch \in Seq(Item)
  /\ writer \in {"waits", "collects", "done"} /\ stopping \in {"no", "waits", "done", "late"}
  /\ table \subseteq [id : Nat, ev : Event, at : Nat] /\ lastId \in Nat
  /\ pruned \subseteq Event /\ recorded \subseteq Event

(* Each event is in one place on its way, and in one row or in the log at    *)
(* its end, in both when the writer did not hear of the row.                 *)
OneWay ==
  /\ DOMAIN stamped \cap recorded = {}
  /\ NoTwice(auditQueue) /\ NoTwice(batch) /\ Events(auditQueue) \cap Events(batch) = {}
  /\ recorded = Waiting \cup Stored \cup log
  /\ Waiting \cap (Stored \cup log) = {}
  /\ \A r, s \in table : r.ev = s.ev => r = s
  /\ RowEvents \cap pruned = {} /\ Stored \cap log = unacked

(* The writer that waits or is done holds nothing. *)
WriterInv ==
  /\ writer = "waits" => batch = <<>>
  /\ writer = "done" => batch = <<>> /\ auditQueue = <<>> /\ stopping # "no"
  /\ stopping = "done" => batch = <<>> /\ auditQueue = <<>>

(* The invariant that keeps every event, inductive.                          *)
AuditInv == AuditType /\ OneWay /\ WriterInv

-----------------------------------------------------------------------------
(* What the queue and the batch hold. *)

(* An append adds the event of the item. *)
LEMMA EventsAppend ==
  ASSUME NEW s \in Seq(Item), NEW x \in Item
  PROVE  Append(s, x) \in Seq(Item) /\ Events(Append(s, x)) = Events(s) \cup {x.ev}
<1> DEFINE t == Append(s, x)
<1>1. t \in Seq(Item) /\ DOMAIN t = 1..(Len(s) + 1) /\ DOMAIN s = 1..Len(s) /\ Len(s) \in Nat
  OBVIOUS
<1>2. t[Len(s) + 1] = x /\ \A i \in DOMAIN s : t[i] = s[i]
  OBVIOUS
<1> HIDE DEF t
<1>3. Events(t) \subseteq Events(s) \cup {x.ev}
  BY <1>1, <1>2 DEF Events
<1>4. Events(s) \cup {x.ev} \subseteq Events(t)
  BY <1>1, <1>2 DEF Events
<1> QED BY <1>1, <1>3, <1>4 DEF t

(* An append of a new event keeps events apart. *)
LEMMA AppendApart ==
  ASSUME NEW s \in Seq(Item), NEW x \in Item, NoTwice(s), x.ev \notin Events(s)
  PROVE  NoTwice(Append(s, x))
<1> DEFINE t == Append(s, x)
<1>1. DOMAIN t = 1..(Len(s) + 1) /\ DOMAIN s = 1..Len(s) /\ Len(s) \in Nat
  OBVIOUS
<1>2. t[Len(s) + 1] = x /\ \A i \in DOMAIN s : t[i] = s[i]
  OBVIOUS
<1>3. \A i \in DOMAIN s : s[i].ev # x.ev
  BY DEF Events
<1> HIDE DEF t
<1>4. NoTwice(t)
  BY <1>1, <1>2, <1>3 DEF NoTwice
<1> QED BY <1>4 DEF t

(* What is taken from the head leaves the others. *)
LEMMA EventsTail ==
  ASSUME NEW s \in Seq(Item), s # <<>>, NoTwice(s)
  PROVE  /\ Head(s) \in Item /\ Tail(s) \in Seq(Item) /\ NoTwice(Tail(s))
         /\ Events(s) = {Head(s).ev} \cup Events(Tail(s)) /\ Head(s).ev \notin Events(Tail(s))
<1> DEFINE t == Tail(s)
<1>1. Head(s) = s[1] /\ t \in Seq(Item) /\ s[1] \in Item /\ Len(s) \in Nat \ {0}
  OBVIOUS
<1>2. DOMAIN s = 1..Len(s) /\ DOMAIN t = 1..(Len(s) - 1) /\ \A i \in DOMAIN t : t[i] = s[i + 1]
  OBVIOUS
<1> HIDE DEF t
<1>3. NoTwice(t)
  BY <1>1, <1>2 DEF NoTwice
<1>4. \A i \in DOMAIN s : i = 1 \/ (i - 1 \in DOMAIN t /\ s[i] = t[i - 1])
  BY <1>1, <1>2
<1>5. Events(s) \subseteq {s[1].ev} \cup Events(t)
  BY <1>4 DEF Events
<1>6. {s[1].ev} \cup Events(t) \subseteq Events(s)
  BY <1>1, <1>2 DEF Events
<1>7. s[1].ev \notin Events(t)
  BY <1>1, <1>2 DEF Events, NoTwice
<1> QED BY <1>1, <1>3, <1>5, <1>6, <1>7 DEF t

(* An empty sequence holds no events. *)
LEMMA EventsEmpty == Events(<<>>) = {} /\ NoTwice(<<>>) /\ <<>> \in Seq(Item)
  BY DEF Events, NoTwice

-----------------------------------------------------------------------------
(* Every action keeps the invariant. *)

(* All parts hold at the start. *)
LEMMA AuditStart == AuditInit => AuditInv
  BY EventsEmpty DEF AuditInit, AuditInv, AuditType, OneWay, WriterInv, RowEvents, Waiting, Stored

(* A call of Record takes its time. *)
LEMMA StampKeeps == ASSUME AuditInv, NEW e \in Event, Stamp(e) PROVE AuditInv'
<1>1. DOMAIN stamped' = DOMAIN stamped \cup {e} /\ \A x \in DOMAIN stamped' : stamped'[x] \in Nat
  BY DEF Stamp, AuditInv, AuditType
<1>2. AuditType'
  BY <1>1 DEF Stamp, AuditInv, AuditType
<1>3. Waiting' = Waiting /\ Stored' = Stored /\ RowEvents' = RowEvents
  BY DEF Stamp, Waiting, Stored, RowEvents
<1>4. OneWay' /\ WriterInv'
  BY <1>1, <1>3 DEF Stamp, AuditInv, OneWay, WriterInv
<1> QED BY <1>2, <1>4 DEF AuditInv

(* A recorded event is new to the queue, the batch, the table and the log. *)
LEMMA RecordKeeps == ASSUME AuditInv, NEW e \in Event, Record(e) PROVE AuditInv'
<1> DEFINE x == [ev |-> e, at |-> stamped[e]]
<1>1. x \in Item /\ x.ev = e
  BY DEF Record, AuditInv, AuditType, Item
<1>2. e \notin recorded /\ e \notin Waiting \cup Stored \cup log
  BY DEF Record, AuditInv, OneWay
<1>3. DOMAIN stamped' = DOMAIN stamped \ {e} /\ \A y \in DOMAIN stamped' : stamped'[y] = stamped[y]
  BY DEF Record
<1>4. recorded' = recorded \cup {e} /\ Stored' = Stored /\ RowEvents' = RowEvents
      /\ Events(batch') = Events(batch) /\ NoTwice(batch')
  BY DEF Record, Stored, RowEvents, Events, NoTwice, AuditInv, OneWay
<1>5. CASE auditQueue' = Append(auditQueue, x) /\ log' = log /\ stopping = "no"
  <2>1. auditQueue' \in Seq(Item) /\ Events(auditQueue') = Events(auditQueue) \cup {e}
    BY <1>1, <1>5, EventsAppend DEF AuditInv, AuditType
  <2>2. NoTwice(auditQueue')
    BY <1>1, <1>2, <1>5, AppendApart DEF AuditInv, AuditType, OneWay, Waiting
  <2>3. AuditType'
    BY <2>1, <1>3, <1>4 DEF Record, AuditInv, AuditType
  <2>4. Waiting' = Waiting \cup {e}
    BY <2>1, <1>4 DEF Waiting
  <2>5. OneWay'
    <3>1. Stored' \cap log' = unacked'
      BY <1>4, <1>5 DEF Record, AuditInv, OneWay
    <3>2. recorded' = Waiting' \cup Stored' \cup log' /\ Waiting' \cap (Stored' \cup log') = {}
      BY <2>4, <1>2, <1>4, <1>5 DEF AuditInv, OneWay
    <3>3. Events(auditQueue') \cap Events(batch') = {}
      BY <2>1, <1>2, <1>4 DEF AuditInv, OneWay, Waiting
    <3>4. DOMAIN stamped' \cap recorded' = {}
      BY <1>3, <1>4 DEF AuditInv, OneWay
    <3>5. table' = table /\ pruned' = pruned
      BY DEF Record
    <3>6. RowEvents' \cap pruned' = {} /\ \A q, t \in table' : q.ev = t.ev => q = t
      BY <3>5, <1>4 DEF AuditInv, OneWay
    <3> QED BY <3>1, <3>2, <3>3, <3>4, <3>6, <2>2, <1>4 DEF OneWay
  <2>6. WriterInv'
    BY <1>5 DEF Record, AuditInv, WriterInv
  <2> QED BY <2>3, <2>5, <2>6 DEF AuditInv
<1>6. CASE auditQueue' = auditQueue /\ log' = log \cup {e}
  <2>1. Events(auditQueue') = Events(auditQueue) /\ NoTwice(auditQueue') /\ Waiting' = Waiting
    <3>1. NoTwice(auditQueue)
      BY DEF AuditInv, OneWay
    <3> QED BY <3>1, <1>4, <1>6 DEF Events, NoTwice, Waiting
  <2>2. AuditType'
    BY <1>3, <1>4, <1>6 DEF Record, AuditInv, AuditType
  <2>3. OneWay'
    BY <2>1, <1>2, <1>3, <1>4, <1>6 DEF Record, AuditInv, OneWay
  <2>4. WriterInv'
    BY <1>6 DEF Record, AuditInv, WriterInv
  <2> QED BY <2>2, <2>3, <2>4 DEF AuditInv
<1> QED BY <1>5, <1>6 DEF Record

(* What the writer takes moves from the queue to its batch. *)
LEMMA TakeKeeps == ASSUME AuditInv, NEW limit, writer # "done", Take(limit) PROVE AuditInv'
<1> DEFINE x == Head(auditQueue)
<1>1. /\ x \in Item /\ auditQueue' \in Seq(Item) /\ NoTwice(auditQueue')
      /\ Events(auditQueue) = {x.ev} \cup Events(auditQueue') /\ x.ev \notin Events(auditQueue')
  BY EventsTail DEF Take, AuditInv, AuditType, OneWay
<1>2. batch' \in Seq(Item) /\ Events(batch') = Events(batch) \cup {x.ev}
  BY <1>1, EventsAppend DEF Take, AuditInv, AuditType
<1>3. NoTwice(batch')
  BY <1>1, AppendApart DEF Take, AuditInv, AuditType, OneWay
<1>4. Waiting' = Waiting /\ Stored' = Stored /\ RowEvents' = RowEvents
  BY <1>1, <1>2 DEF Waiting, Take, Stored, RowEvents
<1>5. AuditType'
  BY <1>1, <1>2 DEF Take, AuditInv, AuditType
<1>6. OneWay'
  BY <1>1, <1>2, <1>3, <1>4 DEF Take, AuditInv, OneWay
<1>7. WriterInv'
  BY DEF Take, Running, AuditInv, WriterInv
<1> QED BY <1>5, <1>6, <1>7 DEF AuditInv

(* A batch becomes rows, goes to the log, or both when the acknowledgement   *)
(* was lost.                                                                 *)
LEMMA BatchKeeps == AuditInv /\ WriteBatch => AuditInv'
<1> SUFFICES ASSUME AuditInv, WriteBatch PROVE AuditInv'
  OBVIOUS
<1> DEFINE row(i) == [id |-> lastId + i, ev |-> batch[i].ev, at |-> batch[i].at]
<1>1. PICK committed \in BOOLEAN, acknowledged \in BOOLEAN :
        InsertAudit(committed, acknowledged) /\ (committed \/ ~acknowledged)
  BY DEF WriteBatch
<1>2. DOMAIN batch = 1..Len(batch) /\ Len(batch) \in Nat /\ \A i \in DOMAIN batch : batch[i] \in Item
  BY DEF AuditInv, AuditType
<1>3. batch' = <<>> /\ Events(batch') = {} /\ NoTwice(batch') /\ batch' \in Seq(Item)
  BY EventsEmpty DEF WriteBatch, Events, NoTwice
<1>4. Events(auditQueue') = Events(auditQueue) /\ NoTwice(auditQueue')
  BY DEF WriteBatch, Events, NoTwice, AuditInv, OneWay
<1>5. \A i \in DOMAIN batch : row(i) \in [id : Nat, ev : Event, at : Nat] /\ row(i).ev = batch[i].ev
  BY <1>2 DEF AuditInv, AuditType, Item
<1>6. table' = IF committed THEN table \cup {row(i) : i \in DOMAIN batch} ELSE table
  BY <1>1 DEF InsertAudit
<1>7. log' = IF acknowledged THEN log ELSE log \cup Events(batch)
  BY <1>1 DEF InsertAudit
<1>8. lastId' \in Nat
  BY <1>1, <1>2 DEF InsertAudit, AuditInv, AuditType
<1> HIDE DEF row
<1>9. AuditType'
  BY <1>3, <1>5, <1>6, <1>8 DEF WriteBatch, AuditInv, AuditType
<1>10. RowEvents' = IF committed THEN RowEvents \cup Events(batch) ELSE RowEvents
  <2>1. {r.ev : r \in {row(i) : i \in DOMAIN batch}} = Events(batch)
    BY <1>5 DEF Events
  <2> QED BY <2>1, <1>6 DEF RowEvents
<1>11. \A r, s \in table' : r.ev = s.ev => r = s
  <2>1. CASE ~committed
    BY <2>1, <1>6 DEF AuditInv, OneWay
  <2>2. CASE committed
    <3> SUFFICES ASSUME NEW r \in table', NEW s \in table', r.ev = s.ev PROVE r = s
      OBVIOUS
    <3>1. \A q \in table' : q \in table \/ \E i \in DOMAIN batch : q = row(i)
      BY <2>2, <1>6
    <3>2. \A q \in table, i \in DOMAIN batch : q.ev # batch[i].ev
      BY DEF AuditInv, OneWay, Waiting, Stored, Events
    <3>3. \A i, j \in DOMAIN batch : batch[i].ev = batch[j].ev => i = j
      BY DEF AuditInv, OneWay, NoTwice
    <3>4. CASE r \in table /\ s \in table
      BY <3>4 DEF AuditInv, OneWay
    <3>5. CASE r \in table /\ s \notin table
      BY <3>5, <3>1, <3>2, <1>5
    <3>6. CASE r \notin table /\ s \in table
      BY <3>6, <3>1, <3>2, <1>5
    <3>7. CASE r \notin table /\ s \notin table
      BY <3>7, <3>1, <3>3, <1>5
    <3> QED BY <3>4, <3>5, <3>6, <3>7
  <2> QED BY <2>1, <2>2
<1>12. Stored = RowEvents \cup pruned /\ Stored' = RowEvents' \cup pruned
  BY DEF Stored, RowEvents, WriteBatch
<1>13. recorded' = recorded /\ stamped' = stamped /\ pruned' = pruned
  BY DEF WriteBatch
<1>14. Waiting' = Events(auditQueue) /\ Waiting = Events(auditQueue) \cup Events(batch)
  BY <1>3, <1>4 DEF Waiting
<1>15. OneWay'
  <2>1. recorded' = Waiting' \cup Stored' \cup log'
    BY <1>1, <1>7, <1>10, <1>12, <1>13, <1>14 DEF AuditInv, OneWay
  <2>2. Waiting' \cap (Stored' \cup log') = {}
    BY <1>7, <1>10, <1>12, <1>14 DEF AuditInv, OneWay
  <2>3. RowEvents' \cap pruned' = {}
    BY <1>10, <1>12, <1>13, <1>14 DEF AuditInv, OneWay
  <2>4. Stored' \cap log' = unacked'
    <3>1. unacked' = IF committed /\ ~acknowledged THEN unacked \cup Events(batch) ELSE unacked
      BY <1>1 DEF InsertAudit
    <3>2. Events(batch) \cap (Stored \cup log) = {} /\ Stored \cap log = unacked
      BY <1>14 DEF AuditInv, OneWay
    <3>3. CASE committed /\ acknowledged
      BY <3>1, <3>2, <3>3, <1>7, <1>10, <1>12
    <3>4. CASE committed /\ ~acknowledged
      BY <3>1, <3>2, <3>4, <1>7, <1>10, <1>12
    <3>5. CASE ~committed
      BY <3>1, <3>2, <3>5, <1>1, <1>7, <1>10, <1>12
    <3> QED BY <3>3, <3>4, <3>5
  <2> QED BY <2>1, <2>2, <2>3, <2>4, <1>3, <1>4, <1>11, <1>13 DEF AuditInv, OneWay
<1>16. WriterInv'
  BY <1>3 DEF WriteBatch, Running, AuditInv, WriterInv
<1> QED BY <1>9, <1>15, <1>16 DEF AuditInv

(* Pruned rows stay known as such. *)
LEMMA PruneKeeps == AuditInv /\ PruneAudit => AuditInv'
<1> SUFFICES ASSUME AuditInv, PruneAudit PROVE AuditInv'
  OBVIOUS
<1>1. Expired \subseteq table
  BY DEF Expired
<1>2. Stored' = Stored
  BY <1>1 DEF PruneAudit, Stored
<1>3. RowEvents' \cap pruned' = {}
  BY <1>1 DEF PruneAudit, RowEvents, AuditInv, OneWay
<1>4. AuditType'
  BY <1>1 DEF PruneAudit, AuditInv, AuditType
<1>5. Waiting' = Waiting /\ NoTwice(auditQueue') /\ NoTwice(batch')
      /\ Events(auditQueue') = Events(auditQueue) /\ Events(batch') = Events(batch)
  BY DEF PruneAudit, Waiting, Events, NoTwice, AuditInv, OneWay
<1>6. OneWay'
  BY <1>1, <1>2, <1>3, <1>5 DEF PruneAudit, AuditInv, OneWay
<1>7. WriterInv'
  BY DEF PruneAudit, AuditInv, WriterInv
<1> QED BY <1>4, <1>6, <1>7 DEF AuditInv

(* Steps that move no event. *)
LEMMA StillAudit ==
  ASSUME AuditInv, at' \in Nat, writer' \in {writer, "done"}, stopping' \in {"waits", "done", "late", stopping},
         UNCHANGED <<stamped, auditQueue, batch, table, lastId, pruned, log, unacked, recorded>>,
         WriterInv'
  PROVE  AuditInv'
<1>1. AuditType'
  BY DEF AuditInv, AuditType
<1>2. Waiting' = Waiting /\ Stored' = Stored /\ RowEvents' = RowEvents
  BY DEF Waiting, Stored, RowEvents
<1>3. OneWay'
  BY <1>2 DEF AuditInv, OneWay
<1> QED BY <1>1, <1>3 DEF AuditInv

(* Every step of the audit log keeps the invariant. *)
LEMMA AuditStep == AuditInv /\ [AuditNext]_auditVars => AuditInv'
<1> SUFFICES ASSUME AuditInv, [AuditNext]_auditVars PROVE AuditInv'
  OBVIOUS
<1>1. CASE Clock
  BY <1>1, StillAudit DEF Clock, AuditInv, AuditType, WriterInv
<1>2. CASE TakeFirst \/ TakeMore
  BY <1>2, TakeKeeps DEF TakeFirst, TakeMore
<1>3. CASE WriterEnds
  BY <1>3, StillAudit DEF WriterEnds, AuditInv, AuditType, WriterInv
<1>4. CASE ShutdownAudit
  BY <1>4, StillAudit DEF ShutdownAudit, AuditInv, AuditType, WriterInv
<1>5. CASE AuditStopped
  BY <1>5, StillAudit DEF AuditStopped, AuditInv, AuditType, WriterInv
<1>6. CASE List
  BY <1>6, StillAudit DEF List, AuditInv, AuditType, WriterInv
<1>7. CASE UNCHANGED auditVars
  BY <1>7, StillAudit DEF auditVars, AuditInv, AuditType, WriterInv
<1> QED BY <1>1, <1>2, <1>3, <1>4, <1>5, <1>6, <1>7, BatchKeeps, PruneKeeps, StampKeeps, RecordKeeps
        DEF AuditNext

-----------------------------------------------------------------------------
(* The events of the rows are as many as the rows. *)
LEMMA RowsCounted == AuditInv => Cardinality(table) + Cardinality(pruned) = Cardinality(Stored)
<1> SUFFICES ASSUME AuditInv PROVE Cardinality(table) + Cardinality(pruned) = Cardinality(Stored)
  OBVIOUS
<1> DEFINE evOf == [r \in table |-> r.ev]
<1>1. RowEvents \subseteq Event /\ pruned \subseteq Event /\ RowEvents \cap pruned = {}
  BY DEF AuditInv, AuditType, OneWay, RowEvents
<1>2. IsFiniteSet(RowEvents) /\ IsFiniteSet(pruned)
  BY <1>1, AuditAssumption, FS_Subset DEF AuditAssumption
<1>3. evOf \in Bijection(table, RowEvents)
  BY DEF AuditInv, OneWay, RowEvents, Bijection, Injection, Surjection, IsInjective
<1>4. evOf \in Injection(table, RowEvents) /\ evOf \in Surjection(table, RowEvents)
  BY <1>3 DEF Bijection
<1>5. Cardinality(table) = Cardinality(RowEvents)
  BY <1>2, <1>4, FS_Injection
<1>6. Cardinality(RowEvents \cup pruned) = Cardinality(RowEvents) + Cardinality(pruned)
  <2>1. Cardinality(RowEvents \cup pruned)
          = Cardinality(RowEvents) + Cardinality(pruned) - Cardinality(RowEvents \cap pruned)
    BY <1>2, FS_Union
  <2>2. Cardinality(RowEvents \cap pruned) = 0
    BY <1>1, FS_EmptySet
  <2>3. Cardinality(RowEvents) \in Nat /\ Cardinality(pruned) \in Nat
    BY <1>2, FS_CardinalityType
  <2> QED BY <2>1, <2>2, <2>3
<1>7. Stored = RowEvents \cup pruned
  BY DEF Stored, RowEvents
<1> QED BY <1>5, <1>6, <1>7

(* The invariant says that nothing is lost. *)
LEMMA AuditSafe == AuditInv => AuditKept
<1> SUFFICES ASSUME AuditInv PROVE AuditKept
  OBVIOUS
<1>1. stopping = "done" => Waiting = {}
  BY EventsEmpty DEF AuditInv, WriterInv, Waiting
<1> QED BY <1>1, RowsCounted DEF AuditInv, OneWay, AuditKept

(* However handlers, batches, failed inserts, lost acknowledgements, pruning *)
(* and the shutdown interleave, an event that was recorded waits, has a row  *)
(* or is in the log, in one of the three only, but for the events of inserts *)
(* whose acknowledgement was lost, which have a row and are in the log; it   *)
(* has one row at most, and nothing waits once the shutdown is done          *)
(* (audit.go: Record, write, Shutdown, logLost; store/audit.go: InsertAudit, *)
(* PruneAudit).                                                              *)
THEOREM EventsKept == AuditSpec => []AuditKept
<1>1. AuditSpec => []AuditInv
  BY AuditStart, AuditStep, PTL DEF AuditSpec
<1> QED BY <1>1, AuditSafe, PTL

-----------------------------------------------------------------------------
(* Paging.                                                                   *)

(* Times are within the clock, and ids are drawn in turn. *)
Stamps ==
  /\ at <= MaxAt /\ \A e \in DOMAIN stamped : stamped[e] <= MaxAt
  /\ \A i \in DOMAIN auditQueue : auditQueue[i].at <= MaxAt
  /\ \A i \in DOMAIN batch : batch[i].at <= MaxAt
(* Ids of rows are drawn and their own.                                      *)
RowsInv ==
  /\ \A r \in table : r.id \in 1..lastId /\ r.at <= MaxAt
  /\ \A r, s \in table : r.id = s.id => r = s

(* What was given out has been drawn and lies on this side of the cursor;    *)
(* what the first page found and no page has shown lies beyond it.           *)
PagesInv ==
  /\ DOMAIN listing = {"accepts", "before", "pages", "first", "more"}
  /\ listing.pages \in Seq(1..lastId) /\ listing.first \subseteq 1..lastId
  /\ listing.before.at \in Int /\ listing.before.id \in Int
  /\ IsInjective(listing.pages)
  /\ listing.more => \A r \in table :
       /\ r.id \in ToSet(listing.pages) => ~Before(r, listing.before)
       /\ r.id \in listing.first => /\ r.ev \in listing.accepts
                                    /\ r.id \in ToSet(listing.pages) \/ Before(r, listing.before)
  /\ listing # NotListing /\ ~listing.more =>
       \A r \in table : r.id \in listing.first => r.id \in ToSet(listing.pages)

(* The invariant of paging, inductive.                                       *)
PageInv == Stamps /\ RowsInv /\ PagesInv

(* A page lists accepted rows beyond the cursor, newest first, each once; it *)
(* skips none, and when it is not full there are no more.                    *)
LEMMA PageFacts ==
  ASSUME AuditInv, PageInv, NEW accepts, NEW cursor, cursor.at \in Int, cursor.id \in Int
  PROVE  LET events == ListAudit(accepts, cursor)
             found  == {r \in table : r.ev \in accepts /\ Before(r, cursor)}
         IN
         /\ Len(events) \in Nat /\ DOMAIN events = 1..Len(events) /\ Len(events) <= PageLimit
         /\ \A k \in 1..Len(events) : events[k] \in found
         /\ \A j, k \in 1..Len(events) : j < k => Before(events[k], events[j])
         /\ \A r \in found : \/ \E k \in 1..Len(events) : events[k] = r
                             \/ Len(events) = PageLimit /\ \A k \in 1..Len(events) : Before(r, events[k])
<1> DEFINE found == {r \in table : r.ev \in accepts /\ Before(r, cursor)}
           order == {p \in found \X found : p[1].at > p[2].at \/ (p[1].at = p[2].at /\ p[1].id > p[2].id)}
           m     == Min({PageLimit, Cardinality(found)})
           events == SubSeq(Sorted(found, order), 1, m)
<1>1. IsFiniteSet(found) /\ Cardinality(found) \in Nat
  <2> DEFINE evOf == [r \in found |-> r.ev]
  <2>1. evOf \in Injection(found, Event)
    BY DEF AuditInv, AuditType, OneWay, Injection, IsInjective
  <2>2. IsFiniteSet(found)
    BY <2>1, AuditAssumption, FS_Injection DEF AuditAssumption
  <2> QED BY <2>2, FS_CardinalityType
<1>2. \A r \in found : r \in table /\ r.at \in Int /\ r.id \in Int
  BY DEF AuditInv, AuditType
<1> HIDE DEF found
<1>3. \A r, s \in found : (<<r, s>> \in order) <=> Before(s, r)
  <2> SUFFICES ASSUME NEW r \in found, NEW s \in found PROVE (<<r, s>> \in order) <=> Before(s, r)
    OBVIOUS
  <2>1. (<<r, s>> \in order) <=> r.at > s.at \/ (r.at = s.at /\ r.id > s.id)
    <3>1. <<r, s>> \in found \X found /\ <<r, s>>[1] = r /\ <<r, s>>[2] = s
      OBVIOUS
    <3> QED BY <3>1
  <2> QED BY <2>1, <1>2 DEF Before
<1>4. IsTotal(found, order)
  <2>1. \A r, s \in found : r = s \/ Before(s, r) \/ Before(r, s)
    BY <1>2 DEF Before, PageInv, RowsInv
  <2>2. \A r \in found : ~Before(r, r)
    BY <1>2 DEF Before
  <2>3. \A r, s, t \in found : Before(s, r) /\ Before(t, s) => Before(t, r)
    BY <1>2 DEF Before
  <2> HIDE DEF order
  <2> QED BY <2>1, <2>2, <2>3, <1>3 DEF IsTotal
<1>5. Newest(found) = Sorted(found, order) /\ Len(Newest(found)) = Cardinality(found)
  <2>1. Newest(found) = Sorted(found, order)
    BY DEF Newest
  <2> HIDE DEF order
  <2>2. Len(Sorted(found, order)) = Cardinality(found)
    BY <1>1, <1>4, SortedLists
  <2> QED BY <2>1, <2>2
<1> HIDE DEF order
<1>6. PageLimit \in Nat /\ m \in {PageLimit, Cardinality(found)} /\ m <= PageLimit /\ m <= Cardinality(found)
  <2>1. PageLimit \in Nat
    BY AuditAssumption DEF AuditAssumption
  <2>2. \E x \in {PageLimit, Cardinality(found)} : \A y \in {PageLimit, Cardinality(found)} : x <= y
    BY <2>1, <1>1
  <2>3. m \in {PageLimit, Cardinality(found)} /\ \A y \in {PageLimit, Cardinality(found)} : m <= y
    BY <2>2 DEF Min
  <2> QED BY <2>1, <2>3
<1>7. ListAudit(accepts, cursor) = events
  <2>1. ListAudit(accepts, cursor) = SubSeq(Newest(found), 1, Min({PageLimit, Len(Newest(found))}))
    BY DEF ListAudit, found
  <2> QED BY <2>1, <1>5
<1> HIDE DEF m
<1>8. /\ Len(events) = m /\ DOMAIN events = 1..m
      /\ \A k \in 1..m : events[k] \in found
      /\ \A j, k \in 1..m : j < k => <<events[j], events[k]>> \in order
      /\ \A x \in found : \/ \E k \in 1..m : events[k] = x
                          \/ m < Cardinality(found) /\ \A k \in 1..m : <<events[k], x>> \in order
  <2>1. m \in Nat
    BY <1>1, <1>6
  <2> QED BY <1>1, <1>4, <1>6, <2>1, SortedFirst
<1> HIDE DEF events
<1>9. \A j, k \in 1..m : j < k => Before(events[k], events[j])
  BY <1>3, <1>8
<1>10. \A x \in found : \/ \E k \in 1..m : events[k] = x
                        \/ m = PageLimit /\ \A k \in 1..m : Before(x, events[k])
  <2>1. m < Cardinality(found) => m = PageLimit
    BY <1>1, <1>6
  <2> QED BY <1>3, <1>8, <2>1
<1>11. m \in Nat
  BY <1>1, <1>6
<1> QED BY <1>6, <1>7, <1>8, <1>9, <1>10, <1>11 DEF found

(* A page joins the pages so far: none of its rows was on one of them.       *)
LEMMA PageJoins ==
  ASSUME AuditInv, PageInv, NEW accepts, NEW cursor, cursor.at \in Int, cursor.id \in Int,
         NEW pages \in Seq(1..lastId), IsInjective(pages), NEW first \in SUBSET (1..lastId),
         \A r \in table : r.id \in ToSet(pages) => ~Before(r, cursor),
         \A r \in table : r.id \in first => r.ev \in accepts /\ (r.id \in ToSet(pages) \/ Before(r, cursor)),
         GetAudit(accepts, cursor, pages, first), UNCHANGED <<table, lastId>>
  PROVE  PagesInv'
<1> DEFINE events == ListAudit(accepts, cursor)
           found  == {r \in table : r.ev \in accepts /\ Before(r, cursor)}
           full   == Len(events) = PageLimit
           page   == [i \in DOMAIN events |-> events[i].id]
<1>1. /\ Len(events) \in Nat /\ DOMAIN events = 1..Len(events) /\ Len(events) <= PageLimit
      /\ \A k \in 1..Len(events) : events[k] \in found
      /\ \A j, k \in 1..Len(events) : j < k => Before(events[k], events[j])
      /\ \A r \in found : \/ \E k \in 1..Len(events) : events[k] = r
                          \/ Len(events) = PageLimit /\ \A k \in 1..Len(events) : Before(r, events[k])
  BY PageFacts
<1>2. listing' = [accepts |-> accepts, first |-> first, more |-> full, pages |-> pages \o page,
                  before |-> IF full THEN [at |-> Last(events).at, id |-> Last(events).id] ELSE cursor]
  BY DEF GetAudit
<1>3. PageLimit \in Nat \ {0}
  BY AuditAssumption DEF AuditAssumption
<1> HIDE DEF events
<1>4. \A r \in table : r.at \in Int /\ r.id \in 1..lastId /\ r.id \in Int
  BY DEF AuditInv, AuditType, PageInv, RowsInv
<1>5. page \in Seq(1..lastId) /\ Len(page) = Len(events) /\ \A k \in 1..Len(events) : page[k] = events[k].id
  <2>1. page \in [1..Len(events) -> 1..lastId]
    BY <1>1, <1>4
  <2>2. page \in Seq(1..lastId) /\ Len(page) = Len(events)
    BY <2>1, <1>1, TupleSeq
  <2> QED BY <2>2, <1>1
<1> HIDE DEF page
<1> DEFINE all == pages \o page
<1>6. /\ all \in Seq(1..lastId) /\ DOMAIN all = 1..(Len(pages) + Len(page)) /\ Len(pages) \in Nat
      /\ \A k \in 1..Len(pages) : all[k] = pages[k]
      /\ \A k \in 1..Len(page) : all[Len(pages) + k] = page[k]
      /\ DOMAIN pages = 1..Len(pages)
  BY <1>5
<1> HIDE DEF all
<1>7. \A id : id \in ToSet(all) <=> id \in ToSet(pages) \/ \E k \in 1..Len(events) : id = events[k].id
  <2>1. \A i \in DOMAIN all : i \in 1..Len(pages) \/ \E k \in 1..Len(page) : i = Len(pages) + k
    <3> SUFFICES ASSUME NEW i \in DOMAIN all, i \notin 1..Len(pages)
                 PROVE  \E k \in 1..Len(page) : i = Len(pages) + k
      OBVIOUS
    <3>1. i - Len(pages) \in 1..Len(page) /\ i = Len(pages) + (i - Len(pages))
      BY <1>1, <1>5, <1>6
    <3> QED BY <3>1
  <2>2. \A k \in 1..Len(page) : Len(pages) + k \in DOMAIN all
    BY <1>1, <1>5, <1>6
  <2>3. \A k \in 1..Len(pages) : k \in DOMAIN all
    BY <1>1, <1>5, <1>6
  <2>4. ToSet(all) = {all[i] : i \in DOMAIN all} /\ ToSet(pages) = {pages[i] : i \in DOMAIN pages}
    BY DEF ToSet
  <2>5. ASSUME NEW id \in ToSet(all), id \notin ToSet(pages) PROVE \E k \in 1..Len(events) : id = events[k].id
    <3>1. PICK i \in DOMAIN all : id = all[i]
      BY <2>4, <2>5
    <3>2. i \notin 1..Len(pages)
      BY <2>4, <2>5, <3>1, <1>6
    <3>3. PICK k \in 1..Len(page) : i = Len(pages) + k
      BY <2>1, <3>2
    <3> QED BY <3>1, <3>3, <1>5, <1>6
  <2>6. ASSUME NEW id \in ToSet(pages) PROVE id \in ToSet(all)
    BY <2>3, <2>4, <2>6, <1>6
  <2>7. ASSUME NEW k \in 1..Len(events) PROVE events[k].id \in ToSet(all)
    <3>1. Len(pages) + k \in DOMAIN all /\ all[Len(pages) + k] = events[k].id
      BY <2>2, <1>5, <1>6
    <3> QED BY <3>1, <2>4
  <2> QED BY <2>5, <2>6, <2>7
<1>8. \A k \in 1..Len(events) : events[k].id \notin ToSet(pages)
  BY <1>1
<1>9. \A j, k \in 1..Len(events) : events[j].id = events[k].id => j = k
  <2> SUFFICES ASSUME NEW j \in 1..Len(events), NEW k \in 1..Len(events), events[j].id = events[k].id, j < k
               PROVE  FALSE
    BY <1>1
  <2>1. Before(events[k], events[j]) /\ events[k] \in table /\ events[j] \in table
    BY <1>1
  <2>2. events[k] = events[j]
    BY <2>1 DEF PageInv, RowsInv
  <2> QED BY <2>1, <2>2, <1>4 DEF Before
<1>10. IsInjective(all)
  <2> SUFFICES ASSUME NEW i \in DOMAIN all, NEW j \in DOMAIN all, all[i] = all[j] PROVE i = j
    BY DEF IsInjective
  <2>1. \A k \in DOMAIN all : \/ k \in 1..Len(pages)
                              \/ k - Len(pages) \in 1..Len(page) /\ all[k] = page[k - Len(pages)]
    <3> SUFFICES ASSUME NEW k \in DOMAIN all, k \notin 1..Len(pages)
                 PROVE  k - Len(pages) \in 1..Len(page) /\ all[k] = page[k - Len(pages)]
      OBVIOUS
    <3>1. k - Len(pages) \in 1..Len(page) /\ k = Len(pages) + (k - Len(pages))
      BY <1>1, <1>5, <1>6
    <3> QED BY <3>1, <1>6
  <2>2. \A k \in 1..Len(pages) : pages[k] \in ToSet(pages)
    BY <1>6 DEF ToSet
  <2>3. CASE i \in 1..Len(pages) /\ j \in 1..Len(pages)
    BY <2>3, <1>6 DEF IsInjective
  <2>4. CASE i \notin 1..Len(pages) /\ j \notin 1..Len(pages)
    <3>1. i - Len(pages) \in 1..Len(events) /\ j - Len(pages) \in 1..Len(events)
          /\ events[i - Len(pages)].id = events[j - Len(pages)].id
      BY <2>1, <2>4, <1>5
    <3>2. i - Len(pages) = j - Len(pages) /\ i \in Int /\ j \in Int
      BY <3>1, <1>6, <1>9
    <3> QED BY <3>2, <1>6
  <2>5. ASSUME NEW k \in DOMAIN all, k \in 1..Len(pages) PROVE all[k] \in ToSet(pages)
    BY <2>2, <2>5, <1>6
  <2>6. ASSUME NEW k \in DOMAIN all, k \notin 1..Len(pages) PROVE all[k] \notin ToSet(pages)
    <3>1. PICK l \in 1..Len(events) : l = k - Len(pages)
      BY <2>1, <2>6, <1>5
    <3>2. all[k] = events[l].id
      BY <2>1, <2>6, <3>1, <1>5
    <3> QED BY <3>2, <1>8
  <2> QED BY <2>3, <2>4, <2>5, <2>6
<1>11. \A r \in table : r.id \in first => r.id \in ToSet(all) \/ r \in found
  BY <1>7
<1>12. \A r \in found : r.id \in ToSet(all) \/ (full /\ \A k \in 1..Len(events) : Before(r, events[k]))
  <2> SUFFICES ASSUME NEW r \in found, r.id \notin ToSet(all)
               PROVE  full /\ \A k \in 1..Len(events) : Before(r, events[k])
    OBVIOUS
  <2>1. ~\E k \in 1..Len(events) : events[k] = r
    BY <1>7
  <2> QED BY <2>1, <1>1
<1>13. ASSUME full
       PROVE  LET c == [at |-> Last(events).at, id |-> Last(events).id] IN
              /\ c.at \in Int /\ c.id \in Int
              /\ \A r \in table : r.id \in ToSet(all) => ~Before(r, c)
              /\ \A r \in table : r.id \in first => r.id \in ToSet(all) \/ Before(r, c)
  <2> DEFINE l == events[Len(events)]
  <2>1. Len(events) \in 1..Len(events) /\ Last(events) = l
    BY <1>1, <1>3, <1>13 DEF Last
  <2>2. l \in table /\ Before(l, cursor) /\ l.at \in Int /\ l.id \in Int
    BY <2>1, <1>1, <1>4
  <2>3. ASSUME NEW r \in table, r.id \in ToSet(all) PROVE ~Before(r, l)
    <3>1. CASE r.id \in ToSet(pages)
      <4>1. ~Before(r, cursor)
        BY <3>1
      <4> QED BY <4>1, <2>2, <1>4 DEF Before
    <3>2. CASE r.id \notin ToSet(pages)
      <4>1. PICK k \in 1..Len(events) : r.id = events[k].id
        BY <2>3, <3>2, <1>7
      <4>2. events[k] \in table /\ r = events[k]
        BY <4>1, <1>1 DEF PageInv, RowsInv
      <4>3. k = Len(events) \/ Before(l, r)
        <5>1. k = Len(events) \/ k < Len(events)
          <6> HIDE DEF events, l
          <6>1. Len(events) \in Nat
            BY <1>1
          <6> QED BY <6>1
        <5>2. Before(events[Len(events)], events[k]) \/ k = Len(events)
          BY <5>1, <2>1, <1>1
        <5> QED BY <5>2, <4>2
      <4> QED BY <4>2, <4>3, <2>2, <1>4 DEF Before
    <3> QED BY <3>1, <3>2
  <2>4. ASSUME NEW r \in table, r.id \in first PROVE r.id \in ToSet(all) \/ Before(r, l)
    BY <2>1, <2>4, <1>11, <1>12
  <2> HIDE DEF l
  <2> QED BY <2>1, <2>2, <2>3, <2>4 DEF Before
<1>14. /\ DOMAIN listing' = {"accepts", "before", "pages", "first", "more"}
       /\ listing'.pages = all /\ listing'.first = first /\ listing'.accepts = accepts
       /\ (listing'.more <=> full)
       /\ listing'.before = IF full THEN [at |-> Last(events).at, id |-> Last(events).id] ELSE cursor
  BY <1>2 DEF all
<1> HIDE DEF full, found
<1>15. listing'.before.at \in Int /\ listing'.before.id \in Int
  BY <1>13, <1>14
<1>16. listing'.more => \A r \in table :
         /\ r.id \in ToSet(listing'.pages) => ~Before(r, listing'.before)
         /\ r.id \in listing'.first => /\ r.ev \in listing'.accepts
                                       /\ r.id \in ToSet(listing'.pages) \/ Before(r, listing'.before)
  BY <1>13, <1>14
<1>17. ~listing'.more => \A r \in table : r.id \in listing'.first => r.id \in ToSet(listing'.pages)
  BY <1>11, <1>12, <1>14
<1> QED BY <1>6, <1>10, <1>14, <1>15, <1>16, <1>17 DEF PagesInv, Before

(* At the start nothing was listed. *)
LEMMA PageStart == AuditInit => PageInv
<1> SUFFICES ASSUME AuditInit PROVE PageInv
  OBVIOUS
<1>1. Stamps /\ RowsInv
  BY AuditAssumption DEF AuditAssumption, AuditInit, Stamps, RowsInv
<1>2. PagesInv
  BY AuditAssumption DEF AuditAssumption, AuditInit, PagesInv, NotListing, NoCursor, IsInjective
<1> QED BY <1>1, <1>2 DEF PageInv

(* The two ways to ask for a page. *)
LEMMA ListKeeps == AuditInv /\ PageInv /\ List => PageInv'
<1> SUFFICES ASSUME AuditInv, PageInv, List PROVE PageInv'
  OBVIOUS
<1>1. UNCHANGED <<table, lastId>> /\ Stamps' /\ RowsInv'
  BY DEF List, PageInv, Stamps, RowsInv
<1>2. ASSUME NEW accepts, GetAudit(accepts, NoCursor, <<>>, {r.id : r \in {x \in table : x.ev \in accepts}})
      PROVE  PagesInv'
  <2> DEFINE first == {r.id : r \in {x \in table : x.ev \in accepts}}
  <2>1. first \in SUBSET (1..lastId)
    BY DEF PageInv, RowsInv
  <2>2. \A r \in table : r.id \in first => r.ev \in accepts
    BY DEF PageInv, RowsInv
  <2>3. \A r \in table : Before(r, NoCursor)
    BY AuditAssumption DEF AuditAssumption, AuditInv, AuditType, PageInv, RowsInv, Before, NoCursor
  <2>4. NoCursor.at \in Int /\ NoCursor.id \in Int
    BY AuditAssumption DEF AuditAssumption, NoCursor
  <2>5. <<>> \in Seq(1..lastId) /\ IsInjective(<<>>) /\ ToSet(<<>>) = {}
    BY DEF IsInjective, ToSet
  <2> HIDE DEF first
  <2> QED BY <1>1, <1>2, <2>1, <2>2, <2>3, <2>4, <2>5, PageJoins DEF first
<1>3. ASSUME listing.more, GetAudit(listing.accepts, listing.before, listing.pages, listing.first)
      PROVE  PagesInv'
  <2>1. /\ listing.before.at \in Int /\ listing.before.id \in Int
        /\ listing.pages \in Seq(1..lastId) /\ IsInjective(listing.pages)
        /\ listing.first \in SUBSET (1..lastId)
        /\ \A r \in table : r.id \in ToSet(listing.pages) => ~Before(r, listing.before)
        /\ \A r \in table : r.id \in listing.first =>
             r.ev \in listing.accepts /\ (r.id \in ToSet(listing.pages) \/ Before(r, listing.before))
    BY <1>3 DEF PageInv, PagesInv
  <2> QED BY <1>1, <1>3, <2>1, PageJoins
<1> QED BY <1>1, <1>2, <1>3 DEF List, PageInv

(* New rows have ids that no page has shown. *)
LEMMA WritePages == AuditInv /\ PageInv /\ WriteBatch => PageInv'
<1> SUFFICES ASSUME AuditInv, PageInv, WriteBatch PROVE PageInv'
  OBVIOUS
<1> DEFINE row(i) == [id |-> lastId + i, ev |-> batch[i].ev, at |-> batch[i].at]
<1>1. PICK committed \in BOOLEAN, acknowledged \in BOOLEAN : InsertAudit(committed, acknowledged)
  BY DEF WriteBatch
<1>2. DOMAIN batch = 1..Len(batch) /\ Len(batch) \in Nat /\ lastId \in Nat
      /\ \A i \in DOMAIN batch : batch[i] \in Item /\ batch[i].at <= MaxAt
  BY DEF AuditInv, AuditType, PageInv, Stamps
<1>3. \A i \in DOMAIN batch : row(i).id = lastId + i /\ row(i).at = batch[i].at
  OBVIOUS
<1>4. table' = (IF committed THEN table \cup {row(i) : i \in DOMAIN batch} ELSE table)
      /\ lastId' = (IF committed THEN lastId + Len(batch) ELSE lastId)
  BY <1>1 DEF InsertAudit
<1> HIDE DEF row
<1>5. \A r \in table' : r \in table \/ (committed /\ \E i \in DOMAIN batch : r = row(i))
  BY <1>4
<1>6. lastId' \in Nat /\ lastId <= lastId'
  BY <1>2, <1>4
<1>7. \A r \in table' \ table : r.id > lastId /\ r.id \in 1..lastId' /\ r.at <= MaxAt
  BY <1>2, <1>3, <1>4, <1>5
<1>8. RowsInv'
  <2>1. \A r \in table : r.id \in 1..lastId /\ r.at <= MaxAt
    BY DEF PageInv, RowsInv
  <2>2. \A r \in table' : r.id \in 1..lastId' /\ r.at <= MaxAt
    BY <2>1, <1>2, <1>6, <1>7
  <2>3. ASSUME NEW r \in table', NEW s \in table', r.id = s.id PROVE r = s
    <3>1. CASE r \in table /\ s \in table
      BY <2>3, <3>1 DEF PageInv, RowsInv
    <3>2. CASE r \in table /\ s \notin table
      BY <2>1, <2>3, <3>2, <1>2, <1>7
    <3>3. CASE r \notin table /\ s \in table
      BY <2>1, <2>3, <3>3, <1>2, <1>7
    <3>4. CASE r \notin table /\ s \notin table
      BY <2>3, <3>4, <1>2, <1>3, <1>5
    <3> QED BY <3>1, <3>2, <3>3, <3>4
  <2> QED BY <2>2, <2>3 DEF RowsInv
<1>9. Stamps'
  BY DEF WriteBatch, PageInv, Stamps
<1>10. listing' = listing
  BY DEF WriteBatch
<1>11. listing.pages \in Seq(1..lastId) /\ listing.first \subseteq 1..lastId
  BY DEF PageInv, PagesInv
<1>12. listing.pages \in Seq(1..lastId') /\ listing.first \subseteq 1..lastId'
         /\ \A id \in ToSet(listing.pages) : id \in 1..lastId
  <2>1. 1..lastId \subseteq 1..lastId'
    BY <1>2, <1>6
  <2> DEFINE Old == 1..lastId
             New == 1..lastId'
  <2> HIDE DEF Old, New
  <2>2. listing.pages \in Seq(Old) /\ Old \subseteq New
    BY <2>1, <1>11 DEF Old, New
  <2>3. listing.pages \in Seq(New)
    BY <2>2
  <2>4. \A i \in DOMAIN listing.pages : listing.pages[i] \in Old
    BY <2>2
  <2> QED BY <2>1, <2>3, <2>4, <1>11 DEF ToSet, Old, New
<1>13. \A r \in table' \ table : r.id \notin listing.first /\ r.id \notin ToSet(listing.pages)
  <2>1. \A r \in table' \ table : r.id \notin 1..lastId
    BY <1>2, <1>7
  <2> QED BY <2>1, <1>11, <1>12
<1>14. PagesInv'
  BY <1>10, <1>12, <1>13 DEF PageInv, PagesInv, Before
<1> QED BY <1>8, <1>9, <1>14 DEF PageInv

(* Rows that are pruned leave the others as they were. *)
LEMMA PrunePages == PageInv /\ PruneAudit => PageInv'
<1> SUFFICES ASSUME PageInv, PruneAudit PROVE PageInv'
  OBVIOUS
<1>1. table' \subseteq table /\ UNCHANGED <<at, stamped, auditQueue, batch, lastId, listing>>
  BY DEF PruneAudit
<1>2. Stamps' /\ RowsInv'
  BY <1>1 DEF PageInv, Stamps, RowsInv
<1>3. PagesInv'
  BY <1>1 DEF PageInv, PagesInv, Before
<1> QED BY <1>2, <1>3 DEF PageInv

(* Times stay within the clock on their way. *)
LEMMA StampsStep == AuditInv /\ Stamps /\ [AuditNext]_auditVars => Stamps'
<1> SUFFICES ASSUME AuditInv, Stamps, [AuditNext]_auditVars PROVE Stamps'
  OBVIOUS
<1>1. CASE Clock
  BY <1>1, AuditAssumption DEF AuditAssumption, Clock, Stamps, AuditInv, AuditType
<1>2. ASSUME NEW limit, Take(limit) PROVE Stamps'
  <2>1. auditQueue \in Seq(Item) /\ auditQueue # <<>> /\ batch \in Seq(Item)
    BY <1>2 DEF Take, AuditInv, AuditType
  <2>2. \A i \in DOMAIN auditQueue' : auditQueue'[i].at <= MaxAt
    <3>1. DOMAIN auditQueue' = 1..(Len(auditQueue) - 1) /\ Len(auditQueue) \in Nat
          /\ \A i \in DOMAIN auditQueue' : auditQueue'[i] = auditQueue[i + 1]
      BY <2>1, <1>2 DEF Take
    <3>2. \A i \in DOMAIN auditQueue' : i + 1 \in DOMAIN auditQueue
      BY <2>1, <3>1
    <3> QED BY <3>1, <3>2 DEF Stamps
  <2>3. \A i \in DOMAIN batch' : batch'[i].at <= MaxAt
    <3>1. Head(auditQueue) = auditQueue[1] /\ 1 \in DOMAIN auditQueue
      BY <2>1
    <3>2. DOMAIN batch' = 1..(Len(batch) + 1) /\ Len(batch) \in Nat /\ DOMAIN batch = 1..Len(batch)
          /\ batch'[Len(batch) + 1] = Head(auditQueue) /\ \A i \in DOMAIN batch : batch'[i] = batch[i]
      BY <2>1, <3>1, <1>2 DEF Take
    <3> QED BY <3>1, <3>2 DEF Stamps
  <2> QED BY <2>2, <2>3, <1>2 DEF Take, Stamps
<1>3. CASE WriteBatch
  BY <1>3 DEF WriteBatch, Stamps
<1>4. ASSUME NEW e \in Event, Stamp(e) PROVE Stamps'
  BY <1>4 DEF Stamp, Stamps
<1>5. ASSUME NEW e \in Event, Record(e) PROVE Stamps'
  <2> DEFINE x == [ev |-> e, at |-> stamped[e]]
  <2>1. \A d \in DOMAIN stamped' : stamped'[d] <= MaxAt
    BY <1>5 DEF Record, Stamps
  <2>2. x.at <= MaxAt
    BY <1>5 DEF Record, Stamps
  <2>3. auditQueue \in Seq(Item)
    BY DEF AuditInv, AuditType
  <2> HIDE DEF x
  <2>4. ASSUME auditQueue' = Append(auditQueue, x) PROVE \A i \in DOMAIN auditQueue' : auditQueue'[i].at <= MaxAt
    <3>1. DOMAIN auditQueue' = 1..(Len(auditQueue) + 1) /\ Len(auditQueue) \in Nat
          /\ DOMAIN auditQueue = 1..Len(auditQueue)
          /\ auditQueue'[Len(auditQueue) + 1] = x /\ \A i \in DOMAIN auditQueue : auditQueue'[i] = auditQueue[i]
      BY <2>3, <2>4
    <3> QED BY <3>1, <2>2 DEF Stamps
  <2>5. \A i \in DOMAIN auditQueue' : auditQueue'[i].at <= MaxAt
    BY <2>4, <1>5 DEF Record, Stamps, x
  <2> QED BY <2>1, <2>5, <1>5 DEF Record, Stamps
<1>6. CASE WriterEnds \/ PruneAudit \/ ShutdownAudit \/ AuditStopped \/ List \/ UNCHANGED auditVars
  BY <1>6 DEF WriterEnds, PruneAudit, ShutdownAudit, AuditStopped, List, auditVars, Stamps
<1> QED BY <1>1, <1>2, <1>3, <1>4, <1>5, <1>6 DEF AuditNext, TakeFirst, TakeMore

(* Every step keeps the pages. *)
LEMMA PageStep == AuditInv /\ PageInv /\ [AuditNext]_auditVars => PageInv'
<1> SUFFICES ASSUME AuditInv, PageInv, [AuditNext]_auditVars PROVE PageInv'
  OBVIOUS
<1>1. Stamps'
  BY StampsStep DEF PageInv
<1>2. ASSUME UNCHANGED <<table, lastId, listing>> PROVE PageInv'
  <2>1. RowsInv'
    BY <1>2 DEF PageInv, RowsInv
  <2>2. PagesInv'
    BY <1>2 DEF PageInv, PagesInv, Before
  <2> QED BY <1>1, <2>1, <2>2 DEF PageInv
<1> QED BY <1>2, ListKeeps, WritePages, PrunePages
        DEF AuditNext, Clock, TakeFirst, TakeMore, Take, WriterEnds, ShutdownAudit, AuditStopped, Stamp, Record,
            auditVars

(* Although events arrive and expire between the pages of a listing, what    *)
(* its first page found and is still there is on one page of it, and no row  *)
(* is shown twice (api/audit.go: getAudit; store/audit.go: ListAudit).       *)
THEOREM PagesComplete == AuditSpec => []PagedOnce
<1>1. AuditInv /\ PageInv => PagedOnce
  BY DEF PageInv, PagesInv, PagedOnce
<1>2. AuditSpec => [](AuditInv /\ PageInv)
  BY AuditStart, AuditStep, PageStart, PageStep, PTL DEF AuditSpec
<1> QED BY <1>1, <1>2, PTL

-----------------------------------------------------------------------------
(* NetFeeds: feeds, snapshots and the sets made of them.                     *)

(* What is kept of a feed: whether there is data, and how old it is.         *)
Snap == [has : BOOLEAN, age : Nat]

(* A pass that was found something to store holds it at the head of what is  *)
(* left.                                                                     *)
AboutToSave(f) == \E p \in Passes : pass[p].at = "saves" /\ Head(pass[p].left) = f

(* What each variable holds.                                                 *)
FeedType ==
  /\ config \subseteq Feed /\ putting \subseteq SUBSET Feed
  /\ snaps \in [Feed -> Snap]
  /\ DOMAIN setting = {"config", "snaps"}
  /\ setting.config \subseteq Feed /\ setting.snaps \in [Feed -> Snap]
  /\ DOMAIN pass = Passes /\ \A p \in Passes : DOMAIN pass[p] = {"at", "left", "failed"}
  /\ faults \in Nat

(* The sets are those of the snapshots; what the database has is in memory,  *)
(* if Load could read it or a fetch brought it since, and, as long as nothing*)
(* failed, what memory has is there or about to be.                          *)
Compiled == sets = compileSets(config, snaps)
StoredIsKnown == \A f \in Feed : setting.snaps[f].has => snaps[f].has \/ f \in unread
KnownIsStored == faults = 0 => \A f \in Feed : snaps[f].has => setting.snaps[f].has \/ AboutToSave(f)

(* The inductive invariant.                                                  *)
FeedInv == FeedType /\ Compiled /\ StoredIsKnown /\ KnownIsStored

(* All parts hold at the start. *)
LEMMA FeedStart == FeedInit => FeedInv
  BY FeedAssumption DEF FeedAssumption, FeedInit, FeedInv, FeedType, Compiled, StoredIsKnown,
     KnownIsStored, compileSets, Snap, Never, Stale, Resting, Passes

(* What a pass does that is not a fetch and not a save: one pass changes, to *)
(* one that is not about to save.                                            *)
LEMMA PassMoves ==
  ASSUME FeedInv, NEW p \in Passes, NEW next, Becomes(p, next),
         DOMAIN next = {"at", "left", "failed"}, next.at # "saves", pass[p].at # "saves",
         UNCHANGED <<config, snaps, sets, setting, putting, unread>>, faults' \in {faults, faults + 1}
  PROVE  FeedInv'
<1>1. DOMAIN pass' = Passes /\ pass'[p] = next /\ \A q \in Passes \ {p} : pass'[q] = pass[q]
  BY DEF Becomes, FeedInv, FeedType
<1>2. \A f : AboutToSave(f) => AboutToSave(f)'
  BY <1>1 DEF AboutToSave
<1>3. FeedType'
  BY <1>1 DEF FeedInv, FeedType
<1>4. Compiled' /\ StoredIsKnown'
  BY DEF FeedInv, Compiled, StoredIsKnown, compileSets
<1>5. KnownIsStored'
  BY <1>2 DEF FeedInv, KnownIsStored, FeedType
<1> QED BY <1>3, <1>4, <1>5 DEF FeedInv

(* A tick changes ages only. *)
LEMMA TickKeeps == FeedInv /\ FeedTick => FeedInv'
<1> SUFFICES ASSUME FeedInv, FeedTick PROVE FeedInv'
  OBVIOUS
<1>1. snaps' \in [Feed -> Snap] /\ \A f \in Feed : snaps'[f].has = snaps[f].has
  BY DEF FeedInv, FeedType, FeedTick, Snap, Stale
<1>2. UNCHANGED <<config, sets, setting, pass, putting, unread, faults>>
  BY DEF FeedTick
<1>3. FeedType'
  BY <1>1, <1>2 DEF FeedInv, FeedType
<1>4. Compiled'
  BY <1>1, <1>2 DEF FeedInv, FeedType, Compiled, compileSets
<1>5. StoredIsKnown'
  BY <1>1, <1>2 DEF FeedInv, StoredIsKnown
<1>6. KnownIsStored'
  BY <1>1, <1>2 DEF FeedInv, KnownIsStored, AboutToSave
<1> QED BY <1>3, <1>4, <1>5, <1>6 DEF FeedInv

(* A fetch keeps what is known, and a good one is what is to be saved next.  *)
LEMMA FetchKeeps ==
  ASSUME FeedInv, NEW p \in Passes, NEW ok \in BOOLEAN, Fetch(p, ok) PROVE FeedInv'
<1>1. snaps' \in [Feed -> Snap]
      /\ \A f \in Feed : snaps'[f] = IF f = Head(pass[p].left) THEN Fetched(snaps[f], ok) ELSE snaps[f]
  BY DEF FeedInv, FeedType, Fetch, Snap, Fetched
<1>2. DOMAIN pass' = Passes /\ \A q \in Passes : DOMAIN pass'[q] = {"at", "left", "failed"}
  BY DEF FeedInv, FeedType, Fetch, Becomes
<1>3. pass'[p].at = "saves" /\ pass'[p].left = pass[p].left /\ \A q \in Passes \ {p} : pass'[q] = pass[q]
  BY DEF FeedInv, FeedType, Fetch, Becomes
<1>4. \A f : AboutToSave(f) => AboutToSave(f)'
  BY <1>3 DEF AboutToSave, Fetch
<1>5. faults' \in Nat /\ (faults' = 0 => faults = 0)
  BY DEF FeedInv, FeedType, Fetch, Fault
<1>6. FeedType'
  BY <1>1, <1>2, <1>5 DEF FeedInv, FeedType, Fetch
<1>7. Compiled'
  BY DEF Compiled, Fetch, compileSets
<1>8. StoredIsKnown'
  <2> SUFFICES ASSUME NEW f \in Feed, setting'.snaps[f].has PROVE snaps'[f].has \/ f \in unread'
    BY DEF StoredIsKnown
  <2>1. snaps[f].has \/ f \in unread
    BY DEF FeedInv, StoredIsKnown, Fetch
  <2>2. unread' = IF ok THEN unread \ {Head(pass[p].left)} ELSE unread
    BY DEF Fetch
  <2>3. CASE f = Head(pass[p].left) /\ ok
    BY <2>3, <1>1 DEF Fetched
  <2>4. CASE f # Head(pass[p].left) \/ ~ok
    BY <2>1, <2>2, <2>4, <1>1 DEF Fetched
  <2> QED BY <2>3, <2>4
<1>9. KnownIsStored'
  <2> SUFFICES ASSUME faults' = 0, NEW f \in Feed, snaps'[f].has
               PROVE  setting'.snaps[f].has \/ AboutToSave(f)'
    BY DEF KnownIsStored
  <2>1. CASE f = Head(pass[p].left)
    BY <2>1, <1>3 DEF AboutToSave
  <2>2. CASE f # Head(pass[p].left)
    BY <2>2, <1>1, <1>4, <1>5 DEF FeedInv, KnownIsStored, Fetch
  <2> QED BY <2>1, <2>2
<1> QED BY <1>6, <1>7, <1>8, <1>9 DEF FeedInv

(* A save that succeeds stores what is known, one that fails is a fault.     *)
LEMMA SaveKeeps ==
  ASSUME FeedInv, NEW p \in Passes, NEW ok \in BOOLEAN, SaveFeed(p, ok) PROVE FeedInv'
<1> DEFINE f == Head(pass[p].left)
<1>1. DOMAIN pass' = Passes /\ \A q \in Passes : DOMAIN pass'[q] = {"at", "left", "failed"}
  BY DEF FeedInv, FeedType, SaveFeed, Becomes
<1>2. \A q \in Passes \ {p} : pass'[q] = pass[q]
  BY DEF FeedInv, FeedType, SaveFeed, Becomes
<1>3. \A g : g # f /\ AboutToSave(g) => AboutToSave(g)'
  BY <1>2 DEF AboutToSave
<1>4. DOMAIN setting' = {"config", "snaps"} /\ setting'.config = setting.config
      /\ setting'.snaps \in [Feed -> Snap]
      /\ \A g \in Feed : setting'.snaps[g] = IF ok /\ g = f THEN snaps[g] ELSE setting.snaps[g]
  BY DEF FeedInv, FeedType, SaveFeed
<1>5. faults' \in Nat /\ (faults' = 0 => faults = 0 /\ ok)
  BY DEF FeedInv, FeedType, SaveFeed, Fault
<1>6. FeedType'
  BY <1>1, <1>4, <1>5 DEF FeedInv, FeedType, SaveFeed
<1>7. Compiled'
  BY DEF FeedInv, Compiled, SaveFeed, compileSets
<1>8. StoredIsKnown'
  BY <1>4 DEF FeedInv, StoredIsKnown, SaveFeed
<1>9. KnownIsStored'
  BY <1>3, <1>4, <1>5 DEF FeedInv, KnownIsStored, SaveFeed
<1> QED BY <1>6, <1>7, <1>8, <1>9 DEF FeedInv

(* A restart knows exactly what was stored and read. *)
LEMMA RestartKeeps == FeedInv /\ RestartFeeds => FeedInv'
<1> SUFFICES ASSUME FeedInv, RestartFeeds PROVE FeedInv'
  OBVIOUS
<1>1. PICK read \in BOOLEAN, lost \in SUBSET Feed :
        /\ IF read /\ lost = {} THEN UNCHANGED faults ELSE Fault
        /\ config' = LoadConfig(read)
        /\ \/ snaps' = LoadSnaps(lost)
           \/ snaps' = [f \in Feed |-> [LoadSnaps(lost)[f] EXCEPT !.age = Stale]]
        /\ unread' = {f \in lost : setting.snaps[f].has}
  BY DEF RestartFeeds
<1>2. snaps' \in [Feed -> Snap] /\ \A f \in Feed : snaps'[f].has = (f \notin lost /\ setting.snaps[f].has)
  <2>1. Stale \in Nat
    BY FeedAssumption DEF FeedAssumption, Stale
  <2>2. \A f \in Feed : /\ LoadSnaps(lost)[f] \in Snap
                       /\ LoadSnaps(lost)[f].has = (f \notin lost /\ setting.snaps[f].has)
    BY <2>1 DEF LoadSnaps, Never, Snap, FeedInv, FeedType
  <2>3. LoadSnaps(lost) \in [Feed -> Snap]
    BY <2>2 DEF LoadSnaps
  <2> QED BY <1>1, <2>1, <2>2, <2>3 DEF Snap
<1>3. config' \subseteq Feed /\ faults' \in Nat /\ (faults' = 0 => faults = 0 /\ lost = {})
  BY <1>1 DEF LoadConfig, Fault, FeedInv, FeedType
<1>4. setting' = setting /\ putting' = {} /\ pass' = [p \in Passes |-> Resting]
  BY DEF RestartFeeds
<1>5. FeedType'
  BY <1>2, <1>3, <1>4 DEF FeedInv, FeedType, Resting
<1>6. Compiled'
  BY DEF Compiled, RestartFeeds, compileSets
<1>7. StoredIsKnown'
  BY <1>1, <1>2, <1>4 DEF StoredIsKnown
<1>8. KnownIsStored'
  BY <1>2, <1>3, <1>4 DEF KnownIsStored
<1> QED BY <1>5, <1>6, <1>7, <1>8 DEF FeedInv

(* The configuration goes to the settings, and from there in force. *)
LEMMA ConfigKeeps ==
  FeedInv /\ (ApplyConfig \/ \E cfg \in SUBSET Feed : PutConfig(cfg)) => FeedInv'
<1>1. ASSUME FeedInv, ApplyConfig PROVE FeedInv'
  <2>1. config' \in putting
    BY <1>1 DEF ApplyConfig
  <2> QED BY <2>1, <1>1 DEF FeedInv, FeedType, ApplyConfig, Compiled, StoredIsKnown, KnownIsStored,
             compileSets, AboutToSave
<1>2. ASSUME FeedInv, NEW cfg \in SUBSET Feed, PutConfig(cfg) PROVE FeedInv'
  <2>1. DOMAIN setting' = {"config", "snaps"} /\ setting'.config = cfg /\ setting'.snaps = setting.snaps
    BY <1>2 DEF PutConfig, FeedInv, FeedType
  <2> QED BY <2>1, <1>2 DEF FeedInv, FeedType, PutConfig, Compiled, StoredIsKnown, KnownIsStored,
             compileSets, AboutToSave
<1> QED BY <1>1, <1>2

(* Every step of the feeds keeps all parts. *)
LEMMA FeedStep == FeedInv /\ [FeedNext]_feedVars => FeedInv'
<1> SUFFICES ASSUME FeedInv, [FeedNext]_feedVars PROVE FeedInv'
  OBVIOUS
<1> USE DEF Passes
<1>1. CASE RefreshStale
  <2>1. pass["run"].at # "saves"
    BY <1>1 DEF RefreshStale, Resting
  <2> QED BY <2>1, <1>1, PassMoves DEF RefreshStale
<1>2. ASSUME NEW force \in BOOLEAN, RefreshInBackground(force) PROVE FeedInv'
  <2>1. pass["api"].at # "saves"
    BY <1>2 DEF RefreshInBackground, Resting
  <2> QED BY <2>1, <1>2, PassMoves DEF RefreshInBackground
<1>3. CASE TimesOut
  BY <1>3, PassMoves DEF TimesOut, Resting, Fault
<1>4. ASSUME NEW p \in Passes, LockRefresh(p) PROVE FeedInv'
  <2> DEFINE next == [pass[p] EXCEPT !.at = "fetches"]
  <2>1. DOMAIN next = {"at", "left", "failed"} /\ next.at = "fetches"
    BY DEF FeedInv, FeedType
  <2> QED BY <2>1, <1>4, PassMoves DEF LockRefresh
<1>5. ASSUME NEW p \in Passes, EndPass(p) PROVE FeedInv'
  BY <1>5, PassMoves DEF EndPass, Resting
<1>6. CASE UNCHANGED feedVars
  BY <1>6 DEF feedVars, FeedInv, FeedType, Compiled, StoredIsKnown, KnownIsStored, compileSets, AboutToSave
<1> QED BY <1>1, <1>2, <1>3, <1>4, <1>5, <1>6, TickKeeps, FetchKeeps, SaveKeeps, RestartKeeps, ConfigKeeps
        DEF FeedNext

(* The parts say that the last good snapshot counts. *)
LEMMA FeedSafe == FeedInv => LastGoodKept
  BY Zenon DEF FeedInv, FeedType, Compiled, StoredIsKnown, KnownIsStored, compileSets, AboutToSave, LastGoodKept,
     Passes

(* Through failures, passes that are cut short, edits and restarts, an       *)
(* enabled feed that has stored prefixes counts, but where Load could not    *)
(* read them and no fetch has succeeded since (netfeeds.go: refresh, Load,   *)
(* SetConfig, compileLocked).                                                *)
THEOREM SnapshotsKept == FeedSpec => []LastGoodKept
<1>1. FeedSpec => []FeedInv
  BY FeedStart, FeedStep, PTL DEF FeedSpec
<1> QED BY <1>1, FeedSafe, PTL

-----------------------------------------------------------------------------
(* Listing: pages of entries.                                                *)

(* The client holds ids that were drawn, in order; what matched all along    *)
(* between the first and the last of them is among them.                     *)
Ascending(s) == \A j, k \in 1..Len(s) : j < k => s[j] < s[k]
Held_(i) == \E k \in 1..Len(shown) : shown[k] = i
ListType ==
  /\ drawn \in Nat /\ drawn <= MaxId
  /\ DOMAIN stored \subseteq 1..drawn /\ \A i \in DOMAIN stored : stored[i] \in BOOLEAN
  /\ shown \in Seq(1..drawn)
NoGaps ==
  \A i \in DOMAIN stored :
    (stored[i] /\ i \notin triaged /\ shown # <<>> /\ shown[1] <= i /\ i <= shown[Len(shown)]) => Held_(i)
ListInv == ListType /\ Ascending(shown) /\ NoGaps

(* A list turned round. *)
LEMMA Reversed ==
  ASSUME NEW R, NEW s \in Seq(R)
  PROVE  /\ Reverse(s) \in Seq(R) /\ Len(Reverse(s)) = Len(s) /\ DOMAIN Reverse(s) = 1..Len(s)
         /\ \A k \in 1..Len(s) : Reverse(s)[k] = s[(Len(s) - k) + 1]
<1> DEFINE n == Len(s)
           F == [k \in 1..n |-> s[(n - k) + 1]]
<1>1. n \in Nat /\ \A k \in 1..n : (n - k) + 1 \in 1..n
  OBVIOUS
<1>2. \A k \in 1..n : s[k] \in R
  OBVIOUS
<1> HIDE DEF n
<1>3. F \in [1..n -> R]
  BY <1>1, <1>2
<1>4. F \in Seq(R) /\ Len(F) = n /\ DOMAIN F = 1..n
  BY <1>1, <1>3, TupleSeq
<1>5. Reverse(s) = F
  BY DEF Reverse, n
<1> QED BY <1>4, <1>5 DEF n

(* The entries between two ids are finitely many. *)
LEMMA FewWithin ==
  ASSUME ListType, NEW before \in Int, NEW after \in Int
  PROVE  /\ IsFiniteSet(Within_(before, after)) /\ Cardinality(Within_(before, after)) \in Nat
         /\ \A i \in Within_(before, after) : i \in 1..drawn /\ i \in Int
<1>1. Within_(before, after) \subseteq 1..drawn
  BY DEF ListType, Within_
<1>2. IsFiniteSet(1..drawn)
  BY FS_Interval DEF ListType
<1> QED BY <1>1, <1>2, FS_Subset, FS_CardinalityType DEF ListType

(* A page holds entries between the two ids, in one direction, and what it   *)
(* leaves out lies beyond its last one: newest first without a lower id,     *)
(* oldest first with one.                                                    *)
LEMMA Page ==
  ASSUME ListType, NEW before \in Int, NEW after \in Nat, NEW limit \in Nat \ {0}
  PROVE  LET ids == Within_(before, after)
             l   == ListEntries(before, after, limit)
         IN
         /\ l \in Seq(ids) /\ Len(l) \in Nat /\ (ids # {} => Len(l) > 0)
         /\ \A k \in 1..Len(l) : l[k] \in ids
         /\ after = 0 => /\ \A j, k \in 1..Len(l) : j < k => l[j] > l[k]
                         /\ \A x \in ids : (\E k \in 1..Len(l) : l[k] = x) \/ (\A k \in 1..Len(l) : x < l[k])
         /\ after > 0 => /\ \A j, k \in 1..Len(l) : j < k => l[j] < l[k]
                         /\ \A x \in ids : (\E k \in 1..Len(l) : l[k] = x) \/ (\A k \in 1..Len(l) : x > l[k])
<1> DEFINE ids  == Within_(before, after)
           order == {p \in ids \X ids : p[1] > p[2]}
           desc == Sorted(ids, order)
           n    == Cardinality(ids)
           m    == IF n < limit THEN n ELSE limit
           list == IF after > 0 THEN Reverse(desc) ELSE desc
           l    == SubSeq(list, 1, m)
<1>1. IsFiniteSet(ids) /\ n \in Nat /\ \A i \in ids : i \in Int
  BY FewWithin
<1> HIDE DEF ids
<1>2. \A x, y \in ids : (<<x, y>> \in order) <=> x > y
  OBVIOUS
<1>3. IsTotal(ids, order)
  <2> HIDE DEF order
  <2> QED BY <1>1, <1>2 DEF IsTotal
<1> HIDE DEF order
<1>4. /\ desc \in Seq(ids) /\ Len(desc) = n /\ DOMAIN desc = 1..n
      /\ \A k \in 1..n : desc[k] \in ids
      /\ \A x \in ids : \E k \in 1..n : desc[k] = x
      /\ \A j, k \in 1..n : j < k => <<desc[j], desc[k]>> \in order
  BY <1>1, <1>3, SortedLists
<1> HIDE DEF desc
<1>5. \A j, k \in 1..n : j < k => desc[j] > desc[k]
  BY <1>2, <1>4
<1>6. list \in Seq(ids) /\ Len(list) = n
  BY <1>4, Reversed
<1>7. ListEntries(before, after, limit) = l
  <2>1. ListEntries(before, after, limit)
          = SubSeq(list, 1, IF Len(list) < limit THEN Len(list) ELSE limit)
    BY DEF ListEntries, ids, desc, order
  <2> QED BY <2>1, <1>6
<1>8. m \in Nat /\ m <= n /\ (n > 0 => m > 0)
  BY <1>1
<1>9. n = 0 => ids = {}
  BY <1>1, FS_EmptySet DEF n
<1> HIDE DEF n, m
<1>10. l \in Seq(ids) /\ Len(l) = m /\ \A k \in 1..m : l[k] = list[k]
  <2> HIDE DEF list
  <2> QED BY <1>6, <1>8, Beginning
<1> HIDE DEF l
<1>11. \A k \in 1..m : k \in 1..n
  BY <1>1, <1>8
<1>12. ASSUME after = 0
       PROVE  /\ \A k \in 1..m : l[k] \in ids
              /\ \A j, k \in 1..m : j < k => l[j] > l[k]
              /\ \A x \in ids : (\E k \in 1..m : l[k] = x) \/ (\A k \in 1..m : x < l[k])
  <2>1. \A k \in 1..m : l[k] = desc[k]
    BY <1>10, <1>12
  <2>2. ASSUME NEW x \in ids PROVE (\E k \in 1..m : l[k] = x) \/ (\A k \in 1..m : x < l[k])
    <3>1. PICK i \in 1..n : desc[i] = x
      BY <1>4
    <3>2. CASE i \in 1..m
      BY <3>1, <3>2, <2>1
    <3>3. CASE i \notin 1..m
      <4>1. \A k \in 1..m : k < i
        BY <3>3, <1>1, <1>8
      <4> QED BY <4>1, <3>1, <2>1, <1>5, <1>11
    <3> QED BY <3>2, <3>3
  <2> QED BY <2>1, <2>2, <1>4, <1>5, <1>11
<1>13. ASSUME after > 0
       PROVE  /\ \A k \in 1..m : l[k] \in ids
              /\ \A j, k \in 1..m : j < k => l[j] < l[k]
              /\ \A x \in ids : (\E k \in 1..m : l[k] = x) \/ (\A k \in 1..m : x > l[k])
  <2>1. \A k \in 1..n : list[k] = desc[(n - k) + 1] /\ (n - k) + 1 \in 1..n
    <3>1. list = Reverse(desc)
      BY <1>13
    <3>2. \A k \in 1..n : (n - k) + 1 \in 1..n
      BY <1>1
    <3> HIDE DEF list
    <3> QED BY <3>1, <3>2, <1>4, Reversed
  <2>2. \A k \in 1..m : l[k] = desc[(n - k) + 1] /\ (n - k) + 1 \in 1..n
    BY <2>1, <1>10, <1>11
  <2>3. ASSUME NEW j \in 1..m, NEW k \in 1..m, j < k PROVE l[j] < l[k]
    <3>1. (n - k) + 1 < (n - j) + 1
      BY <2>3, <1>1, <1>8
    <3>2. desc[(n - k) + 1] > desc[(n - j) + 1]
      BY <3>1, <2>2, <1>5
    <3>3. l[j] \in Int /\ l[k] \in Int
      BY <2>2, <1>1, <1>4
    <3> QED BY <3>2, <3>3, <2>2
  <2>4. ASSUME NEW x \in ids PROVE (\E k \in 1..m : l[k] = x) \/ (\A k \in 1..m : x > l[k])
    <3>1. PICK i \in 1..n : desc[i] = x
      BY <1>4
    <3>2. CASE (n - i) + 1 \in 1..m
      <4>1. (n - ((n - i) + 1)) + 1 = i
        BY <1>1
      <4> QED BY <4>1, <3>1, <3>2, <2>2
    <3>3. CASE (n - i) + 1 \notin 1..m
      <4>1. \A k \in 1..m : i < (n - k) + 1
        BY <3>3, <1>1, <1>8
      <4> QED BY <4>1, <3>1, <2>2, <1>5
    <3> QED BY <3>2, <3>3
  <2> QED BY <2>2, <2>3, <2>4, <1>4
<1>14. after = 0 \/ after > 0
  OBVIOUS
<1>15. \A k \in 1..m : l[k] \in ids
  BY <1>12, <1>13, <1>14
<1>16. ids # {} => m > 0
  BY <1>1, <1>8, <1>9
<1> QED BY <1>7, <1>8, <1>10, <1>12, <1>13, <1>15, <1>16 DEF ids

(* Two pieces in order, all of the first before all of the second.           *)
LEMMA Joined ==
  ASSUME NEW R \in SUBSET Int, NEW s \in Seq(R), NEW t \in Seq(R), Ascending(s), Ascending(t),
         \A j \in 1..Len(s), k \in 1..Len(t) : s[j] < t[k]
  PROVE  /\ s \o t \in Seq(R) /\ Len(s \o t) = Len(s) + Len(t) /\ Ascending(s \o t)
         /\ \A k \in 1..Len(s) : (s \o t)[k] = s[k]
         /\ \A k \in 1..Len(t) : (s \o t)[Len(s) + k] = t[k]
<1> DEFINE u == s \o t
<1>1. /\ u \in Seq(R) /\ Len(u) = Len(s) + Len(t) /\ Len(s) \in Nat /\ Len(t) \in Nat
      /\ \A k \in 1..Len(s) : u[k] = s[k]
      /\ \A k \in 1..Len(t) : u[Len(s) + k] = t[k]
  OBVIOUS
<1> HIDE DEF u
<1>2. \A k \in 1..Len(u) : \/ k \in 1..Len(s) /\ u[k] = s[k]
                           \/ k - Len(s) \in 1..Len(t) /\ u[k] = t[k - Len(s)] /\ k > Len(s)
  <2> SUFFICES ASSUME NEW k \in 1..Len(u), k \notin 1..Len(s)
               PROVE  k - Len(s) \in 1..Len(t) /\ u[k] = t[k - Len(s)] /\ k > Len(s)
    BY <1>1
  <2>1. k - Len(s) \in 1..Len(t) /\ k = Len(s) + (k - Len(s)) /\ k > Len(s)
    BY <1>1
  <2> QED BY <2>1, <1>1
<1>3. ASSUME NEW j \in 1..Len(u), NEW k \in 1..Len(u), j < k PROVE u[j] < u[k]
  <2>1. CASE j \in 1..Len(s) /\ k \in 1..Len(s)
    BY <1>1, <1>3, <2>1 DEF Ascending
  <2>2. CASE j \in 1..Len(s) /\ k \notin 1..Len(s)
    BY <1>1, <1>2, <2>2
  <2>3. CASE j \notin 1..Len(s) /\ k \notin 1..Len(s)
    <3>1. j - Len(s) \in 1..Len(t) /\ k - Len(s) \in 1..Len(t) /\ j - Len(s) < k - Len(s)
      BY <1>1, <1>2, <1>3, <2>3
    <3> QED BY <3>1, <1>2, <2>3 DEF Ascending
  <2>4. CASE j \notin 1..Len(s) /\ k \in 1..Len(s)
    BY <1>1, <1>2, <1>3, <2>4
  <2> QED BY <2>1, <2>2, <2>3, <2>4
<1> QED BY <1>1, <1>3 DEF Ascending, u

(* Nothing is stored and nothing shown at the start. *)
LEMMA ListStart == ListInit => ListInv
  BY ListingAssumption
     DEF ListingAssumption, ListInit, ListInv, ListType, Ascending, NoGaps

(* New entries have ids after all that were drawn. *)
LEMMA StoreKeeps == ListInv /\ StoreBatch => ListInv'
<1> SUFFICES ASSUME ListInv, StoreBatch PROVE ListInv'
  OBVIOUS
<1>1. PICK ids \in SUBSET ((drawn + 1)..MaxId) :
        /\ ids # {} /\ ids = (drawn + 1)..(drawn + Cardinality(ids))
        /\ drawn' = drawn + Cardinality(ids)
        /\ \/ stored' \in {[i \in DOMAIN stored \cup ids |-> IF i \in ids THEN f[i] ELSE stored[i]] :
                             f \in [ids -> BOOLEAN]}
           \/ UNCHANGED stored
        /\ UNCHANGED <<triaged, shown>>
  BY DEF StoreBatch
<1>2. drawn \in Nat /\ drawn <= MaxId /\ MaxId \in Nat /\ DOMAIN stored \subseteq 1..drawn
      /\ (\A i \in DOMAIN stored : stored[i] \in BOOLEAN) /\ shown \in Seq(1..drawn)
  BY ListingAssumption DEF ListingAssumption, ListInv, ListType
<1>3. IsFiniteSet(ids) /\ Cardinality(ids) \in Nat
  <2>1. IsFiniteSet((drawn + 1)..MaxId)
    BY <1>2, FS_Interval
  <2> QED BY <2>1, FS_Subset, FS_CardinalityType
<1>4. drawn' \in Nat /\ drawn <= drawn' /\ ids \subseteq 1..drawn' /\ drawn' <= MaxId
  <2>1. Cardinality(ids) # 0
    BY <1>1, <1>3, FS_EmptySet
  <2>2. drawn + Cardinality(ids) \in ids
    BY <1>1, <1>2, <1>3, <2>1
  <2> QED BY <1>1, <1>2, <1>3, <2>2
<1>5. \A i \in ids : i \in Int /\ i > drawn
  BY <1>1, <1>2
<1>6. /\ \A i \in DOMAIN stored' : i \in DOMAIN stored \/ i \in ids
      /\ \A i \in DOMAIN stored' : stored'[i] \in BOOLEAN
      /\ \A i \in DOMAIN stored' : i \in DOMAIN stored => stored'[i] = stored[i]
  <2>1. CASE UNCHANGED stored
    BY <1>2, <2>1
  <2>2. CASE stored' \in {[i \in DOMAIN stored \cup ids |-> IF i \in ids THEN f[i] ELSE stored[i]] :
                             f \in [ids -> BOOLEAN]}
    <3>1. PICK f \in [ids -> BOOLEAN] :
            stored' = [i \in DOMAIN stored \cup ids |-> IF i \in ids THEN f[i] ELSE stored[i]]
      BY <2>2
    <3>2. DOMAIN stored' = DOMAIN stored \cup ids /\ \A i \in ids : i \notin DOMAIN stored
      BY <3>1, <1>2, <1>5
    <3>3. \A i \in DOMAIN stored : stored'[i] = stored[i]
      BY <3>1, <3>2
    <3>4. \A i \in ids : stored'[i] = f[i] /\ f[i] \in BOOLEAN
      BY <3>1, <3>2
    <3>5. \A i \in ids : stored'[i] \in BOOLEAN
      BY <3>4, Zenon
    <3>6. \A i \in DOMAIN stored : stored'[i] \in BOOLEAN
      BY <3>3, <1>2, Zenon
    <3> QED BY <3>2, <3>3, <3>5, <3>6, Zenon
  <2> QED BY <1>1, <2>1, <2>2
<1>7. DOMAIN stored' \subseteq 1..drawn'
  <2>1. \A i \in DOMAIN stored : i \in 1..drawn'
    BY <1>2, <1>4
  <2>2. \A i \in DOMAIN stored' : i \in 1..drawn'
    BY <2>1, <1>4, <1>6, Zenon
  <2> QED BY <2>2
<1>8. shown' \in Seq(1..drawn')
  <2> DEFINE Old == 1..drawn
             New == 1..drawn'
  <2>1. Old \subseteq New
    BY <1>2, <1>4
  <2>2. shown \in Seq(Old)
    BY <1>2
  <2> HIDE DEF Old, New
  <2>3. shown \in Seq(New)
    BY <2>1, <2>2
  <2> QED BY <2>3, <1>1 DEF New
<1>9. ListType'
  BY <1>4, <1>6, <1>7, <1>8 DEF ListType
<1>10. shown # <<>> => shown[Len(shown)] \in 1..drawn
  BY <1>2
<1>11. NoGaps'
  <2> SUFFICES ASSUME NEW i \in DOMAIN stored', stored'[i], i \notin triaged', shown' # <<>>,
                      shown'[1] <= i, i <= shown'[Len(shown')]
               PROVE  Held_(i)'
    BY Zenon DEF NoGaps
  <2>1. i \in DOMAIN stored
    BY <1>1, <1>2, <1>5, <1>6, <1>10
  <2>2. stored[i]
    BY <2>1, <1>6, Zenon
  <2>3. Held_(i)
    BY <2>1, <2>2, <1>1 DEF ListInv, NoGaps
  <2> QED BY <2>3, <1>1 DEF Held_
<1> QED BY <1>1, <1>9, <1>11 DEF ListInv, Ascending

(* Triage names the entry whose flag it turns. *)
LEMMA TriageKeeps == ASSUME ListInv, NEW i \in DOMAIN stored, TriageEntry(i) PROVE ListInv'
<1>1. /\ stored' = [stored EXCEPT ![i] = ~@] /\ triaged' = triaged \cup {i}
      /\ UNCHANGED <<drawn, shown>>
  BY DEF TriageEntry
<1>2. DOMAIN stored' = DOMAIN stored /\ \A j \in DOMAIN stored : j # i => stored'[j] = stored[j]
  BY <1>1
<1>3. \A j \in DOMAIN stored' : stored'[j] \in BOOLEAN
  <2>1. stored'[i] = ~stored[i]
    BY <1>1, Zenon
  <2>2. stored'[i] \in BOOLEAN
    BY <2>1, Zenon
  <2>3. \A j \in DOMAIN stored : stored[j] \in BOOLEAN
    BY DEF ListInv, ListType
  <2> QED BY <2>2, <2>3, <1>2, Zenon
<1>4. NoGaps'
  <2> SUFFICES ASSUME NEW j \in DOMAIN stored', stored'[j], j \notin triaged', shown' # <<>>,
                      shown'[1] <= j, j <= shown'[Len(shown')]
               PROVE  Held_(j)'
    BY Zenon DEF NoGaps
  <2>1. j \in DOMAIN stored /\ j # i /\ j \notin triaged
    BY <1>1, <1>2
  <2>2. stored[j]
    BY <2>1, <1>2, Zenon
  <2>3. Held_(j)
    BY <2>1, <2>2, <1>1 DEF ListInv, NoGaps
  <2> QED BY <2>3, <1>1 DEF Held_
<1> QED BY <1>1, <1>2, <1>3, <1>4 DEF ListInv, ListType, Ascending

(* What a page of ids beyond the two ends gives.                             *)
LEMMA Listed ==
  ASSUME ListInv, NEW before \in Int, NEW after \in Nat
  PROVE  LET l == ListEntries(before, after, ListLimit)
             p == IF after = 0 THEN Reverse(l) ELSE l
         IN
         /\ p \in Seq(1..drawn) /\ Len(p) \in Nat /\ Ascending(p)
         /\ \A k \in 1..Len(p) : after < p[k] /\ p[k] < before
         /\ \A i \in Within_(before, after) :
              /\ p # <<>>
              /\ after = 0 /\ p[1] <= i => \E k \in 1..Len(p) : p[k] = i
              /\ after > 0 /\ i <= p[Len(p)] => \E k \in 1..Len(p) : p[k] = i
<1> DEFINE ids == Within_(before, after)
           l   == ListEntries(before, after, ListLimit)
           p   == IF after = 0 THEN Reverse(l) ELSE l
<1>1. /\ l \in Seq(ids) /\ Len(l) \in Nat /\ (ids # {} => Len(l) > 0)
      /\ \A k \in 1..Len(l) : l[k] \in ids
      /\ after = 0 => /\ \A j, k \in 1..Len(l) : j < k => l[j] > l[k]
                      /\ \A x \in ids : (\E k \in 1..Len(l) : l[k] = x) \/ (\A k \in 1..Len(l) : x < l[k])
      /\ after > 0 => /\ \A j, k \in 1..Len(l) : j < k => l[j] < l[k]
                      /\ \A x \in ids : (\E k \in 1..Len(l) : l[k] = x) \/ (\A k \in 1..Len(l) : x > l[k])
  BY Page, ListingAssumption DEF ListingAssumption, ListInv
<1>2. \A i \in ids : i \in 1..drawn /\ i \in Int /\ after < i /\ i < before
  <2>1. \A i \in ids : i \in 1..drawn /\ i \in Int
    BY FewWithin DEF ListInv
  <2> QED BY <2>1 DEF Within_
<1> HIDE DEF ids, l
<1>3. CASE after = 0
  <2>1. /\ p \in Seq(ids) /\ Len(p) = Len(l)
        /\ \A k \in 1..Len(l) : p[k] = l[(Len(l) - k) + 1] /\ (Len(l) - k) + 1 \in 1..Len(l)
    <3>1. p = Reverse(l)
      BY <1>3
    <3>2. \A k \in 1..Len(l) : (Len(l) - k) + 1 \in 1..Len(l)
      BY <1>1
    <3> HIDE DEF p
    <3> QED BY <3>1, <3>2, <1>1, Reversed
  <2> HIDE DEF p
  <2>2. \A k \in 1..Len(p) : p[k] \in ids
    BY <1>1, <2>1
  <2>3. ASSUME NEW j \in 1..Len(p), NEW k \in 1..Len(p), j < k PROVE p[j] < p[k]
    <3>1. (Len(l) - k) + 1 < (Len(l) - j) + 1
      BY <1>1, <2>1, <2>3
    <3>2. l[(Len(l) - k) + 1] > l[(Len(l) - j) + 1]
      BY <3>1, <1>1, <1>3, <2>1
    <3> QED BY <3>2, <2>1, <2>2, <1>2
  <2>4. ASSUME NEW i \in ids PROVE p # <<>> /\ (p[1] <= i => \E k \in 1..Len(p) : p[k] = i)
    <3>1. Len(l) > 0
      BY <1>1
    <3>2. p[1] = l[Len(l)] /\ Len(l) \in 1..Len(l)
      BY <2>1, <3>1, <1>1
    <3>3. (\E k \in 1..Len(l) : l[k] = i) \/ i < p[1]
      BY <3>2, <1>1, <1>3
    <3>4. ASSUME NEW k \in 1..Len(l), l[k] = i PROVE \E m \in 1..Len(p) : p[m] = i
      <4>1. (Len(l) - k) + 1 \in 1..Len(p) /\ (Len(l) - ((Len(l) - k) + 1)) + 1 = k
        BY <1>1, <2>1
      <4> QED BY <4>1, <3>4, <2>1
    <3>5. p # <<>>
      BY <3>1, <2>1
    <3>6. p[1] \in Int /\ i \in Int
      BY <3>1, <2>1, <2>2, <1>1, <1>2
    <3> QED BY <3>3, <3>4, <3>5, <3>6
  <2>5. Len(p) \in Nat
    BY <1>1, <2>1
  <2>6. p \in Seq(1..drawn)
    <3>1. ids \subseteq 1..drawn
      BY <1>2
    <3> DEFINE Drawn == 1..drawn
    <3> HIDE DEF Drawn
    <3>2. ids \subseteq Drawn
      BY <3>1 DEF Drawn
    <3>3. p \in Seq(Drawn)
      BY <3>2, <2>1
    <3> QED BY <3>3 DEF Drawn
  <2> QED BY <1>2, <1>3, <2>2, <2>3, <2>4, <2>5, <2>6 DEF Ascending, ids, p, l
<1>4. CASE after > 0
  <2>1. p = l
    BY <1>4
  <2> HIDE DEF p
  <2>2. ASSUME NEW i \in ids PROVE p # <<>> /\ (i <= p[Len(p)] => \E k \in 1..Len(p) : p[k] = i)
    <3>1. Len(p) \in 1..Len(p) /\ p[Len(p)] \in Int /\ i \in Int
      BY <1>1, <1>2, <2>1
    <3>2. (\E k \in 1..Len(p) : p[k] = i) \/ i > p[Len(p)]
      BY <3>1, <1>1, <1>4, <2>1
    <3> QED BY <3>1, <3>2
  <2>3. p \in Seq(1..drawn)
    <3>1. ids \subseteq 1..drawn
      BY <1>2
    <3> DEFINE Drawn == 1..drawn
    <3> HIDE DEF Drawn
    <3>2. ids \subseteq Drawn
      BY <3>1 DEF Drawn
    <3>3. p \in Seq(Drawn)
      BY <3>2, <2>1, <1>1
    <3> QED BY <3>3 DEF Drawn
  <2> QED BY <1>1, <1>2, <1>4, <2>1, <2>2, <2>3 DEF Ascending, ids, p, l
<1>5. after = 0 \/ after > 0
  OBVIOUS
<1> QED BY <1>3, <1>4, <1>5

(* The page after an entry. *)
LEMMA Following ==
  ASSUME ListInv, NEW before \in Int, NEW after \in Nat, after > 0
  PROVE  LET p == ListEntries(before, after, ListLimit) IN
         /\ p \in Seq(1..drawn) /\ Len(p) \in Nat /\ Ascending(p)
         /\ \A k \in 1..Len(p) : after < p[k]
         /\ \A i \in Within_(before, after) : p # <<>> /\ (i <= p[Len(p)] => \E k \in 1..Len(p) : p[k] = i)
<1> DEFINE l == ListEntries(before, after, ListLimit)
           q == IF after = 0 THEN Reverse(l) ELSE l
<1>1. q = l
  OBVIOUS
<1>2. /\ q \in Seq(1..drawn) /\ Len(q) \in Nat /\ Ascending(q)
      /\ \A k \in 1..Len(q) : after < q[k] /\ q[k] < before
      /\ \A i \in Within_(before, after) :
           /\ q # <<>>
           /\ after = 0 /\ q[1] <= i => \E k \in 1..Len(q) : q[k] = i
           /\ after > 0 /\ i <= q[Len(q)] => \E k \in 1..Len(q) : q[k] = i
  BY Listed
<1> HIDE DEF q, l
<1> QED BY <1>1, <1>2 DEF l

(* The first page, and older ones. *)
LEMMA OlderKeeps == ListInv /\ (FirstPage \/ OlderPage) => ListInv'
<1> SUFFICES ASSUME ListInv, FirstPage \/ OlderPage PROVE ListInv'
  OBVIOUS
<1> DEFINE before == IF shown = <<>> THEN MaxId + 1 ELSE shown[1]
           p == Reverse(ListEntries(before, 0, ListLimit))
<1>1. shown' = p \o shown /\ UNCHANGED <<drawn, stored, triaged>>
  <2>1. CASE FirstPage
    <3>1. before = MaxId + 1 /\ shown = <<>>
      BY <2>1 DEF FirstPage
    <3>2. before \in Int
      BY <3>1, ListingAssumption DEF ListingAssumption
    <3>3. p \in Seq(1..drawn)
      BY <3>2, Listed
    <3> QED BY <2>1, <3>1, <3>3 DEF FirstPage
  <2>2. CASE OlderPage
    BY <2>2 DEF OlderPage
  <2> QED BY <2>1, <2>2
<1>2. /\ drawn \in Nat /\ drawn <= MaxId /\ MaxId \in Nat /\ DOMAIN stored \subseteq 1..drawn
      /\ shown \in Seq(1..drawn) /\ Ascending(shown) /\ Len(shown) \in Nat
  BY ListingAssumption DEF ListingAssumption, ListInv, ListType
<1>3. before \in Int
  BY <1>2
<1>4. /\ p \in Seq(1..drawn) /\ Len(p) \in Nat /\ Ascending(p)
      /\ \A k \in 1..Len(p) : p[k] < before
      /\ \A i \in Within_(before, 0) : p # <<>> /\ (p[1] <= i => \E k \in 1..Len(p) : p[k] = i)
  BY <1>3, Listed
<1> HIDE DEF p
<1>5. \A j \in 1..Len(shown) : shown[1] <= shown[j] /\ shown[j] \in Int
  BY <1>2 DEF Ascending
<1>6. \A k \in 1..Len(p), j \in 1..Len(shown) : p[k] < shown[j]
  <2> SUFFICES ASSUME NEW k \in 1..Len(p), NEW j \in 1..Len(shown) PROVE p[k] < shown[j]
    OBVIOUS
  <2>1. shown # <<>> /\ p[k] < before /\ p[k] \in Int /\ shown[1] \in Int
    BY <1>2, <1>4, <1>5
  <2> QED BY <2>1, <1>5
<1>7. /\ shown' \in Seq(1..drawn) /\ Ascending(shown') /\ Len(shown') = Len(p) + Len(shown)
      /\ \A k \in 1..Len(p) : shown'[k] = p[k]
      /\ \A k \in 1..Len(shown) : shown'[Len(p) + k] = shown[k]
  <2>1. (1..drawn) \in SUBSET Int
    OBVIOUS
  <2> QED BY <2>1, <1>1, <1>2, <1>4, <1>6, Joined
<1>8. ASSUME NEW i \in DOMAIN stored, stored[i], i \notin triaged, shown' # <<>>,
             shown'[1] <= i, i <= shown'[Len(shown')]
      PROVE  \E k \in 1..Len(shown') : shown'[k] = i
  <2>0. i \in Int /\ 0 < i /\ i < MaxId + 1
    BY <1>2
  <2>1. CASE i < before
    <3>1. i \in Within_(before, 0)
      BY <2>0, <2>1, <1>8 DEF Within_
    <3>2. p # <<>> /\ (p[1] <= i => \E k \in 1..Len(p) : p[k] = i)
      BY <1>4, <3>1
    <3>3. p[1] = shown'[1]
      BY <3>2, <1>4, <1>7
    <3>4. PICK k \in 1..Len(p) : p[k] = i
      BY <3>2, <3>3, <1>8
    <3>5. k \in 1..Len(shown')
      BY <1>2, <1>4, <1>7
    <3> QED BY <3>4, <3>5, <1>7
  <2>2. CASE ~(i < before)
    <3>1. shown # <<>> /\ shown[1] <= i
      BY <2>0, <2>2, <1>2
    <3>2. shown'[Len(shown')] = shown[Len(shown)]
      BY <3>1, <1>2, <1>4, <1>7
    <3>3. PICK k \in 1..Len(shown) : shown[k] = i
      BY <3>1, <3>2, <1>8 DEF ListInv, NoGaps, Held_
    <3>4. Len(p) + k \in 1..Len(shown')
      BY <1>2, <1>4, <1>7
    <3> QED BY <3>3, <3>4, <1>7
  <2> QED BY <2>1, <2>2
<1>9. ListType'
  BY <1>1, <1>7 DEF ListInv, ListType
<1>10. NoGaps'
  BY <1>1, <1>8, Zenon DEF NoGaps, Held_
<1> QED BY <1>7, <1>9, <1>10 DEF ListInv, Ascending

(* Later ones. *)
LEMMA CatchUpKeeps == ListInv /\ CatchUp => ListInv'
<1> SUFFICES ASSUME ListInv, CatchUp PROVE ListInv'
  OBVIOUS
<1> DEFINE after == shown[Len(shown)]
           p == ListEntries(MaxId + 1, after, ListLimit)
<1>1. shown # <<>> /\ shown' = shown \o p /\ UNCHANGED <<drawn, stored, triaged>>
  BY DEF CatchUp, Newer, Last
<1>2. /\ drawn \in Nat /\ drawn <= MaxId /\ MaxId + 1 \in Int /\ DOMAIN stored \subseteq 1..drawn
      /\ shown \in Seq(1..drawn) /\ Ascending(shown) /\ Len(shown) \in Nat
  BY ListingAssumption DEF ListingAssumption, ListInv, ListType
<1>3. after \in Nat /\ after > 0 /\ Len(shown) > 0
  BY <1>1, <1>2
<1>4. /\ p \in Seq(1..drawn) /\ Len(p) \in Nat /\ Ascending(p)
      /\ \A k \in 1..Len(p) : after < p[k]
      /\ \A i \in Within_(MaxId + 1, after) : p # <<>> /\ (i <= p[Len(p)] => \E k \in 1..Len(p) : p[k] = i)
  <2> PICK before \in Int : before = MaxId + 1
    BY <1>2
  <2> HIDE DEF after
  <2> QED BY <1>3, Following
<1> HIDE DEF p
<1>5. \A j \in 1..Len(shown) : shown[j] <= after /\ shown[j] \in Int
  BY <1>1, <1>2 DEF Ascending
<1>6. \A j \in 1..Len(shown), k \in 1..Len(p) : shown[j] < p[k]
  <2> SUFFICES ASSUME NEW k \in 1..Len(p), NEW j \in 1..Len(shown) PROVE shown[j] < p[k]
    OBVIOUS
  <2>1. after < p[k] /\ p[k] \in Int /\ shown[j] <= after /\ shown[j] \in Int
    BY <1>2, <1>4, <1>5
  <2> HIDE DEF after
  <2> QED BY <2>1, <1>3
<1>7. /\ shown' \in Seq(1..drawn) /\ Ascending(shown') /\ Len(shown') = Len(shown) + Len(p)
      /\ \A k \in 1..Len(shown) : shown'[k] = shown[k]
      /\ \A k \in 1..Len(p) : shown'[Len(shown) + k] = p[k]
  <2>1. (1..drawn) \in SUBSET Int
    OBVIOUS
  <2> QED BY <2>1, <1>1, <1>2, <1>4, <1>6, Joined
<1>8. ASSUME NEW i \in DOMAIN stored, stored[i], i \notin triaged, shown'[1] <= i, i <= shown'[Len(shown')]
      PROVE  \E k \in 1..Len(shown') : shown'[k] = i
  <2>0. i \in Int /\ 0 < i /\ i < MaxId + 1 /\ shown'[1] = shown[1]
    <3>1. i \in Int /\ 0 < i /\ i < MaxId + 1
      BY <1>2, ListingAssumption DEF ListingAssumption
    <3>2. 1 \in 1..Len(shown)
      BY <1>2, <1>3
    <3> QED BY <3>1, <3>2, <1>7
  <2>1. CASE after < i
    <3>1. i \in Within_(MaxId + 1, after)
      BY <2>0, <2>1, <1>8 DEF Within_
    <3>2. p # <<>> /\ (i <= p[Len(p)] => \E k \in 1..Len(p) : p[k] = i)
      BY <1>4, <3>1
    <3>3. p[Len(p)] = shown'[Len(shown')]
      BY <3>2, <1>2, <1>4, <1>7
    <3>4. PICK k \in 1..Len(p) : p[k] = i
      BY <3>2, <3>3, <1>8
    <3>5. Len(shown) + k \in 1..Len(shown')
      BY <1>2, <1>4, <1>7
    <3> QED BY <3>4, <3>5, <1>7
  <2>2. CASE ~(after < i)
    <3>1. i <= after /\ shown[1] <= i
      BY <2>0, <2>2, <1>3, <1>8
    <3>3. PICK k \in 1..Len(shown) : shown[k] = i
      BY <3>1, <1>1, <1>8 DEF ListInv, NoGaps, Held_
    <3>4. k \in 1..Len(shown')
      BY <1>2, <1>4, <1>7
    <3> QED BY <3>3, <3>4, <1>7
  <2> QED BY <2>1, <2>2
<1>9. ListType'
  BY <1>1, <1>7 DEF ListInv, ListType
<1>10. NoGaps'
  BY <1>1, <1>8, Zenon DEF NoGaps, Held_
<1> QED BY <1>7, <1>9, <1>10 DEF ListInv, Ascending

(* Every step keeps the invariant. *)
LEMMA ListStep == ListInv /\ [ListNext]_listVars => ListInv'
<1> SUFFICES ASSUME ListInv, [ListNext]_listVars PROVE ListInv'
  OBVIOUS
<1>1. CASE UNCHANGED listVars
  BY <1>1 DEF listVars, ListInv, ListType, Ascending, NoGaps, Held_
<1> QED BY <1>1, StoreKeeps, TriageKeeps, OlderKeeps, CatchUpKeeps DEF ListNext

(* An entry is found between its neighbours. *)
LEMMA EntryFound == ASSUME ListInv, NEW i \in DOMAIN stored, stored[i] PROVE GetEntry(i) = <<i>>
<1> DEFINE ids == Within_(i + 1, i - 1)
           l == ListEntries(i + 1, i - 1, 1)
<1>1. i \in Int /\ i > 0
  BY DEF ListInv, ListType
<1>2. i \in ids /\ \A x \in ids : x = i
  <2>1. \A x \in ids : x \in Int
    BY <1>1, FewWithin DEF ListInv
  <2> QED BY <2>1, <1>1 DEF Within_
<1>3. /\ l \in Seq(ids) /\ Len(l) \in Nat /\ (ids # {} => Len(l) > 0)
      /\ \A k \in 1..Len(l) : l[k] \in ids
      /\ i - 1 = 0 => \A j, k \in 1..Len(l) : j < k => l[j] > l[k]
      /\ i - 1 > 0 => \A j, k \in 1..Len(l) : j < k => l[j] < l[k]
  <2>1. i + 1 \in Int /\ i - 1 \in Nat /\ 1 \in Nat \ {0} /\ ListType
    BY <1>1 DEF ListInv
  <2> QED BY <2>1, Page
<1> HIDE DEF l, ids
<1>4. Len(l) > 0 /\ \A k \in 1..Len(l) : l[k] = i
  BY <1>2, <1>3
<1>5. Len(l) = 1
  <2>0. Len(l) \in Nat /\ Len(l) > 0
    BY <1>3, <1>4
  <2> SUFFICES ASSUME Len(l) >= 2 PROVE FALSE
    BY <2>0
  <2>1. l[1] = i /\ l[2] = i
    BY <1>3, <1>4
  <2>2. l[1] > l[2] \/ l[1] < l[2]
    BY <1>1, <1>3
  <2> QED BY <2>1, <2>2, <1>1
<1>6. l = <<i>>
  BY <1>3, <1>4, <1>5
<1> QED BY <1>6 DEF GetEntry, l

(* The invariant says what the listing promises. *)
LEMMA ListSafe == ListInv => ListedOnce
<1> SUFFICES ASSUME ListInv PROVE ListedOnce
  OBVIOUS
<1>1. shown \in Seq(1..drawn) /\ Len(shown) \in Nat /\ DOMAIN shown = 1..Len(shown)
  BY DEF ListInv, ListType
<1>2. \A k \in 1..(Len(shown) - 1) : shown[k] < shown[k + 1]
  BY <1>1 DEF ListInv, Ascending
<1>3. ASSUME NEW i \in DOMAIN stored, stored[i], i \notin triaged, shown # <<>>, Head(shown) < i, i < Last(shown)
      PROVE  i \in ToSet(shown)
  <2>1. Head(shown) = shown[1] /\ Last(shown) = shown[Len(shown)] /\ i \in Int
        /\ shown[1] \in Int /\ shown[Len(shown)] \in Int
    BY <1>1, <1>3 DEF Last, ListInv, ListType
  <2>2. shown[1] <= i /\ i <= shown[Len(shown)]
    BY <2>1, <1>3
  <2>3. PICK k \in 1..Len(shown) : shown[k] = i
    BY <2>2, <1>3 DEF ListInv, NoGaps, Held_
  <2> QED BY <2>3, <1>1 DEF ToSet
<1> QED BY <1>2, <1>3, EntryFound DEF ListedOnce

(* However a client's pages back and its catching up mix with stored batches,*)
(* failed batches and triage, it is given ids in order and each once, and    *)
(* between the ends nothing is missing that matched all along                *)
(* (store/store.go: ListEntries; api/api.go: listEntries).                   *)
THEOREM EntriesListed == ListSpec => []ListedOnce
<1>1. ListSpec => []ListInv
  BY ListStart, ListStep, PTL DEF ListSpec
<1> QED BY <1>1, ListSafe, PTL

-----------------------------------------------------------------------------
(* RuleEngine: rules, their references, and what they do to entries.         *)

(* A set of numbers with zero and every successor of a member has them all.  *)
LEMMA Counting ==
  ASSUME NEW S, 0 \in S, \A n \in Nat : n \in S => n + 1 \in S
  PROVE  Nat \subseteq S
<1> DEFINE T == {n \in Nat : n \notin S}
           R == OpToRel(<, Nat)
<1> SUFFICES ASSUME T # {} PROVE FALSE
  OBVIOUS
<1>1. IsWellFoundedOn(R, Nat)
  BY NatLessThanWellFounded
<1>2. \A x, y \in Nat : y < x => <<y, x>> \in R
  BY DEF OpToRel
<1> HIDE DEF R
<1>3. T \subseteq Nat
  OBVIOUS
<1> HIDE DEF T
<1>4. PICK x \in T : \A y \in T : ~ (<<y, x>> \in R)
  BY <1>1, <1>3, WFMin
<1>5. x \in Nat /\ x \notin S /\ x # 0
  BY <1>4 DEF T
<1>6. x - 1 \in Nat /\ x - 1 < x /\ (x - 1) + 1 = x
  BY <1>5
<1>7. x - 1 \notin S
  BY <1>5, <1>6
<1>8. x - 1 \in T
  BY <1>6, <1>7 DEF T
<1> QED BY <1>2, <1>4, <1>5, <1>6, <1>8

-----------------------------------------------------------------------------
(* What becomes of an entry. *)

(* The actions there are, and lists of them.                                 *)
ActionTypes == {"tag", "notify", "suppress", "set_priority", "set_mitre", "set_ot"}
Performable(actions) ==
  /\ Len(actions) \in Nat /\ DOMAIN actions = 1..Len(actions)
  /\ \A i \in 1..Len(actions) : actions[i].type \in ActionTypes

(* Rules are only blamed for tags that are there.                            *)
Attributed(e) == {"tags", "by"} \subseteq DOMAIN e /\ \A b \in e.by : b[1] \in e.tags

(* An action adds at most the tag it names. *)
LEMMA ActTags ==
  ASSUME NEW a, a.type \in ActionTypes, NEW id, NEW e, Attributed(e)
  PROVE  Attributed(Act(a, id, e)) /\ \A t \in Act(a, id, e).tags : t \in e.tags \/ (a.type = "tag" /\ t = a.arg)
<1>1. CASE a.type = "tag"
  <2>1. CASE a.arg \in e.tags
    BY <1>1, <2>1 DEF Act
  <2>2. CASE a.arg \notin e.tags
    <3> DEFINE f == [e EXCEPT !.tags = @ \cup {a.arg}, !.by = @ \cup {<<a.arg, id>>}]
    <3>1. Act(a, id, e) = f
      BY <1>1, <2>2 DEF Act
    <3>2. DOMAIN f = DOMAIN e /\ f.tags = e.tags \cup {a.arg} /\ f.by = e.by \cup {<<a.arg, id>>}
      BY DEF Attributed
    <3> HIDE DEF f
    <3> QED BY <1>1, <3>1, <3>2 DEF Attributed
  <2> QED BY <2>1, <2>2
<1>2. CASE a.type # "tag"
  <2>1. LET f == Act(a, id, e) IN DOMAIN f = DOMAIN e /\ f.tags = e.tags /\ f.by = e.by
    <3>1. CASE a.type = "set_priority"
      BY <3>1 DEF Act, Attributed
    <3>2. CASE a.type = "suppress"
      BY <3>2 DEF Act, Attributed
    <3>3. CASE a.type = "notify"
      BY <3>3 DEF Act, Attributed
    <3>4. CASE a.type = "set_mitre"
      BY <3>4 DEF Act, Attributed
    <3>5. CASE a.type = "set_ot"
      BY <3>5 DEF Act, Attributed
    <3> QED BY <1>2, <3>1, <3>2, <3>3, <3>4, <3>5 DEF ActionTypes
  <2> QED BY <2>1 DEF Attributed
<1> QED BY <1>1, <1>2

(* The actions of a rule are carried out one after the other. *)
LEMMA ActedSteps ==
  ASSUME NEW r, NEW e, Len(r.actions) \in Nat
  PROVE  \E g : /\ g[0] = e /\ Acted(r, e) = g[Len(r.actions)]
                /\ \A n \in 1..Len(r.actions) : g[n] = Act(r.actions[n], r.id, g[n - 1])
<1> DEFINE step(n, x) == Act(r.actions[n], r.id, x)
           m == Len(r.actions)
           S == {n \in Nat : \E g : g = [k \in 0..n |-> IF k = 0 THEN e ELSE step(k, g[k - 1])]}
           done == CHOOSE g : g = [k \in 0..m |-> IF k = 0 THEN e ELSE step(k, g[k - 1])]
<1>1. Acted(r, e) = done[m]
  BY DEF Acted
<1> HIDE DEF step
<1>2. 0 \in S
  <2> DEFINE g == [k \in 0..0 |-> e]
  <2>1. g = [k \in 0..0 |-> IF k = 0 THEN e ELSE step(k, g[k - 1])]
    OBVIOUS
  <2> HIDE DEF g
  <2> QED BY <2>1
<1>3. ASSUME NEW n \in Nat, n \in S PROVE n + 1 \in S
  <2>1. PICK g : g = [k \in 0..n |-> IF k = 0 THEN e ELSE step(k, g[k - 1])]
    BY <1>3
  <2> DEFINE h == [k \in 0..(n + 1) |-> IF k <= n THEN g[k] ELSE step(n + 1, g[n])]
  <2>2. \A k \in 0..(n + 1) : h[k] = IF k <= n THEN g[k] ELSE step(n + 1, g[n])
    OBVIOUS
  <2>3. \A k \in 0..n : g[k] = IF k = 0 THEN e ELSE step(k, g[k - 1])
    BY <2>1
  <2>4. DOMAIN h = 0..(n + 1) /\ h = [k \in 0..(n + 1) |-> h[k]]
    OBVIOUS
  <2> HIDE DEF h
  <2>5. ASSUME NEW k \in 0..(n + 1) PROVE h[k] = IF k = 0 THEN e ELSE step(k, h[k - 1])
    <3>1. CASE k = 0
      BY <2>2, <2>3, <3>1
    <3>2. CASE k # 0 /\ k <= n
      <4>1. k \in 0..n /\ k - 1 \in 0..(n + 1) /\ k - 1 <= n
        BY <3>2
      <4>2. h[k - 1] = g[k - 1] /\ h[k] = g[k]
        BY <4>1, <3>2, <2>2
      <4> QED BY <4>1, <4>2, <3>2, <2>3
    <3>3. CASE k = n + 1
      <4>1. n \in 0..(n + 1) /\ k - 1 = n /\ ~(k <= n) /\ k # 0
        BY <3>3
      <4>2. h[n] = g[n] /\ h[k] = step(n + 1, g[n])
        BY <4>1, <2>2
      <4> QED BY <4>1, <4>2, <3>3
    <3> QED BY <3>1, <3>2, <3>3
  <2>6. h = [k \in 0..(n + 1) |-> IF k = 0 THEN e ELSE step(k, h[k - 1])]
    BY <2>4, <2>5
  <2> QED BY <2>6
<1>4. m \in S
  <2> HIDE DEF S
  <2> QED BY <1>2, <1>3, Counting
<1>5. done = [k \in 0..m |-> IF k = 0 THEN e ELSE step(k, done[k - 1])]
  BY <1>4
<1> HIDE DEF done
<1>6. \A k \in 0..m : done[k] = IF k = 0 THEN e ELSE step(k, done[k - 1])
  BY <1>5
<1>7. done[0] = e /\ \A k \in 1..m : done[k] = step(k, done[k - 1])
  BY <1>6
<1> QED BY <1>1, <1>7 DEF step

(* A run over the history carries them out on an entry that is selected.     *)
PastRun(g, r, e, now) ==
  /\ g[0] = e
  /\ InSQL(r.condition, e, now) => ApplyToEntry(r, e, now) = g[Len(r.actions)]
  /\ ~InSQL(r.condition, e, now) => ApplyToEntry(r, e, now) = e
  /\ \A n \in 1..Len(r.actions) : g[n] = ApplyAction(r.actions[n], r.id, g[n - 1])

(* There is such a run. *)
LEMMA HistoricalSteps ==
  ASSUME NEW r, NEW e, NEW now, Len(r.actions) \in Nat
  PROVE  \E g : PastRun(g, r, e, now)
<1> DEFINE step(n, x) == ApplyAction(r.actions[n], r.id, x)
           m == Len(r.actions)
           S == {n \in Nat : \E g : g = [k \in 0..n |-> IF k = 0 THEN e ELSE step(k, g[k - 1])]}
           done == CHOOSE g : g = [k \in 0..m |-> IF k = 0 THEN e ELSE step(k, g[k - 1])]
<1>1. ApplyToEntry(r, e, now) = IF InSQL(r.condition, e, now) THEN done[m] ELSE e
  BY DEF ApplyToEntry
<1> HIDE DEF step
<1>2. 0 \in S
  <2> DEFINE g == [k \in 0..0 |-> e]
  <2>1. g = [k \in 0..0 |-> IF k = 0 THEN e ELSE step(k, g[k - 1])]
    OBVIOUS
  <2> HIDE DEF g
  <2> QED BY <2>1
<1>3. ASSUME NEW n \in Nat, n \in S PROVE n + 1 \in S
  <2>1. PICK g : g = [k \in 0..n |-> IF k = 0 THEN e ELSE step(k, g[k - 1])]
    BY <1>3
  <2> DEFINE h == [k \in 0..(n + 1) |-> IF k <= n THEN g[k] ELSE step(n + 1, g[n])]
  <2>2. \A k \in 0..(n + 1) : h[k] = IF k <= n THEN g[k] ELSE step(n + 1, g[n])
    OBVIOUS
  <2>3. \A k \in 0..n : g[k] = IF k = 0 THEN e ELSE step(k, g[k - 1])
    BY <2>1
  <2>4. DOMAIN h = 0..(n + 1) /\ h = [k \in 0..(n + 1) |-> h[k]]
    OBVIOUS
  <2> HIDE DEF h
  <2>5. ASSUME NEW k \in 0..(n + 1) PROVE h[k] = IF k = 0 THEN e ELSE step(k, h[k - 1])
    <3>1. CASE k = 0
      BY <2>2, <2>3, <3>1
    <3>2. CASE k # 0 /\ k <= n
      <4>1. k \in 0..n /\ k - 1 \in 0..(n + 1) /\ k - 1 <= n
        BY <3>2
      <4>2. h[k - 1] = g[k - 1] /\ h[k] = g[k]
        BY <4>1, <3>2, <2>2
      <4> QED BY <4>1, <4>2, <3>2, <2>3
    <3>3. CASE k = n + 1
      <4>1. n \in 0..(n + 1) /\ k - 1 = n /\ ~(k <= n) /\ k # 0
        BY <3>3
      <4>2. h[n] = g[n] /\ h[k] = step(n + 1, g[n])
        BY <4>1, <2>2
      <4> QED BY <4>1, <4>2, <3>3
    <3> QED BY <3>1, <3>2, <3>3
  <2>6. h = [k \in 0..(n + 1) |-> IF k = 0 THEN e ELSE step(k, h[k - 1])]
    BY <2>4, <2>5
  <2> QED BY <2>6
<1>4. m \in S
  <2> HIDE DEF S
  <2> QED BY <1>2, <1>3, Counting
<1>5. done = [k \in 0..m |-> IF k = 0 THEN e ELSE step(k, done[k - 1])]
  BY <1>4
<1> HIDE DEF done
<1>6. \A k \in 0..m : done[k] = IF k = 0 THEN e ELSE step(k, done[k - 1])
  BY <1>5
<1>7. done[0] = e /\ \A k \in 1..m : done[k] = step(k, done[k - 1])
  BY <1>6
<1> QED BY <1>1, <1>7 DEF step, PastRun

(* The rules judge an entry one after the other.                             *)
LEMMA ApplySteps ==
  ASSUME NEW list, NEW raw, NEW now, Len(list) \in Nat
  PROVE  \E g : /\ g[0] = raw
                /\ Apply(list, raw, now) = IF g[Len(list)].suppressed THEN [g[Len(list)] EXCEPT !.notifies = <<>>]
                                           ELSE g[Len(list)]
                /\ \A n \in 1..Len(list) :
                     g[n] = IF InMemory(list[n].condition, g[n - 1], now) THEN Acted(list[n], g[n - 1]) ELSE g[n - 1]
<1> DEFINE step(n, x) == IF InMemory(list[n].condition, x, now) THEN Acted(list[n], x) ELSE x
           m == Len(list)
           S == {n \in Nat : \E g : g = [k \in 0..n |-> IF k = 0 THEN raw ELSE step(k, g[k - 1])]}
           done == CHOOSE g : g = [k \in 0..m |-> IF k = 0 THEN raw ELSE step(k, g[k - 1])]
<1>1. Apply(list, raw, now) = IF done[m].suppressed THEN [done[m] EXCEPT !.notifies = <<>>] ELSE done[m]
  BY DEF Apply
<1> HIDE DEF step
<1>2. 0 \in S
  <2> DEFINE g == [k \in 0..0 |-> raw]
  <2>1. g = [k \in 0..0 |-> IF k = 0 THEN raw ELSE step(k, g[k - 1])]
    OBVIOUS
  <2> HIDE DEF g
  <2> QED BY <2>1
<1>3. ASSUME NEW n \in Nat, n \in S PROVE n + 1 \in S
  <2>1. PICK g : g = [k \in 0..n |-> IF k = 0 THEN raw ELSE step(k, g[k - 1])]
    BY <1>3
  <2> DEFINE h == [k \in 0..(n + 1) |-> IF k <= n THEN g[k] ELSE step(n + 1, g[n])]
  <2>2. \A k \in 0..(n + 1) : h[k] = IF k <= n THEN g[k] ELSE step(n + 1, g[n])
    OBVIOUS
  <2>3. \A k \in 0..n : g[k] = IF k = 0 THEN raw ELSE step(k, g[k - 1])
    BY <2>1
  <2>4. DOMAIN h = 0..(n + 1) /\ h = [k \in 0..(n + 1) |-> h[k]]
    OBVIOUS
  <2> HIDE DEF h
  <2>5. ASSUME NEW k \in 0..(n + 1) PROVE h[k] = IF k = 0 THEN raw ELSE step(k, h[k - 1])
    <3>1. CASE k = 0
      BY <2>2, <2>3, <3>1
    <3>2. CASE k # 0 /\ k <= n
      <4>1. k \in 0..n /\ k - 1 \in 0..(n + 1) /\ k - 1 <= n
        BY <3>2
      <4>2. h[k - 1] = g[k - 1] /\ h[k] = g[k]
        BY <4>1, <3>2, <2>2
      <4> QED BY <4>1, <4>2, <3>2, <2>3
    <3>3. CASE k = n + 1
      <4>1. n \in 0..(n + 1) /\ k - 1 = n /\ ~(k <= n) /\ k # 0
        BY <3>3
      <4>2. h[n] = g[n] /\ h[k] = step(n + 1, g[n])
        BY <4>1, <2>2
      <4> QED BY <4>1, <4>2, <3>3
    <3> QED BY <3>1, <3>2, <3>3
  <2>6. h = [k \in 0..(n + 1) |-> IF k = 0 THEN raw ELSE step(k, h[k - 1])]
    BY <2>4, <2>5
  <2> QED BY <2>6
<1>4. m \in S
  <2> HIDE DEF S
  <2> QED BY <1>2, <1>3, Counting
<1>5. done = [k \in 0..m |-> IF k = 0 THEN raw ELSE step(k, done[k - 1])]
  BY <1>4
<1> HIDE DEF done
<1>6. \A k \in 0..m : done[k] = IF k = 0 THEN raw ELSE step(k, done[k - 1])
  BY <1>5
<1>7. done[0] = raw /\ \A k \in 1..m : done[k] = step(k, done[k - 1])
  BY <1>6
<1> QED BY <1>1, <1>7 DEF step

(* A rule only adds tags it is blamed for. *)
LEMMA ActedTags ==
  ASSUME NEW r, Performable(r.actions), NEW e, Attributed(e) PROVE Attributed(Acted(r, e))
<1> DEFINE m == Len(r.actions)
<1>1. m \in Nat /\ \A n \in 1..m : r.actions[n].type \in ActionTypes
  BY DEF Performable
<1>2. PICK g : /\ g[0] = e /\ Acted(r, e) = g[m]
               /\ \A n \in 1..m : g[n] = Act(r.actions[n], r.id, g[n - 1])
  BY <1>1, ActedSteps
<1> HIDE DEF m
<1> DEFINE S == {n \in Nat : n <= m => Attributed(g[n])}
<1>3. 0 \in S
  BY <1>2
<1>4. ASSUME NEW n \in Nat, n \in S PROVE n + 1 \in S
  <2> SUFFICES ASSUME n + 1 <= m PROVE Attributed(g[n + 1])
    OBVIOUS
  <2>1. n + 1 \in 1..m /\ (n + 1) - 1 = n /\ n <= m
    BY <1>1
  <2>2. g[n + 1] = Act(r.actions[n + 1], r.id, g[n])
    BY <1>2, <2>1
  <2>3. Attributed(g[n]) /\ r.actions[n + 1].type \in ActionTypes
    BY <1>1, <1>4, <2>1
  <2> QED BY <2>2, <2>3, ActTags
<1>5. m \in S
  <2> HIDE DEF S
  <2> QED BY <1>1, <1>3, <1>4, Counting
<1> QED BY <1>1, <1>2, <1>5

(* What a snapshot holds: rules that handlers let through.                   *)
Carried(x) ==
  x.id \in RuleId /\ \E r \in RuleBody : validRule(r) /\ x.condition = r.condition /\ x.actions = r.actions
ListOk(list) ==
  /\ Len(list) \in Nat /\ DOMAIN list = 1..Len(list)
  /\ \A k \in 1..Len(list) : Carried(list[k])

(* What handlers let through can be carried out. *)
LEMMA ValidPerformable == \A r \in RuleBody : validRule(r) => Performable(r.actions)
<1> SUFFICES ASSUME NEW r \in RuleBody, validRule(r) PROVE Performable(r.actions)
  OBVIOUS
<1>1. \A i \in DOMAIN r.actions : r.actions[i].type \in ActionTypes
  BY DEF validRule, ValidateActions, ActionTypes
<1> QED BY <1>1, RuleAssumption DEF RuleAssumption, Performable

(* What the rules of a list make of an entry is attributed as well. *)
LEMMA ApplyTags ==
  ASSUME NEW list, ListOk(list), NEW raw, Attributed(raw), NEW now PROVE Attributed(Apply(list, raw, now))
<1> DEFINE m == Len(list)
<1>1. m \in Nat /\ \A n \in 1..m : Performable(list[n].actions)
  BY ValidPerformable DEF ListOk, Carried
<1>2. PICK g : /\ g[0] = raw
               /\ Apply(list, raw, now) = IF g[m].suppressed THEN [g[m] EXCEPT !.notifies = <<>>] ELSE g[m]
               /\ \A n \in 1..m :
                    g[n] = IF InMemory(list[n].condition, g[n - 1], now) THEN Acted(list[n], g[n - 1]) ELSE g[n - 1]
  BY <1>1, ApplySteps
<1> HIDE DEF m
<1> DEFINE S == {n \in Nat : n <= m => Attributed(g[n])}
<1>3. 0 \in S
  BY <1>2
<1>4. ASSUME NEW n \in Nat, n \in S PROVE n + 1 \in S
  <2> SUFFICES ASSUME n + 1 <= m PROVE Attributed(g[n + 1])
    OBVIOUS
  <2>1. n + 1 \in 1..m /\ (n + 1) - 1 = n /\ n <= m
    BY <1>1
  <2>2. g[n + 1] = Acted(list[n + 1], g[n]) \/ g[n + 1] = g[n]
    BY <1>2, <2>1
  <2>3. Attributed(g[n]) /\ Performable(list[n + 1].actions)
    BY <1>1, <1>4, <2>1
  <2> QED BY <2>2, <2>3, ActedTags
<1>5. Attributed(g[m])
  <2>1. m \in S
    <3> HIDE DEF S
    <3> QED BY <1>1, <1>3, <1>4, Counting
  <2> QED BY <1>1, <2>1
<1>6. Attributed([g[m] EXCEPT !.notifies = <<>>])
  BY <1>5 DEF Attributed
<1> QED BY <1>2, <1>5, <1>6

(* A run over the history adds only tags that are there. *)
LEMMA HistoricalTags ==
  ASSUME NEW r, Performable(r.actions), NEW e, Attributed(e), e.tags \subseteq targets, NEW now
  PROVE  Attributed(ApplyToEntry(r, e, now)) /\ ApplyToEntry(r, e, now).tags \subseteq targets
<1> DEFINE m == Len(r.actions)
<1>1. m \in Nat /\ \A n \in 1..m : r.actions[n].type \in ActionTypes
  BY DEF Performable
<1>0. PICK g : PastRun(g, r, e, now)
  BY <1>1, HistoricalSteps
<1>2. /\ g[0] = e /\ ApplyToEntry(r, e, now) \in {g[m], e}
      /\ \A n \in 1..m : g[n] = ApplyAction(r.actions[n], r.id, g[n - 1])
  BY <1>0 DEF PastRun
<1> HIDE DEF m
<1> DEFINE S == {n \in Nat : n <= m => Attributed(g[n]) /\ g[n].tags \subseteq targets}
<1>3. 0 \in S
  BY <1>2
<1>4. ASSUME NEW n \in Nat, n \in S PROVE n + 1 \in S
  <2> SUFFICES ASSUME n + 1 <= m PROVE Attributed(g[n + 1]) /\ g[n + 1].tags \subseteq targets
    OBVIOUS
  <2> DEFINE a == r.actions[n + 1]
  <2>1. n + 1 \in 1..m /\ (n + 1) - 1 = n /\ n <= m
    BY <1>1
  <2>2. g[n + 1] = ApplyAction(a, r.id, g[n])
    BY <1>2, <2>1
  <2>3. Attributed(g[n]) /\ g[n].tags \subseteq targets /\ a.type \in ActionTypes
    BY <1>1, <1>4, <2>1
  <2> HIDE DEF a
  <2>4. g[n + 1] = g[n] \/ (g[n + 1] = Act(a, r.id, g[n]) /\ (a.type = "tag" => a.arg \in targets))
    BY <2>2 DEF ApplyAction
  <2> QED BY <2>3, <2>4, ActTags
<1>5. m \in S
  <2> HIDE DEF S
  <2> QED BY <1>1, <1>3, <1>4, Counting
<1> QED BY <1>1, <1>2, <1>5

-----------------------------------------------------------------------------
(* The invariant. *)

(* Rules that handlers let through, and requests that carry only such.       *)
RuleOk(r) == r \in RuleBody /\ validRule(r)
RequestOk(q) ==
  /\ q.at = "write" => q.id \in RuleId /\ RuleOk(q.rule)
  /\ q.at = "apply" => RuleOk(q.rule)
  /\ q.at = "install" => ListOk(q.list)

(* What the tables, the requests and the snapshots hold.                     *)
RulesType ==
  /\ IsFiniteSet(DOMAIN rules) /\ DOMAIN rules \subseteq RuleId /\ \A i \in DOMAIN rules : RuleOk(rules[i])
  /\ DOMAIN request = Handler /\ \A h \in Handler : RequestOk(request[h])
  /\ ListOk(snapshot) /\ (refresh.at = "install" => ListOk(refresh.list))

(* References are to what is there, and none of an enabled rule is missing.  *)
RefsKept ==
  /\ \A ref \in refs : ref[2] \in targets
  /\ \A id \in DOMAIN rules : rules[id].enabled => \A t \in ruleTargets(rules[id]) : <<id, t>> \in refs

(* A stored entry carries what is there, and its tags are the work of rules  *)
(* of the table or of none; one that waits was at least judged consistently. *)
Kept(e) == Attributed(e) /\ e.tags \subseteq targets /\ \A b \in e.by : b[2] \in DOMAIN rules \cup {0}
EntriesKept == (\A e \in entries : Kept(e)) /\ \A e \in queued : Attributed(e)

(* The inductive invariant.                                                  *)
RuleInv == RulesType /\ RefsKept /\ EntriesKept

(* What is read is what can be carried out. *)
LEMMA EnabledOk == RulesType => ListOk(EnabledRules)
<1> SUFFICES ASSUME RulesType PROVE ListOk(EnabledRules)
  OBVIOUS
<1> DEFINE on == {i \in DOMAIN rules : rules[i].enabled}
           order == {p \in on \X on : rules[p[1]].position < rules[p[2]].position
                                    \/ (rules[p[1]].position = rules[p[2]].position /\ p[1] < p[2])}
           ids == Sorted(on, order)
           list == [k \in DOMAIN ids |-> [id |-> ids[k], condition |-> rules[ids[k]].condition,
                                          actions |-> rules[ids[k]].actions]]
<1>1. IsFiniteSet(on) /\ \A i \in on : i \in DOMAIN rules /\ i \in RuleId /\ i \in Int /\ RuleOk(rules[i])
  <2>1. IsFiniteSet(on)
    BY FS_Subset DEF RulesType
  <2>2. \A i \in on : i \in DOMAIN rules /\ i \in RuleId /\ RuleOk(rules[i])
    BY DEF RulesType
  <2>3. \A i \in RuleId : i \in Int
    <3>1. RuleId \subseteq Nat \ {0}
      BY RuleAssumption, Zenon DEF RuleAssumption
    <3> QED BY <3>1
  <2> QED BY <2>1, <2>2, <2>3
<1>2. \A i \in on : rules[i].position \in Int
  BY <1>1, RuleAssumption DEF RuleAssumption, RuleOk
<1> HIDE DEF on
<1>3. \A i, j \in on : (<<i, j>> \in order) <=>
        rules[i].position < rules[j].position \/ (rules[i].position = rules[j].position /\ i < j)
  OBVIOUS
<1>4. IsTotal(on, order)
  <2> DEFINE pos(i) == rules[i].position
  <2>1. \A i, j \in on : (<<i, j>> \in order) <=> pos(i) < pos(j) \/ (pos(i) = pos(j) /\ i < j)
    BY <1>3
  <2>2. \A i \in on : pos(i) \in Int /\ i \in Int
    BY <1>1, <1>2
  <2> HIDE DEF order, pos
  <2>3. ASSUME NEW i \in on, NEW j \in on PROVE i = j \/ <<i, j>> \in order \/ <<j, i>> \in order
    <3>1. pos(i) < pos(j) \/ pos(i) = pos(j) \/ pos(j) < pos(i)
      BY <2>2
    <3>2. i < j \/ i = j \/ j < i
      BY <2>2
    <3> QED BY <3>1, <3>2, <2>1
  <2>4. \A i \in on : <<i, i>> \notin order
    BY <2>1, <2>2
  <2>5. \A i, j, k \in on : <<i, j>> \in order /\ <<j, k>> \in order => <<i, k>> \in order
    BY <2>1, <2>2
  <2> QED BY <2>3, <2>4, <2>5 DEF IsTotal
<1>5. EnabledRules = list
  BY DEF EnabledRules, on
<1> HIDE DEF order
<1>6. ids \in Seq(on) /\ Len(ids) \in Nat /\ DOMAIN ids = 1..Len(ids) /\ \A k \in 1..Len(ids) : ids[k] \in on
  BY <1>1, <1>4, SortedLists
<1> HIDE DEF ids
<1>7. Len(list) = Len(ids) /\ DOMAIN list = 1..Len(ids)
  BY <1>6
<1>8. \A k \in 1..Len(ids) : Carried(list[k])
  BY <1>1, <1>6 DEF RuleOk, Carried, RulesType
<1> HIDE DEF list
<1> QED BY <1>5, <1>6, <1>7, <1>8 DEF ListOk

(* Nothing is amiss at the start. *)
LEMMA RuleStart == RuleInit => RuleInv
<1> SUFFICES ASSUME RuleInit PROVE RuleInv
  OBVIOUS
<1>1. DOMAIN rules = {} /\ IsFiniteSet({}) /\ ListOk(<<>>)
  BY FS_EmptySet DEF RuleInit, ListOk
<1>2. RulesType
  BY <1>1 DEF RuleInit, RulesType, RequestOk, Idle_, Waits
<1>3. RefsKept /\ EntriesKept
  BY <1>1 DEF RuleInit, RefsKept, EntriesKept
<1> QED BY <1>2, <1>3 DEF RuleInv

-----------------------------------------------------------------------------
(* The steps. *)

(* A request goes on to something it can do. *)
LEMMA StepOk ==
  ASSUME RulesType, NEW h \in Handler, NEW next, RequestOk(next), Step(h, next)
  PROVE  DOMAIN request' = Handler /\ \A g \in Handler : RequestOk(request'[g])
<1>1. request' = [request EXCEPT ![h] = next] /\ DOMAIN request = Handler
      /\ \A g \in Handler : RequestOk(request[g])
  BY DEF Step, RulesType
<1>2. DOMAIN request' = Handler /\ \A g \in Handler : request'[g] = IF g = h THEN next ELSE request[g]
  BY <1>1
<1> QED BY <1>1, <1>2

(* Requests that only look or wait. *)
LEMMA RequestsOk ==
  /\ RequestOk(Idle_) /\ RequestOk([at |-> "reload"])
  /\ \A id \in RuleId : \A r : RuleOk(r) => RequestOk([at |-> "write", id |-> id, rule |-> r])
  /\ \A id, r : RuleOk(r) => RequestOk([at |-> "apply", id |-> id, rule |-> r])
  /\ \A list : ListOk(list) => RequestOk([at |-> "install", list |-> list])
  BY DEF RequestOk, Idle_

(* A checked rule can be carried out. *)
LEMMA CheckKeeps ==
  ASSUME RuleInv, NEW h \in Handler, NEW id \in RuleId, NEW r \in RuleBody, CheckRule(h, id, r) PROVE RuleInv'
<1>1. /\ validRule(r) /\ Step(h, [at |-> "write", id |-> id, rule |-> r])
      /\ UNCHANGED <<targets, rules, refs, snapshot, refresh, queued, entries>>
  BY DEF CheckRule, tables
<1>3. RuleOk(r)
  BY <1>1 DEF RuleOk
<1>4. DOMAIN request' = Handler /\ \A g \in Handler : RequestOk(request'[g])
  BY <1>1, <1>3, RequestsOk, StepOk DEF RuleInv
<1> QED BY <1>1, <1>4 DEF RuleInv, RulesType, RefsKept, EntriesKept, Kept

(* The foreign keys refuse a reference to what is gone. *)
LEMMA WriteKeeps == ASSUME RuleInv, NEW h \in Handler, WriteRule(h) PROVE RuleInv'
<1> DEFINE q == request[h]
           written == writeRuleRefs(q.id, q.rule)
<1>1. q.id \in RuleId /\ RuleOk(q.rule)
  BY DEF WriteRule, RuleInv, RulesType, RequestOk
<1>2. UNCHANGED <<targets, snapshot, refresh, queued, entries>>
  BY DEF WriteRule
<1>3. CASE UNCHANGED <<rules, refs>> /\ Step(h, Idle_)
  <2>1. DOMAIN request' = Handler /\ \A g \in Handler : RequestOk(request'[g])
    BY <1>3, RequestsOk, StepOk DEF RuleInv
  <2> QED BY <1>2, <1>3, <2>1 DEF RuleInv, RulesType, RefsKept, EntriesKept, Kept
<1>4. CASE /\ \A ref \in written : ref[2] \in targets
           /\ rules' = [i \in DOMAIN rules \cup {q.id} |-> IF i = q.id THEN q.rule ELSE rules[i]]
           /\ refs' = written /\ Step(h, [at |-> "reload"])
  <2>1. DOMAIN request' = Handler /\ \A g \in Handler : RequestOk(request'[g])
    BY <1>4, RequestsOk, StepOk DEF RuleInv
  <2> HIDE DEF q
  <2>2. /\ DOMAIN rules' = DOMAIN rules \cup {q.id} /\ rules'[q.id] = q.rule
        /\ \A i \in DOMAIN rules : i # q.id => rules'[i] = rules[i]
    BY <1>4
  <2>3. RulesType'
    <3>1. IsFiniteSet(DOMAIN rules')
      BY <2>2, FS_AddElement DEF RuleInv, RulesType
    <3>2. \A i \in DOMAIN rules' : RuleOk(rules'[i])
      BY <1>1, <2>2 DEF RuleInv, RulesType
    <3> QED BY <1>1, <1>2, <2>1, <2>2, <3>1, <3>2 DEF RuleInv, RulesType
  <2>4. refs' = {ref \in refs : ref[1] # q.id}
                  \cup {<<q.id, t>> : t \in IF q.rule.enabled THEN ruleTargets(q.rule) ELSE {}}
    BY <1>4 DEF writeRuleRefs
  <2>5. ASSUME NEW i \in DOMAIN rules', rules'[i].enabled, NEW t \in ruleTargets(rules'[i])
        PROVE  <<i, t>> \in refs'
    <3>1. CASE i = q.id
      <4>1. q.rule.enabled /\ t \in ruleTargets(q.rule)
        BY <2>2, <2>5, <3>1
      <4> QED BY <2>4, <3>1, <4>1
    <3>2. CASE i # q.id
      <4>1. i \in DOMAIN rules /\ rules[i].enabled /\ t \in ruleTargets(rules[i])
        BY <2>2, <2>5, <3>2
      <4>2. <<i, t>> \in refs
        BY <4>1 DEF RuleInv, RefsKept
      <4> QED BY <2>4, <3>2, <4>2
    <3> QED BY <3>1, <3>2
  <2>6. RefsKept'
    <3>1. \A ref \in refs' : ref[2] \in targets'
      BY <1>2, <1>4
    <3> QED BY <2>5, <3>1 DEF RefsKept
  <2>7. EntriesKept'
    BY <1>2, <2>2 DEF RuleInv, EntriesKept, Kept
  <2> QED BY <2>3, <2>6, <2>7 DEF RuleInv
<1> QED BY <1>3, <1>4 DEF WriteRule

(* The tags of a deleted rule stay, the work of nobody. *)
LEMMA DeleteRuleKeeps ==
  ASSUME RuleInv, NEW h \in Handler, NEW id \in RuleId, DeleteRule(h, id) PROVE RuleInv'
<1> DEFINE left(e) == [e EXCEPT !.by = {<<b[1], IF b[2] = id THEN 0 ELSE b[2]>> : b \in @}]
<1>1. /\ rules' = [i \in DOMAIN rules \ {id} |-> rules[i]] /\ refs' = {ref \in refs : ref[1] # id}
      /\ entries' = {left(e) : e \in entries} /\ Step(h, [at |-> "reload"])
      /\ UNCHANGED <<targets, snapshot, refresh, queued>>
  BY DEF DeleteRule
<1>2. DOMAIN request' = Handler /\ \A g \in Handler : RequestOk(request'[g])
  BY <1>1, RequestsOk, StepOk DEF RuleInv
<1>3. DOMAIN rules' = DOMAIN rules \ {id} /\ \A i \in DOMAIN rules' : rules'[i] = rules[i]
  BY <1>1
<1>4. RulesType'
  <2>1. IsFiniteSet(DOMAIN rules')
    BY <1>3, FS_Subset DEF RuleInv, RulesType
  <2> QED BY <1>1, <1>2, <1>3, <2>1 DEF RuleInv, RulesType
<1>5. RefsKept'
  <2>1. ASSUME NEW i \in DOMAIN rules', rules'[i].enabled, NEW t \in ruleTargets(rules'[i])
        PROVE  <<i, t>> \in refs'
    <3>1. i \in DOMAIN rules /\ i # id /\ <<i, t>> \in refs
      BY <1>3, <2>1 DEF RuleInv, RefsKept
    <3> QED BY <3>1, <1>1
  <2>2. \A ref \in refs' : ref[2] \in targets'
    BY <1>1 DEF RuleInv, RefsKept
  <2> QED BY <2>1, <2>2 DEF RefsKept
<1>6. ASSUME NEW e \in entries PROVE Kept(left(e))'
  <2>1. Attributed(e) /\ e.tags \subseteq targets /\ \A b \in e.by : b[2] \in DOMAIN rules \cup {0}
    BY DEF RuleInv, EntriesKept, Kept
  <2>2. PICK f : f = left(e)
    OBVIOUS
  <2>3. DOMAIN f = DOMAIN e /\ f.tags = e.tags
        /\ f.by = {<<b[1], IF b[2] = id THEN 0 ELSE b[2]>> : b \in e.by}
    BY <2>1, <2>2 DEF Attributed
  <2>4. \A b \in f.by : b[1] \in e.tags /\ b[2] \in (DOMAIN rules \ {id}) \cup {0}
    BY <2>1, <2>3 DEF Attributed
  <2>5. Attributed(f)
    BY <2>1, <2>3, <2>4 DEF Attributed
  <2>6. Kept(f)'
    BY <1>1, <1>3, <2>1, <2>3, <2>4, <2>5 DEF Kept
  <2> QED BY <2>2, <2>6
<1> HIDE DEF left
<1>7. EntriesKept'
  BY <1>1, <1>6 DEF RuleInv, EntriesKept
<1> QED BY <1>4, <1>5, <1>7 DEF RuleInv

(* A target goes when no reference is left, and with it what entries carried.*)
LEMMA DeleteTargetKeeps ==
  ASSUME RuleInv, NEW h \in Handler, NEW t, DeleteTarget(h, t) PROVE RuleInv'
<1> DEFINE left(e) == [e EXCEPT !.tags = @ \ {t}, !.by = {b \in @ : b[1] # t}]
<1>1. /\ \A ref \in refs : ref[2] # t
      /\ targets' = targets \ {t} /\ entries' = {left(e) : e \in entries}
      /\ UNCHANGED <<rules, refs, snapshot, request, refresh, queued>>
  BY DEF DeleteTarget
<1>2. RulesType' /\ RefsKept'
  BY <1>1 DEF RuleInv, RulesType, RefsKept
<1>3. ASSUME NEW e \in entries PROVE Kept(left(e))'
  <2>1. Attributed(e) /\ e.tags \subseteq targets /\ \A b \in e.by : b[2] \in DOMAIN rules \cup {0}
    BY DEF RuleInv, EntriesKept, Kept
  <2>2. PICK f : f = left(e)
    OBVIOUS
  <2>3. DOMAIN f = DOMAIN e /\ f.tags = e.tags \ {t} /\ f.by = {b \in e.by : b[1] # t}
    BY <2>1, <2>2 DEF Attributed
  <2>4. Attributed(f)
    BY <2>1, <2>3 DEF Attributed
  <2>5. Kept(f)'
    BY <1>1, <2>1, <2>3, <2>4 DEF Kept
  <2> QED BY <2>2, <2>5
<1> HIDE DEF left
<1>4. EntriesKept'
  BY <1>1, <1>3 DEF RuleInv, EntriesKept
<1> QED BY <1>2, <1>4 DEF RuleInv

(* A run over the history is rolled back when its rule is gone. *)
LEMMA HistoryKeeps == ASSUME RuleInv, NEW h \in Handler, ApplyRuleHistorical(h) PROVE RuleInv'
<1> DEFINE q == request[h]
           r == [id |-> q.id, condition |-> q.rule.condition, actions |-> q.rule.actions]
           done == {ApplyToEntry(r, e, 0) : e \in entries}
<1>1. /\ q.at = "apply" /\ Step(h, Idle_)
      /\ entries' = (IF \A e \in done : \A b \in e.by : b[2] \in DOMAIN rules \cup {0} THEN done ELSE entries)
      /\ UNCHANGED <<targets, rules, refs, snapshot, refresh, queued>>
  BY DEF ApplyRuleHistorical, tables
<1>2. DOMAIN request' = Handler /\ \A g \in Handler : RequestOk(request'[g])
  BY <1>1, RequestsOk, StepOk DEF RuleInv
<1>3. Performable(r.actions)
  BY <1>1, ValidPerformable DEF RuleInv, RulesType, RequestOk, RuleOk
<1> HIDE DEF r
<1>4. \A e \in entries : /\ Attributed(ApplyToEntry(r, e, 0))
                         /\ ApplyToEntry(r, e, 0).tags \subseteq targets
  BY <1>3, HistoricalTags DEF RuleInv, EntriesKept, Kept
<1>5. \A e \in done : Attributed(e) /\ e.tags \subseteq targets
  BY <1>4
<1> HIDE DEF done
<1>6. \A e \in entries' : Kept(e)
  <2>1. CASE \A e \in done : \A b \in e.by : b[2] \in DOMAIN rules \cup {0}
    BY <1>1, <1>5, <2>1 DEF Kept
  <2>2. CASE entries' = entries
    BY <2>2 DEF RuleInv, EntriesKept
  <2> QED BY <1>1, <2>1, <2>2
<1> QED BY <1>1, <1>2, <1>6 DEF RuleInv, RulesType, RefsKept, EntriesKept, Kept

(* Requests that read and install. *)
LEMMA ReloadKeeps ==
  ASSUME RuleInv, NEW h \in Handler,
         ReadRules(h) \/ InstallRules(h) \/ \E id \in RuleId : ReadForHistory(h, id)
  PROVE  RuleInv'
<1>1. UNCHANGED <<targets, rules, refs, refresh, queued, entries>>
  BY DEF ReadRules, InstallRules, ReadForHistory, tables
<1>2. CASE ReadRules(h)
  <2>1. DOMAIN request' = Handler /\ \A g \in Handler : RequestOk(request'[g])
    BY <1>2, EnabledOk, RequestsOk, StepOk DEF RuleInv, ReadRules
  <2> QED BY <1>1, <1>2, <2>1 DEF ReadRules, RuleInv, RulesType, RefsKept, EntriesKept, Kept
<1>3. CASE InstallRules(h)
  <2>1. DOMAIN request' = Handler /\ \A g \in Handler : RequestOk(request'[g])
    BY <1>3, RequestsOk, StepOk DEF RuleInv, InstallRules
  <2>2. ListOk(snapshot')
    BY <1>3 DEF InstallRules, RuleInv, RulesType, RequestOk
  <2> QED BY <1>1, <2>1, <2>2 DEF RuleInv, RulesType, RefsKept, EntriesKept, Kept
<1>4. ASSUME NEW id \in RuleId, ReadForHistory(h, id) PROVE RuleInv'
  <2>1. Step(h, [at |-> "apply", id |-> id, rule |-> rules[id]]) /\ RuleOk(rules[id]) /\ snapshot' = snapshot
    BY <1>4 DEF ReadForHistory, RuleInv, RulesType
  <2>2. DOMAIN request' = Handler /\ \A g \in Handler : RequestOk(request'[g])
    BY <2>1, RequestsOk, StepOk DEF RuleInv
  <2> QED BY <1>1, <2>1, <2>2 DEF RuleInv, RulesType, RefsKept, EntriesKept, Kept
<1> QED BY <1>2, <1>3, <1>4

(* The loop that refreshes the snapshot. *)
LEMMA RefreshKeeps == RuleInv /\ (RefreshReads \/ RefreshFails \/ RefreshInstalls) => RuleInv'
<1> SUFFICES ASSUME RuleInv, RefreshReads \/ RefreshFails \/ RefreshInstalls PROVE RuleInv'
  OBVIOUS
<1>1. UNCHANGED <<targets, rules, refs, request, queued, entries>>
  BY DEF RefreshReads, RefreshFails, RefreshInstalls, tables
<1>2. ListOk(snapshot') /\ (refresh'.at = "install" => ListOk(refresh'.list))
  <2>1. CASE RefreshReads
    BY <2>1, EnabledOk DEF RefreshReads, RuleInv, RulesType
  <2>2. CASE RefreshFails
    BY <2>2 DEF RefreshFails, RefreshAfterError, Waits, RuleInv, RulesType
  <2>3. CASE RefreshInstalls
    BY <2>3 DEF RefreshInstalls, Waits, RuleInv, RulesType
  <2> QED BY <2>1, <2>2, <2>3
<1> QED BY <1>1, <1>2 DEF RuleInv, RulesType, RefsKept, EntriesKept, Kept

(* Entries are judged, and stored with what is still there. *)
LEMMA ArriveKeeps == RuleInv /\ (InsertEntries \/ \E raw \in Raw : JudgeEntry(raw)) => RuleInv'
<1> SUFFICES ASSUME RuleInv, InsertEntries \/ \E raw \in Raw : JudgeEntry(raw) PROVE RuleInv'
  OBVIOUS
<1>1. UNCHANGED <<targets, rules, refs, snapshot, request, refresh>>
  BY DEF InsertEntries, JudgeEntry, tables
<1>2. RulesType' /\ RefsKept'
  BY <1>1 DEF RuleInv, RulesType, RefsKept
<1>3. ASSUME NEW raw \in Raw, JudgeEntry(raw) PROVE EntriesKept'
  <2>1. Attributed(raw)
    BY RuleAssumption DEF RuleAssumption, Attributed
  <2>2. Attributed(Apply(snapshot, raw, 0))
    BY <2>1, ApplyTags DEF RuleInv, RulesType
  <2> QED BY <1>1, <1>3, <2>2 DEF JudgeEntry, RuleInv, EntriesKept, Kept
<1>4. CASE InsertEntries
  <2>1. ASSUME NEW e \in queued PROVE Kept(Stored_(e))
    <3>1. Attributed(e)
      BY DEF RuleInv, EntriesKept
    <3>2. PICK f : f = Stored_(e)
      OBVIOUS
    <3>3. DOMAIN f = DOMAIN e /\ f.tags = e.tags \cap targets
          /\ f.by = {<<b[1], IF b[2] \in DOMAIN rules THEN b[2] ELSE 0>> : b \in {x \in e.by : x[1] \in targets}}
      BY <3>1, <3>2 DEF Attributed, Stored_
    <3>4. \A b \in f.by : b[1] \in f.tags /\ b[2] \in DOMAIN rules \cup {0}
      BY <3>1, <3>3 DEF Attributed
    <3>5. Kept(f)
      BY <3>1, <3>3, <3>4 DEF Attributed, Kept
    <3> QED BY <3>2, <3>5
  <2>2. \A e \in entries' : Kept(e)
    BY <1>4, <2>1 DEF InsertEntries, RuleInv, EntriesKept
  <2>3. queued' = {}
    BY <1>4 DEF InsertEntries
  <2>4. EntriesKept'
    BY <1>1, <2>2, <2>3 DEF EntriesKept, Kept
  <2> QED BY <1>2, <2>4 DEF RuleInv
<1> QED BY <1>2, <1>3, <1>4 DEF RuleInv

(* Triage by hand. *)
LEMMA TriageKept == ASSUME RuleInv, NEW e \in entries, Triage(e) PROVE RuleInv'
<1>1. Kept(e) /\ Attributed(e)
  BY DEF RuleInv, EntriesKept, Kept
<1>2. ASSUME NEW f, Retouched(e, f), Kept(f) PROVE RuleInv'
  <2>1. entries' = (entries \ {e}) \cup {f}
        /\ UNCHANGED <<targets, rules, refs, snapshot, request, refresh, queued>>
    BY <1>2 DEF Retouched, tables
  <2>2. \A x \in entries' : Kept(x)
    BY <1>2, <2>1 DEF RuleInv, EntriesKept
  <2> QED BY <2>1, <2>2 DEF RuleInv, RulesType, RefsKept, EntriesKept, Kept
<1>3. ASSUME NEW p, Retouched(e, [e EXCEPT !.priority = p]) PROVE RuleInv'
  <2>1. Kept([e EXCEPT !.priority = p])
    BY <1>1 DEF Kept, Attributed
  <2> QED BY <1>2, <1>3, <2>1
<1>4. ASSUME NEW t, TagEntry(e, t) PROVE RuleInv'
  <2> DEFINE f == [e EXCEPT !.tags = @ \cup {t}, !.by = @ \cup {<<t, 0>>}]
  <2>1. t \in targets /\ (Retouched(e, e) \/ Retouched(e, f))
    BY <1>4 DEF TagEntry
  <2>2. DOMAIN f = DOMAIN e /\ f.tags = e.tags \cup {t} /\ f.by = e.by \cup {<<t, 0>>}
    BY <1>1 DEF Attributed
  <2> HIDE DEF f
  <2>3. Kept(f)
    BY <1>1, <2>1, <2>2 DEF Kept, Attributed
  <2> QED BY <1>1, <1>2, <2>1, <2>3
<1>5. ASSUME NEW t, UntagEntry(e, t) PROVE RuleInv'
  <2> DEFINE f == [e EXCEPT !.tags = @ \ {t}, !.by = {b \in @ : b[1] # t}]
  <2>1. Retouched(e, f)
    BY <1>5 DEF UntagEntry
  <2>2. DOMAIN f = DOMAIN e /\ f.tags = e.tags \ {t} /\ f.by = {b \in e.by : b[1] # t}
    BY <1>1 DEF Attributed
  <2> HIDE DEF f
  <2>3. Kept(f)
    BY <1>1, <2>2 DEF Kept, Attributed
  <2> QED BY <1>2, <2>1, <2>3
<1>6. ASSUME NEW code, NEW add, ClassifyEntry(e, code, add) PROVE RuleInv'
  <2> DEFINE f == [e EXCEPT !.mitre = IF add THEN @ \cup {code} ELSE @ \ {code}]
  <2>1. Kept(f)
    BY <1>1 DEF Kept, Attributed
  <2>2. Retouched(e, f)
    BY <1>6 DEF ClassifyEntry
  <2> QED BY <1>2, <2>1, <2>2
<1> QED BY <1>3, <1>4, <1>5, <1>6 DEF Triage, PatchEntry

(* Every step keeps the invariant. *)
LEMMA RuleStep == RuleInv /\ [RuleNext]_ruleVars => RuleInv'
<1> SUFFICES ASSUME RuleInv, [RuleNext]_ruleVars PROVE RuleInv'
  OBVIOUS
<1>1. CASE UNCHANGED ruleVars
  BY <1>1 DEF ruleVars, RuleInv, RulesType, RefsKept, EntriesKept, Kept
<1>2. ASSUME NEW h \in Handler, HandlerNext(h) PROVE RuleInv'
  BY <1>2, CheckKeeps, WriteKeeps, DeleteRuleKeeps, DeleteTargetKeeps, HistoryKeeps, ReloadKeeps
     DEF HandlerNext
<1> QED BY <1>1, <1>2, RefreshKeeps, ArriveKeeps, TriageKept DEF RuleNext

(* However edits of rules, tags and channels, runs over the history, triage  *)
(* and arriving entries interleave, nothing dangles (api/crud.go:            *)
(* ruleRefsExist; store/rules.go: writeRuleRefs, DeleteRule,                 *)
(* ApplyRuleHistorical; store/tags.go: DeleteTag; store/store.go:            *)
(* InsertEntries).                                                           *)
THEOREM NothingDangles == RuleSpec => []NoDangling
<1>1. RuleSpec => []RuleInv
  BY RuleStart, RuleStep, PTL DEF RuleSpec
<1>2. RuleInv => NoDangling
  BY DEF RuleInv, RefsKept, EntriesKept, Kept, Attributed, NoDangling
<1> QED BY <1>1, <1>2, PTL

-----------------------------------------------------------------------------
(* The past and the future. *)

(* A stored entry notifies nobody. *)
Quiet(e) == [e EXCEPT !.notifies = <<>>]

(* An action makes the same of a stored entry as of one that arrives.        *)
LEMMA ActQuiet ==
  ASSUME NEW a, a.type \in ActionTypes, a.type = "tag" => a.arg \in targets,
         NEW id, NEW e, {"tags", "by", "notifies"} \subseteq DOMAIN e
  PROVE  ApplyAction(a, id, Quiet(e)) = Quiet(Act(a, id, e)) /\ DOMAIN Act(a, id, e) = DOMAIN e
<1> DEFINE q == Quiet(e)
<1>1. DOMAIN q = DOMAIN e /\ q.tags = e.tags /\ q.by = e.by
  BY DEF Quiet
<1>2. CASE a.type = "notify"
  BY <1>2 DEF ApplyAction, Act, Quiet
<1>3. CASE a.type = "tag"
  <2>1. CASE a.arg \in e.tags
    BY <1>1, <1>3, <2>1 DEF ApplyAction, Act
  <2>2. CASE a.arg \notin e.tags
    <3>1. ApplyAction(a, id, q) = [q EXCEPT !.tags = @ \cup {a.arg}, !.by = @ \cup {<<a.arg, id>>}]
      BY <1>1, <1>3, <2>2 DEF ApplyAction, Act
    <3>2. Act(a, id, e) = [e EXCEPT !.tags = @ \cup {a.arg}, !.by = @ \cup {<<a.arg, id>>}]
      BY <1>3, <2>2 DEF Act
    <3> QED BY <3>1, <3>2 DEF Quiet
  <2> QED BY <2>1, <2>2
<1>4. CASE a.type = "set_priority"
  BY <1>4 DEF ApplyAction, Act, Quiet
<1>5. CASE a.type = "suppress"
  BY <1>5 DEF ApplyAction, Act, Quiet
<1>6. CASE a.type = "set_mitre"
  BY <1>6 DEF ApplyAction, Act, Quiet
<1>7. CASE a.type = "set_ot"
  BY <1>7 DEF ApplyAction, Act, Quiet
<1> QED BY <1>2, <1>3, <1>4, <1>5, <1>6, <1>7 DEF ActionTypes

(* So do the actions of a rule, on an entry that its condition selects both  *)
(* ways or neither.                                                          *)
LEMMA RuleQuiet ==
  ASSUME NEW r, Performable(r.actions), ruleTargets(r) \subseteq targets,
         NEW e, {"tags", "by", "notifies"} \subseteq DOMAIN e,
         InMemory(r.condition, e, 0) <=> InSQL(r.condition, Quiet(e), 0)
  PROVE  LET f == IF InMemory(r.condition, e, 0) THEN Acted(r, e) ELSE e IN
         ApplyToEntry(r, Quiet(e), 0) = Quiet(f) /\ DOMAIN f = DOMAIN e
<1> DEFINE m == Len(r.actions)
<1>1. m \in Nat /\ DOMAIN r.actions = 1..m /\ \A n \in 1..m : r.actions[n].type \in ActionTypes
  BY DEF Performable
<1>2. \A n \in 1..m : r.actions[n].type = "tag" => r.actions[n].arg \in targets
  BY <1>1 DEF ruleTargets
<1>3. PICK g : /\ g[0] = e /\ Acted(r, e) = g[m]
               /\ \A n \in 1..m : g[n] = Act(r.actions[n], r.id, g[n - 1])
  <2>1. Len(r.actions) \in Nat
    BY <1>1
  <2> QED BY <2>1, ActedSteps, SMTT(20)
<1>4. PICK q : q = Quiet(e)
  OBVIOUS
<1>5. PICK h : PastRun(h, r, q, 0)
  <2>1. Len(r.actions) \in Nat
    BY <1>1
  <2> QED BY ONLY <2>1, HistoricalSteps
<1>6. /\ h[0] = q
      /\ InSQL(r.condition, q, 0) => ApplyToEntry(r, q, 0) = h[m]
      /\ ~InSQL(r.condition, q, 0) => ApplyToEntry(r, q, 0) = q
      /\ \A n \in 1..m : h[n] = ApplyAction(r.actions[n], r.id, h[n - 1])
  BY <1>5 DEF PastRun
<1> HIDE DEF m
<1> DEFINE S == {n \in Nat : n <= m => h[n] = Quiet(g[n]) /\ DOMAIN g[n] = DOMAIN e}
<1>7. 0 \in S
  BY <1>3, <1>6, <1>4
<1>8. ASSUME NEW n \in Nat, n \in S PROVE n + 1 \in S
  <2> SUFFICES ASSUME n + 1 <= m PROVE h[n + 1] = Quiet(g[n + 1]) /\ DOMAIN g[n + 1] = DOMAIN e
    OBVIOUS
  <2>1. n + 1 \in 1..m /\ (n + 1) - 1 = n /\ n <= m
    BY <1>1
  <2>2. PICK a : a = r.actions[n + 1]
    OBVIOUS
  <2>3. g[n + 1] = Act(a, r.id, g[n]) /\ h[n + 1] = ApplyAction(a, r.id, h[n])
    BY <1>3, <1>6, <2>1, <2>2
  <2>4. h[n] = Quiet(g[n]) /\ DOMAIN g[n] = DOMAIN e
    BY <1>8, <2>1
  <2>5. a.type \in ActionTypes /\ (a.type = "tag" => a.arg \in targets)
    BY <1>1, <1>2, <2>1, <2>2
  <2>6. ApplyAction(a, r.id, Quiet(g[n])) = Quiet(Act(a, r.id, g[n])) /\ DOMAIN Act(a, r.id, g[n]) = DOMAIN g[n]
    BY <2>4, <2>5, ActQuiet
  <2> QED BY <2>3, <2>4, <2>6
<1>9. h[m] = Quiet(g[m]) /\ DOMAIN g[m] = DOMAIN e
  <2>1. m \in S
    <3> HIDE DEF S
    <3> QED BY <1>1, <1>7, <1>8, Counting
  <2> QED BY <1>1, <2>1
<1> QED BY <1>3, <1>6, <1>9, <1>4

(* The replay of a list goes from one rule to the next. *)
LEMMA ReplayedSteps ==
  ASSUME NEW list, NEW raw, Len(list) \in Nat
  PROVE  \E g : /\ g[0] = raw
                /\ Replayed(list, raw) = g[Len(list)]
                /\ \A n \in 1..Len(list) : g[n] = ApplyToEntry(list[n], g[n - 1], 0)
<1> DEFINE step(n, x) == ApplyToEntry(list[n], x, 0)
           m == Len(list)
           S == {n \in Nat : \E g : g = [k \in 0..n |-> IF k = 0 THEN raw ELSE step(k, g[k - 1])]}
           done == CHOOSE g : g = [k \in 0..m |-> IF k = 0 THEN raw ELSE step(k, g[k - 1])]
<1>1. Replayed(list, raw) = done[m]
  BY DEF Replayed
<1> HIDE DEF step
<1>2. 0 \in S
  <2> DEFINE g == [k \in 0..0 |-> raw]
  <2>1. g = [k \in 0..0 |-> IF k = 0 THEN raw ELSE step(k, g[k - 1])]
    OBVIOUS
  <2> HIDE DEF g
  <2> QED BY <2>1
<1>3. ASSUME NEW n \in Nat, n \in S PROVE n + 1 \in S
  <2>1. PICK g : g = [k \in 0..n |-> IF k = 0 THEN raw ELSE step(k, g[k - 1])]
    BY <1>3
  <2> DEFINE h == [k \in 0..(n + 1) |-> IF k <= n THEN g[k] ELSE step(n + 1, g[n])]
  <2>2. \A k \in 0..(n + 1) : h[k] = IF k <= n THEN g[k] ELSE step(n + 1, g[n])
    OBVIOUS
  <2>3. \A k \in 0..n : g[k] = IF k = 0 THEN raw ELSE step(k, g[k - 1])
    BY <2>1
  <2>4. DOMAIN h = 0..(n + 1) /\ h = [k \in 0..(n + 1) |-> h[k]]
    OBVIOUS
  <2> HIDE DEF h
  <2>5. ASSUME NEW k \in 0..(n + 1) PROVE h[k] = IF k = 0 THEN raw ELSE step(k, h[k - 1])
    <3>1. CASE k = 0
      BY <2>2, <2>3, <3>1
    <3>2. CASE k # 0 /\ k <= n
      <4>1. k \in 0..n /\ k - 1 \in 0..(n + 1) /\ k - 1 <= n
        BY <3>2
      <4>2. h[k - 1] = g[k - 1] /\ h[k] = g[k]
        BY <4>1, <3>2, <2>2
      <4> QED BY <4>1, <4>2, <3>2, <2>3
    <3>3. CASE k = n + 1
      <4>1. n \in 0..(n + 1) /\ k - 1 = n /\ ~(k <= n) /\ k # 0
        BY <3>3
      <4>2. h[n] = g[n] /\ h[k] = step(n + 1, g[n])
        BY <4>1, <2>2
      <4> QED BY <4>1, <4>2, <3>3
    <3> QED BY <3>1, <3>2, <3>3
  <2>6. h = [k \in 0..(n + 1) |-> IF k = 0 THEN raw ELSE step(k, h[k - 1])]
    BY <2>4, <2>5
  <2> QED BY <2>6
<1>4. m \in S
  <2> HIDE DEF S
  <2> QED BY <1>2, <1>3, Counting
<1>5. done = [k \in 0..m |-> IF k = 0 THEN raw ELSE step(k, done[k - 1])]
  BY <1>4
<1> HIDE DEF done
<1>6. \A k \in 0..m : done[k] = IF k = 0 THEN raw ELSE step(k, done[k - 1])
  BY <1>5
<1>7. done[0] = raw /\ \A k \in 1..m : done[k] = step(k, done[k - 1])
  BY <1>6
<1> QED BY <1>1, <1>7 DEF step

(* Conditions mean the same in memory and in SQL, and look at no             *)
(* notification: what MatchAgrees checks.                                    *)
SameConditions(Entry) ==
  \A r \in RuleBody, e \in Entry :
    validRule(r) => InMemory(r.condition, e, 0) <=> InSQL(r.condition, Quiet(e), 0)

(* A set of entries, as they arrive and as actions of the rules make them.   *)
ClosedUnderRules(Entry) ==
  /\ Raw \subseteq Entry
  /\ \A r \in RuleBody, id \in RuleId, e \in Entry :
       validRule(r) => \A i \in DOMAIN r.actions : Act(r.actions[i], id, e) \in Entry

(* A rule leaves such a set by none of its actions. *)
LEMMA ActedWithin ==
  ASSUME NEW Entry, ClosedUnderRules(Entry), NEW x, Carried(x), NEW e \in Entry PROVE Acted(x, e) \in Entry
<1> DEFINE m == Len(x.actions)
<1>1. PICK r \in RuleBody : validRule(r) /\ x.actions = r.actions
  BY DEF Carried
<1>2. m \in Nat /\ DOMAIN x.actions = 1..m
  BY <1>1, ValidPerformable DEF Performable
<1>3. \A f \in Entry : \A i \in 1..m : Act(x.actions[i], x.id, f) \in Entry
  BY <1>1, <1>2 DEF ClosedUnderRules, Carried
<1>4. PICK g : /\ g[0] = e /\ Acted(x, e) = g[m]
               /\ \A n \in 1..m : g[n] = Act(x.actions[n], x.id, g[n - 1])
  BY <1>2, ActedSteps
<1> HIDE DEF m
<1> DEFINE S == {n \in Nat : n <= m => g[n] \in Entry}
<1>5. 0 \in S
  BY <1>4
<1>6. ASSUME NEW n \in Nat, n \in S PROVE n + 1 \in S
  <2> SUFFICES ASSUME n + 1 <= m PROVE g[n + 1] \in Entry
    OBVIOUS
  <2>1. n + 1 \in 1..m /\ (n + 1) - 1 = n /\ n <= m
    BY <1>2
  <2>2. g[n] \in Entry /\ g[n + 1] = Act(x.actions[n + 1], x.id, g[n])
    BY <1>4, <1>6, <2>1
  <2> QED BY <1>3, <2>1, <2>2
<1>7. m \in S
  <2> HIDE DEF S
  <2> QED BY <1>2, <1>5, <1>6, Counting
<1> QED BY <1>2, <1>4, <1>7

(* One rule after the other makes the same of both. *)
LEMMA ListQuiet ==
  ASSUME NEW Entry, ClosedUnderRules(Entry), SameConditions(Entry), NEW list, ListOk(list),
         \A k \in DOMAIN list : ruleTargets(list[k]) \subseteq targets, NEW raw \in Raw
  PROVE  Replayed(list, raw) = Quiet(Apply(list, raw, 0))
<1> DEFINE m == Len(list)
<1>1. m \in Nat /\ DOMAIN list = 1..m /\ \A n \in 1..m : Carried(list[n])
  BY DEF ListOk
<1>2. raw \in Entry /\ {"tags", "by", "notifies"} \subseteq DOMAIN raw /\ raw = Quiet(raw)
  <2>1. {"tags", "by", "notifies"} \subseteq DOMAIN raw /\ raw = [raw EXCEPT !.tags = {}, !.by = {}, !.notifies = <<>>]
    BY RuleAssumption DEF RuleAssumption
  <2> QED BY <2>1 DEF Quiet, ClosedUnderRules
<1>3. PICK g : /\ g[0] = raw
               /\ Apply(list, raw, 0) = IF g[m].suppressed THEN [g[m] EXCEPT !.notifies = <<>>] ELSE g[m]
               /\ \A n \in 1..m :
                    g[n] = IF InMemory(list[n].condition, g[n - 1], 0) THEN Acted(list[n], g[n - 1]) ELSE g[n - 1]
  BY <1>1, ApplySteps
<1>4. PICK h : /\ h[0] = raw /\ Replayed(list, raw) = h[m]
               /\ \A n \in 1..m : h[n] = ApplyToEntry(list[n], h[n - 1], 0)
  <2>1. Len(list) \in Nat
    BY <1>1
  <2>2. \E h : /\ h[0] = raw /\ Replayed(list, raw) = h[Len(list)]
               /\ \A n \in 1..Len(list) : h[n] = ApplyToEntry(list[n], h[n - 1], 0)
    BY <2>1, ReplayedSteps
  <2> QED BY <2>2, Zenon
<1> HIDE DEF m
<1> DEFINE S == {n \in Nat : n <= m => /\ h[n] = Quiet(g[n]) /\ g[n] \in Entry
                                      /\ {"tags", "by", "notifies"} \subseteq DOMAIN g[n]}
<1>5. 0 \in S
  BY <1>2, <1>3, <1>4
<1>6. ASSUME NEW n \in Nat, n \in S PROVE n + 1 \in S
  <2> SUFFICES ASSUME n + 1 <= m
               PROVE  /\ h[n + 1] = Quiet(g[n + 1]) /\ g[n + 1] \in Entry
                      /\ {"tags", "by", "notifies"} \subseteq DOMAIN g[n + 1]
    OBVIOUS
  <2>1. n + 1 \in 1..m /\ (n + 1) - 1 = n /\ n <= m
    BY <1>1
  <2>2. PICK x : x = list[n + 1]
    OBVIOUS
  <2>3. h[n] = Quiet(g[n]) /\ g[n] \in Entry /\ {"tags", "by", "notifies"} \subseteq DOMAIN g[n]
    BY <1>6, <2>1
  <2>4. h[n + 1] = ApplyToEntry(x, Quiet(g[n]), 0)
        /\ g[n + 1] = IF InMemory(x.condition, g[n], 0) THEN Acted(x, g[n]) ELSE g[n]
    BY <1>3, <1>4, <2>1, <2>2, <2>3
  <2>5. Carried(x) /\ ruleTargets(x) \subseteq targets
    BY <1>1, <2>1, <2>2
  <2>6. PICK r \in RuleBody : validRule(r) /\ x.condition = r.condition /\ x.actions = r.actions
    BY <2>5 DEF Carried
  <2>7. Performable(x.actions) /\ (InMemory(x.condition, g[n], 0) <=> InSQL(x.condition, Quiet(g[n]), 0))
    BY <2>3, <2>6, ValidPerformable DEF SameConditions
  <2>8. ApplyToEntry(x, Quiet(g[n]), 0) = Quiet(g[n + 1]) /\ DOMAIN g[n + 1] = DOMAIN g[n]
    BY <2>3, <2>4, <2>5, <2>7, RuleQuiet
  <2>9. g[n + 1] \in Entry
    BY <2>3, <2>4, <2>5, ActedWithin
  <2> QED BY <2>3, <2>4, <2>8, <2>9
<1>7. h[m] = Quiet(g[m])
  <2>1. m \in S
    <3> HIDE DEF S
    <3> QED BY <1>1, <1>5, <1>6, Counting
  <2> QED BY <1>1, <2>1
<1>8. Quiet(Quiet(g[m])) = Quiet(g[m])
  BY DEF Quiet
<1> QED BY <1>3, <1>4, <1>7, <1>8 DEF Quiet

(* The rules of the snapshot treat the past as the future, for every rule    *)
(* set, when conditions mean the same in memory and in SQL (engine.go: Apply;*)
(* store/rules.go: ApplyRuleHistorical).                                     *)
THEOREM PastAsFuture ==
  ASSUME NEW Entry, ClosedUnderRules(Entry), SameConditions(Entry)
  PROVE  RuleSpec => []HistoryAgrees
<1>1. RuleSpec => []RuleInv
  BY RuleStart, RuleStep, PTL DEF RuleSpec
<1>2. RuleInv => HistoryAgrees
  BY ListQuiet DEF RuleInv, RulesType, HistoryAgrees, Quiet
<1> QED BY <1>1, <1>2, PTL

-----------------------------------------------------------------------------
(* NetClass: sets flag what they should, and counts agree with lists.        *)

(* A function followed round by round from e.                                *)
LEMMA Rounds ==
  ASSUME NEW S, NEW e \in S, NEW F \in [S -> S], NEW m \in Nat
  PROVE  \E g \in [0..m -> S] : g = [k \in 0..m |-> IF k = 0 THEN e ELSE F[g[k - 1]]]
<1> DEFINE T == {n \in Nat : \E g \in [0..n -> S] : g = [k \in 0..n |-> IF k = 0 THEN e ELSE F[g[k - 1]]]}
<1>1. 0 \in T
  <2> DEFINE g == [k \in 0..0 |-> e]
  <2>1. g \in [0..0 -> S] /\ \A k \in 0..0 : g[k] = IF k = 0 THEN e ELSE F[g[k - 1]]
    OBVIOUS
  <2> HIDE DEF g
  <2>2. g = [k \in 0..0 |-> IF k = 0 THEN e ELSE F[g[k - 1]]]
    BY <2>1
  <2> QED BY <2>1, <2>2
<1>2. ASSUME NEW n \in Nat, n \in T PROVE n + 1 \in T
  <2>1. PICK g \in [0..n -> S] : g = [k \in 0..n |-> IF k = 0 THEN e ELSE F[g[k - 1]]]
    BY <1>2
  <2>2. \A k \in 0..n : g[k] = IF k = 0 THEN e ELSE F[g[k - 1]]
    BY <2>1
  <2> DEFINE h == [k \in 0..(n + 1) |-> IF k <= n THEN g[k] ELSE F[g[n]]]
  <2>3. h \in [0..(n + 1) -> S] /\ (\A k \in 0..n : h[k] = g[k]) /\ h[n + 1] = F[g[n]]
    OBVIOUS
  <2> HIDE DEF h
  <2>4. ASSUME NEW k \in 0..(n + 1) PROVE h[k] = IF k = 0 THEN e ELSE F[h[k - 1]]
    <3>1. CASE k = 0
      BY <2>2, <2>3, <3>1
    <3>2. CASE k # 0 /\ k <= n
      <4>1. k \in 0..n /\ k - 1 \in 0..n
        BY <3>2
      <4> QED BY <2>2, <2>3, <3>2, <4>1
    <3>3. CASE k = n + 1
      <4>1. n \in 0..n /\ k - 1 = n /\ k # 0
        BY <3>3
      <4> QED BY <2>3, <3>3, <4>1
    <3> QED BY <3>1, <3>2, <3>3
  <2>5. h = [k \in 0..(n + 1) |-> IF k = 0 THEN e ELSE F[h[k - 1]]]
    BY <2>3, <2>4
  <2> QED BY <2>3, <2>5
<1> QED
  <2> HIDE DEF T
  <2>1. m \in T
    BY <1>1, <1>2, Counting
  <2> QED BY <2>1 DEF T

(* A compiled set is a list of ranges, whose ends are numbers.               *)
LEMMA RangesAre ==
  ASSUME NEW rs, IsSet(rs)
  PROVE  /\ Len(rs) \in Nat /\ DOMAIN rs = 1..Len(rs)
         /\ \A a \in Addr : a \in Int
         /\ \A i \in 1..Len(rs) : rs[i].first \in Int /\ rs[i].last \in Int
<1>1. \A a \in Addr : a \in Int
  BY DEF Addr
<1> DEFINE R == [first : Addr, last : Addr]
<1>2. rs \in Seq(R)
  BY DEF IsSet
<1> HIDE DEF R
<1>3. Len(rs) \in Nat /\ DOMAIN rs = 1..Len(rs)
  BY <1>2
<1>4. \A i \in 1..Len(rs) : rs[i] \in R
  BY <1>2, <1>3
<1>5. \A i \in 1..Len(rs) : rs[i].first \in Addr /\ rs[i].last \in Addr
  BY <1>4 DEF R
<1> QED BY <1>1, <1>3, <1>5

(* What the search knows of its bounds.                                      *)
Bounded(rs, a, b) ==
  /\ b.lo \in 0..Len(rs) /\ b.hi \in 0..Len(rs) /\ b.lo <= b.hi
  /\ \A i \in 1..b.lo : rs[i].first <= a
  /\ \A i \in (b.hi + 1)..Len(rs) : a < rs[i].first

(* A round keeps that, and brings the bounds closer.                         *)
LEMMA HalveCloser ==
  ASSUME NEW rs, IsSet(rs), NEW a \in Addr, NEW b \in [lo : 0..Len(rs), hi : 0..Len(rs)], Bounded(rs, a, b)
  PROVE  /\ Bounded(rs, a, Halve(rs, a, b))
         /\ LET c == Halve(rs, a, b) IN c.lo = c.hi \/ c.hi - c.lo < b.hi - b.lo
<1> DEFINE n == Len(rs)
           mid == (b.lo + b.hi) \div 2
<1>1. /\ n \in Nat /\ DOMAIN rs = 1..n /\ a \in Int
      /\ \A i \in 1..n : rs[i].first \in Int
  BY RangesAre
<1>2. \A i, j \in 1..n : i <= j => rs[i].first <= rs[j].first
  BY <1>1 DEF IsSet, InOrder
<1>3. b.lo \in 0..n /\ b.hi \in 0..n /\ b.lo <= b.hi
  BY DEF Bounded
<1>4. CASE b.lo >= b.hi
  <2>1. Halve(rs, a, b) = b
    BY <1>4 DEF Halve
  <2> QED BY <1>3, <1>4, <2>1
<1>5. CASE b.lo < b.hi
  <2>1. mid \in b.lo..(b.hi - 1) /\ mid + 1 \in 1..n
    BY <1>1, <1>3, <1>5
  <2>2. ~(b.lo >= b.hi)
    BY <1>1, <1>3, <1>5
  <2> HIDE DEF mid
  <2>3. CASE rs[mid + 1].first <= a
    <3> DEFINE c == [lo |-> mid + 1, hi |-> b.hi]
    <3>1. Halve(rs, a, b) = c
      BY <2>2, <2>3 DEF Halve, mid
    <3>2. c.lo = mid + 1 /\ c.hi = b.hi
      OBVIOUS
    <3> HIDE DEF c
    <3>3. \A i \in 1..(mid + 1) : rs[i].first <= a
      BY <1>1, <1>2, <2>1, <2>3
    <3>4. Bounded(rs, a, c)
      BY <1>1, <1>3, <2>1, <3>2, <3>3 DEF Bounded
    <3> QED BY <1>1, <1>3, <2>1, <3>1, <3>2, <3>4
  <2>4. CASE ~(rs[mid + 1].first <= a)
    <3> DEFINE c == [lo |-> b.lo, hi |-> mid]
    <3>1. Halve(rs, a, b) = c
      BY <2>2, <2>4 DEF Halve, mid
    <3>2. c.lo = b.lo /\ c.hi = mid
      OBVIOUS
    <3> HIDE DEF c
    <3>3. \A i \in (mid + 1)..n : a < rs[i].first
      BY <1>1, <1>2, <2>1, <2>4
    <3>4. Bounded(rs, a, c)
      BY <1>1, <1>3, <2>1, <3>2, <3>3 DEF Bounded
    <3> QED BY <1>1, <1>3, <2>1, <3>1, <3>2, <3>4
  <2> QED BY <2>3, <2>4
<1> QED BY <1>1, <1>3, <1>4, <1>5

(* The search ends at the rightmost range that starts at or before a.        *)
LEMMA SearchEnds ==
  ASSUME NEW rs, IsSet(rs), NEW a \in Addr
  PROVE  \E lo \in 0..Len(rs) :
           /\ SetContains(rs, a) <=> lo > 0 /\ rs[lo].last >= a
           /\ \A i \in 1..lo : rs[i].first <= a
           /\ \A i \in (lo + 1)..Len(rs) : a < rs[i].first
<1> DEFINE n == Len(rs)
           S == [lo : 0..n, hi : 0..n]
           G == {b \in S : Bounded(rs, a, b)}
           e == [lo |-> 0, hi |-> n]
           F == [b \in G |-> Halve(rs, a, b)]
           IsSearch(g) == g = [k \in 0..n |-> IF k = 0 THEN e ELSE Halve(rs, a, g[k - 1])]
           search == CHOOSE g : IsSearch(g)
<1>1. n \in Nat
  BY DEF IsSet
<1>2. e \in G
  BY <1>1 DEF Bounded
<1>3. \A b \in G : Halve(rs, a, b) \in G
  <2> TAKE b \in G
  <2>1. Bounded(rs, a, Halve(rs, a, b))
    BY HalveCloser
  <2>2. Halve(rs, a, b) \in {b, [lo |-> ((b.lo + b.hi) \div 2) + 1, hi |-> b.hi], [lo |-> b.lo, hi |-> (b.lo + b.hi) \div 2]}
    BY DEF Halve
  <2>3. Halve(rs, a, b).lo \in 0..n /\ Halve(rs, a, b).hi \in 0..n
    BY <2>1 DEF Bounded
  <2>4. Halve(rs, a, b) \in S
    <3>1. CASE Halve(rs, a, b) = b
      BY <3>1
    <3>2. ASSUME NEW x, NEW y, Halve(rs, a, b) = [lo |-> x, hi |-> y] PROVE Halve(rs, a, b) \in S
      BY <2>3, <3>2
    <3> QED BY <2>2, <3>1, <3>2
  <2> QED BY <2>1, <2>4
<1> HIDE DEF G
<1>4. \E g \in [0..n -> G] : IsSearch(g)
  <2>1. F \in [G -> G]
    BY <1>3
  <2>2. PICK g \in [0..n -> G] : g = [k \in 0..n |-> IF k = 0 THEN e ELSE F[g[k - 1]]]
    <3> HIDE DEF F, e, n
    <3> QED BY <1>1, <1>2, <2>1, Rounds
  <2>3. \A k \in 0..n : g[k] = IF k = 0 THEN e ELSE F[g[k - 1]]
    BY <2>2
  <2>4. \A k \in 0..n : k # 0 => F[g[k - 1]] = Halve(rs, a, g[k - 1])
    <3> SUFFICES ASSUME NEW k \in 0..n, k # 0 PROVE F[g[k - 1]] = Halve(rs, a, g[k - 1])
      OBVIOUS
    <3>1. g[k - 1] \in G
      BY <1>1
    <3> QED BY <3>1
  <2>5. \A k \in 0..n : g[k] = IF k = 0 THEN e ELSE Halve(rs, a, g[k - 1])
    BY <2>3, <2>4
  <2>6. IsSearch(g)
    BY <2>5
  <2> QED BY <2>6
<1>5. IsSearch(search)
  BY <1>4
<1>6. SetContains(rs, a) <=> search[n].lo > 0 /\ rs[search[n].lo].last >= a
  BY DEF SetContains
<1> HIDE DEF search, F
<1>7. \A k \in 0..n : search[k] = IF k = 0 THEN e ELSE Halve(rs, a, search[k - 1])
  BY <1>5
<1> HIDE DEF IsSearch
<1> DEFINE T == {k \in Nat : k <= n => search[k] \in G
                                      /\ (search[k].lo = search[k].hi \/ search[k].hi - search[k].lo <= n - k)}
<1>8. 0 \in T
  <2>1. search[0] = e
    BY <1>1, <1>7
  <2> QED BY <1>1, <1>2, <2>1
<1>9. ASSUME NEW k \in Nat, k \in T PROVE k + 1 \in T
  <2> SUFFICES ASSUME k + 1 <= n
               PROVE  /\ search[k + 1] \in G
                      /\ search[k + 1].lo = search[k + 1].hi \/ search[k + 1].hi - search[k + 1].lo <= n - (k + 1)
    OBVIOUS
  <2> DEFINE b == search[k]
             c == Halve(rs, a, b)
  <2>1. b \in G /\ (b.lo = b.hi \/ b.hi - b.lo <= n - k)
    BY <1>1, <1>9
  <2>2. search[k + 1] = c
    BY <1>1, <1>7
  <2> HIDE DEF b
  <2>3. b \in S /\ Bounded(rs, a, b)
    BY <2>1 DEF G
  <2>4. c \in G /\ (c.lo = c.hi \/ c.hi - c.lo < b.hi - b.lo)
    BY <1>3, <2>1, <2>3, HalveCloser
  <2> HIDE DEF c
  <2>5. c.lo \in 0..n /\ c.hi \in 0..n /\ c.lo <= c.hi /\ b.lo \in 0..n /\ b.hi \in 0..n /\ b.lo <= b.hi
    BY <2>3, <2>4 DEF G, Bounded
  <2>6. c.lo = c.hi \/ c.hi - c.lo <= n - (k + 1)
    BY <1>1, <2>1, <2>4, <2>5
  <2> QED BY <2>2, <2>4, <2>6
<1>10. n \in T
  <2> HIDE DEF T
  <2> QED BY <1>1, <1>8, <1>9, Counting
<1>11. Bounded(rs, a, search[n]) /\ search[n].lo = search[n].hi
  <2>1. search[n] \in G /\ (search[n].lo = search[n].hi \/ search[n].hi - search[n].lo <= n - n)
    BY <1>1, <1>10
  <2>2. search[n].lo \in 0..n /\ search[n].hi \in 0..n /\ search[n].lo <= search[n].hi
    BY <2>1 DEF G, Bounded
  <2> QED BY <1>1, <2>1, <2>2 DEF G
<1> QED BY <1>6, <1>11 DEF Bounded

(* A set flags no address outside its ranges, and misses one only if a range *)
(* lies within another.                                                      *)
LEMMA SetsSound ==
  ASSUME NEW rs, IsSet(rs)
  PROVE  SetSound(rs)
<1> SUFFICES ASSUME NEW a \in Addr
             PROVE  LET in == \E i \in DOMAIN rs : Within(rs[i], a) IN
                    /\ SetContains(rs, a) => in
                    /\ in => \/ SetContains(rs, a)
                             \/ \E i, j \in DOMAIN rs : i # j /\ Within(rs[i], rs[j].first)
  BY DEF SetSound
<1>1. /\ Len(rs) \in Nat /\ DOMAIN rs = 1..Len(rs) /\ a \in Int
      /\ \A i \in 1..Len(rs) : rs[i].first \in Int /\ rs[i].last \in Int
      /\ \A i, j \in 1..Len(rs) : i < j => rs[i].first <= rs[j].first
  BY RangesAre DEF IsSet, InOrder
<1>2. PICK lo \in 0..Len(rs) :
           /\ SetContains(rs, a) <=> lo > 0 /\ rs[lo].last >= a
           /\ \A i \in 1..lo : rs[i].first <= a
           /\ \A i \in (lo + 1)..Len(rs) : a < rs[i].first
  BY SearchEnds
<1>3. ASSUME SetContains(rs, a)
      PROVE  \E i \in DOMAIN rs : Within(rs[i], a)
  <2>1. lo \in 1..Len(rs) /\ lo \in 1..lo /\ rs[lo].last >= a
    BY <1>1, <1>2, <1>3
  <2>2. Within(rs[lo], a)
    BY <1>1, <1>2, <2>1 DEF Within
  <2> QED BY <1>1, <2>1, <2>2
<1>4. ASSUME NEW i \in DOMAIN rs, Within(rs[i], a), ~SetContains(rs, a)
      PROVE  \E j \in DOMAIN rs : i # j /\ Within(rs[i], rs[j].first)
  <2>1. rs[i].first <= a /\ a <= rs[i].last
    BY <1>4 DEF Within
  <2>2. i \in 1..lo
    BY <1>1, <1>2, <2>1
  <2>3. lo \in 1..Len(rs) /\ lo \in 1..lo
    BY <1>1, <2>2
  <2>4. i # lo
    BY <1>1, <1>2, <1>4, <2>1, <2>3
  <2>5. rs[i].first <= rs[lo].first /\ rs[lo].first <= a
    BY <1>1, <1>2, <2>2, <2>3, <2>4
  <2>6. Within(rs[i], rs[lo].first)
    BY <1>1, <2>1, <2>3, <2>5 DEF Within
  <2> QED BY <1>1, <2>3, <2>4, <2>6
<1> QED BY <1>3, <1>4

Fewer(n, m) == IF n < m THEN n ELSE m

(* The first n ids at some positions: those of the positions in order.       *)
LEMMA IdsListed ==
  ASSUME NEW rows, NEW pos, pos \subseteq Nat, IsFiniteSet(pos), NEW n \in Nat
  PROVE  LET s == Sorted(pos, {p \in pos \X pos : p[1] < p[2]})  m == Fewer(Cardinality(pos), n) IN
         /\ m \in Nat /\ IdsAt(rows, pos, n) = [k \in 1..m |-> rows[s[k]].id]
         /\ Len(IdsAt(rows, pos, n)) = m
<1> DEFINE order == {p \in pos \X pos : p[1] < p[2]}
           s == Sorted(pos, order)
           m == Fewer(Cardinality(pos), n)
<1>1. IsTotal(pos, order)
  BY DEF IsTotal
<1>2. s \in Seq(pos) /\ Len(s) = Cardinality(pos) /\ DOMAIN s = 1..Cardinality(pos) /\ Cardinality(pos) \in Nat
  <2> HIDE DEF order
  <2> QED BY <1>1, SortedLists
<1>3. m \in Nat /\ m <= Cardinality(pos)
  BY <1>2 DEF Fewer
<1> HIDE DEF s
<1>4. Firsts(s, n) = SubSeq(s, 1, m)
  BY <1>2 DEF Firsts, Fewer
<1>5. DOMAIN SubSeq(s, 1, m) = 1..m /\ \A k \in 1..m : SubSeq(s, 1, m)[k] = s[k]
  <2> HIDE DEF m
  <2> QED BY <1>2, <1>3
<1>6. IdsAt(rows, pos, n) = [k \in 1..m |-> rows[SubSeq(s, 1, m)[k]].id]
  BY <1>4, <1>5 DEF IdsAt, s
<1> HIDE DEF m
<1>7. IdsAt(rows, pos, n) = [k \in 1..m |-> rows[s[k]].id]
  BY <1>5, <1>6
<1>8. Len(IdsAt(rows, pos, n)) = m
  BY <1>3, <1>7
<1> QED BY <1>3, <1>7, <1>8 DEF s, m

(* Fewer ids at the same positions are the beginning of more.                *)
LEMMA IdsBegin ==
  ASSUME NEW rows, NEW pos, pos \subseteq Nat, IsFiniteSet(pos), NEW n \in Nat, NEW l \in Nat, n <= l
  PROVE  IdsAt(rows, pos, n) = SubSeq(IdsAt(rows, pos, l), 1, Len(IdsAt(rows, pos, n)))
<1> DEFINE s == Sorted(pos, {p \in pos \X pos : p[1] < p[2]})
           few == Fewer(Cardinality(pos), n)
           many == Fewer(Cardinality(pos), l)
           short == IdsAt(rows, pos, n)
           long == IdsAt(rows, pos, l)
<1>1. few \in Nat /\ short = [k \in 1..few |-> rows[s[k]].id] /\ Len(short) = few
  BY IdsListed
<1>2. many \in Nat /\ long = [k \in 1..many |-> rows[s[k]].id] /\ Len(long) = many
  BY IdsListed
<1>3. few <= many
  BY FS_CardinalityType DEF Fewer
<1> HIDE DEF few, many, s, short, long
<1>4. \A k \in 1..few : k \in 1..many /\ long[k] = rows[s[k]].id
  BY <1>1, <1>2, <1>3
<1> DEFINE V == {rows[s[k]].id : k \in 1..many}
<1>5. long \in Seq(V)
  BY <1>2
<1>6. SubSeq(long, 1, few) = [k \in 1..few |-> long[k]]
  BY <1>1, <1>2, <1>3, <1>5
<1>7. short = SubSeq(long, 1, few)
  BY <1>1, <1>4, <1>6
<1> QED BY <1>1, <1>7 DEF short, long

(* A scan has finitely many rows, which are entries of the window.           *)
LEMMA ScanRows ==
  ASSUME NEW v, IsView(v)
  PROVE  /\ DOMAIN NetScan(v.entries) \subseteq Nat /\ IsFiniteSet(DOMAIN NetScan(v.entries))
         /\ \A k \in DOMAIN NetScan(v.entries) : NetScan(v.entries)[k] \in v.entries
<1> DEFINE S == {e \in v.entries : ~e.suppressed}
           order == {p \in v.entries \X v.entries : p[1].id > p[2].id}
           s == Sorted(S, order)
           m == Fewer(Cardinality(S), ScanCap)
<1>1. IsFiniteSet(S)
  BY FS_Subset DEF IsView
<1>2. IsTotal(S, order)
  BY DEF IsTotal, IsView
<1>3. s \in Seq(S) /\ Len(s) = Cardinality(S) /\ Cardinality(S) \in Nat
  <2> HIDE DEF S, order
  <2> QED BY <1>1, <1>2, SortedLists
<1>4. ScanCap \in Nat
  BY NetAssumption
<1>5. m \in Nat /\ m <= Cardinality(S)
  BY <1>3, <1>4 DEF Fewer
<1>6. NetScan(v.entries) = SubSeq(s, 1, m)
  BY <1>3 DEF NetScan, Firsts, Fewer
<1> HIDE DEF s, m
<1>7. DOMAIN SubSeq(s, 1, m) = 1..m /\ \A k \in 1..m : SubSeq(s, 1, m)[k] \in S
  <2> HIDE DEF S
  <2> QED BY <1>3, <1>5
<1>8. IsFiniteSet(1..m) /\ 1..m \subseteq Nat
  BY <1>5, FS_Interval
<1> QED BY <1>6, <1>7, <1>8

(* What Classify says.                                                       *)
LEMMA Classified ==
  ASSUME NEW row, NEW compiled
  PROVE  LET res == Classify(row, compiled) IN
         /\ res.direction = direction(row)
         /\ \A s : s \in res.scopes <=> \E a \in row.all : Scope(a) = s
         /\ \A id : id \in DOMAIN res.hits <=> id \in DOMAIN compiled /\ \E a \in row.all : SetContains(compiled[id], a)
         /\ \A id \in DOMAIN res.hits : \A a : a \in res.hits[id] <=> a \in row.all /\ SetContains(compiled[id], a)
<1> DEFINE hits == [id \in {i \in DOMAIN compiled : \E a \in row.all : SetContains(compiled[i], a)} |->
                      {a \in row.all : SetContains(compiled[id], a)}]
           scopes == {Scope(a) : a \in row.all}
           res == Classify(row, compiled)
<1>1. res.direction = direction(row) /\ res.scopes = scopes /\ res.hits = hits
  BY DEF Classify
<1>2. /\ \A id : id \in DOMAIN hits <=> id \in DOMAIN compiled /\ \E a \in row.all : SetContains(compiled[id], a)
      /\ \A id \in DOMAIN hits : \A a : a \in hits[id] <=> a \in row.all /\ SetContains(compiled[id], a)
  OBVIOUS
<1>3. \A s : s \in scopes <=> \E a \in row.all : Scope(a) = s
  OBVIOUS
<1> HIDE DEF res, hits, scopes
<1> QED BY <1>1, <1>2, <1>3 DEF res

(* Which rows a class of the drill-down has.                                 *)
LEMMA Matched ==
  ASSUME NEW row, NEW compiled, NEW class, NEW ip
  PROVE  /\ class.kind = "dir" => (matches(row, compiled, class, None) <=> Classify(row, compiled).direction = class.of)
         /\ class.kind = "scope" => (matches(row, compiled, class, None) <=> class.of \in Classify(row, compiled).scopes)
         /\ class.kind = "set" => (matches(row, compiled, class, None) <=> class.of \in DOMAIN Classify(row, compiled).hits)
         /\ class.kind = "malicious" /\ ip # None =>
              (matches(row, compiled, class, ip) <=>
                 ip \in row.all /\ \E id \in DOMAIN Classify(row, compiled).hits : Category[id] = "malicious")
BY DEF matches

(* The rows that a count of the summary is about.                            *)
DirAt(rows, compiled, d) == {k \in DOMAIN rows : rows[k].all # {} /\ Classify(rows[k], compiled).direction = d}
ScopeAt(rows, compiled, s) == {k \in DOMAIN rows : rows[k].all # {} /\ s \in Classify(rows[k], compiled).scopes}
SetAt(rows, compiled, id) == {k \in DOMAIN rows : rows[k].all # {} /\ id \in DOMAIN Classify(rows[k], compiled).hits}

(* What the summary counts.                                                  *)
LEMMA Counted ==
  ASSUME NEW window, NEW compiled
  PROVE  LET rows == NetScan(window)  sum == getNetSummary(window, compiled)
         IN
         /\ DOMAIN sum.directions = {"outbound", "inbound", "internal", "external", "unknown"}
         /\ \A d \in DOMAIN sum.directions :
              sum.directions[d] = Cardinality(DirAt(rows, compiled, d))
         /\ \A s \in DOMAIN sum.scopes :
              sum.scopes[s] = Cardinality(ScopeAt(rows, compiled, s))
         /\ \A id \in DOMAIN compiled :
              sum.categories[id] = Cardinality(SetAt(rows, compiled, id))
         /\ DOMAIN sum.malicious = {a \in Addr : RowsOf(rows, compiled, a) # {}}
         /\ \A a \in DOMAIN sum.malicious :
              /\ sum.malicious[a].count = Cardinality(RowsOf(rows, compiled, a))
              /\ sum.malicious[a].ids = IdsAt(rows, RowsOf(rows, compiled, a), SampleIds)
<1> DEFINE rows == NetScan(window)
           sum == getNetSummary(window, compiled)
           directions == [d \in {"outbound", "inbound", "internal", "external", "unknown"} |->
                           Cardinality(DirAt(rows, compiled, d))]
           scopes == [s \in {"internal", "special", "external"} |->
                       Cardinality(ScopeAt(rows, compiled, s))]
           categories == [id \in DOMAIN compiled |->
                           Cardinality(SetAt(rows, compiled, id))]
           malicious == [a \in {b \in Addr : RowsOf(rows, compiled, b) # {}} |->
                          [count |-> CountOf(rows, compiled, a),
                           ids |-> IdsAt(rows, RowsOf(rows, compiled, a), SampleIds)]]
<1>1. sum = [directions |-> directions, scopes |-> scopes, categories |-> categories, malicious |-> malicious]
  BY DEF getNetSummary, DirAt, ScopeAt, SetAt
<1> HIDE DEF sum
<1>2. /\ sum.directions = directions /\ sum.scopes = scopes
      /\ sum.categories = categories /\ sum.malicious = malicious
  <2> HIDE DEF directions, scopes, categories, malicious
  <2> QED BY <1>1
<1>3. /\ DOMAIN sum.directions = {"outbound", "inbound", "internal", "external", "unknown"}
      /\ \A d \in DOMAIN sum.directions :
           sum.directions[d] = Cardinality(DirAt(rows, compiled, d))
  BY <1>2
<1>4. \A s \in DOMAIN sum.scopes :
           sum.scopes[s] = Cardinality(ScopeAt(rows, compiled, s))
  BY <1>2
<1>5. \A id \in DOMAIN compiled :
           sum.categories[id] = Cardinality(SetAt(rows, compiled, id))
  BY <1>2
<1>6. /\ DOMAIN sum.malicious = {a \in Addr : RowsOf(rows, compiled, a) # {}}
      /\ \A a \in DOMAIN sum.malicious :
           /\ sum.malicious[a].count = Cardinality(RowsOf(rows, compiled, a))
           /\ sum.malicious[a].ids = IdsAt(rows, RowsOf(rows, compiled, a), SampleIds)
  BY <1>2 DEF CountOf
<1> QED BY <1>3, <1>4, <1>5, <1>6 DEF sum

(* The rows a click shows.                                                   *)
Clicks(v, class, ip) == {k \in DOMAIN NetScan(v.entries) : matches(NetScan(v.entries)[k], v.sets, class, ip)}

(* A count is what a click on it lists, up to the limit.                     *)
LEMMA Clicked ==
  ASSUME NEW v, IsView(v), NEW class, NEW ip
  PROVE  /\ Clicks(v, class, ip) \subseteq Nat /\ IsFiniteSet(Clicks(v, class, ip))
         /\ getNetEntries(v.entries, v.sets, class, ip)
              = IdsAt(NetScan(v.entries), Clicks(v, class, ip), DrillLimit)
         /\ Len(getNetEntries(v.entries, v.sets, class, ip)) = Fewer(Cardinality(Clicks(v, class, ip)), DrillLimit)
<1> DEFINE rows == NetScan(v.entries)
           pos == Clicks(v, class, ip)
<1>1. pos \subseteq Nat /\ IsFiniteSet(pos)
  <2>1. pos \subseteq DOMAIN rows
    BY DEF Clicks
  <2> QED BY <2>1, ScanRows, FS_Subset
<1>2. getNetEntries(v.entries, v.sets, class, ip) = IdsAt(rows, pos, DrillLimit)
  BY DEF getNetEntries, Clicks
<1>3. DrillLimit \in Nat
  BY NetAssumption
<1> HIDE DEF rows, pos
<1>4. Len(IdsAt(rows, pos, DrillLimit)) = Fewer(Cardinality(pos), DrillLimit)
  BY <1>1, <1>3, IdsListed
<1> QED BY <1>1, <1>2, <1>4 DEF rows, pos

(* A row that a class other than "unknown" has carries an address.           *)
LEMMA HasAddress ==
  ASSUME NEW v, IsView(v), NEW row \in v.entries
  PROVE  /\ direction(row) # "unknown" => row.all # {}
         /\ Classify(row, v.sets).scopes # {} => row.all # {}
         /\ DOMAIN Classify(row, v.sets).hits # {} => row.all # {}
<1>1. direction(row) # "unknown" => row.src # None /\ row.dst # None
  BY DEF direction
<1>2. direction(row) # "unknown" => row.all # {}
  BY <1>1 DEF IsView
<1> QED BY <1>2, Classified

(* A malicious set flags an address in every row that has it.                *)
LEMMA FlaggedAlike ==
  ASSUME NEW v, NEW rows, NEW a, NEW j \in RowsOf(rows, v.sets, a), NEW k \in DOMAIN rows
  PROVE  /\ k \in RowsOf(rows, v.sets, a) <=> a \in rows[k].all
         /\ a \in rows[k].all => \E id \in DOMAIN Classify(rows[k], v.sets).hits : Category[id] = "malicious"
<1> DEFINE H(i) == Classify(rows[i], v.sets).hits
<1>1. \A i : /\ \A id : id \in DOMAIN H(i) <=> id \in DOMAIN v.sets /\ \E x \in rows[i].all : SetContains(v.sets[id], x)
             /\ \A id \in DOMAIN H(i) : \A x : x \in H(i)[id] <=> x \in rows[i].all /\ SetContains(v.sets[id], x)
  BY Classified
<1>2. \A i : i \in RowsOf(rows, v.sets, a) <=>
        i \in DOMAIN rows /\ \E id \in DOMAIN H(i) : Category[id] = "malicious" /\ a \in H(i)[id]
  BY DEF RowsOf, flaggedBy
<1> HIDE DEF H
<1>3. PICK id \in DOMAIN H(j) : Category[id] = "malicious" /\ a \in H(j)[id]
  BY <1>2
<1>4. id \in DOMAIN v.sets /\ SetContains(v.sets[id], a)
  BY <1>1, <1>3
<1>5. a \in rows[k].all => id \in DOMAIN H(k) /\ a \in H(k)[id]
  BY <1>1, <1>4
<1>6. k \in RowsOf(rows, v.sets, a) => a \in rows[k].all
  BY <1>1, <1>2
<1> QED BY <1>2, <1>3, <1>5, <1>6 DEF H

(* Each count of the summary is the length of its list.                      *)
LEMMA CountsAgree ==
  ASSUME NEW v, IsView(v)
  PROVE  ViewAgrees(v.entries, v.sets)
<1> DEFINE rows == NetScan(v.entries)
           compiled == v.sets
           sum == getNetSummary(v.entries, v.sets)
           Lists(kind, of, ip) == getNetEntries(v.entries, v.sets, [kind |-> kind, of |-> of], ip)
<1>1. \A k \in DOMAIN rows : rows[k] \in v.entries
  BY ScanRows
<1>2. /\ DOMAIN sum.directions = {"outbound", "inbound", "internal", "external", "unknown"}
      /\ \A d \in DOMAIN sum.directions : sum.directions[d] = Cardinality(DirAt(rows, compiled, d))
      /\ \A s \in DOMAIN sum.scopes : sum.scopes[s] = Cardinality(ScopeAt(rows, compiled, s))
      /\ \A id \in DOMAIN compiled : sum.categories[id] = Cardinality(SetAt(rows, compiled, id))
      /\ DOMAIN sum.malicious = {a \in Addr : RowsOf(rows, compiled, a) # {}}
      /\ \A a \in DOMAIN sum.malicious :
           /\ sum.malicious[a].count = Cardinality(RowsOf(rows, compiled, a))
           /\ sum.malicious[a].ids = IdsAt(rows, RowsOf(rows, compiled, a), SampleIds)
  BY Counted
<1> HIDE DEF sum
<1>3. ASSUME NEW d \in DOMAIN sum.directions \ {"unknown"}
      PROVE  Len(Lists("dir", d, None)) = Fewer(sum.directions[d], DrillLimit)
  <2> DEFINE class == [kind |-> "dir", of |-> d]
             pos == DirAt(rows, compiled, d)
  <2>1. class.kind = "dir" /\ class.of = d
    OBVIOUS
  <2> HIDE DEF class
  <2>2. sum.directions[d] = Cardinality(pos)
    BY <1>2
  <2>3. pos = Clicks(v, class, None)
    <3>1. \A k \in DOMAIN rows : matches(rows[k], compiled, class, None) <=> Classify(rows[k], compiled).direction = d
      BY <2>1, Matched
    <3>2. \A k \in DOMAIN rows : Classify(rows[k], compiled).direction = d => rows[k].all # {}
      BY <1>1, Classified, HasAddress
    <3> QED BY <3>1, <3>2 DEF DirAt, Clicks
  <2> HIDE DEF pos
  <2>4. Len(getNetEntries(v.entries, v.sets, class, None)) = Fewer(Cardinality(pos), DrillLimit)
    BY <2>3, Clicked
  <2> QED BY <2>2, <2>4 DEF class
<1>4. ASSUME NEW s \in DOMAIN sum.scopes
      PROVE  Len(Lists("scope", s, None)) = Fewer(sum.scopes[s], DrillLimit)
  <2> DEFINE class == [kind |-> "scope", of |-> s]
             pos == ScopeAt(rows, compiled, s)
  <2>1. class.kind = "scope" /\ class.of = s
    OBVIOUS
  <2> HIDE DEF class
  <2>2. sum.scopes[s] = Cardinality(pos)
    BY <1>2
  <2>3. pos = Clicks(v, class, None)
    <3>1. \A k \in DOMAIN rows : matches(rows[k], compiled, class, None) <=> s \in Classify(rows[k], compiled).scopes
      BY <2>1, Matched
    <3>2. \A k \in DOMAIN rows : s \in Classify(rows[k], compiled).scopes => rows[k].all # {}
      BY <1>1, HasAddress
    <3> QED BY <3>1, <3>2 DEF ScopeAt, Clicks
  <2> HIDE DEF pos
  <2>4. Len(getNetEntries(v.entries, v.sets, class, None)) = Fewer(Cardinality(pos), DrillLimit)
    BY <2>3, Clicked
  <2> QED BY <2>2, <2>4 DEF class
<1>5. ASSUME NEW id \in DOMAIN compiled
      PROVE  Len(Lists("set", id, None)) = Fewer(sum.categories[id], DrillLimit)
  <2> DEFINE class == [kind |-> "set", of |-> id]
             pos == SetAt(rows, compiled, id)
  <2>1. class.kind = "set" /\ class.of = id
    OBVIOUS
  <2> HIDE DEF class
  <2>2. sum.categories[id] = Cardinality(pos)
    BY <1>2
  <2>3. pos = Clicks(v, class, None)
    <3>1. \A k \in DOMAIN rows : matches(rows[k], compiled, class, None) <=> id \in DOMAIN Classify(rows[k], compiled).hits
      BY <2>1, Matched
    <3>2. \A k \in DOMAIN rows : id \in DOMAIN Classify(rows[k], compiled).hits => rows[k].all # {}
      BY <1>1, HasAddress
    <3> QED BY <3>1, <3>2 DEF SetAt, Clicks
  <2> HIDE DEF pos
  <2>4. Len(getNetEntries(v.entries, v.sets, class, None)) = Fewer(Cardinality(pos), DrillLimit)
    BY <2>3, Clicked
  <2> QED BY <2>2, <2>4 DEF class
<1>6. ASSUME NEW a \in DOMAIN sum.malicious
      PROVE  /\ Len(Lists("malicious", "", a)) = Fewer(sum.malicious[a].count, DrillLimit)
             /\ sum.malicious[a].ids = SubSeq(Lists("malicious", "", a), 1, Len(sum.malicious[a].ids))
  <2> DEFINE class == [kind |-> "malicious", of |-> ""]
             pos == RowsOf(rows, compiled, a)
  <2>1. class.kind = "malicious"
    OBVIOUS
  <2> HIDE DEF class
  <2>2. a \in Addr /\ pos # {} /\ pos \subseteq DOMAIN rows
    BY <1>2 DEF RowsOf
  <2>3. sum.malicious[a].count = Cardinality(pos) /\ sum.malicious[a].ids = IdsAt(rows, pos, SampleIds)
    BY <1>2
  <2>4. a # None
    BY <2>2 DEF Addr, None
  <2>5. pos = Clicks(v, class, a)
    <3>1. \A k \in DOMAIN rows : matches(rows[k], compiled, class, a) <=>
             a \in rows[k].all /\ \E id \in DOMAIN Classify(rows[k], compiled).hits : Category[id] = "malicious"
      BY <2>1, <2>4, Matched
    <3>2. PICK j : j \in pos
      BY <2>2
    <3>3. \A k \in DOMAIN rows :
             /\ k \in pos <=> a \in rows[k].all
             /\ a \in rows[k].all => \E id \in DOMAIN Classify(rows[k], compiled).hits : Category[id] = "malicious"
      BY <3>2, FlaggedAlike
    <3> HIDE DEF pos
    <3> QED BY <2>2, <3>1, <3>3 DEF Clicks, rows
  <2> HIDE DEF pos
  <2>6. /\ pos \subseteq Nat /\ IsFiniteSet(pos)
        /\ getNetEntries(v.entries, v.sets, class, a) = IdsAt(rows, pos, DrillLimit)
        /\ Len(getNetEntries(v.entries, v.sets, class, a)) = Fewer(Cardinality(pos), DrillLimit)
    BY <2>5, Clicked
  <2>7. DrillLimit \in Nat /\ SampleIds \in Nat /\ SampleIds <= DrillLimit
    BY NetAssumption
  <2> HIDE DEF rows
  <2>8. IdsAt(rows, pos, SampleIds) = SubSeq(IdsAt(rows, pos, DrillLimit), 1, Len(IdsAt(rows, pos, SampleIds)))
    BY <2>6, <2>7, IdsBegin
  <2>9. /\ Len(getNetEntries(v.entries, v.sets, class, a)) = Fewer(sum.malicious[a].count, DrillLimit)
        /\ sum.malicious[a].ids
             = SubSeq(getNetEntries(v.entries, v.sets, class, a), 1, Len(sum.malicious[a].ids))
    BY <2>3, <2>6, <2>8
  <2> QED BY <2>9 DEF class
<1> HIDE DEF rows
<1> QED BY <1>3, <1>4, <1>5, <1>6 DEF ViewAgrees, Fewer, sum

(* NetViewAgrees, for addresses of every width, any sets and any window: no  *)
(* set flags an address outside its ranges, and every count of the summary   *)
(* is the number of entries a click on it lists (netclass.go, netview.go).   *)
THEOREM ViewCorrect == IsView(net) => NetViewAgrees
<1> SUFFICES ASSUME IsView(net) PROVE NetViewAgrees
  OBVIOUS
<1>1. \A id \in DOMAIN net.sets : SetSound(net.sets[id])
  BY SetsSound DEF IsView
<1>2. ViewAgrees(net.entries, net.sets)
  BY CountsAgree
<1> QED BY <1>1, <1>2 DEF NetViewAgrees

-----------------------------------------------------------------------------
(* Conditions: what Match and the compiled SQL say of an entry.              *)

(* A function whose value at d is made from its values at lesser depths.     *)
Recurs(F, D, V, depth) ==
  /\ V # {} /\ depth \in [D -> Nat] /\ F \in [[D -> V] -> [D -> V]]
  /\ \A g, h \in [D -> V] : \A d \in D :
       (\A s \in D : depth[s] < depth[d] => g[s] = h[s]) => F[g][d] = F[h][d]

Fixed(F, D, V) == \E f \in [D -> V] : f = F[f]

(* So made, it exists: it is a fixed point of what makes it.                *)
LEMMA Recursion ==
  ASSUME NEW D, NEW V, NEW depth, NEW F, Recurs(F, D, V, depth) PROVE Fixed(F, D, V)
<1> SUFFICES ASSUME V # {}, depth \in [D -> Nat], F \in [[D -> V] -> [D -> V]],
                    \A g, h \in [D -> V] : \A d \in D :
                      (\A s \in D : depth[s] < depth[d] => g[s] = h[s]) => F[g][d] = F[h][d]
             PROVE  \E f \in [D -> V] : f = F[f]
  BY DEF Recurs, Fixed
<1> DEFINE Good(n) == {g \in [D -> V] : \A d \in D : depth[d] < n => g[d] = F[g][d]}
           N == {n \in Nat : Good(n) # {}}
           M == {n \in Nat : \A g, h \in Good(n) : \A d \in D : depth[d] < n => g[d] = h[d]}
<1>1. 0 \in N
  <2>1. PICK v \in V : TRUE
    OBVIOUS
  <2>2. [d \in D |-> v] \in Good(0)
    BY <2>1
  <2> QED BY <2>2
<1>2. ASSUME NEW n \in Nat, n \in N PROVE n + 1 \in N
  <2>1. PICK g \in [D -> V] : \A d \in D : depth[d] < n => g[d] = F[g][d]
    BY <1>2
  <2>2. F[g] \in [D -> V]
    OBVIOUS
  <2>3. ASSUME NEW d \in D, depth[d] < n + 1 PROVE F[g][d] = F[F[g]][d]
    <3>1. \A s \in D : depth[s] < depth[d] => g[s] = F[g][s]
      BY <2>1, <2>3
    <3> QED BY <2>2, <3>1
  <2>4. F[g] \in Good(n + 1)
    BY <2>2, <2>3
  <2> QED BY <2>4
<1>3. 0 \in M
  OBVIOUS
<1>4. ASSUME NEW n \in Nat, n \in M PROVE n + 1 \in M
  <2>1. ASSUME NEW g \in Good(n + 1), NEW h \in Good(n + 1), NEW d \in D, depth[d] < n + 1
        PROVE  g[d] = h[d]
    <3>1. g \in Good(n) /\ h \in Good(n)
      OBVIOUS
    <3>2. /\ g \in [D -> V] /\ g[d] = F[g][d]
          /\ h \in [D -> V] /\ h[d] = F[h][d]
      BY <2>1
    <3>3. \A u, w \in Good(n) : \A x \in D : depth[x] < n => u[x] = w[x]
      BY <1>4
    <3>4. \A s \in D : depth[s] < depth[d] => depth[s] < n
      BY <2>1
    <3> HIDE DEF Good
    <3>5. \A s \in D : depth[s] < depth[d] => g[s] = h[s]
      BY <3>1, <3>3, <3>4
    <3>6. F[g][d] = F[h][d]
      BY <3>2, <3>5
    <3> QED BY <3>2, <3>6
  <2>2. n + 1 \in Nat /\ \A g, h \in Good(n + 1) : \A d \in D : depth[d] < n + 1 => g[d] = h[d]
    <3> HIDE DEF Good
    <3> QED BY <2>1
  <2> HIDE DEF Good
  <2> QED BY <2>2
<1>5. Nat \subseteq N /\ Nat \subseteq M
  <2> HIDE DEF N, M
  <2> QED BY <1>1, <1>2, <1>3, <1>4, Counting
<1> DEFINE pick == [n \in Nat |-> CHOOSE g : g \in Good(n)]
           f == [d \in D |-> pick[depth[d] + 1][d]]
<1>6. \A n \in Nat : pick[n] \in Good(n)
  <2>1. \A n \in Nat : Good(n) # {}
    <3> HIDE DEF Good
    <3> QED BY <1>5
  <2> HIDE DEF Good
  <2> QED BY <2>1
<1>7. \A d \in D : depth[d] + 1 \in Nat /\ f[d] = pick[depth[d] + 1][d]
  OBVIOUS
<1>8. f \in [D -> V]
  <2>1. ASSUME NEW d \in D PROVE f[d] \in V
    <3>1. PICK n \in Nat : n = depth[d] + 1
      BY <1>7
    <3>2. pick[n] \in [D -> V]
      BY <1>6
    <3> QED BY <1>7, <3>1, <3>2
  <2> QED BY <2>1
<1> HIDE DEF f, pick
<1>9. ASSUME NEW d \in D PROVE f[d] = F[f][d]
  <2>1. PICK n \in Nat : n = depth[d] + 1
    BY <1>7
  <2>2. PICK g \in [D -> V] : g = pick[n] /\ g \in Good(n)
    BY <1>6
  <2>3. ASSUME NEW s \in D, depth[s] < depth[d] PROVE f[s] = g[s]
    <3>1. PICK m \in Nat : m = depth[s] + 1 /\ m <= n
      BY <1>7, <2>1, <2>3
    <3>a. \A x \in D : depth[x] < m => depth[x] < n
      BY <3>1
    <3>b. g \in Good(m)
      BY <2>2, <3>a
    <3>2. pick[m] \in Good(m) /\ g \in Good(m)
      BY <1>6, <3>1, <3>b
    <3>3. \A u, w \in Good(m) : \A x \in D : depth[x] < m => u[x] = w[x]
      BY <1>5, <3>1
    <3>4. depth[s] < m
      BY <3>1
    <3> HIDE DEF Good
    <3>5. pick[m][s] = g[s]
      BY <3>2, <3>3, <3>4
    <3> QED BY <1>7, <3>1, <3>5
  <2>4. F[f][d] = F[g][d]
    BY <1>8, <2>3
  <2>5. g[d] = F[g][d]
    BY <2>1, <2>2
  <2> QED BY <1>7, <2>1, <2>2, <2>4, <2>5
<1>10. F[f] \in [D -> V]
  BY <1>8
<1>11. f = F[f]
  BY <1>8, <1>9, <1>10
<1> QED BY <1>8, <1>11

(* m steps from v, each made from the one before it. *)
Steps(V, v, m, F) == m \in Nat /\ v \in V /\ F \in [V \X (1..m) -> V]
Run(V, v, m, F) == \E f \in [0..m -> V] : f = [n \in 0..m |-> IF n = 0 THEN v ELSE F[<<f[n - 1], n>>]]

(* They can be taken.                                                        *)
LEMMA StepsRun == ASSUME NEW V, NEW v, NEW m, NEW F, Steps(V, v, m, F) PROVE Run(V, v, m, F)
<1> SUFFICES ASSUME m \in Nat, v \in V, F \in [V \X (1..m) -> V]
             PROVE  \E f \in [0..m -> V] : f = [n \in 0..m |-> IF n = 0 THEN v ELSE F[<<f[n - 1], n>>]]
  BY DEF Steps, Run
<1> DEFINE D == 0..m
           G == [f \in [D -> V] |-> [n \in D |-> IF n = 0 THEN v ELSE F[<<f[n - 1], n>>]]]
           depth == [n \in D |-> n]
<1>1. \A n \in D : n = 0 \/ (n \in 1..m /\ n - 1 \in D /\ n - 1 < n)
  OBVIOUS
<1>2. G \in [[D -> V] -> [D -> V]]
  <2>1. ASSUME NEW f \in [D -> V], NEW n \in D PROVE (IF n = 0 THEN v ELSE F[<<f[n - 1], n>>]) \in V
    <3>1. CASE n = 0
      BY <3>1
    <3>2. CASE n # 0
      <4>1. n \in 1..m /\ f[n - 1] \in V
        BY <1>1, <3>2
      <4> QED BY <3>2, <4>1
    <3> QED BY <3>1, <3>2
  <2> QED BY <2>1
<1>3. \A f \in [D -> V] : G[f] = [n \in D |-> IF n = 0 THEN v ELSE F[<<f[n - 1], n>>]]
  OBVIOUS
<1>4. depth \in [D -> Nat] /\ \A n \in D : depth[n] = n
  OBVIOUS
<1>a. V # {}
  OBVIOUS
<1>5. Recurs(G, D, V, depth)
  <2> SUFFICES ASSUME NEW g \in [D -> V], NEW h \in [D -> V], NEW n \in D,
                      \A s \in D : depth[s] < depth[n] => g[s] = h[s]
               PROVE  G[g][n] = G[h][n]
    BY <1>a, <1>2, <1>4 DEF Recurs
  <2>1. CASE n = 0
    BY <2>1, <1>3
  <2>2. CASE n # 0
    <3>1. n - 1 \in D /\ g[n - 1] = h[n - 1]
      BY <1>1, <1>4, <2>2
    <3> QED BY <1>3, <2>2, <3>1
  <2> QED BY <2>1, <2>2
<1> HIDE DEF G, depth
<1>b. Fixed(G, D, V)
  BY <1>5, Recursion
<1>6. PICK f \in [D -> V] : f = G[f]
  BY <1>b DEF Fixed
<1> QED BY <1>3, <1>6

-----------------------------------------------------------------------------
(* Trees: what is said of a condition is said of it and its parts.           *)

ValidNode(valid, d) ==
  /\ \A g, h \in DOMAIN d : g = h
  /\ "leaf" \in DOMAIN d => validateLeaf(d.leaf)
  /\ "last" \in DOMAIN d => d.last > 0
  /\ \A s \in Parts(d) : valid[s]

MatchNode(match, d, e, now) ==
  \/ DOMAIN d = {}
  \/ "all" \in DOMAIN d /\ \A s \in ToSet(d.all) : match[s]
  \/ "any" \in DOMAIN d /\ \E s \in ToSet(d.any) : match[s]
  \/ "not" \in DOMAIN d /\ ~match[d.not]
  \/ "leaf" \in DOMAIN d /\ matchLeaf(d.leaf, e)
  \/ "text" \in DOMAIN d /\ textMatch(e.msg, d.text)
  \/ "tag" \in DOMAIN d /\ d.tag \in e.tags
  \/ "mitre" \in DOMAIN d /\ d.mitre \in e.mitre
  \/ "ot" \in DOMAIN d /\ d.ot \in e.ot
  \/ "last" \in DOMAIN d /\ Recent(e, d.last, now)

SqlGroup(sql, g, d, e, now) ==
  CASE g = "all" -> SqlAnd({sql[s] : s \in ToSet(d[g])})
    [] g = "any" -> SqlOr({sql[s] : s \in ToSet(d[g])})
    [] g = "not" -> CompileNot(sql[d[g]])
    [] g = "leaf" -> compileLeaf(d[g], e)
    [] g = "text" -> Truth(TsQuery(e.msg, d[g]))
    [] g = "tag" -> Truth(d[g] \in e.tags)
    [] g = "mitre" -> Truth(d[g] \in e.mitre)
    [] g = "ot" -> Truth(d[g] \in e.ot)
    [] g = "last" -> Truth(Micros(e.received) > Micros(now) - Second * d[g])

SqlNode(sql, d, e, now) ==
  IF DOMAIN d = {} THEN "T" ELSE SqlGroup(sql, CHOOSE x \in DOMAIN d : TRUE, d, e, now)

(* How many conditions a condition is made of. *)
Size(c) == [d \in Inside(c) |-> Cardinality(Inside(d))]

(* A condition is made of fewer than what it is a part of.                  *)
LEMMA SmallerParts ==
  ASSUME NEW c \in Cond
  PROVE  /\ Size(c) \in [Inside(c) -> Nat]
         /\ \A d \in Inside(c) : /\ d \in Cond
                                 /\ \A s \in Parts(d) : s \in Inside(c) /\ Size(c)[s] < Size(c)[d]
<1>1. \A d \in Inside(c) : d \in Cond /\ Inside(d) \subseteq Inside(c)
  BY CondAssumption
<1>2. \A d \in Inside(c) : IsFiniteSet(Inside(d)) /\ Cardinality(Inside(d)) \in Nat
  BY <1>1, CondAssumption, FS_CardinalityType
<1>3. Size(c) \in [Inside(c) -> Nat] /\ \A d \in Inside(c) : Size(c)[d] = Cardinality(Inside(d))
  BY <1>2 DEF Size
<1>4. ASSUME NEW d \in Inside(c), NEW s \in Parts(d)
      PROVE  s \in Inside(c) /\ Cardinality(Inside(s)) < Cardinality(Inside(d))
  <2>1. s \in Inside(d) /\ d \in Inside(d) /\ d \notin Inside(s)
    BY <1>1, CondAssumption
  <2>2. s \in Inside(c) /\ Inside(s) \in SUBSET Inside(d) /\ Inside(s) # Inside(d)
    BY <1>1, <2>1, CondAssumption
  <2>3. PICK A : A = Inside(s)
    OBVIOUS
  <2>4. PICK B : B = Inside(d)
    OBVIOUS
  <2>5. IsFiniteSet(B) /\ A \in SUBSET B /\ A # B /\ Cardinality(A) \in Nat /\ Cardinality(B) \in Nat
    BY <1>2, <2>2, <2>3, <2>4
  <2>6. Cardinality(A) <= Cardinality(B) /\ (Cardinality(A) = Cardinality(B) => A = B)
    BY <2>5, FS_Subset
  <2> QED BY <2>2, <2>3, <2>4, <2>5, <2>6
<1> QED BY <1>1, <1>3, <1>4

(* Validate goes down the tree, node by node.                               *)
LEMMA ValidRuns ==
  ASSUME NEW c \in Cond
  PROVE  \E f : /\ Validate(c) <=> f[c]
                /\ \A d \in Inside(c) : f[d] <=> ValidNode(f, d)
<1> DEFINE D == Inside(c)
           F == [g \in [D -> BOOLEAN] |-> [d \in D |-> ValidNode(g, d)]]
           run == CHOOSE f : f = [d \in D |-> ValidNode(f, d)]
<1>1. Validate(c) <=> run[c]
  BY Zenon DEF Validate, ValidNode
<1>2. F \in [[D -> BOOLEAN] -> [D -> BOOLEAN]]
  <2>1. \A g, d : ValidNode(g, d) \in BOOLEAN
    BY Zenon DEF ValidNode
  <2> QED BY <2>1, Zenon
<1>3. \A g \in [D -> BOOLEAN] : F[g] = [d \in D |-> ValidNode(g, d)]
  BY Zenon
<1>4. Recurs(F, D, BOOLEAN, Size(c))
  <2> SUFFICES ASSUME NEW g \in [D -> BOOLEAN], NEW h \in [D -> BOOLEAN], NEW d \in D,
                      \A s \in D : Size(c)[s] < Size(c)[d] => g[s] = h[s]
               PROVE  F[g][d] = F[h][d]
    <3>1. Size(c) \in [D -> Nat] /\ BOOLEAN # {}
      BY SmallerParts
    <3> QED BY <1>2, <3>1 DEF Recurs
  <2>1. \A s \in Parts(d) : g[s] = h[s]
    BY SmallerParts
  <2>2. ValidNode(g, d) = ValidNode(h, d)
    BY <2>1, Zenon DEF ValidNode
  <2> QED BY <1>3, <2>2, Zenon
<1> HIDE DEF F
<1>b. Fixed(F, D, BOOLEAN)
  BY <1>4, Recursion
<1>5. PICK f \in [D -> BOOLEAN] : f = F[f]
  BY <1>b DEF Fixed
<1>6. run = [d \in D |-> ValidNode(run, d)]
  <2>1. f = [d \in D |-> ValidNode(f, d)]
    BY <1>3, <1>5, Zenon
  <2> QED BY <2>1, Zenon
<1> HIDE DEF run
<1>7. \A d \in D : run[d] <=> ValidNode(run, d)
  BY <1>6, Zenon
<1> QED BY <1>1, <1>7, Zenon

(* So does Match.                                                           *)
LEMMA MatchRuns ==
  ASSUME NEW c \in Cond, NEW e, NEW now
  PROVE  \E f : /\ Match(c, e, now) <=> f[c]
                /\ \A d \in Inside(c) : f[d] <=> MatchNode(f, d, e, now)
<1> DEFINE D == Inside(c)
           F == [g \in [D -> BOOLEAN] |-> [d \in D |-> MatchNode(g, d, e, now)]]
           run == CHOOSE f : f = [d \in D |-> MatchNode(f, d, e, now)]
<1>1. Match(c, e, now) <=> run[c]
  BY Zenon DEF Match, MatchNode
<1>2. F \in [[D -> BOOLEAN] -> [D -> BOOLEAN]]
  <2>1. \A g, d : MatchNode(g, d, e, now) \in BOOLEAN
    BY Zenon DEF MatchNode
  <2> QED BY <2>1, Zenon
<1>3. \A g \in [D -> BOOLEAN] : F[g] = [d \in D |-> MatchNode(g, d, e, now)]
  BY Zenon
<1>4. Recurs(F, D, BOOLEAN, Size(c))
  <2> SUFFICES ASSUME NEW g \in [D -> BOOLEAN], NEW h \in [D -> BOOLEAN], NEW d \in D,
                      \A s \in D : Size(c)[s] < Size(c)[d] => g[s] = h[s]
               PROVE  F[g][d] = F[h][d]
    <3>1. Size(c) \in [D -> Nat] /\ BOOLEAN # {}
      BY SmallerParts
    <3> QED BY <1>2, <3>1 DEF Recurs
  <2>1. \A s \in Parts(d) : g[s] = h[s]
    BY SmallerParts
  <2>2. /\ "all" \in DOMAIN d => ToSet(d.all) \subseteq Parts(d)
        /\ "any" \in DOMAIN d => ToSet(d.any) \subseteq Parts(d)
        /\ "not" \in DOMAIN d => d.not \in Parts(d)
    BY DEF Parts
  <2>3. MatchNode(g, d, e, now) = MatchNode(h, d, e, now)
    BY <2>1, <2>2, Zenon DEF MatchNode
  <2> QED BY <1>3, <2>3, Zenon
<1> HIDE DEF F
<1>b. Fixed(F, D, BOOLEAN)
  BY <1>4, Recursion
<1>5. PICK f \in [D -> BOOLEAN] : f = F[f]
  BY <1>b DEF Fixed
<1>6. run = [d \in D |-> MatchNode(run, d, e, now)]
  <2>1. f = [d \in D |-> MatchNode(f, d, e, now)]
    BY <1>3, <1>5, Zenon
  <2> QED BY <2>1, Zenon
<1> HIDE DEF run
<1>7. \A d \in D : run[d] <=> MatchNode(run, d, e, now)
  BY <1>6, Zenon
<1> QED BY <1>1, <1>7, Zenon

-----------------------------------------------------------------------------
(* LIKE on an escaped text.                                                  *)

Reading(s) == [reached : SUBSET (0..Len(s)), escaped : BOOLEAN]
(* Where reading from A can be after one character that stands for itself.   *)
Onward(s, A, ch) == {j \in 1..Len(s) : j - 1 \in A /\ s[j] = ch}

Special == {"\\", "%", "_"}

(* An escaped character stands for itself.                                   *)
LEMMA LikeEscaped ==
  ASSUME NEW s, NEW A \in SUBSET (0..Len(s)), NEW ch
  PROVE  LikeStep(s, [reached |-> A, escaped |-> TRUE], ch) = [reached |-> Onward(s, A, ch), escaped |-> FALSE]
  BY DEF LikeStep, Onward

(* A character without a meaning of its own stands for itself.               *)
LEMMA LikeLetter ==
  ASSUME NEW s, NEW A \in SUBSET (0..Len(s)), NEW ch, ch \notin Special
  PROVE  LikeStep(s, [reached |-> A, escaped |-> FALSE], ch) = [reached |-> Onward(s, A, ch), escaped |-> FALSE]
  BY DEF LikeStep, Onward, Special

(* A backslash is not read itself.                                           *)
LEMMA LikeEscape ==
  ASSUME NEW s, NEW A \in SUBSET (0..Len(s)), NEW ch, ch = "\\"
  PROVE  LikeStep(s, [reached |-> A, escaped |-> FALSE], ch) = [reached |-> A, escaped |-> TRUE]
  BY DEF LikeStep

(* A % reads any number of characters.                                       *)
LEMMA LikeAny ==
  ASSUME NEW s, NEW A \in SUBSET (0..Len(s)), NEW ch, ch = "%"
  PROVE  LikeStep(s, [reached |-> A, escaped |-> FALSE], ch)
           = [reached |-> {j \in 0..Len(s) : \E i \in A : i <= j}, escaped |-> FALSE]
  BY DEF LikeStep

(* LIKE reads its pattern one character after the other.                    *)
LEMMA LikeRuns ==
  ASSUME NEW s, IsList(s), NEW pattern, Len(pattern) \in Nat
  PROVE  \E f : /\ Like(s, pattern) <=> Len(s) \in f[Len(pattern)].reached
                /\ f[0] = [reached |-> {0}, escaped |-> FALSE]
                /\ \A n \in 1..Len(pattern) : f[n] = LikeStep(s, f[n - 1], pattern[n])
<1> DEFINE m == Len(pattern)
           start == [reached |-> {0}, escaped |-> FALSE]
           F == [x \in Reading(s) \X (1..m) |-> LikeStep(s, x[1], pattern[x[2]])]
           run == CHOOSE f : f = [n \in 0..m |-> IF n = 0 THEN start ELSE LikeStep(s, f[n - 1], pattern[n])]
<1>1. Like(s, pattern) <=> Len(s) \in run[m].reached
  BY Zenon DEF Like
<1>2. start \in Reading(s)
  BY DEF Reading, IsList
<1>3. ASSUME NEW r \in Reading(s), NEW ch PROVE LikeStep(s, r, ch) \in Reading(s)
  <2>1. r.reached \in SUBSET (0..Len(s)) /\ Len(s) \in Nat
    BY DEF Reading, IsList
  <2>2. CASE ch = "\\" /\ ~r.escaped
    <3>1. LikeStep(s, r, ch) = [reached |-> r.reached, escaped |-> TRUE]
      BY <2>2 DEF LikeStep
    <3> QED BY <2>1, <3>1 DEF Reading
  <2>3. CASE ~(ch = "\\" /\ ~r.escaped)
    <3>1. \E B \in SUBSET (0..Len(s)) : LikeStep(s, r, ch) = [reached |-> B, escaped |-> FALSE]
      <4>1. CASE ch = "%" /\ ~r.escaped
        BY <2>1, <2>3, <4>1 DEF LikeStep
      <4>2. CASE ~(ch = "%" /\ ~r.escaped)
        <5>1. PICK B : B = {j \in 1..Len(s) : j - 1 \in r.reached /\ (s[j] = ch \/ (ch = "_" /\ ~r.escaped))}
          OBVIOUS
        <5>2. B \in SUBSET (0..Len(s))
          <6>1. B \subseteq 1..Len(s)
            BY <5>1, Zenon
          <6>2. 1..Len(s) \subseteq 0..Len(s)
            BY <2>1
          <6> QED BY <6>1, <6>2
        <5>3. LikeStep(s, r, ch) = [reached |-> B, escaped |-> FALSE]
          BY <2>3, <4>2, <5>1, Zenon DEF LikeStep
        <5> QED BY <5>2, <5>3
      <4> QED BY <4>1, <4>2
    <3> QED BY <3>1 DEF Reading
  <2> QED BY <2>2, <2>3
<1>4. F \in [Reading(s) \X (1..m) -> Reading(s)]
  BY <1>3
<1>5. \A r \in Reading(s), n \in 1..m : F[<<r, n>>] = LikeStep(s, r, pattern[n])
  OBVIOUS
<1> HIDE DEF F, start
<1>6. PICK f \in [0..m -> Reading(s)] : f = [n \in 0..m |-> IF n = 0 THEN start ELSE F[<<f[n - 1], n>>]]
  <2>1. Steps(Reading(s), start, m, F)
    BY <1>2, <1>4 DEF Steps
  <2>2. Run(Reading(s), start, m, F)
    BY <2>1, StepsRun
  <2> QED BY <2>2 DEF Run
<1>7. f = [n \in 0..m |-> IF n = 0 THEN start ELSE LikeStep(s, f[n - 1], pattern[n])]
  <2>1. ASSUME NEW n \in 0..m
        PROVE  (IF n = 0 THEN start ELSE F[<<f[n - 1], n>>]) = IF n = 0 THEN start ELSE LikeStep(s, f[n - 1], pattern[n])
    <3>1. CASE n = 0
      BY <3>1
    <3>2. CASE n # 0
      <4>1. n \in 1..m /\ f[n - 1] \in Reading(s)
        BY <3>2
      <4> QED BY <3>2, <4>1, <1>5
    <3> QED BY <3>1, <3>2
  <2> QED BY <1>6, <2>1, Zenon
<1>8. run = [n \in 0..m |-> IF n = 0 THEN start ELSE LikeStep(s, run[n - 1], pattern[n])]
  BY <1>7, Zenon
<1> HIDE DEF run
<1>9. \A n \in 0..m : run[n] = IF n = 0 THEN start ELSE LikeStep(s, run[n - 1], pattern[n])
  BY <1>8, Zenon
<1>10. run[0] = start /\ \A n \in 1..m : run[n] = LikeStep(s, run[n - 1], pattern[n])
  BY <1>9
<1> QED BY <1>1, <1>10 DEF start

(* What an escaped text is written with.                                    *)
Letters(v) == {v[i] : i \in DOMAIN v} \cup {"\\"}

(* A text is escaped one character after the other.                         *)
LEMMA EscapeRuns ==
  ASSUME NEW v, IsList(v)
  PROVE  \E f : /\ escapeLike(v) = f[Len(v)] /\ f[0] = <<>> /\ \A n \in 0..Len(v) : f[n] \in Seq(Letters(v))
                /\ \A n \in 1..Len(v) : f[n] = f[n - 1] \o Quoted(v[n])
<1> DEFINE m == Len(v)
           V == Seq(Letters(v))
           start == <<>>
           F == [x \in V \X (1..m) |-> x[1] \o Quoted(v[x[2]])]
           run == CHOOSE f : f = [n \in 0..m |-> IF n = 0 THEN start ELSE f[n - 1] \o Quoted(v[n])]
<1>a. m \in Nat
  BY DEF IsList
<1>1. escapeLike(v) = run[m]
  BY Zenon DEF escapeLike
<1>2. m \in Nat /\ \A n \in 1..m : Quoted(v[n]) \in V
  <2>1. m \in Nat /\ \A n \in 1..m : v[n] \in Letters(v) /\ "\\" \in Letters(v)
    BY DEF IsList, Letters
  <2>2. PICK b \in Letters(v) : b = "\\"
    BY DEF Letters
  <2>3. \A n \in 1..m : <<b, v[n]>> \in V /\ <<v[n]>> \in V
    BY <2>1
  <2> QED BY <2>1, <2>2, <2>3 DEF Quoted
<1>3. F \in [V \X (1..m) -> V]
  BY <1>2
<1>4. \A r \in V, n \in 1..m : F[<<r, n>>] = r \o Quoted(v[n])
  OBVIOUS
<1>5. start \in V
  OBVIOUS
<1> HIDE DEF F, V, start
<1>6. PICK f \in [0..m -> V] : f = [n \in 0..m |-> IF n = 0 THEN start ELSE F[<<f[n - 1], n>>]]
  <2>1. Steps(V, start, m, F)
    BY <1>a, <1>3, <1>5 DEF Steps
  <2>2. Run(V, start, m, F)
    BY <2>1, StepsRun
  <2> QED BY <2>2 DEF Run
<1>7. f = [n \in 0..m |-> IF n = 0 THEN start ELSE f[n - 1] \o Quoted(v[n])]
  <2>1. ASSUME NEW n \in 0..m
        PROVE  (IF n = 0 THEN start ELSE F[<<f[n - 1], n>>]) = IF n = 0 THEN start ELSE f[n - 1] \o Quoted(v[n])
    <3>1. CASE n = 0
      BY <3>1
    <3>2. CASE n # 0
      <4>1. n \in 1..m /\ f[n - 1] \in V
        BY <1>2, <3>2
      <4> QED BY <3>2, <4>1, <1>4
    <3> QED BY <3>1, <3>2
  <2> QED BY <1>6, <2>1, Zenon
<1>8. run = [n \in 0..m |-> IF n = 0 THEN start ELSE run[n - 1] \o Quoted(v[n])]
  BY <1>7, Zenon
<1> HIDE DEF run
<1>9. \A n \in 0..m : run[n] = IF n = 0 THEN start ELSE run[n - 1] \o Quoted(v[n])
  BY <1>8, Zenon
<1>10. run[0] = start /\ \A n \in 1..m : run[n] = run[n - 1] \o Quoted(v[n])
  <2>1. 0 \in 0..m /\ \A n \in 1..m : n \in 0..m /\ n # 0
    BY <1>a
  <2> QED BY <1>9, <2>1, Zenon
<1>11. \A n \in 0..m : run[n] \in V
  <2> DEFINE S == {n \in Nat : n <= m => run[n] \in V}
  <2>1. 0 \in S
    BY <1>5, <1>10
  <2>2. ASSUME NEW n \in Nat, n \in S PROVE n + 1 \in S
    <3> SUFFICES ASSUME n + 1 <= m PROVE run[n + 1] \in V
      OBVIOUS
    <3>1. n + 1 \in 1..m /\ (n + 1) - 1 = n /\ run[n] \in V
      BY <1>2, <2>2
    <3>2. run[n + 1] = run[n] \o Quoted(v[n + 1])
      BY <1>10, <3>1
    <3> QED BY <1>2, <3>1, <3>2 DEF V
  <2> HIDE DEF S
  <2>3. Nat \subseteq S
    BY <2>1, <2>2, Counting
  <2> QED BY <1>2, <2>3 DEF S
<1> QED BY <1>1, <1>10, <1>11 DEF V, start

(* Where reading v from A can end: past the places where v stands.           *)
Past(s, A, v, n) == {k \in 0..Len(s) : n <= k /\ k - n \in A /\ \A j \in 1..n : s[k - n + j] = v[j]}

(* Before anything is read, every place is where it was.                    *)
LEMMA PastNone == ASSUME NEW s, IsList(s), NEW v, NEW A \in SUBSET (0..Len(s)) PROVE Past(s, A, v, 0) = A
<1>1. Len(s) \in Nat
  BY DEF IsList
<1>a. ASSUME NEW k \in A PROVE k \in Past(s, A, v, 0)
  <2>1. k \in 0..Len(s) /\ 0 <= k /\ k - 0 = k /\ \A j \in 1..0 : FALSE
    BY <1>1
  <2> QED BY <2>1 DEF Past
<1>b. ASSUME NEW k \in Past(s, A, v, 0) PROVE k \in A
  <2>1. k \in 0..Len(s) /\ k - 0 \in A
    BY DEF Past
  <2>2. k - 0 = k
    BY <2>1
  <2> QED BY <2>1, <2>2
<1>c. \A X : (\A x \in X : x \in A) /\ (\A x \in A : x \in X) => X = A
  OBVIOUS
<1> QED BY <1>a, <1>b, <1>c, Zenon

(* Those places are in s.                                                    *)
LEMMA PastWithin == ASSUME NEW s, NEW A, NEW v, NEW n PROVE Past(s, A, v, n) \in SUBSET (0..Len(s))
  BY Zenon DEF Past

(* Reading one more character of v.                                          *)
LEMMA PastNext ==
  ASSUME NEW s, IsList(s), NEW v, NEW A \in SUBSET (0..Len(s)), NEW n \in Nat
  PROVE  Onward(s, Past(s, A, v, n), v[n + 1]) = Past(s, A, v, n + 1)
<1>1. Len(s) \in Nat
  BY DEF IsList
<1>3. ASSUME NEW k \in Onward(s, Past(s, A, v, n), v[n + 1]) PROVE k \in Past(s, A, v, n + 1)
  <2>1. k \in 1..Len(s) /\ k - 1 \in Past(s, A, v, n) /\ s[k] = v[n + 1]
    BY DEF Onward
  <2>2. /\ n <= k - 1 /\ (k - 1) - n \in A
        /\ \A j \in 1..n : s[(k - 1) - n + j] = v[j]
    BY <2>1 DEF Past
  <2>3. k \in 0..Len(s) /\ n + 1 <= k /\ k - (n + 1) = (k - 1) - n
    BY <1>1, <2>1, <2>2
  <2>4. ASSUME NEW j \in 1..(n + 1) PROVE s[k - (n + 1) + j] = v[j]
    <3>1. CASE j \in 1..n
      BY <2>2, <2>3, <3>1
    <3>2. CASE j = n + 1
      <4>1. k - (n + 1) + j = k
        BY <2>1, <3>2
      <4> QED BY <2>1, <3>2, <4>1
    <3> QED BY <3>1, <3>2
  <2> QED BY <2>2, <2>3, <2>4 DEF Past
<1>4. ASSUME NEW k \in Past(s, A, v, n + 1) PROVE k \in Onward(s, Past(s, A, v, n), v[n + 1])
  <2>1. /\ k \in 0..Len(s) /\ n + 1 <= k /\ k - (n + 1) \in A
        /\ \A j \in 1..(n + 1) : s[k - (n + 1) + j] = v[j]
    BY DEF Past
  <2>2. k \in 1..Len(s) /\ k - 1 \in 0..Len(s) /\ n <= k - 1 /\ (k - 1) - n = k - (n + 1)
    BY <1>1, <2>1
  <2>3. s[k] = v[n + 1]
    <3>1. n + 1 \in 1..(n + 1) /\ k - (n + 1) + (n + 1) = k
      BY <2>2
    <3> QED BY <2>1, <3>1
  <2>4. \A j \in 1..n : s[(k - 1) - n + j] = v[j]
    <3>1. \A j \in 1..n : j \in 1..(n + 1)
      OBVIOUS
    <3> QED BY <2>1, <2>2, <3>1
  <2>5. k - 1 \in Past(s, A, v, n)
    BY <2>1, <2>2, <2>4 DEF Past
  <2> QED BY <2>2, <2>3, <2>5 DEF Onward
<1> QED BY <1>3, <1>4

(* A pattern that holds the escaped text from place m on reads the text.     *)
Spells(pattern, m, q) ==
  m + Len(q) <= Len(pattern) /\ \A k \in 1..Len(q) : pattern[m + k] = q[k]
ReadTo(s, f, i, A) == f[i] = [reached |-> A, escaped |-> FALSE]

(* Whatever v holds, its escaped form reads v and nothing else.             *)
LEMMA EscapedReads ==
  ASSUME NEW s, IsList(s), NEW v, IsList(v), NEW pattern, Len(pattern) \in Nat, NEW m \in Nat,
         Spells(pattern, m, escapeLike(v)), NEW A \in SUBSET (0..Len(s)), NEW f, ReadTo(s, f, m, A),
         \A n \in 1..Len(pattern) : f[n] = LikeStep(s, f[n - 1], pattern[n])
  PROVE  ReadTo(s, f, m + Len(escapeLike(v)), Past(s, A, v, Len(v))) /\ Len(escapeLike(v)) \in Nat
<1>1. PICK q : /\ escapeLike(v) = q[Len(v)] /\ q[0] = <<>> /\ \A n \in 0..Len(v) : q[n] \in Seq(Letters(v))
               /\ \A n \in 1..Len(v) : q[n] = q[n - 1] \o Quoted(v[n])
  BY EscapeRuns
<1>2. Len(v) \in Nat /\ Len(s) \in Nat /\ DOMAIN v = 1..Len(v)
  BY DEF IsList
<1>3. \A n \in 0..Len(v) : Len(q[n]) \in Nat
  BY <1>1
<1> DEFINE S == {n \in Nat : n <= Len(v) /\ Spells(pattern, m, q[n]) =>
                               ReadTo(s, f, m + Len(q[n]), Past(s, A, v, n))}
<1>4. 0 \in S
  <2>1. Len(q[0]) = 0 /\ m + 0 = m
    BY <1>1
  <2>2. ReadTo(s, f, m + Len(q[0]), Past(s, A, v, 0))
    BY <2>1, PastNone
  <2> QED BY <2>2
<1>5. ASSUME NEW n \in Nat, n \in S PROVE n + 1 \in S
  <2> SUFFICES ASSUME n + 1 <= Len(v), Spells(pattern, m, q[n + 1])
               PROVE  ReadTo(s, f, m + Len(q[n + 1]), Past(s, A, v, n + 1))
    OBVIOUS
  <2>1. n \in 0..Len(v) /\ n + 1 \in 0..Len(v) /\ n + 1 \in 1..Len(v) /\ (n + 1) - 1 = n
    BY <1>2
  <2>2. PICK L \in Seq(Letters(v)) : L = q[n]
    BY <1>1, <2>1
  <2>3. PICK x \in Letters(v) : x = v[n + 1]
    BY <1>2, <2>1 DEF Letters
  <2>4. q[n + 1] = L \o Quoted(x)
    BY <1>1, <2>1, <2>2, <2>3
  <2>5. PICK len \in Nat : len = Len(L)
    BY <2>2
  <2>a. /\ Past(s, A, v, n) \in SUBSET (0..Len(s))
        /\ Onward(s, Past(s, A, v, n), v[n + 1]) = Past(s, A, v, n + 1)
    <3> HIDE DEF S
    <3>1. Past(s, A, v, n) \in SUBSET (0..Len(s))
      BY PastWithin
    <3>2. Onward(s, Past(s, A, v, n), v[n + 1]) = Past(s, A, v, n + 1)
      BY PastNext
    <3> QED BY <3>1, <3>2
  <2>6. PICK P : P = Past(s, A, v, n) /\ P \in SUBSET (0..Len(s)) /\ Onward(s, P, x) = Past(s, A, v, n + 1)
    BY <2>3, <2>a, Zenon
  <2>7. CASE x \in Special
    <3>1. PICK b \in Letters(v) : b = "\\"
      BY DEF Letters
    <3>2. q[n + 1] = L \o <<b, x>>
      BY <2>4, <2>7, <3>1 DEF Quoted, Special
    <3>3. /\ Len(q[n + 1]) = len + 2 /\ \A k \in 1..len : q[n + 1][k] = L[k]
          /\ q[n + 1][len + 1] = b /\ q[n + 1][len + 2] = x
      BY <2>2, <2>3, <2>5, <3>1, <3>2
    <3>a. m + (len + 2) <= Len(pattern) /\ \A k \in 1..(len + 2) : pattern[m + k] = q[n + 1][k]
      BY <3>3 DEF Spells
    <3>b. /\ len + 1 \in 1..(len + 2) /\ len + 2 \in 1..(len + 2) /\ \A k \in 1..len : k \in 1..(len + 2)
          /\ m + (len + 1) = m + len + 1 /\ m + (len + 2) = m + len + 2
      OBVIOUS
    <3>c. m + len + 2 <= Len(pattern) /\ \A k \in 1..len : pattern[m + k] = L[k]
      BY <3>3, <3>a, <3>b
    <3>d. pattern[m + len + 1] = b
      BY <3>3, <3>a, <3>b
    <3>e. pattern[m + len + 2] = x
      BY <3>3, <3>a, <3>b
    <3>4. /\ m + len + 2 <= Len(pattern) /\ \A k \in 1..len : pattern[m + k] = L[k]
          /\ pattern[m + len + 1] = b /\ pattern[m + len + 2] = x
      BY <3>c, <3>d, <3>e
    <3>5. ReadTo(s, f, m + len, P)
      <4>a. m + len <= Len(pattern)
        BY <3>4
      <4>1. Spells(pattern, m, L)
        BY <2>5, <3>4, <4>a DEF Spells
      <4> QED BY <1>5, <2>1, <2>2, <2>5, <2>6, <4>1
    <3>6. f[m + len + 1] = [reached |-> P, escaped |-> TRUE]
      <4>1. m + len + 1 \in 1..Len(pattern) /\ (m + len + 1) - 1 = m + len
        BY <3>4
      <4>2. f[m + len + 1] = LikeStep(s, [reached |-> P, escaped |-> FALSE], b)
        BY <3>4, <3>5, <4>1 DEF ReadTo
      <4>3. LikeStep(s, [reached |-> P, escaped |-> FALSE], b) = [reached |-> P, escaped |-> TRUE]
        <5>1. P \in SUBSET (0..Len(s)) /\ b = "\\"
          BY <2>6, <3>1
        <5> HIDE DEF S
        <5> QED BY <5>1, LikeEscape
      <4> QED BY <4>2, <4>3
    <3>7. f[m + len + 2] = [reached |-> Onward(s, P, x), escaped |-> FALSE]
      <4>1. m + len + 2 \in 1..Len(pattern) /\ (m + len + 2) - 1 = m + len + 1
        BY <3>4
      <4>2. f[m + len + 2] = LikeStep(s, [reached |-> P, escaped |-> TRUE], x)
        BY <3>4, <3>6, <4>1
      <4> QED BY <2>6, <4>2, LikeEscaped
    <3>8. m + Len(q[n + 1]) = m + len + 2
      BY <3>3
    <3> QED BY <2>6, <3>7, <3>8 DEF ReadTo
  <2>8. CASE x \notin Special
    <3>2. q[n + 1] = L \o <<x>>
      BY <2>4, <2>8 DEF Quoted, Special
    <3>3. Len(q[n + 1]) = len + 1 /\ (\A k \in 1..len : q[n + 1][k] = L[k]) /\ q[n + 1][len + 1] = x
      BY <2>2, <2>3, <2>5, <3>2
    <3>a. m + (len + 1) <= Len(pattern) /\ \A k \in 1..(len + 1) : pattern[m + k] = q[n + 1][k]
      BY <3>3 DEF Spells
    <3>b. /\ len + 1 \in 1..(len + 1) /\ \A k \in 1..len : k \in 1..(len + 1)
          /\ m + (len + 1) = m + len + 1
      OBVIOUS
    <3>c. m + len + 1 <= Len(pattern) /\ \A k \in 1..len : pattern[m + k] = L[k]
      BY <3>3, <3>a, <3>b
    <3>d. pattern[m + len + 1] = x
      BY <3>3, <3>a, <3>b
    <3>4. /\ m + len + 1 <= Len(pattern) /\ \A k \in 1..len : pattern[m + k] = L[k]
          /\ pattern[m + len + 1] = x
      BY <3>c, <3>d
    <3>5. ReadTo(s, f, m + len, P)
      <4>a. m + len <= Len(pattern)
        BY <3>4
      <4>1. Spells(pattern, m, L)
        BY <2>5, <3>4, <4>a DEF Spells
      <4> QED BY <1>5, <2>1, <2>2, <2>5, <2>6, <4>1
    <3>6. f[m + len + 1] = [reached |-> Onward(s, P, x), escaped |-> FALSE]
      <4>1. m + len + 1 \in 1..Len(pattern) /\ (m + len + 1) - 1 = m + len
        BY <3>4
      <4>2. f[m + len + 1] = LikeStep(s, [reached |-> P, escaped |-> FALSE], x)
        BY <3>4, <3>5, <4>1 DEF ReadTo
      <4> QED BY <2>6, <2>8, <4>2, LikeLetter
    <3>8. m + Len(q[n + 1]) = m + len + 1
      BY <3>3
    <3> QED BY <2>6, <3>6, <3>8 DEF ReadTo
  <2> QED BY <2>7, <2>8
<1>6. Len(v) \in S
  <2> HIDE DEF S
  <2> QED BY <1>2, <1>4, <1>5, Counting
<1> QED BY <1>1, <1>2, <1>3, <1>6

(* What is read past its last % is read to the end, if anything is.          *)
LEMMA Ends ==
  ASSUME NEW s, IsList(s), NEW B \in SUBSET (0..Len(s)), NEW f, NEW n \in Nat, NEW pattern,
         ReadTo(s, f, n, B), f[n + 1] = LikeStep(s, f[n], "%")
  PROVE  Len(s) \in f[n + 1].reached <=> B # {}
<1>1. f[n + 1] = [reached |-> {j \in 0..Len(s) : \E i \in B : i <= j}, escaped |-> FALSE]
  BY LikeAny DEF ReadTo
<1>2. f[n + 1].reached = {j \in 0..Len(s) : \E i \in B : i <= j}
  BY <1>1
<1>3. ASSUME NEW b \in B PROVE Len(s) \in f[n + 1].reached
  <2>1. Len(s) \in 0..Len(s) /\ b <= Len(s)
    BY DEF IsList
  <2> QED BY <1>2, <2>1
<1>4. ASSUME Len(s) \in f[n + 1].reached PROVE B # {}
  BY <1>2, <1>4
<1> QED BY <1>3, <1>4

(* An escaped text and a % are the pattern of what begins with the text.    *)
LEMMA LikePrefix ==
  ASSUME NEW s, NEW v, IsList(s), IsList(v)
  PROVE  Like(s, escapeLike(v) \o <<"%">>) <=> Len(v) <= Len(s) /\ \A j \in DOMAIN v : s[j] = v[j]
<1>1. PICK q \in Seq(Letters(v)) : q = escapeLike(v)
  <2>1. Len(v) \in 0..Len(v)
    BY DEF IsList
  <2> QED BY <2>1, EscapeRuns
<1>2. PICK any : any = "%"
  OBVIOUS
<1>3. PICK pattern : pattern = q \o <<any>>
  OBVIOUS
<1>4. PICK len \in Nat : len = Len(q)
  BY <1>1
<1>5. /\ Len(pattern) = len + 1 /\ pattern[len + 1] = any /\ \A k \in 1..len : pattern[k] = q[k]
  BY <1>1, <1>3, <1>4
<1>6. PICK f : /\ Like(s, pattern) <=> Len(s) \in f[Len(pattern)].reached
               /\ f[0] = [reached |-> {0}, escaped |-> FALSE]
               /\ \A n \in 1..Len(pattern) : f[n] = LikeStep(s, f[n - 1], pattern[n])
  <2>1. Len(pattern) \in Nat
    BY <1>5
  <2> QED BY <2>1, LikeRuns
<1>7. PICK A : A = {0} /\ A \in SUBSET (0..Len(s))
  <2>1. 0 \in 0..Len(s)
    BY DEF IsList
  <2> QED BY <2>1
<1>8. ReadTo(s, f, 0, A) /\ Spells(pattern, 0, q)
  BY <1>4, <1>5, <1>6, <1>7 DEF ReadTo, Spells
<1>9. PICK B : B = Past(s, A, v, Len(v)) /\ B \in SUBSET (0..Len(s))
  BY PastWithin
<1>10. ReadTo(s, f, 0 + len, B)
  BY <1>1, <1>4, <1>5, <1>6, <1>7, <1>8, <1>9, EscapedReads
<1>11. Len(s) \in f[len + 1].reached <=> B # {}
  <2>1. len + 1 \in 1..Len(pattern) /\ (len + 1) - 1 = len /\ 0 + len = len
    BY <1>5
  <2>2. f[len + 1] = LikeStep(s, f[len], "%")
    <3>1. f[len + 1] = LikeStep(s, f[(len + 1) - 1], pattern[len + 1])
      BY <1>6, <2>1
    <3> QED BY <1>2, <1>5, <2>1, <3>1
  <2> QED BY <1>9, <1>10, <2>1, <2>2, Ends
<1>12. B # {} <=> Len(v) <= Len(s) /\ \A j \in DOMAIN v : s[j] = v[j]
  <2>1. Len(v) \in Nat /\ Len(s) \in Nat /\ DOMAIN v = 1..Len(v)
    BY DEF IsList
  <2>2. ASSUME NEW k \in B PROVE Len(v) <= Len(s) /\ \A j \in DOMAIN v : s[j] = v[j]
    <3>1. k \in 0..Len(s) /\ k - Len(v) \in A /\ \A j \in 1..Len(v) : s[k - Len(v) + j] = v[j]
      BY <1>9 DEF Past
    <3>2. k - Len(v) = 0
      BY <1>7, <3>1
    <3>a. PICK len_v \in Nat : len_v = Len(v)
      BY <2>1
    <3>d. k \in Nat
      BY <2>1, <3>1
    <3>b. k \in Nat /\ k - len_v = 0
      BY <3>2, <3>a, <3>d, Zenon
    <3>c. k = len_v /\ \A j \in 1..len_v : k - len_v + j = j
      BY <3>b
    <3>3. k = Len(v) /\ \A j \in 1..Len(v) : k - Len(v) + j = j
      BY <3>a, <3>c, Zenon
    <3>4. \A j \in 1..Len(v) : s[j] = v[j]
      BY <3>1, <3>3
    <3> QED BY <2>1, <3>1, <3>3, <3>4
  <2>3. ASSUME Len(v) <= Len(s), \A j \in DOMAIN v : s[j] = v[j] PROVE Len(v) \in B
    <3>1. Len(v) - Len(v) = 0 /\ \A j \in 1..Len(v) : Len(v) - Len(v) + j = j
      BY <2>1
    <3>2. \A j \in 1..Len(v) : s[Len(v) - Len(v) + j] = v[j]
      BY <2>1, <2>3, <3>1
    <3>3. Len(v) \in 0..Len(s) /\ Len(v) <= Len(v) /\ Len(v) - Len(v) \in A
      BY <1>7, <2>1, <2>3
    <3> QED BY <1>9, <3>2, <3>3 DEF Past
  <2> QED BY <2>2, <2>3
<1> QED BY <1>1, <1>2, <1>3, <1>5, <1>6, <1>11, <1>12

(* Between two of them, of what contains it.                                *)
LEMMA LikeContains ==
  ASSUME NEW s, NEW v, IsList(s), IsList(v)
  PROVE  Like(s, <<"%">> \o escapeLike(v) \o <<"%">>) <=> containsSeq(s, v)
<1>1. PICK q \in Seq(Letters(v)) : q = escapeLike(v)
  <2>1. Len(v) \in 0..Len(v)
    BY DEF IsList
  <2> QED BY <2>1, EscapeRuns
<1>2. PICK any : any = "%"
  OBVIOUS
<1>3. PICK pattern : pattern = <<any>> \o q \o <<any>>
  OBVIOUS
<1>4. PICK len \in Nat : len = Len(q)
  BY <1>1
<1>5. /\ Len(pattern) = len + 2 /\ pattern[1] = any /\ pattern[len + 2] = any
      /\ \A k \in 1..len : pattern[1 + k] = q[k]
  BY <1>1, <1>3, <1>4
<1>6. PICK f : /\ Like(s, pattern) <=> Len(s) \in f[Len(pattern)].reached
               /\ f[0] = [reached |-> {0}, escaped |-> FALSE]
               /\ \A n \in 1..Len(pattern) : f[n] = LikeStep(s, f[n - 1], pattern[n])
  <2>1. Len(pattern) \in Nat
    BY <1>5
  <2> QED BY <2>1, LikeRuns
<1>7. PICK A : A = 0..Len(s) /\ A \in SUBSET (0..Len(s))
  OBVIOUS
<1>8. ReadTo(s, f, 1, A) /\ Spells(pattern, 1, q)
  <2>1. Spells(pattern, 1, q)
    BY <1>4, <1>5 DEF Spells
  <2>a. 0 \in 0..Len(s)
    BY DEF IsList
  <2>2. PICK Z : Z = {0} /\ Z \in SUBSET (0..Len(s))
    BY <2>a
  <2>3. f[1] = LikeStep(s, [reached |-> Z, escaped |-> FALSE], any)
    BY <1>5, <1>6, <2>2
  <2>4. f[1] = [reached |-> {j \in 0..Len(s) : \E i \in Z : i <= j}, escaped |-> FALSE]
    <3>1. LikeStep(s, [reached |-> Z, escaped |-> FALSE], any)
            = [reached |-> {j \in 0..Len(s) : \E i \in Z : i <= j}, escaped |-> FALSE]
      BY <1>2, <2>2, LikeAny
    <3> QED BY <2>3, <3>1
  <2>5. {j \in 0..Len(s) : \E i \in Z : i <= j} = A
    BY <1>7, <2>2 DEF IsList
  <2> QED BY <2>1, <2>4, <2>5 DEF ReadTo
<1>9. PICK B : B = Past(s, A, v, Len(v)) /\ B \in SUBSET (0..Len(s))
  BY PastWithin
<1>10. ReadTo(s, f, 1 + len, B)
  <2>1. PICK one \in Nat : one = 1
    OBVIOUS
  <2>2. Len(pattern) \in Nat
    BY <1>5
  <2>3. ReadTo(s, f, one + Len(escapeLike(v)), Past(s, A, v, Len(v)))
    BY <1>1, <1>6, <1>7, <1>8, <2>1, <2>2, EscapedReads
  <2> QED BY <1>1, <1>4, <1>9, <2>1, <2>3
<1>11. Len(s) \in f[len + 2].reached <=> B # {}
  <2>1. len + 2 \in 1..Len(pattern) /\ (len + 2) - 1 = 1 + len /\ (1 + len) + 1 = len + 2 /\ 1 + len \in Nat
    BY <1>5
  <2>2. f[len + 2] = LikeStep(s, f[1 + len], "%")
    BY <1>2, <1>5, <1>6, <2>1
  <2> QED BY <1>9, <1>10, <2>1, <2>2, Ends
<1>12. B # {} <=> containsSeq(s, v)
  <2>1. Len(v) \in Nat /\ Len(s) \in Nat /\ DOMAIN v = 1..Len(v)
    BY DEF IsList
  <2>2. ASSUME NEW k \in B PROVE containsSeq(s, v)
    <3>1. /\ k \in 0..Len(s) /\ Len(v) <= k
          /\ \A j \in 1..Len(v) : s[k - Len(v) + j] = v[j]
      BY <1>9 DEF Past
    <3>2. k - Len(v) \in 0..(Len(s) - Len(v))
      BY <2>1, <3>1
    <3> QED BY <2>1, <3>1, <3>2 DEF containsSeq
  <2>3. ASSUME containsSeq(s, v) PROVE B # {}
    <3>1. PICK i \in 0..(Len(s) - Len(v)) : \A j \in DOMAIN v : s[i + j] = v[j]
      BY <2>3 DEF containsSeq
    <3>2. PICK k \in 0..Len(s) : k = i + Len(v)
      BY <2>1
    <3>3. Len(v) <= k /\ k - Len(v) = i /\ i \in A
      BY <1>7, <2>1, <3>2
    <3>4. k \in B
      BY <1>9, <2>1, <3>1, <3>3 DEF Past
    <3> QED BY <3>4
  <2> QED BY <2>2, <2>3
<1> QED BY <1>1, <1>2, <1>3, <1>5, <1>6, <1>11, <1>12

(* A bound that is rounded and clamped compares as the bound it was made of. *)
LEMMA BoundsAgree ==
  ASSUME NEW x \in Int, -NumLimit < x, x < NumLimit, NEW halves \in Int, NEW op \in ordOps,
         op \in {"eq", "ne"} => halves % 2 = 0
  PROVE  LET bound == IF op \in {"lt", "gte"} /\ ~(halves % 2 = 0)
                      THEN (halves \div 2) + 1 ELSE halves \div 2
         IN  ordCompare(x, Clamp(bound), op) <=> ordCompare(2 * x, halves, op)
<1>1. PICK h \in Int : h = halves \div 2
  OBVIOUS
<1>2. halves = 2 * h \/ halves = 2 * h + 1
  BY <1>1
<1>3. halves % 2 = 0 <=> halves = 2 * h
  BY <1>1, <1>2
<1>4. ASSUME NEW b \in Int
      PROVE  /\ x < Clamp(b) <=> x < b
             /\ x <= Clamp(b) <=> x <= b
             /\ x = Clamp(b) <=> x = b
  BY CondAssumption DEF Clamp
<1>5. ASSUME NEW b \in Int PROVE Clamp(b) \in Int
  BY CondAssumption DEF Clamp
<1>6. op \in {"eq", "ne", "lt", "lte", "gt", "gte"}
  BY DEF ordOps
<1>7. CASE op = "eq"
  BY <1>1, <1>3, <1>4, <1>7 DEF ordCompare
<1>8. CASE op = "ne"
  BY <1>1, <1>3, <1>4, <1>8 DEF ordCompare
<1>9. CASE op = "lt"
  <2>1. CASE halves = 2 * h
    BY <1>1, <1>3, <1>4, <1>9, <2>1 DEF ordCompare
  <2>2. CASE halves = 2 * h + 1
    <3>1. x < Clamp(h + 1) <=> x < h + 1
      BY <1>4
    <3> QED BY <1>1, <1>3, <1>9, <2>2, <3>1 DEF ordCompare
  <2> QED BY <1>2, <2>1, <2>2
<1>10. CASE op = "lte"
  BY <1>1, <1>2, <1>4, <1>10 DEF ordCompare
<1>11. CASE op = "gt"
  <2>1. Clamp(h) \in Int /\ (x <= Clamp(h) <=> x <= h)
    BY <1>4, <1>5
  <2> QED BY <1>1, <1>2, <1>11, <2>1 DEF ordCompare
<1>12. CASE op = "gte"
  <2>1. CASE halves = 2 * h
    <3>1. Clamp(h) \in Int /\ (x < Clamp(h) <=> x < h)
      BY <1>4, <1>5
    <3> QED BY <1>1, <1>3, <1>12, <2>1, <3>1 DEF ordCompare
  <2>2. CASE halves = 2 * h + 1
    <3>1. Clamp(h + 1) \in Int /\ (x < Clamp(h + 1) <=> x < h + 1)
      BY <1>4, <1>5
    <3> QED BY <1>1, <1>3, <1>12, <2>2, <3>1 DEF ordCompare
  <2> QED BY <1>2, <2>1, <2>2
<1> QED BY <1>6, <1>7, <1>8, <1>9, <1>10, <1>11, <1>12

(* What a leaf compares: at most one value. *)
LEMMA Column ==
  ASSUME NEW e, IsEntry(e), NEW field \in StrFields \cup NumFields \cup TimeFields
  PROVE  /\ FieldValue(e, field) = {} \/ \E x : FieldValue(e, field) = {x}
         /\ field \in StrFields => \A x \in FieldValue(e, field) : IsList(x)
         /\ field \in NumFields => \A x \in FieldValue(e, field) : x \in Int /\ -NumLimit < x /\ x < NumLimit
         /\ field \in TimeFields => FieldValue(e, field) = {e.received}
<1>1. \A A : (\A x, y \in A : x = y) => A = {} \/ \E x : A = {x}
  OBVIOUS
<1>2. CASE field = "host"
  BY <1>2 DEF FieldValue, IsEntry, StrFields, NumFields, TimeFields
<1>3. CASE field = "structured.key"
  <2>1. FieldValue(e, field) = e.structured /\ \A x, y \in e.structured : x = y /\ IsList(x)
    BY <1>3 DEF FieldValue, IsEntry
  <2>2. e.structured = {} \/ \E x : e.structured = {x}
    BY <2>1
  <2> QED BY <1>3, <2>1, <2>2 DEF StrFields, NumFields, TimeFields
<1>4. CASE field = "facility"
  BY <1>1, <1>4 DEF FieldValue, IsEntry, StrFields, NumFields, TimeFields
<1>5. CASE field = "priority"
  BY <1>5 DEF FieldValue, IsEntry, StrFields, NumFields, TimeFields
<1>6. CASE field = "received_at"
  BY <1>6 DEF FieldValue, IsEntry, StrFields, NumFields, TimeFields
<1> QED BY <1>2, <1>3, <1>4, <1>5, <1>6 DEF StrFields, NumFields, TimeFields

(* What a moment loses is less than a microsecond.                           *)
LEMMA MicrosInt == ASSUME NEW t \in Int PROVE Micros(t) \in Int
  BY DEF Micros
LEMMA MicrosRest == ASSUME NEW t \in Int PROVE t - 1000 * Micros(t) \in 0..999
  BY DEF Micros

(* Moments that are far enough apart compare like what is left of them.      *)
LEMMA MomentsCompare ==
  ASSUME NEW t \in Int, NEW bound \in Int, NEW op \in ordOps, Apart_(t, op, bound)
  PROVE  ordCompare(t, bound, op) <=> ordCompare(Micros(t), Micros(bound), op)
<1>1. PICK a \in Int : a = Micros(t)
  BY MicrosInt
<1>2. PICK m \in 0..999 : t = 1000 * a + m
  <2>1. t - 1000 * a \in 0..999
    BY <1>1, MicrosRest
  <2>2. t = 1000 * a + (t - 1000 * a)
    OBVIOUS
  <2> QED BY <2>1, <2>2
<1>3. PICK b \in Int : b = Micros(bound)
  BY MicrosInt
<1>4. PICK n \in 0..999 : bound = 1000 * b + n
  <2>1. bound - 1000 * b \in 0..999
    BY <1>3, MicrosRest
  <2>2. bound = 1000 * b + (bound - 1000 * b)
    OBVIOUS
  <2> QED BY <2>1, <2>2
<1>5. (t < bound <=> a < b \/ (a = b /\ m < n)) /\ (t = bound <=> a = b /\ m = n)
  <2>1. CASE a < b
    BY <1>2, <1>4, <2>1
  <2>2. CASE a = b
    BY <1>2, <1>4, <2>2
  <2>3. CASE b < a
    BY <1>2, <1>4, <2>3
  <2> QED BY <2>1, <2>2, <2>3
<1>6. t = bound \/ a # b \/ (op \in {"lt", "gte"} /\ n = 0)
  BY <1>1, <1>3, <1>4 DEF Apart_
<1>7. CASE t = bound
  BY <1>1, <1>3, <1>5, <1>7 DEF ordCompare
<1>8. CASE a # b
  <2>1. (t < bound <=> a < b) /\ (t = bound <=> a = b)
    BY <1>5, <1>8
  <2> QED BY <2>1, <1>1, <1>3 DEF ordCompare
<1>9. CASE op \in {"lt", "gte"} /\ n = 0
  <2>1. t < bound <=> a < b
    BY <1>5, <1>9
  <2> QED BY <2>1, <1>1, <1>3, <1>9 DEF ordCompare
<1> QED BY <1>6, <1>7, <1>8, <1>9

(* So do an age and the length of a window.                                  *)
LEMMA WindowsCompare ==
  ASSUME NEW t \in Int, NEW now \in Int, NEW n \in Nat, Micros(now) - Micros(t) # Second * n
  PROVE  now - t <= 1000 * Second * n <=> Micros(t) > Micros(now) - Second * n
<1>1. PICK a \in Int : a = Micros(t)
  BY MicrosInt
<1>2. PICK j \in 0..999 : t = 1000 * a + j
  <2>1. t - 1000 * a \in 0..999
    BY <1>1, MicrosRest
  <2>2. t = 1000 * a + (t - 1000 * a)
    OBVIOUS
  <2> QED BY <2>1, <2>2
<1>3. PICK b \in Int : b = Micros(now)
  BY MicrosInt
<1>4. PICK k \in 0..999 : now = 1000 * b + k
  <2>1. now - 1000 * b \in 0..999
    BY <1>3, MicrosRest
  <2>2. now = 1000 * b + (now - 1000 * b)
    OBVIOUS
  <2> QED BY <2>1, <2>2
<1>5. PICK s \in Int : s = Second
  BY DEF Second
<1>6. PICK w \in Int : w = s * n
  OBVIOUS
<1>a. 1000 * s * n = 1000 * w
  BY <1>6
<1>7. b - a # w
  BY <1>1, <1>3, <1>5, <1>6
<1>8. now - t <= 1000 * w <=> a > b - w
  BY <1>2, <1>4, <1>7
<1> QED BY <1>1, <1>3, <1>5, <1>6, <1>8, <1>a

(* A valid leaf holds in memory when it is true in SQL.                     *)
LEMMA LeafAgrees ==
  ASSUME NEW l, NEW e, IsEntry(e), validateLeaf(l), IsValue(l.value),
         l.field \in TimeFields => Apart_(e.received, l.op, l.value.time)
  PROVE  matchLeaf(l, e) <=> compileLeaf(l, e) = "T"
<1>1. PICK field \in StrFields \cup NumFields \cup TimeFields : field = l.field
  BY DEF validateLeaf
<1>2. PICK op \in strOps \cup ordOps : op = l.op
  BY DEF validateLeaf
<1>3. PICK col : col = FieldValue(e, field)
  OBVIOUS
<1>4. PICK value : value = l.value
  OBVIOUS
<1>5. /\ col = {} \/ \E x : col = {x}
      /\ field \in StrFields => \A x \in col : IsList(x)
      /\ field \in NumFields => \A x \in col : x \in Int /\ -NumLimit < x /\ x < NumLimit
      /\ field \in TimeFields => col = {e.received}
  BY <1>1, <1>3, Column
<1>6. \A b : Truth(b) = "T" <=> b
  BY DEF Truth
<1>7. CASE field \in StrFields
  <2>1. op \in strOps /\ IsList(value.str) /\ field \notin NumFields /\ field \notin TimeFields
    BY <1>1, <1>2, <1>4, <1>7 DEF validateLeaf, IsValue, StrFields, NumFields, TimeFields
  <2>2. /\ col = {} => (matchLeaf(l, e) <=> op = "ne")
        /\ col # {} => (matchLeaf(l, e) <=> \E x \in col : matchString(x, value.str, op))
    <3>1. field = l.field /\ op = l.op /\ col = FieldValue(e, l.field) /\ value = l.value
      BY <1>1, <1>2, <1>3, <1>4
    <3> QED BY <1>7, <2>1, <3>1, Zenon DEF matchLeaf
  <2>3. CASE op = "eq"
    <3>1. compileLeaf(l, e) = IF col = {} THEN "N" ELSE Truth(value.str \in col)
      BY <1>1, <1>2, <1>3, <1>4, <2>1, <2>3 DEF compileLeaf
    <3> QED BY <1>5, <2>2, <2>3, <3>1 DEF matchString, Truth
  <2>4. CASE op = "ne"
    <3>1. compileLeaf(l, e) = Truth(value.str \notin col)
      BY <1>1, <1>2, <1>3, <1>4, <2>1, <2>4 DEF compileLeaf
    <3> QED BY <1>5, <2>2, <2>4, <3>1 DEF matchString, Truth
  <2>5. CASE op = "contains"
    <3>1. compileLeaf(l, e) = IF col = {} THEN "N" ELSE
            Truth(\E x \in col : Like(x, <<"%">> \o escapeLike(value.str) \o <<"%">>))
      BY <1>1, <1>2, <1>3, <1>4, <2>1, <2>5 DEF compileLeaf
    <3>2. \A x \in col : Like(x, <<"%">> \o escapeLike(value.str) \o <<"%">>) <=> containsSeq(x, value.str)
      BY <1>5, <1>7, <2>1, LikeContains
    <3> QED BY <2>2, <2>5, <3>1, <3>2 DEF matchString, Truth
  <2>6. CASE op = "prefix"
    <3>1. compileLeaf(l, e) = IF col = {} THEN "N" ELSE
            Truth(\E x \in col : Like(x, escapeLike(value.str) \o <<"%">>))
      BY <1>1, <1>2, <1>3, <1>4, <2>1, <2>6 DEF compileLeaf
    <3>2. \A x \in col : Like(x, escapeLike(value.str) \o <<"%">>) <=>
            Len(value.str) <= Len(x) /\ \A j \in DOMAIN value.str : x[j] = value.str[j]
      BY <1>5, <1>7, <2>1, LikePrefix
    <3> QED BY <2>2, <2>6, <3>1, <3>2 DEF matchString, Truth
  <2> QED BY <2>1, <2>3, <2>4, <2>5, <2>6 DEF strOps
<1>8. CASE field \in NumFields
  <2>1. op \in ordOps /\ value.nan \in BOOLEAN /\ value.halves \in Int /\ field \notin StrFields
    BY <1>1, <1>2, <1>4, <1>8 DEF validateLeaf, IsValue, StrFields, NumFields, TimeFields
  <2>a. field \notin TimeFields
    BY <1>8 DEF NumFields, TimeFields
  <2>2. /\ col = {} \/ value.nan => (matchLeaf(l, e) <=> op = "ne")
        /\ col # {} /\ ~value.nan =>
             (matchLeaf(l, e) <=> \E x \in col : ordCompare(2 * x, value.halves, op))
    <3>1. field = l.field /\ op = l.op /\ col = FieldValue(e, l.field) /\ value = l.value
      BY <1>1, <1>2, <1>3, <1>4
    <3>2. CASE col = {}
      BY <3>1, <3>2, Zenon DEF matchLeaf
    <3>3. CASE col # {} /\ value.nan
      BY <1>8, <2>1, <2>a, <3>1, <3>3, Zenon DEF matchLeaf
    <3>4. CASE col # {} /\ ~value.nan
      BY <1>8, <2>1, <2>a, <3>1, <3>4, Zenon DEF matchLeaf
    <3> QED BY <3>2, <3>3, <3>4, Zenon
  <2>3. compileLeaf(l, e) = numLeaf(col, op, value)
    <3>1. field = l.field /\ op = l.op /\ col = FieldValue(e, l.field) /\ value = l.value
      BY <1>1, <1>2, <1>3, <1>4
    <3> QED BY <1>8, <2>1, <2>a, <3>1 DEF compileLeaf
  <2>4. CASE value.nan
    BY <2>2, <2>3, <2>4 DEF numLeaf, Truth
  <2>5. CASE ~value.nan /\ op \in {"eq", "ne"} /\ value.halves % 2 # 0
    <3>1. \A x \in col : 2 * x # value.halves
      BY <1>5, <1>8, <2>1, <2>5
    <3>2. matchLeaf(l, e) <=> op = "ne"
      BY <1>5, <2>2, <2>5, <3>1 DEF ordCompare
    <3> QED BY <2>3, <2>5, <3>2 DEF numLeaf, Truth
  <2>6. CASE ~value.nan /\ (op \in {"eq", "ne"} => value.halves % 2 = 0)
    <3>1. PICK bound : bound = IF op \in {"lt", "gte"} /\ ~(value.halves % 2 = 0)
                               THEN (value.halves \div 2) + 1 ELSE value.halves \div 2
      OBVIOUS
    <3>2. numLeaf(col, op, value) = sqlOp(col, op, Clamp(bound))
      BY <2>6, <3>1 DEF numLeaf
    <3>3. \A x \in col : ordCompare(x, Clamp(bound), op) <=> ordCompare(2 * x, value.halves, op)
      BY <1>5, <1>8, <2>1, <2>6, <3>1, BoundsAgree
    <3> QED BY <2>2, <2>3, <2>6, <3>2, <3>3 DEF sqlOp, Truth
  <2> QED BY <2>4, <2>5, <2>6
<1>9. CASE field \in TimeFields
  <2>1. field \notin StrFields /\ field \notin NumFields /\ col = {e.received}
    BY <1>5, <1>9 DEF StrFields, NumFields, TimeFields
  <2>2. matchLeaf(l, e) <=> ordCompare(e.received, value.time, op)
    <3>1. field = l.field /\ op = l.op /\ col = FieldValue(e, l.field) /\ value = l.value
      BY <1>1, <1>2, <1>3, <1>4
    <3> QED BY <1>9, <2>1, <3>1, Zenon DEF matchLeaf
  <2>3. compileLeaf(l, e) = sqlOp({Micros(x) : x \in col}, op, Micros(value.time))
    <3>1. field = l.field /\ op = l.op /\ col = FieldValue(e, l.field) /\ value = l.value
      BY <1>1, <1>2, <1>3, <1>4
    <3> QED BY <1>9, <2>1, <3>1 DEF compileLeaf
  <2>4. {Micros(x) : x \in col} = {Micros(e.received)}
    BY <2>1
  <2>5. compileLeaf(l, e) = "T" <=> ordCompare(Micros(e.received), Micros(value.time), op)
    BY <2>3, <2>4, <1>6 DEF sqlOp
  <2>6. op \in ordOps /\ value.time \in Int /\ e.received \in Int /\ Apart_(e.received, op, value.time)
    BY <1>1, <1>2, <1>4, <1>9, <2>1 DEF validateLeaf, IsValue, IsEntry
  <2>7. ordCompare(e.received, value.time, op) <=> ordCompare(Micros(e.received), Micros(value.time), op)
    BY <2>6, MomentsCompare
  <2> QED BY <2>2, <2>5, <2>7
<1> QED BY <1>7, <1>8, <1>9

(* The three truth values.                                                  *)
Truths == {"T", "F", "N"}

(* What the operators of SQL return.                                        *)
LEMMA TruthsAre ==
  /\ \A b : Truth(b) \in Truths /\ (Truth(b) = "T" <=> b)
  /\ \A S : SqlAnd(S) \in Truths /\ SqlOr(S) \in Truths
  /\ \A v : CompileNot(v) \in Truths /\ (CompileNot(v) = "T" <=> v # "T")
<1>1. \A b : Truth(b) \in Truths /\ (Truth(b) = "T" <=> b)
  BY DEF Truth, Truths
<1>2. \A S : SqlAnd(S) \in Truths /\ SqlOr(S) \in Truths
  BY DEF SqlAnd, SqlOr, Truths
<1>3. \A v : CompileNot(v) \in Truths /\ (CompileNot(v) = "T" <=> v # "T")
  BY DEF CompileNot, Truth, Truths
<1> QED BY <1>1, <1>2, <1>3

(* AND and OR are true as the connectives are, NULL or not.                 *)
LEMMA AndOr ==
  ASSUME NEW S, S \subseteq Truths
  PROVE  /\ SqlAnd(S) = "T" <=> \A v \in S : v = "T"
         /\ SqlOr(S) = "T" <=> \E v \in S : v = "T"
<1>1. \A v \in S : v = "T" \/ v = "F" \/ v = "N"
  BY DEF Truths
<1> QED BY <1>1 DEF SqlAnd, SqlOr

(* A leaf compiles to a truth value.                                        *)
LEMMA LeafTruths == \A l, e : compileLeaf(l, e) \in Truths
<1> SUFFICES ASSUME NEW l, NEW e PROVE compileLeaf(l, e) \in Truths
  OBVIOUS
<1>1. \A col, op, v : sqlOp(col, op, v) \in Truths
  BY TruthsAre DEF sqlOp, Truths
<1>2. \A col, op, v : numLeaf(col, op, v) \in Truths
  BY <1>1, TruthsAre DEF numLeaf
<1>3. "T" \in Truths /\ "F" \in Truths /\ "N" \in Truths
  BY DEF Truths
<1> QED BY <1>1, <1>2, <1>3, TruthsAre, Zenon DEF compileLeaf

(* So does CompileSQL, to one of the three truth values.                    *)
LEMMA SqlRuns ==
  ASSUME NEW c \in Cond, NEW e, NEW now
  PROVE  \E f : /\ compile(c, e, now) = f[c]
                /\ \A d \in Inside(c) : f[d] = SqlNode(f, d, e, now) /\ f[d] \in Truths
<1> DEFINE D == Inside(c)
           F == [g \in [D -> Truths] |-> [d \in D |-> SqlNode(g, d, e, now)]]
           run == CHOOSE f : f = [d \in D |-> SqlNode(f, d, e, now)]
<1>1. compile(c, e, now) = run[c]
  BY Zenon DEF compile, SqlNode, SqlGroup
<1>a. ASSUME NEW g, NEW d \in D PROVE SqlNode(g, d, e, now) \in Truths
  <2>1. CASE DOMAIN d = {}
    BY <2>1 DEF SqlNode, Truths
  <2>2. CASE DOMAIN d # {}
    <3>1. DOMAIN d \subseteq Groups
      BY SmallerParts, CondAssumption DEF IsCond
    <3>2. PICK k \in Groups : k = CHOOSE x \in DOMAIN d : TRUE
      BY <3>1, <2>2
    <3>3. k \in {"all", "any", "not", "leaf", "text", "tag", "mitre", "ot", "last"}
      BY DEF Groups
    <3>4. SqlGroup(g, k, d, e, now) \in Truths
      BY <3>3, TruthsAre, LeafTruths DEF SqlGroup
    <3> QED BY <2>2, <3>2, <3>4, Zenon DEF SqlNode
  <2> QED BY <2>1, <2>2
<1>2. F \in [[D -> Truths] -> [D -> Truths]]
  BY <1>a
<1>3. \A g \in [D -> Truths] : F[g] = [d \in D |-> SqlNode(g, d, e, now)]
  BY Zenon
<1>4. Recurs(F, D, Truths, Size(c))
  <2> SUFFICES ASSUME NEW g \in [D -> Truths], NEW h \in [D -> Truths], NEW d \in D,
                      \A s \in D : Size(c)[s] < Size(c)[d] => g[s] = h[s]
               PROVE  F[g][d] = F[h][d]
    <3>1. Size(c) \in [D -> Nat] /\ Truths # {}
      BY SmallerParts DEF Truths
    <3> QED BY <1>2, <3>1 DEF Recurs
  <2>1. \A s \in Parts(d) : g[s] = h[s]
    BY SmallerParts
  <2>2. /\ \A k \in DOMAIN d : k \in {"all", "any"} => \A s \in ToSet(d[k]) : g[s] = h[s]
        /\ "not" \in DOMAIN d => g[d["not"]] = h[d["not"]]
    BY <2>1 DEF Parts
  <2>3. SqlNode(g, d, e, now) = SqlNode(h, d, e, now)
    <3>1. CASE DOMAIN d = {}
      BY <3>1 DEF SqlNode
    <3>2. CASE DOMAIN d # {}
      <4>1. PICK k \in DOMAIN d : k = CHOOSE x \in DOMAIN d : TRUE
        BY <3>2
      <4>0. k \in Groups
        BY SmallerParts, CondAssumption DEF IsCond
      <4>2. k \in {"all", "any"} => {g[s] : s \in ToSet(d[k])} = {h[s] : s \in ToSet(d[k])}
        BY <2>2
      <4>3. k = "not" => g[d[k]] = h[d[k]]
        BY <2>2
      <4>4. SqlGroup(g, k, d, e, now) = SqlGroup(h, k, d, e, now)
        <5>1. CASE k = "all"
          <6>1. \A f : SqlGroup(f, k, d, e, now) = SqlAnd({f[s] : s \in ToSet(d[k])})
            BY <5>1 DEF SqlGroup
          <6> QED BY <6>1, <4>2, <5>1
        <5>2. CASE k = "any"
          <6>1. \A f : SqlGroup(f, k, d, e, now) = SqlOr({f[s] : s \in ToSet(d[k])})
            BY <5>2 DEF SqlGroup
          <6> QED BY <6>1, <4>2, <5>2
        <5>3. CASE k = "not"
          BY <4>3, <5>3 DEF SqlGroup
        <5>4. CASE k \notin {"all", "any", "not"}
          <6>1. k \in {"leaf", "text", "tag", "mitre", "ot", "last"}
            BY <4>0, <5>4 DEF Groups
          <6> QED BY <6>1 DEF SqlGroup
        <5> QED BY <5>1, <5>2, <5>3, <5>4
      <4> QED BY <3>2, <4>1, <4>4, Zenon DEF SqlNode
    <3> QED BY <3>1, <3>2
  <2> QED BY <1>3, <2>3
<1> HIDE DEF F
<1>b. Fixed(F, D, Truths)
  BY <1>4, Recursion
<1>5. PICK f \in [D -> Truths] : f = F[f]
  BY <1>b DEF Fixed
<1>6. run = [d \in D |-> SqlNode(run, d, e, now)]
  <2>1. f = [d \in D |-> SqlNode(f, d, e, now)]
    BY <1>3, <1>5
  <2> QED BY <2>1, Zenon
<1> HIDE DEF run
<1>7. \A d \in D : run[d] = SqlNode(run, d, e, now)
  BY <1>6, Zenon
<1> QED BY <1>1, <1>7, <1>a

(* A window short enough is the time.Duration it is converted to.           *)
LEMMA DurationIs == ASSUME NEW n \in Nat, n < WindowLimit PROVE Duration(n) = n
  BY CondAssumption DEF Duration

-----------------------------------------------------------------------------
(* The text search.                                                          *)

(* What a text search is decoded from.                                        *)
IsQuery(q) == IsList(q) /\ \A i \in DOMAIN q : IsList(q[i].seq) /\ q[i].neg \in Nat

(* The operands of a query are a list.                                       *)
LEMMA OperandsList ==
  ASSUME NEW query, IsQuery(query)
  PROVE  \E N \in Nat : Len(Operands(query)) = N /\ DOMAIN Operands(query) = 1..N
<1> DEFINE kept == {i \in DOMAIN query : query[i].seq # <<>>}
           order == {p \in kept \X kept : p[1] < p[2]}
           places == Sorted(kept, order)
<1>1. kept \in SUBSET (1..Len(query)) /\ Len(query) \in Nat
  BY DEF IsQuery, IsList
<1>2. IsFiniteSet(kept)
  <2>1. IsFiniteSet(1..Len(query))
    BY <1>1, FS_Interval
  <2> HIDE DEF kept
  <2> QED BY <1>1, <2>1, FS_Subset
<1>3. \A x \in kept : x \in Int
  BY <1>1
<1>4. Operands(query) = [k \in DOMAIN places |-> query[places[k]]]
  BY Zenon DEF Operands
<1> HIDE DEF kept
<1>5. IsTotal(kept, order)
  BY <1>3 DEF IsTotal
<1> HIDE DEF order
<1>6. Len(places) \in Nat /\ DOMAIN places = 1..Len(places)
  BY <1>2, <1>5, SortedLists
<1> HIDE DEF places
<1>7. PICK N \in Nat : N = Len(places)
  BY <1>6
<1>8. PICK s : s = [k \in 1..N |-> query[places[k]]]
  OBVIOUS
<1>9. Len(s) = N /\ DOMAIN s = 1..N
  BY <1>8
<1>10. Operands(query) = s
  BY <1>4, <1>6, <1>7, <1>8
<1> QED BY <1>9, <1>10

(* A text holds what an item asks for.                                       *)
Meets(msg, t) == containsSeq(msg, t.seq) # t.neg

(* A term asks for what its item asks for.                                  *)
LEMMA TermMeets ==
  ASSUME NEW msg, NEW item
  PROVE  Meets(msg, Term(item)) <=> (containsSeq(msg, item.seq) # (item.neg % 2 = 1))
<1>1. Term(item).seq = item.seq /\ Term(item).neg = (item.neg % 2 = 1)
  BY Zenon DEF Term
<1> QED BY <1>1, Zenon DEF Meets

(* Which of n items are operators.                                           *)
AreOperators(ops, items, N) ==
  /\ ops \in SUBSET (1..N)
  /\ \A i \in 1..N : i \in ops <=> IsOr(items[i]) /\ 1 < i /\ i < N /\ i - 1 \notin ops

(* Between operators, or the ends.                                           *)
Group(ops, N, i, j) == i <= j /\ (i = 1 \/ i - 1 \in ops) /\ (j = N \/ j + 1 \in ops) /\ \A k \in i..j : k \notin ops

(* The search of PostgreSQL: one of its groups has all its terms met.       *)
LEMMA OperatorsRun ==
  ASSUME NEW query, NEW N \in Nat, Len(Operands(query)) = N, DOMAIN Operands(query) = 1..N
  PROVE  \E ops : /\ AreOperators(ops, Operands(query), N)
                  /\ \A msg : TsQuery(msg, query) <=>
                       \E i, j \in 1..N : /\ Group(ops, N, i, j)
                                          /\ \A k \in i..j : Meets(msg, Term(Operands(query)[k]))
<1> DEFINE items == Operands(query)
           D == DOMAIN items
           A(i) == IsOr(items[i]) /\ 1 < i /\ i < N
           F == [x \in BOOLEAN \X (1..N) |-> A(x[2]) /\ ~x[1]]
           run == CHOOSE f : f = [i \in D |-> IsOr(items[i]) /\ 1 < i /\ i < Len(items) /\ ~f[i - 1]]
           ops == {i \in 1..N : run[i]}
<1>1. \A msg : TsQuery(msg, query) <=>
        \E i, j \in D :
          /\ i <= j /\ (i = 1 \/ run[i - 1]) /\ (j = Len(items) \/ run[j + 1])
          /\ \A k \in i..j : ~run[k] /\ containsSeq(msg, items[k].seq) # (items[k].neg % 2 = 1)
  BY Zenon DEF TsQuery
<1>2. F \in [BOOLEAN \X (1..N) -> BOOLEAN]
  OBVIOUS
<1>3. \A x \in BOOLEAN, n \in 1..N : F[<<x, n>>] <=> A(n) /\ ~x
  OBVIOUS
<1>4. \A x \in BOOLEAN, n \in 1..N : F[<<x, n>>] \in BOOLEAN
  BY <1>2
<1>5. DOMAIN items = 1..N /\ Len(items) = N
  OBVIOUS
<1>6. \A n \in 1..N : A(n) <=> IsOr(items[n]) /\ 1 < n /\ n < Len(items)
  BY <1>5
<1> HIDE DEF F, items
<1>a. PICK b \in BOOLEAN : TRUE
  OBVIOUS
<1>7. PICK f \in [0..N -> BOOLEAN] : f = [n \in 0..N |-> IF n = 0 THEN b ELSE F[<<f[n - 1], n>>]]
  <2>1. PICK B : B = BOOLEAN
    OBVIOUS
  <2>2. Steps(B, b, N, F)
    BY <1>2, <2>1 DEF Steps
  <2>3. Run(B, b, N, F)
    BY <2>2, StepsRun
  <2> QED BY <2>1, <2>3, Zenon DEF Run
<1> DEFINE g == [i \in D |-> f[i]]
<1>8. ASSUME NEW i \in D PROVE g[i] = (IsOr(items[i]) /\ 1 < i /\ i < Len(items) /\ ~g[i - 1])
  <2>1. i \in 1..N /\ i \in 0..N /\ i # 0 /\ i - 1 \in 0..N
    BY <1>5
  <2>2. f[i] = F[<<f[i - 1], i>>] /\ f[i - 1] \in BOOLEAN /\ f[i] \in BOOLEAN
    BY <1>7, <2>1
  <2>3. f[i] <=> A(i) /\ ~f[i - 1]
    BY <1>3, <2>1, <2>2, Zenon
  <2>4. 1 < i => i - 1 \in D
    BY <1>5, <2>1
  <2>5. 1 < i => g[i - 1] = f[i - 1]
    BY <2>4, Zenon
  <2>6. f[i] <=> IsOr(items[i]) /\ 1 < i /\ i < Len(items) /\ ~g[i - 1]
    BY <1>6, <2>1, <2>3, <2>5, Zenon
  <2>7. g[i] = f[i]
    BY Zenon
  <2> QED BY <2>2, <2>6, <2>7, Zenon
<1>9. g = [i \in D |-> IsOr(items[i]) /\ 1 < i /\ i < Len(items) /\ ~g[i - 1]]
  BY <1>8, Zenon
<1>10. run = [i \in D |-> IsOr(items[i]) /\ 1 < i /\ i < Len(items) /\ ~run[i - 1]]
  BY <1>9, Zenon
<1> HIDE DEF run
<1>11. \A i \in D : run[i] <=> IsOr(items[i]) /\ 1 < i /\ i < Len(items) /\ ~run[i - 1]
  BY <1>10, Zenon
<1>12. \A i \in 1..N : i \in ops <=> run[i]
  OBVIOUS
<1>13. AreOperators(ops, items, N)
  <2> SUFFICES ASSUME NEW i \in 1..N
               PROVE  i \in ops <=> IsOr(items[i]) /\ 1 < i /\ i < N /\ i - 1 \notin ops
    BY DEF AreOperators
  <2>1. 1 < i => i - 1 \in 1..N
    OBVIOUS
  <2>2. 1 < i => (i - 1 \in ops <=> run[i - 1])
    BY <1>12, <2>1, Zenon
  <2>3. i \in ops <=> run[i]
    BY <1>12, Zenon
  <2>4. run[i] <=> IsOr(items[i]) /\ 1 < i /\ i < N /\ ~run[i - 1]
    BY <1>5, <1>11, Zenon
  <2> QED BY <2>2, <2>3, <2>4, Zenon
<1>14. ASSUME NEW msg
       PROVE  TsQuery(msg, query) <=> \E i, j \in 1..N : /\ Group(ops, N, i, j)
                                                         /\ \A k \in i..j : Meets(msg, Term(items[k]))
  <2> DEFINE P(i, j) == /\ i <= j /\ (i = 1 \/ run[i - 1]) /\ (j = Len(items) \/ run[j + 1])
                        /\ \A k \in i..j : ~run[k] /\ containsSeq(msg, items[k].seq) # (items[k].neg % 2 = 1)
             Q(i, j) == Group(ops, N, i, j) /\ \A k \in i..j : Meets(msg, Term(items[k]))
  <2>1. ASSUME NEW i \in 1..N, NEW j \in 1..N PROVE P(i, j) <=> Q(i, j)
    <3>1. i = 1 \/ i - 1 \in 1..N
      OBVIOUS
    <3>2. (i = 1 \/ run[i - 1]) <=> (i = 1 \/ i - 1 \in ops)
      BY <1>12, <3>1, Zenon
    <3>3. j = N \/ j + 1 \in 1..N
      OBVIOUS
    <3>4. (j = Len(items) \/ run[j + 1]) <=> (j = N \/ j + 1 \in ops)
      BY <1>5, <1>12, <3>3, Zenon
    <3>5. \A k \in i..j : k \in 1..N
      OBVIOUS
    <3>6. \A k \in i..j : run[k] <=> k \in ops
      BY <1>12, <3>5, Zenon
    <3>7. \A k \in i..j : containsSeq(msg, items[k].seq) # (items[k].neg % 2 = 1) <=> Meets(msg, Term(items[k]))
      BY TermMeets, Zenon
    <3>8. (\A k \in i..j : ~run[k] /\ containsSeq(msg, items[k].seq) # (items[k].neg % 2 = 1))
            <=> (\A k \in i..j : k \notin ops) /\ \A k \in i..j : Meets(msg, Term(items[k]))
      BY <3>6, <3>7, Zenon
    <3>9. Group(ops, N, i, j) <=> i <= j /\ (i = 1 \/ i - 1 \in ops) /\ (j = N \/ j + 1 \in ops) /\ \A k \in i..j : k \notin ops
      BY Zenon DEF Group
    <3> HIDE DEF ops
    <3> QED BY <3>2, <3>4, <3>8, <3>9, Zenon
  <2>2. TsQuery(msg, query) <=> \E i, j \in D : P(i, j)
    BY <1>1, Zenon
  <2>3. (\E i, j \in 1..N : Group(ops, N, i, j) /\ \A k \in i..j : Meets(msg, Term(items[k])))
          <=> \E i, j \in 1..N : Q(i, j)
    BY Zenon
  <2> HIDE DEF P, Q
  <2>4. (\E i, j \in D : P(i, j)) <=> \E i, j \in 1..N : Q(i, j)
    <3>1. (\E i, j \in D : P(i, j)) <=> \E i, j \in 1..N : P(i, j)
      BY <1>5
    <3>2. (\E i, j \in 1..N : P(i, j)) <=> \E i, j \in 1..N : Q(i, j)
      BY <2>1, Zenon
    <3> QED BY <3>1, <3>2, Zenon
  <2> QED BY <2>2, <2>3, <2>4, Zenon
<1> QED BY <1>13, <1>14, Zenon DEF items

(* What the parser does with one item.                                       *)
ParseStep(items, n, p) ==
  IF IsOr(items[n]) /\ p.cur # {} /\ ~p.prevWasOr /\ n < Len(items)
  THEN [groups |-> p.groups \cup {p.cur}, cur |-> {}, prevWasOr |-> TRUE]
  ELSE [p EXCEPT !.cur = @ \cup {Term(items[n])}, !.prevWasOr = FALSE]

(* p is what the parser has read after each of N items.                      *)
Parsing(query, items, N, p) ==
  /\ parseWebsearch(query) = p[N].groups \cup IF p[N].cur # {} THEN {p[N].cur} ELSE {}
  /\ p[0] = [groups |-> {}, cur |-> {}, prevWasOr |-> FALSE]
  /\ \A n \in 1..N : p[n] = ParseStep(items, n, p[n - 1])
  /\ \A n \in 0..N : p[n] = [groups |-> p[n].groups, cur |-> p[n].cur, prevWasOr |-> p[n].prevWasOr]

(* The parser reads one item after the other.                               *)
LEMMA ParserRuns ==
  ASSUME NEW query, NEW N \in Nat, Len(Operands(query)) = N PROVE \E p : Parsing(query, Operands(query), N, p)
<1> DEFINE items == Operands(query)
           T == {Term(items[n]) : n \in 1..N}
           V == [groups : SUBSET SUBSET T, cur : SUBSET T, prevWasOr : BOOLEAN]
           start == [groups |-> {}, cur |-> {}, prevWasOr |-> FALSE]
           F == [x \in V \X (1..N) |-> ParseStep(items, x[2], x[1])]
           run == CHOOSE f : f = [n \in 0..Len(items) |-> IF n = 0 THEN start ELSE ParseStep(items, n, f[n - 1])]
<1>1. parseWebsearch(query) = run[Len(items)].groups \cup IF run[Len(items)].cur # {} THEN {run[Len(items)].cur} ELSE {}
  BY Zenon DEF parseWebsearch, ParseStep
<1>2. start \in V
  OBVIOUS
<1>3. ASSUME NEW r \in V, NEW n \in 1..N PROVE ParseStep(items, n, r) \in V
  <2>1. r.groups \in SUBSET SUBSET T /\ r.cur \in SUBSET T /\ Term(items[n]) \in T
    OBVIOUS
  <2>2. r.groups \cup {r.cur} \in SUBSET SUBSET T /\ r.cur \cup {Term(items[n])} \in SUBSET T
    BY <2>1
  <2> HIDE DEF T
  <2>3. [groups |-> r.groups \cup {r.cur}, cur |-> {}, prevWasOr |-> TRUE] \in V
    BY <2>2
  <2>4. [r EXCEPT !.cur = @ \cup {Term(items[n])}, !.prevWasOr = FALSE] \in V
    BY <2>2
  <2> HIDE DEF V
  <2> QED BY <2>3, <2>4, Zenon DEF ParseStep
<1>4. F \in [V \X (1..N) -> V]
  BY <1>3
<1>5. \A r \in V, n \in 1..N : F[<<r, n>>] = ParseStep(items, n, r)
  OBVIOUS
<1>6. Len(items) = N
  OBVIOUS
<1> HIDE DEF F, start, items, V
<1>7. PICK f \in [0..N -> V] : f = [n \in 0..N |-> IF n = 0 THEN start ELSE F[<<f[n - 1], n>>]]
  <2>1. Steps(V, start, N, F)
    BY <1>2, <1>4 DEF Steps
  <2>2. Run(V, start, N, F)
    BY <2>1, StepsRun
  <2> QED BY <2>2 DEF Run
<1>8. f = [n \in 0..N |-> IF n = 0 THEN start ELSE ParseStep(items, n, f[n - 1])]
  <2>1. ASSUME NEW n \in 0..N
        PROVE  (IF n = 0 THEN start ELSE F[<<f[n - 1], n>>]) = IF n = 0 THEN start ELSE ParseStep(items, n, f[n - 1])
    <3>1. CASE n = 0
      BY <3>1
    <3>2. CASE n # 0
      <4>1. n \in 1..N /\ f[n - 1] \in V
        BY <3>2
      <4> QED BY <3>2, <4>1, <1>5
    <3> QED BY <3>1, <3>2
  <2> QED BY <1>7, <2>1, Zenon
<1>9. run = [n \in 0..N |-> IF n = 0 THEN start ELSE ParseStep(items, n, run[n - 1])]
  BY <1>6, <1>8, Zenon
<1> HIDE DEF run
<1>10. run[0] = start /\ \A n \in 1..N : run[n] = ParseStep(items, n, run[n - 1])
  <2>1. 0 \in 0..N /\ \A n \in 1..N : n \in 0..N /\ n # 0
    OBVIOUS
  <2> QED BY <1>9, <2>1, Zenon
<1>11. \A n \in 0..N : run[n] \in V
  <2> DEFINE S == {n \in Nat : n <= N => run[n] \in V}
  <2>1. 0 \in S
    BY <1>2, <1>10
  <2>2. ASSUME NEW n \in Nat, n \in S PROVE n + 1 \in S
    <3> SUFFICES ASSUME n + 1 <= N PROVE run[n + 1] \in V
      OBVIOUS
    <3>1. n + 1 \in 1..N /\ (n + 1) - 1 = n /\ run[n] \in V
      BY <2>2
    <3>2. run[n + 1] = ParseStep(items, n + 1, run[n])
      BY <1>10, <3>1
    <3> QED BY <1>3, <3>1, <3>2
  <2> HIDE DEF S
  <2>3. Nat \subseteq S
    BY <2>1, <2>2, Counting
  <2> QED BY <2>3 DEF S
<1>12. \A r \in V : r = [groups |-> r.groups, cur |-> r.cur, prevWasOr |-> r.prevWasOr]
  BY DEF V
<1>13. Parsing(query, items, N, run)
  BY <1>1, <1>6, <1>10, <1>11, <1>12, Zenon DEF start, Parsing
<1> QED BY <1>13, Zenon DEF items

(* The items before the operator that ends a group, or before the end.       *)
RunTo(ops, n) == {k \in 1..n : \A l \in k..n : l \notin ops}
TermsOf(items, K) == {Term(items[k]) : k \in K}

(* A group that does not end in an operator begins after one, or begins the query. *)
LEMMA Begins ==
  ASSUME NEW ops, NEW N \in Nat
  PROVE  \A n \in Nat : n \in 1..N /\ n \notin ops =>
           \E i \in 1..n : (i = 1 \/ i - 1 \in ops) /\ RunTo(ops, n) = i..n
<1> DEFINE S == {n \in Nat : n \in 1..N /\ n \notin ops =>
                   \E i \in 1..n : (i = 1 \/ i - 1 \in ops) /\ RunTo(ops, n) = i..n}
<1>1. 0 \in S
  OBVIOUS
<1>2. ASSUME NEW n \in Nat, n \in S PROVE n + 1 \in S
  <2> SUFFICES ASSUME n + 1 \in 1..N, n + 1 \notin ops
               PROVE  \E i \in 1..(n + 1) : (i = 1 \/ i - 1 \in ops) /\ RunTo(ops, n + 1) = i..(n + 1)
    OBVIOUS
  <2>1. CASE n = 0
    <3>1. RunTo(ops, n + 1) = 1..(n + 1)
      BY <2>1 DEF RunTo
    <3> QED BY <2>1, <3>1
  <2>2. CASE n # 0 /\ n \in ops
    <3>1. RunTo(ops, n + 1) = (n + 1)..(n + 1)
      BY <2>2 DEF RunTo
    <3>2. n + 1 \in 1..(n + 1) /\ (n + 1) - 1 \in ops
      BY <2>2
    <3> QED BY <3>1, <3>2
  <2>3. CASE n # 0 /\ n \notin ops
    <3>1. n \in 1..N
      BY <2>3
    <3>2. PICK i \in 1..n : (i = 1 \/ i - 1 \in ops) /\ RunTo(ops, n) = i..n
      BY <1>2, <2>3, <3>1
    <3>3. ASSUME NEW k \in RunTo(ops, n + 1) PROVE k \in i..(n + 1)
      <4>1. k \in 1..(n + 1) /\ \A l \in k..(n + 1) : l \notin ops
        BY DEF RunTo
      <4>2. CASE k = n + 1
        BY <4>2
      <4>3. CASE k # n + 1
        <5>1. k \in 1..n /\ \A l \in k..n : l \in k..(n + 1)
          BY <4>1, <4>3
        <5>2. k \in RunTo(ops, n)
          BY <4>1, <5>1 DEF RunTo
        <5> QED BY <3>2, <5>2
      <4> QED BY <4>2, <4>3
    <3>4. ASSUME NEW k \in i..(n + 1) PROVE k \in RunTo(ops, n + 1)
      <4>1. k \in 1..(n + 1)
        OBVIOUS
      <4>2. ASSUME NEW l \in k..(n + 1) PROVE l \notin ops
        <5>1. CASE l = n + 1
          BY <5>1
        <5>2. CASE l # n + 1
          <6>1. l \in i..n
            BY <5>2
          <6>2. l \in RunTo(ops, n) /\ l \in l..n
            BY <3>2, <6>1
          <6> QED BY <6>2 DEF RunTo
        <5> QED BY <5>1, <5>2
      <4> QED BY <4>1, <4>2 DEF RunTo
    <3>5. RunTo(ops, n + 1) = i..(n + 1)
      BY <3>3, <3>4
    <3> QED BY <3>2, <3>5
  <2> QED BY <2>1, <2>2, <2>3
<1>3. Nat \subseteq S
  <2> HIDE DEF S
  <2> QED BY <1>1, <1>2, Counting
<1> QED BY <1>3

(* Nothing leads up to an operator.                                          *)
LEMMA RunEmpty == ASSUME NEW ops, NEW n \in Nat, n \in ops \/ n = 0 PROVE RunTo(ops, n) = {}
<1>1. \A k \in 1..n : n \in k..n
  OBVIOUS
<1> QED BY <1>1 DEF RunTo

(* Another item leads up to itself.                                          *)
LEMMA RunHas == ASSUME NEW ops, NEW n \in Nat, n \notin ops, n # 0 PROVE n \in RunTo(ops, n)
<1>1. \A l \in n..n : l = n
  OBVIOUS
<1> QED BY <1>1 DEF RunTo

(* It is added to those before it.                                           *)
LEMMA RunNext ==
  ASSUME NEW ops, NEW n \in Nat, n + 1 \notin ops PROVE RunTo(ops, n + 1) = RunTo(ops, n) \cup {n + 1}
<1>1. ASSUME NEW k \in RunTo(ops, n + 1) PROVE k \in RunTo(ops, n) \cup {n + 1}
  <2>1. k \in 1..(n + 1) /\ \A l \in k..(n + 1) : l \notin ops
    BY DEF RunTo
  <2>2. \A l \in k..n : l \in k..(n + 1)
    BY <2>1
  <2>3. k = n + 1 \/ k \in 1..n
    BY <2>1
  <2> QED BY <2>1, <2>2, <2>3 DEF RunTo
<1>2. n + 1 \in RunTo(ops, n + 1)
  BY RunHas
<1>3. ASSUME NEW k \in RunTo(ops, n) PROVE k \in RunTo(ops, n + 1)
  <2>1. k \in 1..n /\ \A l \in k..n : l \notin ops
    BY DEF RunTo
  <2>2. k \in 1..(n + 1) /\ \A l \in k..(n + 1) : l \in k..n \/ l = n + 1
    BY <2>1
  <2> QED BY <2>1, <2>2 DEF RunTo
<1> QED BY <1>1, <1>2, <1>3

(* The items that can end a group.                                           *)
Ended(ops, n) == {j \in 1..n : j + 1 \in ops}
GroupsTo(items, ops, n) == {TermsOf(items, RunTo(ops, j)) : j \in Ended(ops, n - 1)}

(* Where the parser is after n items.                                        *)
ParsedTo(items, ops, n, p) ==
  /\ p.groups = GroupsTo(items, ops, n)
  /\ p.cur = TermsOf(items, RunTo(ops, n))
  /\ p.prevWasOr <=> n \in ops

(* One more item keeps the parser where it should be.                       *)
LEMMA ParseStepKeeps ==
  ASSUME NEW items, NEW N \in Nat, Len(items) = N, NEW ops, AreOperators(ops, items, N),
         NEW n \in Nat, n + 1 <= N, NEW p, ParsedTo(items, ops, n, p),
         p = [groups |-> p.groups, cur |-> p.cur, prevWasOr |-> p.prevWasOr]
  PROVE  ParsedTo(items, ops, n + 1, ParseStep(items, n + 1, p))
<1>1. n + 1 \in 1..N /\ (n + 1) - 1 = n /\ 0 \notin ops
  BY DEF AreOperators
<1>2. n + 1 \in ops <=> IsOr(items[n + 1]) /\ 1 < n + 1 /\ n + 1 < N /\ n \notin ops
  BY <1>1 DEF AreOperators
<1>3. p.cur # {} <=> RunTo(ops, n) # {}
  BY Zenon DEF ParsedTo, TermsOf
<1>4. IsOr(items[n + 1]) /\ p.cur # {} /\ ~p.prevWasOr /\ n + 1 < Len(items) <=> n + 1 \in ops
  <2>1. ~p.prevWasOr <=> n \notin ops
    BY Zenon DEF ParsedTo
  <2>2. n \notin ops /\ RunTo(ops, n) # {} <=> n \notin ops /\ 1 < n + 1
    <3>1. CASE n \in ops \/ n = 0
      <4>1. RunTo(ops, n) = {}
        BY <3>1, RunEmpty
      <4>2. n = 0 => ~(1 < n + 1)
        OBVIOUS
      <4> QED BY <3>1, <4>1, <4>2
    <3>2. CASE n \notin ops /\ n # 0
      <4>1. n \in RunTo(ops, n) /\ 1 < n + 1
        BY <3>2, RunHas
      <4> QED BY <3>2, <4>1
    <3> QED BY <3>1, <3>2
  <2> QED BY <1>2, <1>3, <2>1, <2>2, Zenon
<1>5. CASE n + 1 \in ops
  <2>1. ParseStep(items, n + 1, p) = [groups |-> p.groups \cup {p.cur}, cur |-> {}, prevWasOr |-> TRUE]
    BY <1>4, <1>5, Zenon DEF ParseStep
  <2>2. PICK r : r = ParseStep(items, n + 1, p)
    OBVIOUS
  <2>3. r.groups = p.groups \cup {p.cur} /\ r.cur = {} /\ r.prevWasOr
    BY <2>1, <2>2
  <2>4. r.cur = TermsOf(items, RunTo(ops, n + 1))
    <3>1. RunTo(ops, n + 1) = {}
      BY <1>5, RunEmpty
    <3> QED BY <2>3, <3>1 DEF TermsOf
  <2>5. Ended(ops, n) = Ended(ops, n - 1) \cup {n} 
    <3>1. n \in 1..n
      BY <1>2, <1>5
    <3>2. \A j \in 1..n : j = n \/ j \in 1..(n - 1)
      OBVIOUS
    <3>3. \A j \in 1..(n - 1) : j \in 1..n
      OBVIOUS
    <3> QED BY <1>5, <3>1, <3>2, <3>3, Zenon DEF Ended
  <2>6. r.groups = GroupsTo(items, ops, n + 1)
    <3>1. p.groups = GroupsTo(items, ops, n) /\ p.cur = TermsOf(items, RunTo(ops, n))
      BY Zenon DEF ParsedTo
    <3>2. GroupsTo(items, ops, n + 1) = {TermsOf(items, RunTo(ops, j)) : j \in Ended(ops, n)}
      BY <1>1 DEF GroupsTo
    <3>3. GroupsTo(items, ops, n) = {TermsOf(items, RunTo(ops, j)) : j \in Ended(ops, n - 1)}
      BY DEF GroupsTo
    <3> QED BY <2>3, <2>5, <3>1, <3>2, <3>3
  <2> QED BY <1>5, <2>2, <2>3, <2>4, <2>6, Zenon DEF ParsedTo
<1>6. CASE n + 1 \notin ops
  <2>1. ParseStep(items, n + 1, p) = [p EXCEPT !.cur = @ \cup {Term(items[n + 1])}, !.prevWasOr = FALSE]
    BY <1>4, <1>6, Zenon DEF ParseStep
  <2>2. PICK r : r = ParseStep(items, n + 1, p)
    OBVIOUS
  <2>3. r.groups = p.groups /\ r.cur = p.cur \cup {Term(items[n + 1])} /\ ~r.prevWasOr
    <3>1. PICK G, C, b : p = [groups |-> G, cur |-> C, prevWasOr |-> b]
      BY Zenon
    <3> QED BY <2>1, <2>2, <3>1
  <2>4. r.cur = TermsOf(items, RunTo(ops, n + 1))
    <3>1. RunTo(ops, n + 1) = RunTo(ops, n) \cup {n + 1}
      BY <1>6, RunNext
    <3>2. p.cur = TermsOf(items, RunTo(ops, n))
      BY Zenon DEF ParsedTo
    <3> QED BY <2>3, <3>1, <3>2 DEF TermsOf
  <2>5. Ended(ops, n) = Ended(ops, n - 1)
    <3>2. \A j \in 1..n : j = n \/ j \in 1..(n - 1)
      OBVIOUS
    <3>3. \A j \in 1..(n - 1) : j \in 1..n
      OBVIOUS
    <3> QED BY <1>6, <3>2, <3>3, Zenon DEF Ended
  <2>6. r.groups = GroupsTo(items, ops, n + 1)
    <3>1. p.groups = GroupsTo(items, ops, n)
      BY Zenon DEF ParsedTo
    <3>2. GroupsTo(items, ops, n + 1) = {TermsOf(items, RunTo(ops, j)) : j \in Ended(ops, n)}
      BY <1>1 DEF GroupsTo
    <3>3. GroupsTo(items, ops, n) = {TermsOf(items, RunTo(ops, j)) : j \in Ended(ops, n - 1)}
      BY DEF GroupsTo
    <3> QED BY <2>3, <2>5, <3>1, <3>2, <3>3, Zenon
  <2> QED BY <1>6, <2>2, <2>3, <2>4, <2>6, Zenon DEF ParsedTo
<1> QED BY <1>5, <1>6

(* The parser in memory makes the alternatives of websearch_to_tsquery.     *)
LEMMA TextAgrees ==
  ASSUME NEW msg, NEW query, IsList(msg), IsQuery(query)
  PROVE  textMatch(msg, query) <=> TsQuery(msg, query)
<1>1. PICK N \in Nat : Len(Operands(query)) = N /\ DOMAIN Operands(query) = 1..N
  BY OperandsList
<1>2. PICK items : items = Operands(query)
  OBVIOUS
<1>3. PICK ops : /\ AreOperators(ops, items, N)
                 /\ \A txt : TsQuery(txt, query) <=>
                      \E i, j \in 1..N : Group(ops, N, i, j) /\ \A k \in i..j : Meets(txt, Term(items[k]))
  <2>1. \E ops : /\ AreOperators(ops, Operands(query), N)
                 /\ \A txt : TsQuery(txt, query) <=>
                      \E i, j \in 1..N : /\ Group(ops, N, i, j)
                                         /\ \A k \in i..j : Meets(txt, Term(Operands(query)[k]))
    BY <1>1, OperatorsRun
  <2> QED BY <1>2, <2>1, Zenon
<1>a. PICK p : Parsing(query, items, N, p)
  BY <1>1, <1>2, ParserRuns
<1>4. /\ parseWebsearch(query) = p[N].groups \cup IF p[N].cur # {} THEN {p[N].cur} ELSE {}
      /\ p[0] = [groups |-> {}, cur |-> {}, prevWasOr |-> FALSE]
      /\ \A n \in 1..N : p[n] = ParseStep(items, n, p[n - 1])
      /\ \A n \in 0..N : p[n] = [groups |-> p[n].groups, cur |-> p[n].cur, prevWasOr |-> p[n].prevWasOr]
  BY <1>a, Zenon DEF Parsing
<1>5. ops \in SUBSET (1..N) /\ N \notin ops /\ 0 \notin ops /\ \A j \in 1..N : j + 1 \in ops => j \notin ops
  <2>1. \A j \in 1..N : j + 1 \in 1..N => (j + 1) - 1 = j
    OBVIOUS
  <2>2. N \in ops => N < N
    BY <1>3 DEF AreOperators
  <2> QED BY <1>3, <2>1, <2>2 DEF AreOperators
<1>6. ParsedTo(items, ops, N, p[N])
  <2> DEFINE S == {n \in Nat : n <= N => ParsedTo(items, ops, n, p[n])}
  <2>1. 0 \in S
    <3>1. p[0].groups = {} /\ p[0].cur = {} /\ ~p[0].prevWasOr
      BY <1>4
    <3>2. RunTo(ops, 0) = {} /\ Ended(ops, 0 - 1) = {}
      BY DEF RunTo, Ended
    <3>3. GroupsTo(items, ops, 0) = {} /\ TermsOf(items, RunTo(ops, 0)) = {}
      BY <3>2 DEF GroupsTo, TermsOf
    <3>4. ParsedTo(items, ops, 0, p[0])
      BY <1>5, <3>1, <3>3, Zenon DEF ParsedTo
    <3> QED BY <3>4
  <2>2. ASSUME NEW n \in Nat, n \in S PROVE n + 1 \in S
    <3> SUFFICES ASSUME n + 1 <= N PROVE ParsedTo(items, ops, n + 1, p[n + 1])
      OBVIOUS
    <3>1. n + 1 \in 1..N /\ (n + 1) - 1 = n /\ n \in 0..N /\ ParsedTo(items, ops, n, p[n])
      BY <2>2
    <3>2. p[n + 1] = ParseStep(items, n + 1, p[n])
      BY <1>4, <3>1
    <3>3. PICK r : r = p[n]
      OBVIOUS
    <3>4. r = [groups |-> r.groups, cur |-> r.cur, prevWasOr |-> r.prevWasOr]
      BY <1>4, <3>1, <3>3, Zenon
    <3>5. ParsedTo(items, ops, n + 1, ParseStep(items, n + 1, r))
      BY <1>1, <1>2, <1>3, <3>1, <3>3, <3>4, ParseStepKeeps
    <3> QED BY <3>2, <3>3, <3>5
  <2> HIDE DEF S
  <2>3. Nat \subseteq S
    BY <2>1, <2>2, Counting
  <2> QED BY <2>3 DEF S
<1> DEFINE J == {j \in 1..N : j = N \/ j + 1 \in ops}
<1>8. parseWebsearch(query) = {TermsOf(items, RunTo(ops, j)) : j \in J}
  <2>1. p[N].groups = {TermsOf(items, RunTo(ops, j)) : j \in Ended(ops, N - 1)}
        /\ p[N].cur = TermsOf(items, RunTo(ops, N))
    BY <1>6, Zenon DEF ParsedTo, GroupsTo
  <2>2. CASE N = 0
    <3>1. J = {} /\ Ended(ops, N - 1) = {} /\ RunTo(ops, N) = {}
      BY <2>2 DEF Ended, RunTo
    <3>2. p[N].groups = {} /\ p[N].cur = {}
      BY <2>1, <3>1 DEF TermsOf
    <3> QED BY <1>4, <3>1, <3>2
  <2>3. CASE N # 0
    <3>1. N \in RunTo(ops, N)
      BY <1>5, <2>3, RunHas
    <3>2. p[N].cur # {}
      BY <2>1, <3>1 DEF TermsOf
    <3>3. J = Ended(ops, N - 1) \cup {N}
      <4>1. N \in 1..N /\ \A j \in 1..N : j = N \/ j \in 1..(N - 1)
        BY <2>3
      <4>2. \A j \in 1..(N - 1) : j \in 1..N
        OBVIOUS
      <4> QED BY <4>1, <4>2, Zenon DEF Ended
    <3>4. parseWebsearch(query) = p[N].groups \cup {p[N].cur}
      BY <1>4, <3>2, Zenon
    <3> HIDE DEF J
    <3> QED BY <2>1, <3>3, <3>4
  <2> QED BY <2>2, <2>3
<1>9. textMatch(msg, query) <=> \E j \in J : \A k \in RunTo(ops, j) : Meets(msg, Term(items[k]))
  <2>1. textMatch(msg, query) <=> \E g \in parseWebsearch(query) : \A t \in g : Meets(msg, t)
    BY Zenon DEF textMatch, Meets
  <2>2. \A j \in J : (\A t \in TermsOf(items, RunTo(ops, j)) : Meets(msg, t))
                       <=> \A k \in RunTo(ops, j) : Meets(msg, Term(items[k]))
    BY Zenon DEF TermsOf
  <2> HIDE DEF J
  <2> QED BY <1>8, <2>1, <2>2, Zenon
<1>10. ASSUME NEW j \in J PROVE \E i \in 1..N : Group(ops, N, i, j) /\ i..j = RunTo(ops, j)
  <2>1. j \in 1..N /\ j \in Nat /\ j \notin ops
    BY <1>5
  <2>2. PICK i \in 1..j : (i = 1 \/ i - 1 \in ops) /\ RunTo(ops, j) = i..j
    BY <2>1, Begins
  <2>3. \A k \in i..j : k \notin ops
    <3>1. \A k \in i..j : k \in RunTo(ops, j) /\ k \in k..j
      BY <2>2
    <3> QED BY <3>1 DEF RunTo
  <2>4. i \in 1..N /\ i <= j
    BY <2>1, <2>2
  <2> QED BY <2>2, <2>3, <2>4 DEF Group
<1>11. ASSUME NEW i \in 1..N, NEW j \in 1..N, Group(ops, N, i, j)
       PROVE  j \in J /\ i..j = RunTo(ops, j)
  <2>1. /\ i <= j /\ (i = 1 \/ i - 1 \in ops) /\ (j = N \/ j + 1 \in ops)
        /\ \A k \in i..j : k \notin ops
    BY <1>11 DEF Group
  <2>2. ASSUME NEW k \in RunTo(ops, j) PROVE k \in i..j
    <3>1. k \in 1..j /\ \A l \in k..j : l \notin ops
      BY DEF RunTo
    <3>2. CASE k < i
      <4>1. i - 1 \in k..j /\ i # 1
        BY <2>1, <3>1, <3>2
      <4> QED BY <2>1, <3>1, <4>1
    <3> QED BY <3>1, <3>2
  <2>3. ASSUME NEW k \in i..j PROVE k \in RunTo(ops, j)
    <3>1. k \in 1..j /\ \A l \in k..j : l \in i..j
      OBVIOUS
    <3> QED BY <2>1, <3>1 DEF RunTo
  <2>4. i..j = RunTo(ops, j)
    BY <2>2, <2>3
  <2> QED BY <2>1, <2>4
<1> HIDE DEF J
<1>12. J \subseteq 1..N
  BY DEF J
<1>13. (\E j \in J : \A k \in RunTo(ops, j) : Meets(msg, Term(items[k]))) <=>
         \E i, j \in 1..N : Group(ops, N, i, j) /\ \A k \in i..j : Meets(msg, Term(items[k]))
  BY <1>10, <1>11, <1>12, Zenon
<1> QED BY <1>3, <1>9, <1>13, Zenon

(* A valid condition that sets a group sets no other.                        *)
LEMMA OneGroup ==
  ASSUME NEW d \in Cond, NEW valid, ValidNode(valid, d), DOMAIN d # {}
  PROVE  \E k \in Groups : /\ DOMAIN d = {k} /\ k = CHOOSE x \in DOMAIN d : TRUE
                           /\ k \in {"all", "any"} => Parts(d) = ToSet(d[k])
                           /\ k = "not" => Parts(d) = {d[k]}
<1>1. PICK k \in DOMAIN d : k = CHOOSE x \in DOMAIN d : TRUE
  OBVIOUS
<1>2. DOMAIN d = {k}
  BY DEF ValidNode
<1>3. k \in Groups
  BY CondAssumption DEF IsCond
<1>4. k \in {"all", "any", "not"} =>
        Parts(d) = IF k \in {"all", "any"} THEN ToSet(d[k]) ELSE {d[k]}
  BY <1>2 DEF Parts
<1> QED BY <1>1, <1>2, <1>3, <1>4

(* Nodes agree where their parts do. *)
LEMMA NodesAgree ==
  ASSUME NEW d \in Cond, NEW valid, ValidNode(valid, d), NEW match, NEW sql, NEW e, IsEntry(e),
         NEW now \in Int, \A s \in Parts(d) : sql[s] \in Truths /\ (match[s] <=> sql[s] = "T"),
         FarEnough(d, e, now)
  PROVE  MatchNode(match, d, e, now) <=> SqlNode(sql, d, e, now) = "T"
<1>1. CASE DOMAIN d = {}
  BY <1>1 DEF MatchNode, SqlNode
<1>2. CASE DOMAIN d # {}
  <2>1. PICK k \in Groups : /\ DOMAIN d = {k} /\ k = CHOOSE x \in DOMAIN d : TRUE
                            /\ k \in {"all", "any"} => Parts(d) = ToSet(d[k])
                            /\ k = "not" => Parts(d) = {d[k]}
    BY <1>2, OneGroup
  <2>2. SqlNode(sql, d, e, now) = SqlGroup(sql, k, d, e, now)
    BY <1>2, <2>1, Zenon DEF SqlNode
  <2>3. CASE k = "all"
    <3>1. MatchNode(match, d, e, now) <=> \A s \in Parts(d) : match[s]
      BY <2>1, <2>3 DEF MatchNode
    <3>2. SqlGroup(sql, k, d, e, now) = SqlAnd({sql[s] : s \in Parts(d)})
      BY <2>1, <2>3 DEF SqlGroup
    <3>3. {sql[s] : s \in Parts(d)} \subseteq Truths
      OBVIOUS
    <3>4. SqlAnd({sql[s] : s \in Parts(d)}) = "T" <=> \A v \in {sql[s] : s \in Parts(d)} : v = "T"
      BY <3>3, AndOr
    <3> QED BY <2>2, <3>1, <3>2, <3>4
  <2>4. CASE k = "any"
    <3>1. MatchNode(match, d, e, now) <=> \E s \in Parts(d) : match[s]
      BY <2>1, <2>4 DEF MatchNode
    <3>2. SqlGroup(sql, k, d, e, now) = SqlOr({sql[s] : s \in Parts(d)})
      BY <2>1, <2>4 DEF SqlGroup
    <3>3. {sql[s] : s \in Parts(d)} \subseteq Truths
      OBVIOUS
    <3>4. SqlOr({sql[s] : s \in Parts(d)}) = "T" <=> \E v \in {sql[s] : s \in Parts(d)} : v = "T"
      BY <3>3, AndOr
    <3> QED BY <2>2, <3>1, <3>2, <3>4
  <2>5. CASE k = "not"
    <3>1. MatchNode(match, d, e, now) <=> ~match[d[k]]
      BY <2>1, <2>5 DEF MatchNode
    <3>2. SqlGroup(sql, k, d, e, now) = CompileNot(sql[d[k]])
      BY <2>5 DEF SqlGroup
    <3>3. match[d[k]] <=> sql[d[k]] = "T"
      BY <2>1, <2>5
    <3> QED BY <2>2, <3>1, <3>2, <3>3, TruthsAre
  <2>6. CASE k = "leaf"
    <3>1. MatchNode(match, d, e, now) <=> matchLeaf(d[k], e)
      BY <2>1, <2>6 DEF MatchNode
    <3>2. SqlGroup(sql, k, d, e, now) = compileLeaf(d[k], e)
      BY <2>6 DEF SqlGroup
    <3>3. validateLeaf(d[k]) /\ IsValue(d[k].value)
      BY <2>1, <2>6, CondAssumption DEF ValidNode, IsCond
    <3>4. d[k].field \in TimeFields => Apart_(e.received, d[k].op, d[k].value.time)
      BY <2>1, <2>6, <3>3 DEF FarEnough
    <3> QED BY <2>2, <3>1, <3>2, <3>3, <3>4, LeafAgrees
  <2>7. CASE k = "text"
    <3>1. MatchNode(match, d, e, now) <=> textMatch(e.msg, d[k])
      BY <2>1, <2>7 DEF MatchNode
    <3>2. SqlGroup(sql, k, d, e, now) = Truth(TsQuery(e.msg, d[k]))
      BY <2>7 DEF SqlGroup
    <3>3. IsQuery(d[k]) /\ IsList(e.msg)
      BY <2>1, <2>7, CondAssumption DEF IsCond, IsQuery, IsEntry
    <3>4. textMatch(e.msg, d[k]) <=> TsQuery(e.msg, d[k])
      BY <3>3, TextAgrees
    <3> QED BY <2>2, <3>1, <3>2, <3>4, TruthsAre
  <2>8. CASE k = "tag"
    <3>1. MatchNode(match, d, e, now) <=> d[k] \in e.tags
      BY <2>1, <2>8 DEF MatchNode
    <3>2. SqlGroup(sql, k, d, e, now) = Truth(d[k] \in e.tags)
      BY <2>8 DEF SqlGroup
    <3> QED BY <2>2, <3>1, <3>2 DEF Truth
  <2>9. CASE k = "mitre"
    <3>1. MatchNode(match, d, e, now) <=> d[k] \in e.mitre
      BY <2>1, <2>9 DEF MatchNode
    <3>2. SqlGroup(sql, k, d, e, now) = Truth(d[k] \in e.mitre)
      BY <2>9 DEF SqlGroup
    <3> QED BY <2>2, <3>1, <3>2 DEF Truth
  <2>10. CASE k = "ot"
    <3>1. MatchNode(match, d, e, now) <=> d[k] \in e.ot
      BY <2>1, <2>10 DEF MatchNode
    <3>2. SqlGroup(sql, k, d, e, now) = Truth(d[k] \in e.ot)
      BY <2>10 DEF SqlGroup
    <3> QED BY <2>2, <3>1, <3>2 DEF Truth
  <2>11. CASE k = "last"
    <3>1. MatchNode(match, d, e, now) <=> now - e.received <= 1000 * Second * Duration(d[k])
      BY <2>1, <2>11 DEF MatchNode, Recent
    <3>2. SqlGroup(sql, k, d, e, now) = Truth(Micros(e.received) > Micros(now) - Second * d[k])
      BY <2>11 DEF SqlGroup
    <3>3. d[k] \in Nat /\ d[k] < WindowLimit /\ Micros(now) - Micros(e.received) # Second * d[k]
      BY <2>1, <2>11, CondAssumption DEF ValidNode, IsCond, FarEnough
    <3>4. Duration(d[k]) = d[k] /\ e.received \in Int
      BY <3>3, DurationIs DEF IsEntry
    <3>5. now - e.received <= 1000 * Second * d[k] <=> Micros(e.received) > Micros(now) - Second * d[k]
      BY <3>3, <3>4, WindowsCompare
    <3> QED BY <2>2, <3>1, <3>2, <3>4, <3>5 DEF Truth
  <2> QED BY <2>1, <2>3, <2>4, <2>5, <2>6, <2>7, <2>8, <2>9, <2>10, <2>11 DEF Groups
<1> QED BY <1>1, <1>2

(* Two entries that differ in nothing a condition looks at.                  *)
SameReading(e, q) ==
  /\ q.host = e.host /\ q.structured = e.structured /\ q.facility = e.facility /\ q.priority = e.priority
  /\ q.received = e.received /\ q.msg = e.msg /\ q.tags = e.tags /\ q.mitre = e.mitre /\ q.ot = e.ot

(* They are the same to SQL.                                                 *)
LEMMA ReadsSame ==
  ASSUME NEW e, NEW q, SameReading(e, q), NEW sql, NEW d, NEW now
  PROVE  SqlNode(sql, d, q, now) = SqlNode(sql, d, e, now)
<1>1. \A f : FieldValue(q, f) = FieldValue(e, f)
  BY Zenon DEF FieldValue, SameReading
<1>2. \A l : compileLeaf(l, q) = compileLeaf(l, e)
  <2> TAKE l
  <2>1. FieldValue(q, l.field) = FieldValue(e, l.field)
    BY <1>1, Zenon
  <2> QED BY <2>1, Zenon DEF compileLeaf
<1>3. ASSUME NEW g PROVE SqlGroup(sql, g, d, q, now) = SqlGroup(sql, g, d, e, now)
  BY <1>2, Zenon DEF SqlGroup, SameReading
<1> QED BY <1>3, Zenon DEF SqlNode

(* What holds of an entry in memory is true in SQL of the row it is, from the*)
(* leaves of the condition up.                                               *)
LEMMA TreesAgree ==
  ASSUME NEW c \in Cond, Validate(c), NEW now \in Int, NEW e, IsEntry(e), NEW q, SameReading(e, q),
         \A d \in Inside(c) : FarEnough(d, e, now)
  PROVE  Match(c, e, now) <=> Selects(c, q, now)
<1>2. c \in Inside(c)
  BY CondAssumption
<1>3. Selects(c, q, now) <=> compile(c, q, now) = "T"
  BY DEF Selects
<1>4. PICK valid : (Validate(c) <=> valid[c]) /\ \A d \in Inside(c) : valid[d] <=> ValidNode(valid, d)
  BY ValidRuns, Zenon
<1>5. PICK match : /\ Match(c, e, now) <=> match[c]
                   /\ \A d \in Inside(c) : match[d] <=> MatchNode(match, d, e, now)
  BY MatchRuns, Zenon
<1>6. PICK sql : /\ compile(c, q, now) = sql[c]
                 /\ \A d \in Inside(c) : sql[d] = SqlNode(sql, d, q, now) /\ sql[d] \in Truths
  BY SqlRuns
<1>7. /\ Size(c) \in [Inside(c) -> Nat]
      /\ \A d \in Inside(c) : /\ d \in Cond
                              /\ \A s \in Parts(d) : s \in Inside(c) /\ Size(c)[s] < Size(c)[d]
  BY SmallerParts
<1> DEFINE S == {n \in Nat : \A d \in Inside(c) :
                   Size(c)[d] < n /\ valid[d] => (match[d] <=> sql[d] = "T")}
<1>8. 0 \in S
  BY <1>7
<1>9. ASSUME NEW n \in Nat, n \in S PROVE n + 1 \in S
  <2>1. ASSUME NEW d \in Inside(c), Size(c)[d] < n + 1, valid[d] PROVE match[d] <=> sql[d] = "T"
    <3>1. ValidNode(valid, d)
      BY <1>4, <2>1
    <3>2. ASSUME NEW s \in Parts(d) PROVE sql[s] \in Truths /\ (match[s] <=> sql[s] = "T")
      <4>1. valid[s]
        BY <3>1, Zenon DEF ValidNode
      <4>2. s \in Inside(c) /\ Size(c)[s] < n
        BY <1>7, <2>1
      <4>3. match[s] <=> sql[s] = "T"
        BY <1>9, <4>1, <4>2
      <4> QED BY <1>6, <4>2, <4>3
    <3>3. MatchNode(match, d, e, now) <=> SqlNode(sql, d, e, now) = "T"
      BY <1>7, <3>1, <3>2, NodesAgree
    <3>4. match[d] <=> MatchNode(match, d, e, now)
      BY <1>5
    <3>5. sql[d] = SqlNode(sql, d, e, now)
      BY <1>6, ReadsSame
    <3> QED BY <3>3, <3>4, <3>5
  <2> QED BY <2>1
<1>10. Size(c)[c] + 1 \in S
  <2>1. Size(c)[c] + 1 \in Nat
    BY <1>2, <1>7
  <2> HIDE DEF S
  <2> QED BY <1>8, <1>9, <2>1, Counting
<1>11. match[c] <=> sql[c] = "T"
  BY <1>2, <1>3, <1>4, <1>7, <1>10
<1> QED BY <1>3, <1>5, <1>6, <1>11

(* The two agree on every accepted condition, of whatever depth, and on every*)
(* entry whose time is far enough from the moments the condition names: as   *)
(* it has on arrival, in nanoseconds, and as PostgreSQL keeps it             *)
(* (rules/cond.go: Match and CompileSQL; ingest.go: toEntry; MatchAgrees).   *)
THEOREM ConditionsAgree == IsJudged(judged) => MatchAgrees
<1> SUFFICES ASSUME IsJudged(judged), Validate(judged.c), NEW e \in judged.entries
             PROVE  Match(judged.c, e, judged.now) <=> Selects(judged.c, e, judged.now)
  BY DEF MatchAgrees
<1>1. /\ judged.c \in Cond /\ judged.now \in Int /\ IsEntry(e)
      /\ \A d \in Inside(judged.c) : FarEnough(d, e, judged.now)
  BY DEF IsJudged
<1>2. SameReading(e, e)
  BY DEF SameReading
<1>3. PICK c \in Cond : c = judged.c
  BY <1>1
<1>4. PICK now \in Int : now = judged.now
  BY <1>1
<1> QED BY <1>1, <1>2, <1>3, <1>4, TreesAgree

(* Rules whose conditions are these, on entries as they arrive, none of which*)
(* is within a microsecond of a moment or of the end of a window that a      *)
(* condition names.                                                          *)
OfRules(Entry) ==
  /\ \A c : Accepted(c) <=> Validate(c)
  /\ \A c, e, now : (InMemory(c, e, now) <=> Match(c, e, now)) /\ (InSQL(c, e, now) <=> Selects(c, e, now))
  /\ \A r \in RuleBody : validRule(r) => IsJudged([c |-> r.condition, entries |-> Entry, now |-> 0])

(* With them, the past is treated as the future whatever the rules are: what *)
(* PastAsFuture asks of conditions is so.                                    *)
THEOREM RulesOverThePast ==
  ASSUME NEW Entry, ClosedUnderRules(Entry), OfRules(Entry)
  PROVE  RuleSpec => []HistoryAgrees
<1>1. SameConditions(Entry)
  <2> SUFFICES ASSUME NEW r \in RuleBody, NEW e \in Entry, validRule(r)
               PROVE  InMemory(r.condition, e, 0) <=> InSQL(r.condition, Quiet(e), 0)
    BY DEF SameConditions
  <2>1. IsJudged([c |-> r.condition, entries |-> Entry, now |-> 0]) /\ Validate(r.condition)
    BY DEF OfRules, validRule
  <2>2. PICK c : c = r.condition
    OBVIOUS
  <2>3. /\ c \in Cond /\ Validate(c) /\ IsEntry(e)
        /\ \A d \in Inside(c) : FarEnough(d, e, 0)
    BY <2>1, <2>2 DEF IsJudged
  <2>4. SameReading(e, Quiet(e))
    BY <2>3 DEF SameReading, Quiet, IsEntry, Columns
  <2>5. PICK q : q = Quiet(e)
    OBVIOUS
  <2>6. Match(c, e, 0) <=> Selects(c, q, 0)
    BY <2>3, <2>4, <2>5, TreesAgree
  <2> QED BY <2>2, <2>5, <2>6, Zenon DEF OfRules
<1> QED BY <1>1, PastAsFuture
=============================================================================
