------------------------------- MODULE NetClass -------------------------------
(***************************************************************************)
(* The network view of the bucket: which sets of prefixes flag an address  *)
(* (internal/netclass), and what the summary and the drill-down say of the *)
(* entries of a window (internal/api/netview.go).                          *)
(*                                                                         *)
(* Addresses have Width bits.  The addresses of an entry are given; how    *)
(* they are found in its text is left out.                                 *)
(***************************************************************************)
EXTENDS Integers, Sequences, FiniteSets, SequencesExt, Ordering

CONSTANTS
  Width,              \* bits of an address
  InternalPrefixes,   \* prefixes that are the organisation's own
  SpecialPrefixes,    \* prefixes that are not routed
  Category,           \* [set id -> category] (SetInfo)
  ScanCap,            \* rows of a scan (netScanCap)
  SampleIds,          \* sample entries of a flagged address (netSampleIDs)
  DrillLimit          \* entries of a drill-down (netDrillLimit)

VARIABLE net          \* the entries of a window, and [set id -> ranges]

ASSUME NetAssumption ==
  ScanCap \in Nat /\ SampleIds \in Nat /\ DrillLimit \in Nat /\ SampleIds <= DrillLimit

Addr == 0 .. (2 ^ Width - 1)
None == -1
Block(p) == 2 ^ (Width - p.bits)

(* A range: the masked address of a prefix, and the one with all host bits.  *)
First(p)    == p.addr - (p.addr % Block(p))
lastAddr(p) == First(p) + Block(p) - 1
ipRange(p)  == [first |-> First(p), last |-> lastAddr(p)]
Within(r, a) == r.first <= a /\ a <= r.last

(* Sorted by first address; ranges that start together come in any order.    *)
InOrder(rs) == \A i, j \in DOMAIN rs : i < j => rs[i].first <= rs[j].first
NewSets(prefixes) ==
  {rs \in {[i \in DOMAIN ps |-> ipRange(ps[i])] : ps \in SetToSeqs(prefixes)} : InOrder(rs)}

(* A round of the binary search for the rightmost range that starts at or    *)
(* before a, between lo and hi.                                              *)
Halve(rs, a, b) ==
  LET mid == (b.lo + b.hi) \div 2 IN
  IF b.lo >= b.hi THEN b
  ELSE IF rs[mid + 1].first <= a THEN [lo |-> mid + 1, hi |-> b.hi] ELSE [lo |-> b.lo, hi |-> mid]

(* The search ends within as many rounds as there are ranges.                *)
SetContains(rs, a) ==
  LET search[k \in 0..Len(rs)] ==
        IF k = 0 THEN [lo |-> 0, hi |-> Len(rs)] ELSE Halve(rs, a, search[k - 1])
      lo == search[Len(rs)].lo
  IN  lo > 0 /\ rs[lo].last >= a

Scope(a) == IF \E p \in InternalPrefixes : Within(ipRange(p), a) THEN "internal"
            ELSE IF \E p \in SpecialPrefixes : Within(ipRange(p), a) THEN "special" ELSE "external"

-----------------------------------------------------------------------------
(* A row: an entry with its source and destination, or None, and all its     *)
(* addresses.  sets: [set id -> ranges].                                     *)

direction(row) ==
  IF None \in {row.src, row.dst} THEN "unknown"
  ELSE LET s == Scope(row.src)  d == Scope(row.dst) IN
       CASE s = "internal" /\ d = "external" -> "outbound"
         [] s = "external" /\ d = "internal" -> "inbound"
         [] s = "internal" /\ d = "internal" -> "internal"
         [] s = "external" /\ d = "external" -> "external"
         [] OTHER -> "unknown"

Classify(row, sets) ==
  [direction |-> direction(row), scopes |-> {Scope(a) : a \in row.all},
   hits |-> [id \in {i \in DOMAIN sets : \E a \in row.all : SetContains(sets[i], a)} |->
              {a \in row.all : SetContains(sets[id], a)}]]

Firsts(s, n) == SubSeq(s, 1, IF Len(s) < n THEN Len(s) ELSE n)

(* The rows of the window, newest first.                                     *)
NetScan(entries) ==
  Firsts(Sorted({e \in entries : ~e.suppressed}, {p \in entries \X entries : p[1].id > p[2].id}), ScanCap)

(* The ids of the first n rows at some positions, in the order of the scan.  *)
IdsAt(rows, at, n) ==
  LET s == Firsts(Sorted(at, {p \in at \X at : p[1] < p[2]}), n) IN [k \in DOMAIN s |-> rows[s[k]].id]

(* The malicious sets that flag an address of a row.                         *)
flaggedBy(row, sets, a) ==
  LET hits == Classify(row, sets).hits IN
  {id \in DOMAIN hits : Category[id] = "malicious" /\ a \in hits[id]}
RowsOf(rows, sets, a) == {k \in DOMAIN rows : flaggedBy(rows[k], sets, a) # {}}

(* Mutant: an address that two feeds flag counts its row twice.              *)
X_CountOf(rows, sets, a) ==
  Cardinality(UNION {{<<k, id>> : id \in flaggedBy(rows[k], sets, a)} : k \in DOMAIN rows})

(* How many rows it is flagged in.                                           *)
CountOf(rows, sets, a) == Cardinality(RowsOf(rows, sets, a))

getNetSummary(entries, sets) ==
  LET rows == NetScan(entries)
      Count(Test(_)) == Cardinality({k \in DOMAIN rows : rows[k].all # {} /\ Test(Classify(rows[k], sets))})
  IN
  [directions |-> [d \in {"outbound", "inbound", "internal", "external", "unknown"} |->
                    Count(LAMBDA res : res.direction = d)],
   scopes     |-> [s \in {"internal", "special", "external"} |-> Count(LAMBDA res : s \in res.scopes)],
   categories |-> [id \in DOMAIN sets |-> Count(LAMBDA res : id \in DOMAIN res.hits)],
   malicious  |-> [a \in {b \in Addr : RowsOf(rows, sets, b) # {}} |->
                    [count |-> CountOf(rows, sets, a),
                     ids |-> IdsAt(rows, RowsOf(rows, sets, a), SampleIds)]]]

(* The drill-down into a class, with an address or without.                  *)
matches(row, sets, class, ip) ==
  LET res == Classify(row, sets) IN
  /\ ip # None => ip \in row.all
  /\ CASE class.kind = ""          -> TRUE
       [] class.kind = "malicious" -> \E id \in DOMAIN res.hits : Category[id] = "malicious"
       [] class.kind = "dir"       -> res.direction = class.of
       [] class.kind = "scope"     -> class.of \in res.scopes
       [] class.kind = "set"       -> class.of \in DOMAIN res.hits

getNetEntries(entries, sets, class, ip) ==
  LET rows == NetScan(entries)
  IN  IdsAt(rows, {k \in DOMAIN rows : matches(rows[k], sets, class, ip)}, DrillLimit)

-----------------------------------------------------------------------------
(* What a window holds: entries with ids of their own, whose source and      *)
(* destination are among their addresses, and sets that NewSet compiled.     *)
IsSet(rs) == rs \in Seq([first : Addr, last : Addr]) /\ InOrder(rs)
IsView(v) ==
  /\ IsFiniteSet(v.entries)
  /\ \A e \in v.entries : e.id \in Nat /\ e.all \subseteq Addr /\ {e.src, e.dst} \ {None} \subseteq e.all
  /\ \A e, f \in v.entries : e.id = f.id => e = f
  /\ \A id \in DOMAIN v.sets : IsSet(v.sets[id])

(* An address is flagged only if it is in a prefix, and always if no prefix  *)
(* of the set lies within another.                                           *)
SetSound(rs) ==
  \A a \in Addr :
    LET in == \E i \in DOMAIN rs : Within(rs[i], a) IN
    /\ SetContains(rs, a) => in
    /\ in => \/ SetContains(rs, a)
             \/ \E i, j \in DOMAIN rs : i # j /\ Within(rs[i], rs[j].first)

(* What the comment of Contains says.                                        *)
SetExact(rs) == \A a \in Addr : SetContains(rs, a) = \E i \in DOMAIN rs : Within(rs[i], a)

(* The summary counts the entries that a click on the count lists; entries   *)
(* without an address are listed as "unknown" and not counted.               *)
ViewAgrees(entries, sets) ==
  LET sum == getNetSummary(entries, sets)
      Listed(kind, of, ip) == getNetEntries(entries, sets, [kind |-> kind, of |-> of], ip)
      Shows(kind, of, n) == Len(Listed(kind, of, None)) = IF n < DrillLimit THEN n ELSE DrillLimit
  IN
  /\ \A d \in DOMAIN sum.directions \ {"unknown"} : Shows("dir", d, sum.directions[d])
  /\ \A s \in DOMAIN sum.scopes : Shows("scope", s, sum.scopes[s])
  /\ \A id \in DOMAIN sets : Shows("set", id, sum.categories[id])
  /\ \A a \in DOMAIN sum.malicious :
       LET hit == sum.malicious[a]  listed == Listed("malicious", "", a) IN
       /\ Len(listed) = IF hit.count < DrillLimit THEN hit.count ELSE DrillLimit
       /\ hit.ids = SubSeq(listed, 1, Len(hit.ids))

(* The network view: sets flag what they should, and its counts agree with   *)
(* its lists (netclass.go, api/netview.go).                                  *)
NetViewAgrees ==
  /\ \A id \in DOMAIN net.sets : SetSound(net.sets[id])
  /\ ViewAgrees(net.entries, net.sets)
=============================================================================
