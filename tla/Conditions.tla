----------------------------- MODULE Conditions -----------------------------
(***************************************************************************)
(* The conditions of rules, buckets and live tails (internal/rules): one   *)
(* tree that is evaluated twice, in memory by Match when an entry arrives  *)
(* and by PostgreSQL, from the expression that CompileSQL renders, when    *)
(* entries are listed or a rule is applied to the history.                 *)
(*                                                                         *)
(* A condition is a function from the groups it sets to their contents, as *)
(* in the JSON: <<>> for the zero condition, [text |-> ...], [all |-> ...].*)
(* A field's value is a set of at most one value, {} being NULL.  A text   *)
(* is a sequence of characters, of which %, _ and \ are the ones LIKE      *)
(* cares about; upper and lower case, which both sides fold, are left out. *)
(* A message is the sequence of its lexemes.  The value of a leaf is a     *)
(* record of what it can be read as: [str |-> ...], [time |-> ...] or      *)
(* [nan |-> ..., halves |-> ...], a number being given in halves, so that  *)
(* a fraction can be told from a whole one.  Moments are in nanoseconds,   *)
(* those of an entry and those of bounds; PostgreSQL keeps microseconds.   *)
(***************************************************************************)
EXTENDS Integers, Sequences, FiniteSets, SequencesExt, Ordering

CONSTANTS
  Cond,        \* conditions, and whatever they are made of
  Inside(_),   \* a condition, its parts, their parts, and so on
  NumLimit,    \* bounds are clamped here (1 << 62)
  WindowLimit  \* the seconds at which a time.Duration overflows

VARIABLE judged  \* a condition, entries, and the time

Groups == {"all", "any", "not", "leaf", "text", "tag", "mitre", "ot", "last"}
IsList(x) == Len(x) \in Nat /\ DOMAIN x = 1..Len(x)
IsValue(v) ==
  /\ "str" \in DOMAIN v => IsList(v.str)
  /\ "time" \in DOMAIN v => v.time \in Int
  /\ "halves" \in DOMAIN v => v.nan \in BOOLEAN /\ v.halves \in Int

(* What the JSON decoder can hand over. *)
IsCond(c) ==
  /\ DOMAIN c \subseteq Groups
  /\ \A g \in DOMAIN c :
       /\ g \in {"all", "any"} => IsList(c[g]) /\ c[g] # <<>>
       /\ g = "leaf" => IsValue(c[g].value)
       /\ g = "text" => /\ IsList(c[g])
                        /\ \A i \in DOMAIN c[g] : IsList(c[g][i].seq) /\ c[g][i].neg \in Nat
       /\ g = "last" => c[g] \in Int

(* The conditions that a condition combines. *)
Parts(c) ==
  UNION {IF g \in {"all", "any"} THEN ToSet(c[g]) ELSE {c[g]} : g \in DOMAIN c \cap {"all", "any", "not"}}

ASSUME CondAssumption ==
  /\ NumLimit \in Nat /\ WindowLimit \in Nat
  /\ \A c \in Cond :
       /\ IsCond(c)
       /\ c \in Inside(c) /\ IsFiniteSet(Inside(c)) /\ Inside(c) \subseteq Cond
       /\ \A d \in Inside(c) : Inside(d) \subseteq Inside(c)
       /\ \A s \in Parts(c) : s \in Inside(c) /\ c \notin Inside(s)

StrFields  == {"host", "structured.key"}
NumFields  == {"facility", "priority"}
TimeFields == {"received_at"}

strOps == {"eq", "ne", "contains", "prefix"}
ordOps == {"eq", "ne", "lt", "lte", "gt", "gte"}

-----------------------------------------------------------------------------
(* Which conditions are accepted *)

validateLeaf(l) ==
  \/ l.field \in StrFields /\ l.op \in strOps /\ "str" \in DOMAIN l.value
  \/ l.field \in NumFields /\ l.op \in ordOps /\ "halves" \in DOMAIN l.value
  \/ l.field \in TimeFields /\ l.op \in ordOps /\ "time" \in DOMAIN l.value

Validate(c) ==
  LET valid[d \in Inside(c)] ==
        /\ \A g, h \in DOMAIN d : g = h
        /\ "leaf" \in DOMAIN d => validateLeaf(d.leaf)
        /\ "last" \in DOMAIN d => d.last > 0
        /\ \A s \in Parts(d) : valid[s]
  IN  valid[c]

-----------------------------------------------------------------------------
(* The text search: operands, of which "or" may be an operator, are         *)
(* resolved into alternatives of terms that must all hold.                   *)

Phrase(seq, neg, bare) == [seq |-> seq, neg |-> neg, bare |-> bare]
IsOr(item) == item.bare /\ item.neg = 0 /\ item.seq = <<"or">>
Term(item) == [seq |-> item.seq, neg |-> item.neg % 2 = 1]

(* Operands without lexemes vanish, the others keep their order. *)
Operands(query) ==
  LET kept   == {i \in DOMAIN query : query[i].seq # <<>>}
      places == Sorted(kept, {p \in kept \X kept : p[1] < p[2]})
  IN  [k \in DOMAIN places |-> query[places[k]]]

parseWebsearch(query) ==
  LET items == Operands(query)
      parsed[n \in 0..Len(items)] ==
        IF n = 0 THEN [groups |-> {}, cur |-> {}, prevWasOr |-> FALSE]
        ELSE LET p == parsed[n - 1] IN
             IF IsOr(items[n]) /\ p.cur # {} /\ ~p.prevWasOr /\ n < Len(items)
             THEN [groups |-> p.groups \cup {p.cur}, cur |-> {}, prevWasOr |-> TRUE]
             ELSE [p EXCEPT !.cur = @ \cup {Term(items[n])}, !.prevWasOr = FALSE]
      end == parsed[Len(items)]
  IN  end.groups \cup IF end.cur # {} THEN {end.cur} ELSE {}

containsSeq(hay, seq) ==
  \E i \in 0..(Len(hay) - Len(seq)) : \A j \in DOMAIN seq : hay[i + j] = seq[j]

(* An "or" that begins a group still needs something to stand between. *)
textMatch(msg, query) ==
  \E g \in parseWebsearch(query) : \A t \in g : containsSeq(msg, t.seq) # t.neg

(* websearch_to_tsquery, by its documentation: the operands around an "or"  *)
(* are alternatives, runs of others are all required.                        *)
TsQuery(msg, query) ==
  LET items == Operands(query)
      operator[i \in DOMAIN items] ==
        IsOr(items[i]) /\ 1 < i /\ i < Len(items) /\ ~operator[i - 1]
  IN  \E i, j \in DOMAIN items :
        /\ i <= j /\ (i = 1 \/ operator[i - 1]) /\ (j = Len(items) \/ operator[j + 1])
        /\ \A k \in i..j : ~operator[k] /\ containsSeq(msg, items[k].seq) # (items[k].neg % 2 = 1)

(* The condition of a request (condFromRequest): that of the bucket it asks  *)
(* for, the searched text, and a leaf or a code for each parameter, in turn. *)
Requested(bucket, query) ==
  LET Leaf(f, o, v) == [leaf |-> [field |-> f, op |-> o, value |-> v]]
      OfParam(p) ==
        CASE "host" \in DOMAIN p     -> Leaf("host", "contains", p.host)
          [] "facility" \in DOMAIN p -> Leaf("facility", "eq", p.facility)
          [] "priority" \in DOMAIN p -> Leaf("priority", "eq", p.priority)
          [] "from" \in DOMAIN p     -> Leaf("received_at", "gte", p.from)
          [] "to" \in DOMAIN p       -> Leaf("received_at", "lte", p.to)
          [] "q" \in DOMAIN p        -> [text |-> p.q]
          [] "mitre" \in DOMAIN p    -> [mitre |-> p.mitre]
          [] "tactic" \in DOMAIN p   -> [any |-> [i \in DOMAIN p.tactic |-> [mitre |-> p.tactic[i]]]]
          [] "tag_id" \in DOMAIN p   -> [tag |-> p.tag_id]
      all == bucket \o [i \in DOMAIN query |-> OfParam(query[i])]
  IN  IF all = <<>> THEN <<>> ELSE [all |-> all]

-----------------------------------------------------------------------------
(* In memory *)

FieldValue(e, field) ==
  CASE field = "host" -> {e.host}
    [] field = "structured.key" -> e.structured
    [] field = "facility" -> e.facility
    [] field = "priority" -> {e.priority}
    [] field = "received_at" -> {e.received}

ordCompare(got, want, op) ==
  \/ op = "eq" /\ got = want
  \/ op = "ne" /\ got # want
  \/ op = "lt" /\ got < want
  \/ op = "lte" /\ got <= want
  \/ op = "gt" /\ got > want
  \/ op = "gte" /\ got >= want

matchString(got, want, op) ==
  \/ op = "eq" /\ got = want
  \/ op = "ne" /\ got # want
  \/ op = "contains" /\ containsSeq(got, want)
  \/ op = "prefix" /\ Len(want) <= Len(got) /\ \A j \in DOMAIN want : got[j] = want[j]

(* A number is no less, equal or greater than NaN. *)
matchLeaf(l, e) ==
  LET got == FieldValue(e, l.field)
  IN  IF got = {} THEN l.op = "ne"
      ELSE \E v \in got :
             \/ l.field \in StrFields /\ matchString(v, l.value.str, l.op)
             \/ l.field \in NumFields /\ IF l.value.nan THEN l.op = "ne"
                                         ELSE ordCompare(2 * v, l.value.halves, l.op)
             \/ l.field \in TimeFields /\ ordCompare(v, l.value.time, l.op)

(* Seconds as a time.Duration, which wraps (here at a whole second). *)
Duration(seconds) == ((seconds + WindowLimit) % (2 * WindowLimit)) - WindowLimit

Second == 1000000  \* in microseconds

(* What is within the last seconds (time.Since). *)
Recent(e, seconds, now) == now - e.received <= 1000 * Second * Duration(seconds)

Match(c, e, now) ==
  LET match[d \in Inside(c)] ==
        \/ DOMAIN d = {}
        \/ "all" \in DOMAIN d /\ \A s \in ToSet(d.all) : match[s]
        \/ "any" \in DOMAIN d /\ \E s \in ToSet(d.any) : match[s]
        \/ "not" \in DOMAIN d /\ ~match[d.not]
        \/ "leaf" \in DOMAIN d /\ matchLeaf(d.leaf, e)
        \/ "text" \in DOMAIN d /\ textMatch(e.msg, d.text)
        \/ "tag" \in DOMAIN d /\ d.tag \in e.tags
        \/ "mitre" \in DOMAIN d /\ d.mitre \in e.mitre
        \/ "ot" \in DOMAIN d /\ d.ot \in e.ot
        \/ "last" \in DOMAIN d /\ Recent(e, d.last, now)
  IN  match[c]

-----------------------------------------------------------------------------
(* In SQL: T, F and N for NULL *)

(* What is left of a moment that is stored, sent as a bound, or read from    *)
(* PostgreSQL's own clock.                                                   *)
Micros(t) == t \div 1000

Truth(b) == IF b THEN "T" ELSE "F"

Quoted(ch) == IF ch \in {"\\", "%", "_"} THEN <<"\\", ch>> ELSE <<ch>>
escapeLike(v) ==
  LET escaped[n \in 0..Len(v)] == IF n = 0 THEN <<>> ELSE escaped[n - 1] \o Quoted(v[n])
  IN  escaped[Len(v)]

(* LIKE of PostgreSQL: the positions of s that each beginning of the pattern *)
(* can reach, and whether the next character is to be taken as it is.        *)
LikeStep(s, r, ch) ==
  IF ch = "\\" /\ ~r.escaped THEN [reached |-> r.reached, escaped |-> TRUE]
  ELSE [reached |-> IF ch = "%" /\ ~r.escaped
                    THEN {j \in 0..Len(s) : \E i \in r.reached : i <= j}
                    ELSE {j \in 1..Len(s) : j - 1 \in r.reached /\ (s[j] = ch \/ (ch = "_" /\ ~r.escaped))},
        escaped |-> FALSE]
Like(s, pattern) ==
  LET read[n \in 0..Len(pattern)] ==
        IF n = 0 THEN [reached |-> {0}, escaped |-> FALSE] ELSE LikeStep(s, read[n - 1], pattern[n])
  IN  Len(s) \in read[Len(pattern)].reached

(* A comparison of a column with a value: NULL, but for IS DISTINCT FROM. *)
sqlOp(col, op, v) ==
  IF col = {} THEN IF op = "ne" THEN "T" ELSE "N"
  ELSE Truth(\E x \in col : ordCompare(x, v, op))

Clamp(n) == IF n > NumLimit THEN NumLimit ELSE IF n < -NumLimit THEN -NumLimit ELSE n

(* Rounded in the direction that keeps the comparison of integers. *)
numLeaf(col, op, v) ==
  LET whole == v.halves % 2 = 0
      floor == v.halves \div 2
      bound == IF op \in {"lt", "gte"} /\ ~whole THEN floor + 1 ELSE floor
  IN  IF v.nan \/ (op \in {"eq", "ne"} /\ ~whole) THEN Truth(op = "ne")
      ELSE sqlOp(col, op, Clamp(bound))

compileLeaf(l, e) ==
  LET col == FieldValue(e, l.field)
      LikeLeaf(pattern) == IF col = {} THEN "N" ELSE Truth(\E x \in col : Like(x, pattern))
      text == l.field \in StrFields
  IN  CASE l.field \in NumFields -> numLeaf(col, l.op, l.value)
        [] l.field \in TimeFields -> sqlOp({Micros(x) : x \in col}, l.op, Micros(l.value.time))
        [] text /\ l.op = "eq" -> IF col = {} THEN "N" ELSE Truth(l.value.str \in col)
        [] text /\ l.op = "ne" -> Truth(l.value.str \notin col)
        [] text /\ l.op = "contains" -> LikeLeaf(<<"%">> \o escapeLike(l.value.str) \o <<"%">>)
        [] text /\ l.op = "prefix" -> LikeLeaf(escapeLike(l.value.str) \o <<"%">>)
        [] OTHER -> "F"

(* AND and OR of SQL *)
SqlAnd(S) == IF "F" \in S THEN "F" ELSE IF "N" \in S THEN "N" ELSE "T"
SqlOr(S)  == IF "T" \in S THEN "T" ELSE IF "N" \in S THEN "N" ELSE "F"

(* Mutant: NOT c. *)
X_CompileNot(v) == IF v = "N" THEN "N" ELSE Truth(v = "F")

(* NOT COALESCE(c, FALSE) *)
CompileNot(v) == Truth(v # "T")

compile(c, e, now) ==
  LET sql[d \in Inside(c)] ==
        IF DOMAIN d = {} THEN "T"
        ELSE LET g == CHOOSE x \in DOMAIN d : TRUE
             IN  CASE g = "all" -> SqlAnd({sql[s] : s \in ToSet(d[g])})
                   [] g = "any" -> SqlOr({sql[s] : s \in ToSet(d[g])})
                   [] g = "not" -> CompileNot(sql[d[g]])
                   [] g = "leaf" -> compileLeaf(d[g], e)
                   [] g = "text" -> Truth(TsQuery(e.msg, d[g]))
                   [] g = "tag" -> Truth(d[g] \in e.tags)
                   [] g = "mitre" -> Truth(d[g] \in e.mitre)
                   [] g = "ot" -> Truth(d[g] \in e.ot)
                   [] g = "last" -> Truth(Micros(e.received) > Micros(now) - Second * d[g])
  IN  sql[c]

(* A WHERE clause keeps the rows for which the expression is true. *)
Selects(c, e, now) == compile(c, e, now) = "T"

-----------------------------------------------------------------------------
(* Entries as the store keeps them: numbers in the range of their columns,   *)
(* and columns that hold one value or NULL.                                  *)
Columns == {"host", "structured", "facility", "priority", "received", "msg", "tags", "mitre", "ot"}
IsEntry(e) ==
  /\ Columns \subseteq DOMAIN e
  /\ IsList(e.host) /\ IsList(e.msg) /\ e.received \in Int
  /\ \A x, y \in e.structured : x = y /\ IsList(x)
  /\ \A x, y \in e.facility : x = y
  /\ \A x \in e.facility \cup {e.priority} : x \in Int /\ -NumLimit < x /\ x < NumLimit

(* The moments of an entry and of a condition are far enough apart: a bound  *)
(* is in another microsecond, or the same moment, or one that the operator   *)
(* does not tell from others of its microsecond; a window is one that a      *)
(* time.Duration can hold, and not exactly as long as the entry is old.      *)
Apart_(t, op, bound) ==
  \/ t = bound \/ Micros(t) # Micros(bound)
  \/ op \in {"lt", "gte"} /\ bound = 1000 * Micros(bound)
FarEnough(d, e, now) ==
  /\ "leaf" \in DOMAIN d /\ d.leaf.field \in TimeFields /\ validateLeaf(d.leaf) =>
       Apart_(e.received, d.leaf.op, d.leaf.value.time)
  /\ "last" \in DOMAIN d =>
       d.last < WindowLimit /\ Micros(now) - Micros(e.received) # Second * d.last

IsJudged(j) ==
  /\ j.c \in Cond /\ j.now \in Int
  /\ \A e \in j.entries : IsEntry(e)
  /\ \A d \in Inside(j.c), e \in j.entries : FarEnough(d, e, j.now)

(* An entry that is judged when it arrives, to the nanosecond, is selected   *)
(* by the same condition in a list, a bucket or a run over the history,      *)
(* where its time is cut to microseconds, NULLs, patterns, rounded bounds    *)
(* and texts included (rules/cond.go: Match and CompileSQL).                 *)
MatchAgrees ==
  Validate(judged.c) =>
    \A e \in judged.entries : Match(judged.c, e, judged.now) <=> Selects(judged.c, e, judged.now)
=============================================================================
