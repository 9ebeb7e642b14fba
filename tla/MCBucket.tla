------------------------------- MODULE MCBucket -------------------------------
(* The audit log, the rules, the feeds and the listing of the bucket, each   *)
(* explored in parts of its own, and two parts in which nothing moves: the   *)
(* inputs of the conditions, and those of the network view.                  *)
EXTENDS Audit, Conditions, RuleEngine, NetFeeds, NetClass, Listing, TLC

VARIABLE part

-----------------------------------------------------------------------------
(* Rules and entries. *)
Number(n) == [nan |-> FALSE, halves |-> 2 * n]
Leaf_(f, o, v) == [leaf |-> [field |-> f, op |-> o, value |-> v]]
Bodies ==
  {[enabled |-> TRUE, position |-> 1,
    condition |-> Leaf_("priority", "lt", [nan |-> FALSE, halves |-> 3]),
    actions |-> <<[type |-> "set_priority", arg |-> 2], [type |-> "tag", arg |-> "t"]>>],
   [enabled |-> FALSE, position |-> 2, condition |-> [tag |-> "t"],
    actions |-> <<[type |-> "suppress"],  [type |-> "notify", arg |-> "c"]>>],
   [enabled |-> TRUE, position |-> 2, condition |-> [not |-> Leaf_("facility", "eq", Number(1))],
    actions |-> <<[type |-> "set_mitre", arg |-> {"T1"}], [type |-> "notify", arg |-> "c"]>>]}
Blank == [host |-> <<>>, msg |-> <<>>, structured |-> {}, facility |-> {}, priority |-> 0,
          received |-> 1, tags |-> {}, by |-> {}, mitre |-> {}, ot |-> {}, suppressed |-> FALSE,
          notifies |-> <<>>]
Raws == {Blank, [Blank EXCEPT !.priority = 2, !.facility = {1}]}

-----------------------------------------------------------------------------
(* Conditions: leaves of every kind, alone, negated and in pairs, texts, and *)
(* what requests combine.  Moments are the same, in neighbouring microseconds*)
(* or, where the operator allows it, in the same one.                        *)
Bounds == {[nan |-> FALSE, halves |-> h] : h \in {-9, 1, 2, 3, 9}} \cup {[nan |-> TRUE, halves |-> 0]}
Str(s) == [str |-> s]
Strings == {Str(s) : s \in {<<>>, <<"a">>, <<"%">>, <<"_">>, <<"a", "%">>}}
Leaves_ ==
  {Leaf_(f, o, v) : f \in StrFields, o \in strOps, v \in Strings}
  \cup {Leaf_(f, o, v) : f \in NumFields, o \in ordOps, v \in Bounds}
  \cup {Leaf_("received_at", o, [time |-> t]) : o \in ordOps, t \in {1, 1000001000}}
  \cup {Leaf_("received_at", o, [time |-> 1000000000]) : o \in {"lt", "gte"}}
  \cup {[last |-> 1]} \cup {[tag |-> "t"], [mitre |-> "T1"], <<>>}
Some == {Leaf_("structured.key", "contains", Str(<<"%">>)), Leaf_("facility", "lt", Number(1)),
         Leaf_("structured.key", "ne", Str(<<"a">>)), [tag |-> "t"], [last |-> 1]}
Item(word, neg, bare) == Phrase(IF word = "" THEN <<>> ELSE <<word>>, neg, bare)
Texts == UNION {[1..n -> {Item("a", 0, TRUE), Item("or", 0, TRUE), Item("or", 0, FALSE),
                          Item("b", 1, TRUE), Item("", 0, FALSE)}] : n \in 1..4}
Not(c) == [not |-> c]
Params == {[host |-> Str(<<"%">>)], [facility |-> Number(1)], [tactic |-> <<"T1", "T2">>],
           [to |-> [time |-> 1]]}
Queries == {<<>>} \cup [1..2 -> Params]
Trees ==
  Leaves_ \cup {Not(c) : c \in Leaves_} \cup {r.condition : r \in Bodies}
  \cup UNION {{[all |-> <<c, d>>], [any |-> <<c, Not(d)>>], Not([all |-> <<Not(c), d>>]),
               Not([any |-> <<c, Not([all |-> <<d>>])>>])} : c \in Some, d \in Some}
  \cup {Requested(b, q) : b \in {<<>>} \cup {<<c>> : c \in Some}, q \in Queries}
Searches == {[text |-> t] : t \in Texts}
(* Operators and values of other kinds, and two groups at once. *)
Refused ==
  {Leaf_("host", "lt", Str(<<"a">>)), Leaf_("facility", "prefix", Number(1)),
   Leaf_("facility", "eq", Str(<<"a">>)), [tag |-> "t", last |-> 1], [last |-> 0]}
WithParts(S) == S \cup UNION {Parts(c) : c \in S}
MadeOf(c) == IF Parts(c) = {} THEN {c} ELSE WithParts(WithParts(WithParts(WithParts({c}))))
AllMade == UNION {MadeOf(c) : c \in Trees \cup Searches \cup Refused}
Conds == AllMade  \* a name TLC gives a constant it evaluates each time, AllMade once
Entries(texts) ==
  IF texts THEN {[Blank EXCEPT !.msg = m] : m \in UNION {[1..n -> {"a", "b", "or"}] : n \in 0..2}}
  ELSE {[Blank EXCEPT !.host = h, !.structured = s, !.facility = f, !.received = r,
                      !.tags = t, !.mitre = IF t = {} THEN {"T1"} ELSE {}] :
          h \in {<<>>, <<"a">>, <<"b", "%">>}, s \in {{}, {<<"a">>}, {<<"a", "%">>}},
          f \in {{}, {0}, {1}}, r \in {1, 1000000999}, t \in {{}, {"t"}}}
(* What the rules above can make of the entries above, notifications aside. *)
Judged == {[Blank EXCEPT !.priority = p, !.facility = f, !.tags = t, !.mitre = m] :
             p \in {0, 2}, f \in {{}, {1}}, t \in SUBSET Tag, m \in SUBSET Technique}
(* Ages are half a second and one and a half: at the very end of a window of *)
(* one second the two sides differ.                                          *)
Judge(c, texts) == [c |-> c, entries |-> Entries(texts) \cup Judged, now |-> 1500000000]
Cases == {Judge(c, FALSE) : c \in Trees \cup Refused} \cup {Judge(c, TRUE) : c \in Searches}
NoCase == [c |-> <<>>, entries |-> {}, now |-> 0]

(* All of them are what the theorem about MatchAgrees takes; and so are the  *)
(* rules above, on what they can make of an entry (RulesOverThePast).        *)
ASSUME CasesAssumption ==
  /\ \A j \in Cases : IsJudged(j)
  /\ \A r \in Bodies : IsJudged([c |-> r.condition, entries |-> Judged, now |-> 0])
  /\ \A c \in Trees \cup Searches \cup Refused : Validate(c) <=> c \notin Refused

-----------------------------------------------------------------------------
(* Prefixes, sets of them, and entries.                                      *)
AllMasked == {p \in [addr : Addr, bits : 0..Width] : p.addr = First(p)}
Internal_ == {[addr |-> 0, bits |-> 1]}
Special_  == {[addr |-> 4, bits |-> 2]}
CategoryMC == [feed |-> "malicious", own |-> "malicious", cloud |-> "cloud"]
Prefix(a, b) == [addr |-> a, bits |-> b]
Feeds_ == {{}, {Prefix(6, 3)}, {Prefix(2, 2), Prefix(6, 2)}, {Prefix(4, 1), Prefix(7, 3)}}
Row(id) == {[id |-> id, src |-> s, dst |-> d, all |-> ({s, d} \ {None}) \cup x, suppressed |-> p] :
              s \in {None, 1, 6}, d \in {None, 2, 7}, x \in {{}, {5, 6}}, p \in BOOLEAN}
NoNet == [entries |-> {}, sets |-> <<>>]
NetInputs ==
  {[entries |-> {}, sets |-> [feed |-> rs]] :
     rs \in UNION {NewSets(P) : P \in {Q \in SUBSET AllMasked : Cardinality(Q) \in 1..3}}}
  \cup {[entries |-> {e, f}, sets |-> [feed |-> rs, own |-> qs, cloud |-> rs]] :
     rs \in UNION {NewSets(P) : P \in Feeds_}, qs \in UNION {NewSets(P) : P \in Feeds_},
     e \in {r \in Row(1) : ~r.suppressed}, f \in Row(2)}

(* All of them are what the theorem about NetViewAgrees takes.               *)
ASSUME ViewsAssumption == \A v \in NetInputs : IsView(v)

-----------------------------------------------------------------------------
Rules_ == {"rule edits", "rule entries"}
Feeds  == {"feed crash", "feed faults", "feed edits"}

(* Events are interchangeable: their times are taken in order.  Listings ask *)
(* for all of them, or for all but one.                                      *)
AuditPart ==
  /\ listing'.accepts \in {{}, {1, 3}, {1, 2, 3}}
  /\ \A e \in recorded' \cup DOMAIN stamped' : \A d \in 1..e : d \in recorded' \cup DOMAIN stamped'
RulePart ==
  IF part = "rule edits" THEN queued' = {} /\ \A h \in Handler : request'[h].at # "apply"
  ELSE readErrors' = 0 /\ edits' < MaxRuleEdits /\ \E h \in Handler : \A g \in Handler \ {h} : request'[g].at = "idle"
FeedPart ==
  CASE part = "feed crash"  -> faults' + configEdits' <= 2 /\ pass'["api"] = Resting
    [] part = "feed faults" -> restarts' = 0 /\ configEdits' = 0
    [] part = "feed edits"  -> restarts' = 0 /\ faults' = 0

fixed == <<part, judged, net>>
MCInit ==
  /\ AuditInit /\ RuleInit /\ FeedInit /\ ListInit
  /\ \/ part \in {"audit", "list"} \cup Rules_ \cup Feeds /\ judged = NoCase /\ net = NoNet
     \/ part = "judge" /\ judged \in Cases /\ net = NoNet
     \/ part = "net" /\ judged = NoCase /\ net \in NetInputs
MCNext ==
  /\ UNCHANGED fixed
  /\ \/ part = "audit" /\ AuditNext /\ AuditPart /\ UNCHANGED <<ruleVars, feedVars, listVars>>
     \/ part = "list" /\ ListNext /\ UNCHANGED <<auditVars, ruleVars, feedVars>>
     \/ part \in Rules_ /\ RuleNext /\ RulePart /\ UNCHANGED <<auditVars, feedVars, listVars>>
     \/ part \in Feeds /\ FeedNext /\ FeedPart /\ UNCHANGED <<auditVars, ruleVars, listVars>>
MCSpec ==
  /\ MCInit /\ [][MCNext]_<<auditVars, ruleVars, feedVars, listVars, fixed>>
  /\ (part \in Rules_ => RuleFairness) /\ (part \in Feeds => FeedFairness)

-----------------------------------------------------------------------------
(* In the parts that move them, enabled feeds are fetched again and again    *)
(* (netfeeds.go: Run, RefreshInBackground, refresh).                         *)
FeedsUpToDate == part \in Feeds => FeedsRefreshed

(* What Contains promises: every address in one of the set's ranges is found,*)
(* nested ranges or not (netclass.go: Set.Contains).                         *)
ContainsAny == \A id \in DOMAIN net.sets : SetExact(net.sets[id])
===============================================================================
