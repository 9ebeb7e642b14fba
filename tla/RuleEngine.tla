----------------------------- MODULE RuleEngine -----------------------------
(***************************************************************************)
(* The rules of the bucket: their tables with the references that keep     *)
(* their tags and channels (store/rules.go, store/tags.go), the handlers   *)
(* that edit them (api/crud.go), the snapshot by which arriving entries    *)
(* are judged (internal/engine), and the run of a rule over the history.   *)
(*                                                                         *)
(* A transaction is one step; a handler's check before it, and the two     *)
(* halves of Reload after it, are steps of their own.  What a condition is *)
(* is left open here; Conditions says it.                                  *)
(***************************************************************************)
EXTENDS Integers, Sequences, SequencesExt, Ordering

CONSTANTS
  Accepted(_),      \* the conditions that Validate accepts
  InMemory(_, _, _), InSQL(_, _, _),  \* Match, and the WHERE clause of CompileSQL
  RuleId,        \* ids of rules, a set of numbers
  Tag, Channel,  \* what actions refer to
  RuleBody,      \* rules that requests send: [enabled, position, condition, actions]
  Raw,           \* entries as parsers hand them over
  Technique,     \* ATT&CK techniques of the catalog (knownTechnique)
  Handler,       \* concurrent API requests
  MaxRuleEdits,  \* bound: writes to the tables
  MaxReadErrors  \* bound: reads of the rules that fail

(* What requests and parsers hand over: actions are lists, positions are     *)
(* whole numbers, and an entry that arrives is untagged and notifies nobody. *)
ASSUME RuleAssumption ==
  /\ RuleId \subseteq Nat \ {0} /\ {MaxRuleEdits, MaxReadErrors} \subseteq Nat
  /\ \A r \in RuleBody : /\ r.position \in Int
                        /\ Len(r.actions) \in Nat /\ DOMAIN r.actions = 1..Len(r.actions)
  /\ \A e \in Raw : /\ {"tags", "by", "notifies"} \subseteq DOMAIN e
                   /\ e = [e EXCEPT !.tags = {}, !.by = {}, !.notifies = <<>>]

VARIABLES
  targets,    \* rows of tags and notification_channels
  rules,      \* the table: [id -> rule]
  refs,       \* rule_refs: pairs <<rule, target>>
  snapshot,   \* Engine.rules
  request,    \* what each handler does
  refresh,    \* Engine.Run: "waits", "ended", or the list it has read
  queued,     \* entries judged and not stored
  entries,    \* stored entries
  edits, readErrors

tables == <<targets, rules, refs>>
ruleVars == <<targets, rules, refs, snapshot, request, refresh, queued, entries, edits, readErrors>>

Idle_ == [at |-> "idle"]
Waits == [at |-> "waits"]

RuleInit ==
  /\ targets = Tag \cup Channel /\ rules = <<>> /\ refs = {} /\ snapshot = <<>>
  /\ request = [h \in Handler |-> Idle_] /\ refresh = Waits
  /\ queued = {} /\ entries = {} /\ edits = 0 /\ readErrors = 0

-----------------------------------------------------------------------------
(* Actions of rules *)

ValidateActions(actions) ==
  /\ actions # <<>>
  /\ \A i \in DOMAIN actions :
       LET a == actions[i] IN
       \/ a.type \in {"tag", "notify", "suppress"}
       \/ a.type = "set_priority" /\ a.arg \in 0..3
       \/ a.type \in {"set_mitre", "set_ot"} /\ a.arg # {}

validRule(r) == Accepted(r.condition) /\ ValidateActions(r.actions)

ruleTargets(r) ==
  {r.actions[i].arg : i \in {k \in DOMAIN r.actions : r.actions[k].type \in {"tag", "notify"}}}

(* One action of rule id on an entry that is being judged. *)
Act(a, id, e) ==
  CASE a.type = "tag" -> IF a.arg \in e.tags THEN e
                         ELSE [e EXCEPT !.tags = @ \cup {a.arg}, !.by = @ \cup {<<a.arg, id>>}]
    [] a.type = "set_priority" -> [e EXCEPT !.priority = a.arg]
    [] a.type = "suppress" -> [e EXCEPT !.suppressed = TRUE]
    [] a.type = "notify" -> [e EXCEPT !.notifies = Append(@, a.arg)]
    [] a.type = "set_mitre" -> [e EXCEPT !.mitre = @ \cup a.arg]
    [] a.type = "set_ot" -> [e EXCEPT !.ot = @ \cup a.arg]

(* The actions of a rule, in their order. *)
Acted(r, e) ==
  LET done[n \in 0..Len(r.actions)] ==
        IF n = 0 THEN e ELSE Act(r.actions[n], r.id, done[n - 1])
  IN  done[Len(r.actions)]

(* Engine.Apply: the rules in order, each judging what the earlier made of   *)
(* the entry; noise notifies nobody.                                         *)
Apply(list, raw, now) ==
  LET judged[n \in 0..Len(list)] ==
        IF n = 0 THEN raw
        ELSE IF InMemory(list[n].condition, judged[n - 1], now)
             THEN Acted(list[n], judged[n - 1]) ELSE judged[n - 1]
      e == judged[Len(list)]
  IN  IF e.suppressed THEN [e EXCEPT !.notifies = <<>>] ELSE e

(* ApplyRuleHistorical on one entry: whether the rule matches is settled     *)
(* once, a tag is added if it still exists, notify is skipped.               *)
ApplyAction(a, id, e) ==
  IF a.type = "notify" \/ (a.type = "tag" /\ a.arg \notin targets) THEN e ELSE Act(a, id, e)

(* Mutant: each action selects its entries anew. *)
X_ApplyToEntry(r, e, now) ==
  FoldLeft(LAMBDA x, a : IF InSQL(r.condition, x, now) THEN ApplyAction(a, r.id, x) ELSE x,
           e, r.actions)

ApplyToEntry(r, e, now) ==
  LET done[n \in 0..Len(r.actions)] ==
        IF n = 0 THEN e ELSE ApplyAction(r.actions[n], r.id, done[n - 1])
  IN  IF InSQL(r.condition, e, now) THEN done[Len(r.actions)] ELSE e

-----------------------------------------------------------------------------
(* The requests *)

Step(h, next) == request' = [request EXCEPT ![h] = next]
Edit == edits < MaxRuleEdits /\ edits' = edits + 1

(* createRule and updateRule up to ruleRefsExist, a check outside the        *)
(* transaction.                                                              *)
CheckRule(h, id, r) ==
  /\ request[h] = Idle_ /\ edits < MaxRuleEdits
  /\ validRule(r) /\ ruleTargets(r) \subseteq targets
  /\ Step(h, [at |-> "write", id |-> id, rule |-> r])
  /\ UNCHANGED <<tables, snapshot, refresh, queued, entries, edits, readErrors>>

(* Mutant: enabling a rule leaves its references as they were. *)
X_writeRuleRefs(id, r) ==
  IF id \in DOMAIN rules THEN refs
  ELSE refs \cup {<<id, t>> : t \in IF r.enabled THEN ruleTargets(r) ELSE {}}

writeRuleRefs(id, r) ==
  {ref \in refs : ref[1] # id} \cup {<<id, t>> : t \in IF r.enabled THEN ruleTargets(r) ELSE {}}

(* CreateRule for an id that is not there, UpdateRule for one that is; the   *)
(* foreign keys of rule_refs roll the transaction back.                      *)
WriteRule(h) ==
  LET q == request[h] IN
  /\ q.at = "write" /\ Edit
  /\ IF \A ref \in writeRuleRefs(q.id, q.rule) : ref[2] \in targets
     THEN /\ rules' = [i \in DOMAIN rules \cup {q.id} |-> IF i = q.id THEN q.rule ELSE rules[i]]
          /\ refs' = writeRuleRefs(q.id, q.rule)
          /\ Step(h, [at |-> "reload"])
     ELSE UNCHANGED <<rules, refs>> /\ Step(h, Idle_)
  /\ UNCHANGED <<targets, snapshot, refresh, queued, entries, readErrors>>

DeleteRule(h, id) ==
  /\ request[h] = Idle_ /\ Edit /\ id \in DOMAIN rules
  /\ rules' = [i \in DOMAIN rules \ {id} |-> rules[i]]
  /\ refs' = {ref \in refs : ref[1] # id}
  /\ entries' = {[e EXCEPT !.by = {<<b[1], IF b[2] = id THEN 0 ELSE b[2]>> : b \in @}] : e \in entries}
  /\ Step(h, [at |-> "reload"])
  /\ UNCHANGED <<targets, snapshot, refresh, queued, readErrors>>

(* DeleteTag and DeleteChannel: refused while a reference is left. *)
DeleteTarget(h, t) ==
  /\ request[h] = Idle_ /\ Edit /\ t \in targets /\ \A ref \in refs : ref[2] # t
  /\ targets' = targets \ {t}
  /\ entries' = {[e EXCEPT !.tags = @ \ {t}, !.by = {b \in @ : b[1] # t}] : e \in entries}
  /\ UNCHANGED <<rules, refs, snapshot, request, refresh, queued, readErrors>>

(* applyRule reads the rule and runs it in a transaction that fails when the *)
(* rule was deleted and a tag would be attributed to it.                     *)
ReadForHistory(h, id) ==
  /\ request[h] = Idle_ /\ id \in DOMAIN rules
  /\ Step(h, [at |-> "apply", id |-> id, rule |-> rules[id]])
  /\ UNCHANGED <<tables, snapshot, refresh, queued, entries, edits, readErrors>>

ApplyRuleHistorical(h) ==
  LET q == request[h]
      r == [id |-> q.id, condition |-> q.rule.condition, actions |-> q.rule.actions]
      done == {ApplyToEntry(r, e, 0) : e \in entries}
  IN
  /\ q.at = "apply" /\ Step(h, Idle_)
  /\ entries' = IF \A e \in done : \A b \in e.by : b[2] \in DOMAIN rules \cup {0}
                THEN done ELSE entries
  /\ UNCHANGED <<tables, snapshot, refresh, queued, edits, readErrors>>

-----------------------------------------------------------------------------
(* Reload: the rules are read without the lock and installed under it. *)

EnabledRules ==
  LET on == {i \in DOMAIN rules : rules[i].enabled}
      ids == Sorted(on, {p \in on \X on :
                          \/ rules[p[1]].position < rules[p[2]].position
                          \/ rules[p[1]].position = rules[p[2]].position /\ p[1] < p[2]})
  IN  [k \in DOMAIN ids |-> [id |-> ids[k], condition |-> rules[ids[k]].condition,
                             actions |-> rules[ids[k]].actions]]

ReadRules(h) ==
  /\ request[h].at = "reload"
  /\ \/ Step(h, [at |-> "install", list |-> EnabledRules]) /\ UNCHANGED readErrors
     \/ /\ readErrors < MaxReadErrors /\ readErrors' = readErrors + 1
        /\ Step(h, Idle_)
  /\ UNCHANGED <<tables, snapshot, refresh, queued, entries, edits>>

InstallRules(h) ==
  /\ request[h].at = "install"
  /\ snapshot' = request[h].list /\ Step(h, Idle_)
  /\ UNCHANGED <<tables, refresh, queued, entries, edits, readErrors>>

RefreshReads ==
  /\ refresh = Waits /\ refresh' = [at |-> "install", list |-> EnabledRules]
  /\ UNCHANGED <<tables, snapshot, request, queued, entries, edits, readErrors>>

(* Mutant: the loop ends at the first error. *)
X_RefreshAfterError == [at |-> "ended"]

(* The error is logged, and the next tick tries again. *)
RefreshAfterError == Waits

RefreshFails ==
  /\ refresh = Waits /\ readErrors < MaxReadErrors /\ readErrors' = readErrors + 1
  /\ refresh' = RefreshAfterError
  /\ UNCHANGED <<tables, snapshot, request, queued, entries, edits>>

RefreshInstalls ==
  /\ refresh.at = "install" /\ snapshot' = refresh.list /\ refresh' = Waits
  /\ UNCHANGED <<tables, request, queued, entries, edits, readErrors>>

-----------------------------------------------------------------------------
(* Arriving entries *)

JudgeEntry(raw) ==
  /\ queued \cup entries = {}    \* one entry on its way is enough for the races
  /\ queued' = {Apply(snapshot, raw, 0)}
  /\ UNCHANGED <<tables, snapshot, request, refresh, entries, edits, readErrors>>

(* InsertEntries skips tags that are gone, and forgets rules that are. *)
Stored_(e) ==
  [e EXCEPT !.tags = @ \cap targets,
            !.by = {<<b[1], IF b[2] \in DOMAIN rules THEN b[2] ELSE 0>> :
                     b \in {x \in @ : x[1] \in targets}},
            !.notifies = <<>>]

InsertEntries ==
  /\ queued # {} /\ queued' = {}
  /\ entries' = entries \cup {Stored_(e) : e \in queued}
  /\ UNCHANGED <<tables, snapshot, request, refresh, edits, readErrors>>

-----------------------------------------------------------------------------
(* Triage by hand: one statement each, on an entry that is there.            *)

Retouched(e, f) == /\ Edit /\ entries' = (entries \ {e}) \cup {f}
                   /\ UNCHANGED <<tables, snapshot, request, refresh, queued, readErrors>>

PatchEntry(e) == \E p \in 0..3 : Retouched(e, [e EXCEPT !.priority = p])

(* A tag that is there already keeps the rule that set it.                   *)
TagEntry(e, t) ==
  /\ t \in targets
  /\ Retouched(e, IF t \in e.tags THEN e
                  ELSE [e EXCEPT !.tags = @ \cup {t}, !.by = @ \cup {<<t, 0>>}])
UntagEntry(e, t) == Retouched(e, [e EXCEPT !.tags = @ \ {t}, !.by = {b \in @ : b[1] # t}])

ClassifyEntry(e, code, add) ==
  Retouched(e, [e EXCEPT !.mitre = IF add THEN @ \cup {code} ELSE @ \ {code}])

Triage(e) ==
  \/ PatchEntry(e)
  \/ \E t \in Tag : TagEntry(e, t) \/ UntagEntry(e, t)
  \/ \E code \in Technique, add \in BOOLEAN : ClassifyEntry(e, code, add)

HandlerNext(h) ==
  \/ WriteRule(h) \/ ReadRules(h) \/ InstallRules(h) \/ ApplyRuleHistorical(h)
  \/ \E id \in RuleId : \/ DeleteRule(h, id) \/ ReadForHistory(h, id)
                        \/ \E r \in RuleBody : CheckRule(h, id, r)
  \/ \E t \in Tag \cup Channel : DeleteTarget(h, t)

RuleNext ==
  \/ RefreshReads \/ RefreshFails \/ RefreshInstalls \/ InsertEntries
  \/ \E raw \in Raw : JudgeEntry(raw)
  \/ \E e \in entries : Triage(e)
  \/ \E h \in Handler : HandlerNext(h)

RuleSpec == RuleInit /\ [][RuleNext]_ruleVars

(* The ticker fires for ever, and a handler that has begun goes on.          *)
RuleFairness ==
  /\ WF_ruleVars(RefreshReads) /\ WF_ruleVars(RefreshInstalls)
  /\ \A h \in Handler : WF_ruleVars(WriteRule(h) \/ ReadRules(h) \/ InstallRules(h))

-----------------------------------------------------------------------------
(* Nothing dangles: what an enabled rule does to an entry it can do, although*)
(* its targets were checked before its transaction; what an entry carries is *)
(* there, although it was judged by rules that may be gone.                  *)
NoDangling ==
  /\ \A id \in DOMAIN rules : rules[id].enabled => ruleTargets(rules[id]) \subseteq targets
  /\ \A e \in entries : /\ e.tags \subseteq targets
                        /\ \A b \in e.by : b[1] \in e.tags /\ b[2] \in DOMAIN rules \cup {0}

(* The past is treated as the future: applied to a stored entry in their     *)
(* order, the rules of the snapshot make of it what they would have made of  *)
(* it on arrival, notifications apart, whatever they look at and change.     *)
Replayed(list, raw) ==
  LET after[n \in 0..Len(list)] ==
        IF n = 0 THEN raw ELSE ApplyToEntry(list[n], after[n - 1], 0)
  IN  after[Len(list)]
HistoryAgrees ==
  (\A i \in DOMAIN snapshot : ruleTargets(snapshot[i]) \subseteq targets) =>
    \A raw \in Raw : Replayed(snapshot, raw) = [Apply(snapshot, raw, 0) EXCEPT !.notifies = <<>>]

(* Edits overtake one another on the way to the snapshot; when they end, the *)
(* rules in force are the enabled ones of the table, in their order.         *)
RulesCatchUp == <>[](snapshot = EnabledRules)
=============================================================================
