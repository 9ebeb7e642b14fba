------------------------------ MODULE FlowGraph ------------------------------
(***************************************************************************)
(* The valve's flow graph (internal/graph) and the configuration compiled  *)
(* from it (internal/codegen): which graphs are accepted, and which        *)
(* statements and log paths syslog-ng and logrotate are given.             *)
(*                                                                         *)
(* A graph is a list of nodes and a set of edges.  A node carries the      *)
(* settings of its type; a text setting is a model value, with a flag for  *)
(* control characters.  Identifiers are sequences of their parts, so that  *)
(* names derived for one node can meet the identifier of another.          *)
(***************************************************************************)
EXTENDS Integers, Sequences, FiniteSets, SequencesExt

CONSTANTS
  Ident,       \* [node id -> identifier], several to one (lower case, "_")
  Shares,      \* mounted shares
  HttpPort,    \* the port of the valve's own server
  Condition    \* what may hold of a message

VARIABLE flow  \* the graph that codegen is given

ASSUME FlowAssumption == \A id \in DOMAIN Ident : Ident[id] \in Seq(STRING)

(* The settings a node has unless they are given.                            *)
Node(id, type) ==
  [id |-> id, type |-> type, disabled |-> FALSE, control |-> FALSE,
   transport |-> "udp", port |-> 1, bind |-> "", host |-> "h", conds |-> {"severity"},
   location |-> "", dir |-> "", rotate |-> 0, kind |-> "webhook"]

(* Graphs, as they are decoded: any nodes, any edges.                        *)
NodeRecord ==
  [id : DOMAIN Ident, type : STRING, disabled : BOOLEAN, control : BOOLEAN, transport : STRING,
   port : Nat, bind : STRING, host : STRING, conds : SUBSET STRING, location : STRING,
   dir : STRING, rotate : Int, kind : STRING]
IsGraph(g) == /\ g.nodes \in Seq(NodeRecord)
              /\ g.edges \subseteq [from : STRING, port : STRING, to : STRING]

Nodes(g)         == ToSet(g.nodes)
Ids(S)           == {n.id : n \in S}
NodeOf(S, id)    == CHOOSE n \in S : n.id = id
OfType(S, types) == {n \in S : n.type \in types}
Sinks == {"forward", "cache", "notify"}

-----------------------------------------------------------------------------
(* Validate.                                                                 *)

(* A port as in checkPort: 1..65535, and 0 for what is not one.              *)
validateNode(n) ==
  \/ n.type = "source"  /\ n.transport \in {"udp", "tcp", "tls", "udp+tcp"} /\ n.port > 0
  \/ n.type = "forward" /\ n.transport \in {"udp", "tcp", "tls"} /\ n.port > 0 /\ n.host # ""
  \/ n.type = "filter"  /\ n.conds # {} /\ "invalid" \notin n.conds
  \/ n.type = "cache"   /\ n.dir # "../" /\ n.rotate >= 0
  \/ n.type = "notify"  /\ n.kind \in {"webhook", "slack"}

(* The identifiers that codegen derives from a node, besides its own.        *)
Derived(n) == IF n.type = "source" THEN {<<"tap">> \o Ident[n.id]}
              ELSE IF n.type = "filter" THEN {Ident[n.id] \o <<"else">>} ELSE {}

(* Mutant: identifiers are compared, derived names are not.                  *)
X_checkIdents(g) ==
  \A i, j \in DOMAIN g.nodes : i # j => Ident[g.nodes[i].id] # Ident[g.nodes[j].id]

checkIdents(g) ==
  /\ \A i, j \in DOMAIN g.nodes : i # j => Ident[g.nodes[i].id] # Ident[g.nodes[j].id]
  /\ \A m, n \in Nodes(g) : Ident[m.id] \notin Derived(n)

validateEdge(g, e) ==
  /\ {e.from, e.to} \subseteq Ids(Nodes(g))
  /\ \/ NodeOf(Nodes(g), e.from).type = "source" /\ e.port = ""
     \/ NodeOf(Nodes(g), e.from).type = "filter" /\ e.port \in {"", "match", "else"}
  /\ NodeOf(Nodes(g), e.to).type \in Sinks \cup {"filter"}

Protos(transport) == IF transport = "udp+tcp" THEN {"udp", "tcp"}
                     ELSE IF transport = "udp" THEN {"udp"} ELSE {"tcp"}
sourceListeners(n) == {[proto |-> p, port |-> n.port, bind |-> n.bind] : p \in Protos(n.transport)}

wildcard(bind) == bind \in {"", "0.0.0.0", "::"}
bindsOverlap(a, b) == wildcard(a) \/ wildcard(b) \/ a = b
Clash(l, m) == l.proto = m.proto /\ l.port = m.port /\ bindsOverlap(l.bind, m.bind)

Listening(g) == {i \in DOMAIN g.nodes : g.nodes[i].type = "source" /\ ~g.nodes[i].disabled}
checkListeners(g) ==
  \A i, j \in Listening(g) : i # j =>
    \A l \in sourceListeners(g.nodes[i]), m \in sourceListeners(g.nodes[j]) : ~Clash(l, m)
CheckReservedPort(g) ==
  \A i \in Listening(g) : \A l \in sourceListeners(g.nodes[i]) : ~(l.proto = "tcp" /\ l.port = HttpPort)

(* What a walk along the edges E can come to, from the ids in S.             *)
After(E, S) == {e.to : e \in {d \in E : d.from \in S}}
Reached(U, E, S) ==
  {id \in U : \A T \in SUBSET U : S \subseteq T /\ After(E, T) \subseteq T => id \in T}

checkCycles(g) ==
  LET from(S) == Reached(Ids(Nodes(g)), g.edges, S) IN
  \A id \in from(Ids(OfType(Nodes(g), {"source"}))) : id \notin from(After(g.edges, {id}))

Validate_(g) ==
  /\ \A i, j \in DOMAIN g.nodes : g.nodes[i].id = g.nodes[j].id => i = j
  /\ \A n \in Nodes(g) : ~n.control /\ validateNode(n)
  /\ checkIdents(g)
  /\ \A e \in g.edges : validateEdge(g, e)
  /\ checkListeners(g) /\ checkCycles(g)

(* Graphs that an older version stored lose their control characters.        *)
Sanitize(g) == [nodes |-> [i \in DOMAIN g.nodes |-> [g.nodes[i] EXCEPT !.control = FALSE]],
                edges |-> g.edges]

-----------------------------------------------------------------------------
(* Generate.                                                                 *)

(* From here on a graph's nodes are a set: their order is that of the text.  *)
Enabled(g) ==
  LET on == {n \in Nodes(g) : ~n.disabled} IN
  [nodes |-> on, edges |-> {e \in g.edges : {e.from, e.to} \subseteq Ids(on)}]

CachePath(n) == <<IF n.location = "" THEN "/data/cache" ELSE n.location,
                  IF n.dir = "" THEN Ident[n.id] ELSE <<n.dir>>>>
SharesMounted(g) == \A n \in OfType(g.nodes, {"cache"}) : n.location \in Shares \cup {""}

elseBranches(g) == {e.from : e \in {d \in g.edges : d.port = "else"}}

(* Mutant: the else branch is not told apart.                                *)
X_Step(e) == [filter |-> e.from, negated |-> FALSE]

(* A step of a log path: a filter, or its negation.                          *)
Step(e) == [filter |-> e.from, negated |-> e.port = "else"]

(* Every way from a node through filters on to a sink, with the edges it     *)
(* takes.  It meets no filter twice: there are no cycles.                    *)
walk(g, id) ==
  LET filters == OfType(g.nodes, {"filter"}) IN
  {w \in UNION {[1..n -> g.edges] : n \in 1..(Cardinality(filters) + 1)} :
     /\ w[1].from = id
     /\ \A k \in 1..(Len(w) - 1) : w[k].to = w[k + 1].from /\ w[k].to \in Ids(filters)
     /\ Last(w).to \notin Ids(filters)}

flowPaths(g) ==
  UNION {{[source |-> n.id, way |-> w, sink |-> Last(w).to,
           steps |-> [k \in 1..(Len(w) - 1) |-> Step(w[k + 1])]] : w \in walk(g, n.id)}
         : n \in OfType(g.nodes, {"source"})}

(* The statements by kind and name, with the node each comes from.           *)
Statements(g) ==
  {[kind |-> "source", name |-> Ident[n.id], of |-> n.id] : n \in OfType(g.nodes, {"source"})}
  \cup {[kind |-> "destination", name |-> Ident[n.id], of |-> n.id] : n \in OfType(g.nodes, Sinks)}
  \cup {[kind |-> "destination", name |-> <<"tap">> \o Ident[n.id], of |-> n.id] :
          n \in OfType(g.nodes, {"source"})}
  \cup {[kind |-> "filter", name |-> Ident[n.id], of |-> n.id] : n \in OfType(g.nodes, {"filter"})}
  \cup {[kind |-> "filter", name |-> Ident[id] \o <<"else">>, of |-> id] :
          id \in elseBranches(g) \cap Ids(OfType(g.nodes, {"filter"}))}

LogPath(p) ==
  [source |-> Ident[p.source], way |-> p.way, destination |-> Ident[p.sink],
   filters |-> [k \in DOMAIN p.steps |->
                 Ident[p.steps[k].filter] \o IF p.steps[k].negated THEN <<"else">> ELSE <<>>]]

GenerateLogrotate(g) == {CachePath(n) : n \in OfType(Enabled(g).nodes, {"cache"})}

Generate(graph) ==
  LET g == Enabled(graph) IN
  [statements |-> Statements(g),
   listeners  |-> UNION {{<<n.id, l>> : l \in sourceListeners(n)} : n \in OfType(g.nodes, {"source"})},
   filters    |-> {[name |-> Ident[n.id], expr |-> n.conds] : n \in OfType(g.nodes, {"filter"})},
   files      |-> {CachePath(n) : n \in OfType(g.nodes, {"cache"})},
   logs       |-> {LogPath(p) : p \in flowPaths(g)}
                  \cup {[source |-> Ident[n.id], way |-> <<>>, filters |-> <<>>,
                         destination |-> <<"tap">> \o Ident[n.id]] : n \in OfType(g.nodes, {"source"})}]

(* What apply and rollback make the running flow.                            *)
Applicable(g) == Validate_(Sanitize(g)) /\ CheckReservedPort(g) /\ SharesMounted(Enabled(g))

-----------------------------------------------------------------------------
(* What the graph means, without paths: where a message that fulfils some    *)
(* conditions goes, edge by edge, past the nodes that are switched on.       *)
Leaves(g, e, holds) ==
  LET n == NodeOf(Nodes(g), e.from) IN
  /\ ~n.disabled /\ ~NodeOf(Nodes(g), e.to).disabled
  /\ n.type = "filter" => (n.conds \subseteq holds) = (e.port # "else")

Routed(g, holds, id) == Reached(Ids(Nodes(g)), {e \in g.edges : Leaves(g, e, holds)}, {id})

(* What syslog-ng does with the log paths of a message's source.             *)
Delivered(c, source, holds) ==
  LET Passes(name) == \E f \in c.filters :
                        \/ f.name = name /\ f.expr \subseteq holds
                        \/ f.name \o <<"else">> = name /\ ~(f.expr \subseteq holds)
  IN  {l.destination : l \in {m \in c.logs : m.source = source /\ \A k \in DOMAIN m.filters : Passes(m.filters[k])}}

-----------------------------------------------------------------------------
(* A configuration gives no name twice, and what its log paths name is there. *)
NamesMeet(c) ==
  LET Named(kind) == {s.name : s \in {t \in c.statements : t.kind = kind}} IN
  /\ \A s, t \in c.statements : s.kind = t.kind /\ s.name = t.name => s = t
  /\ \A l \in c.logs : /\ l.source \in Named("source") /\ l.destination \in Named("destination")
                       /\ ToSet(l.filters) \subseteq Named("filter")

(* Where the graph takes the messages of a source: its own tap, and sinks.   *)
Shown(g, n, holds) ==
  (IF n.disabled THEN {} ELSE {<<"tap">> \o Ident[n.id]})
    \cup {Ident[k.id] : k \in {m \in OfType(Nodes(g), Sinks) : m.id \in Routed(g, holds, n.id)}}

(* A graph that the valve accepts compiles to a configuration in which no    *)
(* name is given twice and none is missing, no two sources want one address, *)
(* the cache files are those that are rotated, and messages reach the sinks  *)
(* the graph shows, and only those, whatever conditions they fulfil          *)
(* (graph.go, safety.go, codegen.go).                                        *)
ConfigFaithfulOf(g) ==
  LET c == Generate(g) IN
  /\ NamesMeet(c)
  /\ \A k, l \in c.listeners : k # l => ~Clash(k[2], l[2])
  /\ c.files = GenerateLogrotate(g)
  /\ \A holds \in SUBSET Condition : \A n \in OfType(Nodes(g), {"source"}) :
       Shown(g, n, holds) = Delivered(c, Ident[n.id], holds)

ConfigFaithful == Applicable(flow) => ConfigFaithfulOf(Sanitize(flow))
=============================================================================
