------------------------------- MODULE MCValve -------------------------------
(* The valve around its supervisor, each part on its own: activations, the    *)
(* notify dispatcher, the live tap, and the graphs that codegen is given.     *)
EXTENDS Activation, ValveNotify, Tap, FlowGraph

VARIABLE part

-----------------------------------------------------------------------------
(* Activation has three graphs, two of which have one configuration.          *)
GraphsMC == {"g1", "g2", "g3"}
ConfMC == [g \in GraphsMC |-> IF g = "g3" THEN "other" ELSE "same"]

-----------------------------------------------------------------------------
(* Graphs.                                                                    *)
IdentMC == [s |-> <<"s">>, f |-> <<"f">>, g |-> <<"g">>, k |-> <<"k">>, K |-> <<"k">>,
            tap_s |-> <<"tap", "s">>, f_else |-> <<"f", "else">>]
SharesMC == {"archive"}
Edge(a, p, b) == [from |-> a, port |-> p, to |-> b]
Filter(id, c) == [Node(id, "filter") EXCEPT !.conds = c]

(* One source, two filters and a sink, in every wiring, any of them off.      *)
Wirings ==
  LET edges == {Edge("s", "", t) : t \in {"f", "g", "k"}}
               \cup {Edge("f", p, t) : p \in {"match", "else"}, t \in {"g", "k"}}
               \cup {Edge("g", p, t) : p \in {"match", "else"}, t \in {"f", "k"}}
      nodes == <<Node("s", "source"), Filter("f", {"severity"}),
                 Filter("g", {"severity", "program"}), Node("k", "cache")>>
  IN  {[nodes |-> [i \in 1..4 |-> [nodes[i] EXCEPT !.disabled = nodes[i].id \in off]], edges |-> E] :
         off \in SUBSET {"s", "f", "g", "k"}, E \in SUBSET edges}

(* Pairs of nodes whose names, addresses or files may meet.                   *)
Varied ==
  LET Source(id) == Node(id, "source") IN
  {Source("s"), [Source("s") EXCEPT !.transport = "udp+tcp"],
   [Source("g") EXCEPT !.transport = "tcp"], [Source("g") EXCEPT !.bind = "::"],
   [Source("g") EXCEPT !.transport = "tls", !.port = 2], [Source("g") EXCEPT !.disabled = TRUE],
   [Source("g") EXCEPT !.port = 0],
   Filter("f", {"program"}), Filter("f", {}), Filter("f", {"invalid"}), Node("f_else", "filter"),
   Node("f", "forward"), [Node("k", "forward") EXCEPT !.transport = "udp+tcp"],
   Node("k", "cache"), [Node("K", "cache") EXCEPT !.location = "gone"],
   [Node("K", "cache") EXCEPT !.location = "archive", !.dir = "d"],
   [Node("k", "notify") EXCEPT !.control = TRUE], Node("tap_s", "notify")}
Pairs ==
  {[nodes |-> <<a, b>>, edges |-> E] : a \in Varied, b \in Varied,
     E \in {{}} \cup {{Edge(x, p, y)} : x \in {"s", "f"}, p \in {"", "else", "bad"},
                                       y \in {"k", "f", "tap_s", "s"}}}

(* All of them are what the theorem about ConfigFaithful takes.               *)
ASSUME GraphsAssumption == \A g \in Wirings \cup Pairs : IsGraph(g)

-----------------------------------------------------------------------------
fixed == <<part, flow>>
MCInit ==
  /\ Init /\ NotifyInit /\ TapInit
  /\ \/ part \in {"activation", "notify", "tap"} /\ flow = [nodes |-> <<>>, edges |-> {}]
     \/ part = "graph" /\ flow \in Wirings \cup Pairs
  /\ part # "activation" => draft = "g1"
MCNext ==
  /\ UNCHANGED fixed
  /\ \/ part = "activation" /\ Next /\ UNCHANGED <<notifyVars, tapVars>>
     \/ part = "notify" /\ NotifyNext /\ UNCHANGED <<vars, tapVars>>
     \/ part = "tap" /\ TapNext /\ UNCHANGED <<vars, notifyVars>>
MCSpec == MCInit /\ [][MCNext]_<<vars, notifyVars, tapVars, fixed>>
Symmetric == Permutations(Viewer)
===============================================================================
