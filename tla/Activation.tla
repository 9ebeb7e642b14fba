------------------------------ MODULE Activation ------------------------------
(***************************************************************************)
(* How syslog-valve makes a graph the running flow, and finds it again     *)
(* after a restart (internal/server/server.go: putGraph, apply, rollback,  *)
(* activate, syncActive; internal/supervisor/supervisor.go: the files Apply*)
(* leaves behind, History, ActiveGraph).                                   *)
(*                                                                         *)
(* The server's mutex makes activations one at a time; what interleaves    *)
(* with them is the death of the process between any two writes, and the   *)
(* failure of any write.  Files survive a restart, the notify dispatcher's *)
(* targets do not.  What syslog-ng answers to a reload is module           *)
(* Supervisor's subject; here it is a choice.                              *)
(***************************************************************************)
EXTENDS Naturals, Sequences

CONSTANTS
  Graphs,      (* the graphs users draw                                     *)
  Configs,     (* syslog-ng configurations                                  *)
  Conf,        (* codegen: the configuration of a graph; two graphs that    *)
               (* differ in a notify target or a rotation have the same     *)
  Minimal,     (* the configuration a fresh install starts with             *)
  NoGraph,     (* no graph                                                  *)
  Keep,        (* historyKeep                                               *)
  MaxHistory   (* bound: entries, when archiving keeps failing halfway      *)

ASSUME ActivationAssumption ==
  /\ NoGraph \notin Graphs
  /\ Conf \in [Graphs -> Configs] /\ Minimal \in Configs
  /\ \A g \in Graphs : Conf[g] # Minimal
  /\ Keep \in Nat \ {0} /\ MaxHistory \in Nat /\ MaxHistory > Keep

VARIABLES
  up,          (* the process runs, and has finished syncActive             *)
  pc,          (* the next write of the activation in progress              *)
  target,      (* its graph                                                 *)
  prev,        (* the configuration it replaced                             *)
  answer,      (* how the last activation ended                             *)
  draft,       (* graph.json                                                *)
  current,     (* current.conf                                              *)
  history,     (* history/, newest first: a configuration and its graph     *)
  logrotate,   (* the graph logrotate.conf was generated from               *)
  notify,      (* the graph the notify dispatcher has                       *)
  fault        (* history: an activation was cut short, by a failed write   *)
               (* or a restart, and nothing has made up for it since        *)

files  == <<draft, current, history, logrotate>>
vars   == <<up, pc, target, prev, answer, files, notify, fault>>

MaybeGraph == Graphs \cup {NoGraph}
Entry      == [conf : Configs, graph : MaybeGraph]

FlagsOK == up \in BOOLEAN /\ fault \in BOOLEAN

DataOK ==
  /\ pc \in {"idle", "install", "verdict", "archive", "archiveGraph", "logrotate", "notify", "save"}
  /\ target \in MaybeGraph /\ prev \in Configs
  /\ answer \in {"none", "ok", "refused", "failed"}
  /\ draft \in Graphs /\ current \in Configs
  /\ history \in Seq(Entry) /\ (pc \in {"logrotate", "notify", "save"} => Len(history) <= Keep)
  /\ logrotate \in MaybeGraph /\ notify \in MaybeGraph

TypeOK == FlagsOK /\ DataOK

(* ActiveGraph: the graph of the newest entry that has the configuration, and *)
(* NoGraph when there is none or when it was archived without its graph.      *)
Matches(h, c) == {i \in DOMAIN h : h[i].conf = c}
NewestIn(S)   == CHOOSE i \in S : \A j \in S : i <= j
ActiveGraph(h, c) == IF Matches(h, c) = {} THEN NoGraph ELSE h[NewestIn(Matches(h, c))].graph

Init ==
  /\ up = TRUE /\ pc = "idle" /\ target = NoGraph /\ prev = Minimal /\ answer = "none"
  /\ draft \in Graphs
  /\ current = Minimal /\ history = <<>> /\ logrotate = NoGraph
  /\ notify = draft
  /\ fault = FALSE

-------------------------------------------------------------------------------
(* putGraph. *)
PutGraph(g) ==
  /\ up /\ pc = "idle"
  /\ draft' = g
  /\ UNCHANGED <<up, pc, target, prev, answer, current, history, logrotate, notify, fault>>

(* apply and rollback.  A graph that fails a check, or whose configuration    *)
(* fails syslog-ng's syntax check, leaves everything as it is.                *)
Activate(g) ==
  /\ up /\ pc = "idle"
  /\ target' = g
  /\ pc' = "install"
  /\ UNCHANGED <<up, prev, answer, files, notify, fault>>

ApplyDraft == Activate(draft)

Rollback(i) == history[i].graph # NoGraph /\ Activate(history[i].graph)

(* A step fails: the activation is over. *)
Fails(a, f) ==
  /\ pc' = "idle" /\ answer' = a /\ fault' = f
  /\ UNCHANGED <<up, target, prev, files, notify>>

(* Supervisor.Apply reads the old configuration and writes the new one. *)
Install ==
  /\ up /\ pc = "install"
  /\ \/ /\ prev' = current /\ current' = Conf[target]
        /\ pc' = "verdict"
        /\ UNCHANGED <<up, target, answer, draft, history, logrotate, notify, fault>>
     \/ Fails("failed", fault)

(* syslog-ng loads the configuration, or does not run: it stays installed. *)
Accepted ==
  /\ up /\ pc = "verdict"
  /\ pc' = "archive"
  /\ UNCHANGED <<up, target, prev, answer, files, notify, fault>>

(* Mutant: the refused configuration stays.                                  *)
NotAccepted_keeps ==
  /\ up /\ pc = "verdict"
  /\ answer' = "refused" /\ pc' = "idle"
  /\ UNCHANGED <<up, target, prev, files, notify, fault>>

(* It refuses it, or gives no verdict in time: the old file is put back, *)
(* unless that fails or it was not read: the refused one stays installed. *)
NotAccepted ==
  /\ up /\ pc = "verdict"
  /\ \/ /\ current' = prev
        /\ answer' = "refused" /\ pc' = "idle"
        /\ UNCHANGED <<up, target, prev, draft, history, logrotate, notify, fault>>
     \/ Fails("refused", TRUE)

(* archive writes the configuration, then the graph, then prunes.             *)
ArchiveConf ==
  /\ up /\ pc = "archive"
  /\ \/ /\ Len(history) < MaxHistory
        /\ history' = <<[conf |-> Conf[target], graph |-> NoGraph]>> \o history
        /\ pc' = "archiveGraph"
        /\ UNCHANGED <<up, target, prev, answer, draft, current, logrotate, notify, fault>>
     \/ Fails("failed", TRUE)

ArchiveGraph ==
  /\ up /\ pc = "archiveGraph"
  /\ \/ /\ LET named == [history EXCEPT ![1].graph = target] IN
             history' = IF Len(named) <= Keep THEN named ELSE SubSeq(named, 1, Keep)
        /\ pc' = "logrotate"
        /\ UNCHANGED <<up, target, prev, answer, draft, current, logrotate, notify, fault>>
     \/ Fails("failed", TRUE)

(* syncDerived. *)
WriteLogrotate ==
  /\ up /\ pc = "logrotate"
  /\ \/ /\ logrotate' = target
        /\ pc' = "notify"
        /\ UNCHANGED <<up, target, prev, answer, draft, current, history, notify, fault>>
     \/ Fails("failed", TRUE)

SetGraph ==
  /\ up /\ pc = "notify"
  /\ notify' = target
  /\ fault' = FALSE
  /\ pc' = "save"
  /\ UNCHANGED <<up, target, prev, answer, files>>

(* The applied graph becomes the draft. *)
Save ==
  /\ up /\ pc = "save"
  /\ \/ draft' = target /\ answer' = "ok"
     \/ UNCHANGED draft /\ answer' = "failed"
  /\ pc' = "idle"
  /\ UNCHANGED <<up, target, prev, current, history, logrotate, notify, fault>>

-------------------------------------------------------------------------------
(* The process dies, at any point, and starts again.                          *)

Die ==
  /\ up
  /\ up' = FALSE
  /\ pc' = "idle"
  /\ notify' = NoGraph
  /\ fault' = (fault \/ pc \notin {"idle", "install", "save"})
  /\ UNCHANGED <<target, prev, answer, files>>

(* syncActive.  With no graph for the running configuration the notify        *)
(* targets come from the draft.  Otherwise both derived things are brought in *)
(* line; but logrotate.conf is kept when it cannot be generated (a share that *)
(* is gone), and nothing more is done when it cannot be written.              *)
Boot ==
  /\ ~up
  /\ up' = TRUE
  /\ LET g == ActiveGraph(history, current) IN
       \/ /\ g = NoGraph
          /\ notify' = draft
          /\ UNCHANGED <<logrotate, fault>>
       \/ /\ g # NoGraph
          /\ notify' = g /\ logrotate' = g
          /\ fault' = FALSE
       \/ /\ g # NoGraph
          /\ notify' \in {g, NoGraph}
          /\ fault' = TRUE
          /\ UNCHANGED logrotate
  /\ UNCHANGED <<pc, target, prev, answer, draft, current, history>>

-------------------------------------------------------------------------------
Next ==
  \/ \E g \in Graphs : PutGraph(g)
  \/ ApplyDraft \/ \E i \in DOMAIN history : Rollback(i)
  \/ Install \/ Accepted \/ NotAccepted \/ ArchiveConf \/ ArchiveGraph
  \/ WriteLogrotate \/ SetGraph \/ Save
  \/ Die \/ Boot

Spec == Init /\ [][Next]_vars

-------------------------------------------------------------------------------
(* Properties.                                                                *)

(* One graph drives everything.                                               *)
Driven(g) == g # NoGraph /\ notify = g /\ logrotate = g

(* Between activations of a valve that was applied to, the graph archived     *)
(* with the running configuration, the notify targets and logrotate.conf are  *)
(* those of one graph, after refused activations, rollbacks, pruning and      *)
(* restarts, also when several graphs have this configuration.  Only a write  *)
(* that failed, or a restart in the middle of an activation, excuses it (or *)
(* a read: the replaced file when a refusal has to put it back), and only     *)
(* until the next activation or restart that finds the graph.                 *)
InStep ==
  up /\ pc = "idle" /\ ~fault /\ history # <<>> => Driven(ActiveGraph(history, current))

(* ActiveGraph's comment (supervisor.go 412-414): no entry matches only in a  *)
(* "fresh install, or a config not produced by Apply".  An activation that    *)
(* was cut short after current.conf was written breaks it.                    *)
InstalledIsKnown ==
  up /\ pc = "idle" /\ answer # "refused" /\ current # Minimal => ActiveGraph(history, current) # NoGraph
===============================================================================
