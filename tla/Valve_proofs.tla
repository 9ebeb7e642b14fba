---------------------------- MODULE Valve_proofs ----------------------------
(***************************************************************************)
(* The valve's safety: restarts find the graph that drives the flow, the   *)
(* live tap has gaps only where it dropped, and every transition of a node *)
(* and every message about it is accounted for, for every set of graphs,   *)
(* viewers and nodes, every history, ring and queue.                       *)
(***************************************************************************)
EXTENDS Activation, ValveNotify, Tap, FlowGraph, FiniteSetTheorems, SequenceTheorems, WellFoundedInduction, TLAPS

-----------------------------------------------------------------------------
(* Activation: the history finds the graph that drives the flow.             *)

(* Where an activation is, it has left what the steps before it write.        *)
ProgressInv ==
  /\ pc # "idle" => up /\ target \in Graphs
  /\ pc \in {"verdict", "archive", "archiveGraph", "logrotate", "notify", "save"} => current = Conf[target]
  /\ pc \in {"archiveGraph", "logrotate", "notify", "save"} => history # <<>> /\ history[1].conf = Conf[target]
  /\ pc \in {"logrotate", "notify", "save"} => history[1].graph = target
  /\ pc \in {"notify", "save"} => logrotate = target
  /\ pc = "save" => notify = target

(* The graph that drives the flow is found for the configuration that an      *)
(* activation in progress would put back, and for the one a restart reads.    *)
DrivenInv ==
  ~fault /\ history # <<>> =>
    /\ up /\ pc \in {"idle", "install"} => Driven(ActiveGraph(history, current))
    /\ pc = "verdict" => Driven(ActiveGraph(history, prev))
    /\ ~up => ActiveGraph(history, current) # NoGraph

DataInv == DataOK /\ ProgressInv
-----------------------------------------------------------------------------
(* A set of numbers that is not empty has a smallest one.                     *)
LEMMA Smallest ==
  ASSUME NEW T, T \subseteq Nat, T # {}
  PROVE  \E x \in T : \A y \in T : x <= y
<1> DEFINE R == OpToRel(<, Nat)
<1>1. IsWellFoundedOn(R, Nat)
  BY NatLessThanWellFounded
<1>2. \A x, y \in Nat : y < x => <<y, x>> \in R
  BY DEF OpToRel
<1> HIDE DEF R
<1>3. PICK x \in T : \A y \in T : ~ (<<y, x>> \in R)
  BY <1>1, WFMin
<1>4. \A y \in T : ~ (y < x)
  BY <1>2, <1>3
<1>5. QED
  BY <1>4

(* The newest entry wins.                                                     *)
LEMMA NewestWins ==
  ASSUME NEW h \in Seq(Entry), h # <<>>
  PROVE  ActiveGraph(h, h[1].conf) = h[1].graph
<1> DEFINE M == Matches(h, h[1].conf)
<1>1. Len(h) \in Nat \ {0}
  BY EmptySeq
<1>2. 1 \in M /\ \A i \in M : i \in Nat /\ 1 <= i
  BY <1>1 DEF Matches
<1>3. NewestIn(M) = 1
  <2>1. NewestIn(M) \in M /\ \A j \in M : NewestIn(M) <= j
    BY <1>2 DEF NewestIn
  <2>2. QED
    BY <1>2, <2>1
<1>4. QED
  BY <1>2, <1>3 DEF ActiveGraph

(* What is archived with its graph is found, whether or not pruning follows.  *)
LEMMA ArchivedNamed ==
  ASSUME NEW h \in Seq(Entry), h # <<>>, NEW g \in Graphs
  PROVE  LET named == [h EXCEPT ![1].graph = g]
             kept  == IF Len(named) <= Keep THEN named ELSE SubSeq(named, 1, Keep) IN
           /\ kept \in Seq(Entry) /\ kept # <<>> /\ Len(kept) <= Keep
           /\ kept[1].conf = h[1].conf /\ kept[1].graph = g
<1> DEFINE named == [h EXCEPT ![1].graph = g]
<1> DEFINE kept == IF Len(named) <= Keep THEN named ELSE SubSeq(named, 1, Keep)
<1>1. Len(h) \in Nat \ {0} /\ 1 \in DOMAIN h /\ h[1] \in Entry
  BY EmptySeq
<1>2. [h[1] EXCEPT !.graph = g] \in Entry /\ [h[1] EXCEPT !.graph = g].conf = h[1].conf /\ [h[1] EXCEPT !.graph = g].graph = g
  BY <1>1 DEF Entry, MaybeGraph
<1>3. named = [h EXCEPT ![1] = [h[1] EXCEPT !.graph = g]]
  BY <1>1
<1>4. named \in Seq(Entry) /\ Len(named) = Len(h)
  BY <1>1, <1>2, <1>3, ExceptSeq
<1>5. named[1] = [h[1] EXCEPT !.graph = g]
  BY <1>1, <1>3
<1>6. CASE Len(named) <= Keep
  BY <1>1, <1>2, <1>4, <1>5, <1>6, EmptySeq
<1>7. CASE ~(Len(named) <= Keep)
  <2>1. Keep \in 1..Len(named) /\ Keep \in Nat \ {0}
    BY <1>1, <1>4, <1>7, ActivationAssumption
  <2>2. kept = SubSeq(named, 1, Keep)
    BY <1>7
  <2>3. kept \in Seq(Entry) /\ Len(kept) = Keep /\ kept[1] = named[1]
    BY <1>4, <2>1, <2>2, SubSeqProperties
  <2>4. QED
    BY <1>2, <1>5, <2>1, <2>3, EmptySeq
<1>8. QED
  BY <1>6, <1>7

(* The graph found for a configuration is a graph, or none.                   *)
LEMMA ActiveTyped ==
  ASSUME NEW h \in Seq(Entry), NEW c
  PROVE  ActiveGraph(h, c) \in MaybeGraph
<1> DEFINE M == Matches(h, c)
<1>1. CASE M = {}
  BY <1>1 DEF ActiveGraph, MaybeGraph
<1>2. CASE M # {}
  <2>1. M \subseteq 1..Len(h) /\ M \subseteq Nat
    BY DEF Matches
  <2>2. \E i \in M : \A j \in M : i <= j
    BY <1>2, <2>1, Smallest
  <2>3. NewestIn(M) \in M
    BY <2>2 DEF NewestIn
  <2>4. h[NewestIn(M)] \in Entry
    BY <2>1, <2>3, ElementOfSeq
  <2>5. QED
    BY <1>2, <2>4 DEF ActiveGraph, Entry
<1>3. QED
  BY <1>1, <1>2

(* Every variable keeps its type and an activation leaves what its steps      *)
(* write.                                                                     *)
LEMMA TypeInvariant == Spec => [](FlagsOK /\ DataInv)
<1> USE DEF files, Fails
<1>1. Init => FlagsOK /\ DataInv
  BY EmptySeq, ActivationAssumption DEF Init, FlagsOK, DataInv, DataOK, ProgressInv, MaybeGraph
<1>2. FlagsOK /\ [Next]_vars => FlagsOK'
  <2> SUFFICES ASSUME FlagsOK, [Next]_vars PROVE FlagsOK'
    OBVIOUS
  <2> USE DEF FlagsOK
  <2>1. ASSUME NEW g \in Graphs, PutGraph(g) PROVE FlagsOK'
    BY <2>1 DEF PutGraph
  <2>2. CASE ApplyDraft
    BY <2>2 DEF ApplyDraft, Activate
  <2>3. ASSUME NEW i \in DOMAIN history, Rollback(i) PROVE FlagsOK'
    BY <2>3 DEF Rollback, Activate
  <2>4. CASE Install
    BY <2>4 DEF Install
  <2>5. CASE Accepted
    BY <2>5 DEF Accepted
  <2>6. CASE NotAccepted
    BY <2>6 DEF NotAccepted
  <2>7. CASE ArchiveConf
    BY <2>7 DEF ArchiveConf
  <2>8. CASE ArchiveGraph
    BY <2>8 DEF ArchiveGraph
  <2>9. CASE WriteLogrotate
    BY <2>9 DEF WriteLogrotate
  <2>10. CASE SetGraph
    BY <2>10 DEF SetGraph
  <2>11. CASE Save
    BY <2>11 DEF Save
  <2>12. CASE Die
    BY <2>12 DEF Die
  <2>13. CASE Boot
    BY <2>13 DEF Boot
  <2>14. CASE UNCHANGED vars
    BY <2>14 DEF vars
  <2>15. QED
    BY <2>1, <2>2, <2>3, <2>4, <2>5, <2>6, <2>7, <2>8, <2>9, <2>10, <2>11, <2>12, <2>13, <2>14 DEF Next
<1>3. DataInv /\ [Next]_vars => DataInv'
  <2> SUFFICES ASSUME DataInv, [Next]_vars PROVE DataInv'
    OBVIOUS
  <2> USE DEF DataInv, DataOK, ProgressInv, MaybeGraph
  <2>1. ASSUME NEW g \in Graphs, PutGraph(g) PROVE DataInv'
    BY <2>1 DEF PutGraph
  <2>2. CASE ApplyDraft
    BY <2>2 DEF ApplyDraft, Activate
  <2>3. ASSUME NEW i \in DOMAIN history, Rollback(i) PROVE DataInv'
    <3>1. history[i] \in Entry
      BY <2>3, ElementOfSeq
    <3>2. history[i].graph \in Graphs
      BY <2>3, <3>1 DEF Rollback, Entry
    <3>3. QED
      BY <2>3, <3>2 DEF Rollback, Activate
  <2>4. CASE Install
    <3>1. Conf[target] \in Configs
      BY <2>4, ActivationAssumption DEF Install
    <3>2. QED
      BY <2>4, <3>1 DEF Install
  <2>5. CASE Accepted
    BY <2>5 DEF Accepted
  <2>6. CASE NotAccepted
    BY <2>6 DEF NotAccepted
  <2>7. CASE ArchiveConf
    <3>1. CASE Fails("failed", TRUE)
      BY <3>1, <2>7 DEF ArchiveConf
    <3>2. CASE ~Fails("failed", TRUE)
      <4> DEFINE e == [conf |-> Conf[target], graph |-> NoGraph]
      <4>1. e \in Entry /\ e.conf = Conf[target]
        BY <2>7, ActivationAssumption DEF ArchiveConf, Entry
      <4>2. history' = <<e>> \o history
        BY <2>7, <3>2 DEF ArchiveConf
      <4>3. <<e>> \in Seq(Entry) /\ Len(<<e>>) = 1 /\ <<e>>[1] = e
        BY <4>1
      <4>4. history' \in Seq(Entry) /\ Len(history') = 1 + Len(history) /\ history'[1] = e
        BY <4>2, <4>3, ConcatProperties
      <4>5. history' # <<>>
        BY <4>4, EmptySeq
      <4>6. UNCHANGED <<up, target, prev, answer, draft, current, logrotate, notify>> /\ pc = "archive" /\ pc' = "archiveGraph"
        BY <2>7, <3>2 DEF ArchiveConf
      <4>7. QED
        BY <4>1, <4>4, <4>5, <4>6
    <3>3. QED
      BY <3>1, <3>2
  <2>8. CASE ArchiveGraph
    <3>1. CASE Fails("failed", TRUE)
      BY <3>1, <2>8 DEF ArchiveGraph
    <3>2. CASE ~Fails("failed", TRUE)
      <4>1. history # <<>> /\ target \in Graphs
        BY <2>8 DEF ArchiveGraph
      <4> DEFINE named == [history EXCEPT ![1].graph = target]
      <4> DEFINE kept == IF Len(named) <= Keep THEN named ELSE SubSeq(named, 1, Keep)
      <4>2. history' = kept
        BY <2>8, <3>2 DEF ArchiveGraph
      <4>3. UNCHANGED <<up, target, prev, answer, draft, current, logrotate, notify>> /\ pc = "archiveGraph" /\ pc' = "logrotate"
        BY <2>8, <3>2 DEF ArchiveGraph
      <4>4. /\ kept \in Seq(Entry) /\ kept # <<>> /\ Len(kept) <= Keep
            /\ kept[1].conf = history[1].conf /\ kept[1].graph = target
        BY <4>1, ArchivedNamed
      <4> HIDE DEF named, kept
      <4>5. QED
        BY <4>2, <4>3, <4>4
    <3>3. QED
      BY <3>1, <3>2
  <2>9. CASE WriteLogrotate
    BY <2>9 DEF WriteLogrotate
  <2>10. CASE SetGraph
    BY <2>10 DEF SetGraph
  <2>11. CASE Save
    BY <2>11 DEF Save
  <2>12. CASE Die
    BY <2>12 DEF Die
  <2>13. CASE Boot
    BY <2>13, ActiveTyped DEF Boot
  <2>14. CASE UNCHANGED vars
    BY <2>14 DEF vars
  <2>15. QED
    BY <2>1, <2>2, <2>3, <2>4, <2>5, <2>6, <2>7, <2>8, <2>9, <2>10, <2>11, <2>12, <2>13, <2>14 DEF Next
<1>4. QED
  BY <1>1, <1>2, <1>3, PTL DEF Spec

(* Every variable keeps its type, and a finished archive is pruned.           *)
THEOREM TypeCorrect == Spec => []TypeOK
<1>1. FlagsOK /\ DataInv => TypeOK
  BY DEF TypeOK, DataInv
<1>2. QED
  BY <1>1, TypeInvariant, PTL

(* Between activations one graph drives everything, and restarts find it.     *)
THEOREM InStepCorrect == Spec => []InStep
<1> USE DEF files, Fails
<1>1. Init => DrivenInv
  BY DEF Init, DrivenInv
<1>2. DrivenInv /\ DataInv /\ [Next]_vars => DrivenInv'
  <2> SUFFICES ASSUME DrivenInv, DataInv, [Next]_vars PROVE DrivenInv'
    OBVIOUS
  <2> USE DEF DrivenInv
  <2>1. ASSUME NEW g \in Graphs, PutGraph(g) PROVE DrivenInv'
    BY <2>1 DEF PutGraph, Driven, DataInv, ProgressInv
  <2>2. CASE ApplyDraft
    BY <2>2 DEF ApplyDraft, Activate, Driven, DataInv, ProgressInv
  <2>3. ASSUME NEW i \in DOMAIN history, Rollback(i) PROVE DrivenInv'
    BY <2>3 DEF Rollback, Activate, Driven, DataInv, ProgressInv
  <2>4. CASE Install
    <3>1. CASE Fails("failed", fault)
      <4>1. pc' = "idle" /\ UNCHANGED <<up, history, current, notify, logrotate, fault>> /\ up /\ pc = "install"
        BY <2>4, <3>1, Zenon DEF Install
      <4>2. QED
        BY <4>1 DEF Driven
    <3>2. CASE ~Fails("failed", fault)
      <4>1. prev' = current /\ pc' = "verdict" /\ UNCHANGED <<up, history, notify, logrotate, fault>> /\ up /\ pc = "install"
        BY <2>4, <3>2, Zenon DEF Install
      <4>2. QED
        BY <4>1 DEF Driven
    <3>3. QED
      BY <3>1, <3>2
  <2>5. CASE Accepted
    BY <2>5 DEF Accepted, Driven, DataInv, ProgressInv
  <2>6. CASE NotAccepted
    <3>1. CASE Fails("refused", TRUE)
      BY <2>6, <3>1 DEF NotAccepted
    <3>2. CASE ~Fails("refused", TRUE)
      <4>1. current' = prev /\ pc' = "idle" /\ UNCHANGED <<up, history, notify, logrotate, fault>> /\ up /\ pc = "verdict"
        BY <2>6, <3>2, Zenon DEF NotAccepted
      <4>2. QED
        BY <4>1 DEF Driven
    <3>3. QED
      BY <3>1, <3>2
  <2>7. CASE ArchiveConf
    BY <2>7 DEF ArchiveConf, Driven, DataInv, ProgressInv
  <2>8. CASE ArchiveGraph
    BY <2>8 DEF ArchiveGraph, Driven, DataInv, ProgressInv
  <2>9. CASE WriteLogrotate
    BY <2>9 DEF WriteLogrotate, Driven, DataInv, ProgressInv
  <2>10. CASE SetGraph
    BY <2>10 DEF SetGraph, Driven, DataInv, ProgressInv
  <2>11. CASE Save
    <3>1. ActiveGraph(history, current) = target
      BY <2>11, NewestWins DEF Save, DataInv, DataOK, ProgressInv
    <3>2. target # NoGraph /\ notify = target /\ logrotate = target
      BY <2>11, ActivationAssumption DEF Save, DataInv, ProgressInv
    <3>3. UNCHANGED <<up, history, current, notify, logrotate, fault>> /\ up /\ pc' = "idle"
      BY <2>11 DEF Save
    <3>4. QED
      BY <3>1, <3>2, <3>3 DEF Driven
  <2>12. CASE Die
    <3>1. ~up' /\ pc' = "idle" /\ UNCHANGED <<history, current>> /\ up
      BY <2>12 DEF Die
    <3>2. ~fault' => ~fault /\ pc \in {"idle", "install", "save"}
      BY <2>12 DEF Die
    <3>3. CASE pc = "save"
      <4>1. ActiveGraph(history, current) = target
        BY <3>3, NewestWins DEF DataInv, DataOK, ProgressInv
      <4>2. target # NoGraph
        BY <3>3, ActivationAssumption DEF DataInv, ProgressInv
      <4>3. QED
        BY <3>1, <4>1, <4>2
    <3>4. CASE pc \in {"idle", "install"}
      BY <3>1, <3>2, <3>4 DEF Driven
    <3>5. QED
      BY <3>1, <3>2, <3>3, <3>4
  <2>13. CASE Boot
    BY <2>13 DEF Boot, Driven, DataInv, ProgressInv
  <2>14. CASE UNCHANGED vars
    BY <2>14 DEF vars, Driven, DataInv, ProgressInv
  <2>15. QED
    BY <2>1, <2>2, <2>3, <2>4, <2>5, <2>6, <2>7, <2>8, <2>9, <2>10, <2>11, <2>12, <2>13, <2>14 DEF Next
<1>3. DrivenInv => InStep
  BY DEF DrivenInv, InStep
<1>4. QED
  BY <1>1, <1>2, <1>3, TypeInvariant, PTL DEF Spec

-----------------------------------------------------------------------------
(* Tap: what a viewer was, is and will be sent.                              *)

(* What a viewer was, is and will be sent, without gaps but for what it missed. *)
Gapless(s, m, n) ==
  /\ \A i \in 1..(Len(s) - 1) : s[i] < s[i + 1]
  /\ s = <<>> => n = 0 /\ m = {}
  /\ s # <<>> => ToSet(s) \cup m = s[1]..n

(* What v saw and is about to see. *)
Sees(v) == shown[v] \o replay[v] \o channel[v]

(* The ring holds the newest events. *)
RingOK ==
  /\ seq \in Nat /\ ring \in Seq(Nat)
  /\ \A i \in 1..Len(ring) : ring[i] = seq - Len(ring) + i
  /\ Len(ring) <= seq /\ (seq > 0 => ring # <<>>)

(* Types, and nothing is kept for a viewer that left. *)
ViewerOK ==
  /\ subs \subseteq Viewer
  /\ shown \in [Viewer -> Seq(Nat)] /\ replay \in [Viewer -> Seq(Nat)] /\ channel \in [Viewer -> Seq(Nat)]
  /\ missed \in [Viewer -> SUBSET Nat]
  /\ \A v \in Viewer : Len(channel[v]) <= SubBuffer
  /\ \A v \in Viewer \ subs : shown[v] = <<>> /\ replay[v] = <<>> /\ channel[v] = <<>> /\ missed[v] = {}

FollowOK == \A v \in subs : Gapless(Sees(v), missed[v], seq)

(* A subscriber's next event closes up. *)
LEMMA GaplessAppend ==
  ASSUME NEW s \in Seq(Nat), NEW m \in SUBSET Nat, NEW n \in Nat, Gapless(s, m, n)
  PROVE  Gapless(Append(s, n + 1), m, n + 1)
<1> DEFINE t == Append(s, n + 1)
<1>1. /\ t \in Seq(Nat) /\ Len(t) = Len(s) + 1 /\ Len(s) \in Nat /\ t # <<>>
      /\ \A i \in 1..Len(s) : t[i] = s[i]
      /\ t[Len(s) + 1] = n + 1
  BY AppendProperties, LenProperties
<1> HIDE DEF t
<1>2. \A i \in 1..Len(s) : s[i] \in Nat
  BY ElementOfSeq
<1>3. CASE s = <<>>
  <2>1. Len(t) = 1 /\ t[1] = 1 /\ n = 0 /\ m = {}
    BY <1>1, <1>3 DEF Gapless
  <2>2. ToSet(t) = {1}
    BY <1>1, <2>1 DEF ToSet
  <2>3. \A i \in 1..(Len(t) - 1) : t[i] < t[i + 1]
    BY <2>1
  <2>4. ToSet(t) \cup m = t[1]..(n + 1)
    BY <2>1, <2>2
  <2>5. Gapless(t, m, n + 1)
    BY <1>1, <2>3, <2>4 DEF Gapless
  <2>6. QED
    BY <2>5 DEF t
<1>4. CASE s # <<>>
  <2>1. Len(s) >= 1
    BY <1>1, <1>4, EmptySeq
  <2>2. ToSet(s) \cup m = s[1]..n
    BY <1>4 DEF Gapless
  <2>3. \A i \in 1..Len(s) : s[i] <= n
    BY <1>1, <1>2, <2>1, <2>2 DEF ToSet
  <2>4. ToSet(t) = ToSet(s) \cup {n + 1}
    <3>1. DOMAIN t = 1..(Len(s) + 1) /\ DOMAIN s = 1..Len(s)
      BY <1>1, LenProperties
    <3>2. 1..(Len(s) + 1) = 1..Len(s) \cup {Len(s) + 1}
      BY <1>1
    <3>3. QED
      BY <1>1, <3>1, <3>2 DEF ToSet
  <2>5. t[1] = s[1] /\ s[1] \in Nat /\ s[1] <= n
    BY <1>1, <1>2, <2>1, <2>3
  <2>6. ToSet(t) \cup m = t[1]..(n + 1)
    BY <2>2, <2>4, <2>5
  <2>7. \A i \in 1..(Len(t) - 1) : t[i] < t[i + 1]
    <3> TAKE i \in 1..(Len(t) - 1)
    <3>1. CASE i = Len(s)
      BY <1>1, <1>2, <2>1, <2>3, <3>1
    <3>2. CASE i # Len(s)
      <4>1. i \in 1..Len(s) /\ i + 1 \in 1..Len(s) /\ i \in 1..(Len(s) - 1)
        BY <1>1, <3>2
      <4>2. s[i] < s[i + 1]
        BY <4>1 DEF Gapless
      <4>3. QED
        BY <1>1, <4>1, <4>2
    <3>3. QED
      BY <3>1, <3>2
  <2>8. Gapless(t, m, n + 1)
    BY <1>1, <2>6, <2>7 DEF Gapless
  <2>9. QED
    BY <2>8 DEF t
<1>5. QED
  BY <1>3, <1>4

(* An event that finds the channel full is missed. *)
LEMMA GaplessMiss ==
  ASSUME NEW s \in Seq(Nat), NEW m \in SUBSET Nat, NEW n \in Nat, Gapless(s, m, n), s # <<>>
  PROVE  Gapless(s, m \cup {n + 1}, n + 1)
<1>1. Len(s) \in Nat /\ Len(s) >= 1 /\ s[1] \in Nat
  BY EmptySeq, LenProperties, ElementOfSeq
<1>2. ToSet(s) \cup m = s[1]..n
  BY DEF Gapless
<1>3. s[1] <= n
  BY <1>1, <1>2 DEF ToSet
<1>4. ToSet(s) \cup (m \cup {n + 1}) = s[1]..(n + 1)
  BY <1>1, <1>2, <1>3
<1>5. QED
  BY <1>4 DEF Gapless

(* Moving the head of one sequence to the end of the one before it. *)
LEMMA HeadMoves ==
  ASSUME NEW S, NEW s \in Seq(S), NEW t \in Seq(S), t # <<>>
  PROVE  /\ Append(s, Head(t)) \in Seq(S) /\ Tail(t) \in Seq(S)
         /\ Append(s, Head(t)) \o Tail(t) = s \o t
<1>1. Head(t) \in S /\ Tail(t) \in Seq(S) /\ t = <<Head(t)>> \o Tail(t)
  BY HeadTailProperties, ConcatProperties
<1>2. Append(s, Head(t)) = s \o <<Head(t)>>
  BY <1>1, AppendIsConcat
<1>3. <<Head(t)>> \in Seq(S)
  BY <1>1
<1>4. (s \o <<Head(t)>>) \o Tail(t) = s \o (<<Head(t)>> \o Tail(t))
  BY <1>1, <1>3, ConcatAssociative
<1>5. Append(s, Head(t)) \in Seq(S)
  BY <1>1, AppendProperties
<1>6. QED
  BY <1>1, <1>2, <1>4, <1>5, Zenon

(* The ring itself has no gap. *)
LEMMA RingGapless ==
  ASSUME RingOK PROVE Gapless(ring, {}, seq)
<1> USE DEF RingOK
<1>1. Len(ring) \in Nat
  BY LenProperties
<1>2. ring = <<>> <=> Len(ring) = 0
  BY EmptySeq
<1>3. CASE ring # <<>>
  <2>1. Len(ring) >= 1
    BY <1>1, <1>2, <1>3
  <2>2. ring[1] = seq - Len(ring) + 1
    BY <1>1, <2>1
  <2>3. ToSet(ring) = ring[1]..seq
    <3>1. ASSUME NEW x \in ring[1]..seq PROVE x \in ToSet(ring)
      <4>1. x - (seq - Len(ring)) \in 1..Len(ring)
        BY <1>1, <2>1, <2>2
      <4>2. ring[x - (seq - Len(ring))] = x
        BY <1>1, <4>1, <2>2
      <4>3. QED
        BY <4>1, <4>2, <1>1, LenProperties DEF ToSet
    <3>2. ASSUME NEW x \in ToSet(ring) PROVE x \in ring[1]..seq
      <4>1. PICK i \in 1..Len(ring) : x = ring[i]
        BY LenProperties DEF ToSet
      <4>2. QED
        BY <1>1, <2>2, <4>1
    <3>3. QED
      BY <3>1, <3>2
  <2>4. \A i \in 1..(Len(ring) - 1) : ring[i] < ring[i + 1]
    <3> TAKE i \in 1..(Len(ring) - 1)
    <3>1. i \in 1..Len(ring) /\ i + 1 \in 1..Len(ring)
      BY <1>1
    <3>2. ring[i] = seq - Len(ring) + i /\ ring[i + 1] = seq - Len(ring) + (i + 1)
      BY <3>1
    <3>3. QED
      BY <1>1, <3>1, <3>2
  <2>5. QED
    BY <1>3, <2>3, <2>4 DEF Gapless
<1>4. CASE ring = <<>>
  BY <1>1, <1>2, <1>4 DEF Gapless
<1>5. QED
  BY <1>3, <1>4

(* The ring keeps the newest events. *)
LEMMA RingStep ==
  ASSUME TapAssumption, RingOK, Publish PROVE RingOK'
<1> DEFINE s == Append(ring, seq + 1)
<1> USE DEF RingOK
<1>1. /\ s \in Seq(Nat) /\ Len(s) = Len(ring) + 1 /\ Len(ring) \in Nat /\ s # <<>>
      /\ \A i \in 1..Len(ring) : s[i] = ring[i]
      /\ s[Len(ring) + 1] = seq + 1
  BY AppendProperties, LenProperties
<1>2. \A i \in 1..Len(s) : s[i] = (seq + 1) - Len(s) + i
  BY <1>1
<1>3. seq' = seq + 1 /\ ring' = Newest_(s, RingSize) /\ RingSize \in Nat /\ RingSize >= 1
  BY DEF Publish, TapAssumption
<1> HIDE DEF s
<1>4. CASE ~(Len(s) > RingSize)
  <2>1. ring' = s
    BY <1>3, <1>4 DEF Newest_
  <2>2. \A i \in 1..Len(ring') : ring'[i] = seq' - Len(ring') + i
    BY <1>2, <1>3, <2>1
  <2>3. Len(ring') <= seq' /\ seq' \in Nat
    BY <1>1, <1>3, <2>1
  <2>4. QED
    BY <1>1, <2>1, <2>2, <2>3
<1>5. CASE Len(s) > RingSize
  <2> DEFINE k == Len(s) - RingSize + 1
  <2>1. ring' = SubSeq(s, k, Len(s))
    BY <1>3, <1>5 DEF Newest_
  <2>0. Len(s) \in Nat /\ k \in Nat /\ k >= 1 /\ k <= Len(s) /\ Len(s) - k + 1 = RingSize
    BY <1>1, <1>3, <1>5
  <2> HIDE DEF k
  <2>2. /\ ring' \in Seq(Nat) /\ Len(ring') = RingSize
        /\ \A i \in 1..RingSize : ring'[i] = s[k + i - 1]
    <3>1. k \in 1..(Len(s) + 1) /\ Len(s) \in (k - 1)..Len(s)
      BY <2>0
    <3>2. /\ SubSeq(s, k, Len(s)) \in Seq(Nat) /\ Len(SubSeq(s, k, Len(s))) = Len(s) - k + 1
          /\ \A i \in 1..(Len(s) - k + 1) : SubSeq(s, k, Len(s))[i] = s[k + i - 1]
      BY <1>1, <3>1, SubSeqProperties
    <3>3. QED
      BY <2>0, <2>1, <3>2
  <2>3. \A i \in 1..RingSize : ring'[i] = seq' - RingSize + i
    <3> TAKE i \in 1..RingSize
    <3>1. k + i - 1 \in 1..Len(s)
      BY <1>3, <2>0
    <3>2. s[k + i - 1] = (seq + 1) - Len(s) + (k + i - 1)
      BY <1>2, <3>1
    <3>3. ring'[i] = s[k + i - 1]
      BY <2>2
    <3>4. k = Len(s) - RingSize + 1
      BY DEF k
    <3>5. QED
      BY <1>3, <2>0, <3>2, <3>3, <3>4
  <2>4. ring' # <<>>
    BY <1>3, <2>2, EmptySeq
  <2>5. QED
    BY <1>1, <1>3, <1>5, <2>2, <2>3, <2>4
<1>6. QED
  BY <1>4, <1>5

(* The ring holds the newest events, and each viewer sees on from one of them. *)
LEMMA TapInvariant == TapSpec => [](RingOK /\ ViewerOK /\ FollowOK)
<1> USE TapAssumption
<1>1. TapInit => RingOK /\ ViewerOK /\ FollowOK
  BY EmptySeq DEF TapInit, RingOK, ViewerOK, FollowOK
<1>2. RingOK /\ ViewerOK /\ FollowOK /\ [TapNext]_tapVars => (RingOK /\ ViewerOK /\ FollowOK)'
  <2> SUFFICES ASSUME RingOK, ViewerOK, FollowOK, [TapNext]_tapVars PROVE (RingOK /\ ViewerOK /\ FollowOK)'
    OBVIOUS
  <2>1. CASE Publish
    <3>1. RingOK'
      BY <2>1, RingStep
    <3>2. seq \in Nat /\ seq' = seq + 1 /\ subs' = subs /\ shown' = shown /\ replay' = replay
      BY <2>1 DEF Publish, RingOK
    <3>3. ASSUME NEW v \in Viewer
          PROVE  \/ v \notin subs /\ channel'[v] = channel[v] /\ missed'[v] = missed[v]
                 \/ /\ v \in subs /\ Len(channel[v]) = SubBuffer /\ channel'[v] = channel[v]
                    /\ missed'[v] = missed[v] \cup {seq + 1}
                 \/ /\ v \in subs /\ Len(channel[v]) + 1 <= SubBuffer
                    /\ channel'[v] = Append(channel[v], seq + 1) /\ missed'[v] = missed[v]
      <4>1. Len(channel[v]) \in Nat /\ Len(channel[v]) <= SubBuffer /\ SubBuffer \in Nat
        BY LenProperties DEF ViewerOK, TapAssumption
      <4>2. CASE v \in subs /\ Len(channel[v]) < SubBuffer
        BY <2>1, <4>1, <4>2 DEF Publish, ViewerOK
      <4>3. CASE v \in subs /\ Len(channel[v]) = SubBuffer
        BY <2>1, <4>1, <4>3 DEF Publish, ViewerOK
      <4>4. CASE v \notin subs
        BY <2>1, <4>4 DEF Publish, ViewerOK
      <4>5. QED
        BY <4>1, <4>2, <4>3, <4>4
    <3>4. ASSUME NEW v \in Viewer
          PROVE  /\ channel'[v] \in Seq(Nat) /\ Len(channel'[v]) <= SubBuffer /\ missed'[v] \in SUBSET Nat
                 /\ v \notin subs => channel'[v] = <<>> /\ missed'[v] = {}
      <4>1. /\ channel[v] \in Seq(Nat) /\ Len(channel[v]) <= SubBuffer /\ missed[v] \in SUBSET Nat
            /\ v \notin subs => channel[v] = <<>> /\ missed[v] = {}
        BY DEF ViewerOK
      <4>2. Append(channel[v], seq + 1) \in Seq(Nat) /\ Len(Append(channel[v], seq + 1)) = Len(channel[v]) + 1
        BY <3>2, <4>1, AppendProperties
      <4>3. CASE channel'[v] = channel[v] /\ missed'[v] = missed[v]
        BY <4>1, <4>3
      <4>4. CASE v \in subs /\ channel'[v] = channel[v] /\ missed'[v] = missed[v] \cup {seq + 1}
        BY <3>2, <4>1, <4>4
      <4>5. CASE /\ v \in subs /\ Len(channel[v]) + 1 <= SubBuffer
                 /\ channel'[v] = Append(channel[v], seq + 1) /\ missed'[v] = missed[v]
        BY <4>1, <4>2, <4>5
      <4>6. QED
        BY <3>3, <4>3, <4>4, <4>5
    <3>5. ViewerOK'
      <4>1. DOMAIN channel' = Viewer /\ DOMAIN missed' = Viewer /\ channel' = [v \in Viewer |-> channel'[v]]
            /\ missed' = [v \in Viewer |-> missed'[v]]
        BY <2>1 DEF Publish
      <4>2. channel' \in [Viewer -> Seq(Nat)] /\ missed' \in [Viewer -> SUBSET Nat]
        BY <3>4, <4>1
      <4>3. QED
        BY <3>2, <3>4, <4>2 DEF ViewerOK
    <3>6. ASSUME NEW v \in subs PROVE Gapless(Sees(v), missed[v], seq)'
      <4>1. /\ v \in Viewer /\ shown[v] \in Seq(Nat) /\ replay[v] \in Seq(Nat) /\ channel[v] \in Seq(Nat)
            /\ missed[v] \in SUBSET Nat
        BY DEF ViewerOK
      <4>2. shown[v] \o replay[v] \in Seq(Nat) /\ Sees(v) \in Seq(Nat)
        BY <4>1, ConcatProperties DEF Sees
      <4>3. Gapless(Sees(v), missed[v], seq)
        BY DEF FollowOK
      <4>4. CASE /\ Len(channel[v]) = SubBuffer /\ channel'[v] = channel[v]
                 /\ missed'[v] = missed[v] \cup {seq + 1}
        <5>1. Len(channel[v]) # 0
          BY <4>4 DEF TapAssumption
        <5>2. Sees(v) # <<>>
          <6>1. Len(Sees(v)) = Len(shown[v] \o replay[v]) + Len(channel[v])
            BY <4>1, <4>2, ConcatProperties DEF Sees
          <6>2. Len(shown[v] \o replay[v]) \in Nat /\ Len(channel[v]) \in Nat
            BY <4>1, <4>2, LenProperties
          <6>3. \A a, b \in Nat : b # 0 => a + b # 0
            OBVIOUS
          <6>5. Len(Sees(v)) # 0
            BY <5>1, <6>1, <6>2, <6>3, Zenon
          <6>4. QED
            BY <4>2, <6>5, EmptySeq
        <5>3. Gapless(Sees(v), missed[v] \cup {seq + 1}, seq + 1)
          BY <3>2, <4>1, <4>2, <4>3, <5>2, GaplessMiss
        <5>4. Sees(v)' = Sees(v)
          BY <3>2, <4>4 DEF Sees
        <5>5. QED
          BY <3>2, <4>4, <5>3, <5>4 DEF Gapless
      <4>5. CASE channel'[v] = Append(channel[v], seq + 1) /\ missed'[v] = missed[v]
        <5>1. Gapless(Append(Sees(v), seq + 1), missed[v], seq + 1)
          BY <3>2, <4>1, <4>2, <4>3, GaplessAppend
        <5>2. Append(Sees(v), seq + 1) = (shown[v] \o replay[v]) \o Append(channel[v], seq + 1)
          <6>1. PICK a \in Seq(Nat) : a = shown[v] \o replay[v]
            BY <4>2
          <6>2. PICK c \in Seq(Nat) : c = channel[v]
            BY <4>1
          <6>3. PICK x \in Nat : x = seq + 1
            BY <3>2
          <6>4. <<x>> \in Seq(Nat) /\ a \o c \in Seq(Nat)
            BY ConcatProperties
          <6>5. Append(a \o c, x) = (a \o c) \o <<x>> /\ Append(c, x) = c \o <<x>>
            BY <6>4, AppendIsConcat
          <6>6. (a \o c) \o <<x>> = a \o (c \o <<x>>)
            <7>1. a \in Seq(Nat) /\ c \in Seq(Nat)
              OBVIOUS
            <7> QED BY ONLY <6>4, <7>1, ConcatAssociative
          <6>7. Append(a \o c, x) = a \o Append(c, x)
            BY <6>5, <6>6, Zenon
          <6>8. QED
            BY <6>1, <6>2, <6>3, <6>7 DEF Sees
        <5>3. Sees(v)' = Append(Sees(v), seq + 1)
          BY <3>2, <4>5, <5>2 DEF Sees
        <5>4. QED
          BY <3>2, <4>5, <5>1, <5>3 DEF Gapless
      <4>6. QED
        BY <3>3, <4>1, <4>4, <4>5
    <3>7. QED
      BY <3>1, <3>2, <3>5, <3>6 DEF FollowOK
  <2>2. ASSUME NEW v \in Viewer, Subscribe(v) PROVE (RingOK /\ ViewerOK /\ FollowOK)'
    <3>1. /\ subs' = subs \cup {v} /\ v \notin subs /\ replay' = [replay EXCEPT ![v] = ring]
          /\ channel' = [channel EXCEPT ![v] = <<>>] /\ shown' = shown /\ missed' = missed
          /\ seq' = seq /\ ring' = ring
      BY <2>2 DEF Subscribe, Registered
    <3>2. RingOK'
      BY <3>1 DEF RingOK
    <3>3. ViewerOK'
      BY <3>1, EmptySeq DEF ViewerOK, RingOK, TapAssumption
    <3>4. ASSUME NEW u \in subs' PROVE Gapless(Sees(u), missed[u], seq)'
      <4>1. CASE u = v
        <5>1. shown'[v] = <<>> /\ replay'[v] = ring /\ channel'[v] = <<>> /\ missed'[v] = {}
          BY <3>1 DEF ViewerOK
        <5>2. Sees(v)' = ring
          BY <5>1, ConcatEmptySeq DEF Sees, RingOK
        <5>3. Gapless(ring, {}, seq)
          BY RingGapless
        <5>4. QED
          BY <3>1, <4>1, <5>1, <5>2, <5>3
      <4>2. CASE u # v
        <5>1. u \in subs /\ u \in Viewer /\ replay'[u] = replay[u] /\ channel'[u] = channel[u]
          BY <3>1, <4>2 DEF ViewerOK
        <5>2. Sees(u)' = Sees(u)
          BY <3>1, <5>1 DEF Sees
        <5>3. QED
          BY <3>1, <5>1, <5>2 DEF FollowOK
      <4>3. QED
        BY <4>1, <4>2
    <3>5. QED
      BY <3>2, <3>3, <3>4 DEF FollowOK
  <2>3. ASSUME NEW v \in Viewer, Replay(v) PROVE (RingOK /\ ViewerOK /\ FollowOK)'
    <3>1. /\ seq' = seq /\ ring' = ring /\ subs' = subs /\ channel' = channel /\ missed' = missed
          /\ replay[v] # <<>> /\ shown' = [shown EXCEPT ![v] = Append(@, Head(replay[v]))]
          /\ replay' = [replay EXCEPT ![v] = Tail(@)]
      BY <2>3 DEF Replay
    <3>2. /\ Append(shown[v], Head(replay[v])) \in Seq(Nat) /\ Tail(replay[v]) \in Seq(Nat)
          /\ Append(shown[v], Head(replay[v])) \o Tail(replay[v]) = shown[v] \o replay[v]
      <4>1. shown[v] \in Seq(Nat) /\ replay[v] \in Seq(Nat)
        BY DEF ViewerOK
      <4>2. QED
        BY <3>1, <4>1, HeadMoves
    <3>3. v \in subs
      BY <3>1 DEF ViewerOK
    <3>4. RingOK' /\ ViewerOK'
      BY <3>1, <3>2, <3>3 DEF RingOK, ViewerOK
    <3>5. ASSUME NEW u \in Viewer PROVE Sees(u)' = Sees(u)
      <4>1. CASE u = v
        BY <3>1, <3>2, <4>1 DEF Sees, ViewerOK
      <4>2. CASE u # v
        BY <3>1, <4>2 DEF Sees, ViewerOK
      <4>3. QED
        BY <4>1, <4>2
    <3>6. FollowOK'
      BY <3>1, <3>5 DEF FollowOK, ViewerOK
    <3>7. QED
      BY <3>4, <3>6
  <2>4. ASSUME NEW v \in Viewer, Follow(v) PROVE (RingOK /\ ViewerOK /\ FollowOK)'
    <3>1. /\ seq' = seq /\ ring' = ring /\ subs' = subs /\ replay' = replay /\ missed' = missed
          /\ v \in subs /\ replay[v] = <<>> /\ channel[v] # <<>>
          /\ shown' = [shown EXCEPT ![v] = Append(@, Head(channel[v]))]
          /\ channel' = [channel EXCEPT ![v] = Tail(@)]
      BY <2>4 DEF Follow
    <3>2. /\ Append(shown[v], Head(channel[v])) \in Seq(Nat) /\ Tail(channel[v]) \in Seq(Nat)
          /\ Append(shown[v], Head(channel[v])) \o Tail(channel[v]) = shown[v] \o channel[v]
      <4>1. shown[v] \in Seq(Nat) /\ channel[v] \in Seq(Nat)
        BY DEF ViewerOK
      <4>2. QED
        BY <3>1, <4>1, HeadMoves
    <3>3. Len(Tail(channel[v])) <= SubBuffer
      <4>1. Len(Tail(channel[v])) = Len(channel[v]) - 1 /\ Len(channel[v]) \in Nat /\ Len(channel[v]) <= SubBuffer
        BY <3>1, HeadTailProperties, LenProperties DEF ViewerOK
      <4>2. QED
        BY <4>1 DEF TapAssumption
    <3>4. RingOK' /\ ViewerOK'
      BY <3>1, <3>2, <3>3 DEF RingOK, ViewerOK
    <3>5. ASSUME NEW u \in Viewer PROVE Sees(u)' = Sees(u)
      <4>1. CASE u = v
        <5>1. shown[v] \o <<>> = shown[v] /\ shown'[v] \o <<>> = shown'[v]
          BY <3>1, <3>2, ConcatEmptySeq DEF ViewerOK
        <5>2. shown'[v] = Append(shown[v], Head(channel[v])) /\ channel'[v] = Tail(channel[v]) /\ replay'[v] = <<>>
          BY <3>1 DEF ViewerOK
        <5>3. QED
          BY <3>1, <3>2, <4>1, <5>1, <5>2 DEF Sees
      <4>2. CASE u # v
        BY <3>1, <4>2 DEF Sees, ViewerOK
      <4>3. QED
        BY <4>1, <4>2
    <3>6. FollowOK'
      BY <3>1, <3>5 DEF FollowOK, ViewerOK
    <3>7. QED
      BY <3>4, <3>6
  <2>5. ASSUME NEW v \in Viewer, Unsubscribe(v) PROVE (RingOK /\ ViewerOK /\ FollowOK)'
    <3>1. /\ seq' = seq /\ ring' = ring /\ subs' = subs \ {v} /\ shown' = [shown EXCEPT ![v] = <<>>]
          /\ channel' = [channel EXCEPT ![v] = <<>>] /\ replay' = [replay EXCEPT ![v] = <<>>]
          /\ missed' = [missed EXCEPT ![v] = {}]
      BY <2>5 DEF Unsubscribe
    <3>2. RingOK' /\ ViewerOK'
      BY <3>1, EmptySeq DEF RingOK, ViewerOK, TapAssumption
    <3>3. ASSUME NEW u \in subs' PROVE u \in subs /\ Sees(u)' = Sees(u) /\ missed'[u] = missed[u]
      BY <3>1 DEF Sees, ViewerOK
    <3>4. QED
      BY <3>1, <3>2, <3>3 DEF FollowOK
  <2>6. CASE UNCHANGED tapVars
    BY <2>6 DEF tapVars, RingOK, ViewerOK, FollowOK, Sees
  <2>7. QED
    BY <2>1, <2>2, <2>3, <2>4, <2>5, <2>6 DEF TapNext
<1>3. QED
  BY <1>1, <1>2, PTL DEF TapSpec

(* A viewer sees each event once and in order, and what it did not see found *)
(* its channel full (tap.go: Subscribe, publish).                            *)
THEOREM TapCorrect == TapSpec => []TapOnce
<1>1. FollowOK => TapOnce
  BY DEF FollowOK, TapOnce, Gapless, Sees
<1>2. QED
  BY TapInvariant, <1>1, PTL

-----------------------------------------------------------------------------
(* ValveNotify: what became of transitions and messages.                     *)

(* The fields of a target.                                                   *)
Counters == {"queue", "pending", "taken", "given", "sent", "failed", "dropped", "reported"}
TargetFields == Counters \cup {"rate", "times", "quit", "worker"}

(* What a target counts adds up, and drops are taken only to be reported.    *)
TargetCounted(t) ==
  /\ DOMAIN t = TargetFields /\ \A c \in Counters : t[c] \in Nat
  /\ t.worker \in {"waits", "reports", "sends", "ended"}
  /\ t.given = t.queue + WithWorker(t) + t.sent + t.failed + t.dropped
  /\ t.dropped = t.pending + t.taken + t.reported
  /\ t.taken > 0 => t.worker = "reports"
  /\ t.worker = "ended" => t.quit

(* A node still sends to this target.                                        *)
InUse(i) == \E n \in DOMAIN targetOf : targetOf[n] = i

(* The inductive invariant: what every target counts, that it is told to     *)
(* stop when its node is gone, and that nodes share none.                    *)
NotifyInv ==
  /\ Len(started) \in Nat /\ DOMAIN started = 1..Len(started)
  /\ started = [i \in DOMAIN started |-> started[i]]
  /\ \A i \in DOMAIN started : TargetCounted(started[i])
  /\ \A i \in DOMAIN started : started[i].quit = ~InUse(i)
  /\ DOMAIN targetOf \subseteq NotifyNode
  /\ \A n \in DOMAIN targetOf : targetOf[n] \in DOMAIN started
  /\ \A m, n \in DOMAIN targetOf : targetOf[m] = targetOf[n] => m = n

-----------------------------------------------------------------------------
(* A function on 1..n has length n. *)
LEMMA LenOfTuple == ASSUME NEW n \in Nat, NEW F, F = [i \in 1..n |-> F[i]] PROVE Len(F) = n
<1>1. F \in Seq({F[i] : i \in 1..n})
  <2>1. F \in [1..n -> {F[i] : i \in 1..n}]
    OBVIOUS
  <2> QED BY <2>1
<1>2. DOMAIN F = 1..n
  OBVIOUS
<1> QED BY <1>1, <1>2

(* SetToSeq lists every member of a finite set once. *)
LEMMA SetListed ==
  ASSUME NEW S, IsFiniteSet(S)
  PROVE  LET s == SetToSeq(S) IN
         /\ Len(s) \in Nat /\ DOMAIN s = 1..Len(s)
         /\ \A i \in DOMAIN s : s[i] \in S
         /\ \A x \in S : \E i \in DOMAIN s : s[i] = x
         /\ \A i, j \in DOMAIN s : s[i] = s[j] => i = j
<1> DEFINE n == Cardinality(S)
           s == SetToSeq(S)
<1>1. n \in Nat /\ ExistsBijection(1..n, S)
  BY FS_CardinalityType
<1>2. \E f \in [1..n -> S] : IsInjective(f)
  BY <1>1 DEF ExistsBijection, Bijection, Injection, IsInjective
<1>3. s \in [1..n -> S] /\ IsInjective(s)
  BY <1>2 DEF SetToSeq
<1>4. IsFiniteSet(1..n) /\ Cardinality(1..n) = n
  BY <1>1, FS_Interval
<1>5. s \in Injection(1..n, S)
  BY <1>3 DEF Injection, IsInjective
<1>6. s \in Surjection(1..n, S)
  BY <1>4, <1>5, FS_Injection
<1>7. Len(s) = n
  BY <1>1, <1>3, LenOfTuple
<1> HIDE DEF s, n
<1>8. DOMAIN s = 1..n /\ \A i \in DOMAIN s : s[i] \in S
  BY <1>3
<1>9. \A i, j \in DOMAIN s : s[i] = s[j] => i = j
  BY <1>3, <1>8 DEF IsInjective
<1>10. \A x \in S : \E i \in DOMAIN s : s[i] = x
  BY <1>6, <1>8 DEF Surjection
<1> QED BY <1>1, <1>7, <1>8, <1>9, <1>10 DEF s

-----------------------------------------------------------------------------
(* At the start there are no targets. *)
LEMMA NotifyStart == NotifyInit => NotifyInv
  BY DEF NotifyInit, NotifyInv

(* A step of one target keeps its counts and leaves the others alone. *)
LEMMA UpdateKeeps ==
  ASSUME NotifyInv, NEW i \in DOMAIN started, NEW t, Update(i, t),
         TargetCounted(started'[i]), started'[i].quit = started[i].quit,
         UNCHANGED targetOf
  PROVE  NotifyInv'
<1>1. /\ DOMAIN started' = DOMAIN started
      /\ \A j \in DOMAIN started \ {i} : started'[j] = started[j]
      /\ started' = [j \in DOMAIN started |-> started'[j]]
  BY DEF Update, NotifyInv
<1>2. Len(started') = Len(started)
  BY <1>1, LenOfTuple DEF NotifyInv
<1>3. \A j \in DOMAIN started' : TargetCounted(started'[j])
  BY <1>1 DEF NotifyInv
<1>4. \A j \in DOMAIN started' : started'[j].quit = started[j].quit
  BY <1>1
<1>5. \A j : InUse(j)' <=> InUse(j)
  BY DEF InUse
<1>6. \A j \in DOMAIN started' : started'[j].quit = ~InUse(j)'
  BY <1>1, <1>4, <1>5, Zenon DEF NotifyInv, InUse
<1>7. \A n \in DOMAIN targetOf : targetOf[n] \in DOMAIN started'
  BY <1>1 DEF NotifyInv
<1>8. Len(started') \in Nat /\ DOMAIN started' = 1..Len(started')
      /\ started' = [j \in DOMAIN started' |-> started'[j]]
  <2>1. Len(started) \in Nat /\ DOMAIN started = 1..Len(started)
    BY DEF NotifyInv
  <2>2. started' = [j \in DOMAIN started' |-> started'[j]]
    BY <1>1
  <2> QED BY <2>1, <2>2, <1>1, <1>2, Zenon
<1> QED BY <1>3, <1>6, <1>7, <1>8, Zenon DEF NotifyInv

(* A message that reaches a target is queued or dropped. *)
LEMMA HandleKeeps == ASSUME NotifyInv, NEW d, d.target \in DOMAIN started, Handle(d) PROVE NotifyInv'
<1> DEFINE i == d.target
           t == started[i]
<1>1. TargetCounted(t) /\ i \in DOMAIN started
  BY DEF NotifyInv
<1>2. targetOf' = targetOf
  BY DEF Handle
<1>3. ASSUME NEW times, Update(i, [times |-> times, given |-> t.given + 1, queue |-> t.queue + 1])
      PROVE  NotifyInv'
  <2>1. started'[i] = [f \in DOMAIN t |-> IF f = "times" THEN times ELSE IF f = "given" THEN t.given + 1
                        ELSE IF f = "queue" THEN t.queue + 1 ELSE t[f]]
    BY <1>1, <1>3 DEF Update
  <2>2. TargetCounted(started'[i]) /\ started'[i].quit = t.quit
    BY <1>1, <2>1 DEF TargetCounted, TargetFields, Counters, WithWorker
  <2> QED BY <2>2, <1>2, <1>3, UpdateKeeps
<1>4. ASSUME NEW times, Update(i, [times |-> times, given |-> t.given + 1, dropped |-> t.dropped + 1,
                                   pending |-> t.pending + 1])
      PROVE  NotifyInv'
  <2>1. started'[i] = [f \in DOMAIN t |-> IF f = "times" THEN times ELSE IF f = "given" THEN t.given + 1
                        ELSE IF f = "dropped" THEN t.dropped + 1
                        ELSE IF f = "pending" THEN t.pending + 1 ELSE t[f]]
    BY <1>1, <1>4 DEF Update
  <2>2. TargetCounted(started'[i]) /\ started'[i].quit = t.quit
    BY <1>1, <2>1 DEF TargetCounted, TargetFields, Counters, WithWorker
  <2> QED BY <2>2, <1>2, <1>4, UpdateKeeps
<1> QED BY <1>3, <1>4 DEF Handle

(* A worker that ends was told to. *)
LEMMA QuitKeeps == ASSUME NotifyInv, NEW i \in DOMAIN started, WorkerQuits(i) PROVE NotifyInv'
<1> DEFINE t == started[i]
<1>1. TargetCounted(t)
  BY DEF NotifyInv
<1>2. started'[i] = [f \in DOMAIN t |-> IF f = "worker" THEN "ended" ELSE t[f]]
  BY DEF WorkerQuits, Update
<1>3. DOMAIN t = TargetFields
  BY <1>1 DEF TargetCounted
<1>4. started'[i].worker = "ended" /\ DOMAIN started'[i] = TargetFields
      /\ \A c \in Counters : started'[i][c] = t[c]
  BY <1>2, <1>3 DEF TargetFields, Counters
<1>5. started'[i].quit = t.quit
  BY <1>2, <1>3 DEF TargetFields
<1>6. started'[i].quit
  BY <1>5, Zenon DEF WorkerQuits
<1>7. TargetCounted(started'[i])
  <2> HIDE <1>2
  <2> QED BY <1>1, <1>4, <1>6 DEF WorkerQuits, TargetCounted, Counters, WithWorker
<1> QED BY <1>5, <1>7, UpdateKeeps DEF WorkerQuits

(* A worker takes a message and the drops to report with it. *)
LEMMA MessageKeeps == ASSUME NotifyInv, NEW i \in DOMAIN started, TakeMessage(i) PROVE NotifyInv'
<1> DEFINE t == started[i]
<1>1. TargetCounted(t)
  BY DEF NotifyInv
<1>2. started'[i] = [f \in DOMAIN t |-> IF f = "worker" THEN "reports" ELSE IF f = "queue" THEN t.queue - 1
                      ELSE IF f = "taken" THEN t.pending ELSE IF f = "pending" THEN 0 ELSE t[f]]
  BY DEF TakeMessage, Update
<1>3. TargetCounted(started'[i]) /\ started'[i].quit = t.quit
  BY <1>1, <1>2 DEF TakeMessage, TargetCounted, TargetFields, Counters, WithWorker
<1> QED BY <1>3, UpdateKeeps DEF TakeMessage

(* Drops are reported once. *)
LEMMA ReportKeeps == ASSUME NotifyInv, NEW i \in DOMAIN started, ReportDrops(i) PROVE NotifyInv'
<1> DEFINE t == started[i]
<1>1. TargetCounted(t)
  BY DEF NotifyInv
<1>2. started'[i] = [f \in DOMAIN t |-> IF f = "worker" THEN "sends" ELSE IF f = "taken" THEN 0
                      ELSE IF f = "reported" THEN t.reported + t.taken ELSE t[f]]
  BY DEF ReportDrops, Update, ReportedDrops
<1>3. TargetCounted(started'[i]) /\ started'[i].quit = t.quit
  BY <1>1, <1>2 DEF ReportDrops, TargetCounted, TargetFields, Counters, WithWorker
<1> QED BY <1>3, UpdateKeeps DEF ReportDrops

(* A message is sent or fails. *)
LEMMA DeliverKeeps ==
  ASSUME NotifyInv, NEW i \in DOMAIN started, NEW ok \in BOOLEAN, Deliver(i, ok) PROVE NotifyInv'
<1> DEFINE t == started[i]
<1>1. TargetCounted(t)
  BY DEF NotifyInv
<1>2. started'[i] = [f \in DOMAIN t |-> IF f = "worker" THEN "waits"
                      ELSE IF f = "sent" THEN t.sent + IF ok THEN 1 ELSE 0
                      ELSE IF f = "failed" THEN t.failed + IF ok THEN 0 ELSE 1 ELSE t[f]]
  BY DEF Deliver, Update
<1>3. TargetCounted(started'[i]) /\ started'[i].quit = t.quit
  BY <1>1, <1>2 DEF Deliver, TargetCounted, TargetFields, Counters, WithWorker
<1> QED BY <1>3, UpdateKeeps DEF Deliver

(* A graph keeps the targets of the nodes that stay, tells those of the      *)
(* others to quit, and gives each new node a target of its own.              *)
LEMMA NodesKeep ==
  ASSUME NotifyInv, NEW nodes \in SUBSET NotifyNode, NEW g, DOMAIN g = nodes, SetNodes(g)
  PROVE  NotifyInv'
<1> DEFINE kept  == DOMAIN g \cap DOMAIN targetOf
           fresh == SetToSeq(DOMAIN g \ kept)
           n     == Len(started)
           slot(m) == CHOOSE i \in DOMAIN fresh : fresh[i] = m
<1>1. n \in Nat /\ DOMAIN started = 1..n
  BY DEF NotifyInv
<1>2. /\ Len(fresh) \in Nat /\ DOMAIN fresh = 1..Len(fresh)
      /\ \A i \in DOMAIN fresh : fresh[i] \in DOMAIN g \ kept
      /\ \A x \in DOMAIN g \ kept : \E i \in DOMAIN fresh : fresh[i] = x
      /\ \A i, j \in DOMAIN fresh : fresh[i] = fresh[j] => i = j
  <2>1. IsFiniteSet(DOMAIN g \ kept)
    BY NotifyAssumption, FS_Subset DEF NotifyAssumption
  <2> HIDE DEF kept
  <2> QED BY <2>1, SetListed
<1>3. \A m \in DOMAIN g \ kept : slot(m) \in DOMAIN fresh /\ fresh[slot(m)] = m
  BY <1>2
<1>4. DOMAIN targetOf' = DOMAIN g
      /\ \A m \in DOMAIN g : targetOf'[m] = IF m \in kept THEN targetOf[m] ELSE n + slot(m)
  BY DEF SetNodes
<1>5. /\ DOMAIN started' = 1..(n + Len(fresh))
      /\ started' = [t \in 1..(n + Len(fresh)) |-> started'[t]]
      /\ \A t \in 1..(n + Len(fresh)) : started'[t] =
                 IF t > n THEN NewTarget(g[fresh[t - n]])
                 ELSE IF \E m \in kept : targetOf[m] = t
                      THEN [started[t] EXCEPT !.rate = g[CHOOSE m \in kept : targetOf[m] = t]]
                 ELSE IF \E m \in DOMAIN targetOf : targetOf[m] = t
                      THEN [started[t] EXCEPT !.quit = TRUE]
                 ELSE started[t]
  BY DEF SetNodes
<1> HIDE DEF kept, fresh, slot
<1>6. Len(started') = n + Len(fresh)
  <2>1. n + Len(fresh) \in Nat
    BY <1>1, <1>2
  <2> QED BY <2>1, <1>5, LenOfTuple
<1>7. \A t \in DOMAIN started' : TargetCounted(started'[t])
  <2> SUFFICES ASSUME NEW t \in DOMAIN started' PROVE TargetCounted(started'[t])
    OBVIOUS
  <2>1. CASE t > n
    <3>1. started'[t] = NewTarget(g[fresh[t - n]])
      BY <2>1, <1>5
    <3> QED BY <3>1 DEF NewTarget, TargetCounted, TargetFields, Counters, WithWorker
  <2>2. CASE ~(t > n)
    <3>1. t \in DOMAIN started /\ TargetCounted(started[t])
      BY <2>2, <1>1, <1>2, <1>5 DEF NotifyInv
    <3>2. ASSUME NEW r PROVE TargetCounted([started[t] EXCEPT !.rate = r])
      BY <3>1 DEF TargetCounted, TargetFields, Counters, WithWorker
    <3>3. TargetCounted([started[t] EXCEPT !.quit = TRUE])
      BY <3>1 DEF TargetCounted, TargetFields, Counters, WithWorker
    <3>4. CASE \E m \in kept : targetOf[m] = t
      <4>1. started'[t] = [started[t] EXCEPT !.rate = g[CHOOSE m \in kept : targetOf[m] = t]]
        BY <2>2, <3>4, <1>5
      <4> QED BY <4>1, <3>2
    <3>5. CASE ~(\E m \in kept : targetOf[m] = t) /\ \E m \in DOMAIN targetOf : targetOf[m] = t
      BY <2>2, <3>3, <3>5, <1>5
    <3>6. CASE ~(\E m \in kept : targetOf[m] = t) /\ ~\E m \in DOMAIN targetOf : targetOf[m] = t
      BY <2>2, <3>1, <3>6, <1>5
    <3> QED BY <3>4, <3>5, <3>6
  <2> QED BY <2>1, <2>2
<1>8. \A m \in DOMAIN targetOf' : targetOf'[m] \in DOMAIN started'
  BY <1>1, <1>2, <1>3, <1>4, <1>5 DEF NotifyInv, kept
<1>9. \A l, m \in DOMAIN targetOf' : targetOf'[l] = targetOf'[m] => l = m
  <2> SUFFICES ASSUME NEW l \in DOMAIN g, NEW m \in DOMAIN g, targetOf'[l] = targetOf'[m] PROVE l = m
    BY <1>4
  <2>1. \A k \in kept : k \in DOMAIN targetOf /\ targetOf[k] \in 1..n
    BY <1>1 DEF NotifyInv, kept
  <2>2. \A k \in DOMAIN g \ kept : slot(k) \in Nat \ {0}
    BY <1>2, <1>3
  <2>3. CASE l \in kept /\ m \in kept
    BY <2>3, <2>1, <1>4 DEF NotifyInv
  <2>4. CASE l \notin kept /\ m \notin kept
    BY <2>4, <2>2, <1>1, <1>3, <1>4
  <2>5. CASE l \in kept /\ m \notin kept
    BY <2>5, <2>1, <2>2, <1>1, <1>4
  <2>6. CASE l \notin kept /\ m \in kept
    BY <2>6, <2>1, <2>2, <1>1, <1>4
  <2> QED BY <2>3, <2>4, <2>5, <2>6
<1>10. ASSUME NEW t \in DOMAIN started' PROVE started'[t].quit = ~InUse(t)'
  <2>1. CASE t > n
    <3>1. started'[t].quit = FALSE
      <4>1. started'[t] = NewTarget(g[fresh[t - n]])
        BY <2>1, <1>5
      <4> QED BY <4>1 DEF NewTarget
    <3>2. t - n \in DOMAIN fresh
      BY <2>1, <1>1, <1>2, <1>5
    <3>3. fresh[t - n] \in DOMAIN g \ kept /\ slot(fresh[t - n]) = t - n
      BY <3>2, <1>2, <1>3
    <3>4. targetOf'[fresh[t - n]] = t /\ fresh[t - n] \in DOMAIN targetOf'
      BY <3>3, <1>1, <1>4, <1>5, <2>1
    <3>5. InUse(t)'
      BY <3>4 DEF InUse
    <3> QED BY <3>1, <3>5
  <2>2. CASE ~(t > n)
    <3>1. t \in DOMAIN started /\ "quit" \in DOMAIN started[t] /\ (started[t].quit = ~InUse(t))
      BY <2>2, <1>1, <1>2, <1>5 DEF NotifyInv, TargetCounted, TargetFields
    <3>2. \A m \in DOMAIN g \ kept : targetOf'[m] # t
      <4>1. \A m \in DOMAIN g \ kept : slot(m) \in Nat \ {0}
        BY <1>2, <1>3
      <4> QED BY <4>1, <2>2, <3>1, <1>1, <1>4
    <3>3. CASE \E m \in kept : targetOf[m] = t
      <4>1. InUse(t) /\ InUse(t)'
        BY <3>3, <1>4 DEF InUse, kept
      <4>2. started'[t].quit = started[t].quit
        BY <2>2, <3>3, <1>5, <3>1
      <4> QED BY <4>1, <4>2, <3>1, Zenon
    <3>4. CASE (\A m \in kept : targetOf[m] # t) /\ \E m \in DOMAIN targetOf : targetOf[m] = t
      <4>1. ~InUse(t)'
        BY <3>4, <3>2, <1>4 DEF InUse
      <4>2. started'[t].quit = TRUE
        BY <2>2, <3>4, <1>5, <3>1
      <4> QED BY <4>1, <4>2
    <3>5. CASE \A m \in DOMAIN targetOf : targetOf[m] # t
      <4>1. ~InUse(t)'
        BY <3>5, <3>2, <1>4 DEF InUse, kept
      <4>2. ~InUse(t)
        BY <3>5 DEF InUse
      <4>3. started'[t] = started[t]
        BY <2>2, <3>5, <1>5 DEF kept
      <4> QED BY <4>1, <4>2, <4>3, <3>1, Zenon
    <3> QED BY <3>3, <3>4, <3>5 DEF kept
  <2> QED BY <2>1, <2>2
<1>11. Len(started') \in Nat /\ DOMAIN started' = 1..Len(started')
       /\ started' = [i \in DOMAIN started' |-> started'[i]]
  BY <1>1, <1>2, <1>5, <1>6
<1>12. DOMAIN targetOf' \subseteq NotifyNode
  BY <1>4
<1>13. \A i \in DOMAIN started' : started'[i].quit = ~InUse(i)'
  BY <1>10, Zenon
<1> QED BY <1>7, <1>8, <1>9, <1>11, <1>12, <1>13, Zenon DEF NotifyInv

-----------------------------------------------------------------------------
(* A datagram in flight names a target that was started. *)
InFlight == \A d \in datagram : d.target \in DOMAIN started

(* Targets are never removed, so a look-up stays good. *)
LEMMA StillStarted == NotifyInv /\ InFlight /\ [NotifyNext]_notifyVars => InFlight'
<1> SUFFICES ASSUME NotifyInv, InFlight, [NotifyNext]_notifyVars PROVE InFlight'
  OBVIOUS
<1>1. ASSUME NEW g, DOMAIN g \subseteq NotifyNode, SetNodes(g), datagram' = datagram PROVE InFlight'
  <2> DEFINE fresh == SetToSeq(DOMAIN g \ (DOMAIN g \cap DOMAIN targetOf))
  <2>1. IsFiniteSet(DOMAIN g \ (DOMAIN g \cap DOMAIN targetOf))
    BY <1>1, NotifyAssumption, FS_Subset DEF NotifyAssumption
  <2>2. Len(fresh) \in Nat
    BY <2>1, SetListed
  <2>3. DOMAIN started' = 1..(Len(started) + Len(fresh))
    BY <1>1 DEF SetNodes
  <2> HIDE DEF fresh
  <2>4. DOMAIN started \subseteq DOMAIN started'
    BY <2>2, <2>3 DEF NotifyInv
  <2> QED BY <2>4, <1>1 DEF InFlight
<1>2. CASE ApplyGraph
  BY <1>1, <1>2 DEF ApplyGraph
<1>3. CASE StopWorkers
  <2>1. DOMAIN <<>> \subseteq NotifyNode
    OBVIOUS
  <2> QED BY <2>1, <1>1, <1>3 DEF StopWorkers
<1>4. ASSUME NEW m \in NotifyNode, LookUp(m) PROVE InFlight'
  BY <1>4 DEF LookUp, NotifyInv, InFlight
<1>5. ASSUME NEW d \in datagram, Handle(d) PROVE InFlight'
  BY <1>5 DEF Handle, InFlight
<1>6. ASSUME NEW i, NEW t, Update(i, t), datagram' = datagram PROVE InFlight'
  BY <1>6 DEF Update, InFlight
<1>7. CASE NotifyTick \/ CloseSocket \/ UNCHANGED notifyVars
  BY <1>7 DEF NotifyTick, CloseSocket, notifyVars, InFlight
<1>8. ASSUME NEW i \in DOMAIN started, NEW ok \in BOOLEAN,
             WorkerQuits(i) \/ TakeMessage(i) \/ ReportDrops(i) \/ Deliver(i, ok)
      PROVE InFlight'
  BY <1>6, <1>8 DEF WorkerQuits, TakeMessage, ReportDrops, Deliver
<1> QED BY <1>2, <1>3, <1>4, <1>5, <1>7, <1>8 DEF NotifyNext

(* Every step of the dispatcher keeps the counts. *)
LEMMA NotifyStep == NotifyInv /\ InFlight /\ [NotifyNext]_notifyVars => NotifyInv'
<1> SUFFICES ASSUME NotifyInv, InFlight, [NotifyNext]_notifyVars PROVE NotifyInv'
  OBVIOUS
<1>1. CASE ApplyGraph
  <2>1. PICK nodes \in SUBSET NotifyNode : \E g \in [nodes -> Rate] : SetNodes(g)
    BY <1>1 DEF ApplyGraph
  <2>2. PICK g \in [nodes -> Rate] : SetNodes(g)
    BY <2>1
  <2> QED BY <2>2, NodesKeep
<1>2. CASE StopWorkers
  <2>1. {} \in SUBSET NotifyNode /\ DOMAIN <<>> = {}
    OBVIOUS
  <2> QED BY <2>1, <1>2, NodesKeep DEF StopWorkers
<1>3. CASE NotifyTick \/ CloseSocket \/ UNCHANGED notifyVars \/ \E m \in NotifyNode : LookUp(m)
  <2>1. targetOf' = targetOf /\ started' = started
    BY <1>3 DEF NotifyTick, CloseSocket, notifyVars, LookUp
  <2> QED BY <2>1, Zenon DEF NotifyInv, InUse
<1>4. ASSUME NEW d \in datagram, Handle(d) PROVE NotifyInv'
  BY <1>4, HandleKeeps DEF InFlight
<1> QED BY <1>1, <1>2, <1>3, <1>4, QuitKeeps, MessageKeeps, ReportKeeps, DeliverKeeps DEF NotifyNext

(* The invariant says that messages and drops are counted. *)
LEMMA NotifySafe == NotifyInv => NotifyCounted
<1> SUFFICES ASSUME NotifyInv PROVE NotifyCounted
  OBVIOUS
<1>1. ASSUME NEW i \in DOMAIN started
      PROVE  started[i].quit = (\A n \in DOMAIN targetOf : targetOf[n] # i)
  <2>1. (\A n \in DOMAIN targetOf : targetOf[n] # i) = ~InUse(i)
    BY DEF InUse
  <2> QED BY <2>1, Zenon DEF NotifyInv
<1> QED BY <1>1, Zenon DEF NotifyInv, TargetCounted, NotifyCounted

(* Messages that reach a target and drops are counted once, and the workers  *)
(* that run are those of the nodes of the last graph, however graphs,        *)
(* datagrams, workers and the shutdown interleave (notify.go: SetNodes,      *)
(* handle, worker, reportDropped).                                           *)
THEOREM MessagesCounted == NotifySpec => []NotifyCounted
<1>1. NotifyInit => InFlight
  BY DEF NotifyInit, InFlight
<1>2. NotifySpec => [](NotifyInv /\ InFlight)
  BY <1>1, NotifyStart, NotifyStep, StillStarted, PTL DEF NotifySpec
<1> QED BY <1>2, NotifySafe, PTL

-----------------------------------------------------------------------------
(* FlowGraph: an accepted graph compiles to what it shows.                   *)

(* What the proofs need of an accepted graph: ids and names tell its nodes    *)
(* apart, and its edges leave sources and filters.                           *)
Apart(g) ==
  /\ IsFiniteSet(Nodes(g))
  /\ \A n \in Nodes(g) : Ident[n.id] \in Seq(STRING)
  /\ \A m, n \in Nodes(g) : Ident[m.id] = Ident[n.id] => m = n
  /\ \A m, n \in Nodes(g) : Ident[m.id] \notin Derived(n)
  /\ \A e \in g.edges : validateEdge(g, e)

(* What Sanitize leaves of a graph is a graph.                               *)
LEMMA SanitizeKeeps ==
  ASSUME NEW g, IsGraph(g)
  PROVE  IsGraph(Sanitize(g))
<1> DEFINE s == [i \in DOMAIN g.nodes |-> [g.nodes[i] EXCEPT !.control = FALSE]]
<1>1. g.nodes \in Seq(NodeRecord)
  BY DEF IsGraph
<1>2. \A n \in NodeRecord : [n EXCEPT !.control = FALSE] \in NodeRecord
  BY DEF NodeRecord
<1>3. Len(g.nodes) \in Nat /\ DOMAIN g.nodes = 1..Len(g.nodes) /\ \A i \in DOMAIN g.nodes : g.nodes[i] \in NodeRecord
  BY <1>1
<1>4. \A i \in 1..Len(g.nodes) : [g.nodes[i] EXCEPT !.control = FALSE] \in NodeRecord
  BY <1>2, <1>3
<1>5. s \in Seq(NodeRecord)
  BY <1>3, <1>4, IsASeq
<1> QED BY <1>5 DEF Sanitize, IsGraph

(* Validate tells the nodes apart.                                           *)
LEMMA ApartOf ==
  ASSUME NEW g, IsGraph(g), Validate_(g)
  PROVE  Apart(g)
<1>1. /\ Len(g.nodes) \in Nat /\ DOMAIN g.nodes = 1..Len(g.nodes)
      /\ \A i \in DOMAIN g.nodes : g.nodes[i] \in NodeRecord
  BY DEF IsGraph
<1>2. \A n \in Nodes(g) : \E i \in DOMAIN g.nodes : n = g.nodes[i]
  BY DEF Nodes, ToSet
<1>3. IsFiniteSet(Nodes(g))
  <2> DEFINE f == [i \in 1..Len(g.nodes) |-> g.nodes[i]]
  <2>1. IsFiniteSet(1..Len(g.nodes))
    BY <1>1, FS_Interval
  <2>2. f \in Surjection(1..Len(g.nodes), Nodes(g))
    BY <1>1 DEF Nodes, ToSet, Surjection
  <2> QED BY <2>1, <2>2, FS_Surjection
<1>4. \A n \in Nodes(g) : Ident[n.id] \in Seq(STRING)
  BY <1>1, <1>2, FlowAssumption DEF NodeRecord
<1>5. \A i, j \in DOMAIN g.nodes : i # j => Ident[g.nodes[i].id] # Ident[g.nodes[j].id]
  BY DEF Validate_, checkIdents
<1>6. \A m, n \in Nodes(g) : Ident[m.id] = Ident[n.id] => m = n
  BY <1>2, <1>5
<1> QED BY <1>3, <1>4, <1>6 DEF Apart, Validate_, checkIdents

(* An id finds its node.                                                     *)
LEMMA NodeFound ==
  ASSUME NEW g, Apart(g), NEW n \in Nodes(g)
  PROVE  NodeOf(Nodes(g), n.id) = n
BY DEF Apart, NodeOf

(* The nodes and edges that are on are nodes and edges.                      *)
LEMMA EnabledOf ==
  ASSUME NEW g
  PROVE  /\ \A n : n \in Enabled(g).nodes <=> n \in Nodes(g) /\ ~n.disabled
         /\ \A e : e \in Enabled(g).edges <=>
              e \in g.edges /\ {e.from, e.to} \subseteq Ids(Enabled(g).nodes)
BY DEF Enabled

(* Where an edge that is on leaves from and leads to.                        *)
LEMMA EdgeEnds ==
  ASSUME NEW g, Apart(g), NEW e \in Enabled(g).edges
  PROVE  /\ \E n \in OfType(Enabled(g).nodes, {"source", "filter"}) :
              /\ n.id = e.from /\ NodeOf(Nodes(g), e.from) = n
              /\ n.type = "source" => e.port = ""
         /\ \E n \in OfType(Enabled(g).nodes, Sinks \cup {"filter"}) :
              n.id = e.to /\ NodeOf(Nodes(g), e.to) = n
<1>1. e \in g.edges /\ {e.from, e.to} \subseteq Ids(Enabled(g).nodes)
  BY EnabledOf
<1>2. PICK m \in Enabled(g).nodes : m.id = e.from
  BY <1>1 DEF Ids
<1>3. PICK n \in Enabled(g).nodes : n.id = e.to
  BY <1>1 DEF Ids
<1>4. NodeOf(Nodes(g), e.from) = m /\ NodeOf(Nodes(g), e.to) = n
  BY <1>2, <1>3, EnabledOf, NodeFound
<1>5. validateEdge(g, e)
  BY <1>1 DEF Apart
<1> QED BY <1>2, <1>3, <1>4, <1>5 DEF validateEdge, OfType

(* The same, without the ports.                                              *)
LEMMA EdgeNodes ==
  ASSUME NEW g, Apart(g), NEW e \in Enabled(g).edges
  PROVE  /\ \E n \in OfType(Enabled(g).nodes, {"source", "filter"}) :
              n.id = e.from /\ NodeOf(Nodes(g), e.from) = n
         /\ \E n \in OfType(Enabled(g).nodes, Sinks \cup {"filter"}) :
              n.id = e.to /\ NodeOf(Nodes(g), e.to) = n
BY EdgeEnds

(* Derived names have something in front or behind, and keep names apart.    *)
LEMMA NamesApart ==
  ASSUME NEW a \in Seq(STRING), NEW b \in Seq(STRING)
  PROVE  /\ <<"tap">> \o a = <<"tap">> \o b => a = b
         /\ a \o <<"else">> = b \o <<"else">> => a = b
<1> DEFINE P == STRING \cup {"tap", "else"}
<1>1. a \in Seq(P) /\ b \in Seq(P) /\ <<"tap">> \in Seq(P) /\ <<"else">> \in Seq(P)
  OBVIOUS
<1> HIDE DEF P
<1> QED BY <1>1, ConcatSimplifications

(* The derived names of nodes that are of their type.                        *)
LEMMA NotDerived ==
  ASSUME NEW g, Apart(g), NEW m \in Nodes(g), NEW n \in Nodes(g)
  PROVE  /\ n.type = "source" => Ident[m.id] # <<"tap">> \o Ident[n.id]
         /\ n.type = "filter" => Ident[m.id] # Ident[n.id] \o <<"else">>
<1>1. Ident[m.id] \notin Derived(n)
  BY DEF Apart
<1> QED BY <1>1 DEF Derived

(* What a statement is the statement of.                                     *)
Says(s, kind, name, n) ==
  /\ s.kind = kind /\ s.name = name /\ s.of = n.id
  /\ s = [kind |-> kind, name |-> name, of |-> n.id]

(* A statement is the source, destination, tap or filter of an enabled node. *)
LEMMA StatementOf ==
  ASSUME NEW g, NEW s \in Statements(Enabled(g))
  PROVE  \E n \in Enabled(g).nodes :
           \/ n.type = "source" /\ Says(s, "source", Ident[n.id], n)
           \/ n.type \in Sinks /\ Says(s, "destination", Ident[n.id], n)
           \/ n.type = "source" /\ Says(s, "destination", <<"tap">> \o Ident[n.id], n)
           \/ n.type = "filter" /\ Says(s, "filter", Ident[n.id], n)
           \/ n.type = "filter" /\ Says(s, "filter", Ident[n.id] \o <<"else">>, n)
<1> DEFINE S == Enabled(g).nodes
           R(kind, name, id) == [kind |-> kind, name |-> name, of |-> id]
<1>1. \/ s \in {R("source", Ident[n.id], n.id) : n \in OfType(S, {"source"})}
      \/ s \in {R("destination", Ident[n.id], n.id) : n \in OfType(S, Sinks)}
      \/ s \in {R("destination", <<"tap">> \o Ident[n.id], n.id) : n \in OfType(S, {"source"})}
      \/ s \in {R("filter", Ident[n.id], n.id) : n \in OfType(S, {"filter"})}
      \/ s \in {R("filter", Ident[id] \o <<"else">>, id) :
                  id \in elseBranches(Enabled(g)) \cap Ids(OfType(S, {"filter"}))}
  BY DEF Statements
<1>2. \A kind, name, n : s = R(kind, name, n.id) => Says(s, kind, name, n)
  BY DEF Says
<1>3. \A n, types : n \in OfType(S, types) <=> n \in S /\ n.type \in types
  BY DEF OfType
<1>4. \A id \in Ids(OfType(S, {"filter"})) : \E n \in S : n.type = "filter" /\ id = n.id
  BY DEF Ids, OfType
<1> HIDE DEF R, S
<1>5. \/ \E n \in S : n.type = "source" /\ s = R("source", Ident[n.id], n.id)
      \/ \E n \in S : n.type \in Sinks /\ s = R("destination", Ident[n.id], n.id)
      \/ \E n \in S : n.type = "source" /\ s = R("destination", <<"tap">> \o Ident[n.id], n.id)
      \/ \E n \in S : n.type = "filter" /\ s = R("filter", Ident[n.id], n.id)
      \/ \E n \in S : n.type = "filter" /\ s = R("filter", Ident[n.id] \o <<"else">>, n.id)
  BY <1>1, <1>3, <1>4
<1> QED BY <1>2, <1>5 DEF S

(* No name is given twice.                                                   *)
LEMMA StatementsApart ==
  ASSUME NEW g, Apart(g), NEW s \in Statements(Enabled(g)), NEW t \in Statements(Enabled(g)),
         s.kind = t.kind, s.name = t.name
  PROVE  s = t
<1>0. s.kind = t.kind /\ s.name = t.name
  OBVIOUS
<1>1. PICK m \in Enabled(g).nodes :
           \/ m.type = "source" /\ Says(s, "source", Ident[m.id], m)
           \/ m.type \in Sinks /\ Says(s, "destination", Ident[m.id], m)
           \/ m.type = "source" /\ Says(s, "destination", <<"tap">> \o Ident[m.id], m)
           \/ m.type = "filter" /\ Says(s, "filter", Ident[m.id], m)
           \/ m.type = "filter" /\ Says(s, "filter", Ident[m.id] \o <<"else">>, m)
  BY StatementOf
<1>2. PICK n \in Enabled(g).nodes :
           \/ n.type = "source" /\ Says(t, "source", Ident[n.id], n)
           \/ n.type \in Sinks /\ Says(t, "destination", Ident[n.id], n)
           \/ n.type = "source" /\ Says(t, "destination", <<"tap">> \o Ident[n.id], n)
           \/ n.type = "filter" /\ Says(t, "filter", Ident[n.id], n)
           \/ n.type = "filter" /\ Says(t, "filter", Ident[n.id] \o <<"else">>, n)
  BY StatementOf
<1>3. m \in Nodes(g) /\ n \in Nodes(g)
  BY EnabledOf
<1>4. /\ Ident[m.id] \in Seq(STRING) /\ Ident[n.id] \in Seq(STRING)
      /\ Ident[m.id] = Ident[n.id] => m = n
  BY <1>3 DEF Apart
<1>5. /\ <<"tap">> \o Ident[m.id] = <<"tap">> \o Ident[n.id] => m = n
      /\ Ident[m.id] \o <<"else">> = Ident[n.id] \o <<"else">> => m = n
  BY <1>4, NamesApart
<1>6. /\ m.type = "source" => Ident[n.id] # <<"tap">> \o Ident[m.id]
      /\ m.type = "filter" => Ident[n.id] # Ident[m.id] \o <<"else">>
      /\ n.type = "source" => Ident[m.id] # <<"tap">> \o Ident[n.id]
      /\ n.type = "filter" => Ident[m.id] # Ident[n.id] \o <<"else">>
  BY <1>3, NotDerived
<1>7. CASE s.kind = "source"
  BY <1>0, <1>1, <1>2, <1>4, <1>7 DEF Says
<1>8. CASE s.kind = "destination"
  <2> DEFINE tap(x) == <<"tap">> \o Ident[x]
  <2>1. \/ m.type \in Sinks /\ Says(s, "destination", Ident[m.id], m)
        \/ m.type = "source" /\ Says(s, "destination", tap(m.id), m)
    BY <1>1, <1>8 DEF Says
  <2>2. \/ n.type \in Sinks /\ Says(t, "destination", Ident[n.id], n)
        \/ n.type = "source" /\ Says(t, "destination", tap(n.id), n)
    BY <1>0, <1>2, <1>8 DEF Says
  <2>3. /\ tap(m.id) = tap(n.id) => m = n
        /\ m.type = "source" => Ident[n.id] # tap(m.id)
        /\ n.type = "source" => Ident[m.id] # tap(n.id)
    BY <1>5, <1>6
  <2> HIDE DEF tap
  <2> QED BY <1>0, <1>4, <2>1, <2>2, <2>3 DEF Says
<1>9. CASE s.kind = "filter"
  <2> DEFINE else(x) == Ident[x] \o <<"else">>
  <2>1. m.type = "filter" /\ (Says(s, "filter", Ident[m.id], m) \/ Says(s, "filter", else(m.id), m))
    BY <1>1, <1>9 DEF Says
  <2>2. n.type = "filter" /\ (Says(t, "filter", Ident[n.id], n) \/ Says(t, "filter", else(n.id), n))
    BY <1>0, <1>2, <1>9 DEF Says
  <2>3. /\ else(m.id) = else(n.id) => m = n
        /\ m.type = "filter" => Ident[n.id] # else(m.id)
        /\ n.type = "filter" => Ident[m.id] # else(n.id)
    BY <1>5, <1>6
  <2> HIDE DEF else
  <2> QED BY <1>0, <1>4, <2>1, <2>2, <2>3 DEF Says
<1> QED BY <1>1, <1>7, <1>8, <1>9 DEF Says

(* A flow path: a way along edges that are on, from a source through filters *)
(* to a sink.                                                                *)
Way(g, w) ==
  /\ \E n \in Nat : n >= 1 /\ w \in [1..n -> Enabled(g).edges] /\ Len(w) = n
  /\ \E n \in OfType(Enabled(g).nodes, {"source"}) : n.id = w[1].from
  /\ \A k \in 1..(Len(w) - 1) : /\ w[k].to = w[k + 1].from
                                /\ w[k].to \in Ids(OfType(Enabled(g).nodes, {"filter"}))
  /\ \E n \in OfType(Enabled(g).nodes, Sinks) : n.id = w[Len(w)].to

(* Only what a sequence is, not how it is written.                           *)
LEMMA WalkWay ==
  ASSUME NEW g, Apart(g), NEW n \in OfType(Enabled(g).nodes, {"source"}),
         NEW w \in walk(Enabled(g), n.id)
  PROVE  Way(g, w) /\ w[1].from = n.id
<1> DEFINE F == OfType(Enabled(g).nodes, {"filter"})
<1>1. /\ w[1].from = n.id
      /\ \A k \in 1..(Len(w) - 1) : w[k].to = w[k + 1].from /\ w[k].to \in Ids(F)
      /\ w[Len(w)].to \notin Ids(F)
  BY DEF walk, Last
<1>2. PICK l \in 1..(Cardinality(F) + 1) : w \in [1..l -> Enabled(g).edges]
  BY DEF walk
<1>3. IsFiniteSet(F)
  <2>1. F \subseteq Nodes(g)
    BY EnabledOf DEF OfType
  <2> QED BY <2>1, FS_Subset DEF Apart
<1>4. l \in Nat /\ l >= 1
  BY <1>3, FS_CardinalityType
<1>5. Len(w) = l
  BY <1>2, <1>4
<1>6. w[l] \in Enabled(g).edges
  BY <1>2, <1>4
<1>7. PICK m \in OfType(Enabled(g).nodes, Sinks \cup {"filter"}) : m.id = w[l].to
  BY <1>6, EdgeEnds
<1>8. m \in OfType(Enabled(g).nodes, Sinks)
  BY <1>1, <1>5, <1>7 DEF OfType, Ids
<1> QED BY <1>1, <1>2, <1>4, <1>5, <1>7, <1>8 DEF Way

(* The filter an edge that leaves one asks for.                              *)
StepName(e) == Ident[e.from] \o IF e.port = "else" THEN <<"else">> ELSE <<>>

(* The log path of a way, and the tap's.                                     *)
Path(n, w) == [source |-> n.id, way |-> w, sink |-> Last(w).to,
               steps |-> [k \in 1..(Len(w) - 1) |-> Step(w[k + 1])]]
IsPathLog(l, n, w) ==
  /\ l.source = Ident[n.id] /\ l.destination = Ident[w[Len(w)].to]
  /\ l.filters = [k \in 1..(Len(w) - 1) |-> StepName(w[k + 1])]
IsTapLog(l, n) ==
  l.source = Ident[n.id] /\ l.destination = <<"tap">> \o Ident[n.id] /\ l.filters = <<>>

(* The log path that a way is compiled to names the way's nodes.             *)
LEMMA PathLogs ==
  ASSUME NEW n, NEW w
  PROVE  IsPathLog(LogPath(Path(n, w)), n, w)
<1> DEFINE p == Path(n, w)
<1>1. /\ p.source = n.id /\ p.way = w /\ p.sink = w[Len(w)].to
      /\ p.steps = [k \in 1..(Len(w) - 1) |-> Step(w[k + 1])]
  BY DEF Path, Last
<1>2. /\ DOMAIN p.steps = 1..(Len(w) - 1)
      /\ \A k \in 1..(Len(w) - 1) : p.steps[k].filter = w[k + 1].from /\ p.steps[k].negated = (w[k + 1].port = "else")
  BY <1>1 DEF Step
<1> HIDE DEF p
<1>3. /\ LogPath(p).source = Ident[p.source] /\ LogPath(p).destination = Ident[p.sink]
      /\ LogPath(p).filters = [k \in DOMAIN p.steps |->
            Ident[p.steps[k].filter] \o IF p.steps[k].negated THEN <<"else">> ELSE <<>>]
  BY DEF LogPath
<1>4. LogPath(p).filters = [k \in 1..(Len(w) - 1) |-> StepName(w[k + 1])]
  BY <1>2, <1>3 DEF StepName
<1> QED BY <1>1, <1>3, <1>4 DEF p, IsPathLog

(* The log paths of a configuration are those of its ways and its taps.      *)
LEMMA LogIs ==
  ASSUME NEW g, NEW l \in Generate(g).logs
  PROVE  \E n \in OfType(Enabled(g).nodes, {"source"}) :
           IsTapLog(l, n) \/ \E w \in walk(Enabled(g), n.id) : IsPathLog(l, n, w)
<1> DEFINE S == OfType(Enabled(g).nodes, {"source"})
           Tap(n) == [source |-> Ident[n.id], way |-> <<>>, filters |-> <<>>,
                      destination |-> <<"tap">> \o Ident[n.id]]
<1>1. \/ \E p \in flowPaths(Enabled(g)) : l = LogPath(p)
      \/ \E n \in S : l = Tap(n)
  BY DEF Generate
<1>2. ASSUME NEW p \in flowPaths(Enabled(g)), l = LogPath(p)
      PROVE  \E n \in S : \E w \in walk(Enabled(g), n.id) : IsPathLog(l, n, w)
  <2>1. PICK n \in S : p \in {Path(n, w) : w \in walk(Enabled(g), n.id)}
    BY <1>2 DEF flowPaths, Path
  <2>2. PICK w \in walk(Enabled(g), n.id) : p = Path(n, w)
    BY <2>1
  <2> QED BY <1>2, <2>2, PathLogs
<1>3. \A n : l = Tap(n) => IsTapLog(l, n)
  BY DEF IsTapLog
<1> QED BY <1>1, <1>2, <1>3

(* A source is compiled to a log path for its tap, and one for each way.     *)
LEMMA LogsOf ==
  ASSUME NEW g, NEW n \in OfType(Enabled(g).nodes, {"source"})
  PROVE  /\ \E l \in Generate(g).logs : IsTapLog(l, n)
         /\ \A w \in walk(Enabled(g), n.id) : \E l \in Generate(g).logs : IsPathLog(l, n, w)
<1> DEFINE S == OfType(Enabled(g).nodes, {"source"})
           Tap(m) == [source |-> Ident[m.id], way |-> <<>>, filters |-> <<>>,
                      destination |-> <<"tap">> \o Ident[m.id]]
<1>1. Generate(g).logs = {LogPath(p) : p \in flowPaths(Enabled(g))} \cup {Tap(m) : m \in S}
  BY DEF Generate
<1>2. Tap(n) \in Generate(g).logs /\ IsTapLog(Tap(n), n)
  BY <1>1 DEF IsTapLog
<1>3. ASSUME NEW w \in walk(Enabled(g), n.id)
      PROVE  \E l \in Generate(g).logs : IsPathLog(l, n, w)
  <2>0. flowPaths(Enabled(g)) = UNION {{Path(m, v) : v \in walk(Enabled(g), m.id)} : m \in S}
    BY DEF flowPaths, Path
  <2>1. Path(n, w) \in flowPaths(Enabled(g))
    BY <2>0
  <2>2. LogPath(Path(n, w)) \in Generate(g).logs
    BY <1>1, <2>1
  <2> QED BY <2>2, PathLogs
<1> QED BY <1>2, <1>3

(* The nodes that are on have their statements.                              *)
LEMMA HasStatements ==
  ASSUME NEW g, NEW n \in Enabled(g).nodes
  PROVE  /\ n.type = "source" =>
              /\ [kind |-> "source", name |-> Ident[n.id], of |-> n.id] \in Statements(Enabled(g))
              /\ [kind |-> "destination", name |-> <<"tap">> \o Ident[n.id], of |-> n.id]
                    \in Statements(Enabled(g))
         /\ n.type \in Sinks =>
              [kind |-> "destination", name |-> Ident[n.id], of |-> n.id] \in Statements(Enabled(g))
         /\ n.type = "filter" =>
              /\ [kind |-> "filter", name |-> Ident[n.id], of |-> n.id] \in Statements(Enabled(g))
              /\ n.id \in elseBranches(Enabled(g)) =>
                   [kind |-> "filter", name |-> Ident[n.id] \o <<"else">>, of |-> n.id]
                     \in Statements(Enabled(g))
BY DEF Statements, OfType, Ids

(* Names that a configuration gives, by kind.                                *)
Named(c, kind) == {s.name : s \in {t \in c.statements : t.kind = kind}}

(* A statement is in the configuration under its name.                       *)
LEMMA NameGiven ==
  ASSUME NEW g, NEW kind, NEW name, NEW id,
         [kind |-> kind, name |-> name, of |-> id] \in Statements(Enabled(g))
  PROVE  name \in Named(Generate(g), kind)
<1> DEFINE s == [kind |-> kind, name |-> name, of |-> id]
<1>1. s \in Generate(g).statements
  BY DEF Generate
<1>2. s.kind = kind /\ s.name = name
  OBVIOUS
<1> HIDE DEF s
<1> QED BY <1>1, <1>2 DEF Named

(* An edge that is on and leaves a filter asks for a filter that is stated.  *)
LEMMA StepStated ==
  ASSUME NEW g, Apart(g), NEW e \in Enabled(g).edges,
         NEW n \in OfType(Enabled(g).nodes, {"filter"}), n.id = e.from
  PROVE  StepName(e) \in Named(Generate(g), "filter")
<1>1. n \in Enabled(g).nodes /\ n.type = "filter"
  BY DEF OfType
<1>2. n \in Nodes(g) /\ Ident[n.id] \in Seq(STRING)
  BY <1>1, EnabledOf DEF Apart
<1>3. CASE e.port = "else"
  <2>1. n.id \in elseBranches(Enabled(g))
    BY <1>3 DEF elseBranches
  <2>2. [kind |-> "filter", name |-> Ident[n.id] \o <<"else">>, of |-> n.id] \in Statements(Enabled(g))
    BY <1>1, <2>1, HasStatements
  <2>3. Ident[n.id] \o <<"else">> \in Named(Generate(g), "filter")
    BY <2>2, NameGiven
  <2> QED BY <1>3, <2>3 DEF StepName
<1>4. CASE e.port # "else"
  <2>1. [kind |-> "filter", name |-> Ident[n.id], of |-> n.id] \in Statements(Enabled(g))
    BY <1>1, HasStatements
  <2>2. Ident[n.id] \in Named(Generate(g), "filter")
    BY <2>1, NameGiven
  <2>3. Ident[n.id] \o <<>> = Ident[n.id]
    BY <1>2, ConcatEmptySeq
  <2> QED BY <1>4, <2>2, <2>3 DEF StepName
<1> QED BY <1>3, <1>4

(* The edges of a way after its first leave filters.                         *)
LEMMA WayFilters ==
  ASSUME NEW g, NEW w, Way(g, w), NEW k \in 1..(Len(w) - 1)
  PROVE  /\ w[k + 1] \in Enabled(g).edges
         /\ \E n \in OfType(Enabled(g).nodes, {"filter"}) : n.id = w[k + 1].from
<1>1. PICK l \in Nat : l >= 1 /\ w \in [1..l -> Enabled(g).edges] /\ Len(w) = l
  BY DEF Way
<1>2. k + 1 \in 1..l
  BY <1>1
<1>3. w[k].to = w[k + 1].from /\ w[k].to \in Ids(OfType(Enabled(g).nodes, {"filter"}))
  BY DEF Way
<1> QED BY <1>1, <1>2, <1>3 DEF Ids

(* What a log path names is stated.                                          *)
LEMMA LogsStated ==
  ASSUME NEW g, Apart(g), NEW l \in Generate(g).logs
  PROVE  /\ l.source \in Named(Generate(g), "source")
         /\ l.destination \in Named(Generate(g), "destination")
         /\ ToSet(l.filters) \subseteq Named(Generate(g), "filter")
<1> DEFINE c == Generate(g)
<1>1. PICK n \in OfType(Enabled(g).nodes, {"source"}) :
        IsTapLog(l, n) \/ \E w \in walk(Enabled(g), n.id) : IsPathLog(l, n, w)
  BY LogIs
<1>2. n \in Enabled(g).nodes /\ n.type = "source"
  BY DEF OfType
<1>3. /\ [kind |-> "source", name |-> Ident[n.id], of |-> n.id] \in Statements(Enabled(g))
      /\ [kind |-> "destination", name |-> <<"tap">> \o Ident[n.id], of |-> n.id] \in Statements(Enabled(g))
  BY <1>2, HasStatements
<1>4. Ident[n.id] \in Named(c, "source")
  BY <1>3, NameGiven
<1>5. <<"tap">> \o Ident[n.id] \in Named(c, "destination")
  BY <1>3, NameGiven
<1> HIDE DEF c
<1>6. CASE IsTapLog(l, n)
  <2>1. ToSet(l.filters) = {}
    BY <1>6 DEF IsTapLog, ToSet
  <2> QED BY <1>4, <1>5, <1>6, <2>1 DEF IsTapLog, c
<1>7. ASSUME NEW w \in walk(Enabled(g), n.id), IsPathLog(l, n, w)
      PROVE  l.destination \in Named(c, "destination") /\ ToSet(l.filters) \subseteq Named(c, "filter")
  <2>1. Way(g, w)
    BY WalkWay
  <2>2. PICK m \in OfType(Enabled(g).nodes, Sinks) : m.id = w[Len(w)].to
    BY <2>1 DEF Way
  <2>3. [kind |-> "destination", name |-> Ident[m.id], of |-> m.id] \in Statements(Enabled(g))
    BY HasStatements DEF OfType
  <2>4. Ident[m.id] \in Named(c, "destination")
    BY <2>3, NameGiven DEF c
  <2>5. ASSUME NEW k \in 1..(Len(w) - 1)
        PROVE  StepName(w[k + 1]) \in Named(c, "filter")
    BY <2>1, WayFilters, StepStated DEF c
  <2>6. ToSet(l.filters) \subseteq Named(c, "filter")
    BY <1>7, <2>5 DEF IsPathLog, ToSet
  <2> QED BY <1>7, <2>2, <2>4, <2>6 DEF IsPathLog
<1> QED BY <1>1, <1>4, <1>6, <1>7 DEF IsPathLog, c

(* Log paths use only names that the configuration gives.                    *)
LEMMA NamesGiven ==
  ASSUME NEW g, Apart(g)
  PROVE  NamesMeet(Generate(g))
<1>1. Generate(g).statements = Statements(Enabled(g))
  BY DEF Generate
<1>2. \A s, t \in Generate(g).statements : s.kind = t.kind /\ s.name = t.name => s = t
  BY <1>1, StatementsApart
<1>3. \A l \in Generate(g).logs :
        /\ l.source \in Named(Generate(g), "source") /\ l.destination \in Named(Generate(g), "destination")
        /\ ToSet(l.filters) \subseteq Named(Generate(g), "filter")
  BY LogsStated
<1> QED BY <1>2, <1>3 DEF NamesMeet, Named

(* A filter's names pass what fulfils it, and what does not.                 *)
Passes(c, name, holds) == \E f \in c.filters :
                            \/ f.name = name /\ f.expr \subseteq holds
                            \/ f.name \o <<"else">> = name /\ ~(f.expr \subseteq holds)

(* A filter's two names pass what fulfils it, and what does not.             *)
LEMMA FilterPasses ==
  ASSUME NEW g, Apart(g), NEW n \in OfType(Enabled(g).nodes, {"filter"}), NEW holds
  PROVE  /\ Passes(Generate(g), Ident[n.id], holds) <=> n.conds \subseteq holds
         /\ Passes(Generate(g), Ident[n.id] \o <<"else">>, holds) <=> ~(n.conds \subseteq holds)
<1> DEFINE S == OfType(Enabled(g).nodes, {"filter"})
           F(m) == [name |-> Ident[m.id], expr |-> m.conds]
           c == Generate(g)
<1>1. c.filters = {F(m) : m \in S}
  BY DEF Generate
<1>2. \A m : F(m).name = Ident[m.id] /\ F(m).expr = m.conds
  OBVIOUS
<1>3. \A m \in S : m \in Nodes(g) /\ m.type = "filter"
  BY EnabledOf DEF OfType
<1>4. \A m \in S : Ident[m.id] = Ident[n.id] => m = n
  BY <1>3 DEF Apart
<1>5. \A m \in S : Ident[m.id] \in Seq(STRING)
  BY <1>3 DEF Apart
<1>6. \A m \in S : Ident[m.id] \o <<"else">> = Ident[n.id] \o <<"else">> => m = n
  BY <1>4, <1>5, NamesApart
<1>7. \A m \in S : Ident[m.id] # Ident[n.id] \o <<"else">> /\ Ident[n.id] # Ident[m.id] \o <<"else">>
  BY <1>3, NotDerived
<1> HIDE DEF S, F, c
<1>8. \A name : Passes(c, name, holds) <=> \E m \in S :
                            \/ Ident[m.id] = name /\ m.conds \subseteq holds
                            \/ Ident[m.id] \o <<"else">> = name /\ ~(m.conds \subseteq holds)
  BY <1>1, <1>2 DEF Passes
<1>9. n \in S
  BY DEF S
<1>10. Passes(c, Ident[n.id], holds) <=> n.conds \subseteq holds
  BY <1>4, <1>7, <1>8, <1>9
<1>11. Passes(c, Ident[n.id] \o <<"else">>, holds) <=> ~(n.conds \subseteq holds)
  BY <1>6, <1>7, <1>8, <1>9
<1> QED BY <1>10, <1>11 DEF c

(* A message follows an edge exactly if it passes what the edge asks for.    *)
LEMMA EdgePasses ==
  ASSUME NEW g, Apart(g), NEW e \in Enabled(g).edges, NEW holds
  PROVE  /\ ~NodeOf(Nodes(g), e.from).disabled /\ ~NodeOf(Nodes(g), e.to).disabled
         /\ NodeOf(Nodes(g), e.from).type = "filter" =>
              (Passes(Generate(g), StepName(e), holds) <=> Leaves(g, e, holds))
         /\ NodeOf(Nodes(g), e.from).type # "filter" => Leaves(g, e, holds)
<1>1. PICK n \in OfType(Enabled(g).nodes, {"source", "filter"}) : n.id = e.from /\ NodeOf(Nodes(g), e.from) = n
  BY EdgeEnds
<1>2. PICK m \in OfType(Enabled(g).nodes, Sinks \cup {"filter"}) : m.id = e.to /\ NodeOf(Nodes(g), e.to) = m
  BY EdgeEnds
<1>3. n \in Nodes(g) /\ ~n.disabled /\ ~m.disabled
  BY EnabledOf DEF OfType
<1>4. Leaves(g, e, holds) <=> (n.type = "filter" => (n.conds \subseteq holds) = (e.port # "else"))
  BY <1>1, <1>2, <1>3 DEF Leaves
<1>5. ASSUME n.type = "filter"
      PROVE  Passes(Generate(g), StepName(e), holds) <=> (n.conds \subseteq holds) = (e.port # "else")
  <2>1. n \in OfType(Enabled(g).nodes, {"filter"})
    BY <1>5 DEF OfType
  <2>2. Ident[n.id] \o <<>> = Ident[n.id]
    BY <1>3, ConcatEmptySeq DEF Apart
  <2>3. CASE e.port = "else"
    <3>1. StepName(e) = Ident[n.id] \o <<"else">>
      BY <1>1, <2>3 DEF StepName
    <3> QED BY <2>1, <2>3, <3>1, FilterPasses
  <2>4. CASE e.port # "else"
    <3>1. StepName(e) = Ident[n.id]
      BY <1>1, <2>2, <2>4 DEF StepName
    <3> QED BY <2>1, <2>4, <3>1, FilterPasses
  <2> QED BY <2>3, <2>4
<1> QED BY <1>1, <1>2, <1>3, <1>4, <1>5

(* What is closed under edges keeps what follows them.                       *)
LEMMA Carried ==
  ASSUME NEW E, NEW T, After(E, T) \subseteq T, NEW l \in Nat, NEW w \in [1..l -> E],
         \A k \in 1..(l - 1) : w[k].to = w[k + 1].from,
         NEW i \in 1..l, w[i].to \in T
  PROVE  \A k \in i..l : w[k].to \in T
<1> DEFINE B == {k \in i..l : w[k].to \notin T}
<1> SUFFICES ASSUME B # {} PROVE FALSE
  OBVIOUS
<1>1. PICK k \in B : \A j \in B : k <= j
  <2>1. B \subseteq Nat
    OBVIOUS
  <2> HIDE DEF B
  <2> QED BY <2>1, Smallest
<1>2. k \in i..l /\ k # i /\ w[k].to \notin T
  OBVIOUS
<1>3. k - 1 \in i..l /\ k - 1 \in 1..(l - 1) /\ ~(k <= k - 1)
  BY <1>2
<1>4. w[k - 1].to \in T
  BY <1>1, <1>3
<1>5. w[k - 1].to = w[(k - 1) + 1].from /\ (k - 1) + 1 = k
  BY <1>2, <1>3
<1>6. w[k].from \in T /\ w[k] \in E
  BY <1>2, <1>4, <1>5
<1>7. w[k].to \in After(E, T)
  BY <1>6 DEF After
<1> QED BY <1>2, <1>7

(* A chain of l edges that are on, from a source.                            *)
Chain(g, n, w, l) ==
  /\ l >= 1 /\ w \in [1..l -> Enabled(g).edges]
  /\ w[1].from = n.id
  /\ \A k \in 1..(l - 1) : w[k].to = w[k + 1].from

(* A chain meets no node twice: there are no cycles.                         *)
LEMMA ChainDistinct ==
  ASSUME NEW g, Apart(g), checkCycles(g), NEW n \in OfType(Enabled(g).nodes, {"source"}),
         NEW l \in Nat, NEW w, Chain(g, n, w, l), NEW i \in 1..l, NEW j \in 1..l, i < j
  PROVE  w[i].to # w[j].to
<1> SUFFICES ASSUME w[i].to = w[j].to PROVE FALSE
  OBVIOUS
<1> DEFINE U == Ids(Nodes(g))
           E == g.edges
           S == Ids(OfType(Nodes(g), {"source"}))
           x == w[i].to
<1>1. /\ w \in [1..l -> E] /\ w[1].from = n.id
      /\ \A k \in 1..(l - 1) : w[k].to = w[k + 1].from
  BY EnabledOf DEF Chain
<1>2. n.id \in S
  BY EnabledOf DEF OfType, Ids
<1>3. x \in U
  <2>1. w[i] \in Enabled(g).edges
    BY DEF Chain
  <2> QED BY <2>1, EnabledOf DEF Ids
<1>4. x \in Reached(U, E, S)
  <2> SUFFICES ASSUME NEW T \in SUBSET U, S \subseteq T, After(E, T) \subseteq T
               PROVE  x \in T
    BY <1>3 DEF Reached
  <2>1. 1 \in 1..l /\ w[1].from \in T /\ w[1] \in E
    BY <1>1, <1>2
  <2>2. w[1].to \in T
    BY <2>1 DEF After
  <2>3. \A k \in 1..l : w[k].to \in T
    BY <1>1, <2>1, <2>2, Carried
  <2> QED BY <2>3
<1>5. x \in Reached(U, E, After(E, {x}))
  <2> SUFFICES ASSUME NEW T \in SUBSET U, After(E, {x}) \subseteq T, After(E, T) \subseteq T
               PROVE  x \in T
    BY <1>3 DEF Reached
  <2>1. i \in 1..(l - 1) /\ i + 1 \in 1..l /\ j \in (i + 1)..l
    OBVIOUS
  <2>2. w[i + 1].from = x /\ w[i + 1] \in E
    BY <1>1, <2>1
  <2>3. w[i + 1].to \in T
    BY <2>2 DEF After
  <2>4. \A k \in (i + 1)..l : w[k].to \in T
    BY <1>1, <2>1, <2>3, Carried
  <2> QED BY <2>1, <2>4
<1> QED BY <1>4, <1>5 DEF checkCycles

(* A chain that ends at no filter is a walk.                                 *)
LEMMA ChainWalks ==
  ASSUME NEW g, Apart(g), checkCycles(g), NEW n \in OfType(Enabled(g).nodes, {"source"}),
         NEW l \in Nat, NEW w, Chain(g, n, w, l),
         NEW m \in OfType(Enabled(g).nodes, Sinks), m.id = w[l].to
  PROVE  w \in walk(Enabled(g), n.id) /\ Len(w) = l
<1> DEFINE F == OfType(Enabled(g).nodes, {"filter"})
<1>1. /\ l >= 1 /\ w \in [1..l -> Enabled(g).edges] /\ Len(w) = l
      /\ w[1].from = n.id
      /\ \A k \in 1..(l - 1) : w[k].to = w[k + 1].from
  BY DEF Chain
<1>2. \A k \in 1..(l - 1) : \E f \in F : f.id = w[k].to
  <2> TAKE k \in 1..(l - 1)
  <2>1. w[k] \in Enabled(g).edges /\ w[k + 1] \in Enabled(g).edges /\ w[k].to = w[k + 1].from
    BY <1>1
  <2>2. PICK a \in OfType(Enabled(g).nodes, Sinks \cup {"filter"}) : a.id = w[k].to /\ NodeOf(Nodes(g), w[k].to) = a
    BY <2>1, EdgeNodes
  <2>3. PICK b \in OfType(Enabled(g).nodes, {"source", "filter"}) : NodeOf(Nodes(g), w[k + 1].from) = b
    BY <2>1, EdgeNodes
  <2>4. a = b
    BY <2>1, <2>2, <2>3
  <2>5. a.type = "filter"
    BY <2>2, <2>3, <2>4 DEF OfType, Sinks
  <2> QED BY <2>2, <2>5 DEF OfType
<1>3. PICK f \in [1..(l - 1) -> F] : \A k \in 1..(l - 1) : f[k].id = w[k].to
  <2> DEFINE f == [k \in 1..(l - 1) |-> CHOOSE a \in F : a.id = w[k].to]
  <2>1. \A k \in 1..(l - 1) : f[k] \in F /\ f[k].id = w[k].to
    BY <1>2
  <2>2. f \in [1..(l - 1) -> F]
    BY <2>1
  <2> QED BY <2>1, <2>2
<1>4. \A i, j \in 1..(l - 1) : f[i] = f[j] => i = j
  <2> SUFFICES ASSUME NEW i \in 1..(l - 1), NEW j \in 1..(l - 1), f[i] = f[j], i < j
               PROVE  FALSE
    OBVIOUS
  <2>1. w[i].to = w[j].to
    BY <1>3
  <2>2. i \in 1..l /\ j \in 1..l
    OBVIOUS
  <2> QED BY <2>1, <2>2, ChainDistinct
<1>5. f \in Injection(1..(l - 1), F)
  BY <1>3, <1>4 DEF Injection, IsInjective
<1>6. IsFiniteSet(F)
  <2>1. F \subseteq Nodes(g)
    BY EnabledOf DEF OfType
  <2> QED BY <2>1, FS_Subset DEF Apart
<1>7. Cardinality(1..(l - 1)) <= Cardinality(F)
  BY <1>5, <1>6, FS_Injection
<1>8. Cardinality(1..(l - 1)) = l - 1
  <2>1. l - 1 \in Int /\ 1 \in Int
    OBVIOUS
  <2>2. Cardinality(1..(l - 1)) = IF 1 > l - 1 THEN 0 ELSE (l - 1) - 1 + 1
    BY <2>1, FS_Interval
  <2> QED BY <1>1, <2>2
<1>9. l \in 1..(Cardinality(F) + 1)
  BY <1>1, <1>6, <1>7, <1>8, FS_CardinalityType
<1>10. m.id \notin Ids(F)
  <2> SUFFICES ASSUME NEW a \in F, a.id = m.id PROVE FALSE
    BY DEF Ids
  <2>1. a \in Nodes(g) /\ m \in Nodes(g)
    BY EnabledOf DEF OfType
  <2>2. a = m
    BY <2>1, NodeFound
  <2> QED BY <2>2 DEF OfType, Sinks
<1>11. \A k \in 1..(l - 1) : w[k].to \in Ids(F)
  BY <1>2 DEF Ids
<1>12. w \in UNION {[1..k -> Enabled(g).edges] : k \in 1..(Cardinality(F) + 1)}
  BY <1>1, <1>9
<1>13. Last(w).to = m.id
  BY <1>1 DEF Last
<1> QED BY <1>1, <1>10, <1>11, <1>12, <1>13 DEF walk

(* Edges that a message follows are on.                                      *)
LEMMA LeavesOn ==
  ASSUME NEW g, Apart(g), NEW e \in g.edges, NEW holds, Leaves(g, e, holds)
  PROVE  e \in Enabled(g).edges
<1>1. {e.from, e.to} \subseteq Ids(Nodes(g))
  BY DEF Apart, validateEdge
<1>2. PICK m \in Nodes(g) : m.id = e.from
  BY <1>1 DEF Ids
<1>3. PICK n \in Nodes(g) : n.id = e.to
  BY <1>1 DEF Ids
<1>4. NodeOf(Nodes(g), e.from) = m /\ NodeOf(Nodes(g), e.to) = n
  BY <1>2, <1>3, NodeFound
<1>5. m \in Enabled(g).nodes /\ n \in Enabled(g).nodes
  BY <1>2, <1>3, <1>4, EnabledOf DEF Leaves
<1> QED BY <1>2, <1>3, <1>5, EnabledOf DEF Ids

(* A message that follows every edge of a chain comes to its end.            *)
Led(g, holds, n, x) ==
  \E l \in Nat : \E w : /\ Chain(g, n, w, l) /\ w[l].to = x
                        /\ \A k \in 1..l : Leaves(g, w[k], holds)

(* Where a message comes, a chain of edges that it follows leads.            *)
LEMMA RoutedChain ==
  ASSUME NEW g, Apart(g), NEW holds, NEW n \in OfType(Enabled(g).nodes, {"source"}),
         NEW m \in OfType(Nodes(g), Sinks), m.id \in Routed(g, holds, n.id)
  PROVE  /\ m \in Enabled(g).nodes
         /\ Led(g, holds, n, m.id)
<1> DEFINE U == Ids(Nodes(g))
           E == {e \in g.edges : Leaves(g, e, holds)}
           Leads(x) == \E l \in Nat : \E w \in [1..l -> Enabled(g).edges] :
                         /\ Chain(g, n, w, l) /\ w[l].to = x
                         /\ \A k \in 1..l : Leaves(g, w[k], holds)
           R == {x \in U : x = n.id \/ Leads(x)}
<1>1. n \in Nodes(g) /\ n.type = "source" /\ n.id \in U
  BY EnabledOf DEF OfType, Ids
<1>2. ASSUME NEW e \in E, e.from \in R
      PROVE  e.to \in R
  <2>1. e \in Enabled(g).edges /\ Leaves(g, e, holds)
    BY LeavesOn
  <2>2. e.to \in U
    BY <2>1, EnabledOf DEF Ids
  <2>3. CASE e.from = n.id
    <3> DEFINE w == [k \in 1..1 |-> e]
    <3>1. w \in [1..1 -> Enabled(g).edges] /\ w[1] = e /\ \A k \in 1..1 : w[k] = e
      BY <2>1
    <3> HIDE DEF w
    <3>2. Chain(g, n, w, 1)
      BY <2>3, <3>1 DEF Chain
    <3>3. Leads(e.to)
      BY <2>1, <3>1, <3>2
    <3> QED BY <2>2, <3>3
  <2>4. CASE Leads(e.from)
    <3>1. PICK l \in Nat : \E w \in [1..l -> Enabled(g).edges] :
                  /\ Chain(g, n, w, l) /\ w[l].to = e.from
                  /\ \A k \in 1..l : Leaves(g, w[k], holds)
      BY <2>4
    <3>2. PICK w \in [1..l -> Enabled(g).edges] :
                  /\ Chain(g, n, w, l) /\ w[l].to = e.from
                  /\ \A k \in 1..l : Leaves(g, w[k], holds)
      BY <3>1
    <3>3. l >= 1 /\ w[1].from = n.id /\ \A k \in 1..(l - 1) : w[k].to = w[k + 1].from
      BY <3>2 DEF Chain
    <3> DEFINE v == [k \in 1..(l + 1) |-> IF k <= l THEN w[k] ELSE e]
    <3>4. /\ v \in [1..(l + 1) -> Enabled(g).edges]
          /\ \A k \in 1..l : v[k] = w[k]
          /\ v[l + 1] = e
      BY <2>1, <3>2
    <3> HIDE DEF v
    <3>5. \A k \in 1..l : v[k].to = v[k + 1].from
      BY <3>2, <3>3, <3>4
    <3>6. Chain(g, n, v, l + 1)
      BY <3>3, <3>4, <3>5 DEF Chain
    <3>7. \A k \in 1..(l + 1) : Leaves(g, v[k], holds)
      BY <2>1, <3>2, <3>4
    <3>8. l + 1 \in Nat
      OBVIOUS
    <3>9. Leads(e.to)
      BY <3>4, <3>6, <3>7, <3>8
    <3> QED BY <2>2, <3>9
  <2> QED BY <1>2, <2>3, <2>4
<1>3. After(E, R) \subseteq R
  BY <1>2 DEF After
<1>4. R \in SUBSET U /\ {n.id} \subseteq R
  BY <1>1
<1>5. m.id \in R
  BY <1>3, <1>4 DEF Routed, Reached
<1>6. m.id # n.id
  <2>1. m \in Nodes(g) /\ m.type # "source"
    BY DEF OfType, Sinks
  <2> QED BY <1>1, <2>1 DEF Apart
<1>7. Leads(m.id)
  BY <1>5, <1>6
<1>8. PICK l \in Nat : \E w \in [1..l -> Enabled(g).edges] :
         /\ Chain(g, n, w, l) /\ w[l].to = m.id
         /\ \A k \in 1..l : Leaves(g, w[k], holds)
  BY <1>7
<1>9. PICK w \in [1..l -> Enabled(g).edges] :
         /\ Chain(g, n, w, l) /\ w[l].to = m.id
         /\ \A k \in 1..l : Leaves(g, w[k], holds)
  BY <1>8
<1>10. w[l] \in Enabled(g).edges
  BY <1>9 DEF Chain
<1>11. PICK a \in Enabled(g).nodes : a.id = m.id
  BY <1>9, <1>10, EnabledOf DEF Ids
<1>12. a = m
  BY <1>11, EnabledOf, NodeFound DEF OfType
<1> QED BY <1>9, <1>11, <1>12 DEF Led

(* Where a chain of edges that it follows leads, a message comes.            *)
LEMMA ChainRouted ==
  ASSUME NEW g, Apart(g), NEW holds, NEW n \in OfType(Enabled(g).nodes, {"source"}),
         NEW l \in Nat, NEW w, Chain(g, n, w, l), \A k \in 1..l : Leaves(g, w[k], holds)
  PROVE  w[l].to \in Routed(g, holds, n.id)
<1> DEFINE U == Ids(Nodes(g))
           E == {e \in g.edges : Leaves(g, e, holds)}
<1>1. /\ l >= 1 /\ w \in [1..l -> Enabled(g).edges] /\ w[1].from = n.id
      /\ \A k \in 1..(l - 1) : w[k].to = w[k + 1].from
  BY DEF Chain
<1>2. w \in [1..l -> E]
  BY <1>1, EnabledOf
<1>3. 1 \in 1..l /\ l \in 1..l /\ w[l] \in Enabled(g).edges
  BY <1>1
<1>4. w[l].to \in U
  BY <1>3, EnabledOf DEF Ids
<1>5. ASSUME NEW T \in SUBSET U, {n.id} \subseteq T, After(E, T) \subseteq T
      PROVE  w[l].to \in T
  <2>1. w[1] \in E /\ w[1].from \in T
    BY <1>1, <1>2, <1>3, <1>5
  <2> HIDE DEF E
  <2>2. w[1].to \in T
    BY <1>5, <2>1 DEF After
  <2>3. \A k \in 1..l : w[k].to \in T
    BY <1>1, <1>2, <1>3, <1>5, <2>2, Carried
  <2> QED BY <1>3, <2>3
<1> QED BY <1>4, <1>5 DEF Routed, Reached

(* What syslog-ng does with the log paths, in the terms of the lemmas.       *)
LEMMA DeliveredIs ==
  ASSUME NEW c, NEW source, NEW holds, NEW x
  PROVE  x \in Delivered(c, source, holds) <=>
           \E l \in c.logs : /\ l.source = source /\ l.destination = x
                             /\ \A k \in DOMAIN l.filters : Passes(c, l.filters[k], holds)
BY DEF Delivered, Passes

(* A message that the graph shows at a sink is delivered there.              *)
LEMMA ShownDelivered ==
  ASSUME NEW g, Apart(g), checkCycles(g), NEW holds, NEW n \in OfType(Nodes(g), {"source"}),
         NEW x \in Shown(g, n, holds), ~n.disabled
  PROVE  x \in Delivered(Generate(g), Ident[n.id], holds)
<1> DEFINE c == Generate(g)
<1>1. n \in OfType(Enabled(g).nodes, {"source"})
  BY EnabledOf DEF OfType
<1>2. CASE x = <<"tap">> \o Ident[n.id]
  <2>1. PICK l \in c.logs : IsTapLog(l, n)
    BY <1>1, LogsOf
  <2>2. l.source = Ident[n.id] /\ l.destination = x /\ DOMAIN l.filters = {}
    BY <1>2, <2>1 DEF IsTapLog
  <2> HIDE DEF c
  <2>3. x \in Delivered(c, Ident[n.id], holds)
    BY <2>2, DeliveredIs
  <2> QED BY <2>3 DEF c
<1>3. ASSUME NEW m \in OfType(Nodes(g), Sinks), m.id \in Routed(g, holds, n.id), x = Ident[m.id]
      PROVE  x \in Delivered(c, Ident[n.id], holds)
  <2>1. m \in Enabled(g).nodes /\ Led(g, holds, n, m.id)
    BY <1>1, <1>3, RoutedChain
  <2>a. PICK l \in Nat : \E w : /\ Chain(g, n, w, l) /\ w[l].to = m.id
                                /\ \A k \in 1..l : Leaves(g, w[k], holds)
    BY <2>1 DEF Led
  <2>2. PICK w : /\ Chain(g, n, w, l) /\ w[l].to = m.id
                 /\ \A k \in 1..l : Leaves(g, w[k], holds)
    BY <2>a
  <2>3. m \in OfType(Enabled(g).nodes, Sinks)
    BY <2>1 DEF OfType
  <2>4. w \in walk(Enabled(g), n.id) /\ Len(w) = l
    BY <1>1, <2>2, <2>3, ChainWalks
  <2>5. PICK p \in c.logs : IsPathLog(p, n, w)
    BY <1>1, <2>4, LogsOf
  <2>6. Way(g, w)
    BY <1>1, <2>4, WalkWay
  <2>7. ASSUME NEW k \in 1..(l - 1)
        PROVE  Passes(c, StepName(w[k + 1]), holds)
    <3>1. w[k + 1] \in Enabled(g).edges
      BY <2>4, <2>6, WayFilters
    <3>2. PICK f \in OfType(Enabled(g).nodes, {"filter"}) : f.id = w[k + 1].from
      BY <2>4, <2>6, WayFilters
    <3>3. f \in Nodes(g) /\ f.type = "filter"
      BY EnabledOf DEF OfType
    <3>4. NodeOf(Nodes(g), w[k + 1].from).type = "filter"
      BY <3>2, <3>3, NodeFound
    <3>5. Leaves(g, w[k + 1], holds)
      BY <2>2
    <3> QED BY <3>1, <3>4, <3>5, EdgePasses
  <2> HIDE DEF c
  <2>8. /\ p.source = Ident[n.id] /\ p.destination = x
        /\ \A k \in DOMAIN p.filters : Passes(c, p.filters[k], holds)
    BY <1>3, <2>2, <2>4, <2>5, <2>7 DEF IsPathLog
  <2> QED BY <2>8, DeliveredIs
<1> QED BY <1>2, <1>3 DEF Shown

(* A message that is delivered is shown there.                               *)
LEMMA DeliveredShown ==
  ASSUME NEW g, Apart(g), NEW holds, NEW n \in OfType(Nodes(g), {"source"}),
         NEW x \in Delivered(Generate(g), Ident[n.id], holds)
  PROVE  x \in Shown(g, n, holds) /\ ~n.disabled
<1> DEFINE c == Generate(g)
<1>1. PICK p \in c.logs : /\ p.source = Ident[n.id] /\ p.destination = x
                          /\ \A k \in DOMAIN p.filters : Passes(c, p.filters[k], holds)
  BY DeliveredIs
<1>2. PICK s \in OfType(Enabled(g).nodes, {"source"}) :
        IsTapLog(p, s) \/ \E w \in walk(Enabled(g), s.id) : IsPathLog(p, s, w)
  BY LogIs
<1>3. s \in Nodes(g) /\ n \in Nodes(g) /\ ~s.disabled
  BY EnabledOf DEF OfType
<1>4. s = n
  BY <1>1, <1>2, <1>3 DEF Apart, IsTapLog, IsPathLog
<1>5. CASE IsTapLog(p, n)
  BY <1>1, <1>3, <1>4, <1>5 DEF IsTapLog, Shown
<1>6. ASSUME NEW w \in walk(Enabled(g), n.id), IsPathLog(p, n, w)
      PROVE  x \in Shown(g, n, holds)
  <2>1. Way(g, w) /\ w[1].from = n.id
    BY <1>2, <1>4, WalkWay
  <2>2. PICK l \in Nat : l >= 1 /\ w \in [1..l -> Enabled(g).edges] /\ Len(w) = l
    BY <2>1 DEF Way
  <2>3. \A k \in 1..(l - 1) : w[k].to = w[k + 1].from
    BY <2>1, <2>2 DEF Way
  <2>4. Chain(g, n, w, l)
    BY <2>1, <2>2, <2>3 DEF Chain
  <2>5. ASSUME NEW k \in 1..l
        PROVE  Leaves(g, w[k], holds)
    <3>1. w[k] \in Enabled(g).edges
      BY <2>2
    <3>2. CASE k = 1
      <4>1. NodeOf(Nodes(g), w[k].from) = n
        BY <1>3, <2>1, <3>2, NodeFound
      <4>2. n.type # "filter"
        BY DEF OfType
      <4> QED BY <3>1, <4>1, <4>2, EdgePasses
    <3>3. CASE k # 1
      <4>1. k - 1 \in 1..(l - 1) /\ (k - 1) + 1 = k
        BY <3>3
      <4>a. \A j \in 1..(l - 1) : \E f \in OfType(Enabled(g).nodes, {"filter"}) : f.id = w[j + 1].from
        BY <2>1, <2>2, WayFilters
      <4>2. \E f \in OfType(Enabled(g).nodes, {"filter"}) : f.id = w[(k - 1) + 1].from
        BY <4>1, <4>a
      <4>3. PICK f \in OfType(Enabled(g).nodes, {"filter"}) : f.id = w[k].from
        BY <4>1, <4>2
      <4>4. f \in Nodes(g) /\ f.type = "filter"
        BY EnabledOf DEF OfType
      <4>5. NodeOf(Nodes(g), w[k].from).type = "filter"
        BY <4>3, <4>4, NodeFound
      <4>6. p.filters[k - 1] = StepName(w[k]) /\ k - 1 \in DOMAIN p.filters
        BY <1>6, <2>2, <4>1 DEF IsPathLog
      <4>7. Passes(c, StepName(w[k]), holds)
        BY <1>1, <4>6
      <4> QED BY <3>1, <4>5, <4>7, EdgePasses
    <3> QED BY <3>2, <3>3
  <2>6. w[l].to \in Routed(g, holds, n.id)
    BY <1>2, <1>4, <2>4, <2>5, ChainRouted
  <2>7. PICK m \in OfType(Enabled(g).nodes, Sinks) : m.id = w[l].to
    BY <2>1, <2>2 DEF Way
  <2>8. m \in OfType(Nodes(g), Sinks)
    BY <2>7, EnabledOf DEF OfType
  <2>9. x = Ident[m.id]
    BY <1>1, <1>6, <2>2, <2>7 DEF IsPathLog
  <2> QED BY <2>6, <2>7, <2>8, <2>9 DEF Shown
<1> QED BY <1>2, <1>3, <1>4, <1>5, <1>6

(* A source that is off takes nothing.                                       *)
LEMMA OffShowsNothing ==
  ASSUME NEW g, Apart(g), NEW holds, NEW n \in OfType(Nodes(g), {"source"}), n.disabled
  PROVE  Shown(g, n, holds) = {}
<1> DEFINE U == Ids(Nodes(g))
           E == {e \in g.edges : Leaves(g, e, holds)}
<1>1. n \in Nodes(g) /\ n.type = "source" /\ n.id \in U /\ NodeOf(Nodes(g), n.id) = n
  BY NodeFound DEF OfType, Ids
<1>2. After(E, {n.id}) = {}
  BY <1>1 DEF After, Leaves
<1>3. Routed(g, holds, n.id) \subseteq {n.id}
  BY <1>1, <1>2 DEF Routed, Reached
<1>4. ASSUME NEW m \in OfType(Nodes(g), Sinks), m.id = n.id
      PROVE  FALSE
  BY <1>1, <1>4 DEF OfType, Sinks, Apart
<1> QED BY <1>3, <1>4 DEF Shown

(* No two listeners clash: those of two nodes are kept apart by Validate,    *)
(* those of one by their protocol.                                           *)
LEMMA ListenersApart ==
  ASSUME NEW g, IsGraph(g), Validate_(g),
         NEW k \in Generate(g).listeners, NEW l \in Generate(g).listeners, k # l
  PROVE  ~Clash(k[2], l[2])
<1> DEFINE S == OfType(Enabled(g).nodes, {"source"})
<1>1. /\ \E m \in S : \E x \in sourceListeners(m) : k = <<m.id, x>>
      /\ \E m \in S : \E x \in sourceListeners(m) : l = <<m.id, x>>
  BY DEF Generate
<1>2. PICK m \in S : \E x \in sourceListeners(m) : k = <<m.id, x>>
  BY <1>1
<1>3. PICK x \in sourceListeners(m) : k = <<m.id, x>>
  BY <1>2
<1>4. PICK n \in S : \E y \in sourceListeners(n) : l = <<n.id, y>>
  BY <1>1
<1>5. PICK y \in sourceListeners(n) : l = <<n.id, y>>
  BY <1>4
<1>6. CASE m = n
  <2>1. x # y
    BY <1>3, <1>5, <1>6
  <2>2. x.proto # y.proto
    BY <1>6, <2>1 DEF sourceListeners
  <2> QED BY <1>3, <1>5, <2>2 DEF Clash
<1>7. CASE m # n
  <2>1. /\ m \in Nodes(g) /\ n \in Nodes(g) /\ ~m.disabled /\ ~n.disabled
        /\ m.type = "source" /\ n.type = "source"
    BY EnabledOf DEF OfType
  <2>2. PICK i \in DOMAIN g.nodes : m = g.nodes[i]
    BY <2>1 DEF Nodes, ToSet
  <2>3. PICK j \in DOMAIN g.nodes : n = g.nodes[j]
    BY <2>1 DEF Nodes, ToSet
  <2>4. i \in Listening(g) /\ j \in Listening(g) /\ i # j
    BY <1>7, <2>1, <2>2, <2>3 DEF Listening
  <2>5. ~Clash(x, y)
    BY <1>3, <1>5, <2>2, <2>3, <2>4 DEF Validate_, checkListeners
  <2> QED BY <1>3, <1>5, <2>5
<1> QED BY <1>6, <1>7

(* ConfigFaithful, for every graph: what the valve accepts compiles to a      *)
(* configuration that is well formed and takes every message to exactly the  *)
(* sinks the graph shows (graph.go, safety.go, codegen.go).                  *)
THEOREM CompiledFaithful == IsGraph(flow) => ConfigFaithful
<1> SUFFICES ASSUME IsGraph(flow), Applicable(flow)
             PROVE  ConfigFaithfulOf(Sanitize(flow))
  BY DEF ConfigFaithful
<1> DEFINE g == Sanitize(flow)
<1>1. IsGraph(g) /\ Validate_(g)
  BY SanitizeKeeps DEF Applicable
<1> HIDE DEF g
<1>2. Apart(g) /\ checkCycles(g)
  BY <1>1, ApartOf DEF Validate_
<1>3. NamesMeet(Generate(g))
  BY <1>2, NamesGiven
<1>4. \A k, l \in Generate(g).listeners : k # l => ~Clash(k[2], l[2])
  BY <1>1, ListenersApart
<1>5. Generate(g).files = GenerateLogrotate(g)
  BY DEF Generate, GenerateLogrotate
<1>6. ASSUME NEW holds \in SUBSET Condition, NEW n \in OfType(Nodes(g), {"source"})
      PROVE  Shown(g, n, holds) = Delivered(Generate(g), Ident[n.id], holds)
  <2>1. CASE n.disabled
    <3>1. Shown(g, n, holds) = {}
      BY <1>2, <2>1, OffShowsNothing
    <3>2. \A x : x \notin Delivered(Generate(g), Ident[n.id], holds)
      BY <1>2, <2>1, DeliveredShown
    <3> QED BY <3>1, <3>2
  <2>2. CASE ~n.disabled
    <3>1. \A x \in Shown(g, n, holds) : x \in Delivered(Generate(g), Ident[n.id], holds)
      BY <1>2, <2>2, ShownDelivered
    <3>2. \A x \in Delivered(Generate(g), Ident[n.id], holds) : x \in Shown(g, n, holds)
      BY <1>2, DeliveredShown
    <3> QED BY <3>1, <3>2
  <2> QED BY <2>1, <2>2
<1> QED BY <1>3, <1>4, <1>5, <1>6 DEF ConfigFaithfulOf, g
=============================================================================
