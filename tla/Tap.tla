--------------------------------- MODULE Tap ---------------------------------
(***************************************************************************)
(* The live tap of the valve (internal/tap, and tail in internal/server):  *)
(* events are numbered, kept in a ring for the replay, and given to the    *)
(* subscribers without waiting for them.                                   *)
(***************************************************************************)
EXTENDS Integers, Sequences, FiniteSets, SequencesExt

CONSTANTS
  Viewer,      \* browsers that follow the tap
  RingSize,    \* events replayed (ringSize)
  SubBuffer,   \* capacity of a subscriber's channel (subBuffer)
  MaxSeq       \* bound: events

ASSUME TapAssumption == {RingSize, SubBuffer} \subseteq Nat \ {0} /\ MaxSeq \in Nat

VARIABLES
  seq,      \* Tap.seq: events are their numbers
  ring,     \* Tap.ring
  subs,     \* Tap.subs: viewers whose channel is registered
  channel,  \* their channels
  replay,   \* what is left of the replay of each
  shown,    \* what each was sent, in order
  missed    \* what found a full channel

tapVars == <<seq, ring, subs, channel, replay, shown, missed>>

TapInit ==
  /\ seq = 0 /\ ring = <<>> /\ subs = {}
  /\ channel = [v \in Viewer |-> <<>>] /\ replay = channel /\ shown = channel
  /\ missed = [v \in Viewer |-> {}]

Newest_(s, n) == IF Len(s) > n THEN SubSeq(s, Len(s) - n + 1, Len(s)) ELSE s

Publish ==
  /\ seq < MaxSeq /\ seq' = seq + 1
  /\ ring' = Newest_(Append(ring, seq'), RingSize)
  /\ channel' = [v \in Viewer |-> IF v \in subs /\ Len(channel[v]) < SubBuffer
                                  THEN Append(channel[v], seq') ELSE channel[v]]
  /\ missed' = [v \in Viewer |-> IF v \in subs /\ Len(channel[v]) = SubBuffer
                                 THEN missed[v] \cup {seq'} ELSE missed[v]]
  /\ UNCHANGED <<subs, replay, shown>>

(* Mutant: the ring is copied after the channel was registered, and an event *)
(* came between.                                                             *)
X_Registered(v) == IF ring = <<>> THEN <<>> ELSE <<Last(ring)>>

(* The ring is copied and the channel registered in one critical section.    *)
Registered(v) == <<>>

Subscribe(v) ==
  /\ v \notin subs /\ shown[v] = <<>>
  /\ subs' = subs \cup {v}
  /\ replay' = [replay EXCEPT ![v] = ring]
  /\ channel' = [channel EXCEPT ![v] = Registered(v)]
  /\ UNCHANGED <<seq, ring, shown, missed>>

Replay(v) ==
  /\ replay[v] # <<>>
  /\ shown' = [shown EXCEPT ![v] = Append(@, Head(replay[v]))]
  /\ replay' = [replay EXCEPT ![v] = Tail(@)]
  /\ UNCHANGED <<seq, ring, subs, channel, missed>>

Follow(v) ==
  /\ v \in subs /\ replay[v] = <<>> /\ channel[v] # <<>>
  /\ shown' = [shown EXCEPT ![v] = Append(@, Head(channel[v]))]
  /\ channel' = [channel EXCEPT ![v] = Tail(@)]
  /\ UNCHANGED <<seq, ring, subs, replay, missed>>

(* The viewer leaves, in the middle of its replay too.                       *)
Unsubscribe(v) ==
  /\ v \in subs /\ subs' = subs \ {v}
  /\ channel' = [channel EXCEPT ![v] = <<>>] /\ replay' = [replay EXCEPT ![v] = <<>>]
  /\ shown' = [shown EXCEPT ![v] = <<>>] /\ missed' = [missed EXCEPT ![v] = {}]
  /\ UNCHANGED <<seq, ring>>

TapNext == Publish \/ \E v \in Viewer : Subscribe(v) \/ Replay(v) \/ Follow(v) \/ Unsubscribe(v)

TapSpec == TapInit /\ [][TapNext]_tapVars

-----------------------------------------------------------------------------
(* A viewer sees each event once and in order, from the oldest of the replay *)
(* on; only events for which its channel had no room are left out.           *)
TapOnce ==
  \A v \in subs :
    LET sees == shown[v] \o replay[v] \o channel[v] IN
    /\ \A i \in 1..(Len(sees) - 1) : sees[i] < sees[i + 1]
    /\ sees # <<>> => ToSet(sees) \cup missed[v] = sees[1]..seq
=============================================================================
