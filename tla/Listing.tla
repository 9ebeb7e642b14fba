------------------------------- MODULE Listing -------------------------------
(***************************************************************************)
(* Listing entries (ListEntries in store/store.go, listEntries in          *)
(* api/api.go): a client pages back from the newest entry and catches up   *)
(* with later ones, by entry ids, while the writer of the pipeline stores  *)
(* batches and entries are triaged.                                        *)
(*                                                                         *)
(* Whether an entry fulfils the listing's condition and is not suppressed  *)
(* is a flag; ids are drawn from a sequence, also by batches that fail.    *)
(***************************************************************************)
EXTENDS Integers, Sequences, FiniteSets, SequencesExt, Ordering

CONSTANTS
  ListLimit,   \* entries of a page (EntryFilter.Limit)
  MaxId,       \* bound: ids drawn
  MaxTriage    \* bound: entries that stop or start to match

ASSUME ListingAssumption == ListLimit \in Nat \ {0} /\ {MaxId, MaxTriage} \subseteq Nat

VARIABLES
  drawn,     \* the sequence behind entries.id
  stored,    \* stored entries: [id -> matches]
  triaged,   \* entries whose flag changed
  shown      \* ids the client was given, oldest first: it asks beyond the ends

listVars == <<drawn, stored, triaged, shown>>

ListInit == drawn = 0 /\ stored = <<>> /\ triaged = {} /\ shown = <<>>

(* InsertEntries: one writer, a batch in a transaction.                      *)
StoreBatch ==
  \E ids \in {S \in SUBSET ((drawn + 1)..MaxId) : S # {} /\ S = (drawn + 1)..(drawn + Cardinality(S))} :
    /\ drawn' = drawn + Cardinality(ids)
    /\ \/ stored' \in {[i \in DOMAIN stored \cup ids |-> IF i \in ids THEN f[i] ELSE stored[i]] :
                         f \in [ids -> BOOLEAN]}
       \/ UNCHANGED stored
    /\ UNCHANGED <<triaged, shown>>

TriageEntry(i) ==
  /\ Cardinality(triaged) < MaxTriage /\ i \notin triaged
  /\ stored' = [stored EXCEPT ![i] = ~@] /\ triaged' = triaged \cup {i}
  /\ UNCHANGED <<drawn, shown>>

-----------------------------------------------------------------------------
Within_(before, after) == {i \in DOMAIN stored : stored[i] /\ after < i /\ i < before}

(* Newest first without after_id, ascending with it.                         *)
ListEntries(before, after, limit) ==
  LET ids  == Within_(before, after)
      desc == Sorted(ids, {p \in ids \X ids : p[1] > p[2]})
      list == IF after > 0 THEN Reverse(desc) ELSE desc
  IN  SubSeq(list, 1, IF Len(list) < limit THEN Len(list) ELSE limit)

(* Mutant: later entries are given newest first as well.                     *)
X_Newer ==
  LET ids  == Within_(MaxId + 1, Last(shown))
      desc == Sorted(ids, {p \in ids \X ids : p[1] > p[2]})
  IN  SubSeq(desc, 1, IF Len(desc) < ListLimit THEN Len(desc) ELSE ListLimit)

(* after_id = the newest shown.                                              *)
Newer == ListEntries(MaxId + 1, Last(shown), ListLimit)

FirstPage ==
  /\ shown = <<>> /\ shown' = Reverse(ListEntries(MaxId + 1, 0, ListLimit))
  /\ UNCHANGED <<drawn, stored, triaged>>

(* before_id = the oldest shown.                                             *)
OlderPage ==
  /\ shown # <<>> /\ shown' = Reverse(ListEntries(Head(shown), 0, ListLimit)) \o shown
  /\ UNCHANGED <<drawn, stored, triaged>>

CatchUp ==
  /\ shown # <<>> /\ shown' = shown \o Newer
  /\ UNCHANGED <<drawn, stored, triaged>>

ListNext == \/ StoreBatch \/ FirstPage \/ OlderPage \/ CatchUp
            \/ \E i \in DOMAIN stored : TriageEntry(i)

ListSpec == ListInit /\ [][ListNext]_listVars

(* GetEntry lists the ids between the two neighbours.                        *)
GetEntry(id) == ListEntries(id + 1, id - 1, 1)

-----------------------------------------------------------------------------
(* However pages, batches and triage mix, the client is given ids in order   *)
(* and each once, and between the oldest and the newest it was given nothing *)
(* is missing that matched all along.                                        *)
ListedOnce ==
  /\ \A k \in 1..(Len(shown) - 1) : shown[k] < shown[k + 1]
  /\ \A i \in DOMAIN stored :
       /\ stored[i] /\ i \notin triaged /\ shown # <<>> /\ Head(shown) < i /\ i < Last(shown)
          => i \in ToSet(shown)
       /\ stored[i] => GetEntry(i) = <<i>>
=============================================================================
