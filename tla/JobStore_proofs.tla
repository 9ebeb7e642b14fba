----------------------------- MODULE JobStore_proofs -----------------------------
(***************************************************************************)
(* The job store's safety, for any number of requests, jobs, changes and   *)
(* restarts.                                                               *)
(***************************************************************************)
EXTENDS JobStore, TLAPS

(* A state of the map knows the deletions of its past, and its jobs were      *)
(* created.                                                                   *)
Knows(v) ==
  \A j \in Jobs : /\ deletedAt[j] > 0 /\ v.at >= deletedAt[j] => v.of[j] = Absent
                  /\ v.of[j] # Absent => j \in used

(* Every state that can still reach the file or the memory does; and a job is *)
(* created once.                                                              *)
KnowsInv ==
  /\ Knows(Now) /\ Knows(disk) /\ Knows(durable)
  /\ \A p \in Procs : pc[p] = "save" => Knows(snap[p])
  /\ \A j \in Jobs : deletedAt[j] <= version
  /\ \A j \in Jobs : deletedAt[j] > 0 => j \in used

(* persistMu is held from the copy to the answer, so the versions stand in    *)
(* the order they were made.                                                  *)
OrderInv ==
  /\ \A p \in Procs : pc[p] \in {"save", "sync", "unlock"} => holder = p
  /\ durable.at <= disk.at /\ disk.at <= version
  /\ \A p \in Procs : pc[p] = "save" => disk.at <= snap[p].at /\ snap[p].at <= version

(* Somebody changed the map and has not copied it yet.                        *)
Pending == \E q \in Procs : pc[q] = "persist"

(* What is not in the file is on its way, unless a save failed.               *)
SaveInv ==
  /\ \A p \in Procs : pc[p] = "save" => snap[p].of = jobs \/ Pending
  /\ \A p \in Procs : pc[p] = "sync" => disk.of = jobs \/ Pending
  /\ ~stale => disk.of = jobs \/ Pending \/ \E p \in Procs : pc[p] = "save"
-------------------------------------------------------------------------------
(* A start leaves everything typed.                                           *)
LEMMA BootTyped ==
  ASSUME TypeOK, NEW f \in Versions, Boot(f)
  PROVE  /\ jobs' \in [Jobs -> Cfgs \cup {Absent}] /\ used' \subseteq Jobs
         /\ holder' \in Procs \cup {Nobody}
         /\ pc' \in [Procs -> {"idle", "persist", "save", "sync", "unlock"}]
         /\ snap' \in [Procs -> Versions]
         /\ stale' \in BOOLEAN
         /\ version' \in Nat /\ restarts' \in Nat /\ deletedAt' \in [Jobs -> Nat]
<1>1. None \in Versions /\ f.of \in [Jobs -> Cfgs \cup {Absent}] /\ f.at \in Nat
  BY DEF None, Versions
<1>2. stale' \in BOOLEAN
  BY Zenon DEF Boot, Reads, Unread
<1>3. jobs' \in [Jobs -> Cfgs \cup {Absent}]
  BY <1>1 DEF Boot, Reads, Unread, Versions
<1>4. QED
  BY <1>1, <1>2, <1>3 DEF Boot, TypeOK

(* Every variable keeps its type.                                             *)
LEMMA TypeStep ==
  /\ Init => TypeOK
  /\ TypeOK /\ [Next]_vars => TypeOK'
<1> USE JobStoreAssumption DEF memory, file, saving
<1>1. Init => TypeOK
  <2>1. None \in Versions
    BY DEF None, Versions
  <2>2. ASSUME Init PROVE stale \in BOOLEAN /\ holder \in Procs \cup {Nobody}
    BY <2>2, Zenon DEF Init
  <2>3. ASSUME Init PROVE TypeOK
    BY <2>1, <2>2, <2>3 DEF Init, TypeOK, Versions
  <2>4. QED
    BY <2>3
<1>2. TypeOK /\ [Next]_vars => TypeOK'
  <2> SUFFICES ASSUME TypeOK, [Next]_vars PROVE TypeOK'
    OBVIOUS
  <2> USE DEF TypeOK, Versions, Nobody
  <2>1. ASSUME NEW p \in Procs, Snapshot(p) PROVE TypeOK'
    BY <2>1 DEF Snapshot, Now
  <2>2. ASSUME NEW p \in Procs, Rename(p) PROVE TypeOK'
    BY <2>2 DEF Rename, Now
  <2>3. ASSUME NEW p \in Procs, WriteFails(p) PROVE TypeOK'
    BY <2>3 DEF WriteFails, Now
  <2>4. ASSUME NEW p \in Procs, SyncDir(p) PROVE TypeOK'
    BY <2>4 DEF SyncDir, Now
  <2>5. ASSUME NEW p \in Procs, Answer(p) PROVE TypeOK'
    BY <2>5 DEF Answer, Now
  <2>6. ASSUME NEW p \in Procs, NEW j \in Jobs, Delete(p,j) PROVE TypeOK'
    BY <2>6 DEF Delete, Change, Now
  <2>7. ASSUME NEW p \in Procs, NEW j \in Jobs, NEW c \in Cfgs, Create(p,j,c) PROVE TypeOK'
    BY <2>7 DEF Create, Change, Now
  <2>8. ASSUME NEW p \in Procs, NEW j \in Jobs, NEW c \in Cfgs, Update(p,j,c) PROVE TypeOK'
    BY <2>8 DEF Update, Change, Now
  <2>9. CASE Crash
    <3>1. disk \in Versions /\ Boot(disk) /\ UNCHANGED file
      BY <2>9 DEF Crash
    <3> HIDE DEF Versions
    <3>2. QED
      BY <3>1, BootTyped
  <2>10. CASE PowerLoss
    <3> HIDE DEF Versions
    <3>1. CASE Boot(disk) /\ durable' = disk /\ UNCHANGED disk
      BY <3>1, BootTyped
    <3>2. CASE Boot(durable) /\ disk' = durable /\ UNCHANGED durable
      BY <3>2, BootTyped
    <3>3. QED
      BY <2>10, <3>1, <3>2 DEF PowerLoss
  <2>11. CASE UNCHANGED vars
    BY <2>11 DEF vars, Now
  <2>12. QED
    BY <2>1, <2>2, <2>3, <2>4, <2>5, <2>6, <2>7, <2>8, <2>9, <2>10, <2>11 DEF Next, Persist
<1>3. QED
  BY <1>1, <1>2

(* The versions stay in order.                                                *)
LEMMA OrderStep ==
  /\ Init => OrderInv
  /\ OrderInv /\ TypeOK /\ [Next]_vars => OrderInv'
<1> USE JobStoreAssumption DEF memory, file, saving
<1>1. Init => OrderInv
  BY DEF Init, None, Now, OrderInv, TypeOK, Versions, Nobody
<1>2. OrderInv /\ TypeOK /\ [Next]_vars => OrderInv'
  <2> SUFFICES ASSUME OrderInv, TypeOK, [Next]_vars PROVE OrderInv'
    OBVIOUS
  <2> USE DEF OrderInv, TypeOK, Versions, Nobody
  <2>1. ASSUME NEW p \in Procs, Snapshot(p) PROVE OrderInv'
    BY <2>1 DEF Snapshot, Now
  <2>2. ASSUME NEW p \in Procs, Rename(p) PROVE OrderInv'
    BY <2>2 DEF Rename, Now
  <2>3. ASSUME NEW p \in Procs, WriteFails(p) PROVE OrderInv'
    BY <2>3 DEF WriteFails, Now
  <2>4. ASSUME NEW p \in Procs, SyncDir(p) PROVE OrderInv'
    BY <2>4 DEF SyncDir, Now
  <2>5. ASSUME NEW p \in Procs, Answer(p) PROVE OrderInv'
    BY <2>5 DEF Answer, Now
  <2>6. ASSUME NEW p \in Procs, NEW j \in Jobs, Delete(p,j) PROVE OrderInv'
    BY <2>6 DEF Delete, Change, Now
  <2>7. ASSUME NEW p \in Procs, NEW j \in Jobs, NEW c \in Cfgs, Create(p,j,c) PROVE OrderInv'
    BY <2>7 DEF Create, Change, Now
  <2>8. ASSUME NEW p \in Procs, NEW j \in Jobs, NEW c \in Cfgs, Update(p,j,c) PROVE OrderInv'
    BY <2>8 DEF Update, Change, Now
  <2>9. CASE Crash
    BY <2>9 DEF Crash, Boot, Reads, Unread, Now, None
  <2>10. CASE PowerLoss
    BY <2>10 DEF PowerLoss, Boot, Reads, Unread, Now, None
  <2>11. CASE UNCHANGED vars
    BY <2>11 DEF vars, Now
  <2>12. QED
    BY <2>1, <2>2, <2>3, <2>4, <2>5, <2>6, <2>7, <2>8, <2>9, <2>10, <2>11 DEF Next, Persist
<1>3. QED
  BY <1>1, <1>2

(* Deletions are not forgotten.                                               *)
LEMMA KnowsStep ==
  /\ Init => KnowsInv
  /\ KnowsInv /\ TypeOK /\ OrderInv /\ [Next]_vars => KnowsInv'
<1> USE JobStoreAssumption DEF memory, file, saving
<1>1. Init => KnowsInv
  BY DEF Init, None, Now, KnowsInv, Knows, OrderInv, TypeOK, Versions, Nobody
<1>2. KnowsInv /\ TypeOK /\ OrderInv /\ [Next]_vars => KnowsInv'
  <2> SUFFICES ASSUME KnowsInv, TypeOK, OrderInv, [Next]_vars PROVE KnowsInv'
    OBVIOUS
  <2> USE DEF KnowsInv, Knows, OrderInv, TypeOK, Versions, Nobody
  <2>1. ASSUME NEW p \in Procs, Snapshot(p) PROVE KnowsInv'
    BY <2>1 DEF Snapshot, Now
  <2>2. ASSUME NEW p \in Procs, Rename(p) PROVE KnowsInv'
    BY <2>2 DEF Rename, Now
  <2>3. ASSUME NEW p \in Procs, WriteFails(p) PROVE KnowsInv'
    BY <2>3 DEF WriteFails, Now
  <2>4. ASSUME NEW p \in Procs, SyncDir(p) PROVE KnowsInv'
    BY <2>4 DEF SyncDir, Now
  <2>5. ASSUME NEW p \in Procs, Answer(p) PROVE KnowsInv'
    BY <2>5 DEF Answer, Now
  <2>6. ASSUME NEW p \in Procs, NEW j \in Jobs, Delete(p,j) PROVE KnowsInv'
    BY <2>6 DEF Delete, Change, Now
  <2>7. ASSUME NEW p \in Procs, NEW j \in Jobs, NEW c \in Cfgs, Create(p,j,c) PROVE KnowsInv'
    BY <2>7 DEF Create, Change, Now
  <2>8. ASSUME NEW p \in Procs, NEW j \in Jobs, NEW c \in Cfgs, Update(p,j,c) PROVE KnowsInv'
    BY <2>8 DEF Update, Change, Now
  <2>9. CASE Crash
    BY <2>9 DEF Crash, Boot, Reads, Unread, Now, None
  <2>10. CASE PowerLoss
    <3>1. CASE Boot(disk) /\ durable' = disk /\ UNCHANGED disk
      BY <3>1 DEF Boot, Reads, Unread, Now, None
    <3>2. CASE Boot(durable) /\ disk' = durable /\ UNCHANGED durable
      <4>1. Knows(durable)' /\ Knows(disk)'
        BY <3>2 DEF Boot
      <4>2. version' = durable.at /\ (jobs' = durable.of \/ jobs' = [j \in Jobs |-> Absent])
        BY <3>2 DEF Boot, Reads, Unread, None
      <4>3. Knows(Now)'
        BY <4>1, <4>2, <3>2 DEF Now
      <4>4. \A j \in Jobs : deletedAt'[j] <= version' /\ (deletedAt'[j] > 0 => j \in used')
        BY <3>2 DEF Boot
      <4>5. \A p \in Procs : pc'[p] = "idle"
        BY <3>2 DEF Boot
      <4>6. QED
        BY <4>1, <4>3, <4>4, <4>5
    <3>3. QED
      BY <2>10, <3>1, <3>2 DEF PowerLoss
  <2>11. CASE UNCHANGED vars
    BY <2>11 DEF vars, Now
  <2>12. QED
    BY <2>1, <2>2, <2>3, <2>4, <2>5, <2>6, <2>7, <2>8, <2>9, <2>10, <2>11 DEF Next, Persist
<1>3. QED
  BY <1>1, <1>2

(* Changes reach the file.                                                    *)
LEMMA SaveStep ==
  /\ Init => SaveInv
  /\ SaveInv /\ TypeOK /\ OrderInv /\ [Next]_vars => SaveInv'
<1> USE JobStoreAssumption DEF memory, file, saving
<1>1. Init => SaveInv
  BY DEF Init, None, Now, SaveInv, Pending, OrderInv, TypeOK, Versions, Nobody
<1>2. SaveInv /\ TypeOK /\ OrderInv /\ [Next]_vars => SaveInv'
  <2> SUFFICES ASSUME SaveInv, TypeOK, OrderInv, [Next]_vars PROVE SaveInv'
    OBVIOUS
  <2> USE DEF SaveInv, Pending, OrderInv, TypeOK, Versions, Nobody
  <2>1. ASSUME NEW p \in Procs, Snapshot(p) PROVE SaveInv'
    BY <2>1 DEF Snapshot, Now
  <2>2. ASSUME NEW p \in Procs, Rename(p) PROVE SaveInv'
    BY <2>2 DEF Rename, Now
  <2>3. ASSUME NEW p \in Procs, WriteFails(p) PROVE SaveInv'
    BY <2>3 DEF WriteFails, Now
  <2>4. ASSUME NEW p \in Procs, SyncDir(p) PROVE SaveInv'
    BY <2>4 DEF SyncDir, Now
  <2>5. ASSUME NEW p \in Procs, Answer(p) PROVE SaveInv'
    BY <2>5 DEF Answer, Now
  <2>6. ASSUME NEW p \in Procs, NEW j \in Jobs, Delete(p,j) PROVE SaveInv'
    BY <2>6 DEF Delete, Change, Now
  <2>7. ASSUME NEW p \in Procs, NEW j \in Jobs, NEW c \in Cfgs, Create(p,j,c) PROVE SaveInv'
    BY <2>7 DEF Create, Change, Now
  <2>8. ASSUME NEW p \in Procs, NEW j \in Jobs, NEW c \in Cfgs, Update(p,j,c) PROVE SaveInv'
    BY <2>8 DEF Update, Change, Now
  <2>9. CASE Crash
    BY <2>9 DEF Crash, Boot, Reads, Unread, Now, None
  <2>10. CASE PowerLoss
    BY <2>10 DEF PowerLoss, Boot, Reads, Unread, Now, None
  <2>11. CASE UNCHANGED vars
    BY <2>11 DEF vars, Now
  <2>12. QED
    BY <2>1, <2>2, <2>3, <2>4, <2>5, <2>6, <2>7, <2>8, <2>9, <2>10, <2>11 DEF Next, Persist
<1>3. QED
  BY <1>1, <1>2

(* The invariant the theorems rest on, whole.                                 *)
LEMMA Invariance == Spec => [](TypeOK /\ OrderInv /\ KnowsInv /\ SaveInv)
<1>1. Init => TypeOK /\ OrderInv /\ KnowsInv /\ SaveInv
  BY TypeStep, OrderStep, KnowsStep, SaveStep
<1>2. TypeOK /\ OrderInv /\ KnowsInv /\ SaveInv /\ [Next]_vars => TypeOK' /\ OrderInv' /\ KnowsInv' /\ SaveInv'
  BY TypeStep, OrderStep, KnowsStep, SaveStep
<1>3. QED
  BY <1>1, <1>2, PTL DEF Spec

(* Every variable keeps its type.                                             *)
THEOREM TypeCorrect == Spec => []TypeOK
<1>1. QED
  BY Invariance, PTL

(* A deletion that was saved is never undone (persist, NewManager).           *)
THEOREM DeletedCorrect == Spec => []DeletedStaysGone
<1>1. TypeOK /\ OrderInv /\ KnowsInv => DeletedStaysGone
  BY DEF TypeOK, Versions, OrderInv, KnowsInv, Knows, Now, DeletedStaysGone
<1>2. QED
  BY <1>1, Invariance, PTL

(* With nothing under way and the last save done, file and memory agree.      *)
THEOREM SettledCorrect == Spec => []SettledSaved
<1>1. SaveInv => SettledSaved
  BY Zenon DEF SaveInv, Pending, SettledSaved
<1>2. QED
  BY <1>1, Invariance, PTL

(* While the process lives the file's version never decreases (persist).      *)
THEOREM OrderCorrect == Spec => InOrder
<1>1. TypeOK /\ OrderInv /\ [Next]_vars => [restarts' = restarts => disk'.at >= disk.at]_vars
  <2> SUFFICES ASSUME TypeOK, OrderInv, [Next]_vars, restarts' = restarts
               PROVE disk'.at >= disk.at
    OBVIOUS
  <2> USE DEF TypeOK, Versions, memory, file, saving
  <2>1. ASSUME NEW p \in Procs, Rename(p) PROVE disk'.at >= disk.at
    BY <2>1 DEF Rename, OrderInv
  <2>2. CASE UNCHANGED disk
    BY <2>2
  <2>3. CASE Crash \/ PowerLoss
    <3>1. restarts' = restarts + 1
      BY <2>3 DEF Crash, PowerLoss, Boot
    <3>2. QED
      BY <3>1
  <2>4. QED
    BY <2>1, <2>2, <2>3 DEF Next, Persist, Snapshot, WriteFails, SyncDir, Answer, Create, Update, 
                            Delete, Change, vars
<1>2. QED
  BY <1>1, Invariance, PTL DEF Spec, InOrder

================================================================================
