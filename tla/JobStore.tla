-------------------------------- MODULE JobStore --------------------------------
(***************************************************************************)
(* syslog-hose's job definitions: the manager's map, and jobs.json, in     *)
(* which every change is saved (internal/engine/manager.go: NewManager,    *)
(* Create, Update, Delete, persist, writeFileAtomic).                      *)
(*                                                                         *)
(* Requests run concurrently.  Each changes the map under the manager's    *)
(* mutex and then saves it: persist takes persistMu, copies the map, and   *)
(* replaces the file with a temporary one, written, synced and renamed;    *)
(* then it syncs the directory.  Errors are logged, and the request        *)
(* answers all the same.  The process may die at any step, and the machine *)
(* too: a rename the directory's sync did not follow may then be undone.   *)
(***************************************************************************)
EXTENDS Naturals

CONSTANTS
  Procs,       (* the goroutines that serve the API                         *)
  Jobs,        (* the ids of the jobs it creates                            *)
  Cfgs,        (* their configurations                                      *)
  Absent,      (* no such job, and nobody                                   *)
  MaxChanges,  (* bound: changes to the map                                 *)
  MaxRestarts  (* bound: how often the process dies                         *)

ASSUME JobStoreAssumption ==
  /\ Absent \notin Cfgs \cup Procs
  /\ MaxChanges \in Nat /\ MaxRestarts \in Nat

VARIABLES
  jobs,        (* m.jobs                                                    *)
  used,        (* ids Create drew; it never draws one twice                 *)
  disk,        (* what jobs.json says                                       *)
  durable,     (* what it says after a power loss at worst                  *)
  holder,      (* who has persistMu, or Nobody                              *)
  pc,          (* where each request is                                     *)
  snap,        (* persist's copy of the map                                 *)
  stale,       (* history: the last save failed, or the file was not read   *)
  version,     (* history: the changes that led to jobs                     *)
  deletedAt,   (* history: the version from which on a job is deleted, or 0 *)
  restarts     (* history: how often the process died                       *)

memory == <<jobs, used, version, deletedAt>>
file   == <<disk, durable>>
saving == <<holder, pc, snap, stale>>
vars   == <<memory, file, saving, restarts>>

Nobody == Absent

(* A state of the map, with how many changes led to it.                       *)
Versions == [of : [Jobs -> Cfgs \cup {Absent}], at : Nat]

Now == [of |-> jobs, at |-> version]

None == [of |-> [j \in Jobs |-> Absent], at |-> 0]

TypeOK ==
  /\ jobs \in [Jobs -> Cfgs \cup {Absent}] /\ used \subseteq Jobs
  /\ disk \in Versions /\ durable \in Versions
  /\ holder \in Procs \cup {Nobody}
  /\ pc \in [Procs -> {"idle", "persist", "save", "sync", "unlock"}]
  /\ snap \in [Procs -> Versions]
  /\ stale \in BOOLEAN
  /\ version \in Nat /\ restarts \in Nat
  /\ deletedAt \in [Jobs -> Nat]

(* A first start: there is no jobs.json.                                      *)
Init ==
  /\ jobs = None.of /\ used = {} /\ version = 0
  /\ deletedAt = [j \in Jobs |-> 0]
  /\ disk = None /\ durable = None
  /\ holder = Nobody
  /\ pc = [p \in Procs |-> "idle"]
  /\ snap = [p \in Procs |-> None]
  /\ stale = FALSE /\ restarts = 0

-------------------------------------------------------------------------------
(* The requests' changes.  Invalid ones, and those whose job is missing or    *)
(* running, answer without one.                                               *)

Change(p, to) ==
  /\ pc[p] = "idle"
  /\ version < MaxChanges
  /\ jobs' = to
  /\ version' = version + 1
  /\ pc' = [pc EXCEPT ![p] = "persist"]
  /\ UNCHANGED <<file, holder, snap, stale, restarts>>

Create(p, j, c) ==
  /\ j \notin used
  /\ used' = used \cup {j}
  /\ Change(p, [jobs EXCEPT ![j] = c])
  /\ UNCHANGED deletedAt

Update(p, j, c) ==
  /\ jobs[j] # Absent
  /\ Change(p, [jobs EXCEPT ![j] = c])
  /\ UNCHANGED <<used, deletedAt>>

(* Mutant: a Delete that does not save.                                       *)
Delete_unsaved(p, j) ==
  /\ jobs[j] # Absent /\ pc[p] = "idle" /\ version < MaxChanges
  /\ jobs' = [jobs EXCEPT ![j] = Absent]
  /\ version' = version + 1
  /\ deletedAt' = [deletedAt EXCEPT ![j] = version + 1]
  /\ UNCHANGED <<used, file, saving, restarts>>

Delete(p, j) ==
  /\ jobs[j] # Absent
  /\ Change(p, [jobs EXCEPT ![j] = Absent])
  /\ deletedAt' = [deletedAt EXCEPT ![j] = version + 1]
  /\ UNCHANGED used

-------------------------------------------------------------------------------
(* persist.                                                                   *)

(* Mutant: persistMu spans the write only: the copy is taken before it.       *)
Snapshot_unlocked(p) ==
  /\ pc[p] = "persist"
  /\ \/ /\ snap[p] # Now
        /\ snap' = [snap EXCEPT ![p] = Now]
        /\ UNCHANGED <<pc, holder>>
     \/ /\ snap[p] # None
        /\ holder = Nobody
        /\ holder' = p
        /\ pc' = [pc EXCEPT ![p] = "save"]
        /\ UNCHANGED snap
  /\ UNCHANGED <<memory, file, stale, restarts>>

(* The mutex, then the copy, for which nothing is waited for.                 *)
Snapshot(p) ==
  /\ pc[p] = "persist" /\ holder = Nobody
  /\ holder' = p
  /\ snap' = [snap EXCEPT ![p] = Now]
  /\ pc' = [pc EXCEPT ![p] = "save"]
  /\ UNCHANGED <<memory, file, stale, restarts>>

Rename(p) ==
  /\ pc[p] = "save"
  /\ disk' = snap[p]
  /\ pc' = [pc EXCEPT ![p] = "sync"]
  /\ UNCHANGED <<memory, durable, holder, snap, stale, restarts>>

(* Mutant: a failed write returns without unlocking.                          *)
WriteFails_keepsLock(p) ==
  /\ pc[p] = "save"
  /\ stale' = TRUE
  /\ pc' = [pc EXCEPT ![p] = "idle"]
  /\ UNCHANGED <<memory, file, holder, snap, restarts>>

(* Creating, writing, syncing or renaming the temporary file failed.          *)
WriteFails(p) ==
  /\ pc[p] = "save"
  /\ stale' = TRUE
  /\ pc' = [pc EXCEPT ![p] = "unlock"]
  /\ UNCHANGED <<memory, file, holder, snap, restarts>>

(* The directory's sync makes the rename last; if the directory cannot even   *)
(* be opened the save counts as done; if its sync fails, as failed.           *)
SyncDir(p) ==
  /\ pc[p] = "sync"
  /\ \/ durable' = disk /\ stale' = FALSE
     \/ stale' = FALSE /\ UNCHANGED durable  \* it could not be opened
     \/ stale' = TRUE /\ UNCHANGED durable
  /\ pc' = [pc EXCEPT ![p] = "unlock"]
  /\ UNCHANGED <<memory, disk, holder, snap, restarts>>

Answer(p) ==
  /\ pc[p] = "unlock"
  /\ holder' = Nobody
  /\ pc' = [pc EXCEPT ![p] = "idle"]
  /\ UNCHANGED <<memory, file, snap, stale, restarts>>

-------------------------------------------------------------------------------
(* The process dies, and NewManager reads what is there.                      *)

Reads(f) == jobs' = f.of /\ stale' = FALSE

(* Any error of ReadFile is taken for a missing file.                         *)
Unread(f) == jobs' = None.of /\ stale' = TRUE

(* What was changed since the version it finds is not history any more.       *)
Boot(f) ==
  /\ restarts < MaxRestarts
  /\ restarts' = restarts + 1
  /\ Reads(f) \/ Unread(f)
  /\ version' = f.at
  /\ deletedAt' = [j \in Jobs |-> IF deletedAt[j] > f.at THEN 0 ELSE deletedAt[j]]
  /\ holder' = Nobody
  /\ pc' = [p \in Procs |-> "idle"]
  /\ snap' = [p \in Procs |-> None]
  /\ UNCHANGED used

Crash == Boot(disk) /\ UNCHANGED file

PowerLoss ==
  \/ Boot(disk) /\ durable' = disk /\ UNCHANGED disk
  \/ Boot(durable) /\ disk' = durable /\ UNCHANGED durable

-------------------------------------------------------------------------------
Persist(p) == Snapshot(p) \/ Rename(p) \/ WriteFails(p) \/ SyncDir(p) \/ Answer(p)

Next ==
  \/ \E p \in Procs : Persist(p)
  \/ \E p \in Procs, j \in Jobs : Delete(p, j) \/ \E c \in Cfgs : Create(p, j, c) \/ Update(p, j, c)
  \/ Crash \/ PowerLoss

Spec == Init /\ [][Next]_vars

(* A request is scheduled, and Go's mutex starves nobody: whoever waits for   *)
(* it gets it, though others take it in between.                              *)
Fairness ==
  \A p \in Procs :
    /\ SF_vars(Snapshot(p))
    /\ WF_vars(Rename(p) \/ WriteFails(p))
    /\ WF_vars(SyncDir(p))
    /\ WF_vars(Answer(p))

FairSpec == Spec /\ Fairness

-------------------------------------------------------------------------------
(* Properties.                                                                *)

(* "Deleted jobs can't come back" (CHANGELOG): once a save that a power loss  *)
(* leaves in place was made after a job's Delete, the job is neither in       *)
(* memory nor in the file, whatever is saved or dies later (persist 77-82).   *)
DeletedStaysGone ==
  \A j \in Jobs : deletedAt[j] > 0 /\ durable.at >= deletedAt[j] =>
    jobs[j] = Absent /\ disk.of[j] = Absent /\ durable.of[j] = Absent

(* With no request under way, the file says what the memory does, unless the  *)
(* last save failed or the file could not be read at the start: the requests  *)
(* that saved an older state than the last one left nothing of it.            *)
SettledSaved ==
  (\A p \in Procs : pc[p] = "idle") /\ ~stale => disk.of = jobs

(* An older state of the map never replaces a newer one in the file.          *)
InOrder == [][restarts' = restarts => disk'.at >= disk.at]_vars

(* Every request answers, though saves fail.                                  *)
RequestsAnswer == \A p \in Procs : pc[p] # "idle" ~> pc[p] = "idle"

(* "A crash or power cut leaves either the old or the new version" (README of *)
(* the hose): a job whose definition outlives a power cut is lost only to a   *)
(* Delete.  The code breaks this: see the README, "Unread job files".         *)
LastingStays ==
  [][\A j \in Jobs : durable.of[j] # Absent /\ durable'.of[j] = Absent => deletedAt[j] > 0]_vars
================================================================================
