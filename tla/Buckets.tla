------------------------------- MODULE Buckets -------------------------------
(***************************************************************************)
(* Saved searches of the bucket, their owners and their shares             *)
(* (internal/store/buckets.go, internal/api/crud.go and users.go): who may *)
(* change the shares of which search, and what is left when two save the   *)
(* share dialog at once, while accounts are edited and deleted.            *)
(*                                                                         *)
(* A request checks the bucket in one query and writes in a transaction of *)
(* its own, at PostgreSQL's READ COMMITTED: a statement sees the rows      *)
(* committed when it starts, and waits for rows another transaction holds. *)
(* The name, condition and position of a bucket are left out.              *)
(***************************************************************************)
EXTENDS Integers, Sequences, FiniteSets

CONSTANTS
  Member,           \* accounts, with their first roles:
  FirstRole,        \* [Member -> {"admin", "analyst", "viewer"}]
  Saver,            \* requests that may run at once
  MaxBuckets,       \* bound: buckets created
  MaxSaves,         \* bound: share dialogs saved
  MaxAccountEdits   \* bound: roles changed and accounts deleted

ASSUME BucketsAssumption ==
  /\ FirstRole \in [Member -> {"admin", "analyst", "viewer"}]
  /\ {MaxBuckets, MaxSaves, MaxAccountEdits} \subseteq Nat

VARIABLES
  role,      \* users.role, "gone" for a deleted account
  owner,     \* buckets: [id -> owner or "none"]
  shares,    \* bucket_shares: set of [bucket, user, edit]
  save,      \* a request: [at, bucket, list, snapshot, alone]
  kept,      \* the last list saved: [bucket -> [rows, alone]]
  made,      \* buckets created
  saves,     \* dialogs saved
  roleEdits  \* accounts edited

bucketVars == <<role, owner, shares, save, kept, made, saves, roleEdits>>

NoSave == [at |-> "none", bucket |-> 0, list |-> {}, snapshot |-> {}, alone |-> TRUE]

BucketsInit ==
  /\ role = FirstRole /\ owner = <<>> /\ shares = {} /\ save = [h \in Saver |-> NoSave]
  /\ kept = <<>> /\ made = 0 /\ saves = 0 /\ roleEdits = 0

Live == {u \in Member : role[u] # "gone"}
Writes(u) == role[u] \in {"admin", "analyst"}       \* viewers: Middleware refuses what is not GET

-----------------------------------------------------------------------------
(* Buckets and who may see and manage them.                                  *)

(* By a user, or "none" at the first start (SeedDefaultBuckets).             *)
CreateBucket(u) ==
  /\ made < MaxBuckets /\ made' = made + 1
  /\ u = "none" \/ (u \in Live /\ Writes(u))
  /\ owner' = Append(owner, u)
  /\ kept' = Append(kept, [rows |-> {}, alone |-> TRUE])
  /\ UNCHANGED <<role, shares, save, saves, roleEdits>>

Visible(u, b) == \/ owner[b] \in {"none", u} \/ role[u] = "admin"
                 \/ \E s \in shares : s.bucket = b /\ s.user = u
canManageBucket(u, b) == \/ role[u] = "admin"
                         \/ owner[b] = "none" /\ role[u] = "analyst"
                         \/ owner[b] = u

(* Rows that another transaction holds: those it deleted or inserted.        *)
Holds(h, b) == IF save[h].at = "inserted" /\ save[h].bucket = b THEN save[h].snapshot \cup save[h].list
               ELSE IF save[h].at = "deleted" /\ save[h].bucket = b THEN save[h].snapshot ELSE {}
Held(h, b, users) == \E o \in Saver \ {h} : \E s \in Holds(o, b) : s.user \in users
Users(rows) == {s.user : s \in rows}

DeleteBucket(u, b) ==
  /\ u \in Live /\ Writes(u) /\ owner[b] # "deleted" /\ Visible(u, b) /\ canManageBucket(u, b)
  /\ \A h \in Saver : Holds(h, b) = {}                \* its row is referenced until they end
  /\ owner' = [owner EXCEPT ![b] = "deleted"]
  /\ shares' = {s \in shares : s.bucket # b}
  /\ kept' = [kept EXCEPT ![b].rows = {}]
  /\ UNCHANGED <<role, save, made, saves, roleEdits>>

-----------------------------------------------------------------------------
(* putBucketShares: the check, then ReplaceBucketShares.                     *)

Set(h, s) == save' = [save EXCEPT ![h] = s]

CheckShares(h, u, b, list) ==
  /\ save[h].at = "none" /\ saves < MaxSaves /\ saves' = saves + 1
  /\ u \in Live /\ Writes(u) /\ owner[b] # "deleted" /\ Visible(u, b) /\ canManageBucket(u, b)
  /\ Set(h, [at |-> "checked", bucket |-> b, list |-> list, snapshot |-> {}, alone |-> TRUE])
  /\ UNCHANGED <<role, owner, shares, kept, made, roleEdits>>

InTransaction(o, b) == save[o].bucket = b /\ save[o].at \in {"begun", "deleted", "inserted"}

(* BEGIN, and the DELETE takes its snapshot.                                 *)
BeginReplace(h) ==
  LET b == save[h].bucket
      others == {o \in Saver \ {h} : InTransaction(o, b)}
  IN
  /\ save[h].at = "checked"
  /\ save' = [o \in Saver |->
       IF o = h THEN [save[h] EXCEPT !.at = "begun", !.alone = others = {},
                                     !.snapshot = {s \in shares : s.bucket = b}]
       ELSE IF o \in others THEN [save[o] EXCEPT !.alone = FALSE] ELSE save[o]]
  /\ UNCHANGED <<role, owner, shares, kept, made, saves, roleEdits>>

(* The DELETE waits for rows that are held, and skips those that are gone.   *)
DeleteShares(h) ==
  /\ save[h].at = "begun" /\ ~Held(h, save[h].bucket, Users(save[h].snapshot))
  /\ Set(h, [save[h] EXCEPT !.at = "deleted", !.snapshot = @ \cap shares])
  /\ UNCHANGED <<role, owner, shares, kept, made, saves, roleEdits>>

(* The INSERTs wait for held keys; one fails if the bucket or a user is gone.*)
InsertShares(h) ==
  /\ save[h].at = "deleted" /\ ~Held(h, save[h].bucket, Users(save[h].list))
  /\ save[h].list = {} \/ owner[save[h].bucket] # "deleted"
  /\ Users(save[h].list) \subseteq Live
  /\ Set(h, [save[h] EXCEPT !.at = "inserted"])
  /\ UNCHANGED <<role, owner, shares, kept, made, saves, roleEdits>>

(* Mutant: the shares are added to those there are.                          *)
X_Replaced(s) == {r \in shares : r.bucket # s.bucket \/ r.user \notin Users(s.list)} \cup s.list

(* An upsert also takes over rows that another transaction has committed.    *)
Replaced(s) ==
  {r \in shares \ s.snapshot : r.bucket # s.bucket \/ r.user \notin Users(s.list)} \cup s.list

CommitShares(h) ==
  LET s == save[h] IN
  /\ s.at = "inserted" /\ Set(h, NoSave)
  /\ shares' = Replaced(s)
  /\ kept' = [kept EXCEPT ![s.bucket] =
                [rows |-> IF s.alone THEN s.list ELSE @.rows \cup s.list, alone |-> s.alone]]
  /\ UNCHANGED <<role, owner, made, saves, roleEdits>>

(* The client is gone, a reference is missing, or PostgreSQL gives up.       *)
RollbackShares(h) ==
  /\ save[h].at # "none" /\ Set(h, NoSave)
  /\ UNCHANGED <<role, owner, shares, kept, made, saves, roleEdits>>

-----------------------------------------------------------------------------
(* Accounts.                                                                 *)

ChangeRole(u, r) ==
  /\ roleEdits < MaxAccountEdits /\ roleEdits' = roleEdits + 1
  /\ u \in Live /\ r # role[u] /\ role' = [role EXCEPT ![u] = r]
  /\ UNCHANGED <<owner, shares, save, kept, made, saves>>

(* Mutant: shares of the account stay.                                       *)
X_WithoutUser(u) == shares

WithoutUser(u) == {s \in shares : s.user # u}

(* The buckets of the account become yard buckets.                           *)
RemoveAccount(u) ==
  /\ roleEdits < MaxAccountEdits /\ roleEdits' = roleEdits + 1
  /\ u \in Live /\ \E a \in Live \ {u} : role[a] = "admin"
  /\ \A h \in Saver, b \in DOMAIN owner : \A s \in Holds(h, b) : s.user # u
  /\ role' = [role EXCEPT ![u] = "gone"]
  /\ owner' = [b \in DOMAIN owner |-> IF owner[b] = u THEN "none" ELSE owner[b]]
  /\ shares' = WithoutUser(u)
  /\ kept' = [b \in DOMAIN kept |-> [kept[b] EXCEPT !.rows = {s \in @ : s.user # u}]]
  /\ UNCHANGED <<save, made, saves>>

Lists(b) == {{[bucket |-> b, user |-> u, edit |-> e[u]] : u \in DOMAIN e} :
               e \in UNION {[S -> BOOLEAN] : S \in SUBSET Member}}

BucketsNext ==
  \/ \E u \in Member \cup {"none"} : CreateBucket(u)
  \/ \E u \in Member, b \in DOMAIN owner : DeleteBucket(u, b)
  \/ \E u \in Member, b \in DOMAIN owner, h \in Saver : \E l \in Lists(b) : CheckShares(h, u, b, l)
  \/ \E h \in Saver : \/ BeginReplace(h) \/ DeleteShares(h) \/ InsertShares(h)
                      \/ CommitShares(h) \/ RollbackShares(h)
  \/ \E u \in Member : RemoveAccount(u) \/ \E r \in {"admin", "analyst", "viewer"} : ChangeRole(u, r)

BucketsSpec == BucketsInit /\ [][BucketsNext]_bucketVars

-----------------------------------------------------------------------------
(* When the saves of a dialog do not overlap, the last one is what counts:   *)
(* nobody keeps a share it does not list.  When they do, the shares are some *)
(* of the lists that overlapped, no two for one user, and none for a user or *)
(* a bucket that is gone.                                                    *)
SharesReplaced ==
  /\ \A b \in DOMAIN owner :
       LET rows == {s \in shares : s.bucket = b} IN
       IF kept[b].alone THEN rows = kept[b].rows ELSE rows \subseteq kept[b].rows
  /\ \A r, s \in shares : r.bucket = s.bucket /\ r.user = s.user => r = s
  /\ \A s \in shares : s.user \in Live /\ owner[s.bucket] # "deleted"
=============================================================================
