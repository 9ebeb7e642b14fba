------------------------------ MODULE Sessions ------------------------------
(***************************************************************************)
(* Accounts and sessions of the bucket, with everything that goes on using *)
(* a session after it was checked: a request in flight, an open live tail  *)
(* and the verification cache of the hose and the valve.  Time is counted  *)
(* in ticks of 30 seconds.  One statement of PostgreSQL is one step; what  *)
(* a handler read earlier stays in its record op[p].                       *)
(***************************************************************************)
EXTENDS Integers, FiniteSets, FiniteSetsExt, Functions

CONSTANTS User, Root,      \* account ids; the account "admin" of Bootstrap
          Proc,            \* requests that can be served at the same time
          Watched,         \* the tokens shown to the guard and the live tail
          MaxToken, MaxTime, MaxEdits,  \* bounds: tokens, ticks, edits of accounts
          Idles,           \* idle timeouts an administrator may set
          Role,            \* the roles accounts may have
          CacheTTL, RecheckEvery     \* yardauth's cacheTTL, ws's recheck

ASSUME SessionsAssumption ==
  /\ Watched \subseteq 1..MaxToken
  /\ Root \in User
  /\ {MaxToken, MaxTime, MaxEdits, CacheTTL, RecheckEvery} \subseteq Nat
  /\ Idles \subseteq Nat \ {0} /\ \E longest \in Idles : \A i \in Idles : i <= longest

VARIABLES clock, users, sess, idleTTL, issued, edits, op, cache, tails,
          seen  \* history: when a token last stood for a live session of a role

sessVars == <<clock, users, sess, idleTTL, issued, edits, op, cache, tails, seen>>

ASSUME RoleAssumption ==
  Role \subseteq {"viewer", "analyst", "admin"} /\ {"viewer", "admin"} \subseteq Role
roleRank == [viewer |-> 1, analyst |-> 2, admin |-> 3]
Resting == [at |-> "rest"]
None == 0  \* the password of an account that signs in by OIDC only

(* Sessions as GetSessionUser sees them. *)
SessionActive(tk) == /\ tk \in DOMAIN sess
                     /\ clock < sess[tk].until
                     /\ ~users[sess[tk].user].disabled
RoleOf(tk) == users[sess[tk].user].role
TokensOf(u) == {tk \in DOMAIN sess : sess[tk].user = u}
Without(f, S) == Restrict(f, DOMAIN f \ S)
With(f, k, v) == [x \in DOMAIN f \cup {k} |-> IF x = k THEN v ELSE f[x]]

SessInit ==
  /\ clock = 0
  /\ users \in [User -> {[is |-> "new", role |-> "viewer", disabled |-> FALSE, pw |-> None],
                         [is |-> "here", role |-> "admin", disabled |-> FALSE, pw |-> 1]}]
  /\ users[Root].is = "here"
  /\ sess = <<>> /\ cache = <<>> /\ tails = <<>>
  /\ idleTTL = Max(Idles)
  /\ issued = 0 /\ edits = 1  \* an edit gives its number to the password it sets
  /\ op = [p \in Proc |-> Resting]
  /\ seen = [tk \in Watched |-> [r \in Role |-> -1]]

Go(p, step) == op' = [op EXCEPT ![p] = step]
(* An answer is written: the handler is done. *)
Answer(p) == Go(p, Resting)

-----------------------------------------------------------------------------
(* Signing in. *)

Issuing(u, pw) == [at |-> "issue", user |-> u, pw |-> pw, idle |-> idleTTL, old |-> 0]

(* A password that is right for the row read here; wrong ones are Throttle's. *)
HandleLogin(p, u) ==
  /\ op[p] = Resting
  /\ users[u].is = "here" /\ ~users[u].disabled /\ users[u].pw # None
  /\ Go(p, Issuing(u, users[u].pw))
  /\ UNCHANGED <<users, sess, idleTTL, issued, edits, cache, tails>>

(* The account of an OIDC subject is found, or made with the default role; *)
(* of two first sign-ins of a subject the second fails on the unique index.*)
userForSubject(u) ==
  \/ users[u].is = "here" /\ users[u].pw = None /\ UNCHANGED users
  \/ users[u].is = "new" /\ users' = [users EXCEPT ![u].is = "here"]

HandleOIDCCallback(p, u) ==
  /\ op[p] = Resting
  /\ userForSubject(u)
  /\ ~users'[u].disabled
  /\ Go(p, Issuing(u, None))
  /\ UNCHANGED <<sess, idleTTL, issued, edits, cache, tails>>

Unexpired == Restrict(sess, {tk \in DOMAIN sess : clock <= sess[tk].until})

(* The hose and the valve pass a password change on, and forget the token  *)
(* that the answer replaces.                                               *)
ProxyForgets(tk) == cache' \in {cache, Without(cache, {tk})}

(* Account a should have no session that was opened with password pw.      *)
Outdated(a, pw) == a.disabled \/ (pw # None /\ pw # a.pw)

(* CreateSession: the expired rows go and the new one is inserted.  The    *)
(* idle timeout was read some time before.  What a reader should know of   *)
(* the row is kept with it: `late` if the account changed since its        *)
(* password was checked, `long` if the timeout did.                        *)
IssueSession(p) ==
  /\ op[p].at = "issue" /\ issued < MaxToken
  /\ LET u == op[p].user IN
     /\ users[u].is = "here"
     /\ issued' = issued + 1
     /\ \E i \in {op[p].idle, idleTTL} :
          sess' = With(Unexpired, issued',
                       [user |-> u, until |-> clock + i, pw |-> op[p].pw,
                        late |-> Outdated(users[u], op[p].pw),
                        long |-> i > idleTTL])
  /\ ProxyForgets(op[p].old)
  /\ Answer(p)
  /\ UNCHANGED <<users, idleTTL, edits, tails>>

(* One of its two statements fails: no connection, or the account is gone. *)
IssueFails(p) ==
  /\ op[p].at = "issue"
  /\ sess' \in {sess, Unexpired}
  /\ Answer(p)
  /\ UNCHANGED <<users, idleTTL, issued, edits, cache, tails>>

-----------------------------------------------------------------------------
(* A request with a session cookie. *)

(* Middleware reads the account once; the handler uses what it read. *)
Middleware(p, tk) ==
  /\ op[p] = Resting /\ SessionActive(tk)
  /\ Go(p, [at |-> "slide", token |-> tk, user |-> sess[tk].user, role |-> RoleOf(tk),
            pw |-> users[sess[tk].user].pw, idle |-> idleTTL])
  /\ UNCHANGED <<users, sess, idleTTL, issued, edits, cache, tails>>

Throttled(i) == Min({2, i \div 2})
Slid(tk, i) ==
  IF tk \in DOMAIN sess /\ sess[tk].until < clock + i - Throttled(i)
  THEN [sess EXCEPT ![tk].until = clock + i, ![tk].long = i > idleTTL]
  ELSE sess

(* Any authenticated request pushes the session's expiry forward; when     *)
(* that fails the request goes on.                                         *)
SlideSession(p) ==
  /\ op[p].at = "slide"
  /\ sess' \in {sess, Slid(op[p].token, op[p].idle)}
  /\ Go(p, [op[p] EXCEPT !.at = "handle"])
  /\ UNCHANGED <<users, idleTTL, issued, edits, cache, tails>>

Handling(p) == op[p].at = "handle"
AsAdmin(p) == Handling(p) /\ op[p].role = "admin"
Step(p, at) == Go(p, [op[p] EXCEPT !.at = at])

(* A request that reads, or one that is refused for its role or its body. *)
HandleRead(p) ==
  /\ Handling(p) /\ Answer(p)
  /\ UNCHANGED <<users, sess, idleTTL, issued, edits, cache, tails>>

(* HandleLogout ignores an error of the DELETE. *)
HandleLogout(p) ==
  /\ Handling(p)
  /\ sess' \in {sess, Without(sess, {op[p].token})}
  /\ Answer(p)
  /\ UNCHANGED <<users, idleTTL, issued, edits, cache, tails>>

Edit == edits < MaxEdits /\ edits' = edits + 1
WithPassword(u, pw) == [users EXCEPT ![u].pw = IF users[u].is = "here" THEN pw ELSE @]

(* DeleteUserSessions; when it fails, or is never reached, the rows stay,  *)
(* and those that the account should not have any more are marked.         *)
Revoked(u) == Without(sess, TokensOf(u))
NotRevoked(u, a) == [tk \in DOMAIN sess |->
                       IF sess[tk].user = u /\ Outdated(a, sess[tk].pw)
                       THEN [sess[tk] EXCEPT !.late = TRUE] ELSE sess[tk]]

(* A statement that writes the account fails, or its answer is lost after  *)
(* it committed, or the process ends there: nothing is revoked.            *)
GivesUp(p, written) ==
  /\ users' \in {users, written}
  /\ sess' = NotRevoked(op[p].user, users'[op[p].user])
  /\ Answer(p)

(* HandlePassword: the old password is compared with what Middleware read. *)
HandlePassword(p) ==
  /\ Handling(p) /\ op[p].pw # None
  /\ Edit
  /\ LET written == WithPassword(op[p].user, edits') IN
     \/ /\ users' = written
        /\ Go(p, [at |-> "revokeOwn", user |-> op[p].user, pw |-> edits',
                  old |-> op[p].token])
        /\ UNCHANGED sess
     \/ GivesUp(p, written)
  /\ UNCHANGED <<idleTTL, issued, cache, tails>>

(* The error is ignored: the handler goes on to a fresh session. *)
RevokeOwn(p) ==
  /\ op[p].at = "revokeOwn"
  /\ sess' \in {Revoked(op[p].user), NotRevoked(op[p].user, users[op[p].user])}
  /\ Go(p, [Issuing(op[p].user, op[p].pw) EXCEPT !.old = op[p].old])
  /\ UNCHANGED <<users, idleTTL, issued, edits, cache, tails>>

-----------------------------------------------------------------------------
(* Accounts, edited by administrators. *)

CreateUser(p, u, r) ==
  /\ AsAdmin(p) /\ users[u].is = "new" /\ Edit
  /\ users' = [users EXCEPT ![u] = [is |-> "here", role |-> r, disabled |-> FALSE, pw |-> edits']]
  /\ Answer(p)
  /\ UNCHANGED <<sess, idleTTL, issued, cache, tails>>

(* Mutant: disabling an account leaves its sessions. *)
X_sessionsRevokedBy(before, r, off, reset) == reset \/ roleRank[r] < roleRank[before.role]

sessionsRevokedBy(before, r, off, reset) ==
  off \/ reset \/ roleRank[r] < roleRank[before.role]

(* updateUser reads the account before it writes it ... *)
UpdateUserReads(p, u, r, off, reset) ==
  /\ AsAdmin(p) /\ users[u].is = "here" /\ Edit
  /\ u = op[p].user => r = "admin" /\ ~off
  /\ Go(p, [at |-> "update", user |-> u, role |-> r, off |-> off, reset |-> reset, pw |-> edits',
            kills |-> sessionsRevokedBy(users[u], r, off, reset)])
  /\ UNCHANGED <<users, sess, idleTTL, issued, cache, tails>>

(* ... and takes the profile, the password and the sessions one by one. *)
UpdateUser(p) ==
  /\ op[p].at = "update"
  /\ LET u == op[p].user
         written ==
           [users EXCEPT ![u].role = IF users[u].is = "here" THEN op[p].role ELSE @,
                         ![u].disabled = IF users[u].is = "here" THEN op[p].off ELSE @]
     IN
     \/ /\ users' = written
        /\ CASE users[u].is # "here" -> Answer(p)
             [] op[p].reset -> Step(p, "setPassword")
             [] op[p].kills -> Step(p, "revoke")
             [] OTHER -> Answer(p)
        /\ UNCHANGED sess
     \/ GivesUp(p, written)
  /\ UNCHANGED <<idleTTL, issued, edits, cache, tails>>

(* The account may be disabled by now, and its sessions stay if this fails. *)
SetPassword(p) ==
  /\ op[p].at = "setPassword"
  /\ LET written == WithPassword(op[p].user, op[p].pw) IN
     \/ users' = written /\ Step(p, "revoke") /\ UNCHANGED sess
     \/ GivesUp(p, written)
  /\ UNCHANGED <<idleTTL, issued, edits, cache, tails>>

(* A failure is answered with 500, after the account was changed. *)
RevokeSessions(p) ==
  /\ op[p].at = "revoke"
  /\ sess' \in {Revoked(op[p].user), NotRevoked(op[p].user, users[op[p].user])}
  /\ Answer(p)
  /\ UNCHANGED <<users, idleTTL, issued, edits, cache, tails>>

(* `syslog-bucket reset-admin`, a process of its own. *)
ResetAdmin(p) ==
  /\ op[p] = Resting /\ users[Root].is = "here" /\ Edit
  /\ Go(p, [at |-> "update", user |-> Root, role |-> "admin", off |-> FALSE,
            reset |-> TRUE, pw |-> edits', kills |-> TRUE])
  /\ UNCHANGED <<users, sess, idleTTL, issued, cache, tails>>

(* The sessions go with the account (ON DELETE CASCADE). *)
DeleteUser(p, u) ==
  /\ AsAdmin(p) /\ u # op[p].user /\ users[u].is = "here" /\ Edit
  /\ users' = [users EXCEPT ![u] = [@ EXCEPT !.is = "gone", !.disabled = FALSE, !.pw = None]]
  /\ sess' = Revoked(u)
  /\ Answer(p)
  /\ UNCHANGED <<idleTTL, issued, cache, tails>>

(* putSessionSettings: first what is issued from now on ... *)
SetIdleTTL(p, i) ==
  /\ AsAdmin(p)
  /\ idleTTL' = i
  /\ Go(p, [at |-> "cap", idle |-> i])
  /\ UNCHANGED <<users, sess, issued, edits, cache, tails>>

(* Mutant: a lower timeout holds for new sessions only. *)
X_CapSessionExpiry(p) ==
  /\ op[p].at = "cap"
  /\ Answer(p)
  /\ UNCHANGED <<users, sess, idleTTL, issued, edits, cache, tails>>

(* ... then what was issued before; an error is logged only. *)
CapSessionExpiry(p) ==
  /\ op[p].at = "cap"
  /\ sess' \in {[tk \in DOMAIN sess |->
                    [sess[tk] EXCEPT !.until = Min({@, clock + op[p].idle}),
                                     !.long = @ /\ op[p].idle > idleTTL]],
                [tk \in DOMAIN sess |-> [sess[tk] EXCEPT !.long = TRUE]]}
  /\ Answer(p)
  /\ UNCHANGED <<users, idleTTL, issued, edits, cache, tails>>

-----------------------------------------------------------------------------
(* The live tail of the bucket: checked at the start and by the ticker. *)

ServeTail(p) ==
  /\ Handling(p) /\ op[p].token \in Watched
  /\ tails' = With(tails, op[p].token, [opened |-> clock, due |-> clock + RecheckEvery])
  /\ Answer(p)
  /\ UNCHANGED <<users, sess, idleTTL, issued, edits, cache>>

(* Mutant: the poll looks for the row of the session only. *)
X_RecheckTail(tk) ==
  /\ tk \in DOMAIN tails /\ tails[tk].due = clock
  /\ tails' = IF tk \in DOMAIN sess THEN [tails EXCEPT ![tk].due = clock + RecheckEvery]
              ELSE Without(tails, {tk})
  /\ UNCHANGED <<users, sess, idleTTL, issued, edits, op, cache>>

RecheckTail(tk) ==
  /\ tk \in DOMAIN tails /\ tails[tk].due = clock
  /\ tails' = IF SessionActive(tk) THEN [tails EXCEPT ![tk].due = clock + RecheckEvery]
              ELSE Without(tails, {tk})
  /\ UNCHANGED <<users, sess, idleTTL, issued, edits, op, cache>>

TailEnds(tk) ==
  /\ tk \in DOMAIN tails
  /\ tails' = Without(tails, {tk})
  /\ UNCHANGED <<users, sess, idleTTL, issued, edits, op, cache>>

-----------------------------------------------------------------------------
(* The guard of the hose and the valve (yardauth). *)

Cached(tk) == tk \in DOMAIN cache /\ clock < cache[tk].until

(* verify: a miss is asked of the bucket; what it stores is counted from   *)
(* before the question.                                                    *)
Verify(p, tk) ==
  /\ op[p] = Resting /\ tk <= issued /\ ~Cached(tk)
  /\ Go(p, [at |-> "asking", token |-> tk, now |-> clock])
  /\ UNCHANGED <<users, sess, idleTTL, issued, edits, cache, tails>>

BucketAnswersMe(p) ==
  /\ op[p].at = "asking"
  /\ LET tk == op[p].token IN
     \/ /\ SessionActive(tk)
        /\ sess' \in {sess, Slid(tk, idleTTL)}
        /\ \/ Go(p, [at |-> "told", token |-> tk, now |-> op[p].now, role |-> RoleOf(tk)])
           \/ Answer(p)             \* the answer is lost
     \/ Answer(p) /\ UNCHANGED sess  \* 401, or the bucket cannot be reached
  /\ UNCHANGED <<users, idleTTL, issued, edits, cache, tails>>

(* Mutant: the entry's life is counted from when it is stored. *)
X_StoreVerified(p) ==
  /\ op[p].at = "told"
  /\ cache' = With(cache, op[p].token, [role |-> op[p].role, until |-> clock + CacheTTL])
  /\ Answer(p)
  /\ UNCHANGED <<users, sess, idleTTL, issued, edits, tails>>

StoreVerified(p) ==
  /\ op[p].at = "told"
  /\ LET fresh == Restrict(cache, {tk \in DOMAIN cache : op[p].now <= cache[tk].until})
     IN  cache' = With(fresh, op[p].token, [role |-> op[p].role, until |-> op[p].now + CacheTTL])
  /\ Answer(p)
  /\ UNCHANGED <<users, sess, idleTTL, issued, edits, tails>>

(* handleLogout forgets the token, then tells the bucket if it can. *)
GuardLogout(p, tk) ==
  /\ op[p] = Resting /\ tk <= issued
  /\ cache' = Without(cache, {tk})
  /\ Go(p, [at |-> "proxyLogout", token |-> tk])
  /\ UNCHANGED <<users, sess, idleTTL, issued, edits, tails>>

BucketLogsOut(p) ==
  /\ op[p].at = "proxyLogout"
  /\ sess' \in {sess, IF SessionActive(op[p].token) THEN Without(sess, {op[p].token}) ELSE sess}
  /\ Answer(p)
  /\ UNCHANGED <<users, idleTTL, issued, edits, cache, tails>>

-----------------------------------------------------------------------------
(* Time.  A ticker that is due is served before time goes on. *)
Tick ==
  /\ clock < MaxTime
  /\ \A tk \in DOMAIN tails : clock < tails[tk].due
  /\ clock' = clock + 1
  /\ UNCHANGED <<users, sess, idleTTL, issued, edits, op, cache, tails>>

Changes ==
  \/ \E p \in Proc :
       \/ \E u \in User :
            \/ HandleLogin(p, u) \/ HandleOIDCCallback(p, u) \/ DeleteUser(p, u)
            \/ \E r \in Role : CreateUser(p, u, r)
            \/ \E r \in Role, off, reset \in BOOLEAN : UpdateUserReads(p, u, r, off, reset)
       \/ \E tk \in 1..issued : Middleware(p, tk)
       \/ \E tk \in Watched : Verify(p, tk) \/ GuardLogout(p, tk)
       \/ \E i \in Idles : SetIdleTTL(p, i)
       \/ IssueSession(p) \/ IssueFails(p)
       \/ SlideSession(p) \/ HandleRead(p) \/ HandleLogout(p)
       \/ HandlePassword(p) \/ RevokeOwn(p)
       \/ UpdateUser(p) \/ SetPassword(p) \/ RevokeSessions(p) \/ ResetAdmin(p)
       \/ CapSessionExpiry(p) \/ ServeTail(p)
       \/ BucketAnswersMe(p) \/ StoreVerified(p) \/ BucketLogsOut(p)
  \/ \E tk \in Watched : RecheckTail(tk) \/ TailEnds(tk)

SessNext ==
  /\ \/ Changes /\ UNCHANGED clock
     \/ Tick
  /\ seen' = [tk \in Watched |-> [r \in Role |->
                IF SessionActive(tk)' /\ RoleOf(tk)' = r THEN clock' ELSE seen[tk][r]]]

SessSpec == SessInit /\ [][SessNext]_sessVars

-----------------------------------------------------------------------------
(* What the hose or the valve accepts from its cache was a live session of *)
(* that role within the last CacheTTL, however verifications, logouts and  *)
(* edits of the account overlap (yardauth.verify, "bounds revocation lag").*)
CacheLag == \A tk \in DOMAIN cache :
              clock < cache[tk].until => clock < seen[tk][cache[tk].role] + CacheTTL

(* An open live tail had a live session since it was opened, or within the *)
(* last RecheckEvery (Hub.Serve's poll of SessionActive).                  *)
LastSeen(tk) == Max({seen[tk][r] : r \in Role})
TailLag == \A tk \in DOMAIN tails :
             clock <= Max({LastSeen(tk), tails[tk].opened}) + RecheckEvery

(* No session outlives the password it was opened with, nor is there one   *)
(* for a disabled account to find when it is enabled again - but where the *)
(* account changed between the check of a password and the insert of the   *)
(* session; where the handler that changed the account failed after that   *)
(* statement, in the next one, in DeleteUserSessions, or by a lost answer  *)
(* (HandlePassword, updateUser, ResetAdmin); and until it gets there.  Of  *)
(* these only the rows that were wrong at that moment are excused.         *)
BeingRevoked(u) == \E p \in Proc : /\ op[p].at \in {"setPassword", "revoke", "revokeOwn"}
                                   /\ op[p].user = u
OldSessionsGone ==
  \A tk \in DOMAIN sess :
    LET s == sess[tk] IN
    Outdated(users[s.user], s.pw) => s.late \/ BeingRevoked(s.user)

(* Every session ends within the idle timeout in force, once sessions are  *)
(* capped - but those of requests that read the timeout before it was      *)
(* lowered (putSessionSettings, SlideSession, CreateSession).              *)
IdleHeld ==
  \A tk \in DOMAIN sess :
    \/ sess[tk].until <= clock + idleTTL
    \/ sess[tk].long
    \/ \E p \in Proc : op[p].at = "cap" /\ op[p].idle <= idleTTL

(* No session outlives what it rests on: its password, its account, or the *)
(* idle timeout.                                                           *)
SessionsEnd == OldSessionsGone /\ IdleHeld
=============================================================================
