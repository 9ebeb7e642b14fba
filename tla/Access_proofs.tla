--------------------------- MODULE Access_proofs ----------------------------
(***************************************************************************)
(* Who may do what in the bucket, for every number of users, tokens, parallel*)
(* requests and timeouts, addresses and attempts, owners and shares: what a*)
(* revocation may leave behind, how many guesses are let through, and what a*)
(* list of shares replaces.                                                *)
(*                                                                         *)
(* TypeInv also says what a request keeps between two of its steps.        *)
(* TimeInv ties an entry of the cache and the next recheck of a tail to    *)
(* the last moment the token stood for a live session of that role.        *)
(* EndInv says that a row whose account is off, or whose password was      *)
(* replaced, is about to be revoked or was late: made by a sign-in that    *)
(* had checked the account before.                                         *)
(***************************************************************************)
EXTENDS Sessions, Throttle, Buckets, FiniteSetTheorems, TLAPS

-----------------------------------------------------------------------------
(* Sessions: how long a session, the guard's cache and a live tail last.     *)

Accounts == [is : {"new", "here", "gone"}, role : Role, disabled : BOOLEAN, pw : Nat]
Rows == [user : User, until : Nat, pw : Nat, late : BOOLEAN, long : BOOLEAN]

(* What a request keeps between two steps. *)
Issues   == [at : {"issue"}, user : User, pw : Nat, idle : Idles, old : Nat]
Requests == [at : {"slide", "handle"}, token : Nat, user : User, role : Role, pw : Nat, idle : Idles]
Owns     == [at : {"revokeOwn"}, user : User, pw : Nat, old : Nat]
Updates  == [at : {"update", "setPassword", "revoke"}, user : User, role : Role, off : BOOLEAN,
             reset : BOOLEAN, pw : Nat, kills : BOOLEAN]
Caps     == [at : {"cap"}, idle : Idles]
Asks     == [at : {"asking"}, token : Watched, now : Nat]
Tolds    == [at : {"told"}, token : Watched, now : Nat, role : Role]
Proxies  == [at : {"proxyLogout"}, token : Nat]
Steps    == [at : {"rest"}] \cup Issues \cup Requests \cup Owns \cup Updates \cup Caps
            \cup Asks \cup Tolds \cup Proxies

UsersOK  == users \in [User -> Accounts]
RowsOK(s) == DOMAIN s \subseteq Nat /\ s \in [DOMAIN s -> Rows]
CountsOK == clock \in Nat /\ issued \in Nat /\ edits \in Nat /\ idleTTL \in Idles
TypeInv  == UsersOK /\ RowsOK(sess) /\ CountsOK /\ op \in [Proc -> Steps]

(* The kind of step a request is at tells what it keeps. *)
LEMMA StepKinds ==
  ASSUME NEW o \in Steps
  PROVE  /\ o.at = "issue" => o \in Issues
         /\ o.at \in {"slide", "handle"} => o \in Requests
         /\ o.at = "revokeOwn" => o \in Owns
         /\ o.at \in {"update", "setPassword", "revoke"} => o \in Updates
         /\ o.at = "cap" => o \in Caps
         /\ o.at = "asking" => o \in Asks
         /\ o.at = "told" => o \in Tolds
         /\ o.at = "proxyLogout" => o \in Proxies
BY DEF Steps, Issues, Requests, Owns, Updates, Caps, Asks, Tolds, Proxies

(* What the statements of PostgreSQL leave are rows again. *)
LEMMA RowsWithout ==
  ASSUME RowsOK(sess), NEW S
  PROVE  /\ RowsOK(Without(sess, S))
         /\ DOMAIN Without(sess, S) = DOMAIN sess \ S
         /\ \A tk \in DOMAIN sess \ S : Without(sess, S)[tk] = sess[tk]
BY DEF RowsOK, Without, Restrict

(* DeleteUserSessions leaves the rows of the other users. *)
LEMMA RowsRevoked ==
  ASSUME RowsOK(sess), NEW u
  PROVE  /\ RowsOK(Revoked(u)) /\ DOMAIN Revoked(u) \subseteq DOMAIN sess
         /\ \A tk \in DOMAIN Revoked(u) : Revoked(u)[tk] = sess[tk] /\ sess[tk].user # u
<1>1. /\ RowsOK(Revoked(u)) /\ DOMAIN Revoked(u) = DOMAIN sess \ TokensOf(u)
      /\ \A tk \in DOMAIN sess \ TokensOf(u) : Revoked(u)[tk] = sess[tk]
  BY RowsWithout DEF Revoked
<1>2. QED
  BY <1>1 DEF TokensOf

(* DeleteExpiredSessions leaves rows as they were. *)
LEMMA RowsUnexpired ==
  ASSUME RowsOK(sess)
  PROVE  /\ RowsOK(Unexpired)
         /\ DOMAIN Unexpired \subseteq DOMAIN sess
         /\ \A tk \in DOMAIN Unexpired : Unexpired[tk] = sess[tk]
BY DEF RowsOK, Unexpired, Restrict

(* The rows a revocation that failed leaves are marked late, and no others. *)
LEMMA RowsNotRevoked ==
  ASSUME RowsOK(sess), NEW u, NEW a
  PROVE  /\ RowsOK(NotRevoked(u, a))
         /\ DOMAIN NotRevoked(u, a) = DOMAIN sess
         /\ \A tk \in DOMAIN sess :
              /\ NotRevoked(u, a)[tk].user = sess[tk].user
              /\ NotRevoked(u, a)[tk].until = sess[tk].until
              /\ NotRevoked(u, a)[tk].pw = sess[tk].pw
              /\ NotRevoked(u, a)[tk].long = sess[tk].long
              /\ sess[tk].late => NotRevoked(u, a)[tk].late
              /\ sess[tk].user = u /\ Outdated(a, sess[tk].pw) => NotRevoked(u, a)[tk].late
              /\ sess[tk].user # u => NotRevoked(u, a)[tk] = sess[tk]
<1>1. ASSUME NEW tk \in DOMAIN sess
      PROVE  /\ [sess[tk] EXCEPT !.late = TRUE] \in Rows
             /\ [sess[tk] EXCEPT !.late = TRUE].user = sess[tk].user
             /\ [sess[tk] EXCEPT !.late = TRUE].until = sess[tk].until
             /\ [sess[tk] EXCEPT !.late = TRUE].pw = sess[tk].pw
             /\ [sess[tk] EXCEPT !.late = TRUE].long = sess[tk].long
             /\ [sess[tk] EXCEPT !.late = TRUE].late
  BY DEF RowsOK, Rows
<1>2. /\ DOMAIN NotRevoked(u, a) = DOMAIN sess
      /\ NotRevoked(u, a) = [tk \in DOMAIN sess |-> NotRevoked(u, a)[tk]]
      /\ \A tk \in DOMAIN sess :
           NotRevoked(u, a)[tk] = IF sess[tk].user = u /\ Outdated(a, sess[tk].pw)
                                  THEN [sess[tk] EXCEPT !.late = TRUE] ELSE sess[tk]
  BY DEF NotRevoked
<1>3. \A tk \in DOMAIN sess : NotRevoked(u, a)[tk] \in Rows
  BY <1>1, <1>2 DEF RowsOK
<1>4. RowsOK(NotRevoked(u, a))
  BY <1>2, <1>3 DEF RowsOK
<1>5. QED
  BY <1>1, <1>2, <1>4

(* A touch moves the expiry of one row. *)
LEMMA RowsSlid ==
  ASSUME RowsOK(sess), clock \in Nat, NEW tk, NEW i \in Idles, idleTTL \in Idles
  PROVE  /\ RowsOK(Slid(tk, i))
         /\ DOMAIN Slid(tk, i) = DOMAIN sess
         /\ \A k \in DOMAIN sess :
              \/ Slid(tk, i)[k] = sess[k]
              \/ /\ k = tk /\ Slid(tk, i)[k].user = sess[k].user
                 /\ Slid(tk, i)[k].until = clock + i
                 /\ Slid(tk, i)[k].pw = sess[k].pw
                 /\ Slid(tk, i)[k].late = sess[k].late
                 /\ Slid(tk, i)[k].long <=> i > idleTTL
<1>1. CASE tk \in DOMAIN sess /\ sess[tk].until < clock + i - Throttled(i)
  <2> DEFINE r == [[sess[tk] EXCEPT !.until = clock + i] EXCEPT !.long = i > idleTTL]
  <2>1. sess[tk] \in Rows
    BY <1>1 DEF RowsOK
  <2>2. clock + i \in Nat /\ (i > idleTTL) \in BOOLEAN
    BY SessionsAssumption
  <2>3. /\ r \in Rows /\ r.user = sess[tk].user /\ r.until = clock + i
        /\ r.pw = sess[tk].pw /\ r.late = sess[tk].late /\ (r.long <=> i > idleTTL)
    BY <2>1, <2>2, Zenon DEF Rows
  <2>4. Slid(tk, i) = [sess EXCEPT ![tk] = r]
    BY <1>1 DEF Slid
  <2> HIDE DEF r
  <2>5. Slid(tk, i) \in [DOMAIN sess -> Rows] /\ DOMAIN Slid(tk, i) = DOMAIN sess
    BY <2>3, <2>4 DEF RowsOK
  <2>6. Slid(tk, i)[tk] = r /\ \A k \in DOMAIN sess \ {tk} : Slid(tk, i)[k] = sess[k]
    BY <1>1, <2>4
  <2>7. RowsOK(Slid(tk, i))
    BY <2>5 DEF RowsOK
  <2>8. QED
    BY <2>3, <2>5, <2>6, <2>7, Zenon
<1>2. CASE ~(tk \in DOMAIN sess /\ sess[tk].until < clock + i - Throttled(i))
  BY <1>2 DEF Slid
<1>3. QED
  BY <1>1, <1>2

(* CreateSession adds one row, late when the account changed since it was read. *)
LEMMA RowsIssued ==
  ASSUME TypeInv, NEW p \in Proc, IssueSession(p)
  PROVE  /\ RowsOK(sess') /\ DOMAIN sess' \subseteq {issued'} \cup DOMAIN sess
         /\ op[p] \in Issues /\ issued' \in DOMAIN sess'
         /\ sess'[issued'].user = op[p].user /\ sess'[issued'].pw = op[p].pw
         /\ sess'[issued'].late <=> Outdated(users[op[p].user], op[p].pw)
         /\ sess'[issued'].until <= clock + idleTTL \/ sess'[issued'].long
         /\ \A tk \in DOMAIN sess' \ {issued'} : sess'[tk] = sess[tk]
<1> DEFINE u == op[p].user
<1>0. op[p] \in Steps /\ issued \in Nat /\ clock \in Nat /\ idleTTL \in Idles
  BY DEF TypeInv, CountsOK
<1>1. /\ op[p] \in Issues /\ u \in User /\ op[p].pw \in Nat /\ op[p].idle \in Idles
      /\ issued' \in Nat
  BY <1>0, StepKinds DEF IssueSession, Issues
<1>2. PICK i \in {op[p].idle, idleTTL} :
        sess' = With(Unexpired, issued',
                     [user |-> u, until |-> clock + i, pw |-> op[p].pw,
                      late |-> Outdated(users[u], op[p].pw),
                      long |-> i > idleTTL])
  BY DEF IssueSession
<1> DEFINE off == Outdated(users[u], op[p].pw)
           row == [user |-> u, until |-> clock + i, pw |-> op[p].pw, late |-> off, long |-> i > idleTTL]
<1>3. i \in Nat /\ clock + i \in Nat /\ clock \in Nat /\ idleTTL \in Nat
  <2>1. op[p].idle \in Idles /\ idleTTL \in Idles /\ clock \in Nat
    BY <1>0, <1>1
  <2>2. Idles \subseteq Nat
    <3>1. Idles \subseteq Nat \ {0}
      BY SessionsAssumption, Zenon DEF SessionsAssumption
    <3> QED BY <3>1
  <2>3. i \in Idles
    BY <2>1
  <2>4. i \in Nat /\ idleTTL \in Nat
    BY <2>1, <2>2, <2>3
  <2> QED BY <2>1, <2>4
<1>4. off \in BOOLEAN /\ (i > idleTTL) \in BOOLEAN
  BY DEF Outdated
<1>5. /\ row \in Rows /\ row.user = u /\ row.pw = op[p].pw /\ row.until = clock + i
      /\ row.late <=> off
      /\ row.long <=> i > idleTTL
  BY <1>1, <1>3, <1>4, Zenon DEF Rows
<1>6. sess' = With(Unexpired, issued', row)
  BY <1>2
<1> HIDE DEF row, off
<1>7. RowsOK(Unexpired) /\ DOMAIN Unexpired \subseteq DOMAIN sess
      /\ \A tk \in DOMAIN Unexpired : Unexpired[tk] = sess[tk]
  BY RowsUnexpired DEF TypeInv
<1>8. /\ DOMAIN sess' = {issued'} \cup DOMAIN Unexpired
      /\ sess'[issued'] = row
      /\ \A tk \in DOMAIN sess' \ {issued'} : sess'[tk] = Unexpired[tk]
      /\ sess' = [tk \in DOMAIN sess' |-> sess'[tk]]
  BY <1>6 DEF With
<1>9. RowsOK(sess')
  BY <1>1, <1>5, <1>7, <1>8 DEF RowsOK
<1>10. row.until <= clock + idleTTL \/ row.long
  BY <1>3, <1>5
<1>11. sess'[issued'].late <=> off
  BY <1>5, <1>8, Zenon
<1>12. \A tk \in DOMAIN sess' \ {issued'} : sess'[tk] = sess[tk]
  BY <1>7, <1>8
<1>13. DOMAIN sess' \subseteq {issued'} \cup DOMAIN sess /\ issued' \in DOMAIN sess'
  BY <1>7, <1>8
<1>14. sess'[issued'].until <= clock + idleTTL \/ sess'[issued'].long
  BY <1>8, <1>10, Zenon
<1>15. sess'[issued'].user = u /\ sess'[issued'].pw = op[p].pw
  BY <1>5, <1>8, Zenon
<1>16. QED
  BY <1>1, <1>9, <1>11, <1>12, <1>13, <1>14, <1>15, Zenon DEF off

(* CapSessionExpiry only shortens, and marks long what a slide in flight may lengthen. *)
LEMMA RowsCapped ==
  ASSUME TypeInv, NEW p \in Proc, CapSessionExpiry(p)
  PROVE  /\ RowsOK(sess') /\ DOMAIN sess' = DOMAIN sess
         /\ op[p] \in Caps
         /\ \A tk \in DOMAIN sess :
              /\ sess'[tk].user = sess[tk].user /\ sess'[tk].pw = sess[tk].pw
              /\ sess'[tk].late <=> sess[tk].late
              /\ \/ sess'[tk].long
                 \/ /\ sess'[tk].until <= sess[tk].until /\ sess'[tk].until <= clock + op[p].idle
                    /\ sess[tk].long => op[p].idle <= idleTTL
<1>0. op[p] \in Steps /\ clock \in Nat /\ idleTTL \in Idles
  BY DEF TypeInv, CountsOK
<1>1. op[p] \in Caps /\ op[p].idle \in Nat /\ clock \in Nat /\ idleTTL \in Nat
  BY <1>0, StepKinds, SessionsAssumption DEF CapSessionExpiry, Caps
<1>2. CASE sess' = [tk \in DOMAIN sess |-> [sess[tk] EXCEPT !.long = TRUE]]
  BY <1>1, <1>2 DEF TypeInv, RowsOK, Rows
<1>3. CASE sess' = [tk \in DOMAIN sess |->
                      [sess[tk] EXCEPT !.until = Min({@, clock + op[p].idle}),
                                       !.long = @ /\ op[p].idle > idleTTL]]
  <2>1. ASSUME NEW tk \in DOMAIN sess
        PROVE  /\ sess'[tk] \in Rows
               /\ sess'[tk].user = sess[tk].user /\ sess'[tk].pw = sess[tk].pw
               /\ sess'[tk].late <=> sess[tk].late
               /\ sess'[tk].until <= sess[tk].until /\ sess'[tk].until <= clock + op[p].idle
               /\ sess'[tk].long <=> sess[tk].long /\ op[p].idle > idleTTL
    <3> DEFINE least == Min({sess[tk].until, clock + op[p].idle})
               still == sess[tk].long /\ op[p].idle > idleTTL
    <3>1. sess[tk] \in Rows /\ sess[tk].until \in Nat
      BY DEF TypeInv, RowsOK, Rows
    <3>2. least \in Nat /\ least <= sess[tk].until /\ least <= clock + op[p].idle
      <4>1. \E x \in {sess[tk].until, clock + op[p].idle} :
              \A y \in {sess[tk].until, clock + op[p].idle} : x =< y
        BY <1>1, <3>1
      <4>2. QED
        BY <1>1, <3>1, <4>1 DEF Min
    <3>3. still \in BOOLEAN
      OBVIOUS
    <3>4. sess'[tk] = [[sess[tk] EXCEPT !.until = least] EXCEPT !.long = still]
      BY <1>3, Zenon
    <3> HIDE DEF least
    <3>5. /\ sess'[tk] \in Rows
          /\ sess'[tk].user = sess[tk].user /\ sess'[tk].pw = sess[tk].pw
          /\ sess'[tk].late <=> sess[tk].late
          /\ sess'[tk].until = least
          /\ sess'[tk].long <=> still
      BY <3>1, <3>2, <3>3, <3>4, Zenon DEF Rows
    <3>6. sess'[tk].until <= sess[tk].until /\ sess'[tk].until <= clock + op[p].idle
      BY <3>2, <3>5
    <3>7. QED
      BY <3>5, <3>6, Zenon
  <2>2. RowsOK(sess') /\ DOMAIN sess' = DOMAIN sess
    <3>1. DOMAIN sess' = DOMAIN sess /\ sess' = [tk \in DOMAIN sess |-> sess'[tk]]
      BY <1>3, Zenon
    <3>2. QED
      BY <2>1, <3>1 DEF RowsOK, TypeInv
  <2>3. ASSUME NEW tk \in DOMAIN sess
        PROVE  sess[tk].long /\ ~sess'[tk].long => op[p].idle <= idleTTL
    BY <1>1, <2>1
  <2>4. QED
    BY <1>1, <2>1, <2>2, <2>3, Zenon
<1>4. QED
  BY <1>2, <1>3 DEF CapSessionExpiry

(* A request that goes on keeps the kind of the others. *)
LEMMA GoTyped ==
  ASSUME op \in [Proc -> Steps], NEW p \in Proc, NEW o \in Steps, Go(p, o)
  PROVE  /\ op' \in [Proc -> Steps] /\ op'[p] = o
         /\ \A q \in Proc \ {p} : op'[q] = op[q]
BY DEF Go

(* An update goes on with the same account. *)
LEMMA StepTyped ==
  ASSUME op \in [Proc -> Steps], NEW p \in Proc, op[p] \in Updates,
         NEW at \in {"setPassword", "revoke"}
  PROVE  /\ [op[p] EXCEPT !.at = at] \in Updates
         /\ [op[p] EXCEPT !.at = at].at = at
         /\ [op[p] EXCEPT !.at = at].user = op[p].user
BY DEF Updates

(* Every kind of step is one. *)
LEMMA StepsOf ==
  /\ Resting \in Steps /\ Issues \subseteq Steps /\ Requests \subseteq Steps
  /\ Owns \subseteq Steps /\ Updates \subseteq Steps /\ Caps \subseteq Steps
  /\ Asks \subseteq Steps /\ Tolds \subseteq Steps /\ Proxies \subseteq Steps
BY DEF Steps, Resting

(* A sign-in keeps the account and the password it checked. *)
LEMMA IssuingTyped ==
  ASSUME NEW u \in User, NEW pw \in Nat, idleTTL \in Idles, NEW n \in Nat
  PROVE  Issuing(u, pw) \in Issues /\ [Issuing(u, pw) EXCEPT !.old = n] \in Issues
BY DEF Issuing, Issues

(* What an update of an account may change: its role and whether it is on. *)
LEMMA ProfileEdited ==
  ASSUME UsersOK, NEW u \in User, NEW r \in Role, NEW off \in BOOLEAN
  PROVE  [users EXCEPT ![u].role = IF users[u].is = "here" THEN r ELSE @,
                       ![u].disabled = IF users[u].is = "here" THEN off ELSE @] \in [User -> Accounts]
<1>1. CASE users[u].is = "here"
  <2>1. [users EXCEPT ![u].role = r, ![u].disabled = off] \in [User -> Accounts]
    BY ZenonT(60) DEF UsersOK, Accounts
  <2>2. QED
    BY <1>1, <2>1, Zenon
<1>2. CASE users[u].is # "here"
  <2>1. [users EXCEPT ![u].role = @, ![u].disabled = @] \in [User -> Accounts]
    BY ZenonT(60) DEF UsersOK, Accounts
  <2>2. QED
    BY <1>2, <2>1, Zenon
<1>3. QED
  BY <1>1, <1>2

(* The passwords and flags that an edit may change. *)
LEMMA UsersEdited ==
  ASSUME UsersOK, NEW u \in User, NEW pw \in Nat
  PROVE  /\ WithPassword(u, pw) \in [User -> Accounts]
         /\ \A v \in User : /\ WithPassword(u, pw)[v].is = users[v].is
                            /\ WithPassword(u, pw)[v].disabled = users[v].disabled
                            /\ v # u => WithPassword(u, pw)[v] = users[v]
BY DEF UsersOK, WithPassword, Accounts

(* A handler that gives up leaves accounts and rows. *)
LEMMA GaveUpTyped ==
  ASSUME TypeInv, NEW p \in Proc, NEW written \in [User -> Accounts], GivesUp(p, written)
  PROVE  users' \in [User -> Accounts] /\ RowsOK(sess') /\ op' \in [Proc -> Steps]
<1>1. users' \in [User -> Accounts]
  BY DEF GivesUp, TypeInv, UsersOK
<1>2. RowsOK(sess')
  BY RowsNotRevoked DEF GivesUp, TypeInv
<1>3. op' \in [Proc -> Steps]
  BY GoTyped, StepsOf DEF GivesUp, TypeInv, Answer
<1>4. QED
  BY <1>1, <1>2, <1>3

(* Every step keeps the types. *)
LEMMA TypeStep == ASSUME TypeInv, SessNext PROVE TypeInv'
<1> USE DEF UsersOK
<1>1. /\ users \in [User -> Accounts] /\ RowsOK(sess) /\ op \in [Proc -> Steps]
      /\ clock \in Nat /\ issued \in Nat /\ edits \in Nat /\ idleTTL \in Idles
  BY DEF TypeInv, CountsOK
<1>2. \A e \in Idles : e \in Nat
  BY SessionsAssumption
<1>3. None \in Nat
  BY DEF None
<1>4. ASSUME NEW p \in Proc, Answer(p)
      PROVE  op' \in [Proc -> Steps]
  BY <1>1, <1>4, GoTyped, StepsOf DEF Answer
<1>5. clock' \in Nat
  BY <1>1 DEF SessNext, Tick
<1>6. ASSUME NEW p \in Proc, NEW u \in User, HandleLogin(p, u)
      PROVE  TypeInv'
  <2>1. users[u] \in Accounts /\ users[u].pw \in Nat
    BY <1>1 DEF Accounts
  <2>2. Issuing(u, users[u].pw) \in Steps
    BY <1>1, <2>1, IssuingTyped, StepsOf
  <2>3. op' \in [Proc -> Steps]
    BY <1>1, <1>6, <2>2, GoTyped DEF HandleLogin
  <2>4. QED
    BY <1>1, <1>5, <1>6, <2>3 DEF TypeInv, CountsOK, HandleLogin
<1>7. ASSUME NEW p \in Proc, NEW u \in User, HandleOIDCCallback(p, u)
      PROVE  TypeInv'
  <2>1. Issuing(u, None) \in Steps
    BY <1>1, <1>3, IssuingTyped, StepsOf
  <2>2. op' \in [Proc -> Steps]
    BY <1>1, <1>7, <2>1, GoTyped DEF HandleOIDCCallback
  <2>3. users' \in [User -> Accounts]
    BY <1>1, <1>7 DEF HandleOIDCCallback, userForSubject, Accounts
  <2>4. QED
    BY <1>1, <1>5, <1>7, <2>2, <2>3 DEF TypeInv, CountsOK, HandleOIDCCallback
<1>8. ASSUME NEW p \in Proc, NEW u \in User, DeleteUser(p, u)
      PROVE  TypeInv'
  <2>1. users' \in [User -> Accounts]
    BY <1>1, <1>3, <1>8 DEF DeleteUser, Accounts
  <2>2. RowsOK(sess')
    BY <1>1, <1>8, RowsRevoked DEF DeleteUser
  <2>3. QED
    BY <1>1, <1>4, <1>5, <1>8, <2>1, <2>2 DEF TypeInv, CountsOK, DeleteUser, Edit
<1>9. ASSUME NEW p \in Proc, NEW u \in User, NEW r \in Role, CreateUser(p, u, r)
      PROVE  TypeInv'
  <2>1. edits' \in Nat
    BY <1>1, <1>9 DEF CreateUser, Edit
  <2>2. users' \in [User -> Accounts]
    BY <1>1, <1>9, <2>1 DEF CreateUser, Accounts
  <2>3. QED
    BY <1>1, <1>4, <1>5, <1>9, <2>1, <2>2 DEF TypeInv, CountsOK, CreateUser
<1>10. ASSUME NEW p \in Proc, NEW u \in User, NEW r \in Role, NEW off \in BOOLEAN, NEW reset \in BOOLEAN,
              UpdateUserReads(p, u, r, off, reset)
       PROVE  TypeInv'
  <2>1. edits' \in Nat
    BY <1>1, <1>10 DEF UpdateUserReads, Edit
  <2>2. sessionsRevokedBy(users[u], r, off, reset) \in BOOLEAN
    BY DEF sessionsRevokedBy
  <2>3. [at |-> "update", user |-> u, role |-> r, off |-> off, reset |-> reset, pw |-> edits',
         kills |-> sessionsRevokedBy(users[u], r, off, reset)] \in Steps
    BY <2>1, <2>2, StepsOf DEF Updates
  <2>4. op' \in [Proc -> Steps]
    BY <1>1, <1>10, <2>3, GoTyped DEF UpdateUserReads
  <2>5. QED
    BY <1>1, <1>5, <1>10, <2>1, <2>4 DEF TypeInv, CountsOK, UpdateUserReads
<1>11. ASSUME NEW p \in Proc, NEW tk \in 1..issued, Middleware(p, tk)
       PROVE  TypeInv'
  <2>1. tk \in DOMAIN sess /\ sess[tk] \in Rows /\ sess[tk].user \in User /\ tk \in Nat
    BY <1>1, <1>11 DEF Middleware, SessionActive, RowsOK, Rows
  <2>2. users[sess[tk].user].role \in Role /\ users[sess[tk].user].pw \in Nat
    BY <1>1, <2>1 DEF Accounts
  <2>3. [at |-> "slide", token |-> tk, user |-> sess[tk].user, role |-> RoleOf(tk),
         pw |-> users[sess[tk].user].pw, idle |-> idleTTL] \in Steps
    BY <1>1, <2>1, <2>2, StepsOf DEF Requests, RoleOf
  <2>4. op' \in [Proc -> Steps]
    BY <1>1, <1>11, <2>3, GoTyped DEF Middleware
  <2>5. QED
    BY <1>1, <1>5, <1>11, <2>4 DEF TypeInv, CountsOK, Middleware
<1>12. ASSUME NEW p \in Proc, NEW tk \in Watched, Verify(p, tk)
       PROVE  TypeInv'
  <2>1. [at |-> "asking", token |-> tk, now |-> clock] \in Steps
    BY <1>1, StepsOf DEF Asks
  <2>2. op' \in [Proc -> Steps]
    BY <1>1, <1>12, <2>1, GoTyped DEF Verify
  <2>3. QED
    BY <1>1, <1>5, <1>12, <2>2 DEF TypeInv, CountsOK, Verify
<1>13. ASSUME NEW p \in Proc, NEW tk \in Watched, GuardLogout(p, tk)
       PROVE  TypeInv'
  <2>1. tk \in Nat
    BY SessionsAssumption
  <2>2. [at |-> "proxyLogout", token |-> tk] \in Steps
    BY <2>1, StepsOf DEF Proxies
  <2>3. op' \in [Proc -> Steps]
    BY <1>1, <1>13, <2>2, GoTyped DEF GuardLogout
  <2>4. QED
    BY <1>1, <1>5, <1>13, <2>3 DEF TypeInv, CountsOK, GuardLogout
<1>14. ASSUME NEW p \in Proc, NEW i \in Idles, SetIdleTTL(p, i)
       PROVE  TypeInv'
  <2>1. [at |-> "cap", idle |-> i] \in Steps
    BY StepsOf DEF Caps
  <2>2. op' \in [Proc -> Steps]
    BY <1>1, <1>14, <2>1, GoTyped DEF SetIdleTTL
  <2>3. QED
    BY <1>1, <1>5, <1>14, <2>2 DEF TypeInv, CountsOK, SetIdleTTL
<1>15. ASSUME NEW p \in Proc, IssueSession(p)
       PROVE  TypeInv'
  <2>1. RowsOK(sess')
    BY <1>15, RowsIssued
  <2>2. issued' \in Nat
    BY <1>1, <1>15 DEF IssueSession
  <2>3. QED
    BY <1>1, <1>4, <1>5, <1>15, <2>1, <2>2 DEF TypeInv, CountsOK, IssueSession
<1>16. ASSUME NEW p \in Proc, IssueFails(p) \/ HandleRead(p) \/ ServeTail(p) \/ StoreVerified(p)
       PROVE  TypeInv'
  <2>1. RowsOK(sess')
    BY <1>1, <1>16, RowsUnexpired DEF IssueFails, HandleRead, ServeTail, StoreVerified
  <2>2. QED
    BY <1>1, <1>4, <1>5, <1>16, <2>1
    DEF TypeInv, CountsOK, IssueFails, HandleRead, ServeTail, StoreVerified
<1>17. ASSUME NEW p \in Proc, HandleLogout(p) \/ BucketLogsOut(p)
       PROVE  TypeInv'
  <2>1. RowsOK(sess')
    <3>1. sess' = sess \/ sess' = Without(sess, {op[p].token})
      BY <1>17 DEF HandleLogout, BucketLogsOut
    <3>2. RowsOK(Without(sess, {op[p].token}))
      BY <1>1, RowsWithout
    <3>3. QED
      BY <1>1, <3>1, <3>2
  <2>2. CASE HandleLogout(p)
    BY <1>1, <1>4, <1>5, <2>1, <2>2 DEF TypeInv, CountsOK, HandleLogout
  <2>3. CASE BucketLogsOut(p)
    BY <1>1, <1>4, <1>5, <2>1, <2>3 DEF TypeInv, CountsOK, BucketLogsOut
  <2>4. QED
    BY <1>17, <2>2, <2>3
<1>18. ASSUME NEW p \in Proc, SlideSession(p)
       PROVE  TypeInv'
  <2>1. op[p] \in Requests
    BY <1>1, <1>18, StepKinds DEF SlideSession
  <2>2. op[p].idle \in Idles /\ [op[p] EXCEPT !.at = "handle"] \in Steps
    BY <2>1, StepsOf DEF Requests
  <2>3. op' \in [Proc -> Steps]
    BY <1>1, <1>18, <2>2, GoTyped DEF SlideSession
  <2>4. RowsOK(sess')
    BY <1>1, <1>18, <2>2, RowsSlid DEF SlideSession
  <2>5. QED
    BY <1>1, <1>5, <1>18, <2>3, <2>4 DEF TypeInv, CountsOK, SlideSession
<1>19. ASSUME NEW p \in Proc, HandlePassword(p)
       PROVE  TypeInv'
  <2> DEFINE written == WithPassword(op[p].user, edits')
  <2>1. op[p] \in Requests
    BY <1>1, <1>19, StepKinds DEF HandlePassword, Handling
  <2>2. op[p].user \in User /\ op[p].token \in Nat /\ edits' \in Nat
    BY <1>1, <1>19, <2>1 DEF Requests, HandlePassword, Edit
  <2>3. [at |-> "revokeOwn", user |-> op[p].user, pw |-> edits', old |-> op[p].token] \in Steps
    BY <2>2, StepsOf DEF Owns
  <2>4. written \in [User -> Accounts]
    BY <1>1, <2>2, UsersEdited
  <2> HIDE DEF written
  <2>5. /\ idleTTL' = idleTTL /\ issued' = issued
        /\ \/ /\ users' = written /\ sess' = sess
              /\ Go(p, [at |-> "revokeOwn", user |-> op[p].user, pw |-> edits', old |-> op[p].token])
           \/ GivesUp(p, written)
    BY <1>19 DEF HandlePassword, written
  <2>6. CASE GivesUp(p, written)
    BY <1>1, <1>5, <2>2, <2>4, <2>5, <2>6, GaveUpTyped DEF TypeInv, CountsOK
  <2>7. CASE /\ users' = written /\ sess' = sess
             /\ Go(p, [at |-> "revokeOwn", user |-> op[p].user, pw |-> edits', old |-> op[p].token])
    <3>1. op' \in [Proc -> Steps]
      BY <1>1, <2>3, <2>7, GoTyped
    <3>2. QED
      BY <1>1, <1>5, <2>2, <2>4, <2>5, <2>7, <3>1 DEF TypeInv, CountsOK
  <2>8. QED
    BY <2>5, <2>6, <2>7
<1>20. ASSUME NEW p \in Proc, RevokeOwn(p)
       PROVE  TypeInv'
  <2>1. op[p] \in Owns
    BY <1>1, <1>20, StepKinds DEF RevokeOwn
  <2>2. op[p].user \in User /\ op[p].pw \in Nat /\ op[p].old \in Nat
    BY <2>1 DEF Owns
  <2>3. [Issuing(op[p].user, op[p].pw) EXCEPT !.old = op[p].old] \in Steps
    BY <1>1, <2>2, IssuingTyped, StepsOf
  <2>4. op' \in [Proc -> Steps]
    BY <1>1, <1>20, <2>3, GoTyped DEF RevokeOwn
  <2>5. RowsOK(sess')
    <3>1. /\ RowsOK(Revoked(op[p].user))
          /\ RowsOK(NotRevoked(op[p].user, users[op[p].user]))
      BY <1>1, RowsRevoked, RowsNotRevoked
    <3>2. QED
      BY <1>20, <3>1 DEF RevokeOwn
  <2>6. QED
    BY <1>1, <1>5, <1>20, <2>4, <2>5 DEF TypeInv, CountsOK, RevokeOwn
<1>21. ASSUME NEW p \in Proc, UpdateUser(p)
       PROVE  TypeInv'
  <2> DEFINE written ==
        [users EXCEPT ![op[p].user].role = IF users[op[p].user].is = "here" THEN op[p].role ELSE @,
                      ![op[p].user].disabled = IF users[op[p].user].is = "here" THEN op[p].off ELSE @]
  <2>1. op[p] \in Updates
    BY <1>1, <1>21, StepKinds DEF UpdateUser
  <2>2. op[p].user \in User /\ op[p].role \in Role /\ op[p].off \in BOOLEAN
    BY <2>1 DEF Updates
  <2>3. written \in [User -> Accounts]
    BY <1>1, <2>2, ProfileEdited
  <2>4. /\ idleTTL' = idleTTL /\ issued' = issued /\ edits' = edits
        /\ \/ /\ users' = written /\ sess' = sess
              /\ Answer(p) \/ Step(p, "setPassword") \/ Step(p, "revoke")
           \/ GivesUp(p, written)
    BY <1>21, Zenon DEF UpdateUser
  <2> HIDE DEF written
  <2>5. CASE GivesUp(p, written)
    BY <1>1, <1>5, <2>3, <2>4, <2>5, GaveUpTyped DEF TypeInv, CountsOK
  <2>6. CASE /\ users' = written /\ sess' = sess
             /\ Answer(p) \/ Step(p, "setPassword") \/ Step(p, "revoke")
    <3>1. op' \in [Proc -> Steps]
      BY <1>1, <1>4, <2>1, <2>6, StepTyped, StepsOf, GoTyped DEF Step
    <3>2. QED
      BY <1>1, <1>5, <2>3, <2>4, <2>6, <3>1 DEF TypeInv, CountsOK
  <2>7. QED
    BY <2>4, <2>5, <2>6
<1>22. ASSUME NEW p \in Proc, SetPassword(p)
       PROVE  TypeInv'
  <2> DEFINE written == WithPassword(op[p].user, op[p].pw)
  <2>1. op[p] \in Updates
    BY <1>1, <1>22, StepKinds DEF SetPassword
  <2>2. op[p].user \in User /\ op[p].pw \in Nat
    BY <2>1 DEF Updates
  <2>3. written \in [User -> Accounts]
    BY <1>1, <2>2, UsersEdited
  <2> HIDE DEF written
  <2>4. /\ idleTTL' = idleTTL /\ issued' = issued /\ edits' = edits
        /\ \/ users' = written /\ Step(p, "revoke") /\ sess' = sess
           \/ GivesUp(p, written)
    BY <1>22 DEF SetPassword, written
  <2>5. CASE GivesUp(p, written)
    BY <1>1, <1>5, <2>3, <2>4, <2>5, GaveUpTyped DEF TypeInv, CountsOK
  <2>6. CASE users' = written /\ Step(p, "revoke") /\ sess' = sess
    <3>1. op' \in [Proc -> Steps]
      BY <1>1, <2>1, <2>6, StepTyped, StepsOf, GoTyped DEF Step
    <3>2. QED
      BY <1>1, <1>5, <2>3, <2>4, <2>6, <3>1 DEF TypeInv, CountsOK
  <2>7. QED
    BY <2>4, <2>5, <2>6
<1>23. ASSUME NEW p \in Proc, RevokeSessions(p)
       PROVE  TypeInv'
  <2>1. RowsOK(sess')
    <3>1. /\ RowsOK(Revoked(op[p].user))
          /\ RowsOK(NotRevoked(op[p].user, users[op[p].user]))
      BY <1>1, RowsRevoked, RowsNotRevoked
    <3>2. QED
      BY <1>23, <3>1 DEF RevokeSessions
  <2>2. QED
    BY <1>1, <1>4, <1>5, <1>23, <2>1 DEF TypeInv, CountsOK, RevokeSessions
<1>24. ASSUME NEW p \in Proc, ResetAdmin(p)
       PROVE  TypeInv'
  <2>1. edits' \in Nat
    BY <1>1, <1>24 DEF ResetAdmin, Edit
  <2>2. [at |-> "update", user |-> Root, role |-> "admin", off |-> FALSE,
         reset |-> TRUE, pw |-> edits', kills |-> TRUE] \in Steps
    BY <2>1, StepsOf, SessionsAssumption, RoleAssumption DEF Updates
  <2>3. op' \in [Proc -> Steps]
    BY <1>1, <1>24, <2>2, GoTyped DEF ResetAdmin
  <2>4. QED
    BY <1>1, <1>5, <1>24, <2>1, <2>3 DEF TypeInv, CountsOK, ResetAdmin
<1>25. ASSUME NEW p \in Proc, CapSessionExpiry(p)
       PROVE  TypeInv'
  <2>1. RowsOK(sess')
    BY <1>25, RowsCapped
  <2>2. QED
    BY <1>1, <1>4, <1>5, <1>25, <2>1 DEF TypeInv, CountsOK, CapSessionExpiry
<1>26. ASSUME NEW p \in Proc, BucketAnswersMe(p)
       PROVE  TypeInv'
  <2>1. op[p] \in Asks
    BY <1>1, <1>26, StepKinds DEF BucketAnswersMe
  <2>2. op[p].token \in Watched /\ op[p].now \in Nat
    BY <2>1 DEF Asks
  <2>3. CASE Answer(p)
    <3>1. RowsOK(sess')
      BY <1>1, <1>26, RowsSlid DEF BucketAnswersMe
    <3>2. QED
      BY <1>1, <1>4, <1>5, <1>26, <2>3, <3>1 DEF TypeInv, CountsOK, BucketAnswersMe
  <2>4. CASE /\ SessionActive(op[p].token)
             /\ sess' \in {sess, Slid(op[p].token, idleTTL)}
             /\ Go(p, [at |-> "told", token |-> op[p].token, now |-> op[p].now,
                       role |-> RoleOf(op[p].token)])
    <3>1. sess[op[p].token] \in Rows
      BY <1>1, <2>4 DEF SessionActive, RowsOK
    <3>2. RoleOf(op[p].token) \in Role
      BY <1>1, <3>1 DEF RoleOf, Rows, Accounts
    <3>3. [at |-> "told", token |-> op[p].token, now |-> op[p].now,
           role |-> RoleOf(op[p].token)] \in Steps
      BY <2>2, <3>2, StepsOf DEF Tolds
    <3>4. op' \in [Proc -> Steps] /\ RowsOK(sess')
      BY <1>1, <2>4, <3>3, GoTyped, RowsSlid
    <3>5. QED
      BY <1>1, <1>5, <1>26, <3>4 DEF TypeInv, CountsOK, BucketAnswersMe
  <2>5. QED
    BY <1>26, <2>3, <2>4 DEF BucketAnswersMe
<1>27. ASSUME NEW tk \in Watched, RecheckTail(tk) \/ TailEnds(tk)
       PROVE  TypeInv'
  BY <1>1, <1>5, <1>27 DEF TypeInv, CountsOK, RecheckTail, TailEnds
<1>28. CASE Tick
  BY <1>1, <1>5, <1>28 DEF TypeInv, CountsOK, Tick
<1>29. QED
  BY <1>6, <1>7, <1>8, <1>9, <1>10, <1>11, <1>12, <1>13, <1>14, <1>15, <1>16, <1>17, <1>18, <1>19,
     <1>20, <1>21, <1>22, <1>23, <1>24, <1>25, <1>26, <1>27, <1>28 DEF SessNext, Changes

(* A check finds that a session of some role is live. *)
Finds(p) == LET tk == op[p].token IN
  /\ op[p].at = "asking" /\ SessionActive(tk) /\ sess' \in {sess, Slid(tk, idleTTL)}
  /\ users' = users /\ clock' = clock /\ idleTTL' = idleTTL
  /\ op'[p] = [at |-> "told", token |-> tk, now |-> op[p].now, role |-> RoleOf(tk)]

(* Only a question and its answer put a request where the guard waits. *)
LEMMA GuardMoves ==
  ASSUME TypeInv, SessNext, NEW p \in Proc
  PROVE  /\ op'[p].at = "asking" => op'[p] = op[p] \/ (op'[p].now = clock /\ clock' = clock)
         /\ op'[p].at = "told" => op'[p] = op[p] \/ Finds(p)
<1> DEFINE Goal == /\ op'[p].at = "asking" => op'[p] = op[p] \/ (op'[p].now = clock /\ clock' = clock)
                   /\ op'[p].at = "told" => op'[p] = op[p] \/ Finds(p)
<1>1. op \in [Proc -> Steps]
  BY DEF TypeInv
<1>2. ASSUME NEW q \in Proc, NEW o, Go(q, o), o.at \notin {"asking", "told"}
      PROVE  Goal
  BY <1>1, <1>2 DEF Go
<1>3. ASSUME op' = op
      PROVE  Goal
  BY <1>3
<1>4. ASSUME NEW q \in Proc, Answer(q)
      PROVE  Goal
  BY <1>2, <1>4 DEF Answer, Resting
<1> HIDE DEF Goal
<1>5. CASE Tick
  BY <1>3, <1>5 DEF Tick
<1>6. ASSUME NEW tk \in Watched, RecheckTail(tk) \/ TailEnds(tk)
      PROVE  Goal
  BY <1>3, <1>6 DEF RecheckTail, TailEnds
<1>7. ASSUME NEW q \in Proc, NEW u \in User, 
              HandleLogin(q, u) \/ HandleOIDCCallback(q, u) \/ DeleteUser(q, u)
      PROVE  Goal
  BY <1>2, <1>4, <1>7 DEF HandleLogin, HandleOIDCCallback, Issuing, DeleteUser
<1>8. ASSUME NEW q \in Proc, NEW u \in User, NEW r \in Role, CreateUser(q, u, r)
      PROVE  Goal
  BY <1>4, <1>8 DEF CreateUser
<1>9. ASSUME NEW q \in Proc, NEW u \in User, NEW r \in Role, NEW off \in BOOLEAN,
             NEW reset \in BOOLEAN, UpdateUserReads(q, u, r, off, reset)
      PROVE  Goal
  BY <1>2, <1>9 DEF UpdateUserReads
<1>10. ASSUME NEW q \in Proc, NEW tk, Middleware(q, tk) \/ GuardLogout(q, tk)
       PROVE  Goal
  BY <1>2, <1>10 DEF Middleware, GuardLogout
<1>11. ASSUME NEW q \in Proc, NEW i, SetIdleTTL(q, i)
       PROVE  Goal
  BY <1>2, <1>11 DEF SetIdleTTL
<1>12. ASSUME NEW q \in Proc,
              \/ IssueSession(q) \/ IssueFails(q) \/ HandleRead(q) \/ HandleLogout(q)
              \/ RevokeSessions(q) \/ CapSessionExpiry(q) \/ ServeTail(q) \/ StoreVerified(q)
              \/ BucketLogsOut(q)
       PROVE  Goal
  BY <1>4, <1>12 DEF IssueSession, IssueFails, HandleRead, HandleLogout, RevokeSessions,
     CapSessionExpiry, ServeTail, StoreVerified, BucketLogsOut
<1>13. ASSUME NEW q \in Proc, HandlePassword(q) \/ ResetAdmin(q)
       PROVE  Goal
  BY <1>2, <1>4, <1>13 DEF HandlePassword, GivesUp, ResetAdmin
<1>14. ASSUME NEW q \in Proc, RevokeOwn(q)
       PROVE  Goal
  BY <1>2, <1>14 DEF RevokeOwn, Issuing
<1>15. ASSUME NEW q \in Proc, SlideSession(q)
       PROVE  Goal
  <2>1. op[q] \in Requests
    BY <1>1, <1>15, StepKinds DEF SlideSession
  <2>2. [op[q] EXCEPT !.at = "handle"].at = "handle"
    BY <2>1 DEF Requests
  <2>3. QED
    BY <1>2, <1>15, <2>2 DEF SlideSession
<1>16. ASSUME NEW q \in Proc, UpdateUser(q) \/ SetPassword(q)
       PROVE  Goal
  <2>1. op[q] \in Updates
    BY <1>1, <1>16, StepKinds DEF UpdateUser, SetPassword
  <2>2. \A at \in {"setPassword", "revoke"} : [op[q] EXCEPT !.at = at].at = at
    BY <1>1, <2>1, StepTyped
  <2>3. \/ Answer(q) \/ Go(q, [op[q] EXCEPT !.at = "setPassword"])
        \/ Go(q, [op[q] EXCEPT !.at = "revoke"])
    BY <1>16 DEF UpdateUser, SetPassword, GivesUp, Step
  <2>4. QED
    BY <1>2, <1>4, <2>2, <2>3
<1>17. ASSUME NEW q \in Proc, NEW tk \in Watched, Verify(q, tk), UNCHANGED clock
       PROVE  Goal
  BY <1>1, <1>17 DEF Goal, Verify, Go
<1>18. ASSUME NEW q \in Proc, BucketAnswersMe(q), UNCHANGED clock
       PROVE  Goal
  <2>1. CASE Answer(q)
    BY <1>4, <2>1
  <2>2. CASE /\ SessionActive(op[q].token) /\ sess' \in {sess, Slid(op[q].token, idleTTL)}
             /\ Go(q, [at |-> "told", token |-> op[q].token, now |-> op[q].now,
                       role |-> RoleOf(op[q].token)])
    <3>1. CASE p = q
      BY <1>1, <1>18, <2>2, <3>1 DEF Goal, Go, Finds, BucketAnswersMe
    <3>2. CASE p # q
      BY <1>1, <2>2, <3>2 DEF Goal, Go
    <3>3. QED
      BY <3>1, <3>2
  <2>3. QED
    BY <1>18, <2>1, <2>2 DEF BucketAnswersMe
<1>19. ASSUME Changes, UNCHANGED clock
       PROVE  Goal
  <2>1. CASE \E tk \in Watched : RecheckTail(tk) \/ TailEnds(tk)
    BY <1>6, <2>1
  <2>2. ASSUME NEW q \in Proc, NEW u \in User,
               \/ HandleLogin(q, u) \/ HandleOIDCCallback(q, u) \/ DeleteUser(q, u)
               \/ \E r \in Role : CreateUser(q, u, r)
               \/ \E r \in Role, off, reset \in BOOLEAN : UpdateUserReads(q, u, r, off, reset)
        PROVE  Goal
    BY <2>2, <1>7, <1>8, <1>9
  <2>3. ASSUME NEW q \in Proc,
               \/ \E tk \in 1..issued : Middleware(q, tk)
               \/ \E tk \in Watched : Verify(q, tk) \/ GuardLogout(q, tk)
               \/ \E i \in Idles : SetIdleTTL(q, i)
        PROVE  Goal
    BY <1>19, <2>3, <1>10, <1>11, <1>17
  <2>4. ASSUME NEW q \in Proc,
               \/ IssueSession(q) \/ IssueFails(q) \/ SlideSession(q) \/ HandleRead(q)
               \/ HandleLogout(q) \/ HandlePassword(q) \/ RevokeOwn(q) \/ UpdateUser(q)
               \/ SetPassword(q) \/ RevokeSessions(q) \/ ResetAdmin(q) \/ CapSessionExpiry(q)
               \/ ServeTail(q) \/ BucketAnswersMe(q) \/ StoreVerified(q) \/ BucketLogsOut(q)
        PROVE  Goal
    BY <1>19, <2>4, <1>12, <1>13, <1>14, <1>15, <1>16, <1>18
  <2>5. QED
    BY <1>19, <2>1, <2>2, <2>3, <2>4 DEF Changes
<1>20. QED
  BY <1>5, <1>19 DEF SessNext, Goal

SeenOK ==
  /\ seen \in [Watched -> [Role -> Int]]
  /\ \A tk \in Watched, r \in Role : seen[tk][r] <= clock
GuardOK ==
  \A p \in Proc :
    /\ op[p].at = "asking" => op[p].now <= clock
    /\ op[p].at = "told" => op[p].now <= seen[op[p].token][op[p].role]
CacheOK ==
  /\ DOMAIN cache \subseteq Watched
  /\ \A tk \in DOMAIN cache :
       /\ cache[tk].role \in Role /\ cache[tk].until \in Int
       /\ cache[tk].until <= seen[tk][cache[tk].role] + CacheTTL
TailOK ==
  /\ DOMAIN tails \subseteq Watched
  /\ \A tk \in DOMAIN tails :
       /\ tails[tk] \in [opened : Nat, due : Nat] /\ clock <= tails[tk].due
       /\ \/ tails[tk].due <= tails[tk].opened + RecheckEvery
          \/ \E r \in Role : tails[tk].due <= seen[tk][r] + RecheckEvery
TimeInv == SeenOK /\ GuardOK /\ CacheOK /\ TailOK

(* The last live moment of a token only moves on, and a live token is seen now. *)
LEMMA SeenGrows ==
  ASSUME TypeInv, SeenOK, SessNext
  PROVE  /\ clock <= clock' /\ clock' \in Nat
         /\ SeenOK'
         /\ \A tk \in Watched, r \in Role : seen[tk][r] <= seen'[tk][r]
         /\ \A tk \in Watched : SessionActive(tk)' /\ RoleOf(tk)' \in Role
                                 => seen'[tk][RoleOf(tk)'] = clock'
<1>1. clock \in Nat /\ clock <= clock' /\ clock' \in Nat
  BY DEF TypeInv, CountsOK, SessNext, Tick
<1>2. seen' = [tk \in Watched |-> [r \in Role |->
                IF SessionActive(tk)' /\ RoleOf(tk)' = r THEN clock' ELSE seen[tk][r]]]
  BY DEF SessNext
<1>3. ASSUME NEW tk \in Watched, NEW r \in Role
      PROVE  /\ seen'[tk][r] \in Int /\ seen'[tk][r] <= clock' /\ seen[tk][r] <= seen'[tk][r]
             /\ SessionActive(tk)' /\ RoleOf(tk)' = r => seen'[tk][r] = clock'
  <2>1. seen'[tk][r] = IF SessionActive(tk)' /\ RoleOf(tk)' = r THEN clock' ELSE seen[tk][r]
    BY <1>2, Zenon
  <2>2. seen[tk][r] \in Int /\ seen[tk][r] <= clock
    BY DEF SeenOK
  <2>3. CASE SessionActive(tk)' /\ RoleOf(tk)' = r
    BY <1>1, <2>1, <2>2, <2>3
  <2>4. CASE ~(SessionActive(tk)' /\ RoleOf(tk)' = r)
    <3>1. seen'[tk][r] = seen[tk][r]
      BY <2>1, <2>4, Zenon
    <3>2. QED
      BY <1>1, <2>2, <2>4, <3>1
  <2>5. QED
    BY <2>3, <2>4
<1>4. seen' \in [Watched -> [Role -> Int]]
  <2>1. /\ seen' = [tk \in Watched |-> seen'[tk]]
        /\ \A tk \in Watched : seen'[tk] = [r \in Role |-> seen'[tk][r]]
    BY <1>2, Zenon
  <2>2. \A tk \in Watched : seen'[tk] \in [Role -> Int]
    BY <1>3, <2>1
  <2>3. QED
    BY <2>1, <2>2
<1>5. QED
  BY <1>1, <1>3, <1>4 DEF SeenOK


(* Few steps touch the caches, and none of them moves the clock. *)
LEMMA CachesMove ==
  ASSUME SessNext
  PROVE  /\ \/ cache' = cache
            \/ \E tk : cache' = Without(cache, {tk})
            \/ \E p \in Proc : StoreVerified(p)
         /\ \/ tails' = tails /\ (clock' = clock \/ Tick)
            \/ clock' = clock /\ \E p \in Proc : ServeTail(p)
            \/ clock' = clock /\ \E tk \in Watched : RecheckTail(tk) \/ TailEnds(tk)
<1> DEFINE CacheGoal == \/ cache' = cache
                        \/ \E tk : cache' = Without(cache, {tk})
                        \/ \E p \in Proc : StoreVerified(p)
           TailGoal == \/ tails' = tails
                       \/ \E p \in Proc : ServeTail(p)
                       \/ \E tk \in Watched : RecheckTail(tk) \/ TailEnds(tk)
<1>1. CASE Tick
  BY <1>1 DEF Tick
<1>2. ASSUME NEW tk \in Watched, RecheckTail(tk) \/ TailEnds(tk)
      PROVE  CacheGoal
  BY <1>2 DEF RecheckTail, TailEnds
<1>3. ASSUME NEW p \in Proc, NEW u \in User,
             \/ HandleLogin(p, u) \/ HandleOIDCCallback(p, u) \/ DeleteUser(p, u)
             \/ \E r \in Role : CreateUser(p, u, r)
             \/ \E r \in Role, off, reset \in BOOLEAN : UpdateUserReads(p, u, r, off, reset)
      PROVE  UNCHANGED <<cache, tails>>
  BY <1>3 DEF HandleLogin, HandleOIDCCallback, DeleteUser, CreateUser, UpdateUserReads
<1>4. ASSUME NEW p \in Proc,
             \/ \E tk \in 1..issued : Middleware(p, tk)
             \/ \E tk \in Watched : Verify(p, tk) \/ GuardLogout(p, tk)
             \/ \E i \in Idles : SetIdleTTL(p, i)
      PROVE  CacheGoal /\ tails' = tails
  BY <1>4 DEF Middleware, Verify, GuardLogout, SetIdleTTL
<1>5. ASSUME NEW p \in Proc, IssueSession(p)
      PROVE  CacheGoal /\ tails' = tails
  BY <1>5 DEF IssueSession, ProxyForgets
<1>6. ASSUME NEW p \in Proc,
             \/ IssueFails(p) \/ SlideSession(p) \/ HandleRead(p)
             \/ HandleLogout(p) \/ HandlePassword(p) \/ RevokeOwn(p) \/ UpdateUser(p)
             \/ SetPassword(p) \/ RevokeSessions(p) \/ ResetAdmin(p) \/ CapSessionExpiry(p)
             \/ BucketAnswersMe(p) \/ BucketLogsOut(p)
      PROVE  UNCHANGED <<cache, tails>>
  BY <1>6 DEF IssueFails, SlideSession, HandleRead, HandleLogout, HandlePassword, RevokeOwn,
     UpdateUser, SetPassword, RevokeSessions, ResetAdmin, CapSessionExpiry, BucketAnswersMe,
     BucketLogsOut
<1>7. ASSUME NEW p \in Proc, ServeTail(p)
      PROVE  CacheGoal
  BY <1>7 DEF ServeTail
<1>8. ASSUME NEW p \in Proc, StoreVerified(p)
      PROVE  tails' = tails
  BY <1>8 DEF StoreVerified
<1> HIDE DEF CacheGoal, TailGoal
<1>9. ASSUME Changes
      PROVE  CacheGoal /\ TailGoal
  <2>1. CASE \E tk \in Watched : RecheckTail(tk) \/ TailEnds(tk)
    BY <1>2, <2>1 DEF TailGoal
  <2>2. CASE \E p \in Proc : ServeTail(p)
    BY <1>7, <2>2 DEF TailGoal
  <2>3. CASE \E p \in Proc : StoreVerified(p)
    BY <1>8, <2>3 DEF CacheGoal, TailGoal
  <2>4. QED
    BY <1>3, <1>4, <1>5, <1>6, <1>9, <2>1, <2>2, <2>3 DEF Changes, CacheGoal, TailGoal
<1>10. QED
  BY <1>1, <1>9 DEF SessNext, CacheGoal, TailGoal

(* A check that finds a live session finds it live after the step as well,   *)
(* for the slide only lengthens it.                                          *)
LEMMA FoundLive ==
  ASSUME TypeInv, TypeInv', SeenOK, SessNext, NEW p \in Proc, Finds(p)
  PROVE  LET o == op'[p] IN o.role \in Role /\ o.now = op[p].now /\ seen'[o.token][o.role] = clock
<1>1. op[p] \in Steps /\ clock \in Nat /\ idleTTL \in Idles /\ RowsOK(sess)
      /\ users \in [User -> Accounts]
  BY DEF TypeInv, CountsOK, UsersOK
<1>2. PICK tk \in Watched : tk = op[p].token
  BY <1>1, StepKinds DEF Finds, Asks
<1>3. /\ op'[p].token = tk /\ op'[p].now = op[p].now /\ op'[p].role = RoleOf(tk)
      /\ SessionActive(tk) /\ sess' \in {sess, Slid(tk, idleTTL)}
      /\ users' = users /\ clock' = clock
  BY <1>2 DEF Finds
<1>4. tk \in DOMAIN sess /\ clock < sess[tk].until /\ ~users[sess[tk].user].disabled
  BY <1>3 DEF SessionActive
<1>5. sess[tk].user \in User
  BY <1>1, <1>4 DEF RowsOK, Rows
<1>6. RoleOf(tk) \in Role
  BY <1>1, <1>5 DEF RoleOf, Accounts
<1>7. idleTTL \in Nat \ {0}
  BY <1>1, SessionsAssumption
<1>8. DOMAIN sess' = DOMAIN sess /\ sess'[tk].user = sess[tk].user /\ clock < sess'[tk].until
  BY <1>1, <1>3, <1>4, <1>7, RowsSlid
<1>9. SessionActive(tk)' /\ RoleOf(tk)' = RoleOf(tk)
  BY <1>3, <1>4, <1>8 DEF SessionActive, RoleOf
<1>10. seen'[tk][RoleOf(tk)'] = clock'
  BY <1>2, <1>6, <1>9, SeenGrows
<1>11. QED
  BY <1>3, <1>6, <1>9, <1>10

(* Every step keeps the cache and the tails within their time. *)
LEMMA TimeStep == ASSUME TypeInv, TypeInv', TimeInv, SessNext PROVE TimeInv'
<1>1. /\ clock <= clock' /\ clock \in Nat /\ clock' \in Nat
      /\ SeenOK'
      /\ \A tk \in Watched, r \in Role : seen[tk][r] <= seen'[tk][r]
      /\ \A tk \in Watched, r \in Role : seen[tk][r] \in Int /\ seen'[tk][r] \in Int
      /\ CacheTTL \in Nat /\ RecheckEvery \in Nat
  BY SeenGrows, SessionsAssumption DEF TimeInv, SeenOK, TypeInv, CountsOK
<1>2. GuardOK'
  <2>1. ASSUME NEW p \in Proc, op'[p].at = "asking"
        PROVE  op'[p].now <= clock'
    <3>1. op'[p] = op[p] \/ (op'[p].now = clock /\ clock' = clock)
      BY <2>1, GuardMoves
    <3>2. CASE op'[p] = op[p]
      <4>1. op[p] \in Asks /\ op[p].now <= clock
        BY <2>1, <3>2, StepKinds DEF TimeInv, GuardOK, TypeInv
      <4>2. QED
        BY <1>1, <3>2, <4>1 DEF Asks
    <3>3. QED
      BY <1>1, <3>1, <3>2
  <2>2. ASSUME NEW p \in Proc, op'[p].at = "told"
        PROVE  op'[p].now <= seen'[op'[p].token][op'[p].role]
    <3>1. CASE op'[p] = op[p]
      <4>1. op[p] \in Tolds /\ op[p].now <= seen[op[p].token][op[p].role]
        BY <2>2, <3>1, StepKinds DEF TimeInv, GuardOK, TypeInv
      <4>2. op[p].token \in Watched /\ op[p].role \in Role /\ op[p].now \in Nat
        BY <4>1 DEF Tolds
      <4>3. QED
        BY <1>1, <3>1, <4>1, <4>2
    <3>2. CASE Finds(p)
      <4>1. op[p] \in Asks /\ op[p].now <= clock
        BY <3>2, StepKinds DEF TimeInv, GuardOK, TypeInv, Finds
      <4>2. op'[p].now = op[p].now /\ seen'[op'[p].token][op'[p].role] = clock
        BY <3>2, FoundLive DEF TimeInv
      <4>3. QED
        BY <4>1, <4>2
    <3>3. QED
      BY <2>2, <3>1, <3>2, GuardMoves
  <2>3. QED
    BY <2>1, <2>2 DEF GuardOK
<1>3. CacheOK'
  <2>1. ASSUME NEW tk \in DOMAIN cache
        PROVE  /\ tk \in Watched /\ cache[tk].role \in Role /\ cache[tk].until \in Int
               /\ cache[tk].until <= seen'[tk][cache[tk].role] + CacheTTL
    <3>1. /\ tk \in Watched /\ cache[tk].role \in Role /\ cache[tk].until \in Int
          /\ cache[tk].until <= seen[tk][cache[tk].role] + CacheTTL
      BY DEF TimeInv, CacheOK
    <3>2. seen[tk][cache[tk].role] <= seen'[tk][cache[tk].role]
          /\ seen[tk][cache[tk].role] \in Int /\ seen'[tk][cache[tk].role] \in Int
      BY <1>1, <3>1
    <3>3. QED
      BY <1>1, <3>1, <3>2
  <2>2. CASE cache' = cache
    BY <2>1, <2>2 DEF CacheOK
  <2>3. ASSUME NEW tk, cache' = Without(cache, {tk})
        PROVE  CacheOK'
    BY <2>1, <2>3 DEF CacheOK, Without, Restrict
  <2>4. ASSUME NEW p \in Proc, StoreVerified(p)
        PROVE  CacheOK'
    <3>1. op[p] \in Tolds /\ op[p].now <= seen[op[p].token][op[p].role]
      BY <2>4, StepKinds DEF TimeInv, GuardOK, TypeInv, StoreVerified
    <3>2. op[p].token \in Watched /\ op[p].role \in Role /\ op[p].now \in Nat
      BY <3>1 DEF Tolds
    <3> DEFINE k == op[p].token
               e == [role |-> op[p].role, until |-> op[p].now + CacheTTL]
               fresh == Restrict(cache, {tk \in DOMAIN cache : op[p].now <= cache[tk].until})
    <3>3. cache' = With(fresh, k, e)
      BY <2>4 DEF StoreVerified
    <3>4. DOMAIN fresh \subseteq DOMAIN cache /\ \A tk \in DOMAIN fresh : fresh[tk] = cache[tk]
      BY DEF Restrict
    <3>5. e.role \in Role /\ e.until \in Int /\ e.until <= seen'[k][e.role] + CacheTTL
      BY <1>1, <3>1, <3>2
    <3> HIDE DEF fresh, e, k
    <3>6. /\ DOMAIN cache' = DOMAIN fresh \cup {k} /\ cache'[k] = e
          /\ \A tk \in DOMAIN fresh \ {k} : cache'[tk] = fresh[tk]
      BY <3>3 DEF With
    <3>7. ASSUME NEW tk \in DOMAIN cache'
          PROVE  /\ tk \in Watched /\ cache'[tk].role \in Role /\ cache'[tk].until \in Int
                 /\ cache'[tk].until <= seen'[tk][cache'[tk].role] + CacheTTL
      <4>1. CASE tk = k
        BY <3>2, <3>5, <3>6, <4>1 DEF k
      <4>2. CASE tk # k
        <5>1. tk \in DOMAIN cache /\ cache'[tk] = cache[tk]
          BY <3>4, <3>6, <4>2
        <5>2. QED
          BY <2>1, <5>1
      <4>3. QED
        BY <4>1, <4>2
    <3>8. QED
      BY <3>7 DEF CacheOK
  <2>5. QED
    BY <2>2, <2>3, <2>4, CachesMove
<1>4. TailOK'
  <2>1. ASSUME NEW tk \in DOMAIN tails
        PROVE  /\ tk \in Watched /\ tails[tk] \in [opened : Nat, due : Nat]
               /\ clock <= tails[tk].due
               /\ \/ tails[tk].due <= tails[tk].opened + RecheckEvery
                  \/ \E r \in Role : tails[tk].due <= seen'[tk][r] + RecheckEvery
    <3>1. /\ tk \in Watched /\ tails[tk] \in [opened : Nat, due : Nat]
          /\ clock <= tails[tk].due
          /\ \/ tails[tk].due <= tails[tk].opened + RecheckEvery
             \/ \E r \in Role : tails[tk].due <= seen[tk][r] + RecheckEvery
      BY DEF TimeInv, TailOK
    <3>2. ASSUME NEW r \in Role, tails[tk].due <= seen[tk][r] + RecheckEvery
          PROVE  tails[tk].due <= seen'[tk][r] + RecheckEvery
      BY <1>1, <3>1, <3>2
    <3>3. QED
      BY <3>1, <3>2
  <2>2. CASE tails' = tails /\ clock' = clock
    BY <2>1, <2>2 DEF TailOK
  <2>3. CASE tails' = tails /\ Tick
    <3>1. \A tk \in DOMAIN tails : clock' <= tails[tk].due
      BY <1>1, <2>1, <2>3 DEF Tick
    <3>2. QED
      BY <2>1, <2>3, <3>1 DEF TailOK
  <2>4. ASSUME clock' = clock, NEW p \in Proc, ServeTail(p)
        PROVE  TailOK'
    <3> DEFINE e == [opened |-> clock, due |-> clock + RecheckEvery]
               k == op[p].token
    <3>1. tails' = With(tails, k, e) /\ k \in Watched
      BY <2>4 DEF ServeTail
    <3>2. /\ e \in [opened : Nat, due : Nat] /\ clock' <= e.due
          /\ e.due <= e.opened + RecheckEvery
      BY <1>1, <2>4
    <3> HIDE DEF e, k
    <3>3. /\ DOMAIN tails' = DOMAIN tails \cup {k} /\ tails'[k] = e
          /\ \A tk \in DOMAIN tails \ {k} : tails'[tk] = tails[tk]
      BY <3>1 DEF With
    <3>4. QED
      BY <2>1, <2>4, <3>1, <3>2, <3>3 DEF TailOK
  <2>5. ASSUME clock' = clock, NEW tk \in Watched, RecheckTail(tk)
        PROVE  TailOK'
    <3>1. CASE tails' = Without(tails, {tk})
      BY <2>1, <2>5, <3>1 DEF TailOK, Without, Restrict
    <3>2. CASE SessionActive(tk) /\ tails' = [tails EXCEPT ![tk].due = clock + RecheckEvery]
      <4>1. SessionActive(tk)' /\ RoleOf(tk)' = RoleOf(tk)
        BY <2>5, <3>2 DEF RecheckTail, SessionActive, RoleOf
      <4>2. RoleOf(tk) \in Role
        <5>1. sess[tk].user \in User
          BY <3>2 DEF SessionActive, TypeInv, RowsOK, Rows
        <5>2. QED
          BY <5>1 DEF TypeInv, UsersOK, Accounts, RoleOf
      <4>3. seen'[tk][RoleOf(tk)] = clock'
        BY <4>1, <4>2, SeenGrows DEF TimeInv
      <4>4. /\ DOMAIN tails' = DOMAIN tails
            /\ \A k \in DOMAIN tails \ {tk} : tails'[k] = tails[k]
        BY <3>2
      <4>5. tk \in DOMAIN tails
        BY <2>5 DEF RecheckTail
      <4>6. tails'[tk] \in [opened : Nat, due : Nat] /\ tails'[tk].due = clock + RecheckEvery
        BY <1>1, <2>1, <3>2, <4>5
      <4>7. QED
        <5>1. tails'[tk].due <= seen'[tk][RoleOf(tk)] + RecheckEvery /\ clock' <= tails'[tk].due
          BY <1>1, <2>5, <4>3, <4>6
        <5>2. QED
          BY <2>1, <2>5, <4>2, <4>4, <4>5, <4>6, <5>1 DEF TailOK
    <3>3. QED
      BY <2>5, <3>1, <3>2 DEF RecheckTail
  <2>6. ASSUME clock' = clock, NEW tk \in Watched, TailEnds(tk)
        PROVE  TailOK'
    BY <2>1, <2>6 DEF TailOK, TailEnds, Without, Restrict
  <2>7. QED
    BY <2>2, <2>3, <2>4, <2>5, <2>6, CachesMove
<1>5. QED
  BY <1>1, <1>2, <1>3, <1>4 DEF TimeInv

Revoking == {"setPassword", "revoke", "revokeOwn"}
HereOK == \A tk \in DOMAIN sess : users[sess[tk].user].is = "here"
OffOK  == \A p \in Proc : op[p].at = "update" /\ op[p].off => op[p].kills
EndInv == HereOK /\ OffOK /\ OldSessionsGone /\ IdleHeld

(* Most steps leave the accounts alone, and of the rows only what they last. *)
LEMMA QuietStep ==
  ASSUME TypeInv, TypeInv', EndInv, NEW p \in Proc,
         op[p].at \notin Revoking \cup {"cap"},
         users' = users, idleTTL' = idleTTL, clock' = clock,
         \A q \in Proc \ {p} : op'[q] = op[q],
         op'[p].at = "update" /\ op'[p].off => op'[p].kills,
         DOMAIN sess' \subseteq DOMAIN sess,
         \A tk \in DOMAIN sess' :
           /\ sess'[tk].user = sess[tk].user /\ sess'[tk].pw = sess[tk].pw
           /\ sess[tk].late => sess'[tk].late
           /\ \/ sess'[tk].until = sess[tk].until /\ (sess[tk].long => sess'[tk].long)
              \/ sess'[tk].until <= clock + idleTTL
              \/ sess'[tk].long
  PROVE  EndInv'
<1>1. HereOK'
  BY DEF EndInv, HereOK
<1>2. OffOK'
  BY DEF EndInv, OffOK
<1>3. OldSessionsGone'
  <2>1. ASSUME NEW u, BeingRevoked(u)
        PROVE  BeingRevoked(u)'
    BY <2>1 DEF BeingRevoked, Revoking
  <2>2. QED
    BY <2>1 DEF EndInv, OldSessionsGone
<1>4. IdleHeld'
  BY DEF EndInv, IdleHeld
<1>5. QED
  BY <1>1, <1>2, <1>3, <1>4 DEF EndInv

(* Steps that leave the rows alone, too. *)
LEMMA SilentStep ==
  ASSUME TypeInv, TypeInv', EndInv, NEW p \in Proc,
         op[p].at \notin Revoking \cup {"cap"},
         users' = users, idleTTL' = idleTTL, clock' = clock, sess' = sess,
         \A q \in Proc \ {p} : op'[q] = op[q],
         op'[p].at = "update" /\ op'[p].off => op'[p].kills
  PROVE  EndInv'
BY QuietStep

(* Steps that change accounts. *)
LEMMA UsersStep ==
  ASSUME TypeInv, TypeInv', EndInv, NEW p \in Proc, op[p].at # "cap",
         idleTTL' = idleTTL, clock' = clock,
         \A q \in Proc \ {p} : op'[q] = op[q],
         op'[p].at = "update" /\ op'[p].off => op'[p].kills,
         \A u : BeingRevoked(u) => BeingRevoked(u)',
         DOMAIN sess' \subseteq DOMAIN sess,
         \A tk \in DOMAIN sess' :
           /\ sess'[tk] = sess[tk]
           /\ users'[sess[tk].user].is = "here"
           /\ \/ BeingRevoked(sess[tk].user)'
              \/ Outdated(users'[sess[tk].user], sess[tk].pw) => Outdated(users[sess[tk].user], sess[tk].pw)
  PROVE  EndInv'
<1>1. HereOK'
  BY DEF HereOK
<1>2. OffOK'
  BY DEF EndInv, OffOK
<1>3. OldSessionsGone'
  BY DEF EndInv, OldSessionsGone
<1>4. IdleHeld'
  BY DEF EndInv, IdleHeld
<1>5. QED
  BY <1>1, <1>2, <1>3, <1>4 DEF EndInv

(* A step of a request that revokes nothing leaves what is being revoked. *)
LEMMA RevokingStays ==
  ASSUME NEW p \in Proc, op[p].at \notin Revoking, \A q \in Proc \ {p} : op'[q] = op[q],
         NEW u, BeingRevoked(u)
  PROVE  BeingRevoked(u)'
BY DEF BeingRevoked, Revoking

(* A handler that gives up marks the rows it should have revoked. *)
LEMMA GaveUp ==
  ASSUME TypeInv, TypeInv', EndInv, NEW p \in Proc, NEW written, GivesUp(p, written),
         op[p].at # "cap", op[p].user \in User, idleTTL' = idleTTL, clock' = clock,
         \A v \in User : /\ written[v].is = users[v].is
                         /\ v # op[p].user => written[v] = users[v]
  PROVE  EndInv'
<1>1. RowsOK(sess) /\ op \in [Proc -> Steps]
  BY DEF TypeInv
<1>2. PICK me \in User : me = op[p].user
  OBVIOUS
<1>3. /\ op'[p].at = "rest" /\ \A q \in Proc \ {p} : op'[q] = op[q]
      /\ sess' = NotRevoked(me, users'[me])
  BY <1>1, <1>2 DEF GivesUp, Answer, Go, Resting
<1>4. \A v \in User : users'[v].is = users[v].is /\ (v # me => users'[v] = users[v])
  BY <1>2 DEF GivesUp
<1>5. PICK a : a = users'[me]
  OBVIOUS
<1>6. /\ DOMAIN sess' = DOMAIN sess
      /\ \A tk \in DOMAIN sess : /\ sess'[tk].user = sess[tk].user
                                 /\ sess'[tk].until = sess[tk].until
                                 /\ sess'[tk].pw = sess[tk].pw
                                 /\ sess[tk].long => sess'[tk].long
                                 /\ sess[tk].user = me /\ Outdated(a, sess[tk].pw) => sess'[tk].late
                                 /\ sess[tk].user # me => sess'[tk] = sess[tk]
  BY <1>1, <1>3, <1>5, RowsNotRevoked
<1>7. \A tk \in DOMAIN sess : sess[tk].user \in User
  BY <1>1 DEF RowsOK, Rows
<1>8. HereOK'
  BY <1>4, <1>6, <1>7 DEF EndInv, HereOK
<1>9. OffOK'
  BY <1>3 DEF EndInv, OffOK
<1>10. OldSessionsGone'
  <2>1. ASSUME NEW v, v # me, BeingRevoked(v)
        PROVE  BeingRevoked(v)'
    BY <1>2, <1>3, <2>1 DEF BeingRevoked
  <2>2. ASSUME NEW tk \in DOMAIN sess', NEW v, v = sess[tk].user,
               Outdated(users'[sess'[tk].user], sess'[tk].pw)
        PROVE  sess'[tk].late \/ BeingRevoked(v)'
    <3>1. CASE v = me
      BY <1>5, <1>6, <2>2, <3>1
    <3>2. CASE v # me
      <4>1. sess'[tk] = sess[tk] /\ users'[sess[tk].user] = users[sess[tk].user]
        BY <1>4, <1>6, <1>7, <2>2, <3>2
      <4>2. sess[tk].late \/ BeingRevoked(v)
        BY <1>6, <2>2, <4>1 DEF EndInv, OldSessionsGone
      <4>3. QED
        BY <2>1, <3>2, <4>1, <4>2
    <3>3. QED
      BY <3>1, <3>2
  <2>3. \A tk \in DOMAIN sess' : sess'[tk].user = sess[tk].user
    BY <1>6
  <2>4. QED
    BY <2>2, <2>3 DEF OldSessionsGone
<1>11. IdleHeld'
  BY <1>3, <1>6 DEF EndInv, IdleHeld
<1>12. QED
  BY <1>8, <1>9, <1>10, <1>11 DEF EndInv

(* Every step keeps the rows of switched-off accounts and old passwords late or being revoked. *)
LEMMA EndStep == ASSUME TypeInv, TypeInv', EndInv, SessNext PROVE EndInv'
<1>1. /\ users \in [User -> Accounts] /\ RowsOK(sess) /\ op \in [Proc -> Steps]
      /\ clock \in Nat /\ issued \in Nat /\ edits \in Nat /\ idleTTL \in Idles
  BY DEF TypeInv, CountsOK, UsersOK
<1>2. HereOK /\ OffOK /\ OldSessionsGone /\ IdleHeld
  BY DEF EndInv
<1>3. ASSUME NEW p \in Proc, NEW o, Go(p, o)
      PROVE  op'[p] = o /\ \A q \in Proc \ {p} : op'[q] = op[q]
  BY <1>1, <1>3 DEF Go
<1>4. CASE Tick
  <2>1. HereOK' /\ OffOK' /\ OldSessionsGone'
    BY <1>2, <1>4 DEF Tick, HereOK, OffOK, OldSessionsGone, BeingRevoked
  <2>2. IdleHeld'
    <3>1. ASSUME NEW tk \in DOMAIN sess, sess[tk].until <= clock + idleTTL
          PROVE  sess[tk].until <= clock' + idleTTL'
      <4>1. sess[tk].until \in Nat /\ idleTTL \in Nat
        BY <1>1, SessionsAssumption DEF RowsOK, Rows
      <4>2. QED
        BY <1>1, <1>4, <3>1, <4>1 DEF Tick
    <3>2. QED
      BY <1>2, <1>4, <3>1 DEF Tick, IdleHeld
  <2>3. QED
    BY <2>1, <2>2 DEF EndInv
<1> SUFFICES ASSUME Changes, clock' = clock
             PROVE  EndInv'
  BY <1>4 DEF SessNext
<1>5. ASSUME NEW tk \in Watched, RecheckTail(tk) \/ TailEnds(tk)
      PROVE  EndInv'
  BY <1>2, <1>5 DEF RecheckTail, TailEnds, EndInv, HereOK, OffOK, OldSessionsGone, BeingRevoked, IdleHeld
<1>6. ASSUME NEW p \in Proc, NEW u \in User, HandleLogin(p, u)
      PROVE  EndInv'
  BY <1>3, <1>6, SilentStep DEF HandleLogin, Resting, Issuing, Revoking
<1>7. ASSUME NEW p \in Proc, NEW u \in User, HandleOIDCCallback(p, u)
      PROVE  EndInv'
  <2>1. /\ op'[p].at = "issue" /\ op[p].at = "rest" /\ sess' = sess /\ idleTTL' = idleTTL
        /\ \A q \in Proc \ {p} : op'[q] = op[q]
    BY <1>3, <1>7 DEF HandleOIDCCallback, Resting, Issuing
  <2>2. \A v \in User : /\ users[v].is = "here" => users'[v] = users[v]
    BY <1>1, <1>7 DEF HandleOIDCCallback, userForSubject
  <2>3. \A tk \in DOMAIN sess : sess[tk].user \in User /\ users[sess[tk].user].is = "here"
    BY <1>1, <1>2 DEF RowsOK, Rows, HereOK
  <2>4. \A v : BeingRevoked(v) => BeingRevoked(v)'
    BY <2>1, RevokingStays DEF Revoking
  <2>5. QED
    BY <2>1, <2>2, <2>3, <2>4, UsersStep
<1>8. ASSUME NEW p \in Proc, NEW u \in User, DeleteUser(p, u)
      PROVE  EndInv'
  <2>1. /\ op'[p].at = "rest" /\ op[p].at = "handle" /\ sess' = Revoked(u) /\ idleTTL' = idleTTL
        /\ \A q \in Proc \ {p} : op'[q] = op[q]
    BY <1>3, <1>8 DEF DeleteUser, AsAdmin, Handling, Answer, Resting
  <2>2. /\ DOMAIN sess' \subseteq DOMAIN sess
        /\ \A tk \in DOMAIN sess' : sess'[tk] = sess[tk] /\ sess[tk].user # u
    BY <1>1, <2>1, RowsRevoked
  <2>3. \A v \in User \ {u} : users'[v] = users[v]
    BY <1>1, <1>8 DEF DeleteUser
  <2>4. \A tk \in DOMAIN sess : sess[tk].user \in User /\ users[sess[tk].user].is = "here"
    BY <1>1, <1>2 DEF RowsOK, Rows, HereOK
  <2>5. \A v : BeingRevoked(v) => BeingRevoked(v)'
    BY <2>1, RevokingStays DEF Revoking
  <2>6. QED
    BY <2>1, <2>2, <2>3, <2>4, <2>5, UsersStep
<1>9. ASSUME NEW p \in Proc, NEW u \in User, NEW r \in Role, CreateUser(p, u, r)
      PROVE  EndInv'
  <2>1. /\ op'[p].at = "rest" /\ op[p].at = "handle" /\ sess' = sess /\ idleTTL' = idleTTL
        /\ \A q \in Proc \ {p} : op'[q] = op[q]
    BY <1>3, <1>9 DEF CreateUser, AsAdmin, Handling, Answer, Resting
  <2>2. \A v \in User : users[v].is = "here" => users'[v] = users[v]
    BY <1>1, <1>9 DEF CreateUser
  <2>3. \A tk \in DOMAIN sess : sess[tk].user \in User /\ users[sess[tk].user].is = "here"
    BY <1>1, <1>2 DEF RowsOK, Rows, HereOK
  <2>4. \A v : BeingRevoked(v) => BeingRevoked(v)'
    BY <2>1, RevokingStays DEF Revoking
  <2>5. QED
    BY <2>1, <2>2, <2>3, <2>4, UsersStep
<1>10. ASSUME NEW p \in Proc, NEW u \in User, NEW r \in Role, NEW off \in BOOLEAN, NEW reset \in BOOLEAN,
              UpdateUserReads(p, u, r, off, reset)
       PROVE  EndInv'
  <2> DEFINE o == [at |-> "update", user |-> u, role |-> r, off |-> off, reset |-> reset,
                    pw |-> edits', kills |-> sessionsRevokedBy(users[u], r, off, reset)]
  <2>1. op'[p] = o /\ \A q \in Proc \ {p} : op'[q] = op[q]
    BY <1>3, <1>10 DEF UpdateUserReads
  <2>2. o.off => o.kills
    BY Zenon DEF sessionsRevokedBy
  <2> HIDE DEF o
  <2>3. op'[p].off => op'[p].kills
    BY <2>1, <2>2, Zenon
  <2>4. op[p].at \notin Revoking \cup {"cap"}
    BY <1>10 DEF UpdateUserReads, AsAdmin, Handling, Revoking
  <2>5. QED
    BY <1>10, <2>1, <2>3, <2>4, SilentStep DEF UpdateUserReads
<1>11. ASSUME NEW p \in Proc, NEW tk \in 1..issued, Middleware(p, tk)
       PROVE  EndInv'
  BY <1>3, <1>11, SilentStep DEF Middleware, Resting, Revoking
<1>12. ASSUME NEW p \in Proc, NEW tk \in Watched, Verify(p, tk) \/ GuardLogout(p, tk)
       PROVE  EndInv'
  BY <1>3, <1>12, SilentStep DEF Verify, GuardLogout, Resting, Revoking
<1>13. ASSUME NEW p \in Proc, NEW i \in Idles, SetIdleTTL(p, i)
       PROVE  EndInv'
  <2>1. /\ op'[p] = [at |-> "cap", idle |-> i] /\ op[p].at = "handle" /\ idleTTL' = i
        /\ users' = users /\ sess' = sess /\ \A q \in Proc \ {p} : op'[q] = op[q]
    BY <1>3, <1>13 DEF SetIdleTTL, AsAdmin, Handling
  <2>2. HereOK' /\ OffOK'
    BY <1>2, <2>1 DEF HereOK, OffOK
  <2>3. \A v : BeingRevoked(v) => BeingRevoked(v)'
    BY <2>1, RevokingStays DEF Revoking
  <2>4. OldSessionsGone'
    BY <1>2, <2>1, <2>3 DEF OldSessionsGone
  <2>5. op'[p].at = "cap" /\ op'[p].idle <= idleTTL'
    BY <2>1, SessionsAssumption
  <2>6. IdleHeld'
    BY <2>5 DEF IdleHeld
  <2>7. QED
    BY <2>2, <2>4, <2>6 DEF EndInv
<1>14. ASSUME NEW p \in Proc, IssueSession(p)
       PROVE  EndInv'
  <2>1. /\ op'[p].at = "rest" /\ op[p].at = "issue" /\ users' = users /\ idleTTL' = idleTTL
        /\ \A q \in Proc \ {p} : op'[q] = op[q]
    BY <1>3, <1>14 DEF IssueSession, Answer, Resting
  <2>2. /\ DOMAIN sess' \subseteq {issued'} \cup DOMAIN sess
        /\ op[p] \in Issues /\ issued' \in DOMAIN sess'
        /\ sess'[issued'].user = op[p].user /\ sess'[issued'].pw = op[p].pw
        /\ sess'[issued'].late <=> Outdated(users[op[p].user], op[p].pw)
        /\ sess'[issued'].until <= clock + idleTTL \/ sess'[issued'].long
        /\ \A tk \in DOMAIN sess' \ {issued'} : sess'[tk] = sess[tk]
    BY <1>14, RowsIssued
  <2>3. HereOK' /\ OffOK'
    <3>1. users[op[p].user].is = "here"
      BY <1>14 DEF IssueSession
    <3>2. QED
      BY <1>2, <2>1, <2>2, <3>1 DEF HereOK, OffOK
  <2>4. OldSessionsGone'
    <3>1. \A v : BeingRevoked(v) => BeingRevoked(v)'
      BY <2>1, RevokingStays DEF Revoking
    <3>2. QED
      BY <1>2, <2>1, <2>2, <3>1 DEF OldSessionsGone
  <2>5. IdleHeld'
    BY <1>2, <2>1, <2>2 DEF IdleHeld
  <2>6. QED
    BY <2>3, <2>4, <2>5 DEF EndInv
<1>15. ASSUME NEW p \in Proc, IssueFails(p) \/ HandleRead(p) \/ ServeTail(p) \/ StoreVerified(p)
       PROVE  EndInv'
  <2>1. /\ op'[p].at = "rest" /\ op[p].at \in {"issue", "handle", "told"}
        /\ users' = users /\ idleTTL' = idleTTL /\ \A q \in Proc \ {p} : op'[q] = op[q]
        /\ sess' = sess \/ sess' = Unexpired
    BY <1>3, <1>15 DEF IssueFails, HandleRead, ServeTail, StoreVerified, Answer, Resting, Handling
  <2>2. DOMAIN sess' \subseteq DOMAIN sess /\ \A tk \in DOMAIN sess' : sess'[tk] = sess[tk]
    BY <1>1, <2>1, RowsUnexpired
  <2>3. QED
    BY <2>1, <2>2, QuietStep DEF Revoking
<1>16. ASSUME NEW p \in Proc, HandleLogout(p) \/ BucketLogsOut(p)
       PROVE  EndInv'
  <2>1. /\ op'[p].at = "rest" /\ op[p].at \in {"handle", "proxyLogout"}
        /\ users' = users /\ idleTTL' = idleTTL /\ \A q \in Proc \ {p} : op'[q] = op[q]
    BY <1>3, <1>16 DEF HandleLogout, BucketLogsOut, Handling, Answer, Resting
  <2>2. sess' \in {sess, Without(sess, {op[p].token})}
    BY <1>16 DEF HandleLogout, BucketLogsOut
  <2>3. DOMAIN sess' \subseteq DOMAIN sess /\ \A tk \in DOMAIN sess' : sess'[tk] = sess[tk]
    <3>1. PICK S : S = {op[p].token}
      OBVIOUS
    <3>2. /\ DOMAIN Without(sess, S) = DOMAIN sess \ S
          /\ \A tk \in DOMAIN sess \ S : Without(sess, S)[tk] = sess[tk]
      BY <1>1, RowsWithout
    <3>3. QED
      BY <2>2, <3>1, <3>2
  <2>4. QED
    BY <2>1, <2>3, QuietStep DEF Revoking
<1>17. ASSUME NEW p \in Proc, SlideSession(p)
       PROVE  EndInv'
  <2>1. op[p] \in Requests /\ op[p].at = "slide"
    BY <1>1, <1>17, StepKinds DEF SlideSession
  <2>2. /\ op'[p].at = "handle" /\ sess' \in {sess, Slid(op[p].token, op[p].idle)}
        /\ users' = users /\ idleTTL' = idleTTL /\ \A q \in Proc \ {p} : op'[q] = op[q]
    BY <1>3, <1>17, <2>1 DEF SlideSession, Requests
  <2>3. op[p].idle \in Idles
    BY <2>1 DEF Requests
  <2>4. /\ DOMAIN sess' = DOMAIN sess
        /\ \A k \in DOMAIN sess :
             \/ sess'[k] = sess[k]
             \/ /\ sess'[k].user = sess[k].user /\ sess'[k].until = clock + op[p].idle
                /\ sess'[k].pw = sess[k].pw /\ sess'[k].late = sess[k].late
                /\ sess'[k].long <=> op[p].idle > idleTTL
    BY <1>1, <2>2, <2>3, RowsSlid
  <2>5. op[p].idle > idleTTL \/ clock + op[p].idle <= clock + idleTTL
    <3>1. op[p].idle \in Nat /\ idleTTL \in Nat
      BY <1>1, <2>3, SessionsAssumption
    <3>2. QED
      BY <1>1, <3>1
  <2>6. QED
    BY <2>1, <2>2, <2>4, <2>5, QuietStep DEF Revoking
<1>18. ASSUME NEW p \in Proc, HandlePassword(p)
       PROVE  EndInv'
  <2> DEFINE written == WithPassword(op[p].user, edits')
  <2>1. op[p] \in Requests /\ op[p].at = "handle"
    BY <1>1, <1>18, StepKinds DEF HandlePassword, Handling
  <2>3. op[p].user \in User /\ edits' \in Nat
    BY <1>1, <1>18, <2>1 DEF Requests, HandlePassword, Edit
  <2>4. \A v \in User : /\ written[v].is = users[v].is
                        /\ v # op[p].user => written[v] = users[v]
    BY <1>1, <2>3, UsersEdited DEF UsersOK
  <2> HIDE DEF written
  <2>10. CASE GivesUp(p, written)
    <3>1. idleTTL' = idleTTL
      BY <1>18 DEF HandlePassword
    <3>2. QED
      BY <2>1, <2>3, <2>4, <2>10, <3>1, GaveUp
  <2> SUFFICES ASSUME ~GivesUp(p, written)
               PROVE  EndInv'
    BY <2>10
  <2>11. users' = written
    BY <1>18 DEF HandlePassword, written
  <2>2. /\ op'[p].at = "revokeOwn" /\ op'[p].user = op[p].user
        /\ sess' = sess /\ idleTTL' = idleTTL /\ \A q \in Proc \ {p} : op'[q] = op[q]
    BY <1>3, <1>18 DEF HandlePassword, written
  <2>5. \A tk \in DOMAIN sess : sess[tk].user \in User /\ users[sess[tk].user].is = "here"
    BY <1>1, <1>2 DEF RowsOK, Rows, HereOK
  <2>6. BeingRevoked(op[p].user)'
    BY <2>2 DEF BeingRevoked
  <2>7. \A v : BeingRevoked(v) => BeingRevoked(v)'
    BY <2>1, <2>2, RevokingStays DEF Revoking
  <2>8. \A v \in User : BeingRevoked(v)' \/ users'[v] = users[v]
    <3>1. PICK me : me = op[p].user
      OBVIOUS
    <3>2. BeingRevoked(me)'
      BY <2>2, <3>1 DEF BeingRevoked
    <3>3. QED
      BY <2>4, <2>11, <3>1, <3>2
  <2>9. QED
    BY <2>1, <2>2, <2>4, <2>5, <2>7, <2>8, <2>11, UsersStep
<1>19. ASSUME NEW p \in Proc, RevokeOwn(p)
       PROVE  EndInv'
  <2>0. [Issuing(op[p].user, op[p].pw) EXCEPT !.old = op[p].old].at = "issue"
    BY DEF Issuing
  <2>1. /\ users' = users /\ idleTTL' = idleTTL /\ \A q \in Proc \ {p} : op'[q] = op[q]
        /\ op[p].at = "revokeOwn" /\ op'[p].at = "issue"
        /\ sess' \in {Revoked(op[p].user), NotRevoked(op[p].user, users[op[p].user])}
    BY <1>3, <1>19, <2>0 DEF RevokeOwn
  <2>2. PICK me : me = op[p].user
    OBVIOUS
  <2>3. ASSUME NEW v, v # me, BeingRevoked(v)
        PROVE  BeingRevoked(v)'
    BY <2>1, <2>2, <2>3 DEF BeingRevoked
  <2>4. CASE sess' = Revoked(me)
    <3>1. /\ DOMAIN sess' \subseteq DOMAIN sess
          /\ \A tk \in DOMAIN sess' : sess'[tk] = sess[tk] /\ sess[tk].user # me
      BY <1>1, <2>4, RowsRevoked
    <3>2. HereOK' /\ OffOK'
      BY <1>2, <2>1, <3>1 DEF HereOK, OffOK
    <3>3. OldSessionsGone'
      BY <1>2, <2>1, <2>3, <3>1 DEF OldSessionsGone
    <3>4. IdleHeld'
      BY <1>2, <2>1, <3>1 DEF IdleHeld
    <3>5. QED
      BY <3>2, <3>3, <3>4 DEF EndInv
  <2>5. CASE sess' = NotRevoked(me, users[me])
    <3>0. PICK a : a = users[me]
      OBVIOUS
    <3>1. /\ DOMAIN sess' = DOMAIN sess
          /\ \A tk \in DOMAIN sess :
               /\ sess'[tk].user = sess[tk].user
               /\ sess'[tk].until = sess[tk].until
               /\ sess'[tk].pw = sess[tk].pw
               /\ sess[tk].long => sess'[tk].long
               /\ sess[tk].user = me /\ Outdated(a, sess[tk].pw) => sess'[tk].late
               /\ sess[tk].user # me => sess'[tk] = sess[tk]
      BY <1>1, <2>5, <3>0, RowsNotRevoked
    <3>2. HereOK' /\ OffOK'
      BY <1>2, <2>1, <3>1 DEF HereOK, OffOK
    <3>3. OldSessionsGone'
      BY <1>2, <2>1, <2>3, <3>0, <3>1 DEF OldSessionsGone
    <3>4. IdleHeld'
      BY <1>2, <2>1, <3>1 DEF IdleHeld
    <3>5. QED
      BY <3>2, <3>3, <3>4 DEF EndInv
  <2>6. QED
    BY <2>1, <2>2, <2>4, <2>5
<1>20. ASSUME NEW p \in Proc, UpdateUser(p)
       PROVE  EndInv'
  <2>1. op[p] \in Updates /\ op[p].at = "update"
    BY <1>1, <1>20, StepKinds DEF UpdateUser
  <2>2. op[p].user \in User /\ op[p].role \in Role /\ op[p].off \in BOOLEAN
    BY <2>1 DEF Updates
  <2>3. PICK me \in User : me = op[p].user
    BY <2>2
  <2> DEFINE written ==
        [users EXCEPT ![op[p].user].role = IF users[op[p].user].is = "here" THEN op[p].role ELSE @,
                      ![op[p].user].disabled = IF users[op[p].user].is = "here" THEN op[p].off ELSE @]
  <2>5. /\ \A v \in User \ {me} : written[v] = users[v]
        /\ written[me].is = users[me].is /\ written[me].pw = users[me].pw
        /\ written[me].disabled => users[me].disabled \/ (users[me].is = "here" /\ op[p].off)
    BY <1>1, <2>2, <2>3 DEF Accounts
  <2>10. /\ idleTTL' = idleTTL
         /\ \/ /\ users' = written /\ sess' = sess
               /\ Answer(p) \/ Step(p, "setPassword") \/ Step(p, "revoke")
               /\ users[op[p].user].is = "here" /\ op[p].kills =>
                    Step(p, "setPassword") \/ Step(p, "revoke")
            \/ GivesUp(p, written)
    BY <1>20, Zenon DEF UpdateUser
  <2> HIDE DEF written
  <2>11. CASE GivesUp(p, written)
    BY <2>1, <2>2, <2>3, <2>5, <2>10, <2>11, GaveUp
  <2> SUFFICES ASSUME ~GivesUp(p, written)
               PROVE  EndInv'
    BY <2>11
  <2>4. /\ sess' = sess /\ idleTTL' = idleTTL /\ \A q \in Proc \ {p} : op'[q] = op[q]
        /\ op'[p].at # "update"
    <3>1. /\ \A at \in {"setPassword", "revoke"} : [op[p] EXCEPT !.at = at].at # "update"
          /\ Resting.at # "update"
      BY <1>1, <2>1, StepTyped DEF Resting
    <3>2. /\ sess' = sess /\ idleTTL' = idleTTL
          /\ \/ Go(p, Resting) \/ Go(p, [op[p] EXCEPT !.at = "setPassword"])
             \/ Go(p, [op[p] EXCEPT !.at = "revoke"])
      BY <2>10 DEF Step, Answer
    <3>3. QED
      BY <1>3, <3>1, <3>2
  <2>12. users' = written
    BY <2>10
  <2>6. \A tk \in DOMAIN sess : sess[tk].user \in User /\ users[sess[tk].user].is = "here"
    BY <1>1, <1>2 DEF RowsOK, Rows, HereOK
  <2>7. ASSUME users[me].is = "here", op[p].off
        PROVE  BeingRevoked(me)'
    <3>1. op[p].kills
      BY <1>2, <2>1, <2>7 DEF OffOK
    <3>2. \/ Go(p, [op[p] EXCEPT !.at = "setPassword"])
          \/ Go(p, [op[p] EXCEPT !.at = "revoke"])
      BY <2>3, <2>7, <2>10, <3>1 DEF Step
    <3>3. op'[p].at \in {"setPassword", "revoke"} /\ op'[p].user = me
      <4>1. \A at \in {"setPassword", "revoke"} :
              [op[p] EXCEPT !.at = at].at = at /\ [op[p] EXCEPT !.at = at].user = op[p].user
        BY <1>1, <2>1, StepTyped
      <4>2. QED
        BY <1>3, <2>3, <3>2, <4>1
    <3>4. QED
      BY <3>3 DEF BeingRevoked
  <2>8. \A v : BeingRevoked(v) => BeingRevoked(v)'
    BY <2>1, <2>4, RevokingStays DEF Revoking
  <2>13. \/ BeingRevoked(me)'
         \/ \A pw : Outdated(users'[me], pw) => Outdated(users[me], pw)
    BY <2>3, <2>5, <2>7, <2>12 DEF Outdated
  <2>9. QED
    BY <2>1, <2>4, <2>5, <2>6, <2>8, <2>12, <2>13, UsersStep
<1>21. ASSUME NEW p \in Proc, SetPassword(p)
       PROVE  EndInv'
  <2>1. op[p] \in Updates /\ op[p].at = "setPassword"
    BY <1>1, <1>21, StepKinds DEF SetPassword
  <2> DEFINE written == WithPassword(op[p].user, op[p].pw)
  <2>3. op[p].user \in User /\ op[p].pw \in Nat
    BY <2>1 DEF Updates
  <2>4. \A v \in User : /\ written[v].is = users[v].is
                        /\ v # op[p].user => written[v] = users[v]
    BY <1>1, <2>3, UsersEdited DEF UsersOK
  <2> HIDE DEF written
  <2>11. CASE GivesUp(p, written)
    <3>1. idleTTL' = idleTTL
      BY <1>21 DEF SetPassword
    <3>2. QED
      BY <2>1, <2>3, <2>4, <2>11, <3>1, GaveUp
  <2> SUFFICES ASSUME ~GivesUp(p, written)
               PROVE  EndInv'
    BY <2>11
  <2>12. users' = written
    BY <1>21 DEF SetPassword, written
  <2>2. /\ op'[p].at = "revoke" /\ op'[p].user = op[p].user
        /\ sess' = sess /\ idleTTL' = idleTTL /\ \A q \in Proc \ {p} : op'[q] = op[q]
    BY <1>1, <1>3, <1>21, <2>1, StepTyped DEF SetPassword, Step, written
  <2>5. \A tk \in DOMAIN sess : sess[tk].user \in User /\ users[sess[tk].user].is = "here"
    BY <1>1, <1>2 DEF RowsOK, Rows, HereOK
  <2>6. PICK me : me = op[p].user
    OBVIOUS
  <2>7. BeingRevoked(me)'
    BY <2>2, <2>6 DEF BeingRevoked
  <2>8. ASSUME NEW v, BeingRevoked(v)
        PROVE  BeingRevoked(v)'
    <3>1. CASE v = me
      BY <2>7, <3>1
    <3>2. CASE v # me
      BY <2>1, <2>2, <2>6, <2>8, <3>2 DEF BeingRevoked
    <3>3. QED
      BY <3>1, <3>2
  <2>9. \A v \in User : BeingRevoked(v)' \/ users'[v] = users[v]
    BY <2>4, <2>6, <2>7, <2>12
  <2>10. QED
    BY <2>1, <2>2, <2>4, <2>5, <2>8, <2>9, <2>12, UsersStep
<1>22. ASSUME NEW p \in Proc, RevokeSessions(p)
       PROVE  EndInv'
  <2>1. /\ users' = users /\ idleTTL' = idleTTL /\ \A q \in Proc \ {p} : op'[q] = op[q]
        /\ op[p].at = "revoke" /\ op'[p].at = "rest"
        /\ sess' \in {Revoked(op[p].user), NotRevoked(op[p].user, users[op[p].user])}
    BY <1>3, <1>22 DEF RevokeSessions, Answer, Resting
  <2>2. PICK me : me = op[p].user
    OBVIOUS
  <2>3. ASSUME NEW v, v # me, BeingRevoked(v)
        PROVE  BeingRevoked(v)'
    BY <2>1, <2>2, <2>3 DEF BeingRevoked
  <2>4. CASE sess' = Revoked(me)
    <3>1. /\ DOMAIN sess' \subseteq DOMAIN sess
          /\ \A tk \in DOMAIN sess' : sess'[tk] = sess[tk] /\ sess[tk].user # me
      BY <1>1, <2>4, RowsRevoked
    <3>2. HereOK' /\ OffOK'
      BY <1>2, <2>1, <3>1 DEF HereOK, OffOK
    <3>3. OldSessionsGone'
      BY <1>2, <2>1, <2>3, <3>1 DEF OldSessionsGone
    <3>4. IdleHeld'
      BY <1>2, <2>1, <3>1 DEF IdleHeld
    <3>5. QED
      BY <3>2, <3>3, <3>4 DEF EndInv
  <2>5. CASE sess' = NotRevoked(me, users[me])
    <3>0. PICK a : a = users[me]
      OBVIOUS
    <3>1. /\ DOMAIN sess' = DOMAIN sess
          /\ \A tk \in DOMAIN sess :
               /\ sess'[tk].user = sess[tk].user
               /\ sess'[tk].until = sess[tk].until
               /\ sess'[tk].pw = sess[tk].pw
               /\ sess[tk].long => sess'[tk].long
               /\ sess[tk].user = me /\ Outdated(a, sess[tk].pw) => sess'[tk].late
               /\ sess[tk].user # me => sess'[tk] = sess[tk]
      BY <1>1, <2>5, <3>0, RowsNotRevoked
    <3>2. HereOK' /\ OffOK'
      BY <1>2, <2>1, <3>1 DEF HereOK, OffOK
    <3>3. OldSessionsGone'
      BY <1>2, <2>1, <2>3, <3>0, <3>1 DEF OldSessionsGone
    <3>4. IdleHeld'
      BY <1>2, <2>1, <3>1 DEF IdleHeld
    <3>5. QED
      BY <3>2, <3>3, <3>4 DEF EndInv
  <2>6. QED
    BY <2>1, <2>2, <2>4, <2>5
<1>23. ASSUME NEW p \in Proc, ResetAdmin(p)
       PROVE  EndInv'
  <2>1. /\ op[p].at = "rest" /\ users' = users /\ sess' = sess /\ idleTTL' = idleTTL
        /\ \A q \in Proc \ {p} : op'[q] = op[q]
        /\ op'[p] = [at |-> "update", user |-> Root, role |-> "admin", off |-> FALSE,
                     reset |-> TRUE, pw |-> edits', kills |-> TRUE]
    BY <1>3, <1>23 DEF ResetAdmin, Resting
  <2>2. op'[p].kills
    BY <2>1
  <2>3. QED
    BY <2>1, <2>2, SilentStep DEF Revoking
<1>24. ASSUME NEW p \in Proc, CapSessionExpiry(p)
       PROVE  EndInv'
  <2>1. /\ users' = users /\ idleTTL' = idleTTL /\ \A q \in Proc \ {p} : op'[q] = op[q]
        /\ op[p].at = "cap" /\ op'[p].at = "rest"
    <3>1. users' = users /\ idleTTL' = idleTTL /\ op[p].at = "cap" /\ Answer(p)
      BY <1>24, Zenon DEF CapSessionExpiry
    <3>2. QED
      BY <1>3, <3>1 DEF Answer, Resting
  <2>2. /\ RowsOK(sess') /\ DOMAIN sess' = DOMAIN sess /\ op[p] \in Caps
        /\ \A tk \in DOMAIN sess :
             /\ sess'[tk].user = sess[tk].user /\ sess'[tk].pw = sess[tk].pw
             /\ sess'[tk].late <=> sess[tk].late
             /\ \/ sess'[tk].long
                \/ /\ sess'[tk].until <= sess[tk].until /\ sess'[tk].until <= clock + op[p].idle
                   /\ sess[tk].long => op[p].idle <= idleTTL
    BY <1>24, RowsCapped
  <2>3. HereOK' /\ OffOK'
    BY <1>2, <2>1, <2>2 DEF HereOK, OffOK
  <2>4. OldSessionsGone'
    <3>1. \A v : BeingRevoked(v) => BeingRevoked(v)'
      BY <2>1, RevokingStays DEF Revoking
    <3>2. QED
      BY <1>2, <2>1, <2>2, <3>1 DEF OldSessionsGone
  <2>5. IdleHeld'
    <3>1. op[p].idle \in Nat /\ idleTTL \in Nat /\ clock \in Nat
      BY <1>1, <2>2, SessionsAssumption DEF Caps
    <3>2. ASSUME NEW tk \in DOMAIN sess'
          PROVE  \/ sess'[tk].until <= clock + idleTTL
                 \/ sess'[tk].long
                 \/ \E q \in Proc : op'[q].at = "cap" /\ op'[q].idle <= idleTTL
      <4>1. sess[tk].until \in Nat /\ sess'[tk].until \in Nat
        BY <1>1, <2>2, <3>2 DEF RowsOK, Rows
      <4>2. CASE op[p].idle <= idleTTL
        BY <2>2, <3>1, <3>2, <4>1, <4>2
      <4>3. CASE ~(op[p].idle <= idleTTL)
        <5>1. \/ sess[tk].until <= clock + idleTTL
              \/ sess[tk].long
              \/ \E q \in Proc \ {p} : op[q].at = "cap" /\ op[q].idle <= idleTTL
          BY <1>2, <2>2, <3>2, <4>3 DEF IdleHeld
        <5>2. CASE \E q \in Proc \ {p} : op[q].at = "cap" /\ op[q].idle <= idleTTL
          BY <2>1, <5>2
        <5>3. CASE sess[tk].long
          BY <2>2, <3>2, <4>3, <5>3
        <5>4. CASE sess[tk].until <= clock + idleTTL
          BY <2>2, <3>1, <3>2, <4>1, <5>4
        <5>5. QED
          BY <5>1, <5>2, <5>3, <5>4
      <4>4. QED
        BY <4>2, <4>3
    <3>3. QED
      BY <2>1, <3>2 DEF IdleHeld
  <2>6. QED
    BY <2>3, <2>4, <2>5 DEF EndInv
<1>25. ASSUME NEW p \in Proc, BucketAnswersMe(p)
       PROVE  EndInv'
  <2>1. op[p] \in Asks /\ op[p].at = "asking"
    BY <1>1, <1>25, StepKinds DEF BucketAnswersMe
  <2>2. /\ users' = users /\ idleTTL' = idleTTL /\ \A q \in Proc \ {p} : op'[q] = op[q]
        /\ op'[p].at \in {"told", "rest"}
        /\ sess' = sess \/ sess' = Slid(op[p].token, idleTTL)
    BY <1>3, <1>25 DEF BucketAnswersMe, Answer, Resting
  <2>3. CASE sess' = sess
    BY <2>1, <2>2, <2>3, SilentStep DEF Revoking
  <2>4. CASE sess' = Slid(op[p].token, idleTTL)
    <3>1. /\ DOMAIN sess' = DOMAIN sess
          /\ \A k \in DOMAIN sess :
               \/ sess'[k] = sess[k]
               \/ /\ sess'[k].user = sess[k].user /\ sess'[k].until = clock + idleTTL
                  /\ sess'[k].pw = sess[k].pw /\ sess'[k].late = sess[k].late
      BY <1>1, <2>4, RowsSlid
    <3>2. clock + idleTTL <= clock + idleTTL
      BY <1>1, SessionsAssumption
    <3>3. QED
      BY <2>1, <2>2, <3>1, <3>2, QuietStep DEF Revoking
  <2>5. QED
    BY <2>2, <2>3, <2>4
<1>26. QED
  <2>1. ASSUME NEW p \in Proc, NEW u \in User,
               \/ HandleLogin(p, u) \/ HandleOIDCCallback(p, u) \/ DeleteUser(p, u)
               \/ \E r \in Role : CreateUser(p, u, r)
               \/ \E r \in Role, off, reset \in BOOLEAN : UpdateUserReads(p, u, r, off, reset)
        PROVE  EndInv'
    BY <2>1, <1>6, <1>7, <1>8, <1>9, <1>10
  <2>2. ASSUME NEW p \in Proc,
               \/ \E tk \in 1..issued : Middleware(p, tk)
               \/ \E tk \in Watched : Verify(p, tk) \/ GuardLogout(p, tk)
               \/ \E i \in Idles : SetIdleTTL(p, i)
        PROVE  EndInv'
    BY <2>2, <1>11, <1>12, <1>13
  <2>3. ASSUME NEW p \in Proc,
               \/ IssueSession(p) \/ IssueFails(p) \/ SlideSession(p) \/ HandleRead(p)
               \/ HandleLogout(p) \/ HandlePassword(p) \/ RevokeOwn(p) \/ UpdateUser(p)
               \/ SetPassword(p) \/ RevokeSessions(p) \/ ResetAdmin(p) \/ CapSessionExpiry(p)
               \/ ServeTail(p) \/ BucketAnswersMe(p) \/ StoreVerified(p) \/ BucketLogsOut(p)
        PROVE  EndInv'
    BY <2>3, <1>14, <1>15, <1>16, <1>17, <1>18, <1>19, <1>20, <1>21, <1>22, <1>23, <1>24, <1>25
  <2>4. QED
    BY <1>5, <2>1, <2>2, <2>3 DEF Changes

(* It all holds at the start. *)
LEMMA SessStart == SessInit => TypeInv /\ TimeInv /\ EndInv
<1> SUFFICES ASSUME SessInit
             PROVE  TypeInv /\ TimeInv /\ EndInv
  OBVIOUS
<1>1. users \in [User -> Accounts]
  <2>1. {[is |-> "new", role |-> "viewer", disabled |-> FALSE, pw |-> None],
         [is |-> "here", role |-> "admin", disabled |-> FALSE, pw |-> 1]} \subseteq Accounts
    <3>1. 0 \in Nat /\ 1 \in Nat /\ "viewer" \in Role /\ "admin" \in Role
      BY RoleAssumption
    <3>2. /\ [is |-> "new", role |-> "viewer", disabled |-> FALSE, pw |-> None] \in Accounts
          /\ [is |-> "here", role |-> "admin", disabled |-> FALSE, pw |-> 1] \in Accounts
      BY <3>1, Zenon DEF Accounts, None
    <3>3. QED
      BY <3>2
  <2>2. QED
    BY <2>1 DEF SessInit
<1>2. idleTTL \in Idles
  BY SessionsAssumption DEF SessInit, Max
<1>3. sess = <<>> /\ cache = <<>> /\ tails = <<>> /\ clock = 0 /\ issued = 0 /\ edits = 1
      /\ op = [p \in Proc |-> Resting] /\ seen = [tk \in Watched |-> [r \in Role |-> -1]]
  BY DEF SessInit
<1>4. DOMAIN sess = {} /\ DOMAIN cache = {} /\ DOMAIN tails = {}
  BY <1>3
<1>5. op \in [Proc -> Steps] /\ \A p \in Proc : op[p].at = "rest"
  BY <1>3, StepsOf DEF Resting
<1>6. TypeInv
  BY <1>1, <1>2, <1>3, <1>4, <1>5 DEF TypeInv, UsersOK, RowsOK, CountsOK
<1>7. TimeInv
  BY <1>3, <1>4, <1>5 DEF TimeInv, SeenOK, GuardOK, CacheOK, TailOK
<1>8. EndInv
  BY <1>4, <1>5 DEF EndInv, HereOK, OffOK, OldSessionsGone, IdleHeld
<1>9. QED
  BY <1>6, <1>7, <1>8

(* TimeInv bounds what the cache answers. *)
LEMMA CacheInTime == ASSUME TypeInv, TimeInv PROVE CacheLag
<1> SUFFICES ASSUME NEW tk \in DOMAIN cache, clock < cache[tk].until
             PROVE  clock < seen[tk][cache[tk].role] + CacheTTL
  BY DEF CacheLag
<1>1. /\ tk \in Watched /\ cache[tk].role \in Role /\ cache[tk].until \in Int
      /\ cache[tk].until <= seen[tk][cache[tk].role] + CacheTTL
  BY DEF TimeInv, CacheOK
<1>2. seen[tk][cache[tk].role] \in Int /\ clock \in Nat /\ CacheTTL \in Nat
  BY <1>1, SessionsAssumption DEF TimeInv, SeenOK, TypeInv, CountsOK
<1>3. QED
  BY <1>1, <1>2

(* Role holds at most three roles, so that there is a last time. *)
LEMMA LastSeenIs ==
  ASSUME TimeInv, NEW tk \in Watched
  PROVE  LastSeen(tk) \in Int /\ \A r \in Role : seen[tk][r] <= LastSeen(tk)
<1>1. \A r \in Role : seen[tk][r] \in Int
  BY DEF TimeInv, SeenOK
<1> DEFINE S == {seen[tk][r] : r \in Role}
<1>2. \E x \in S : \A y \in S : x >= y
  <2>1. PICK a, b \in Role : Role \subseteq {a, b, "analyst"}
    BY RoleAssumption
  <2>2. CASE "analyst" \in Role
    <3>1. \E r \in {a, b, "analyst"} :
            /\ seen[tk][r] >= seen[tk][a] /\ seen[tk][r] >= seen[tk][b]
            /\ seen[tk][r] >= seen[tk]["analyst"]
      BY <1>1, <2>2
    <3>2. QED
      BY <2>1, <2>2, <3>1
  <2>3. CASE "analyst" \notin Role
    <3>1. \E r \in {a, b} : seen[tk][r] >= seen[tk][a] /\ seen[tk][r] >= seen[tk][b]
      BY <1>1
    <3>2. QED
      BY <2>1, <2>3, <3>1
  <2>4. QED
    BY <2>2, <2>3
<1>3. Max(S) \in S /\ \A y \in S : Max(S) >= y
  BY <1>2 DEF Max
<1>4. LastSeen(tk) = Max(S)
  BY DEF LastSeen
<1> HIDE DEF S
<1>5. \A r \in Role : seen[tk][r] \in S
  BY DEF S
<1>6. \A x \in S : x \in Int
  BY <1>1 DEF S
<1>7. QED
  BY <1>1, <1>3, <1>4, <1>5, <1>6

(* TimeInv bounds what a tail shows. *)
LEMMA TailInTime == ASSUME TypeInv, TimeInv PROVE TailLag
<1> SUFFICES ASSUME NEW tk \in DOMAIN tails
             PROVE  clock <= Max({LastSeen(tk), tails[tk].opened}) + RecheckEvery
  BY DEF TailLag
<1>1. /\ tk \in Watched /\ tails[tk] \in [opened : Nat, due : Nat] /\ clock <= tails[tk].due
      /\ \/ tails[tk].due <= tails[tk].opened + RecheckEvery
         \/ \E r \in Role : tails[tk].due <= seen[tk][r] + RecheckEvery
  BY DEF TimeInv, TailOK
<1>2. tails[tk].due \in Nat /\ tails[tk].opened \in Nat
  BY <1>1
<1>3. /\ clock \in Nat /\ RecheckEvery \in Nat /\ LastSeen(tk) \in Int
      /\ \A r \in Role : seen[tk][r] \in Int /\ seen[tk][r] <= LastSeen(tk)
  BY <1>1, LastSeenIs, SessionsAssumption DEF TypeInv, CountsOK, TimeInv, SeenOK
<1> DEFINE S == {LastSeen(tk), tails[tk].opened}
<1>4. \E x \in S : \A y \in S : x >= y
  BY <1>2, <1>3
<1>5. Max(S) \in S /\ \A y \in S : Max(S) >= y
  BY <1>4 DEF Max
<1>6. Max(S) \in Int /\ Max(S) >= LastSeen(tk) /\ Max(S) >= tails[tk].opened
  BY <1>2, <1>3, <1>5
<1> HIDE DEF S
<1>7. clock <= Max(S) + RecheckEvery
  <2>1. CASE tails[tk].due <= tails[tk].opened + RecheckEvery
    BY <1>1, <1>2, <1>3, <1>6, <2>1
  <2>2. ASSUME NEW r \in Role, tails[tk].due <= seen[tk][r] + RecheckEvery
        PROVE  clock <= Max(S) + RecheckEvery
    BY <1>1, <1>2, <1>3, <1>6, <2>2
  <2>3. QED
    BY <1>1, <2>1, <2>2
<1>8. QED
  BY <1>7 DEF S

(* Nothing but a step of the specification changes anything. *)
LEMMA SessUnmoved ==
  ASSUME TypeInv, TimeInv, EndInv, UNCHANGED sessVars
  PROVE  TypeInv' /\ TimeInv' /\ EndInv'
<1>1. TypeInv'
  BY DEF sessVars, TypeInv, UsersOK, RowsOK, CountsOK
<1>2. TimeInv'
  BY DEF sessVars, TimeInv, SeenOK, GuardOK, CacheOK, TailOK
<1>3. EndInv'
  BY DEF sessVars, EndInv, HereOK, OffOK, OldSessionsGone, BeingRevoked, IdleHeld
<1>4. QED
  BY <1>1, <1>2, <1>3

(* The three invariants hold together. *)
LEMMA SessInvariant == SessSpec => [](TypeInv /\ TimeInv /\ EndInv)
<1>1. TypeInv /\ TimeInv /\ EndInv /\ [SessNext]_sessVars => (TypeInv /\ TimeInv /\ EndInv)'
  BY TypeStep, TimeStep, EndStep, SessUnmoved
<1>2. QED
  BY <1>1, SessStart, PTL DEF SessSpec

(* An answer of the guard from its cache is at most CacheTTL older than the last
   moment the session was live in that role, whatever was in flight
   (yardauth.go: Verify, forget, logout). *)
THEOREM CacheCorrect == SessSpec => []CacheLag
BY SessInvariant, CacheInTime, PTL

(* An open live tail outlives its session by one recheck at most
   (hub.go: Serve, active). *)
THEOREM TailCorrect == SessSpec => []TailLag
BY SessInvariant, TailInTime, PTL

(* A session whose account was deleted is gone, one whose account was disabled or
   whose password was replaced is gone once the request that did it is done, unless
   a sign-in in flight made it or the revocation failed, and none lives longer than
   the idle timeout in force allows (auth.go, sessions.go). *)
THEOREM EndCorrect == SessSpec => []SessionsEnd
<1>1. EndInv => SessionsEnd
  BY DEF EndInv, SessionsEnd
<1>2. QED
  BY <1>1, SessInvariant, PTL

-----------------------------------------------------------------------------
(* Throttle: guesses against accounts and from addresses.                    *)

(* Entries of the maps, and attempts under way.                              *)
ThrottleEntries == [count : Nat, start : Nat, until : Nat, seen : Nat]
Tries == [at : {"none"}]
         \cup [at : {"allow", "compare", "failAccount", "succeedAccount"}, from : Source]

(* What each variable holds.                                                 *)
ThrottleType ==
  /\ now \in Nat
  /\ perSource \in [Source -> ThrottleEntries \cup {NoEntry}]
  /\ perAccount \in ThrottleEntries \cup {NoEntry}
  /\ try \in [Attempt -> Tries]
  /\ guesses \in [Key -> Nat]

(* Attempts that a throttle has let pass and whose failure it may still count. *)
Passed(s)     == {a \in Attempt : try[a].at = "compare" /\ try[a].from = s}
PassedAccount == {a \in Attempt : try[a].at \in {"allow", "compare", "failAccount"}}

(* g wrong passwords under entry e, with the attempts P still to be counted:   *)
(* an entry that is not locked has counted all of them, and what is added to   *)
(* a locked one is among P, which no attempt joins.                            *)
Counted(e, g, P, max) ==
  /\ g < max + Cardinality(Attempt)
  /\ e # NoEntry =>
       /\ e.count < max /\ e.seen <= now
       /\ e.seen >= e.until => g <= e.count
       /\ e.seen < e.until /\ now < e.until => g + Cardinality(P) < max + Cardinality(Attempt)

(* Both maps count what they let through: with the type, inductive.          *)
CountInv ==
  /\ \A s \in Source : Counted(perSource[s], guesses[s], Passed(s), SourceMax)
  /\ Counted(perAccount, guesses[Account], PassedAccount, AccountMax)

(* Entries have a count, no entry has none. *)
LEMMA EntryThere == \A e \in ThrottleEntries : e # NoEntry
BY DEF ThrottleEntries, NoEntry

(* Attempts that are resolved leave room. *)
LEMMA FewerPassed ==
  ASSUME NEW P \in SUBSET Attempt, NEW Q \in SUBSET P
  PROVE  /\ Cardinality(Q) \in Nat /\ Cardinality(P) \in Nat /\ Cardinality(Q) <= Cardinality(P)
         /\ Cardinality(P) <= Cardinality(Attempt) /\ Cardinality(Attempt) \in Nat
         /\ \A a \in P : a \notin Q => Cardinality(Q) + 1 <= Cardinality(P)
<1>1. IsFiniteSet(P) /\ Cardinality(P) <= Cardinality(Attempt) /\ Cardinality(Attempt) \in Nat
  BY FS_Subset, FS_CardinalityType, ThrottleAssumption
<1>2. IsFiniteSet(Q) /\ Cardinality(Q) \in Nat /\ Cardinality(P) \in Nat
  BY <1>1, FS_Subset, FS_CardinalityType
<1>3. Cardinality(Q) <= Cardinality(P) /\ (Cardinality(P) = Cardinality(Q) => P = Q)
  BY <1>1, FS_Subset
<1>4. QED
  BY <1>1, <1>2, <1>3

(* A count stays right when attempts are resolved, or the entry is collected. *)
LEMMA CountKept ==
  ASSUME NEW e \in ThrottleEntries \cup {NoEntry}, NEW g \in Nat, NEW max \in Nat, NEW window,
         NEW P \in SUBSET Attempt, NEW Q \in SUBSET P, Counted(e, g, P, max)
  PROVE  Counted(e, g, Q, max) /\ Counted(Collected(e, window), g, Q, max)
<1>1. Counted(e, g, Q, max)
  BY FewerPassed DEF Counted, ThrottleEntries
<1>2. QED
  BY <1>1 DEF Counted, Collected

(* An entry that is not locked lets any attempt pass. *)
LEMMA CountOpen ==
  ASSUME NEW e \in ThrottleEntries \cup {NoEntry}, NEW g \in Nat, NEW max \in Nat, NEW window,
         NEW P, NEW Q, Counted(e, g, P, max), ~Locked(e)
  PROVE  Counted(Collected(e, window), g, Q, max)
BY DEF Counted, Collected, Locked

(* A failure is counted, and locks the entry in time. *)
LEMMA CountFailed ==
  ASSUME NEW e \in ThrottleEntries \cup {NoEntry}, NEW k \in Key, NEW max \in Nat \ {0},
         NEW window \in Nat \ {0}, NEW fixed \in BOOLEAN,
         NEW P \in SUBSET Attempt, NEW a \in P, guesses[k] \in Nat, now \in Nat,
         Counted(e, guesses[k], P, max)
  PROVE  /\ Failed(e, max, window, fixed) \in ThrottleEntries
         /\ Counted(Failed(e, max, window, fixed), Guess(k, e, window, fixed), P \ {a}, max)
<1> DEFINE f == IF Stale(e, window, fixed) THEN [count |-> 0, start |-> now, until |-> 0] ELSE e
           g == Guess(k, e, window, fixed)
           h == Failed(e, max, window, fixed)
           A == Cardinality(Attempt)
           Late == ~Stale(e, window, fixed) /\ e.seen < e.until /\ now < e.until
<1>1. Cardinality(P \ {a}) \in Nat /\ Cardinality(P \ {a}) + 1 <= Cardinality(P) /\ Cardinality(P) <= A
      /\ A \in Nat /\ Cardinality(P) \in Nat
  BY FewerPassed
<1>2. e # NoEntry => e \in ThrottleEntries
  OBVIOUS
<1>3. f.count \in Nat /\ f.start \in Nat /\ f.until \in Nat /\ f.count + 1 <= max
  BY <1>2 DEF Stale, ThrottleEntries, Counted
<1>4. h = IF f.count + 1 >= max
          THEN [count |-> 0, start |-> now + window, until |-> now + window, seen |-> now]
          ELSE [count |-> f.count + 1, start |-> f.start, until |-> f.until, seen |-> now]
  BY DEF Failed
<1>5. h \in ThrottleEntries /\ h.count < max /\ h.seen <= now
  <2> HIDE DEF f, h
  <2>1. QED
    BY <1>3, <1>4 DEF ThrottleEntries
<1>6. CASE Late
  <2>1. g = guesses[k] + 1
    <3>1. e.until \in Nat
      BY <1>2, <1>6 DEF Stale, ThrottleEntries
    <3>2. ~(now >= e.until)
      BY <3>1, <1>6
    <3>3. QED
      BY <3>2, <1>6, Zenon DEF Guess
  <2>2. guesses[k] + Cardinality(P) < max + A
    BY <1>2, <1>6 DEF Counted, Stale
  <2>3. f.until = e.until
    BY <1>6
  <2> HIDE DEF f, g, h
  <2>4. g + Cardinality(P \ {a}) < max + A /\ g \in Nat
    BY <1>1, <2>1, <2>2
  <2>5. h.seen < h.until
    BY <1>2, <1>3, <1>4, <1>6, <2>3 DEF Stale
  <2>6. g < max + A
    BY <1>1, <2>4
  <2>7. QED
    <3>1. h.seen \in Nat /\ h.until \in Nat
        BY <1>5 DEF ThrottleEntries
      <3>2. ~(h.seen >= h.until)
        BY <3>1, <2>5
      <3>3. Counted(h, g, P \ {a}, max)
        BY <1>5, <2>4, <2>6, <3>2 DEF Counted
      <3>4. QED
        BY <1>5, <3>3 DEF g, h
<1>7. CASE ~Late
  <2>1. g \in Nat /\ g <= f.count + 1
    <3>1. CASE Stale(e, window, fixed) \/ (e.seen < e.until /\ now >= e.until)
      <4>1. g = 1
        BY <3>1 DEF Guess
      <4>2. QED
        BY <4>1, <1>3
    <3>2. CASE ~(Stale(e, window, fixed) \/ (e.seen < e.until /\ now >= e.until))
      <4>1. g = guesses[k] + 1 /\ f = e /\ e \in ThrottleEntries
        BY <1>2, <3>2 DEF Guess, Stale
      <4>2. e.seen >= e.until
        BY <1>7, <3>2, <4>1 DEF ThrottleEntries
      <4>3. guesses[k] <= e.count
        BY <4>1, <4>2, EntryThere DEF Counted
      <4>4. QED
        BY <4>1, <4>3 DEF ThrottleEntries
    <3>3. QED
      BY <3>1, <3>2
  <2> HIDE DEF f, g, h
  <2>2. g <= max
    BY <2>1, <1>3
  <2>3. CASE f.count + 1 >= max
    <3>1. h.until = now + window /\ h.seen = now
      BY <1>4, <2>3
    <3>2. QED
      BY <1>1, <1>5, <2>1, <2>2, <3>1 DEF Counted, g, h
  <2>4. CASE ~(f.count + 1 >= max)
    <3>1. h.count = f.count + 1 /\ h.until = f.until /\ h.seen = now
      BY <1>4, <2>4
    <3>2. g < max + A /\ g <= h.count
      BY <1>1, <1>3, <2>1, <2>2, <2>4, <3>1
    <3>3. CASE h.seen >= h.until
      BY <1>5, <3>2, <3>3 DEF Counted, g, h, ThrottleEntries
    <3>4. CASE h.seen < h.until
      <4>1. f = e /\ e \in ThrottleEntries /\ e.seen < e.until /\ ~Stale(e, window, fixed)
        <5>1. ~Stale(e, window, fixed)
          BY <3>1, <3>4 DEF f
        <5>2. f = e /\ e \in ThrottleEntries
          BY <5>1, <1>2 DEF f, Stale
        <5>3. e.seen <= now
          BY <5>2, EntryThere DEF Counted
        <5>4. QED
          BY <5>1, <5>2, <5>3, <3>1, <3>4 DEF ThrottleEntries
      <4>2. QED
        BY <4>1, <1>7, <3>1, <3>4
    <3>5. QED
      BY <3>3, <3>4, <1>5 DEF ThrottleEntries
  <2>5. QED
    BY <2>3, <2>4
<1>8. QED
  BY <1>5, <1>6, <1>7
(* Sources and the account have counts of their own. *)
LEMMA KeysApart == Account \notin Source /\ Key = Source \cup {Account}
BY ThrottleAssumption DEF Key

(* A count grows by one or starts again. *)
LEMMA GuessTyped ==
  ASSUME NEW k, NEW e, NEW window, NEW fixed, guesses[k] \in Nat
  PROVE  Guess(k, e, window, fixed) \in Nat
BY DEF Guess

(* Every variable of the throttle keeps its type. *)
LEMMA ThrottleTypeStep == ASSUME ThrottleType, ThrottleNext PROVE ThrottleType'
<1> USE DEF ThrottleType
<1>1. ASSUME NEW a \in Attempt, NEW s \in Source, Begin(a, s) PROVE ThrottleType'
  BY <1>1 DEF Begin, Collected, Tries
<1>2. ASSUME NEW a \in Attempt, AllowSource(a) PROVE ThrottleType'
  <2>1. try' \in [Attempt -> Tries]
    BY <1>2 DEF AllowSource, At, Move, Resolved, Tries
  <2>2. QED
    BY <1>2, <2>1 DEF AllowSource, Collected
<1>3. ASSUME NEW a \in Attempt, FailSource(a) PROVE ThrottleType'
  <2> DEFINE s == try[a].from
  <2>1. s \in Source /\ try' \in [Attempt -> Tries]
    BY <1>3 DEF FailSource, At, Move, Tries
  <2>2. perSource' \in [Source -> ThrottleEntries \cup {NoEntry}]
    <3>1. Failed(perSource[s], SourceMax, SourceWindow, FALSE) \in ThrottleEntries
      BY <2>1, ThrottleAssumption DEF Failed, Stale, ThrottleEntries
    <3>2. QED
      BY <1>3, <2>1, <3>1 DEF FailSource
  <2>3. guesses' \in [Key -> Nat]
    <3>1. Guess(s, perSource[s], SourceWindow, FALSE) \in Nat
      BY <2>1, KeysApart, GuessTyped
    <3>2. QED
      BY <1>3, <3>1 DEF FailSource
  <2>4. QED
    BY <1>3, <2>1, <2>2, <2>3 DEF FailSource
<1>4. ASSUME NEW a \in Attempt, FailAccount(a) PROVE ThrottleType'
  <2>1. try' \in [Attempt -> Tries]
    BY <1>4 DEF FailAccount, Resolved, Tries
  <2>2. perAccount' \in ThrottleEntries
    BY <1>4, ThrottleAssumption DEF FailAccount, Failed, Stale, ThrottleEntries
  <2>3. guesses' \in [Key -> Nat]
    <3>1. Guess(Account, perAccount, AccountWindow, TRUE) \in Nat
      BY KeysApart, GuessTyped
    <3>2. QED
      BY <1>4, <3>1 DEF FailAccount
  <2>4. QED
    BY <1>4, <2>1, <2>2, <2>3 DEF FailAccount
<1>5. ASSUME NEW a \in Attempt, SucceedSource(a) PROVE ThrottleType'
  BY <1>5 DEF SucceedSource, At, Move, Tries, Key
<1>6. ASSUME NEW a \in Attempt, SucceedAccount(a) PROVE ThrottleType'
  BY <1>6 DEF SucceedAccount, Resolved, Tries, Key
<1>7. CASE TimePasses
  BY <1>7 DEF TimePasses
<1>8. QED
  BY <1>1, <1>2, <1>3, <1>4, <1>5, <1>6, <1>7 DEF ThrottleNext

(* Every step keeps the counts right. *)
LEMMA CountStep ==
  ASSUME ThrottleType, ThrottleType', CountInv, ThrottleNext PROVE CountInv'
<1> USE ThrottleAssumption
<1>a. /\ PassedAccount \in SUBSET Attempt /\ \A s \in Source : Passed(s) \in SUBSET Attempt
      /\ PassedAccount' \in SUBSET Attempt /\ \A s \in Source : Passed(s)' \in SUBSET Attempt
  BY DEF Passed, PassedAccount
<1>1. ASSUME NEW a \in Attempt, NEW s \in Source, Begin(a, s) PROVE CountInv'
  <2>1. \A t \in Source : Passed(t)' \subseteq Passed(t)
    BY <1>1 DEF Begin, Passed, ThrottleType
  <2>2. Counted(perAccount, guesses[Account], PassedAccount, AccountMax)'
    <3>1. /\ perAccount' = Collected(perAccount, AccountWindow) /\ ~Locked(perAccount)
          /\ guesses' = guesses /\ now' = now
      BY <1>1 DEF Begin
    <3>2. Counted(perAccount', guesses[Account], PassedAccount', AccountMax)
      BY <3>1, CountOpen, KeysApart DEF ThrottleType, CountInv
    <3>3. QED
      BY <3>1, <3>2 DEF Counted
  <2>3. ASSUME NEW t \in Source PROVE Counted(perSource[t], guesses[t], Passed(t), SourceMax)'
    <3>1. UNCHANGED <<now, perSource, guesses>>
      BY <1>1 DEF Begin
    <3>2. Counted(perSource[t], guesses[t], Passed(t)', SourceMax)
      BY <1>a, <2>1, CountKept, KeysApart DEF ThrottleType, CountInv
    <3>3. QED
      BY <3>1, <3>2 DEF Counted
  <2>4. QED
    BY <2>2, <2>3 DEF CountInv
<1>2. ASSUME NEW a \in Attempt, AllowSource(a) PROVE CountInv'
  <2>1. PassedAccount' \subseteq PassedAccount
    BY <1>2 DEF AllowSource, At, Move, Resolved, PassedAccount, ThrottleType
  <2>2. Counted(perAccount, guesses[Account], PassedAccount, AccountMax)'
    <3>1. UNCHANGED <<now, perAccount, guesses>>
      BY <1>2 DEF AllowSource
    <3>2. Counted(perAccount, guesses[Account], PassedAccount', AccountMax)
      BY <1>a, <2>1, CountKept, KeysApart DEF ThrottleType, CountInv
    <3>3. QED
      BY <3>1, <3>2 DEF Counted
  <2>3. ASSUME NEW t \in Source PROVE Counted(perSource[t], guesses[t], Passed(t), SourceMax)'
    <3>1. perSource[t]' = Collected(perSource[t], SourceWindow) /\ guesses[t]' = guesses[t] /\ now' = now
      BY <1>2 DEF AllowSource
    <3>2. CASE Passed(t)' \subseteq Passed(t)
      <4>1. Counted(Collected(perSource[t], SourceWindow), guesses[t], Passed(t)', SourceMax)
        BY <1>a, <3>2, CountKept, KeysApart DEF ThrottleType, CountInv
      <4>2. QED
        BY <3>1, <4>1 DEF Counted
    <3>3. CASE ~(Passed(t)' \subseteq Passed(t))
      <4>1. ~Locked(perSource[t])
        <5>1. CASE Locked(perSource[try[a].from])
          BY <1>2, <3>3, <5>1 DEF AllowSource, Resolved, Passed, ThrottleType
        <5>2. CASE ~Locked(perSource[try[a].from])
          <6>1. \A b \in Attempt : b # a => try'[b] = try[b]
            BY <1>2, <5>2 DEF AllowSource, Move, ThrottleType
          <6>2. a \in Passed(t)'
            BY <3>3, <6>1 DEF Passed
          <6>3. try'[a].from = t /\ try'[a] = [try[a] EXCEPT !.at = "compare"]
            BY <1>2, <5>2, <6>2 DEF AllowSource, Move, Passed, ThrottleType
          <6>4. try[a].from = t
            BY <1>2, <6>3 DEF AllowSource, At, Tries, ThrottleType
          <6>5. QED
            BY <5>2, <6>4
        <5>3. QED
          BY <5>1, <5>2
      <4>2. Counted(Collected(perSource[t], SourceWindow), guesses[t], Passed(t)', SourceMax)
        BY <4>1, CountOpen, KeysApart DEF ThrottleType, CountInv
      <4>3. QED
        BY <3>1, <4>2 DEF Counted
    <3>4. QED
      BY <3>2, <3>3
  <2>4. QED
    BY <2>2, <2>3 DEF CountInv
<1>3. ASSUME NEW a \in Attempt, FailSource(a) PROVE CountInv'
  <2>0. PICK s \in Source : s = try[a].from
    BY <1>3 DEF FailSource, At, ThrottleType, Tries
  <2>1. a \in Passed(s)
    BY <1>3, <2>0 DEF FailSource, At, Passed
  <2>2. /\ PassedAccount' = PassedAccount /\ Passed(s)' = Passed(s) \ {a}
        /\ \A t \in Source \ {s} : Passed(t)' = Passed(t)
    BY <1>3, <2>0, <2>1 DEF FailSource, At, Move, Passed, PassedAccount, ThrottleType, Tries
  <2>3. /\ perSource[s]' = Failed(perSource[s], SourceMax, SourceWindow, FALSE)
        /\ guesses[s]' = Guess(s, perSource[s], SourceWindow, FALSE)
        /\ \A t \in Source \ {s} : perSource[t]' = perSource[t]
        /\ \A k \in Key \ {s} : guesses[k]' = guesses[k]
        /\ now' = now /\ perAccount' = perAccount
    <3>1. /\ perSource' = [perSource EXCEPT ![s] = Failed(@, SourceMax, SourceWindow, FALSE)]
          /\ guesses' = [guesses EXCEPT ![s] = Guess(s, perSource[s], SourceWindow, FALSE)]
          /\ UNCHANGED <<now, perAccount>>
      BY <1>3, <2>0 DEF FailSource
    <3>2. s \in Key
      BY <2>1, KeysApart
    <3>3. QED
      BY <2>1, <3>1, <3>2 DEF ThrottleType
  <2>4. Counted(perAccount, guesses[Account], PassedAccount, AccountMax)'
    BY <2>1, <2>2, <2>3, KeysApart DEF CountInv, Counted
  <2>5. ASSUME NEW t \in Source \ {s} PROVE Counted(perSource[t], guesses[t], Passed(t), SourceMax)'
    BY <2>2, <2>3, KeysApart DEF CountInv, Counted
  <2>6. Counted(perSource[s], guesses[s], Passed(s), SourceMax)'
    <3>1. Counted(perSource[s]', guesses[s]', Passed(s)', SourceMax)
      <4>1. /\ s \in Key /\ guesses[s] \in Nat /\ perSource[s] \in ThrottleEntries \cup {NoEntry}
            /\ now \in Nat /\ Passed(s) \in SUBSET Attempt
            /\ Counted(perSource[s], guesses[s], Passed(s), SourceMax)
        BY <1>a, <2>1, KeysApart DEF CountInv, ThrottleType
      <4>2. SourceMax \in Nat \ {0} /\ SourceWindow \in Nat \ {0}
        OBVIOUS
      <4>3. Counted(Failed(perSource[s], SourceMax, SourceWindow, FALSE),
                    Guess(s, perSource[s], SourceWindow, FALSE), Passed(s) \ {a}, SourceMax)
        BY <2>1, <4>1, <4>2, CountFailed
      <4>4. QED
        BY <2>2, <2>3, <4>3
    <3>2. QED
      BY <2>3, <3>1 DEF Counted
  <2>7. \A t \in Source : Counted(perSource[t], guesses[t], Passed(t), SourceMax)'
    BY <2>5, <2>6
  <2>8. QED
    BY <2>4, <2>7 DEF CountInv
<1>4. ASSUME NEW a \in Attempt, FailAccount(a) PROVE CountInv'
  <2>1. a \in PassedAccount /\ PassedAccount' = PassedAccount \ {a}
    BY <1>4 DEF FailAccount, At, Resolved, PassedAccount, ThrottleType
  <2>2. \A t \in Source : Passed(t)' = Passed(t)
    BY <1>4 DEF FailAccount, At, Resolved, Passed, ThrottleType
  <2>3. /\ perAccount' = Failed(perAccount, AccountMax, AccountWindow, TRUE)
        /\ guesses[Account]' = Guess(Account, perAccount, AccountWindow, TRUE)
        /\ \A t \in Source : guesses[t]' = guesses[t]
        /\ now' = now /\ perSource' = perSource
    BY <1>4, KeysApart DEF FailAccount, ThrottleType
  <2>4. Counted(perAccount', guesses[Account]', PassedAccount', AccountMax)
    <3>1. /\ Account \in Key /\ guesses[Account] \in Nat /\ perAccount \in ThrottleEntries \cup {NoEntry}
          /\ now \in Nat /\ PassedAccount \in SUBSET Attempt
          /\ Counted(perAccount, guesses[Account], PassedAccount, AccountMax)
      BY <1>a, KeysApart DEF CountInv, ThrottleType
    <3>2. AccountMax \in Nat \ {0} /\ AccountWindow \in Nat \ {0}
      OBVIOUS
    <3>3. Counted(Failed(perAccount, AccountMax, AccountWindow, TRUE),
                  Guess(Account, perAccount, AccountWindow, TRUE), PassedAccount \ {a}, AccountMax)
      BY <2>1, <3>1, <3>2, CountFailed
    <3>4. QED
      BY <2>1, <2>3, <3>3
  <2>5. QED
    BY <2>2, <2>3, <2>4 DEF CountInv, Counted
<1>5. ASSUME NEW a \in Attempt, SucceedSource(a) PROVE CountInv'
  <2>1. PICK s \in Source : s = try[a].from
    BY <1>5 DEF SucceedSource, At, ThrottleType, Tries
  <2>2. PassedAccount' \subseteq PassedAccount /\ \A t \in Source : Passed(t)' \subseteq Passed(t)
    BY <1>5 DEF SucceedSource, At, Move, Passed, PassedAccount, ThrottleType, Tries
  <2>3. /\ perSource[s]' = NoEntry /\ guesses[s]' = 0
        /\ \A t \in Source \ {s} : perSource[t]' = perSource[t]
        /\ \A k \in Key \ {s} : guesses[k]' = guesses[k]
        /\ now' = now /\ perAccount' = perAccount
    <3>1. /\ perSource' = [perSource EXCEPT ![s] = NoEntry]
          /\ guesses' = [guesses EXCEPT ![s] = 0]
          /\ UNCHANGED <<now, perAccount>>
      BY <1>5, <2>1 DEF SucceedSource
    <3>2. s \in Key
      BY <2>1, KeysApart
    <3>3. QED
      BY <2>1, <3>1, <3>2 DEF ThrottleType
  <2>4. Counted(perAccount, guesses[Account], PassedAccount, AccountMax)'
    <3>1. Counted(perAccount, guesses[Account], PassedAccount', AccountMax)
      BY <1>a, <2>2, CountKept, KeysApart DEF CountInv, ThrottleType
    <3>2. QED
      BY <2>1, <2>3, <3>1, KeysApart DEF Counted
  <2>5. ASSUME NEW t \in Source \ {s} PROVE Counted(perSource[t], guesses[t], Passed(t), SourceMax)'
    <3>1. Counted(perSource[t], guesses[t], Passed(t)', SourceMax)
      BY <1>a, <2>2, CountKept, KeysApart DEF CountInv, ThrottleType
    <3>2. QED
      BY <2>3, <3>1, KeysApart DEF Counted
  <2>6. Counted(perSource[s], guesses[s], Passed(s), SourceMax)'
    BY <1>a, <2>1, <2>3, FewerPassed DEF Counted
  <2>7. \A t \in Source : Counted(perSource[t], guesses[t], Passed(t), SourceMax)'
    BY <2>5, <2>6
  <2>8. QED
    BY <2>4, <2>7 DEF CountInv
<1>6. ASSUME NEW a \in Attempt, SucceedAccount(a) PROVE CountInv'
  <2>1. \A t \in Source : Passed(t)' = Passed(t)
    BY <1>6 DEF SucceedAccount, At, Resolved, Passed, ThrottleType
  <2>2. /\ perAccount' = NoEntry /\ guesses[Account]' = 0
        /\ \A t \in Source : guesses[t]' = guesses[t]
        /\ now' = now /\ perSource' = perSource
    BY <1>6, KeysApart DEF SucceedAccount, ThrottleType
  <2>3. Counted(perAccount, guesses[Account], PassedAccount, AccountMax)'
    BY <1>a, <2>2, FewerPassed DEF Counted
  <2>4. QED
    BY <2>1, <2>2, <2>3 DEF CountInv, Counted
<1>7. CASE TimePasses
  <2>1. /\ UNCHANGED <<perSource, perAccount, guesses, PassedAccount>>
        /\ \A t \in Source : Passed(t)' = Passed(t)
    BY <1>7 DEF TimePasses, Passed, PassedAccount
  <2>2. ASSUME NEW e \in ThrottleEntries \cup {NoEntry}, NEW g, NEW P, NEW max, Counted(e, g, P, max)
        PROVE  Counted(e, g, P, max)'
    BY <1>7, <2>2 DEF TimePasses, Counted, ThrottleEntries, ThrottleType
  <2>3. QED
    BY <2>1, <2>2 DEF CountInv, ThrottleType
<1>8. QED
  BY <1>1, <1>2, <1>3, <1>4, <1>5, <1>6, <1>7 DEF ThrottleNext

(* The invariant holds from the start. *)
LEMMA ThrottleInvariant == ThrottleSpec => [](ThrottleType /\ CountInv)
<1>1. ThrottleInit => ThrottleType /\ CountInv
  <2> SUFFICES ASSUME ThrottleInit PROVE ThrottleType /\ CountInv
    OBVIOUS
  <2>1. ThrottleType
    BY DEF ThrottleInit, ThrottleType, Tries
  <2>2. Cardinality(Attempt) \in Nat
    BY ThrottleAssumption, FS_CardinalityType
  <2>3. CountInv
    BY <2>2, KeysApart, ThrottleAssumption DEF ThrottleInit, CountInv, Counted
  <2>4. QED
    BY <2>1, <2>3
<1>2. ThrottleType /\ CountInv /\ [ThrottleNext]_throttleVars => (ThrottleType /\ CountInv)'
  <2> SUFFICES ASSUME ThrottleType, CountInv, [ThrottleNext]_throttleVars
               PROVE  (ThrottleType /\ CountInv)'
    OBVIOUS
  <2>1. CASE ThrottleNext
    BY <2>1, ThrottleTypeStep, CountStep
  <2>2. CASE UNCHANGED throttleVars
    <3>1. UNCHANGED PassedAccount /\ \A s \in Source : Passed(s)' = Passed(s)
      BY <2>2 DEF throttleVars, Passed, PassedAccount
    <3>2. QED
      BY <2>2, <3>1 DEF throttleVars, ThrottleType, CountInv, Counted
  <2>3. QED
    BY <2>1, <2>2
<1>3. QED
  BY <1>1, <1>2, PTL DEF ThrottleSpec

(* However many sources and parallel attempts there are: between a fresh count *)
(* and the end of a lockout, wrong passwords stay within the allowed number    *)
(* and the attempts that were under way (throttle.go: guard).                  *)
THEOREM GuessesCorrect == ThrottleSpec => []GuessesBounded
<1>1. CountInv => GuessesBounded
  BY DEF CountInv, Counted, GuessesBounded
<1>2. QED
  BY <1>1, ThrottleInvariant, PTL

-----------------------------------------------------------------------------
(* Buckets: shares, and the lists that replace them.                         *)

(* Rows of bucket_shares, what the specification last kept of a bucket,      *)
(* the rows of one bucket, and the primary key.                              *)
ShareRow == [bucket : Nat, user : Member, edit : BOOLEAN]
KeptRow == [rows : SUBSET ShareRow, alone : BOOLEAN]
RowsOf(b) == {s \in shares : s.bucket = b}
OnePerUser(rows) == \A r, s \in rows : r.bucket = s.bucket /\ r.user = s.user => r = s

(* What each variable holds.                                                 *)
BucketsType ==
  /\ role \in [Member -> {"admin", "analyst", "viewer", "gone"}]
  /\ owner \in Seq(Member \cup {"none", "deleted"})
  /\ kept \in Seq(KeptRow) /\ Len(kept) = Len(owner)
  /\ shares \subseteq ShareRow
  /\ save \in [Saver -> [at : {"none", "checked", "begun", "deleted", "inserted"}, bucket : Nat,
                         list : SUBSET ShareRow, snapshot : SUBSET ShareRow, alone : BOOLEAN]]

(* What a request holds is about its bucket; in a transaction that ran alone,*)
(* the snapshot has all rows there are; what was inserted has its references.*)
SaveSound(h) ==
  /\ save[h].at # "none" => save[h].bucket \in DOMAIN owner
  /\ \A s \in save[h].list \cup save[h].snapshot : s.bucket = save[h].bucket
  /\ OnePerUser(save[h].list)
  /\ save[h].at = "inserted" =>
       /\ Users(save[h].list) \subseteq Live
       /\ save[h].list = {} \/ owner[save[h].bucket] # "deleted"
Alone(h) ==
  InTransaction(h, save[h].bucket) /\ save[h].alone =>
    /\ RowsOf(save[h].bucket) \subseteq save[h].snapshot
    /\ \A o \in Saver \ {h} : ~InTransaction(o, save[h].bucket)

(* A list saved alone is exactly what is there, one that overlapped bounds it; *)
(* a row refers to a bucket and a user that exist.                           *)
ListsKept == \A b \in DOMAIN owner : IF kept[b].alone THEN RowsOf(b) = kept[b].rows
                                     ELSE RowsOf(b) \subseteq kept[b].rows
Referenced == \A s \in shares : s.bucket \in DOMAIN owner /\ s.user \in Live /\ owner[s.bucket] # "deleted"

(* The inductive invariant.                                                  *)
BucketsInv ==
  /\ BucketsType /\ ListsKept /\ OnePerUser(shares) /\ Referenced
  /\ \A h \in Saver : SaveSound(h) /\ Alone(h)

-----------------------------------------------------------------------------
(* A function on the numbers up to n is a sequence of length n. *)
LEMMA SeqOf == ASSUME NEW n \in Nat, NEW R, NEW F \in [1..n -> R] PROVE F \in Seq(R) /\ Len(F) = n
  OBVIOUS

(* Replacing a member of a sequence keeps its length. *)
LEMMA SeqExcept ==
  ASSUME NEW R, NEW F \in Seq(R), NEW i \in DOMAIN F, NEW x \in R
  PROVE  [F EXCEPT ![i] = x] \in Seq(R) /\ Len([F EXCEPT ![i] = x]) = Len(F)
  OBVIOUS

(* No buckets, no shares. *)
LEMMA BucketsStart == BucketsInit => BucketsInv
<1> SUFFICES ASSUME BucketsInit PROVE BucketsInv
  OBVIOUS
<1>1. BucketsType
  BY BucketsAssumption DEF BucketsAssumption, BucketsInit, BucketsType, NoSave
<1>2. ListsKept /\ OnePerUser(shares) /\ Referenced
  BY DEF BucketsInit, ListsKept, OnePerUser, Referenced
<1>3. \A h \in Saver : SaveSound(h) /\ Alone(h)
  BY DEF BucketsInit, SaveSound, Alone, NoSave, InTransaction, OnePerUser
<1> QED BY <1>1, <1>2, <1>3 DEF BucketsInv

(* A new bucket has no shares. *)
LEMMA CreateKeeps ==
  ASSUME BucketsInv, NEW u \in Member \cup {"none"}, CreateBucket(u) PROVE BucketsInv'
<1> DEFINE new == [rows |-> {}, alone |-> TRUE]
           n == Len(owner) + 1
<1>1. /\ owner' \in Seq(Member \cup {"none", "deleted"}) /\ kept' \in Seq(KeptRow)
      /\ Len(owner') = n /\ Len(kept') = n
  <2>1. new \in KeptRow
    BY DEF KeptRow
  <2> HIDE DEF new
  <2>2. kept' = Append(kept, new) /\ owner' = Append(owner, u)
    BY DEF CreateBucket, new
  <2> QED BY <2>1, <2>2 DEF BucketsInv, BucketsType
<1>2. /\ DOMAIN owner = 1..Len(owner) /\ DOMAIN owner' = 1..n /\ Len(owner) \in Nat
      /\ \A b \in DOMAIN owner : owner'[b] = owner[b] /\ kept'[b] = kept[b]
      /\ kept'[n] = [rows |-> {}, alone |-> TRUE]
  BY <1>1 DEF CreateBucket, BucketsInv, BucketsType
<1>3. UNCHANGED <<role, shares, save>>
  BY DEF CreateBucket
<1>4. BucketsType'
  BY <1>1, <1>3 DEF BucketsInv, BucketsType
<1>5. Live' = Live /\ \A b : RowsOf(b)' = RowsOf(b)
  BY <1>3 DEF Live, RowsOf
<1>6. RowsOf(n) = {}
  BY <1>2 DEF BucketsInv, Referenced, RowsOf
<1>7. ListsKept'
  <2> SUFFICES ASSUME NEW b \in DOMAIN owner'
               PROVE  IF kept'[b].alone THEN RowsOf(b) = kept'[b].rows ELSE RowsOf(b) \subseteq kept'[b].rows
    BY <1>5 DEF ListsKept
  <2>1. CASE b = n
    BY <2>1, <1>2, <1>6
  <2>2. CASE b # n
    BY <2>2, <1>2 DEF BucketsInv, ListsKept
  <2> QED BY <2>1, <2>2
<1>8. OnePerUser(shares)' /\ Referenced'
  BY <1>2, <1>3, <1>5 DEF BucketsInv, OnePerUser, Referenced
<1>9. ASSUME NEW h \in Saver PROVE SaveSound(h)' /\ Alone(h)'
  <2>1. SaveSound(h) /\ Alone(h)
    BY DEF BucketsInv
  <2>2. SaveSound(h)'
    BY <2>1, <1>2, <1>3, <1>5 DEF SaveSound, OnePerUser, Users
  <2>3. Alone(h)'
    BY <2>1, <1>3, <1>5 DEF Alone, InTransaction
  <2> QED BY <2>2, <2>3
<1> QED BY <1>4, <1>7, <1>8, <1>9 DEF BucketsInv

(* With a bucket go its shares; nobody holds any of them. *)
LEMMA DeleteKeeps ==
  ASSUME BucketsInv, NEW u \in Member, NEW b \in DOMAIN owner, DeleteBucket(u, b) PROVE BucketsInv'
<1>1. /\ DOMAIN owner' = DOMAIN owner /\ owner'[b] = "deleted"
      /\ \A c \in DOMAIN owner \ {b} : owner'[c] = owner[c] /\ kept'[c] = kept[c]
      /\ kept'[b].rows = {} /\ kept'[b].alone = kept[b].alone
  BY DEF DeleteBucket, BucketsInv, BucketsType
<1>2. BucketsType'
  <2>1. owner' \in Seq(Member \cup {"none", "deleted"}) /\ Len(owner') = Len(owner)
    BY DEF DeleteBucket, BucketsInv, BucketsType
  <2>2. kept' \in Seq(KeptRow) /\ Len(kept') = Len(kept)
    <3> DEFINE k == [kept[b] EXCEPT !.rows = {}]
    <3>1. kept \in Seq(KeptRow) /\ b \in DOMAIN kept
      BY DEF BucketsInv, BucketsType
    <3>2. k \in KeptRow
      <4>1. kept[b] \in KeptRow
        BY <3>1
      <4> QED BY <4>1 DEF KeptRow
    <3>3. kept' = [kept EXCEPT ![b] = k]
      BY DEF DeleteBucket
    <3> HIDE DEF k
    <3> QED BY <3>1, <3>2, <3>3, SeqExcept
  <2> QED BY <2>1, <2>2 DEF DeleteBucket, BucketsInv, BucketsType
<1>3. \A c : RowsOf(c)' = IF c = b THEN {} ELSE RowsOf(c)
  BY DEF RowsOf, DeleteBucket
<1>4. ListsKept'
  BY <1>1, <1>3 DEF BucketsInv, ListsKept
<1>5. Live' = Live
  BY DEF Live, DeleteBucket
<1>6. OnePerUser(shares)' /\ Referenced'
  BY <1>1, <1>5 DEF BucketsInv, OnePerUser, Referenced, DeleteBucket
<1>7. ASSUME NEW h \in Saver PROVE SaveSound(h)' /\ Alone(h)'
  <2>1. SaveSound(h) /\ Alone(h) /\ save' = save
    BY DEF BucketsInv, DeleteBucket
  <2>2. save[h].at = "inserted" /\ save[h].bucket = b => save[h].list = {}
    BY DEF DeleteBucket, Holds
  <2>3. SaveSound(h)'
    BY <2>1, <2>2, <1>1, <1>5 DEF SaveSound, OnePerUser, Users
  <2>4. Alone(h)'
    BY <2>1, <1>3 DEF Alone, InTransaction
  <2> QED BY <2>3, <2>4
<1> QED BY <1>2, <1>4, <1>6, <1>7 DEF BucketsInv

(* Steps of a request that change only what it holds. *)
LEMMA SaveMoves ==
  ASSUME BucketsInv, NEW h \in Saver,
         UNCHANGED <<role, owner, shares, kept>>, BucketsType',
         \A o \in Saver \ {h} : save'[o] = save[o] \/ (save'[o] = [save[o] EXCEPT !.alone = FALSE]),
         SaveSound(h)', Alone(h)',
         \A o \in Saver \ {h} : Alone(o)'
  PROVE  BucketsInv'
<1>1. ListsKept' /\ OnePerUser(shares)' /\ Referenced'
  BY DEF BucketsInv, ListsKept, OnePerUser, Referenced, RowsOf, Live
<1>2. ASSUME NEW o \in Saver \ {h} PROVE SaveSound(o)'
  <2>1. save'[o].at = save[o].at /\ save'[o].bucket = save[o].bucket /\ save'[o].list = save[o].list
        /\ save'[o].snapshot = save[o].snapshot
    <3>1. CASE save'[o] = save[o]
      BY <3>1
    <3>2. CASE save'[o] = [save[o] EXCEPT !.alone = FALSE]
      BY <3>2 DEF BucketsInv, BucketsType
    <3> QED BY <3>1, <3>2
  <2>2. SaveSound(o)
    BY DEF BucketsInv
  <2> QED BY <2>1, <2>2 DEF SaveSound, OnePerUser, Users, Live
<1> QED BY <1>1, <1>2 DEF BucketsInv

(* A request that takes no part in a transaction, or that goes on with one,  *)
(* leaves the others as alone as they were.                                  *)
LEMMA OthersAlone ==
  ASSUME BucketsInv, NEW h \in Saver, NEW s, Set(h, s), UNCHANGED shares, UNCHANGED <<role, owner>>,
         s.at \in {"begun", "deleted", "inserted"} => InTransaction(h, s.bucket)
  PROVE  \A o \in Saver \ {h} : Alone(o)'
<1> SUFFICES ASSUME NEW o \in Saver, o # h PROVE Alone(o)'
  OBVIOUS
<1>1. save'[o] = save[o] /\ save'[h] = s /\ \A p \in Saver \ {h} : save'[p] = save[p]
  BY DEF Set, BucketsInv, BucketsType
<1>2. Alone(o)
  BY DEF BucketsInv
<1>3. \A p \in Saver \ {o} : \A b : InTransaction(p, b)' => InTransaction(p, b)
  BY <1>1 DEF InTransaction
<1> QED BY <1>1, <1>2, <1>3 DEF Alone, RowsOf, InTransaction

(* A list that a request may send is about its bucket, with one row a user.  *)
LEMMA ListsSound ==
  ASSUME NEW b \in Nat, NEW l \in Lists(b)
  PROVE  l \subseteq ShareRow /\ OnePerUser(l) /\ \A s \in l : s.bucket = b
<1>1. PICK e \in UNION {[S -> BOOLEAN] : S \in SUBSET Member} :
        l = {[bucket |-> b, user |-> u, edit |-> e[u]] : u \in DOMAIN e}
  BY DEF Lists
<1>2. DOMAIN e \subseteq Member /\ \A u \in DOMAIN e : e[u] \in BOOLEAN
  OBVIOUS
<1> QED BY <1>1, <1>2 DEF ShareRow, OnePerUser

(* The check of the bucket, outside a transaction. *)
LEMMA CheckKeeps ==
  ASSUME BucketsInv, NEW u \in Member, NEW b \in DOMAIN owner, NEW h \in Saver, NEW l \in Lists(b),
         CheckShares(h, u, b, l)
  PROVE  BucketsInv'
<1> DEFINE s == [at |-> "checked", bucket |-> b, list |-> l, snapshot |-> {}, alone |-> TRUE]
<1>1. b \in Nat
  BY DEF BucketsInv, BucketsType
<1>2. l \subseteq ShareRow /\ OnePerUser(l) /\ \A r \in l : r.bucket = b
  BY <1>1, ListsSound
<1>3. save' = [save EXCEPT ![h] = s] /\ UNCHANGED <<role, owner, shares, kept>>
  BY DEF CheckShares, Set
<1>4. save'[h] = s /\ \A o \in Saver \ {h} : save'[o] = save[o]
  BY <1>3 DEF BucketsInv, BucketsType
<1>5. BucketsType'
  BY <1>1, <1>2, <1>3 DEF BucketsInv, BucketsType
<1>6. SaveSound(h)' /\ Alone(h)'
  BY <1>2, <1>3, <1>4 DEF SaveSound, Alone, InTransaction
<1>7. \A o \in Saver \ {h} : Alone(o)'
  BY <1>3, OthersAlone DEF Set
<1> QED BY <1>3, <1>4, <1>5, <1>6, <1>7, SaveMoves

(* A transaction begins with the rows there are, and is not alone with those *)
(* that are under way.                                                       *)
LEMMA BeginKeeps == ASSUME BucketsInv, NEW h \in Saver, BeginReplace(h) PROVE BucketsInv'
<1> PICK b : b = save[h].bucket
  OBVIOUS
<1> DEFINE others == {o \in Saver \ {h} : InTransaction(o, b)}
<1>1. /\ \A o \in Saver \ {h} : save'[o] = IF o \in others THEN [save[o] EXCEPT !.alone = FALSE] ELSE save[o]
      /\ save'[h] = [save[h] EXCEPT !.at = "begun", !.alone = (others = {}), !.snapshot = RowsOf(b)]
      /\ UNCHANGED <<role, owner, shares, kept>> /\ DOMAIN save' = Saver
      /\ save' = [o \in Saver |-> save'[o]] /\ save[h].at = "checked"
  BY DEF BeginReplace, RowsOf
<1>2. /\ save'[h].at = "begun" /\ save'[h].bucket = b /\ save'[h].snapshot = RowsOf(b)
      /\ save'[h].list = save[h].list /\ (save'[h].alone <=> others = {})
  BY <1>1 DEF BucketsInv, BucketsType
<1>3. RowsOf(b) \subseteq ShareRow /\ RowsOf(b)' = RowsOf(b)
  BY <1>1 DEF RowsOf, BucketsInv, BucketsType
<1> HIDE DEF others
<1>4. BucketsType'
  <2> DEFINE R == [at : {"none", "checked", "begun", "deleted", "inserted"}, bucket : Nat,
                   list : SUBSET ShareRow, snapshot : SUBSET ShareRow, alone : BOOLEAN]
  <2>1. ASSUME NEW o \in Saver PROVE save'[o] \in R
    <3>1. save[o] \in R /\ save[h] \in R
      BY DEF BucketsInv, BucketsType
    <3>2. CASE o = h
      BY <3>1, <3>2, <1>1, <1>3
    <3>3. CASE o # h
      <4>1. save'[o] = save[o] \/ save'[o] = [save[o] EXCEPT !.alone = FALSE]
        BY <3>3, <1>1
      <4> QED BY <3>1, <4>1
    <3> QED BY <3>2, <3>3
  <2> HIDE DEF R
  <2>2. save' \in [Saver -> R]
    BY <2>1, <1>1
  <2> QED BY <2>2, <1>1 DEF R, BucketsInv, BucketsType
<1>5. SaveSound(h)'
  BY <1>1, <1>2 DEF BucketsInv, SaveSound, RowsOf
<1>6. \A o \in Saver \ {h} : /\ save'[o].at = save[o].at /\ save'[o].bucket = save[o].bucket
                             /\ save'[o].snapshot = save[o].snapshot
                             /\ (save'[o].alone <=> o \notin others /\ save[o].alone)
  BY <1>1 DEF BucketsInv, BucketsType
<1>7. Alone(h)'
  <2>1. ASSUME others = {}, NEW o \in Saver \ {h} PROVE ~InTransaction(o, b)'
    BY <2>1, <1>6 DEF others, InTransaction
  <2> QED BY <2>1, <1>1, <1>2, <1>3 DEF Alone, RowsOf
<1>8. ASSUME NEW o \in Saver \ {h} PROVE Alone(o)'
  <2>1. Alone(o) /\ \A c : RowsOf(c)' = RowsOf(c)
    BY <1>1 DEF BucketsInv, RowsOf
  <2>2. InTransaction(o, save[o].bucket)' /\ save'[o].alone => save[o].bucket # b
    BY <1>6 DEF others, InTransaction
  <2>3. \A p \in Saver \ {o} : InTransaction(p, save[o].bucket)' /\ save[o].bucket # b
                                => InTransaction(p, save[o].bucket)
    BY <1>2, <1>6 DEF InTransaction
  <2> QED BY <2>1, <2>2, <2>3, <1>6 DEF Alone, InTransaction
<1> QED BY <1>1, <1>4, <1>5, <1>7, <1>8, SaveMoves

(* The DELETE goes on with the rows that are still there. *)
LEMMA DeleteSharesKeeps == ASSUME BucketsInv, NEW h \in Saver, DeleteShares(h) PROVE BucketsInv'
<1> DEFINE s == [save[h] EXCEPT !.at = "deleted", !.snapshot = @ \cap shares]
<1>1. save' = [save EXCEPT ![h] = s] /\ UNCHANGED <<role, owner, shares, kept>> /\ save[h].at = "begun"
  BY DEF DeleteShares, Set
<1>2. /\ s.at = "deleted" /\ s.bucket = save[h].bucket /\ s.list = save[h].list
      /\ s.snapshot = save[h].snapshot \cap shares /\ s.alone = save[h].alone
  BY DEF BucketsInv, BucketsType
<1>3. BucketsType'
  BY <1>1 DEF BucketsInv, BucketsType
<1>4. save'[h] = s /\ \A o \in Saver \ {h} : save'[o] = save[o]
  BY <1>1 DEF BucketsInv, BucketsType
<1>5. InTransaction(h, s.bucket)
  BY <1>1, <1>2 DEF InTransaction
<1> HIDE DEF s
<1>6. SaveSound(h)'
  BY <1>1, <1>2, <1>4 DEF BucketsInv, SaveSound
<1>7. Alone(h)'
  <2>1. Alone(h)
    BY DEF BucketsInv
  <2>2. \A c : RowsOf(c)' = RowsOf(c) /\ RowsOf(c) \subseteq shares
    BY <1>1 DEF RowsOf
  <2>3. \A o \in Saver \ {h} : \A c : InTransaction(o, c)' => InTransaction(o, c)
    BY <1>4 DEF InTransaction
  <2> QED BY <2>1, <2>2, <2>3, <1>2, <1>4, <1>5 DEF Alone
<1>8. \A o \in Saver \ {h} : Alone(o)'
  BY <1>1, <1>5, OthersAlone DEF Set
<1> QED BY <1>1, <1>3, <1>4, <1>6, <1>7, <1>8, SaveMoves

(* The INSERTs find what they refer to. *)
LEMMA InsertKeeps == ASSUME BucketsInv, NEW h \in Saver, InsertShares(h) PROVE BucketsInv'
<1> DEFINE s == [save[h] EXCEPT !.at = "inserted"]
<1>1. /\ save' = [save EXCEPT ![h] = s] /\ UNCHANGED <<role, owner, shares, kept>> /\ save[h].at = "deleted"
      /\ Users(save[h].list) \subseteq Live
      /\ save[h].list = {} \/ owner[save[h].bucket] # "deleted"
  BY DEF InsertShares, Set
<1>2. /\ s.at = "inserted" /\ s.bucket = save[h].bucket /\ s.list = save[h].list
      /\ s.snapshot = save[h].snapshot /\ s.alone = save[h].alone
  BY DEF BucketsInv, BucketsType
<1>3. BucketsType'
  BY <1>1 DEF BucketsInv, BucketsType
<1>4. save'[h] = s /\ \A o \in Saver \ {h} : save'[o] = save[o]
  BY <1>1 DEF BucketsInv, BucketsType
<1>5. InTransaction(h, s.bucket)
  BY <1>1, <1>2 DEF InTransaction
<1> HIDE DEF s
<1>6. Live' = Live
  BY <1>1 DEF Live
<1>7. SaveSound(h)'
  BY <1>1, <1>2, <1>4, <1>6 DEF BucketsInv, SaveSound
<1>8. Alone(h)'
  <2>1. Alone(h)
    BY DEF BucketsInv
  <2>2. \A c : RowsOf(c)' = RowsOf(c)
    BY <1>1 DEF RowsOf
  <2>3. \A o \in Saver \ {h} : \A c : InTransaction(o, c)' => InTransaction(o, c)
    BY <1>4 DEF InTransaction
  <2> QED BY <2>1, <2>2, <2>3, <1>2, <1>4, <1>5 DEF Alone
<1>9. \A o \in Saver \ {h} : Alone(o)'
  BY <1>1, <1>5, OthersAlone DEF Set
<1> QED BY <1>1, <1>3, <1>4, <1>7, <1>8, <1>9, SaveMoves

(* A rollback leaves nothing. *)
LEMMA RollbackKeeps == ASSUME BucketsInv, NEW h \in Saver, RollbackShares(h) PROVE BucketsInv'
<1>1. save' = [save EXCEPT ![h] = NoSave] /\ UNCHANGED <<role, owner, shares, kept>>
  BY DEF RollbackShares, Set
<1>2. BucketsType'
  BY <1>1 DEF BucketsInv, BucketsType, NoSave
<1>3. save'[h] = NoSave /\ \A o \in Saver \ {h} : save'[o] = save[o]
  BY <1>1 DEF BucketsInv, BucketsType
<1>4. SaveSound(h)' /\ Alone(h)'
  BY <1>3 DEF SaveSound, Alone, InTransaction, NoSave, OnePerUser
<1>5. \A o \in Saver \ {h} : Alone(o)'
  BY <1>1, OthersAlone DEF Set, NoSave
<1> QED BY <1>1, <1>2, <1>3, <1>4, <1>5, SaveMoves

(* A commit leaves its list when it was alone, and adds at most its list     *)
(* when it was not.                                                          *)
LEMMA CommitKeeps == ASSUME BucketsInv, NEW h \in Saver, CommitShares(h) PROVE BucketsInv'
<1> PICK s, b : s = save[h] /\ b = s.bucket
  OBVIOUS
<1>1. /\ SaveSound(h) /\ Alone(h) /\ BucketsType /\ s.at = "inserted"
      /\ b \in DOMAIN owner /\ DOMAIN kept = DOMAIN owner
      /\ s.list \subseteq ShareRow /\ s.snapshot \subseteq ShareRow
  BY DEF BucketsInv, BucketsType, SaveSound, CommitShares
<1>2. UNCHANGED <<role, owner>> /\ save' = [save EXCEPT ![h] = NoSave]
  BY DEF CommitShares, Set
<1>3. shares' = {r \in shares \ s.snapshot : r.bucket # b \/ r.user \notin Users(s.list)} \cup s.list
  BY DEF CommitShares, Replaced
<1>4. /\ \A c \in DOMAIN kept \ {b} : kept'[c] = kept[c]
      /\ kept'[b].rows = (IF s.alone THEN s.list ELSE kept[b].rows \cup s.list)
      /\ kept'[b].alone = s.alone
      /\ kept' \in Seq(KeptRow) /\ Len(kept') = Len(kept)
  <2> DEFINE k == [rows |-> IF s.alone THEN s.list ELSE kept[b].rows \cup s.list, alone |-> s.alone]
  <2>1. kept' = [kept EXCEPT ![b] = k]
    BY DEF CommitShares
  <2>2. k \in KeptRow
    <3>1. kept[b].rows \subseteq ShareRow /\ s.alone \in BOOLEAN
      <4>1. kept[b] \in KeptRow
        BY <1>1 DEF BucketsType
      <4> QED BY <4>1, <1>1 DEF BucketsType, KeptRow
    <3>2. (IF s.alone THEN s.list ELSE kept[b].rows \cup s.list) \in SUBSET ShareRow
      BY <3>1, <1>1
    <3> QED BY <3>1, <3>2 DEF KeptRow
  <2>3. k.rows = (IF s.alone THEN s.list ELSE kept[b].rows \cup s.list) /\ k.alone = s.alone
    OBVIOUS
  <2> HIDE DEF k
  <2>4. kept' \in Seq(KeptRow) /\ Len(kept') = Len(kept)
    BY <2>1, <2>2, <1>1, SeqExcept DEF BucketsType
  <2> QED BY <2>1, <2>3, <2>4, <1>1
<1>5. save'[h] = NoSave /\ \A o \in Saver \ {h} : save'[o] = save[o]
  BY <1>1, <1>2 DEF BucketsType
<1>6. BucketsType'
  <2>1. shares' \subseteq ShareRow
    BY <1>1, <1>3 DEF BucketsType
  <2>2. save' \in [Saver -> [at : {"none", "checked", "begun", "deleted", "inserted"}, bucket : Nat,
                         list : SUBSET ShareRow, snapshot : SUBSET ShareRow, alone : BOOLEAN]]
    BY <1>1, <1>2 DEF BucketsType, NoSave
  <2> QED BY <2>1, <2>2, <1>1, <1>2, <1>4 DEF BucketsType
<1>7. \A r \in s.list \cup s.snapshot : r.bucket = b
  BY <1>1 DEF SaveSound
<1>8. \A c : c # b => RowsOf(c)' = RowsOf(c)
  BY <1>3, <1>7 DEF RowsOf
<1>9. s.list \subseteq RowsOf(b)' /\ RowsOf(b)' \subseteq RowsOf(b) \cup s.list
  BY <1>3, <1>7 DEF RowsOf
<1>10. s.alone => RowsOf(b)' = s.list
  <2>1. s.alone => RowsOf(b) \subseteq s.snapshot
    BY <1>1 DEF Alone, InTransaction
  <2> QED BY <2>1, <1>3, <1>7 DEF RowsOf
<1>11. ListsKept'
  <2> SUFFICES ASSUME NEW c \in DOMAIN owner
               PROVE  IF kept'[c].alone THEN RowsOf(c)' = kept'[c].rows ELSE RowsOf(c)' \subseteq kept'[c].rows
    BY <1>2 DEF ListsKept
  <2>1. IF kept[c].alone THEN RowsOf(c) = kept[c].rows ELSE RowsOf(c) \subseteq kept[c].rows
    BY DEF BucketsInv, ListsKept
  <2>2. CASE c # b
    BY <2>1, <2>2, <1>1, <1>4, <1>8
  <2>3. CASE c = b /\ s.alone
    BY <2>3, <1>4, <1>10
  <2>4. CASE c = b /\ ~s.alone
    <3>1. kept'[b].rows = kept[b].rows \cup s.list /\ ~kept'[b].alone
      BY <2>4, <1>4
    <3> QED BY <2>1, <2>4, <3>1, <1>9
  <2> QED BY <2>2, <2>3, <2>4
<1>12. OnePerUser(shares)'
  <2> SUFFICES ASSUME NEW q \in shares', NEW r \in shares', q.bucket = r.bucket, q.user = r.user PROVE q = r
    BY DEF OnePerUser
  <2>1. \A x \in s.list : x.user \in Users(s.list) /\ x.bucket = b
    BY <1>7 DEF Users
  <2>2. CASE q \in s.list /\ r \in s.list
    BY <2>2, <1>1 DEF SaveSound, OnePerUser
  <2>3. CASE q \notin s.list /\ r \notin s.list
    BY <2>3, <1>3 DEF BucketsInv, OnePerUser
  <2> QED BY <2>1, <2>2, <2>3, <1>3
<1>13. Live' = Live
  BY <1>2 DEF Live
<1>14. Referenced'
  <2> SUFFICES ASSUME NEW r \in shares' PROVE r.bucket \in DOMAIN owner /\ r.user \in Live /\ owner[r.bucket] # "deleted"
    BY <1>2, <1>13 DEF Referenced
  <2>1. CASE r \in shares
    BY <2>1 DEF BucketsInv, Referenced
  <2>2. CASE r \in s.list
    BY <2>2, <1>1, <1>7 DEF SaveSound, Users
  <2> QED BY <2>1, <2>2, <1>3
<1>15. ASSUME NEW o \in Saver PROVE SaveSound(o)' /\ Alone(o)'
  <2>1. CASE o = h
    BY <2>1, <1>5 DEF SaveSound, Alone, InTransaction, NoSave, OnePerUser
  <2>2. CASE o # h
    <3>1. SaveSound(o) /\ Alone(o) /\ save'[o] = save[o]
      BY <2>2, <1>5 DEF BucketsInv
    <3>2. SaveSound(o)'
      BY <3>1, <1>2, <1>13 DEF SaveSound, OnePerUser, Users
    <3>3. InTransaction(h, b) /\ \A p \in Saver : \A c : InTransaction(p, c)' => InTransaction(p, c)
      BY <1>1, <1>5 DEF InTransaction, NoSave
    <3>4. Alone(o)'
      <4>1. PICK t, c : t = save[o] /\ c = t.bucket
        OBVIOUS
      <4> SUFFICES ASSUME InTransaction(o, c), t.alone
                   PROVE  RowsOf(c)' \subseteq t.snapshot /\ \A p \in Saver \ {o} : ~InTransaction(p, c)'
        BY <4>1, <3>1, <3>3 DEF Alone
      <4>2. RowsOf(c) \subseteq t.snapshot /\ \A p \in Saver \ {o} : ~InTransaction(p, c)
        BY <4>1, <3>1 DEF Alone
      <4>3. c # b
        BY <4>2, <3>3, <2>2
      <4> QED BY <4>2, <4>3, <3>3, <1>8
    <3> QED BY <3>2, <3>4
  <2> QED BY <2>1, <2>2
<1> QED BY <1>6, <1>11, <1>12, <1>14, <1>15 DEF BucketsInv

-----------------------------------------------------------------------------
(* A change of role leaves the account. *)
LEMMA RoleKeeps ==
  ASSUME BucketsInv, NEW u \in Member, NEW r \in {"admin", "analyst", "viewer"}, ChangeRole(u, r)
  PROVE  BucketsInv'
<1>1. Live' = Live /\ role' \in [Member -> {"admin", "analyst", "viewer", "gone"}]
  BY DEF ChangeRole, Live, BucketsInv, BucketsType
<1>2. UNCHANGED <<owner, shares, kept, save>>
  BY DEF ChangeRole
<1>3. BucketsType' /\ ListsKept' /\ OnePerUser(shares)' /\ Referenced'
  BY <1>1, <1>2 DEF BucketsInv, BucketsType, ListsKept, OnePerUser, Referenced, RowsOf
<1>4. ASSUME NEW h \in Saver PROVE SaveSound(h)' /\ Alone(h)'
  BY <1>1, <1>2 DEF BucketsInv, SaveSound, Alone, OnePerUser, Users, RowsOf, InTransaction
<1> QED BY <1>3, <1>4 DEF BucketsInv

(* An account goes with its shares; none of them is held. *)
LEMMA AccountKeeps == ASSUME BucketsInv, NEW u \in Member, RemoveAccount(u) PROVE BucketsInv'
<1>1. Live' = Live \ {u} /\ role' \in [Member -> {"admin", "analyst", "viewer", "gone"}]
  BY DEF RemoveAccount, Live, BucketsInv, BucketsType
<1>2. /\ shares' = {s \in shares : s.user # u} /\ save' = save
      /\ DOMAIN owner' = DOMAIN owner /\ DOMAIN kept = DOMAIN owner
      /\ \A b \in DOMAIN owner : owner'[b] = IF owner[b] = u THEN "none" ELSE owner[b]
      /\ \A b \in DOMAIN owner : /\ kept'[b].rows = {s \in kept[b].rows : s.user # u}
                                 /\ kept'[b].alone = kept[b].alone
  BY DEF RemoveAccount, WithoutUser, BucketsInv, BucketsType
<1>3. /\ owner' \in Seq(Member \cup {"none", "deleted"}) /\ Len(owner') = Len(owner)
      /\ kept' \in Seq(KeptRow) /\ Len(kept') = Len(kept)
  <2>1. owner' \in [1..Len(owner) -> Member \cup {"none", "deleted"}]
    BY DEF RemoveAccount, BucketsInv, BucketsType
  <2>2. kept' \in [1..Len(kept) -> KeptRow]
    <3>1. \A b \in DOMAIN kept : kept[b] \in KeptRow
      BY DEF BucketsInv, BucketsType
    <3>2. ASSUME NEW k \in KeptRow
          PROVE  [k EXCEPT !.rows = {s \in @ : s.user # u}] \in KeptRow
      BY DEF KeptRow
    <3>3. DOMAIN kept = 1..Len(kept)
      BY DEF BucketsInv, BucketsType
    <3>4. kept' = [b \in DOMAIN kept |-> [kept[b] EXCEPT !.rows = {s \in @ : s.user # u}]]
      BY DEF RemoveAccount
    <3> QED BY <3>1, <3>2, <3>3, <3>4
  <2>3. Len(owner) \in Nat /\ Len(kept) \in Nat
    BY DEF BucketsInv, BucketsType
  <2>4. owner' \in Seq(Member \cup {"none", "deleted"}) /\ Len(owner') = Len(owner)
    BY <2>1, <2>3, SeqOf
  <2>5. kept' \in Seq(KeptRow) /\ Len(kept') = Len(kept)
    BY <2>2, <2>3, SeqOf
  <2> QED BY <2>4, <2>5
<1>4. BucketsType'
  BY <1>1, <1>2, <1>3 DEF BucketsInv, BucketsType
<1>5. \A b : RowsOf(b)' = {s \in RowsOf(b) : s.user # u}
  BY <1>2 DEF RowsOf
<1>6. ListsKept'
  BY <1>2, <1>5 DEF BucketsInv, ListsKept
<1>7. OnePerUser(shares)' /\ Referenced'
  BY <1>1, <1>2 DEF BucketsInv, OnePerUser, Referenced
<1>8. ASSUME NEW h \in Saver PROVE SaveSound(h)' /\ Alone(h)'
  <2>1. SaveSound(h) /\ Alone(h)
    BY DEF BucketsInv
  <2>2. save[h].at = "inserted" => \A s \in save[h].list : s.user # u
    BY <2>1 DEF RemoveAccount, Holds, SaveSound
  <2>3. SaveSound(h)'
    BY <2>1, <2>2, <1>1, <1>2 DEF SaveSound, OnePerUser, Users
  <2>4. Alone(h)'
    BY <2>1, <1>2, <1>5 DEF Alone, InTransaction
  <2> QED BY <2>3, <2>4
<1> QED BY <1>4, <1>6, <1>7, <1>8 DEF BucketsInv

(* Every step keeps the invariant. *)
LEMMA BucketsStep == BucketsInv /\ [BucketsNext]_bucketVars => BucketsInv'
<1> SUFFICES ASSUME BucketsInv, [BucketsNext]_bucketVars PROVE BucketsInv'
  OBVIOUS
<1>1. CASE UNCHANGED bucketVars
  <2>1. BucketsType' /\ ListsKept' /\ OnePerUser(shares)' /\ Referenced'
    BY <1>1 DEF bucketVars, BucketsInv, BucketsType, ListsKept, OnePerUser, Referenced, RowsOf, Live
  <2>2. ASSUME NEW h \in Saver PROVE SaveSound(h)' /\ Alone(h)'
    BY <1>1 DEF bucketVars, BucketsInv, SaveSound, Alone, OnePerUser, Users, RowsOf, InTransaction, Live
  <2> QED BY <2>1, <2>2 DEF BucketsInv
<1> QED BY <1>1, CreateKeeps, DeleteKeeps, CheckKeeps, BeginKeeps, DeleteSharesKeeps, InsertKeeps,
           RollbackKeeps, CommitKeeps, RoleKeeps, AccountKeeps
        DEF BucketsNext

(* The invariant says that the shares are those of the lists saved. *)
LEMMA BucketsSafe == BucketsInv => SharesReplaced
  BY DEF BucketsInv, ListsKept, OnePerUser, Referenced, RowsOf, SharesReplaced

(* However many requests save the shares of however many searches at once,   *)
(* while accounts and searches come and go, what is left are the rows of the *)
(* last list saved alone, or of the lists that overlapped, each with a user  *)
(* and a search that exist (store/buckets.go: ReplaceBucketShares; api/crud. *)
(* go: putBucketShares).                                                     *)
THEOREM ListsReplace == BucketsSpec => []SharesReplaced
<1>1. BucketsSpec => []BucketsInv
  BY BucketsStart, BucketsStep, PTL DEF BucketsSpec
<1> QED BY <1>1, BucketsSafe, PTL

=============================================================================
