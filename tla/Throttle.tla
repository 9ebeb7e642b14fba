------------------------------ MODULE Throttle ------------------------------
(***************************************************************************)
(* The brute-force guard of one account: attempts from several sources     *)
(* pass `allow`, compare the password and then `fail` or `succeed`, each   *)
(* under the lock of one throttle at a time.                               *)
(***************************************************************************)
EXTENDS Integers, FiniteSets

CONSTANTS Source, Attempt,        \* client addresses; attempts at a time
          SourceMax, SourceWindow, AccountMax, AccountWindow, MaxNow

Account == "account"            \* the key of the account's own throttle

ASSUME ThrottleAssumption ==
  /\ Account \notin Source /\ IsFiniteSet(Attempt)
  /\ {SourceMax, SourceWindow, AccountMax, AccountWindow} \subseteq Nat \ {0}
  /\ MaxNow \in Nat

VARIABLES now, perSource, perAccount, try,
          guesses  \* history: wrong passwords compared since the last fresh count

throttleVars == <<now, perSource, perAccount, try, guesses>>

NoEntry == [count |-> -1]
Key == Source \cup {Account}

ThrottleInit ==
  /\ now = 0
  /\ perSource = [s \in Source |-> NoEntry] /\ perAccount = NoEntry
  /\ try = [a \in Attempt |-> [at |-> "none"]]
  /\ guesses = [k \in Key |-> 0]

(* allow, after its gc: an entry idle for a window and not locked is no    *)
(* entry.  0 stands for the zero time of a key that was never locked.      *)
Idle(e, window) == now - e.seen > window /\ now > e.until
Collected(e, window) == IF e # NoEntry /\ Idle(e, window) THEN NoEntry ELSE e
Locked(e) == e # NoEntry /\ now < e.until

(* fail: the count goes on, or starts again after a window of silence - or *)
(* in fixed mode a window after its first failure.                         *)
Stale(e, window, fixed) ==
  \/ e = NoEntry
  \/ now - e.seen > window
  \/ fixed /\ now - e.start > window

(* Mutant: one failure more than allowed before the lockout. *)
X_Failed(e, max, window, fixed) ==
  LET f == IF Stale(e, window, fixed) THEN [count |-> 0, start |-> now, until |-> 0] ELSE e
      n == f.count + 1
  IN  IF n > max
      THEN [count |-> 0, start |-> now + window, until |-> now + window, seen |-> now]
      ELSE [count |-> n, start |-> f.start, until |-> f.until, seen |-> now]

Failed(e, max, window, fixed) ==
  LET f == IF Stale(e, window, fixed) THEN [count |-> 0, start |-> now, until |-> 0] ELSE e
      n == f.count + 1
  IN  IF n >= max
      THEN [count |-> 0, start |-> now + window, until |-> now + window, seen |-> now]
      ELSE [count |-> n, start |-> f.start, until |-> f.until, seen |-> now]

At(a, step) == try[a].at = step
Move(a, step) == try' = [try EXCEPT ![a].at = step]
Resolved(a) == try' = [try EXCEPT ![a] = [at |-> "none"]]

Begin(a, s) ==
  /\ At(a, "none")
  /\ perAccount' = Collected(perAccount, AccountWindow)
  /\ ~Locked(perAccount)
  /\ try' = [try EXCEPT ![a] = [at |-> "allow", from |-> s]]
  /\ UNCHANGED <<now, perSource, guesses>>

(* A source that is locked out is answered 429. *)
AllowSource(a) ==
  /\ At(a, "allow")
  /\ perSource' = [s \in Source |-> Collected(perSource[s], SourceWindow)]
  /\ IF Locked(perSource[try[a].from]) THEN Resolved(a) ELSE Move(a, "compare")
  /\ UNCHANGED <<now, perAccount, guesses>>

(* A count that starts again, or whose lockout is over, starts the history.*)
Guess(k, e, window, fixed) ==
  IF Stale(e, window, fixed) \/ (e.seen < e.until /\ now >= e.until) THEN 1 ELSE guesses[k] + 1

FailSource(a) ==
  /\ At(a, "compare")
  /\ LET s == try[a].from IN
     /\ guesses' = [guesses EXCEPT ![s] = Guess(s, perSource[s], SourceWindow, FALSE)]
     /\ perSource' = [perSource EXCEPT ![s] = Failed(@, SourceMax, SourceWindow, FALSE)]
  /\ Move(a, "failAccount")
  /\ UNCHANGED <<now, perAccount>>

FailAccount(a) ==
  /\ At(a, "failAccount")
  /\ guesses' = [guesses EXCEPT ![Account] = Guess(Account, perAccount, AccountWindow, TRUE)]
  /\ perAccount' = Failed(perAccount, AccountMax, AccountWindow, TRUE)
  /\ Resolved(a)
  /\ UNCHANGED <<now, perSource>>

SucceedSource(a) ==
  /\ At(a, "compare")
  /\ perSource' = [perSource EXCEPT ![try[a].from] = NoEntry]
  /\ guesses' = [guesses EXCEPT ![try[a].from] = 0]
  /\ Move(a, "succeedAccount")
  /\ UNCHANGED <<now, perAccount>>

SucceedAccount(a) ==
  /\ At(a, "succeedAccount")
  /\ perAccount' = NoEntry
  /\ guesses' = [guesses EXCEPT ![Account] = 0]
  /\ Resolved(a)
  /\ UNCHANGED <<now, perSource>>

TimePasses == now < MaxNow /\ now' = now + 1 /\ UNCHANGED <<perSource, perAccount, try, guesses>>

ThrottleNext ==
  \/ \E a \in Attempt :
       \/ \E s \in Source : Begin(a, s)
       \/ AllowSource(a) \/ FailSource(a) \/ FailAccount(a)
       \/ SucceedSource(a) \/ SucceedAccount(a)
  \/ TimePasses

ThrottleSpec == ThrottleInit /\ [][ThrottleNext]_throttleVars

-----------------------------------------------------------------------------
(* From a fresh count until the lockout is over, one source compares no    *)
(* more than its failures and what was under way when the last of them was *)
(* counted; and neither do all sources together (guard.allow and           *)
(* guard.fail are apart, HandleLogin compares in between).                 *)
GuessesBounded ==
  /\ \A s \in Source : guesses[s] < SourceMax + Cardinality(Attempt)
  /\ guesses[Account] < AccountMax + Cardinality(Attempt)
=============================================================================
