------------------------------ MODULE NetFeeds ------------------------------
(***************************************************************************)
(* The feeds of the network view (internal/netfeeds): periodic passes that *)
(* fetch what is stale and retry with a growing delay, passes that the API *)
(* starts, the configuration that decides which feeds count, and the       *)
(* settings that carry both over a restart.                                *)
(*                                                                         *)
(* Time is the age of a feed's last fetch, counted until it is stale, and  *)
(* the rest of the timer of Run.  Of the prefixes of a feed it matters     *)
(* whether there are any.  Custom categories, which are not fetched, are   *)
(* left out.                                                               *)
(***************************************************************************)
EXTENDS Integers, Sequences, FiniteSets, SequencesExt

CONSTANTS
  Feed,            \* the built-in feeds
  RefreshEvery,    \* ticks after which a fetch is stale (refreshEvery)
  RetryMin, CheckEvery,  \* shortest and longest wait of Run (retryMax = checkEvery)
  MaxFeedFaults,   \* bound: fetches, saves and loads that fail
  MaxConfigEdits,  \* bound: edits of the configuration
  MaxRestarts      \* bound: crashes

ASSUME FeedAssumption ==
  /\ {RefreshEvery, RetryMin, CheckEvery} \subseteq Nat \ {0} /\ RetryMin <= CheckEvery
  /\ {MaxFeedFaults, MaxConfigEdits, MaxRestarts} \subseteq Nat

VARIABLES
  config,    \* Manager.config: the enabled feeds
  snaps,     \* Manager.snaps: [feed -> [has, age]]
  sets,      \* Manager.sets: feeds whose prefixes are matched against
  setting,   \* app_settings: [config, snaps]
  pass,      \* what Run and the background refresh do
  timer,     \* ticks until Run's next pass
  backoff,   \* Run's next delay after a failure
  putting,   \* a configuration that is stored and not yet in force, or {}
  unread,    \* history: feeds whose stored snapshot Load could not read
  faults, configEdits, restarts

feedVars == <<config, snaps, sets, setting, pass, timer, backoff, putting, unread, faults,
              configEdits, restarts>>

Stale == RefreshEvery + 1
Never == [has |-> FALSE, age |-> Stale]
Resting == [at |-> "rests", left |-> <<>>, failed |-> 0]
Passes == {"run", "api"}

compileSets(cfg, sn) == {f \in cfg : sn[f].has}

FeedInit ==
  /\ config = Feed /\ snaps = [f \in Feed |-> Never] /\ sets = {}
  /\ setting = [config |-> Feed, snaps |-> snaps]
  /\ pass = [p \in Passes |-> Resting] /\ timer = 0 /\ backoff = RetryMin /\ putting = {}
  /\ unread = {} /\ faults = 0 /\ configEdits = 0 /\ restarts = 0

Fault == faults < MaxFeedFaults /\ faults' = faults + 1
Becomes(p, next) == pass' = [pass EXCEPT ![p] = next]
InOrder_(S) == SetToSeq(S)

FeedTick ==
  /\ timer > 0 \/ pass["run"] # Resting
  /\ timer' = IF timer > 0 THEN timer - 1 ELSE 0
  /\ snaps' = [f \in Feed |-> [snaps[f] EXCEPT !.age = IF @ < Stale THEN @ + 1 ELSE @]]
  /\ UNCHANGED <<config, sets, setting, pass, backoff, putting, unread, faults, configEdits, restarts>>

-----------------------------------------------------------------------------
(* Passes: the list of feeds is made before the pass waits for its turn.     *)

(* Mutant: only feeds that were never fetched are. *)
X_StaleFeeds == {f \in config : ~snaps[f].has}

StaleFeeds == {f \in config : snaps[f].age = Stale}

RefreshStale ==
  /\ pass["run"] = Resting /\ timer = 0
  /\ Becomes("run", [at |-> "waits", left |-> InOrder_(StaleFeeds), failed |-> 0])
  /\ UNCHANGED <<config, snaps, sets, setting, timer, backoff, putting, unread, faults, configEdits, restarts>>

RefreshInBackground(force) ==
  /\ pass["api"] = Resting
  /\ Becomes("api", [at |-> "waits", left |-> InOrder_(IF force THEN config ELSE StaleFeeds),
                     failed |-> 0])
  /\ UNCHANGED <<config, snaps, sets, setting, timer, backoff, putting, unread, faults, configEdits, restarts>>

Working == {"fetches", "saves"}
LockRefresh(p) ==
  /\ pass[p].at = "waits" /\ \A q \in Passes : pass[q].at \notin Working
  /\ Becomes(p, [pass[p] EXCEPT !.at = "fetches"])
  /\ UNCHANGED <<config, snaps, sets, setting, timer, backoff, putting, unread, faults, configEdits, restarts>>

(* Mutant: a failure replaces the snapshot by an empty one. *)
X_Fetched(sn, ok) == [has |-> ok, age |-> IF ok THEN 0 ELSE sn.age]

(* A failure leaves the prefixes and the time of the last good fetch. *)
Fetched(sn, ok) == IF ok THEN [has |-> TRUE, age |-> 0] ELSE sn

Fetch(p, ok) ==
  /\ pass[p].at = "fetches" /\ pass[p].left # <<>>
  /\ snaps' = [snaps EXCEPT ![Head(pass[p].left)] = Fetched(@, ok)]
  /\ sets' = compileSets(config, snaps')
  /\ Becomes(p, [pass[p] EXCEPT !.at = "saves", !.failed = IF ok THEN @ ELSE @ + 1])
  /\ IF ok THEN UNCHANGED faults ELSE Fault
  /\ unread' = IF ok THEN unread \ {Head(pass[p].left)} ELSE unread
  /\ UNCHANGED <<config, setting, timer, backoff, putting, configEdits, restarts>>

SaveFeed(p, ok) ==
  LET f == Head(pass[p].left) IN
  /\ pass[p].at = "saves"
  /\ setting' = IF ok THEN [setting EXCEPT !.snaps[f] = snaps[f]] ELSE setting
  /\ Becomes(p, [pass[p] EXCEPT !.at = "fetches", !.left = Tail(@)])
  /\ IF ok THEN UNCHANGED faults ELSE Fault
  /\ UNCHANGED <<config, snaps, sets, timer, backoff, putting, unread, configEdits, restarts>>

(* The context of a background pass ends after bgRefreshTimeout; refreshMu *)
(* is given up as at every return.                                           *)
TimesOut ==
  /\ pass["api"].at = "fetches" /\ pass["api"].left # <<>> /\ Fault
  /\ Becomes("api", Resting)
  /\ UNCHANGED <<config, snaps, sets, setting, timer, backoff, putting, unread, configEdits, restarts>>

Least(a, b) == IF a < b THEN a ELSE b

(* The delay doubles after each pass with a failure, up to the regular one.  *)
EndPass(p) ==
  /\ pass[p].at = "fetches" /\ pass[p].left = <<>>
  /\ Becomes(p, Resting)
  /\ IF p = "api" THEN UNCHANGED <<timer, backoff>>
     ELSE IF pass[p].failed = 0 THEN timer' = CheckEvery /\ backoff' = RetryMin
     ELSE timer' = backoff /\ backoff' = Least(2 * backoff, CheckEvery)
  /\ UNCHANGED <<config, snaps, sets, setting, putting, unread, faults, configEdits, restarts>>

-----------------------------------------------------------------------------
(* The configuration is stored, then put in force. *)

PutConfig(cfg) ==
  /\ putting = {} /\ configEdits < MaxConfigEdits /\ configEdits' = configEdits + 1
  /\ setting' = [setting EXCEPT !.config = cfg] /\ putting' = {cfg}
  /\ UNCHANGED <<config, snaps, sets, pass, timer, backoff, unread, faults, restarts>>

ApplyConfig ==
  /\ putting # {} /\ putting' = {}
  /\ config' = CHOOSE cfg \in putting : TRUE
  /\ sets' = compileSets(config', snaps)
  /\ UNCHANGED <<snaps, setting, pass, timer, backoff, unread, faults, configEdits, restarts>>

(* What Load makes of the settings: a read that fails is as one that finds   *)
(* nothing, and leaves the default configuration, or a feed without prefixes.*)
LoadConfig(read) == IF read THEN setting.config ELSE Feed
LoadSnaps(lost) == [f \in Feed |-> IF f \in lost THEN Never ELSE setting.snaps[f]]

(* The process ends anywhere and starts with Load; the ages have grown       *)
(* meanwhile, or not.                                                        *)
RestartFeeds ==
  /\ restarts < MaxRestarts /\ restarts' = restarts + 1
  /\ \E read \in BOOLEAN, lost \in SUBSET Feed :
       /\ IF read /\ lost = {} THEN UNCHANGED faults ELSE Fault
       /\ config' = LoadConfig(read)
       /\ \/ snaps' = LoadSnaps(lost)
          \/ snaps' = [f \in Feed |-> [LoadSnaps(lost)[f] EXCEPT !.age = Stale]]
       /\ unread' = {f \in lost : setting.snaps[f].has}
  /\ sets' = compileSets(config', snaps')
  /\ pass' = [p \in Passes |-> Resting] /\ timer' = 0 /\ backoff' = RetryMin /\ putting' = {}
  /\ UNCHANGED <<setting, configEdits>>

FeedNext ==
  \/ FeedTick \/ RefreshStale \/ TimesOut \/ ApplyConfig \/ RestartFeeds
  \/ \E force \in BOOLEAN : RefreshInBackground(force)
  \/ \E cfg \in SUBSET Feed : PutConfig(cfg)
  \/ \E p \in Passes : \/ LockRefresh(p) \/ EndPass(p)
                       \/ \E ok \in BOOLEAN : Fetch(p, ok) \/ SaveFeed(p, ok)

(* A mutex that is asked for is granted in the end, a fetch ends within its  *)
(* timeout, and the timer fires.                                             *)
FeedFairness ==
  /\ WF_feedVars(FeedTick) /\ WF_feedVars(RefreshStale) /\ WF_feedVars(ApplyConfig)
  /\ \A p \in Passes : /\ SF_feedVars(LockRefresh(p)) /\ WF_feedVars(EndPass(p))
                       /\ WF_feedVars(\E ok \in BOOLEAN : Fetch(p, ok))
                       /\ WF_feedVars(\E ok \in BOOLEAN : SaveFeed(p, ok))

(* What the feeds may do, without what they must. *)
FeedSpec == FeedInit /\ [][FeedNext]_feedVars

-----------------------------------------------------------------------------
(* The last good snapshot counts: through failures, passes that were cut     *)
(* short, edits and restarts, an enabled feed that has stored prefixes is    *)
(* matched against, unless Load could not read them and no fetch has         *)
(* succeeded since; and before anything fails, what a feed has is stored,    *)
(* but for what a pass is about to save.                                     *)
LastGoodKept ==
  /\ \A f \in config : setting.snaps[f].has => f \in sets \/ f \in unread
  /\ \A f \in Feed : snaps[f].has /\ pass["run"].at # "saves" /\ pass["api"].at # "saves"
                     /\ faults = 0 => setting.snaps[f].has

(* Once faults, edits and crashes end, every enabled feed is fetched, and    *)
(* again each time it gets stale, although passes overlap and wait for one   *)
(* another.                                                                  *)
FeedsRefreshed == \A f \in Feed : []<>(f \in config => snaps[f].age < Stale /\ f \in sets)
=============================================================================
