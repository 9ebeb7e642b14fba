# syslog-yard, modelled in TLA+

syslog-yard is three Go programs that work together. The **hose** generates
syslog messages, the **valve** compiles a node graph into a syslog-ng
configuration and runs syslog-ng with it, and the **bucket** takes what
syslog-ng forwards, stores it in PostgreSQL, shows it and notifies about it.

This directory holds specifications of the parts of these programs where order,
concurrency and failure decide whether they are right: twenty modules, most of
them state machines, checked by TLC on small instances, and forty-four theorems about
eighteen of them, proved by TLAPS for every instance. Paths below are relative to
`src/apps/`; `hose/`, `valve/` and `bucket/` stand for `syslog-hose/`,
`syslog-valve/` and `syslog-bucket/`.

1. [Inventory](#1-inventory)
2. [Modules](#2-modules)
3. [What is checked](#3-what-is-checked)
4. [Fairness](#4-fairness)
5. [What is proved](#5-what-is-proved)
6. [Where the code and its words disagree](#6-where-the-code-and-its-words-disagree)
7. [What is not modelled](#7-what-is-not-modelled)
8. [Plan](#8-plan)

## 1. Inventory

### The valve

| Component | State | Operations | What makes it correct |
|---|---|---|---|
| Supervisor (`valve/internal/supervisor`) | current.conf, `history/`, the child process, the registered reload waiter, the restart kick | Apply, Reload, logLine, runLoop, Shutdown | the verdict an Apply takes is about its own configuration; a refused one is taken back; syslog-ng runs what is installed; every Apply answers; Shutdown returns |
| Server (`valve/internal/server`) | graph.json (the draft), one mutex | putGraph, apply, rollback, syncActive | after any restart the notify targets and logrotate.conf are those of the graph that drives syslog-ng |
| Notify dispatcher (`valve/internal/notify`) | targets, a queue and a worker each | SetGraph, handle, the workers | a message is sent, fails, or its drop is counted and reported once; a target in use has a worker |
| Tap (`valve/internal/tap`) | a ring, the subscribers | Subscribe, publish | the replay and what follows neither overlap nor leave a gap |
| Generator, graph checks (`valve/internal/codegen`, `graph`) | none | Generate, Validate, Sanitize | a graph that is accepted becomes a well formed configuration that routes as the graph shows |
| Certificates, rotation | files | created once; written with an activation | (rotation belongs to the activation) |

The server calls the supervisor with its mutex held, so that Applies are one at
a time. What is concurrent with an Apply is the run loop (which starts and waits
for syslog-ng), the goroutine of `os/exec` that copies syslog-ng's output and
looks in it for the verdict of a reload, syslog-ng itself, and the shutdown. All
of them meet in the supervisor's mutex, a channel of capacity one for the
verdict, and a channel of capacity one for the kick.

### The bucket

| Component | State | Operations | What makes it correct |
|---|---|---|---|
| Ingest (`bucket/internal/ingest`) | connections, the queue, the batch, five counters | serve, handleConn, sourceID, batcher, flush, insertEach, retry | every record read is in one place and counted once; nobody sends on the closed queue; what was committed is shown once, in order; an outage loses nothing before the shutdown's deadline; Run returns |
| Notification dispatcher (`bucket/internal/notify`) | the channels' snapshot, their limiters, a queue, workers, drop counts | Dispatch, Run, Reload, worker, Shutdown | one fate for every delivery; limits hold; a stale snapshot does not last; Shutdown drains what it can in time, and then stops |
| Rules (`bucket/internal/engine`, `rules`, `store/rules.go`, `api/crud.go`) | rules, their references, the engine's snapshot | create, edit, delete; Reload, Apply, ApplyRuleHistorical | the snapshot follows the table; a rule does to the past what it does to the future; nothing refers to a tag or channel that is gone |
| Conditions (`bucket/internal/rules`) | none | Match, CompileSQL | one condition, evaluated in memory and by PostgreSQL, says the same |
| Audit log (`bucket/internal/audit`) | a queue, a writer | Record, write, Shutdown, prune, the listing | every event is in the table or in the process log; paging neither skips nor repeats |
| Accounts (`bucket/internal/auth`, `api/users.go`) | users, sessions, two throttles | sign in, slide, sign out, change password, edit, disable, delete | no session outlives what it rests on, but by known times; guesses are limited |
| Saved searches (`bucket/internal/store/buckets.go`) | owners, shares | create, delete, save the share dialog | what was saved last is what counts |
| Network view (`bucket/internal/netfeeds`, `netclass`, `api/netview.go`) | snapshots of feeds, compiled sets, settings | passes, retries, configuration; summary, lists | the last good feed counts, and is fetched again; counts and lists agree |
| Live tail (`bucket/internal/ws`) | the clients and their buffers | Broadcast, serve, recheck | a slow client is dropped, not waited for; an ended session ends its tail |
| Listing (`bucket/internal/store/store.go`) | entries, by id | ListEntries | a client that pages back and catches up sees each entry once |
| Parsers, classifiers, frameworks | tables | queries | pure, or single statements |

A record goes from a connection's handler through the bounded queue to the one
batcher, and from there, when it is committed, to live tail and the dispatcher.
`main` (`bucket/cmd/syslog-bucket/main.go`) stops them in this order: ingest,
dispatcher, API, audit log.

### The hose

| Component | State | Operations | What makes it correct |
|---|---|---|---|
| Job (`hose/internal/engine/job.go`) | the configuration, the state, the run's cancel and done, counters | start, run, finish, halt, setConfig, markDeleted | one run at a time; a busy job can be cancelled; a deleted one is silent; a limit is held |
| Manager (`hose/internal/engine/manager.go`) | the map of jobs, jobs.json, the tail ring | Create, Update, Delete, Start, Stop, persist, NewManager | the file follows the map, survives crashes, and never brings a deleted job back |
| Pacer, senders | tokens; a connection | due; Send with reconnection and backoff | no bursts after a stall; cancelling aborts a send |
| Presets, server | files; none | text generation; handlers | (one file each) |

### Shared

`shared/yardauth` is the sign-in of hose and valve: it asks the bucket who a session belongs to and caches the answer,
and what it accepts from the cache must have been true a moment ago;
`shared/secure`, `shared/netguard` and `shared/attack` are stateless.

## 2. Modules

| Module | Models | Checked in | Proved in |
|---|---|---|---|
| `Supervisor` | `supervisor.go`: Apply to Shutdown, and syslog-ng | `MCSupervisor` | `Supervisor_proofs` |
| `Activation` | `server.go` apply, rollback, syncActive; `supervisor.go` archive, prune, ActiveGraph | `MCValve`, `MCActivation` | `Valve_proofs` |
| `ValveNotify` | the valve's `notify.go`, `limiter.go` | `MCValve` | `Valve_proofs` |
| `Tap` | `tap.go` | `MCValve` | `Valve_proofs` |
| `FlowGraph` | `graph.go`, `safety.go`, `codegen.go` | `MCValve` | `Valve_proofs` |
| `Ingest` | `ingest.go` | `MCIngest` | `Ingest_proofs` |
| `IngestContract` | what ingest promises, without how; instantiated by `Ingest` | `MCIngest` | `Ingest_proofs` |
| `Dispatcher` | `notify.go`, `limiter.go` of the bucket | `MCDispatcher` | `Dispatcher_proofs` |
| `Ordering` | ORDER BY, as a sequence made of a set; extended by `Audit`, `Conditions`, `Listing`, `RuleEngine`, `NetClass` | `MCBucket` | `Bucket_proofs` |
| `Audit` | `audit.go`, `store/audit.go`, `api/audit.go` | `MCBucket` | `Bucket_proofs` |
| `RuleEngine` | `engine.go`, `action.go`, `store/rules.go`, `store/tags.go`, the handlers of `crud.go` | `MCBucket` | `Bucket_proofs` |
| `Conditions` | `cond.go`, `textsearch.go`, the filters of `api.go` | `MCBucket` | `Bucket_proofs` |
| `Listing` | `ListEntries`, `InsertEntries` | `MCBucket` | `Bucket_proofs` |
| `NetFeeds` | `netfeeds.go` | `MCBucket` | `Bucket_proofs` |
| `NetClass` | `netclass.go`, `netview.go`, `store/net.go` | `MCBucket` | `Bucket_proofs` |
| `Sessions` | `auth.go`, `oidc.go`, `users.go`, `hub.go`'s recheck, `yardauth.go` | `MCAccess` | `Access_proofs` |
| `Throttle` | `throttle.go`, and HandleLogin around it | `MCAccess` | `Access_proofs` |
| `Buckets` | `store/buckets.go`, the sharing handlers of `crud.go`, DeleteUser | `MCAccess` | `Access_proofs` |
| `Job` | `job.go`, and `manager.go` where it starts, stops, edits and deletes | `MCJob` | `Job_proofs` |
| `JobStore` | `manager.go`: the map, persist, writeFileAtomic, NewManager | `MCJobStore` | `JobStore_proofs` |

`MCValve`, `MCBucket` and `MCAccess` put several modules side by side in one run: a variable `part` says which of them moves,
and the others stay at their initial states. They share no state in the program either; where parts of one module do not read
one another (the guard's cache and the live tails), they are explored apart too.

In every module an action is what one goroutine does between two points at which
another can interfere: a critical section under a mutex, an operation on a
channel, a system call, an answer of the database. A variable that no code keeps
is marked `history` where it is declared. Definitions named `X_something`,
with the comment *Mutant*, are broken forms of the definition `X` after them;
nothing uses them, and each has the property that catches it in `PROJECT.json`.

**Supervisor.** `pc` is where Apply is, `loop` where runLoop and runOnce are,
`child` what syslog-ng does, and `pipe` what it has written and the copier has
not read. `reload` and `result` are `s.reload` and its channel. `LogLine` is one
line read by the copier under the mutex. Reload's timeout needs the channel empty, because
the code looks into it once more after the timer fired (504-509). Two variables record
history: `confirmed`, that syslog-ng loaded the Apply's target since it was
installed, and `unsettled`, that an Apply in the life of this process ended
without a verdict, could not write a file, or had to put back one it had not been able to read, after
which the code itself no longer knows what syslog-ng runs. `prev` is `NotRead` when reading the file that Apply is about to replace fails
(`prevErr`): Apply goes on, and `Restore` then neither writes nor signals. What syslog-ng says when it reloads is taken
from the lines that `logLine` looks for and from the stand-in of the package's tests.

**Activation.** Each write of an activation is one action and may fail, and the
process may die before each. `fault` records that an activation was cut short.
`Conf` maps graphs to configurations and is not injective: graphs that differ in
a notify target or in a rotation generate the same text, so `ActiveGraph`, which compares
texts, has to pick the right entry. A history is a sequence, newest first; ids grow with time.
A reload's verdict is a choice here and module Supervisor's subject; so is a previous file that was not read, which leaves
what a failed restoring leaves (`NotAccepted`, `fault`).

**Ingest.** Every record of a small set can be read once, by any connection;
three of them are special (not JSON, refused source, refused row). A batch is
inserted whole; after a refusal `rows` is set and its entries are inserted singly, `batch` being
what is still to do and `stored` what is committed. `LostAck` commits and reports an
unavailable database; `MaxCopies` bounds how often. `dbLive` is the context that the drain deadline ends.
The source cache is left out: a handler that finds its source passes `Resolve` in one step, one that does
not passes it when the database answers. Counters are the sets of the records counted, so that counting twice, or not at all, can be told.
`Ingest!Fate` maps a record to the abstract state it has in `IngestContract`.

**Dispatcher.** A delivery is dispatched at most once, and goes to the channel
`ChannelOf` gives it. `run` is where Run is: with its select, or writing rows of drops, which has no
deadline. `reload[r]` is where the Reload of a caller is: the list is read
in one step and installed in a later one. The limiter's sliding minute is a window that empties as a whole
(`MinutePasses`), and `minute` counts what passed independently of the limiters. All limited channels have one rate.

**Job.** `Procs` are callers, each in one operation at a time; `Runs` are the successive run goroutines.
`armed` is `j.cancel # nil`. A cancel function belongs to the job's current run, and calling it
adds that run to `cancelled`. `awaited` is the `done` channel a caller took under the
mutex. The dial is made by `start`, outside the mutex; it is the first phase of its run.

**JobStore.** A version of the map carries the number of changes that led to it, which is how
an older state is recognised. `disk` is what a reader of jobs.json
sees, `durable` what is left of it after a power cut: a rename lasts when the directory is synced, or earlier if the
system chose to.

**ValveNotify.** A target is a number, given when it is started; `targetOf` is the dispatcher's map. A message is
known only by where it is, so queues and fates are counters. `handle` looks up the target under the lock and offers to its queue after it
(`LookUp`, `Handle`): in between a graph may have stopped the target. `pending` are drops that the worker has still to log, `taken` those its next report has read.

**Tap.** Events are numbers in the order of `Publish`. `replay` is the copy of the ring a subscriber got and has not yet been sent, `channel`
its buffer, `shown` what it was sent; `missed` is history: events that found the channel full.

**FlowGraph.** Operators about one graph, `flow`, which no step changes. `Validate_` is what graph.go and safety.go accept, `Generate` what codegen.go renders: statements with their names, and log paths with
their chains of filters. `ConfigFaithfulOf` runs a message through the log paths, for every set of conditions that hold of it, and compares the sinks it
reaches with a walk over the graph. `Applicable` is what apply or rollback accepts, whichever is wider. Identifiers are sequences of parts, so that a name derived for one node can equal another's.
Where the code walks recursively (checkCycles, flowPaths), the model says what the walk finds: the least set closed under the edges, and every chain of edges that ends at a sink.

**Sessions.** Time is in ticks of 30 seconds: `cacheTTL` and the period of the recheck are one each. A request `p` is at
a step `op[p]`, which holds what the handler read; a statement of PostgreSQL is one step. `late` marks a row that a sign-in made after its account changed, or that a
handler left which failed once it had changed the account (`GivesUp`: in that statement with its answer lost, in the next one, or in the revocation; a crash between two statements is the next
one failing); and `long` one that may live longer than the idle timeout in force; `seen` is history, when a token last stood for a
live session of a role. `Tick` waits for rechecks that are due (`hub.go` polls on a ticker) - a late poll would be late by its own delay. A request of the bucket's own takes a step
for each statement (find the session, slide it, handle). What the bucket does to answer the guard (check the session, slide it, read the role) is one step between the guard's question and the
moment it has the answer.

**Throttle.** One account, several sources. `AllowSource`, `FailSource`, `FailAccount`, `SucceedSource`, `SucceedAccount` each hold one throttle's lock;
the password is compared between them. `guesses` is history: wrong passwords compared since the count was fresh.

**Buckets.** A share dialog is checked in one query, and written by a DELETE and an INSERT in a transaction at READ COMMITTED: `snapshot` is what its DELETE saw.
`kept` is history: what the last save left, and whether it was alone.

**Audit.** `Stamp` takes the time and `Record` puts the event on the queue or logs it, so events arrive out of the order of their times. A batch is committed and
acknowledged, committed and not acknowledged (then it is logged too, and `unacked`, which is history, has its events), or neither. A listing's cursor is the time and id of its last row.

**Conditions.** `Match` and `compile` are two evaluations of one tree, the second in SQL's three truth values; what PostgreSQL does with `LIKE`, comparisons and
websearch queries is marked external, and stated in `LikeStep`, `Like`, `sqlOp` and `TsQuery`. Numbers are in halves, so that `halves = 3` is a bound between two integers. `Inside` gives a condition with all its
parts; the evaluations are functions on it, from the leaves up. Moments are in nanoseconds, as an entry has its own when the engine judges it (`ingest.go` 284, 329); PostgreSQL keeps microseconds of the entry's, of a bound it is
sent, and of its clock (`Micros`). `IsCond` is what the JSON decoder can hand over, `IsEntry` what the columns can hold.

**RuleEngine.** A transaction is one step; the check before it (`CheckRule`) and the two halves of the reload after it (`ReadRules`,
`InstallRules`) are steps of the handler. `queued` are entries judged by a snapshot and not yet stored. ApplyRuleHistorical is one step, although its
statements run at READ COMMITTED one after the other: it first takes the ids of the entries that match, so an entry stored after that gets none of its actions. What a condition is
is left open, as three constant operators: `Accepted` (Validate), `InMemory` (Match) and `InSQL` (the WHERE clause of CompileSQL). The run gives them the
operators of Conditions.

**NetFeeds.** Of a feed's prefixes it matters whether there are any, and how old they are. `pass` is the ticker's or the background refresh's pass,
`putting` a configuration stored and not yet in force (the handler stores before it locks). RestartFeeds is a crash and Load, whose reads fail one by one: a configuration that
it cannot read is the default one, a snapshot that it cannot read is none. `unread` is history: the feeds of which Load missed a stored snapshot, until a fetch succeeds.

**Ordering.** `Sorted` is what a query returns with ORDER BY: the member of rank k, by a strict total order, has index k. LIMIT takes a prefix of it.

**NetClass.** A prefix is compiled to its first and last address, and the sort of the ranges leaves the order of those that begin together open. The loop of `Contains` is a function that takes a round (`Halve`) as often as there are ranges,
which is more than the search needs. A row of the scan has a source, a destination and all its addresses; how they are found in its text is left out, and so is the cache of the summary.

**Listing.** An id is drawn also by a batch that fails.

## 3. What is checked

Eight runs pass; four show a disagreement with what the code's own words say (section 6).

| Run | Properties | Bounds |
|---|---|---|
| `supervisor` | VerdictIsOurs, RunsInstalled, RefusalRestores; ApplyAnswers, ShutdownReturns | 3 configurations: the first, a good one, one that only a reload refuses; 2 unread lines |
| `supervisor_late` | RefusedNotArchived is violated | the same |
| `valve` | InStep | 3 graphs, 2 of them with one configuration; 2 history entries kept, 4 while archiving fails |
| | NotifyCounted | 2 notify nodes, rates 1 and 2, queues of 1, 2 graphs applied, 3 datagrams, a minute of one tick |
| | TapOnce | 2 viewers, a ring of 2, channels of 1, 4 events |
| | ConfigFaithful | every wiring of a source, two filters and a cache, any of them off, and every pair of 18 nodes whose names, addresses or files may meet |
| `activation_known` | InstalledIsKnown is violated | as for InStep |
| `ingest` | OnePlace, ShownInOrder; Implements; RunReturns, QueuedSettles | 2 connections, 5 records, a queue of 1, batches of 2, 2 copies of a row |
| `dispatch` | OneFate, RateHeld; QueuedHandled, CatchesUp | 2 deliveries, 1 channel limited to 1, a queue of 1, 2 workers, the ticker and an API request, 1 edit |
| `job` | OneRun, DeletedQuiet; CancelledExits, DeleteEnds | 3 callers, 2 runs, a limit of 2, otherwise 1 message |
| `jobs_saved` | DeletedStaysGone, SettledSaved; RequestsAnswer | 2 requests, 2 jobs, 2 configurations, 3 changes, 2 restarts |
| `jobs_unread` | LastingStays is violated | the same |
| `access` | CacheLag, TailLag, SessionsEnd | 2 users, 2 parallel requests, 2 tokens (one shown to guard and tail), 2 ticks, 2 edits of accounts, timeouts of 1 and 2 ticks |
| | GuessesBounded | 2 sources, 2 parallel attempts, 2 failures per source and 3 per account, windows of 1 and 2, 3 ticks |
| | SharesReplaced | an admin and an analyst, 2 savers, 2 saves, 1 bucket, 1 edit of an account |
| `bucket` | AuditKept, PagedOnce | 3 events, a queue of 2, batches of 2, pages of 1, 2 ticks, rows pruned after 1 |
| | NoDangling, HistoryAgrees; RulesCatchUp | 2 rules with any of 3 bodies, 1 tag, 1 channel, 3 edits, 1 failing read, 2 handlers |
| | LastGoodKept; FeedsUpToDate | 2 feeds, stale after 1 tick: 2 faults under both passes; 1 edit; 1 restart with 2 faults or edits around it |
| | ListedOnce | 5 ids, pages of 2, 1 triage |
| | MatchAgrees | every leaf over small values, negations and pairs of them, texts of up to 4 terms, what two query parameters add to a bucket |
| | NetViewAgrees | every set of up to 3 prefixes of 3-bit addresses; two entries under every pair of 4 feeds |
| `net_overlap` | ContainsAny is violated | the same |

Why the bounds suffice:

- *supervisor*: a pipe of two lines holds a whole refusal ("reverting", "finished"), and with it every
  order of a late verdict, a crash and a new Apply. Applies, crashes and restarts are not bounded.
- *valve*: two kept entries are the fewest with which pruning can remove an entry that has
  the installed configuration, and three graphs the fewest with a shared and a different text; activations and restarts are not bounded. A queue of one
  is full with one message, and the second graph can keep, stop or start the target that the third message was looked up for. A channel of one overflows while
  the viewer is in its replay. Two filters and three places for their edges give every chain, diamond and cycle of them.
- *ingest*: a queue of one is filled by one handler while the other blocks; a batch of two
  can have its refused row first or second; the fifth record shows that a row by row insert does not disturb what follows.
- *dispatch*: one slot, two workers and two deliveries give full queues, late dispatches and a worker left with a delivery
  at the deadline; one edit and the ticker give two reloads in either order, and can throw a limiter away.
- *job*: three callers are a start, a stop and a delete at once; two runs are the fewest that could overlap.
- *jobs_saved*: two savers give every race for `persistMu`; three changes are a create, an update and a delete of one job, or a create and a delete beside
  a create; two restarts let the second read what the first left.
- *access*: two requests give every overlap of a sign-in, a touch or a verification with one edit, and the second edit
  may undo the first (enable what was disabled). With a second tick a cache entry or a tail outlives its time by one. Two attempts are the fewest that pass `allow`
  together; both throttles can lock within three ticks, in either order.
- *bucket*: three events fill a queue of two, or split into two batches; pages of one put every pair of events across a boundary. Two rules of which one reads what the other
  writes make their order matter; three edits are an edit overtaken by another, and one to undo it. Two faults fail a fetch and its retry, or a fetch and a save.
  Three prefixes are a prefix, one inside and one after it.

All runs but `supervisor`, `supervisor_late`, `activation_known` and `ingest` have `CHECK_DEADLOCK FALSE`: their systems stop when the bounds on changes, runs, deliveries or events are reached, and in `bucket` and `valve` parts without
any action are explored besides. In `Ingest` the end is an explicit `Stopped`, so that a real deadlock (handlers on a full queue, the batcher gone) is found.
Symmetry is used where only safety is checked: of the viewers in `valve`, and of the requests, savers, attempts and sources in `access`.

Every property has a mutant in `PROJECT.json`: a definition with a plausible fault in it, under which TLC finds the property violated in the same run.
Further properties are stated and proved, but checked by no run, because their theorems cover every instance:
TypeOK of Supervisor, Activation, Ingest, Dispatcher, Job and JobStore, OneVerdictOwed (Supervisor), NoSendOnClosed, NoEarlyLoss, DrainedAtStop (Ingest), DrainedInTime (Dispatcher), CancelReady, AsConfigured, CountsOwn (Job) and
InOrder (JobStore).

## 4. Fairness

Goroutines that can run do run, and timers fire: weak fairness of the steps of a goroutine. Beyond that:

- **Supervisor** asks nothing of syslog-ng, except that it ends after the context was cancelled: `exec.CommandContext`
  with `StopTimeout` kills it. It need never load, answer or crash, and neither does a write ever have to succeed. Every Apply
  answers all the same, by Reload's timeout.
- **Ingest** asks of the database that a call returns when its context has ended. It need never be reachable:
  RunReturns holds without it. `QueuedSettles` has the premise `Answering`: an attempt tried again and again is answered.
  It is a strong fairness, since every backoff disables the attempt.
- **Dispatcher**: `QueuedHandled` and `CatchesUp` have the premise
  that the database answers, and that Run's select, in which the ticker competes with the drop flush, gets to both (Go chooses among ready cases at random).
  The HTTP client's timeout ends every send.
- **Job**: a run's goroutine is scheduled, and once its context is cancelled a dial or a send returns: `sender.go` makes the connection's
  deadline pass when the context ends. A run nobody cancels may hang in a send for ever. Stop's timer is asked nothing, so CancelledExits is about the run, not the timeout.
- **JobStore**: Go's mutex starves nobody (strong fairness of taking `persistMu`). Writes may always fail.
- **RuleEngine**: the ticker of `Run` reads and installs again and again, and a handler that wrote a rule goes on to its reload. Reads may fail, which the next
  tick makes up for. The premise is needed only in the parts that move the rules.
- **NetFeeds**: timers fire, a fetch ends within the HTTP client's timeout, well or not, and the refresh mutex starves nobody. Faults are bounded, so that FeedsUpToDate says: once they stop.

Activation, ValveNotify, Tap, Audit, Listing, Sessions, Throttle and Buckets have safety properties only: what has to happen there waits for a client, or for the database.

## 5. What is proved

The proofs hold for every value of the constants that satisfies the module's named assumption (`ConfigsAssumption`,
`IngestAssumption`, ...): any sets, any capacity, any bound. They are of the safety part, `Spec`. In each module the argument is an
inductive invariant, of which `Init` and every action are one step of the proof.

**Supervisor_proofs.** TypeCorrect, VerdictOwed, RefusalCorrect, VerdictCorrect, InstalledRuns. That a verdict is the Apply's own
does not follow from the state of the waiter: the lines in the pipe matter. `OwnReport` says that while an Apply waits and the process is not
unsettled, the pipe is empty with the signal pending, or holds one report, which is about `target`; `Settled` that outside the wait the pipe is empty. `KeptInv` relates what syslog-ng
runs to the installed text, and is what makes RunsInstalled inductive: after a refusal the old file and the old process have to fit again. A refusal whose
Apply had not read the old file leaves the refused one (`VerdictInv`, `InstalledInv`), which RefusalRestores says and `unsettled` exempts from RunsInstalled.

**Ingest_proofs.** TypeCorrect, ClosedCorrect, LossCorrect, PlaceCorrect, ContractCorrect, DrainedCorrect, ShownCorrect. `ShutdownOK` ties serve's phases to the accept loop, so that
the queue is closed only with nobody left to send; `HandOK` and `BatchOK` say that hands and batches are not empty where they are used.
`PlaceInv` makes OnePlace inductive: a record is in at most one hand (`HeldOnce`), the hand's stage agrees with what the record is (`StageOK`), the three sequences repeat nothing (`SeqsOK`), and
the places counted together give one (`PlacedOnce`). How a place moves is a lemma per kind of step (PlaceSend, PlaceCommit, PlaceDrop, ...). ContractCorrect is the refinement: under `Fate`
each action settles records, publishes, ends, or leaves the abstract state alone; `EndOK` says that at `Stop` nothing is left to settle, from which DrainedCorrect follows too.
ShownCorrect is about `OrderInv`: what tails were told, what is stored and not yet told, the batches and the queue, one behind the other, rise in the order of `accepted`, and nothing is in two of them. It needs `PlaceInv`, since a record that is
sent must not have been queued before; what a step does to the line is a lemma (LineReceives, LineStores, LineDrops, LinePublishes).

**Dispatcher_proofs.** TypeCorrect, FateCorrect, DrainCorrect, RateCorrect. `HandInv` (a worker has a delivery exactly while it works on one) makes the fates
disjoint; `StopInv` says that a worker ended only with the queue closed and empty, and that Shutdown has them all started. `RateInv` says that a limiter that was never thrown away has counted exactly
what passed in the minute.

**Job_proofs.** TypeCorrect, RunsCorrect (OneRun and CancelReady together: neither is inductive alone), DeletedCorrect, ConfigCorrect, CountCorrect. `DeletedInv` is why marking
comes before halting: past the mark the run a Delete waits for is the last. `RoomInv` says that a limited run which can send has room.

**JobStore_proofs.** TypeCorrect, DeletedCorrect, SettledCorrect, OrderCorrect. `OrderInv` puts the versions in memory, in the copy, on disk and after a power cut in order, which `persistMu`
around copy and write is for; `KnowsInv` says that every state which can still come back knows the deletions of its past.

**Valve_proofs.** *Activation*: TypeCorrect, InStepCorrect. `ProgressInv` says what each step has left behind; `DrivenInv` that the targets and logrotate.conf
are those of the graph a restart would find, also for the configuration that a refusal puts back. The lemma `ArchivedNamed` is the heart: the newest entry with a text is the one just
archived, whatever older entries share it, and pruning, which takes from the other end, leaves it. A smallest index is needed for this, got from the well-foundedness of the naturals.

*Tap*: TapCorrect, for any number of viewers, any ring and any buffer. The invariant says that what a viewer saw, what waits for it (the rest of its replay, then its channel) and what it
missed after that form an interval that ends at the newest event, each in order and once; `Gapless` is that statement, and the ring itself is an instance of it.

*ValveNotify*: MessagesCounted. `TargetCounted` is the ledger of one target; the invariant adds that targets are numbered from 1, that a target was told to quit exactly when no
node uses it any more, and that no two nodes share one. The step that needs work is `SetGraph`: the new targets are a set put in some order behind the old ones, so the lemma `SetListed` (what SetToSeq
returns) carries it.

*FlowGraph*: CompiledFaithful. It is no invariant but a statement about every graph (`IsGraph`: its hypothesis only says what a decoded graph is). Validate leaves nodes that ids and names tell apart (`Apart`), so that a name, derived or not,
comes from one node (StatementsApart) and a filter's two names pass exactly what fulfils it, and what does not (FilterPasses). What a message reaches is a least closed set: a log path it passes is a chain of edges it follows, whose end is in
every closed set (ChainRouted), and what such chains reach is closed itself (RoutedChain). `walk` bounds its ways by the number of filters; that this loses none is ChainDistinct, from checkCycles, and a count (ChainWalks).

**Access_proofs.** *Sessions*: CacheCorrect, TailCorrect, EndCorrect. `TypeInv` also says what a request keeps between two steps, kind by kind. `TimeInv` ties each entry of the guard's cache, an answer under way,
and the next recheck of a tail to `seen`, the last moment the token stood for a live session of that role; the two lags follow by arithmetic. `EndInv` is about the rows: users of rows are there, rows of
an account that is off or has another password (`Outdated`) are late or being revoked, and a handler that fails marks exactly those late, and idle rows end within the timeout in force. One lemma per statement of PostgreSQL says what rows it leaves.

*Throttle*: GuessesCorrect. GuessesBounded is not inductive, since after a lock the count says nothing of how many guesses got through. `Counted` says it for both throttles: while an entry is open, it has counted
every wrong guess; while it is locked, the guesses and the attempts that were let through before it and are still under way stay below the limit plus all attempts. `Passed` only shrinks while the lock lasts, and that is the argument.

*Buckets*: ListsReplace. `Alone` says that a transaction which nobody overlapped saw, in its snapshot, every row of its bucket, and that nobody else is in one; `SaveSound` what a request carries between its check, DELETE and INSERT,
and that the foreign keys held what was inserted.

**Bucket_proofs.** *Ordering*: SortedLists says that `Sorted` lists every member of a finite set once and in order (ranks below the cardinality are met by exactly one member), and SortedFirst that what a LIMIT leaves out
comes after everything on the page. Everything about lists rests on these two.

*Audit*: EventsKept, PagesComplete. `OneWay` puts every event in one place on its way and in one row or the log at its end, in both exactly when the acknowledgement of its insert was lost (`unacked`), which makes the counting of AuditKept inductive; `WriterInv` that a writer which waits or is done holds
nothing. For the pages, `PagesInv` says what the cursor means: shown rows are on this side of it, and what the first page could see and is still there is shown or beyond it. Times within the clock (`Stamps`) and ids drawn in turn (`RowsInv`) keep
a new row from landing among those.

*NetFeeds*: SnapshotsKept. The sets are those of the snapshots (`Compiled`); what the database has is in memory, unless Load could not read it (`StoredIsKnown`), and what memory has is in the database or about to be saved by a pass, unless
something failed (`KnownIsStored`).

*Listing*: EntriesListed. The invariant widens ListedOnce to the ends of what the client holds; that a page skips nothing in its direction is the lemma `Page`, from SortedFirst.

*RuleEngine*: NothingDangles, PastAsFuture. `RefsKept` is the argument of the first: an enabled rule has a reference for each of its targets, a reference has its target, so that the foreign keys refuse what would leave either hanging; `Kept` says the same
of an entry. The second compares two evaluations step by step: actions commute with forgetting notifications (`Quiet`), a tag action finds its tag since references keep it, and a list of actions or rules is followed
position by position with an induction over the naturals. It has hypotheses about conditions, which the module leaves open: `SameConditions` (in memory and in SQL they mean the same, and do not look at notifications) for all entries in a set that is
`ClosedUnderRules`. RulesOverThePast puts the conditions of the next paragraph in their place (`OfRules`), and the first is a hypothesis no more; that the run's rules and the entries they make (`Judged`) are as it asks, TLC checks
(CasesAssumption in MCBucket).

*Conditions*: ConditionsAgree, about every condition of any depth and every entry (`IsJudged`). An evaluation is a recursive function on the parts of a condition; that there is such a function, and that it is its own fixed point, is Recursion,
by induction on the number of parts (`Size`, SmallerParts). TreesAgree then goes up the tree: AND and OR of truth values are true as the connectives are, NULL or not (AndOr), and a NOT sees no NULL, which is what COALESCE is for.
The leaves are where the two differ in kind. For texts, the invariant says which places a pattern can have reached: an escaped text reaches exactly the places behind itself (EscapedReads), a `%` all that follow, hence LikePrefix
and LikeContains. For numbers, rounding a bound towards its comparison keeps the comparison of integers, and clamping it does, as long as the columns stay inside `NumLimit`.
For searched texts, the invariant of the parser's loop (ParseStepKeeps) says that its groups are the runs between the operators of the documentation, and the open group the operands since the last one (TextAgrees).

For times, a moment is a microsecond and a rest below 1000 (MicrosRest), so that two that are not in one microsecond compare like their microseconds (MomentsCompare), and an age and a window likewise (WindowsCompare).

Three differences are real, and `IsJudged` keeps them out (`FarEnough`, `IsEntry`). An entry has nanoseconds when it is judged on arrival and microseconds in the table; `eq`, `ne`, `lte` and `gt` with a bound in the entry's
microsecond, and the others with a bound that is not a whole microsecond, may answer differently (`parity_pg_test.go` 416-418 cuts the times by hand before it compares). An entry as old as a `last` window to the microsecond is in it for Match
(`<=`, `cond.go` 344) and not for SQL (`>`). And a window of more seconds than a `time.Duration` holds wraps in
Match (`Duration`) and not in SQL, so that it is accepted (Validate only asks that it be positive) and may match nothing on arrival that a list would show.

*NetClass*: ViewCorrect, like CompiledFaithful a statement about every input: `IsView` says what a window and the compiled sets are (addresses of the width, ids of their own, ranges sorted by their beginning). `Bounded` is the loop invariant of the
binary search, and that a round brings the bounds closer ends it (HalveCloser, SearchEnds): at the rightmost range that begins at or before the address, from which both halves of SetSound follow. Of the lists, CountsAgree says that a count and the click
on it are about the same rows. That needs what the code's authors rely on: that a row has a direction, a scope or a hit only if it has an address (HasAddress), and that a set which flags an address in one row flags it in every row that has it (FlaggedAlike).
That the sets of the run are such sets, and the graphs of FlowGraph such graphs, TLC checks as assumptions of MCBucket and MCValve (ViewsAssumption, GraphsAssumption). ContainsAny, the stronger sibling, is false.

Induction over the naturals is not cited as a theorem with an operator parameter, which the provers cannot instantiate, but used as a lemma about a set of numbers (`Counting`), from well-foundedness.

Only model-checked are:

- every liveness property (the prover has neither fairness nor `ENABLED`);
- that the finite conditions, graphs and views of the runs are of the kinds the theorems about data take, which are assumptions of their modules.

Every invariant and every action property of safety that a run checks is stated by a theorem.

The proofs about queues and histories work with positions and with the library's facts about sequences.

## 6. Where the code and its words disagree

### Late verdicts

`supervisor_late` finds the property RefusedNotArchived violated. `logLine` gives the outcome of a reload to whichever
waiter is registered. When an Apply timed out, the outcome of its reload, or of the SIGHUP that follows the
restoring (`supervisor.go` 365), can arrive while the next Apply waits. It is then taken for that Apply's: one that syslog-ng is about to refuse is
answered with success, archived, and stays in current.conf. Apply's comment (332-335) says that only a confirmed configuration is archived.
`VerdictIsOurs` is the exact premise under which it is: no Apply without a verdict since the process was started. A configuration
that was installed while syslog-ng did not run is archived unconfirmed by design, and the property exempts it.

### The refused configuration that stays

Not a run. Apply reads current.conf before it replaces it and keeps the error for later (`supervisor.go` 343): when syslog-ng refuses the new configuration and the old one
could not be read, nothing is put back and nothing is signalled (357). The refused text stays installed, and a restart of syslog-ng finds it, where the comment (332-335) says that the previous current.conf is
restored. RefusalRestores says both cases.

### The unexplained configuration

`activation_known` finds InstalledIsKnown violated: an activation cut short between current.conf (344) and its history entry (376-381), by a failed write
or a restart, leaves a configuration that was produced by Apply and matches no entry. `ActiveGraph`'s comment (412-414) and syncActive's
(`server.go` 320-321) give a fresh install, or a configuration from elsewhere, as the only cases. The restart then takes the notify targets
from the draft. `InStep` holds because it exempts a cut-short activation until something makes up for it.

### Unread job files

`jobs_unread` finds LastingStays violated: NewManager takes any error of reading jobs.json for a missing file, goes on without jobs, and the first change
replaces the file. The hose's README says of the file that a crash leaves either the old or the new version.

### Nested ranges

`net_overlap` finds ContainsAny violated. `Contains` (`netclass.go` 165-178) looks only at the rightmost range that starts at or before the address. When a set holds a prefix inside another, which the feeds
may list and nothing merges, an address of the outer prefix after the inner one is reported as outside, although the comment says "any of the set's ranges". NetViewAgrees and the classification take
Contains as it is: counts and lists use the same sets and agree with each other.

### Sessions that stay

Not a run. HandlePassword's comment (`auth.go` 474-476) says that all sessions are revoked and a stolen one dies with the old password. A sign-in that has compared the old password and not yet inserted
its row inserts it after the revocation; and an error of the revocation (521) is ignored, while the audit event reports the sessions as revoked. A sign-out's error is ignored in the same way, in the bucket and in the guard, though AUTH.md (12-13)
says that signing out revokes the session everywhere. An edit of an account is several statements: when `updateUser` has disabled it and `SetPassword` then fails (`users.go` 131-135), or a statement commits and its
answer is lost, the handler answers 500 and never comes to the revocation, though its comment says that a disable revokes the sessions; the same goes for `ResetAdmin`. Such sessions are of no use while the account is
off, and count again when it is enabled. SessionsEnd says what remains: it exempts rows marked `late`, which are those that were outdated when a sign-in in flight inserted them or when a handler gave up, and the time while a
revocation is under way (`BeingRevoked`). A session that is outdated for any other reason violates it.

### Settings that Load could not read

Not a run. Load ignores the errors of GetSetting (`netfeeds.go` 167, 174). A failed read of the configuration puts the default one in force, feeds that an administrator switched off included, until the next edit or restart. A failed read of
a snapshot leaves its feed without prefixes and stale, so that it is fetched at once; if that fetch fails too, refresh saves the empty snapshot over the good one that is stored (300-321), and the last good prefixes are gone until the feed
answers. The package comment says that the last good snapshot is cached so that classification keeps working across restarts and offline spells. LastGoodKept says what holds: stored prefixes of an enabled feed count, unless
Load could not read them and no fetch has succeeded since (`unread`).

### Counted as bad

Not a run: a record whose source is being resolved when the drain deadline passes is counted by `bad_records` (`ingest.go` 257), while the
bucket's README (117) says that entries unwritten at the deadline are counted as dropped, and that `bad_records` are unparseable input (125). The model does
as the code does; `NoEarlyLoss` is about the time before the deadline, and OnePlace counts such a record once.

### Lost limiters

Reload reads the list before it takes the lock, so an older list can be installed after a newer one. A channel that the older one does not have loses its limiter, and
gets a fresh one from the next Reload, within the same minute (`notify.go` 108-119). RateHeld exempts these channels (`lost`); CatchesUp says that the snapshot itself is repaired.

### Uncounted remainder

A worker inserts its delivery's row with a context that nothing cancels (`notify.go` 328). If the database hangs, the worker stays there past
Shutdown's deadline and its grace, and what is still in the queue is neither sent nor counted when the process ends. `DrainedInTime` is about a Shutdown that met its deadline. The insert
of the last drops has no deadline either.

## 7. What is not modelled

Left out because nothing in it depends on order, concurrency or failure:

- *Texts*: the parsers and classifiers, the presets, the random text, the statements' text in a configuration, the feeds' formats, the lexemes of a text search, the search for addresses in a message. They are functions from text
  to values, and table driven; FlowGraph and Conditions model what is structure in them.
- *Payloads and endpoints*: what a sender says to a channel's endpoint, TestSend, and the pruning of the deliveries' log.
- *Stateless filters*: HTTP hardening, the outbound guard, the technique table. *Certificates*: two files at the first start.
- *The web interfaces and the deployment*, which keep no state the servers depend on.

External, and modelled by what the code relies on: PostgreSQL (a statement or a transaction happens, fails, or happens without its answer arriving; LIKE, comparisons and websearch queries by their documented
values), syslog-ng (only what the supervisor sees of it), timers (they fire at any time; history ids are taken in the order of activations, so a clock that steps back is left out).

Abstractions a reader should know when using a result:

- *Valve*. A message that is still queued when its target's worker ends is never sent and in no counter of the code; NotifyCounted finds it in the queue. An apply after the shutdown's empty graph would start workers that nobody stops;
  the server is closed before. Two cache nodes may name one file. The edges of a graph are a set; a doubled edge would make syslog-ng deliver twice.
- *Sessions*. A recheck happens on time. The answer to the guard is one step. reset-admin's creation of an admin that is missing is left out, as are preferences.
- *Throttle*. The account's count is shared by all sources: one source with as many attempts in parallel as the account allows passes its own limit and locks the account, against the comment in `throttle.go` (105-106); it takes 100 attempts at
  once, and GuessesBounded, which allows for what is in flight, holds.
- *Buckets*. Two overlapping saves of a share dialog leave the union of both lists, since the DELETE of the second sees nothing of the first; the comment says that the full list is swapped. SharesReplaced allows
  that and nothing more (`kept`). The DELETE takes the rows of its snapshot by value, where PostgreSQL takes the row versions: a row
  deleted and inserted again in between would survive there, which `kept` allows as well. A bucket's content, and the marker of SeedDefaultBuckets, are left out: a seeding that fails in between would bring a deleted default back.
- *Audit*. Events still queued when Shutdown gives up are lost with the process; AuditKept counts them as waiting then.
- *Rules*. An entry judged by an old snapshot and stored after a history run is treated by neither; HistoryAgrees compares what the two do to an entry, not when. Two settings written at once (the idle timeout, the feeds' configuration) can leave the
  database and the memory different until the next write or restart; the models keep what each of the two has.
- *Network view*. The summary's short cache (15 s at most) and the cut of the top list are left out; entries without an address appear in one list and not in the summary, and the property is about entries with one. What Match and SQL make of a
  bound in an entry's own microsecond, of a `last` window's very end, and of one too long for a `time.Duration`, is left out too (section 5).
- *Listing* by id relies on there being one writer (ids become visible in order); sorting by other columns is left out.

## 8. Plan

Done, in this order: Supervisor, Ingest with its contract, Activation, Job, JobStore, Dispatcher, because they carry the suite's promises (no configuration that does not run, no record lost, no job that cannot be stopped); then
what decides who may do what, and what is shown (Sessions, Throttle, Buckets, Conditions, RuleEngine, Audit, Listing, NetClass, NetFeeds), the rest of the valve (ValveNotify, Tap, FlowGraph), the proofs of OnePlace, the refinement, Sessions and Tap,
those of what remained (the throttles, shares, messages of the valve, the audit log, listings, feeds and rules), and at last those about data: graphs, views and conditions.

To come, with what each should answer:

1. **BucketShutdown**, composing IngestContract, the dispatcher's and the audit log's ends as `main.go` orders them: is every entry that is shown dispatched before the dispatcher closes?
2. **Sender** with backoff and **Pacer** with integer tokens, as parts of the run `job`; the buffer of a live tail client (**Hub**): is what a client saw a prefix of what was broadcast?
3. Proofs: that what NewSet compiles is a set as `IsView` takes it (arithmetic with powers of two).
