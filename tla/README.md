# A TLA+ model of landscape-client-core

`landscape-client-core` is the Landscape client for Ubuntu Core: a daemon that registers a
device with a Landscape server, reports telemetry, and carries out the operations the server
sends. This directory models its message exchange, the operations and their cancellation, the
telemetry plugins with the state they keep, and the supervision of all of them; it checks the
models with TLC, and proves with TLAPS all but one of the safety properties that are checked: for every value of the
constants, some of them for the kinds of failure that section 4 names. Paths below are relative to `src/`.

## 1. The system

### Components

| Component | Source | State | Operations | Interacts with |
|---|---|---|---|---|
| Exchange loop | `internal/exchange/exchange.go` | pending queue and insecure-id under `mu`; the one-token `wake` channel; `*persist.State`, backoff and `prevSecureID` owned by `Run` | `Run`, `performExchange`, `persistQueue`, `Send`, `SendUrgent`, `TriggerExchange`, `Subscribe` | transport (POST), store (`Load`, `Update`), spool, handlers (calls them), plugins, ping, daemon context |
| Queue and spool | `internal/exchange/queue.go` | `queue.json` | `load`, `save`, `enforceQueueBound` | exchange loop |
| State store | `internal/persist/persist.go` | `state.json`, its `.old` copy; one mutex | `Load`, `Save`, `Update`, `Accessor` | exchange loop, every plugin |
| Transport | `internal/transport` | HTTP client | `Post`, `PostForm`, attachments | exchange loop, ping, script handler |
| Ping loop | `internal/ping/ping.go` | interval | `Run`, `SetInterval` | reads the insecure-id, triggers an exchange |
| Manager runner | `internal/manager/runner.go`, `cancel.go` | semaphore, wait group, registry of cancel functions | `Register`, `Wait`, `WaitWithTimeout`, `Cancel` | called by the exchange loop, one goroutine per command, sends results |
| Handlers | `internal/manager/system.go`, `snap.go` | script directories, output limit | scripts, shutdown, snap and service operations | snapd, DBus, attachments, `SendResult` |
| Monitor runner | `internal/monitor/runner.go`, `heartbeat.go` | backoff per plugin, last beats | `Run`, `StaleSources` | plugins, store, daemon's watchdog |
| Plugins | `internal/monitor/*.go` | samples, accumulator, saved state | `Run` | `/proc`, `/sys`, snapd, `Send` |
| snapd client | `internal/snapd` | none | requests, polling of changes | handlers, plugins |
| Daemon | `cmd/landscape-client-core/main.go` | errgroup, watchdog, exit code | `run`, shutdown | all of the above |
| bpickle | `internal/bpickle` | none | `Marshal`, `Unmarshal` | exchange loop, ping |
| Configuration and wizard | `internal/config`, `cmd/landscape-client-core-config` | snap options | load, validate, prompt | daemon |
| runcmd, version, snap hooks | `internal/runcmd`, `internal/version`, `snap/` | none | | |

### What is hard

The exchange is where the program can go wrong in ways a unit test does not reach.
Messages have no identifier: both sides number them by position. The client keeps two
cursors (`OutboundSequence`, `NextExpectedFromServer`), the queue, and two files that are
written separately; handlers and plugins append to the queue while `Run` drains it, puts
batches back, trims it and copies it; replies are lost, late or partial; the process may die
between any two of these steps. `PROJECT.json` lists every hazard at its line. The
properties that make the components correct:

- **Exchange loop**: operation results reach the server once each, in order, and in the end;
  commands reach their handlers in order, none skipped; no result waits behind a sleeping
  loop; the timer respects the backoff; a shutdown ends and leaves the queue on disk.
- **Queue and spool**: the bound holds, results are never dropped, the oldest telemetry goes first.
- **State store**: `Update` never loses a concurrent change; recovery from `.old` moves no cursor
  forward; a reset of plugin state is a reset.
- **Ping loop**: pings only with the current identity; messages found wake the loop.
- **Manager**: every command ends with exactly one result; a cancelled operation stops; the
  exchange loop is never blocked by handlers that wait for it.
- **Monitor**: a failing plugin is restarted; a wedged one ends the daemon, a healthy one does not; what a
  plugin believes to have reported is what the server knows; traffic is counted once.
- **Daemon**: one runner's failure stops the others and reaches the exit code; shutdown is bounded.

## 2. Modules

| Module | Content |
|---|---|
| `MessageQueue` | pure operators: `IsUrgent`, `HasUrgent`, `Select` (what a loop that skips some messages leaves), `Results`, `EnforceQueueBound`, `DropUnaccepted`; and the loop of `enforceQueueBound`, iteration by iteration, as a reference (`BoundReference`) |
| `Exchange` | the exchange loop, its files, the goroutines around it, the server and the network |
| `ResultDelivery` | the abstract promise: results are taken once each, in order, and in the end |
| `ExchangeMC` | the module TLC's runs of `Exchange` use; `BoundIsTheLoop`, the bound against the loop, on short queues and those of the run |
| `Manager`, `ManagerMC` | dispatch, semaphore, cancellation, the eight handlers, snapd as its client sees it, the list of snaps; the plans of commands for TLC |
| `Supervision`, `SupervisionMC` | plugin goroutines with restarts, heartbeats, watchdog, errgroup, shutdown, exit code; two instances |
| `Reporting`, `ReportingMC` | change-reporting plugins, the state store, and the exchange reduced to one batch |
| `Diffs`, `DiffsMC` | pure operators: `buildUsersDiff`, `diffProcesses`; every pair of small samples |
| `NetworkActivity`, `NetworkActivityMC` | counter wraps, the accumulator and its send window |
| `MessageQueueProofs` | what `Select`, `Results`, `EnforceQueueBound` and `DropUnaccepted` return, for every queue |
| `ExchangeProofs` | types, wake-ups, the timer, positions, the spool's bound (extends `MessageQueueProofs`) |
| `DeliveryProofs` | commands, operation results, the shutdown, the refinement of `ResultDelivery` (extends `ExchangeProofs`) |
| `ManagerProofs`, `SupervisionProofs`, `ReportingProofs`, `NetworkActivityProofs`, `DiffsProofs` | theorems and proofs about the module each is named after |

How they fit together: `Exchange` has the loop in full and reduces an operation to "a handler that
queues one result"; `Manager` has the handlers in full and reduces the loop to "one callback after the
other" and the queue to the list of results. `Reporting` has the store and the plugins in full and reduces the
exchange to a batch taken whole or put back. `Supervision` has what starts, restarts and ends
all these goroutines and leaves out what they do. What one module assumes of another is stated where it
is used: `OnlyHungScriptsBlock` and `SilenceIsAnError` of `Manager` say when "each command is answered",
the fairness of `Exchange`, fails; `ShutdownBounded` of `Supervision` is the fault `overrun` of `Exchange`.

### `Exchange` and the code

`pc` says where the goroutine of `Run` is. An action is a stretch of the code between two
points at which other goroutines, the server or a crash can come in between.

| `pc` | Code | Actions |
|---|---|---|
| `off` | no process | `Boot` |
| `load` | `Run` 193–227 | `Load`, `LoadFails` |
| `drain` | `performExchange` 390–516 | `Drain`, `MarshalFails` |
| `post` | `transport.Post` 517 | `ServeCurrent` (the server), then `Acknowledge`, `PostFails` or `ReplyUndecodable` |
| `dispatch` | 592–722 | `DispatchSetID` … `DispatchLogged`, one message each; `SaveState`, `SaveStateFails` |
| `bound`, `spool` | `persistQueue` 155–172 | `BoundQueue` (under the lock), `WriteSpool` (after it) |
| `decide` | `Run` 254–286 | `Decide` |
| `wait` | the select, 288–303 | `TimerFires`, `Woken`, `FinalDrain` |
| `returned` | `Run` has returned | `Exit` |

Other goroutines: `Send` (a plugin), `SendUrgent` and `TriggerExchange` (a handler: the append
under the lock and the wake-up are two steps, as in lines 338–344), `PingFindsMessages`, `Stop`
(SIGTERM), `Crash`. `pending`, `pingID` and `wake` are the fields of `Exchange`; `mem` is the
`*persist.State` that `Run` owns; `batch`, `inbound` and `copied` are locals; `disk` and `spool` are
the files. `final` marks the exchange after `ctx.Done()`: its error is only logged, `prevID` and
the backoff are not touched, and `Run` returns after `persistQueue`.

Within one action go only steps that touch `Run`'s own locals or sit under one acquisition of
`mu`, and in three places steps of two acquisitions, where nothing can tell the difference: the
insertion of `register` and the drain (392–424: what another goroutine appends in between goes to
the back, and is drained or left as if it had come before), the acknowledgement's put-back and the
cursors, which only `Run` reads (558–575), and the write of `state.json` with the look for a backlog
(690–719: a message appended in between came before the look). Nothing is dispatched together with
`Acknowledge`, so a worker may queue a result between any two messages of a reply.

Abstractions: `id` stands for `SecureID` and `InsecureID`, which `set-id` carries together (0: none);
a message is its type and a number; `accepted` is a set. A file is replaced at once, as the
temporary-file-and-rename of both writers does.

### `Manager` and the code

`stage[c]` says where the goroutine of the command at position `c` is. `Receive`, `Acquire` and
`AcquireFails` are the callback of `Register` (runner.go 56–79), in the exchange loop, one message at a time.
`Panic`, `Report` and `Finish` are what every handler shares: the recovered panic, `reportResult`, and the
deferred calls, which free the slot and the registration. Each handler is a disjunction of its steps
(`BeginSnaps` … `SendNow`, `BeginService`/`ServiceAction`, `AnswerShutdown`/`CallLogind`, `BeginScript` …
`ScriptKilled`, `Cancel`), split where it calls snapd, DBus or a process. `slots`, `operations` and `cancelled` are
the semaphore, the registry of `OperationContextManager` and the contexts it cancelled; `stopping` is the
daemon's context, of which every operation's context is a child. `results` is the queue of operation results.
`verdict` is the local that leads to a result.

snapd is external: a change for a snap that is applicable and has none under way is `Doing` until it is `Done`
or `Error`, whether or not the client still waits for it. `listing` and `lastList` are the list of snaps that
`SendNow` and the plugin's own ticker read and then queue: two goroutines may do so at once.

Abstractions: a message is its kind, what it lacks, its snaps and the operation it names. Output, exit codes and
texts of a result are left out, and so are the files of a script but for the failure to write them.

### `Supervision` and the code

`phase[p]` is where `runPlugin` is with plugin `p`: in the work before the first tick, waiting for the ticker, in
the work of a tick, in a call that does not come back, just panicked, in the backoff, or over. `left`, `ran`,
`since` and `watch` are times counted down or up by `Pass`, which moves only when nothing is due; that makes the
code's deadlines exact and its steps instantaneous next to them. `backoff` and `lastErr` are the locals of
`runPlugin`; `since` is the age of the entry in `Heartbeat`. `runners` and `groupErr` are the errgroup; `main`, `reported` and `err` are
`run` with its two selects. `Cancelled` is `groupCtx`. The waits of `run` for the handlers and for the group are
bounded by a timeout, so their steps may end at any time.

The plugins are `Hanging` where their work may block without heeding a context, and `SilentFirst` where they work before
their first tick, and so before they first beat.

### `Reporting` and the code

What a plugin watches is a set of facts, and a report is what it adds and removes, or a whole set.
The plugins differ in the order of their steps: those in `Hashed` save a hash, remember it and then send everything;
those in `Diffed` send the difference, remember and then save; those in `Scanned` keep their sample in memory only.
`Store.Update` is `BeginUpdate` (lock, load, callback), `WriteTemp`, and `Rename` (backup, rename, unlock), each
of which can fail (`SaveFails`) or be the last step of the process (`Crash`); `mutex` holds who is in it and
what it will write. `MergedPluginState` is the merge in the callback of the exchange. The exchange is `Deliver`,
`DeliverReset` (with `set-id` or `resynchronize` in the reply), `Refused` and `WriteSpool`.

`gap` is a history variable: a report of the plugin was lost for good, through a crash, a panic or a reset. `known` is
what the server has been told.

`Diffs` has the differences of the two plugins over tables of records, and `DiffsRebuild` says that
the server can rebuild the new sample from the old one and the message, and that `Diff` of `Reporting` is such a difference.

### `NetworkActivity` and the code

Time is counted in ticks of the plugin. `counter` is the kernel's counter of an interface, `last` the previous
sample, `points` and `age` the accumulator, by the number and the sum of its points, with the time since its last send. One counter stands for the two of bytes received and sent.
`owed`, `held` and `trust` are history: what passed, how long the oldest point has waited, and whether the counter
did something no reader of samples could tell.

### The server

It is not in the repository (in `PROJECT.json`'s map it is external). It is modelled from what the client
relies on: it numbers the messages it takes by position and ignores those whose position it has
(the comment of `exchange_test.go:361-364`); its reply gives the next position it expects, or nothing
when it took the whole batch (the default of 550–556); it sends what it has beyond the position the
client asks for; `register` is answered with `set-id`, or with `registration` when an administrator must
decide; a client it does not know gets `unknown-id` and nothing is taken. It may take
only a part of a batch. It does not reset its numbering on `resynchronize`: how a real server
does (the comment at 643–648) is not visible to the client.

### Faults

`Faults` selects the kinds a run explores and `MaxFaults` how many occur. In `Exchange`: refused requests, lost
replies, requests that arrive after the client gave up, partial acknowledgements, deferred and
revoked registrations, undecodable replies, batches that do not encode, failing writes and reads of
both files, crashes, SIGTERM and an exceeded grace period. In `Manager`: panics, refused or lost requests to snapd, a
failed poll, a failed change, DBus errors, everything that can go wrong with a script, SIGTERM. In
`Reporting`: a crash or a panic at any point, a failed step of a save, a refused batch, a reset, a damaged file. In `Supervision` panics,
hangs and SIGTERM are unlimited. In `NetworkActivity`: interfaces that go, failed reads, restarts.

## 3. Runs

| Run | Question | Properties |
|---|---|---|
| `delivery` | Refused, lost, late and partly taken requests, three of them, with fairness | `CommandsInOrder`, `TimerHonoursBackoff`, `DeliversOnceInOrder` and `DeliversEventually` (refinement), `CommandsAnswered`, `QueueDrains` |
| `registration` | Registering, deferral, revocation; every kind of server message; failing writes; queue at its bound; the bound against the loop of the code | `TypeOK`, `NoResultSleeps`, `NothingInvented`, `ResultsKept`, `SpoolBounded`, `BoundIsTheLoop`, `DeliversOnceInOrder` |
| `restart` | Crashes and unreadable or unwritable files at any point | `Positions`, `NoCommandSkipped` |
| `lifecycle` | SIGTERM at any point, with fairness | `ShutdownSpoolsQueue`, `ShutdownCompletes`, `Registers` |
| `manager` | Eight plans of up to three commands, one failure of any kind, over two slots | `TypeOK`, `NothingLeaks`, `OneVerdict`, `SucceededMeansDone`, `SilenceIsAnError`, `HandlersReport`, `CancelHeeded`, `OnlyHungScriptsBlock`, `SnapListConverges` |
| `supervision` | Two plugins that panic or hang at any time, the watchdog, SIGTERM | `TypeOK`, `StaleHasCause`, `ExitCodeTells`, `FailureEndsDaemon`, `WedgeDetected`, `ShutdownBounded` |
| `reporting` | A plugin of each kind and the exchange on one file, one failure of any kind | `TypeOK`, `ServerMirrorsPlugin`, `DiffsRebuild`, `NobodyClobbers`, `CrashesAreSafe` |
| `network` | Two interfaces, one whose counter wraps, two failures | `TrafficAccounted`, `PointsLeaveInTime` |

Four runs find a violation, each of one sentence of the repository (quoted in `PROJECT.json`):

- `crash_misnumbers`: a crash after the server took a batch and before `state.json` is written leaves
  a sequence too low for what the server has. Results queued after the restart go out at
  positions the server ignores. `persistQueue`'s comment says a restart loses only what was queued
  since the last exchange.
- `trim_shifts_positions`: after a lost reply, `enforceQueueBound` may drop a message the server
  already has; the results behind it move to lower positions, which the server ignores too.
- `wedge_not_recovered`: the watchdog is there to make a wedged daemon exit (main.go:254-257). Its error cancels the
  context of the group; `run` then waits for the whole group, and so for the plugin that is wedged.
  The exchange and the ping loop have stopped, and the process stays until it is sent a signal.
- `reset_not_reported`: `set-id` and `resynchronize` clear the plugin state so that all monitors report anew
  (exchange.go:617), but the merge at the end of the same exchange brings back the old entries from `state.json`, and a
  running plugin compares with its copy in memory. What does not change is not reported again.

The first two set the limits of the other runs of `Exchange`: `ResultsKept` and `DeliversOnceInOrder` are claimed with failures that
do not lose a reply while the queue is trimmed or a register message is added again, and without
crashes; `registration` and `delivery` are the two kinds of instance, and the hypotheses of the theorems about
results (section 4) are the same two limits. What holds through all failures is `Positions`, `NoCommandSkipped` and
`NothingInvented`. The third is why `FailureEndsDaemon` excepts a wedged plugin, and the fourth why
`ServerMirrorsPlugin` excepts a plugin after a reset.

Three things the code does that no finding is about, since no sentence promises otherwise or a run that shows
it would add nothing:

- A cancel-operation that is dispatched before the goroutine of its operation has registered it is lost (`CancelHeeded`
  speaks of operations that run).
- A handler that returns an error sends no result; `docs/management-commands.md:141-146` says it does. `SilenceIsAnError`
  lists the cases.
- `unknown-id` clears the identity in the state but not `Exchange.insecureID`, which the ping loop goes on using
  until the next `set-id` (`docs/protocol.md:163` says otherwise).

### Bounds

*Exchange.*

- At most two failures (three in `delivery`) and two messages the server sends of its own accord, one telemetry message
  (two in `trim_shifts_positions`, none in `delivery`, for the cost of its liveness graph), `MaxBatch` = 2. A batch of two and three or four messages (two
  results, telemetry, a register or resynchronize message) give a backlog, a partial
  acknowledgement that splits a batch, and further failures during the recovery from the first.
- `MaxQueued` = 2 where the bound should bite, 8 where it should not.
- Backoff 6, then 10: the doubling passes the cap at the second failure, and a fifth of either is
  at least one second, so the jitter is not empty. The intervals are 7 and 1: the normal interval lies
  between the first and the second delay.
- `InitialID` 0 starts with a device that must register.
- `BoundIsTheLoop`: queues of at most six messages of three types, bound three, besides every queue of the run.

*Manager.* The server sends one of the eight plans of `ManagerMC`, of two or three commands, chosen so that
operations meet: two snap operations on one snap, a cancel-operation that comes in time, too early, too late or not at all, every
kind of command with and without its fields. `Limit` = 2 is less than the number of commands, so the loop waits for a slot, and
two scripts without a time limit can hold them all. One failure per behaviour: two failures of the
same handler meet only in its result, which the first one ends.

*Supervision.* Two plugins, in units of 30 seconds, the healthy-run window and the interval of the watchdog: one with an
interval of 60 s that works before its first tick and may hang, one at 30 s. `BackoffMax` = `MinThreshold` = 4, where the code has 300 s and
120 s: a longer backoff would only add to what `StaleHasCause` already excepts. `Stagger`, how late the first tick of
each plugin may come, is 0 here: a late first tick moves a plugin against the other, as the duration of its first work
does. The theorems hold for any stagger that leaves room for the first backoff in an interval. `wedge_not_recovered` has one plugin in units of 15 seconds.

*Reporting.* One fact, present at the start, may change once, and one failure happens, at every point between any two
steps. Two changes or failures multiply the states (2.9 million as it is) without a new pair of steps: the loss of a report needs one
failure, and the recovery from it is in the run. `Diffs`: two users with two records, one group with two
gids and any members; two processes with two records and two loads.

*NetworkActivity.* `Wrap` = 8 and `Threshold` = 6 keep the shape of 2^32 and 2^32 - 2^24; counters start at 0, 5 or 6, so that a wrap
from either side of the threshold takes one or two steps. `Window` = 2 ticks, five units of traffic, two failures.

Deadlock checking is off where the system really may stop: in `manager` all commands have ended, in `supervision` and
`wedge_not_recovered` the process has exited or waits for a wedged plugin, in `reporting` and `reset_not_reported` everything is reported and
saved or the process cannot load its state, in `network` traffic and failures are used up. In every other run a state
with no successor is an error.

### Fairness

*Exchange.* `FairSpec` assumes weak fairness of each step of `Run` that does not wait; of the timer, which is
set anew on each entry to the select and fires there; of the handlers' results and wake-ups; of the
server's answer to the request under way, as `Post` waits for it or for its timeout; and of the end
of a process that has returned. `FinalDrain` needs strong fairness: the select may have the timer or
the wake channel ready together with `ctx.Done()`, and Go picks among the ready cases at random.
Failures, `Stop`, plugins, pings and late requests have no fairness, and neither has `Boot`: snapd
restarts a daemon on failure only (`snap/snapcraft.yaml:23`), so `Registers` is claimed unless the
daemon ends for good. That a handler ends and sends one result is an assumption here; `Manager` says when it holds.

*Manager.* Every call a handler makes ends, as each has a timeout or ends with its context: the requests to snapd, ten minutes for a change,
30 seconds for DBus, the time limit of a script. Nothing is assumed of a script without one, nor of
the changes of snapd. The ticker of the list of snaps goes on.

*Supervision.* Every goroutine that can go on does, and time passes. Nothing makes a plugin hang or sends a signal.

*Reporting.* Tickers fire, the exchange comes round, a save goes on. `BeginUpdate` is strongly fair: `sync.Mutex` hands the
lock to a waiter after a millisecond. Failures have no fairness and are bounded.

*NetworkActivity* claims no liveness: `PointsLeaveInTime` is a property of each step.

## 4. Proofs

`tlapm` checks every step of these. Each theorem holds for all values of the constants that satisfy the assumption of
its module; where a theorem has a further hypothesis, it is in the last column.

| Theorem | States | Provided |
|---|---|---|
| `MessageQueueProofs!BoundIsLoop` | `EnforceQueueBound` is the loop of the code, for every queue | |
| `MessageQueueProofs!BoundDropsTheOldest`, `BoundNeverDropsResults`, `BoundIsMet` | what it returns: the results, and of the rest the newest | |
| `ExchangeProofs!TypeCorrect` | `Spec => []TypeOK` | |
| `ExchangeProofs!WakeUpsAreNotLost` | `Spec => []NoResultSleeps` | |
| `ExchangeProofs!TimerNeverBelowBackoff` | `Spec => []TimerHonoursBackoff` | |
| `ExchangeProofs!PositionsAgree` | `Spec => []Positions` | |
| `ExchangeProofs!CommandsAreNotSkipped` | `Spec => []NoCommandSkipped` | |
| `ExchangeProofs!NothingIsInvented` | `Spec => []NothingInvented` | |
| `ExchangeProofs!SpoolIsBounded` | `Spec => []SpoolBounded` | |
| `ExchangeProofs!BoundIsFaithful` | `Spec => []BoundIsTheLoop` | |
| `DeliveryProofs!QueueIsSpooled` | `Spec => []ShutdownSpoolsQueue` | `FilesWork` |
| `DeliveryProofs!CommandsKeepOrder` | `Spec => []CommandsInOrder` | `EndsAreClean` |
| `DeliveryProofs!ResultsAreKept` | `Spec => []ResultsKept` | `NothingIsLost` |
| `DeliveryProofs!ExchangeImplementsDelivery` | `Spec => DeliversOnceInOrder` (refinement of `ResultDelivery`) | `NothingIsLost` |
| `DeliveryProofs!RetriesKeepResults` | `Spec /\ []QueueFits => []ResultsKept` | `ReplyMayBeLost` |
| `DeliveryProofs!RetriesImplementDelivery` | `Spec /\ []QueueFits => DeliversOnceInOrder` | `ReplyMayBeLost` |
| `DeliveryProofs!NothingToDrop` | `Spec => []QueueFits` | `ReplyMayBeLost`, `RoomForAll` |
| `DeliveryProofs!RetriesDeliverOnce` | `Spec => DeliversOnceInOrder /\ []ResultsKept` | `ReplyMayBeLost`, `RoomForAll` |
| `DeliveryProofs!RestartsKeepFiled` | `Spec /\ []QueueFits => OnlyRestartLosesUnsaved` | `RestartsAreClean` |
| `DeliveryProofs!CleanRestartsKeep` | `Spec => OnlyRestartLosesUnsaved /\ []QueueFits` | `RestartsAreClean`, `RoomForAll` |
| `ManagerProofs!TypeCorrect` | `Spec => []TypeOK` | |
| `ManagerProofs!NothingIsLeaked` | `Spec => []NothingLeaks` | |
| `ManagerProofs!VerdictIsFinal` | `Spec => []OneVerdict` | |
| `ManagerProofs!SilenceMeansError` | `Spec => []SilenceIsAnError` | |
| `ManagerProofs!SuccessIsDone` | `Spec => []SucceededMeansDone` | |
| `SupervisionProofs!TypeCorrect` | `Spec => []TypeOK` | |
| `SupervisionProofs!NoFalseAlarm` | `Spec => []StaleHasCause` | |
| `SupervisionProofs!ExitCodeIsTrue` | `Spec => []ExitCodeTells` | |
| `ReportingProofs!TypeCorrect` | `Spec => []TypeOK` | |
| `ReportingProofs!ServerIsMirrored` | `Spec => []ServerMirrorsPlugin` | |
| `ReportingProofs!UpdatesKeepApart` | `Spec => NobodyClobbers` | |
| `ReportingProofs!FileIsWhole` | `Spec => CrashesAreSafe` | |
| `NetworkActivityProofs!AllIsAccounted` | `Spec => []TrafficAccounted` | |
| `NetworkActivityProofs!PointsAreFresh` | `Spec => PointsLeaveInTime` | |
| `DiffsProofs!UsersDiffIsComplete`, `ProcessDiffIsComplete` | the message rebuilds the new sample, for any two | |
| `DiffsProofs!DiffsAreRebuilt` | `DiffsRebuild` | |

### Assumptions and hypotheses

`ExchangeAssumptions` asks for `BackoffInitial >= 5`: with less, a fifth of the delay is 0 and
`rand.Int63n(0)` panics (exchange.go:74); the code has 300 s. `ManagerAssumptions` asks for a slot and a plan of well-formed
commands, `ReportingAssumptions` that a plugin is of one kind, `NetworkAssumptions` that traffic comes in amounts below a whole
wrap and that the threshold lies below the wrap. `SupervisionAssumptions` asks that the work of a tick ends before the next
one, and that the first backoff and the stagger together are no longer than an interval: a second and a tenth of an interval of at
least 15 s.

The hypotheses select kinds of failure, never their number:

- `FilesWork`: no failed read of `state.json`, after which `Run` returns before it has looked at its queue, and no failed write
  of the spool, which `Run` only logs.
- `EndsAreClean`: no crash, no exceeded grace period and no failed write of `state.json`. After these the client asks again
  for messages it has already processed, and a command comes twice; `NoCommandSkipped` is what holds then.
- `NothingIsLost`: requests are refused, batches taken in part, registrations deferred or revoked, files cannot be written;
  but no reply, batch or queue is lost and the process goes on. Server messages of every kind, trimming and filtering are included.
- `ReplyMayBeLost`: replies are lost as well, and requests arrive after the client gave up on them, any
  number and in any order of arrival; but the client is registered, only commands and unsubscribed messages come,
  and the process goes on.
- `RestartsAreClean`: the same network, and processes that are stopped and started again, any number of times. Every end
  of a process is that of a SIGTERM: `Run` has made its final drain and written both files. No read or write of a
  file fails.
- `[]QueueFits` or `RoomForAll`, with one of these two: the bound finds nothing to drop. `QueueFits` says so of a behaviour, whatever the
  instance. `RoomForAll` says it of the constants: a behaviour has no more telemetry and commands than the queue has room for
  (1000 in the code); that this is enough, although every message may be sent any number of times, is `NothingToDrop`, and with restarts `CleanRestartsKeep`.
  The run `delivery` is an instance of `ReplyMayBeLost` and `RoomForAll`. What fails without these conditions is `trim_shifts_positions`: whatever removes a
  message from the queue, or adds one at the front, while the server is ahead of the client's number, moves the messages behind
  it to positions the server ignores. `crash_misnumbers` is what fails with a crash.

### Arguments

*The queue.* `Select(q, K)` is what a loop that keeps the positions `K` leaves; ranks in `K` are shown to run
from 1 to its size without gaps (`RankExists`, `RankInjective`), so it has each kept message once and in its order. An increasing
enumeration of `K` is the only one, and this gives what the proofs of delivery need: the results of a joined, split or
filtered queue are the results of its parts. `BoundIsLoop`: two runs of the loop that agree on the first iteration and in each step agree (`LoopIsUnique`, by the
least iteration at which they would not), and what is kept after iteration `i`, by ranks, is such a run. `BoundDropsTheOldest` compares, in the same way,
the droppable messages that are retained with those behind the `d` oldest.

*Wake-ups.* Only `Decide` enters the select, and it sets the timer from the queue it sees; a
result that arrives later is in `raising` until its token is in the channel; nothing but `Woken` takes the
token, and that leaves the select. So the property is inductive with `TypeOK`.

*Positions.* `NoCommandSkipped` and `NothingInvented` are not inductive: nothing in them says what a reply
contains. `Positions` adds it: the part of the reply still to be processed is the stretch of the
server's messages just before `NextExpectedFromServer`; the answer under way continues at that position; its
acknowledgement is within what the server has; `state.json` is never ahead of what was processed.
The server's log and outbox only grow (`ServerGrows`), which carries `Positions` over its steps; `Acknowledge`
turns the answer into the part to be processed; each dispatch shortens it by one; `SaveState` copies the cursor
when nothing is left; a crash goes back to the file. `CopyBounded` (the copy `persistQueue` took and the file are within the
bound) is the inductive form of `SpoolBounded`.

*Shutdown.* `Spooled`: between `BoundQueue` and `WriteSpool` the queue begins with the copy, and once `Run` has returned
with the file. What a goroutine appends meanwhile goes to the end.

*Commands.* `InOrder`: the commands dispatched are those among the messages of the server before the part of the reply still to be
processed, in their order. `Clean`, that `state.json` has the cursor whenever no process is in the middle of a reply, takes it over restarts.

*Results, nothing lost.* `Delivering` has four parts: `Steady` (the process is up, a batch is under way in the POST only,
and no request is left behind), `InStep` (the server is ahead of the client's number only while its answer is under way, by a part of
the batch), `Once` (a command is running or answered, once, and has been processed), and `Accounted` (the results owed and those taken are those
`SendUrgent` was given). A step of the system
then does one of three things to the pair of what is owed and what is taken: nothing (`OwedKept`), one more
owed at the end (`OwedGrows`), or some at the front of what is owed go to the end of what is taken (`OwedTaken`). These are the steps of
`ResultDelivery` and its stutter, which is the refinement.

*Results, with replies lost.* The server is ahead of the client's number by what it took in exchanges
whose reply was never seen. `Stream` is what the server has acknowledged, followed by the batch and the queue, in front of which the spool
counts while the process is down or starting. No step of the loop, the network or the server
changes it, and `Send` and `SendUrgent` only extend it. `Redelivering` says that the server's log is a beginning of the
stream (`Mirrored`), that every late request is a stretch of the stream at the position it claims, and that neither goes more than a batch beyond the
client's number (`Reached`), so that what the client puts in front of its queue again is what the server may have. So what a late or repeated request adds to the
log is the next stretch of the stream, whichever was first.
`Counted`, with `Once`, bounds the stream, and with it the queue: by the telemetry sent and the results of the commands in the server's outbox, each counted once.

*Results, through a shutdown.* With `Spooled` and `Written` (`state.json` has the state in memory whenever no reply is
being processed) the end of a process cuts the stream behind the file: what is lost is what was queued after the final drain, and
nothing else moves (`StreamShutdown`). The number in `state.json` may be behind the server's, so the file must hold
what the server has beyond it, or the next process would number new messages as ones the server already has. That is `Covered`: the copy
`persistQueue` takes reaches as far as the server and every request on its way, and no request is sent between the copy and the exit.
`Lasting` keeps every message of an old file in the stream until the file is written again. `Load` leaves the stream alone, and the argument
starts over. A crash breaks `Written` and `Covered`, which is `crash_misnumbers`.

*Manager.* `Sound` joins `TypeOK` and `NothingLeaks` with what is true of a goroutine at each stage (`Locals`), with when a command
has a result (`Replies`), whose it is (`Signed`), and that only a shutdown has two (`Single`). A step of one command
leaves the locals of the others alone (`Untouched`), so each proof looks at one goroutine and the results it appends.
`SucceededMeansDone` needs `CarriedAll` besides: the loop over the snaps goes on from a change that is done only, and what snapd
has completed stays so.

*Supervision.* `StaleHasCause` needs the deadline of each phase: `Fresh` bounds the age of the last beat, plus the time left, by
the work, the first backoff, an interval and the stagger, which is below the threshold; `Paced` shows that a run reaches
the healthy-run window before its first tick, which is why the backoff of a plugin that fails now and then
starts over. `Caused` and `Reports` trace the error of the group, the one `run` returns, and the exit code.

*Reporting.* `Writing`: whoever holds the lock of the store will write what the file has but for its own part, as it read the
file under the lock. `Loop`: the exchange has nothing in memory that the file lacks. `Ticking` and `Mirrored` relate a
plugin's memory to the file and to what the server knows once the queue has been delivered (`After`). `NobodyClobbers` and `CrashesAreSafe`
follow from the first step by step.

*Network.* `Following` says when a counter may be behind its sample; with it `counterDelta` gives what passed, and `Balanced` and
`Windowed` are kept by each step.

*Diffs.* Entries created, updated and deleted rebuild a table from any other (`TableRebuilt`), members likewise
(`MembersRebuilt`); no difference is empty unless nothing changed (`NothingToTell`).

### Model-checked only

- Liveness under fairness, which the prover cannot do: `DeliversEventually`, `CommandsAnswered`, `QueueDrains`,
  `ShutdownCompletes`, `Registers`, `HandlersReport`, `CancelHeeded`, `OnlyHungScriptsBlock`, `SnapListConverges`,
  `FailureEndsDaemon`, `WedgeDetected`, `ShutdownBounded`.
- `DeliversOnceInOrder` and `ResultsKept` in instances that mix both regimes, within the limits above.

## 5. Not modelled, and the plan

- In the exchange: the exchange token, the hash of accepted types, subscriptions (fixed before `Run`), `normalizeNumbers`, temporary files of the
  spool.
- bpickle: a sequential codec of strings of bytes. It fails or not, which `Exchange` has; its round trip is what its unit and fuzz
  tests reach.
- Configuration, wizard, flags and confdb: read once at start or asked one question after the other, sequential I/O that keeps no state while the
  daemon runs.
- HTTP, TLS, the socket of snapd, `/proc` and `/sys`: I/O. A call succeeds, fails or does not end.
- Plugins that send one sample after the other (cpu, memory, load, temperature, hardware-info), and three that save in a manner of their
  own: mount-info saves two hashes at once, computer-info sends up to three messages after one save, processor-info remembers before
  it saves. What goes wrong in computer-info is in the list of hazards.
- Of a script: the limit of its output, and its files but for the failure to write them.

Next:

- mount-info, computer-info and processor-info as further kinds of plugins in `Reporting`, with their theorems.
- A smaller hypothesis for `CleanRestartsKeep`: a write of the spool that fails, when a later one succeeds before the process ends.
