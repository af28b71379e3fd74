----------------------------- MODULE Supervision ----------------------------
(***************************************************************************)
(* What keeps the daemon running, or ends it: the goroutine of each monitor*)
(* plugin with its restarts (internal/monitor/runner.go), the heartbeats,  *)
(* the watchdog that reads them, and the errgroup, shutdown and exit code  *)
(* of run in cmd/landscape-client-core/main.go.                            *)
(*                                                                         *)
(* Time is discrete and is counted down: a deadline is the time left.  It  *)
(* stands still while something is due.  What a plugin does in a tick is   *)
(* left out but for how long it takes, and for a panic or a call that never*)
(* comes back: the Run methods of the plugins return no errors.            *)
(***************************************************************************)
EXTENDS Integers, FiniteSets

CONSTANTS
  Plugins,
  Interval,            \* of each plugin
  SilentFirst,         \* plugins that work once before their first tick, and
                       \* beat at ticks only: computer-info, hardware-info,
                       \* snaps, processor-info
  MaxWork,             \* bound: how long the work of a tick takes, of each
  Stagger,             \* staggerFor: how late the first tick of each may come
  BackoffInitial,      \* runnerInitialBackoff, 1 s
  BackoffMax,          \* runnerMaxBackoff, 300 s
  HealthyWindow,       \* runnerHealthyRunWindow, 30 s
  MinThreshold,        \* of watchdogThreshold, 120 s
  WatchdogInterval,    \* 30 s
  Hanging              \* plugins whose work may never come back

ASSUME SupervisionAssumptions ==
  /\ IsFiniteSet(Plugins)
  /\ Interval \in [Plugins -> Nat \ {0}]
  /\ SilentFirst \subseteq Plugins /\ Hanging \subseteq Plugins
  /\ MaxWork \in [Plugins -> Nat] /\ Stagger \in [Plugins -> Nat]
  /\ \A p \in Plugins : MaxWork[p] < Interval[p]
  /\ BackoffInitial \in Nat \ {0}
     \* a second, and a tenth of an interval of at least 15 s
  /\ \A p \in Plugins : BackoffInitial + Stagger[p] <= Interval[p]
  /\ BackoffMax \in Nat /\ BackoffMax >= BackoffInitial
  /\ HealthyWindow \in Nat /\ MinThreshold \in Nat
  /\ WatchdogInterval \in Nat \ {0}

VARIABLES
  \* runPlugin, one goroutine for each plugin
  phase,               \* where it is
  left,                \* time left until it goes on
  ran,                 \* how long this run of the plugin has gone on
  backoff,             \* wait before the next restart
  lastErr,             \* a run has ended with an error
  \* Heartbeat
  since,               \* time since the last beat
  \* the errgroup of run
  watch,               \* time left until the watchdog looks
  runners,             \* the goroutines of the group: starting, running, returned
  groupErr,            \* the first error one of them returned
  \* run itself
  sigterm,             \* the context of run is cancelled
  main,                \* where it is
  reported,            \* it has received from groupDone
  err                  \* what it returns

pluginVars == <<phase, left, ran, backoff, lastErr, since>>
groupVars  == <<watch, runners, groupErr>>
mainVars   == <<main, reported, err>>

vars == <<pluginVars, groupVars, sigterm, mainVars>>

-----------------------------------------------------------------------------
Never == -1            \* a source that has never beaten

NoError == "none"

Runners == {"exchange", "monitor", "ping", "watchdog"}

Phases ==
  { "first",           \* the work before the first tick
    "ticks",           \* waits for the ticker
    "work",            \* in the work of a tick
    "hung",            \* in a call that does not come back
    "panicked",        \* the run has ended
    "backoff",         \* waits before the restart
    "over" }           \* runPlugin has returned

Minimum(a, b) == IF a < b THEN a ELSE b

\* watchdogThreshold
Threshold(p) == IF 3 * Interval[p] < MinThreshold THEN MinThreshold
                ELSE 3 * Interval[p]

\* StaleSources: a source that has beaten, longer ago than its threshold.
Stale(p) == since[p] > Threshold(p)

\* Mutation: the goroutines run with the context of run.
CancelledBySignal == sigterm

\* groupCtx: cancelled with the context of run, or by the first error.
Cancelled == sigterm \/ groupErr # NoError

\* A plugin starts: what it does up to its ticker.
Start(p) == IF p \in SilentFirst THEN "first" ELSE "ticks"

\* How long that takes: the ticker starts after a random delay.
Starting(p) == IF p \in SilentFirst THEN 0..MaxWork[p]
               ELSE Interval[p]..(Interval[p] + Stagger[p])

Init ==
  /\ phase = [p \in Plugins |-> Start(p)]
  /\ left \in [Plugins -> UNION {Starting(p) : p \in Plugins}]
  /\ \A p \in Plugins : left[p] \in Starting(p)
  /\ ran = [p \in Plugins |-> 0]
  /\ backoff = [p \in Plugins |-> BackoffInitial]
  /\ lastErr = [p \in Plugins |-> FALSE]
  /\ since = [p \in Plugins |-> Never]
  /\ watch = WatchdogInterval
  /\ runners = [r \in Runners |-> IF r = "exchange" THEN "starting" ELSE "running"]
  /\ groupErr = NoError
  /\ sigterm = FALSE
  /\ main = "select" /\ reported = FALSE /\ err = NoError

-----------------------------------------------------------------------------
(***************************************************************************)
(* A plugin.                                                               *)
(***************************************************************************)
Goto(p, ph, t) ==
  /\ phase' = [phase EXCEPT ![p] = ph]
  /\ left' = [left EXCEPT ![p] = t]

\* The work before the first tick is done; the ticker starts, a little late.
FirstWorkEnds(p) ==
  /\ phase[p] = "first" /\ left[p] = 0
  /\ \E t \in 0..Stagger[p] : Goto(p, "ticks", Interval[p] + t)
  /\ UNCHANGED <<ran, backoff, lastErr, since, groupVars, sigterm, mainVars>>

\* Beat
Beat(p) == [since EXCEPT ![p] = 0]

\* The ticker fires: the plugin beats, then works.
TickerFires(p) ==
  /\ phase[p] = "ticks" /\ left[p] = 0
  /\ since' = Beat(p)
  /\ \E t \in 0..MaxWork[p] : Goto(p, "work", t)
  /\ UNCHANGED <<ran, backoff, lastErr, groupVars, sigterm, mainVars>>

\* The ticker has gone on during the work.
WorkEnds(p) ==
  /\ phase[p] = "work" /\ left[p] = 0
  /\ \E t \in (Interval[p] - MaxWork[p])..Interval[p] : Goto(p, "ticks", t)
  /\ UNCHANGED <<ran, backoff, lastErr, since, groupVars, sigterm, mainVars>>

\* The work blocks, in a system call for instance, and heeds no context.
Hang(p) ==
  /\ p \in Hanging /\ phase[p] \in {"first", "work"}
  /\ Goto(p, "hung", 0)
  /\ UNCHANGED <<ran, backoff, lastErr, since, groupVars, sigterm, mainVars>>

\* The work panics: the recovered panic is the error of the run.
Panic(p) ==
  /\ phase[p] \in {"first", "work"} /\ left[p] = 0
  /\ lastErr' = [lastErr EXCEPT ![p] = TRUE]
  /\ Goto(p, "panicked", 0)
  /\ UNCHANGED <<ran, backoff, since, groupVars, sigterm, mainVars>>

\* Mutation: the backoff only grows.
WaitNeverReset(p) == backoff[p]

\* The wait before the restart: the initial one after a run that was long enough.
Wait(p) == IF ran[p] >= HealthyWindow THEN BackoffInitial ELSE backoff[p]

\* Mutation: the backoff has no limit.
DoubledAlways(b) == 2 * b

\* The backoff after this one.
Doubled(b) == Minimum(2 * b, BackoffMax)

\* The run has ended and the context is not cancelled.
BackOff(p) ==
  /\ phase[p] = "panicked" /\ ~Cancelled
  /\ Goto(p, "backoff", Wait(p))
  /\ backoff' = [backoff EXCEPT ![p] = Wait(p)]
  /\ ran' = [ran EXCEPT ![p] = 0]
  /\ UNCHANGED <<lastErr, since, groupVars, sigterm, mainVars>>

\* The wait is over: twice as long the next time, and a new run.
Restart(p) ==
  /\ phase[p] = "backoff" /\ left[p] = 0
  /\ backoff' = [backoff EXCEPT ![p] = Doubled(@)]
  /\ \E t \in Starting(p) : Goto(p, Start(p), t)
  /\ UNCHANGED <<ran, lastErr, since, groupVars, sigterm, mainVars>>

\* With its context cancelled a plugin ends: in the select of the ticker or of
\* the backoff, or when its work, which has the same context, is over.
PluginReturns(p) ==
  /\ Cancelled /\ phase[p] \notin {"hung", "over"}
  /\ Goto(p, "over", 0)
  /\ UNCHANGED <<ran, backoff, lastErr, since, groupVars, sigterm, mainVars>>

-----------------------------------------------------------------------------
(***************************************************************************)
(* The errgroup.                                                           *)
(***************************************************************************)

\* A goroutine of the group returns: the first error cancels its context.
Returns(r, e) ==
  /\ runners' = [runners EXCEPT ![r] = "returned"]
  /\ groupErr' = IF groupErr = NoError THEN e ELSE groupErr
  /\ UNCHANGED <<pluginVars, watch, sigterm, mainVars>>

\* The exchange loads state.json, or fails to.
ExchangeStarts ==
  /\ runners["exchange"] = "starting"
  /\ \/ /\ runners' = [runners EXCEPT !["exchange"] = "running"]
        /\ UNCHANGED <<pluginVars, watch, groupErr, sigterm, mainVars>>
     \/ Returns("exchange", "exchange")

\* Once loaded it has no error to return, like the ping loop.
ExchangeReturns ==
  /\ runners["exchange"] = "running" /\ Cancelled
  /\ Returns("exchange", NoError)

PingReturns ==
  /\ runners["ping"] = "running" /\ Cancelled
  /\ Returns("ping", NoError)

\* Runner.Run names the plugins that failed at any time.
MonitorError ==
  IF \E p \in Plugins : lastErr[p] THEN "monitor" ELSE NoError

\* Runner.Run waits for every plugin.
MonitorReturns ==
  /\ runners["monitor"] = "running"
  /\ \A p \in Plugins : phase[p] = "over"
  /\ Returns("monitor", MonitorError)

\* Mutation: the watchdog only logs.
WatchdogErrorLogged == NoError

\* The error of a watchdog that has found a stale source.
WatchdogError == "watchdog"

\* The watchdog looks at the heartbeats.
WatchdogLooks ==
  /\ runners["watchdog"] = "running" /\ watch = 0
  /\ IF \E p \in Plugins : Stale(p)
       THEN Returns("watchdog", WatchdogError)
       ELSE /\ watch' = WatchdogInterval
            /\ UNCHANGED <<pluginVars, runners, groupErr, sigterm, mainVars>>

WatchdogReturns ==
  /\ runners["watchdog"] = "running" /\ Cancelled
  /\ Returns("watchdog", NoError)

\* groupDone: eg.Wait returns when all of them have.
GroupDone == \A r \in Runners : runners[r] = "returned"

-----------------------------------------------------------------------------
(***************************************************************************)
(* run, from its first select on.                                          *)
(***************************************************************************)
Sigterm ==
  /\ ~sigterm /\ main = "select"
  /\ sigterm' = TRUE
  /\ UNCHANGED <<pluginVars, groupVars, mainVars>>

\* Mutation: what the group reports in the first select is logged only.
FirstErrorLogged == NoError

\* What the group reports in the first select.
FirstError == groupErr

\* The first select: the context is done, or the whole group is.
ShutDown ==
  /\ main = "select"
  /\ \/ sigterm /\ UNCHANGED <<reported, err>>
     \/ GroupDone /\ reported' = TRUE /\ err' = FirstError
  /\ main' = "handlers"
  /\ UNCHANGED <<pluginVars, groupVars, sigterm>>

\* WaitWithTimeout: the handlers have ended, or 5 seconds are over.
HandlersWaited ==
  /\ main = "handlers"
  /\ main' = IF err = NoError THEN "group" ELSE "exit"
  /\ UNCHANGED <<pluginVars, groupVars, sigterm, reported, err>>

\* Mutation: the second select has no timeout.
GroupAwaited ==
  /\ main = "group"
  /\ GroupDone /\ ~reported /\ reported' = TRUE /\ err' = groupErr
  /\ main' = "exit"
  /\ UNCHANGED <<pluginVars, groupVars, sigterm>>

\* The second select: the group reports, once, or 5 seconds are over.
GroupWaited ==
  /\ main = "group"
  /\ \/ GroupDone /\ ~reported /\ reported' = TRUE /\ err' = groupErr
     \/ UNCHANGED <<reported, err>>
  /\ main' = "exit"
  /\ UNCHANGED <<pluginVars, groupVars, sigterm>>

ExitCode == IF err = NoError THEN 0 ELSE 1

-----------------------------------------------------------------------------
\* Something is due now.
Due ==
  \/ \E p \in Plugins :
       \/ phase[p] = "panicked"
       \/ phase[p] \in {"first", "ticks", "work", "backoff"} /\ left[p] = 0
  \/ watch = 0
  \/ runners["exchange"] = "starting"

\* Time passes; it is of no interest once everything is being stopped.
Pass ==
  /\ ~Cancelled /\ ~Due
  /\ left' = [p \in Plugins |-> IF left[p] > 0 THEN left[p] - 1 ELSE 0]
  /\ ran' = [p \in Plugins |->
               IF phase[p] \in {"backoff", "hung"} THEN ran[p]
               ELSE Minimum(ran[p] + 1, HealthyWindow)]
  /\ since' = [p \in Plugins |->
                 IF since[p] = Never THEN Never
                 ELSE Minimum(since[p] + 1, Threshold(p) + 1)]
  /\ watch' = watch - 1
  /\ UNCHANGED <<phase, backoff, lastErr, runners, groupErr, sigterm, mainVars>>

PluginStep(p) ==
  \/ FirstWorkEnds(p) \/ TickerFires(p) \/ WorkEnds(p) \/ Panic(p)
  \/ BackOff(p) \/ Restart(p) \/ PluginReturns(p)

ExchangeStep == ExchangeStarts \/ ExchangeReturns

WatchdogStep == WatchdogLooks \/ WatchdogReturns

MainStep == ShutDown \/ HandlersWaited \/ GroupWaited

Next ==
  \/ \E p \in Plugins : PluginStep(p) \/ Hang(p)
  \/ ExchangeStep \/ MonitorReturns \/ PingReturns \/ WatchdogStep
  \/ MainStep
  \/ Pass \/ Sigterm

Spec == Init /\ [][Next]_vars

\* Every goroutine that can go on does, and time passes.  Nothing makes a plugin
\* hang or the service manager stop the daemon.
Fairness ==
  /\ \A p \in Plugins : WF_vars(PluginStep(p))
  /\ WF_vars(ExchangeStep) /\ WF_vars(MonitorReturns)
  /\ WF_vars(PingReturns) /\ WF_vars(WatchdogStep)
  /\ WF_vars(MainStep) /\ WF_vars(Pass)

FairSpec == Spec /\ Fairness

-----------------------------------------------------------------------------
\* The types, with the ranges of the counters: no run of a plugin outlives the
\* wait that runPlugin has for it, and no wait passes BackoffMax.
TypeOK ==
  /\ phase \in [Plugins -> Phases]
  /\ left \in [Plugins -> Nat]
  /\ \A p \in Plugins : phase[p] = "backoff" => left[p] <= BackoffMax
  /\ ran \in [Plugins -> 0..HealthyWindow]
  /\ backoff \in [Plugins -> BackoffInitial..BackoffMax]
  /\ lastErr \in [Plugins -> BOOLEAN]
  /\ since \in [Plugins -> Nat \cup {Never}]
  /\ watch \in 0..WatchdogInterval
  /\ runners \in [Runners -> {"starting", "running", "returned"}]
  /\ groupErr \in {NoError, "exchange", "monitor", "watchdog"}
  /\ sigterm \in BOOLEAN /\ reported \in BOOLEAN
  /\ main \in {"select", "handlers", "group", "exit"}
  /\ err \in {NoError, "exchange", "monitor", "watchdog"}

Hung(p) == phase[p] = "hung"

\* The watchdog has no false alarms: a plugin that is stale is wedged, or has
\* failed in runs so short that its backoff was never reset, which is possible
\* only for an interval below the healthy-run window or for a plugin that works
\* before its first tick.
StaleHasCause ==
  \A p \in Plugins : ~Cancelled /\ Stale(p) =>
    \/ Hung(p)
    \/ lastErr[p] /\ (p \in SilentFirst \/ Interval[p] < HealthyWindow)

\* The exit code tells the service manager the truth: without a signal the
\* daemon exits with 1, and it exits with 1 only for the first error of its group,
\* which has its cause in a plugin or in state.json.
ExitCodeTells ==
  main = "exit" =>
    /\ ~sigterm => ExitCode = 1
    /\ ExitCode = 1 =>
         /\ err = groupErr
         /\ err = "monitor" => \E p \in Plugins : lastErr[p]
         /\ err = "watchdog" => \E p \in Plugins : lastErr[p] \/ Hung(p)

\* The four goroutines live and die together: when one has returned the daemon
\* exits, unless a wedged plugin holds it up.
FailureEndsDaemon ==
  (\E r \in Runners : runners[r] = "returned")
    ~> (main = "exit" \/ \E p \in Plugins : Hung(p))

\* The watchdog finds a plugin that was wedged after it had beaten.
WedgeDetected ==
  \A p \in Plugins : (Hung(p) /\ since[p] # Never) ~> Cancelled

\* A signal ends the daemon, whatever its plugins do.
ShutdownBounded == sigterm ~> (main = "exit")

\* What run says of its watchdog, main.go 254-257: "Exiting non-zero lets
\* snapd's restart-condition recover a wedged daemon."
WedgeEndsDaemon ==
  \A p \in Plugins : (Hung(p) /\ since[p] # Never) ~> (main = "exit")
=============================================================================
