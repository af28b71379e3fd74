-------------------------- MODULE SupervisionProofs -------------------------
(***************************************************************************)
(* What holds of the supervision for every set of plugins, with whatever   *)
(* intervals, and every setting of the backoff and the watchdog.           *)
(***************************************************************************)
EXTENDS Supervision, TLAPS

USE DEF pluginVars, groupVars, mainVars

-----------------------------------------------------------------------------
(***************************************************************************)
(* The inductive invariant.                                                *)
(***************************************************************************)

\* A plugin that failed and may keep its backoff growing: its runs can end before
\* they count as healthy.
Excused(p) ==
  lastErr[p] /\ (p \in SilentFirst \/ Interval[p] < HealthyWindow)

\* What a plugin's phase tells of it.
Placed(p) ==
  /\ phase[p] = "first" => p \in SilentFirst
  /\ phase[p] \in {"panicked", "backoff"} => lastErr[p]
  /\ phase[p] = "over" => Cancelled

\* A run with an interval of at least the healthy-run window has lasted that long
\* when the ticker fires.
Paced(p) ==
  p \notin SilentFirst /\ Interval[p] >= HealthyWindow =>
    /\ phase[p] = "ticks" => ran[p] + left[p] >= HealthyWindow
    /\ phase[p] \in {"work", "panicked"} => ran[p] >= HealthyWindow

\* The longest time between two beats: the rest of a tick's work that panics, the
\* backoff, and a run up to its first tick.
Gap(p) == MaxWork[p] + BackoffInitial + Interval[p] + Stagger[p]

\* How old the last beat is, and will be when the plugin goes on.
Fresh(p) ==
  ~Hung(p) /\ ~Excused(p) =>
    /\ phase[p] = "first" => since[p] = Never
    /\ phase[p] = "work" => since[p] + left[p] <= MaxWork[p]
    /\ phase[p] = "panicked" => since[p] <= MaxWork[p]
    /\ phase[p] = "backoff" => since[p] + left[p] <= MaxWork[p] + BackoffInitial
    /\ phase[p] = "ticks" =>
         since[p] = Never \/ since[p] + left[p] <= Gap(p)
    /\ since[p] <= Gap(p)

Beating == \A p \in Plugins : Placed(p) /\ Paced(p) /\ Fresh(p)

\* Each error has its cause.
Caused ==
  /\ groupErr = "monitor" => \E p \in Plugins : lastErr[p]
  /\ groupErr = "watchdog" => \E p \in Plugins : lastErr[p] \/ Hung(p)

\* What run knows of its group.
Reports ==
  /\ runners["ping"] = "returned" => Cancelled
  /\ err # NoError => err = groupErr
  /\ main # "select" /\ ~sigterm => err # NoError

-----------------------------------------------------------------------------
(***************************************************************************)
(* Arithmetic of the backoff.                                              *)
(***************************************************************************)

\* The backoff stays between its first value and its limit.
LEMMA BackoffRange ==
  ASSUME NEW b \in BackoffInitial..BackoffMax
  PROVE  Doubled(b) \in BackoffInitial..BackoffMax
BY SupervisionAssumptions DEF Doubled, Minimum

LEMMA WaitRange ==
  ASSUME TypeOK, NEW p \in Plugins
  PROVE  Wait(p) \in BackoffInitial..BackoffMax
BY SupervisionAssumptions DEF Wait, TypeOK

\* What a plugin is set to when it starts.
LEMMA StartType ==
  ASSUME NEW p \in Plugins
  PROVE  /\ Start(p) \in {"first", "ticks"} /\ Starting(p) \subseteq Nat
         /\ Start(p) = "first" <=> p \in SilentFirst
         /\ \A t \in Starting(p) : p \in SilentFirst => t <= MaxWork[p]
         /\ \A t \in Starting(p) :
              p \notin SilentFirst =>
                Interval[p] <= t /\ t <= Interval[p] + Stagger[p]
BY SupervisionAssumptions DEF Start, Starting

\* The constants of a plugin.
LEMMA PluginConstants ==
  ASSUME NEW p \in Plugins
  PROVE  /\ Interval[p] \in Nat \ {0} /\ MaxWork[p] \in Nat /\ Stagger[p] \in Nat
         /\ MaxWork[p] < Interval[p]
         /\ BackoffInitial + Stagger[p] <= Interval[p]
         /\ BackoffInitial \in Nat \ {0} /\ BackoffMax \in Nat
         /\ HealthyWindow \in Nat /\ MinThreshold \in Nat
BY SupervisionAssumptions

\* The watchdog waits longer than the longest time between two beats.
LEMMA GapBelowThreshold ==
  ASSUME NEW p \in Plugins
  PROVE  /\ Gap(p) \in Nat /\ Threshold(p) \in Nat
         /\ Gap(p) < Threshold(p)
<1>1. Gap(p) \in Nat /\ Gap(p) < 3 * Interval[p]
  BY PluginConstants DEF Gap
<1>2. Threshold(p) \in Nat /\ Threshold(p) >= 3 * Interval[p]
  BY PluginConstants DEF Threshold
<1> QED BY <1>1, <1>2, PluginConstants

-----------------------------------------------------------------------------
(***************************************************************************)
(* Types.                                                                  *)
(***************************************************************************)
LEMMA TypeInit == Init => TypeOK
<1> SUFFICES ASSUME Init PROVE TypeOK OBVIOUS
<1>1. left \in [Plugins -> Nat]
  <2>1. \A p \in Plugins : left[p] \in Nat BY StartType DEF Init
  <2> QED BY <2>1 DEF Init
<1>2. phase \in [Plugins -> Phases] /\ \A p \in Plugins : phase[p] # "backoff"
  BY StartType DEF Init, Phases
<1>3. /\ ran \in [Plugins -> 0..HealthyWindow]
      /\ backoff \in [Plugins -> BackoffInitial..BackoffMax]
      /\ watch \in 0..WatchdogInterval
  BY SupervisionAssumptions DEF Init
<1> QED BY <1>1, <1>2, <1>3 DEF Init, TypeOK, NoError, Never

\* A step of a plugin.
LEMMA TypePlugin ==
  ASSUME TypeOK, NEW p \in Plugins, PluginStep(p) \/ Hang(p)
  PROVE  TypeOK'
<1>1. ASSUME NEW ph \in Phases, NEW t \in Nat, Goto(p, ph, t),
             ph = "backoff" => t <= BackoffMax
      PROVE  /\ phase' \in [Plugins -> Phases] /\ left' \in [Plugins -> Nat]
             /\ \A q \in Plugins : phase'[q] = "backoff" => left'[q] <= BackoffMax
  BY <1>1 DEF Goto, TypeOK
<1>2. {"first", "ticks", "work", "hung", "panicked", "backoff", "over"}
        \subseteq Phases
  BY DEF Phases
<1>3. CASE FirstWorkEnds(p)
  <2>1. PICK t \in 0..Stagger[p] : Goto(p, "ticks", Interval[p] + t)
    BY <1>3 DEF FirstWorkEnds
  <2>2. Interval[p] + t \in Nat BY PluginConstants
  <2> QED BY <1>1, <1>2, <1>3, <2>1, <2>2 DEF FirstWorkEnds, TypeOK
<1>4. CASE TickerFires(p)
  <2>1. PICK t \in 0..MaxWork[p] : Goto(p, "work", t)
    BY <1>4 DEF TickerFires
  <2>2. since' \in [Plugins -> Nat \cup {Never}]
    BY <1>4 DEF TickerFires, Beat, TypeOK
  <2>3. t \in Nat BY PluginConstants
  <2> QED BY <1>1, <1>2, <1>4, <2>1, <2>2, <2>3 DEF TickerFires, TypeOK
<1>5. CASE WorkEnds(p)
  <2>1. PICK t \in (Interval[p] - MaxWork[p])..Interval[p] : Goto(p, "ticks", t)
    BY <1>5 DEF WorkEnds
  <2>2. t \in Nat BY PluginConstants
  <2> QED BY <1>1, <1>2, <1>5, <2>1, <2>2 DEF WorkEnds, TypeOK
<1>6. CASE Hang(p)
  BY <1>1, <1>2, <1>6 DEF Hang, TypeOK
<1>7. CASE Panic(p)
  <2>1. lastErr' \in [Plugins -> BOOLEAN] BY <1>7 DEF Panic, TypeOK
  <2> QED BY <1>1, <1>2, <1>7, <2>1 DEF Panic, TypeOK
<1>8. CASE BackOff(p)
  <2>1. Wait(p) \in Nat /\ Wait(p) <= BackoffMax
    BY WaitRange, PluginConstants
  <2>2. backoff' \in [Plugins -> BackoffInitial..BackoffMax]
    BY <1>8, WaitRange DEF BackOff, TypeOK
  <2>3. ran' \in [Plugins -> 0..HealthyWindow]
    BY <1>8, PluginConstants DEF BackOff, TypeOK
  <2> QED BY <1>1, <1>2, <1>8, <2>1, <2>2, <2>3 DEF BackOff, TypeOK
<1>9. CASE Restart(p)
  <2>1. PICK t \in Starting(p) : Goto(p, Start(p), t) BY <1>9 DEF Restart
  <2>2. Start(p) \in Phases /\ Start(p) # "backoff" /\ t \in Nat
    BY <1>2, StartType
  <2>3. backoff' \in [Plugins -> BackoffInitial..BackoffMax]
    BY <1>9, BackoffRange DEF Restart, TypeOK
  <2> QED BY <1>1, <1>9, <2>1, <2>2, <2>3 DEF Restart, TypeOK
<1>10. CASE PluginReturns(p)
  BY <1>1, <1>2, <1>10 DEF PluginReturns, TypeOK
<1> QED
  BY <1>3, <1>4, <1>5, <1>6, <1>7, <1>8, <1>9, <1>10 DEF PluginStep

\* A goroutine of the group returns, or run goes on.
LEMMA TypeGroup ==
  ASSUME TypeOK,
         ExchangeStep \/ MonitorReturns \/ PingReturns \/ WatchdogStep \/ MainStep
           \/ Sigterm
  PROVE  TypeOK'
<1>1. ASSUME NEW r \in Runners, NEW e \in {NoError, "exchange", "monitor", "watchdog"},
             Returns(r, e)
      PROVE  TypeOK'
  BY <1>1 DEF Returns, TypeOK
<1>2. {"exchange", "monitor", "ping", "watchdog"} \subseteq Runners BY DEF Runners
<1>3. CASE ExchangeStep
  BY <1>1, <1>2, <1>3
     DEF ExchangeStep, ExchangeStarts, ExchangeReturns, TypeOK
<1>4. CASE MonitorReturns
  BY <1>1, <1>2, <1>4 DEF MonitorReturns, MonitorError
<1>5. CASE PingReturns BY <1>1, <1>2, <1>5 DEF PingReturns
<1>6. CASE WatchdogStep
  <2>1. CASE WatchdogReturns BY <1>1, <1>2, <2>1 DEF WatchdogReturns
  <2>2. CASE WatchdogLooks /\ \E p \in Plugins : Stale(p)
    BY <1>1, <1>2, <2>2 DEF WatchdogLooks, WatchdogError
  <2>3. CASE WatchdogLooks /\ ~\E p \in Plugins : Stale(p)
    <3>1. WatchdogInterval \in 0..WatchdogInterval BY SupervisionAssumptions
    <3> QED BY <2>3, <3>1 DEF WatchdogLooks, TypeOK
  <2> QED BY <1>6, <2>1, <2>2, <2>3 DEF WatchdogStep
<1>7. CASE MainStep \/ Sigterm
  BY <1>7 DEF MainStep, ShutDown, FirstError, HandlersWaited, GroupWaited, Sigterm,
              TypeOK
<1> QED BY <1>3, <1>4, <1>5, <1>6, <1>7

\* Time passes.
LEMMA TypePass == ASSUME TypeOK, Pass PROVE TypeOK'
<1>1. left' \in [Plugins -> Nat]
  BY DEF Pass, TypeOK
<1>2. \A p \in Plugins : phase'[p] = "backoff" => left'[p] <= BackoffMax
  BY PluginConstants DEF Pass, TypeOK
<1>3. ran' \in [Plugins -> 0..HealthyWindow]
  <2>1. \A p \in Plugins : Minimum(ran[p] + 1, HealthyWindow) \in 0..HealthyWindow
    BY PluginConstants DEF Minimum, TypeOK
  <2> QED BY <2>1 DEF Pass, TypeOK
<1>4. since' \in [Plugins -> Nat \cup {Never}]
  <2>1. \A p \in Plugins :
          since[p] # Never =>
            Minimum(since[p] + 1, Threshold(p) + 1) \in Nat
    BY GapBelowThreshold DEF Minimum, TypeOK
  <2> QED BY <2>1 DEF Pass
<1>5. watch' \in 0..WatchdogInterval
  BY SupervisionAssumptions DEF Pass, Due, TypeOK
<1> QED BY <1>1, <1>2, <1>3, <1>4, <1>5 DEF Pass, TypeOK

LEMMA TypeStep == TypeOK /\ [Next]_vars => TypeOK'
<1> SUFFICES ASSUME TypeOK, [Next]_vars PROVE TypeOK' OBVIOUS
<1>1. CASE UNCHANGED vars BY <1>1 DEF vars, TypeOK
<1> QED BY <1>1, TypePlugin, TypeGroup, TypePass DEF Next

\* Every variable keeps its type and every counter its range: the backoff stays
\* between its first value and its limit.
THEOREM TypeCorrect == Spec => []TypeOK
BY TypeInit, TypeStep, PTL DEF Spec

-----------------------------------------------------------------------------
(***************************************************************************)
(* Heartbeats.                                                             *)
(***************************************************************************)
\* The variables of plugin p stay what they are.
Same(p) ==
  /\ phase'[p] = phase[p] /\ left'[p] = left[p] /\ ran'[p] = ran[p]
  /\ lastErr'[p] = lastErr[p] /\ since'[p] = since[p]

\* A plugin whose variables stay is as it was, also if the context is cancelled.
LEMMA BeatingSame ==
  ASSUME NEW p \in Plugins, Placed(p), Paced(p), Fresh(p), Same(p),
         Cancelled => Cancelled'
  PROVE  Placed(p)' /\ Paced(p)' /\ Fresh(p)'
BY DEF Placed, Paced, Fresh, Same, Hung, Excused, Gap

\* A step of one plugin leaves the variables of another alone, and the context.
LEMMA OtherPlugins ==
  ASSUME TypeOK, NEW p \in Plugins, PluginStep(p) \/ Hang(p)
  PROVE  /\ \A q \in Plugins \ {p} : Same(q)
         /\ Cancelled' = Cancelled
BY DEF PluginStep, FirstWorkEnds, TickerFires, Beat, WorkEnds, Hang, Panic, BackOff,
       Restart, PluginReturns, Goto, Same, Cancelled, TypeOK

\* The steps of a plugin keep its beats in time.
LEMMA BeatingPlugin ==
  ASSUME TypeOK, NEW p \in Plugins, Placed(p), Paced(p), Fresh(p),
         PluginStep(p) \/ Hang(p)
  PROVE  Placed(p)' /\ Paced(p)' /\ Fresh(p)'
<1>1. /\ left[p] \in Nat /\ ran[p] \in Nat /\ since[p] \in Nat \cup {Never}
      /\ Never = -1 /\ lastErr[p] \in BOOLEAN
  BY PluginConstants DEF TypeOK, Never
<1>2. Gap(p) \in Nat BY GapBelowThreshold
<1>3. CASE FirstWorkEnds(p)
  <2>1. PICK t \in 0..Stagger[p] : Goto(p, "ticks", Interval[p] + t)
    BY <1>3 DEF FirstWorkEnds
  <2>2. /\ phase[p] = "first" /\ phase'[p] = "ticks"
        /\ left'[p] = Interval[p] + t
        /\ ran'[p] = ran[p] /\ lastErr'[p] = lastErr[p] /\ since'[p] = since[p]
    BY <1>3, <2>1 DEF FirstWorkEnds, Goto, TypeOK
  <2>3. p \in SilentFirst BY <2>2 DEF Placed
  <2> QED BY <1>1, <1>2, <2>2, <2>3 DEF Placed, Paced, Fresh, Hung, Excused, Gap
<1>4. CASE TickerFires(p)
  <2>1. PICK t \in 0..MaxWork[p] : Goto(p, "work", t)
    BY <1>4 DEF TickerFires
  <2>2. /\ phase[p] = "ticks" /\ phase'[p] = "work" /\ left[p] = 0
        /\ left'[p] = t /\ since'[p] = 0
        /\ ran'[p] = ran[p] /\ lastErr'[p] = lastErr[p]
    BY <1>4, <2>1 DEF TickerFires, Beat, Goto, TypeOK
  <2>3. Placed(p)' BY <2>2 DEF Placed
  <2>4. Paced(p)' BY <1>1, <2>2 DEF Paced
  <2>5. Fresh(p)' BY <1>2, <2>1, <2>2, PluginConstants DEF Fresh, Gap
  <2> QED BY <2>3, <2>4, <2>5
<1>5. CASE WorkEnds(p)
  <2>1. PICK t \in (Interval[p] - MaxWork[p])..Interval[p] : Goto(p, "ticks", t)
    BY <1>5 DEF WorkEnds
  <2>2. /\ phase[p] = "work" /\ phase'[p] = "ticks" /\ left[p] = 0
        /\ left'[p] = t /\ t \in Nat /\ since'[p] = since[p]
        /\ ran'[p] = ran[p] /\ lastErr'[p] = lastErr[p]
    BY <1>5, <2>1, PluginConstants DEF WorkEnds, Goto, TypeOK
  <2>3. Placed(p)' BY <2>2 DEF Placed
  <2>4. Paced(p)' BY <1>1, <2>2, PluginConstants DEF Paced
  <2>5. Fresh(p)'
    <3> SUFFICES ASSUME ~Excused(p)
                 PROVE  since[p] + t <= Gap(p) /\ since[p] <= Gap(p)
      BY <2>2 DEF Fresh, Hung, Excused, Gap
    <3>1. since[p] <= MaxWork[p] BY <1>1, <2>2 DEF Fresh, Hung
    <3> QED BY <1>1, <2>1, <2>2, <3>1, PluginConstants DEF Gap
  <2> QED BY <2>3, <2>4, <2>5
<1>6. CASE Hang(p)
  <2>1. phase'[p] = "hung" BY <1>6 DEF Hang, Goto, TypeOK
  <2> QED BY <2>1 DEF Placed, Paced, Fresh, Hung
<1>7. CASE Panic(p)
  <2>1. /\ phase[p] \in {"first", "work"} /\ phase'[p] = "panicked"
        /\ left[p] = 0 /\ since'[p] = since[p] /\ ran'[p] = ran[p] /\ lastErr'[p]
    BY <1>7 DEF Panic, Goto, TypeOK
  <2>2. Placed(p)' BY <2>1 DEF Placed
  <2>3. Paced(p)' BY <2>1 DEF Paced, Placed
  <2>4. Fresh(p)'
    <3> SUFFICES ASSUME p \notin SilentFirst, ~(Interval[p] < HealthyWindow)
                 PROVE  since[p] <= MaxWork[p] /\ since[p] <= Gap(p)
      BY <2>1 DEF Fresh, Hung, Excused, Gap
    <3>1. phase[p] = "work" BY <2>1 DEF Placed
    <3> QED BY <1>1, <2>1, <3>1, PluginConstants DEF Fresh, Hung, Excused, Gap
  <2> QED BY <2>2, <2>3, <2>4
<1>8. CASE BackOff(p)
  <2>1. /\ phase[p] = "panicked" /\ phase'[p] = "backoff" /\ left'[p] = Wait(p)
        /\ since'[p] = since[p] /\ lastErr'[p] = lastErr[p]
    BY <1>8 DEF BackOff, Goto, TypeOK
  <2>2. Placed(p)' BY <2>1 DEF Placed
  <2>3. Paced(p)' BY <2>1 DEF Paced
  <2>4. Fresh(p)'
    <3> SUFFICES ASSUME ~Excused(p)
                 PROVE  /\ since[p] + Wait(p) <= MaxWork[p] + BackoffInitial
                        /\ since[p] <= Gap(p)
      BY <2>1 DEF Fresh, Hung, Excused, Gap
    <3>1. Wait(p) = BackoffInitial
      BY <1>1, <2>1, PluginConstants DEF Wait, Placed, Excused, Paced
    <3>2. since[p] <= MaxWork[p] BY <2>1 DEF Fresh, Hung
    <3> QED BY <1>1, <3>1, <3>2, PluginConstants DEF Gap
  <2> QED BY <2>2, <2>3, <2>4
<1>9. CASE Restart(p)
  <2>1. PICK t \in Starting(p) : Goto(p, Start(p), t) BY <1>9 DEF Restart
  <2>2. /\ phase[p] = "backoff" /\ phase'[p] = Start(p) /\ left[p] = 0
        /\ left'[p] = t /\ t \in Nat /\ since'[p] = since[p]
        /\ ran'[p] = ran[p] /\ lastErr'[p] = lastErr[p] /\ lastErr[p]
    BY <1>9, <2>1, StartType DEF Restart, Goto, TypeOK, Placed
  <2>3. Placed(p)' BY <2>2, StartType DEF Placed
  <2>4. Paced(p)' BY <1>1, <2>1, <2>2, StartType, PluginConstants DEF Paced
  <2>5. Fresh(p)'
    <3> SUFFICES ASSUME ~Excused(p)
                 PROVE  /\ Start(p) = "ticks" /\ since[p] + t <= Gap(p)
                        /\ since[p] <= Gap(p)
      BY <2>2 DEF Fresh, Hung, Excused, Gap
    <3>1. p \notin SilentFirst BY <2>2 DEF Excused
    <3>2. since[p] <= MaxWork[p] + BackoffInitial
      BY <1>1, <2>2 DEF Fresh, Hung
    <3>3. t <= Interval[p] + Stagger[p] BY <2>1, <3>1, StartType
    <3>4. Start(p) = "ticks" BY <3>1, StartType
    <3> QED BY <1>1, <2>2, <3>2, <3>3, <3>4, PluginConstants DEF Gap
  <2> QED BY <2>3, <2>4, <2>5
<1>10. CASE PluginReturns(p)
  <2>1. /\ phase'[p] = "over" /\ since'[p] = since[p] /\ lastErr'[p] = lastErr[p]
        /\ Cancelled /\ phase[p] # "hung"
    BY <1>10 DEF PluginReturns, Goto, TypeOK
  <2>2. Cancelled' BY <2>1, OtherPlugins
  <2> QED BY <2>1, <2>2 DEF Placed, Paced, Fresh, Hung, Excused, Gap
<1> QED
  BY <1>3, <1>4, <1>5, <1>6, <1>7, <1>8, <1>9, <1>10 DEF PluginStep

\* So does time: it stands still when a plugin has something to do.
LEMMA BeatingPass ==
  ASSUME TypeOK, Pass, NEW p \in Plugins, Placed(p), Paced(p), Fresh(p)
  PROVE  Placed(p)' /\ Paced(p)' /\ Fresh(p)'
<1>1. /\ left[p] \in Nat /\ ran[p] \in Nat /\ since[p] \in Nat \cup {Never}
      /\ Never = -1 /\ ran[p] <= HealthyWindow
  BY PluginConstants DEF TypeOK, Never
<1>2. Gap(p) \in Nat /\ Threshold(p) \in Nat BY GapBelowThreshold
<1>3. /\ phase' = phase /\ lastErr' = lastErr /\ Cancelled' = Cancelled
      /\ ~Cancelled /\ phase[p] # "panicked" /\ phase[p] # "over"
      /\ phase[p] \in {"first", "ticks", "work", "backoff"} => left[p] > 0
  BY <1>1 DEF Pass, Due, Cancelled, Placed
<1>4. left[p] > 0 => left'[p] = left[p] - 1
  BY DEF Pass
<1>5. /\ ran'[p] >= ran[p] /\ ran'[p] \in Nat
      /\ phase[p] \in {"ticks", "work"} =>
           ran'[p] >= ran[p] + 1 \/ ran'[p] >= HealthyWindow
  BY <1>1, PluginConstants DEF Pass, Minimum
<1>6. /\ since[p] = Never => since'[p] = Never
      /\ since[p] # Never => since'[p] \in Nat /\ since'[p] <= since[p] + 1
  BY <1>1, <1>2 DEF Pass, Minimum
<1>7. Placed(p)' BY <1>3 DEF Placed
<1>8. Paced(p)'
  BY <1>1, <1>3, <1>4, <1>5, PluginConstants DEF Paced, TypeOK, Pass
<1>9. Fresh(p)'
  <2> SUFFICES ASSUME ~Hung(p), ~Excused(p)
               PROVE  /\ phase[p] = "first" => since'[p] = Never
                      /\ phase[p] = "work" => since'[p] + left'[p] <= MaxWork[p]
                      /\ phase[p] = "backoff" =>
                           since'[p] + left'[p] <= MaxWork[p] + BackoffInitial
                      /\ phase[p] = "ticks" =>
                           since'[p] = Never \/ since'[p] + left'[p] <= Gap(p)
                      /\ since'[p] <= Gap(p)
    BY <1>3 DEF Fresh, Hung, Excused, Gap
  <2>1. CASE since[p] = Never
    BY <1>1, <1>2, <1>3, <1>4, <1>6, <2>1, PluginConstants DEF Fresh
  <2>2. CASE since[p] # Never
    <3>1. phase[p] \in {"work", "backoff", "ticks"}
      BY <1>3, <2>2 DEF Fresh, TypeOK, Phases, Hung
    <3>2. since'[p] + left'[p] <= since[p] + left[p] /\ left'[p] \in Nat
      BY <1>1, <1>3, <1>4, <1>6, <2>2, <3>1
    <3> QED
      BY <1>1, <1>2, <1>6, <2>2, <3>1, <3>2, PluginConstants DEF Fresh, Gap
  <2> QED BY <2>1, <2>2
<1> QED BY <1>7, <1>8, <1>9

\* What is not a plugin's step leaves the plugins alone, and a cancelled context
\* stays so.
LEMMA GroupLeavesPlugins ==
  ASSUME TypeOK,
         \/ ExchangeStep \/ MonitorReturns \/ PingReturns \/ WatchdogStep
         \/ MainStep \/ Sigterm \/ UNCHANGED vars
  PROVE  /\ \A p \in Plugins : Same(p)
         /\ Cancelled => Cancelled'
         /\ groupErr # NoError => groupErr' = groupErr
<1>1. CASE ExchangeStep \/ MonitorReturns \/ PingReturns \/ WatchdogStep
  <2>1. /\ UNCHANGED <<pluginVars, sigterm>>
        /\ groupErr # NoError => groupErr' = groupErr
    BY <1>1 DEF ExchangeStep, ExchangeStarts, ExchangeReturns, MonitorReturns,
                PingReturns, WatchdogStep, WatchdogLooks, WatchdogReturns, Returns
  <2> QED BY <2>1 DEF Same, Cancelled
<1>2. CASE MainStep \/ Sigterm \/ UNCHANGED vars
  BY <1>2 DEF MainStep, ShutDown, HandlersWaited, GroupWaited, Sigterm, vars, Same,
              Cancelled
<1> QED BY <1>1, <1>2

LEMMA BeatingStep == TypeOK /\ Beating /\ [Next]_vars => Beating'
<1> SUFFICES ASSUME TypeOK, Beating, [Next]_vars PROVE Beating' OBVIOUS
<1>1. ASSUME NEW q \in Plugins, PluginStep(q) \/ Hang(q) PROVE Beating'
  <2> SUFFICES ASSUME NEW p \in Plugins
               PROVE  Placed(p)' /\ Paced(p)' /\ Fresh(p)'
    BY DEF Beating
  <2>1. Placed(p) /\ Paced(p) /\ Fresh(p) BY DEF Beating
  <2>2. CASE p = q BY <1>1, <2>1, <2>2, BeatingPlugin
  <2>3. CASE p # q BY <1>1, <2>1, <2>3, OtherPlugins, BeatingSame
  <2> QED BY <2>2, <2>3
<1>2. CASE Pass BY <1>2, BeatingPass DEF Beating
<1>3. CASE \/ ExchangeStep \/ MonitorReturns \/ PingReturns \/ WatchdogStep
           \/ MainStep \/ Sigterm \/ UNCHANGED vars
  BY <1>3, GroupLeavesPlugins, BeatingSame DEF Beating
<1> QED BY <1>1, <1>2, <1>3 DEF Next

\* At the start nothing has beaten.
LEMMA BeatingInit == Init => Beating
<1> SUFFICES ASSUME Init, NEW p \in Plugins PROVE Placed(p) /\ Paced(p) /\ Fresh(p)
  BY DEF Beating
<1>1. /\ phase[p] = Start(p) /\ left[p] \in Starting(p) /\ ran[p] = 0
      /\ lastErr[p] = FALSE /\ since[p] = Never /\ Never = -1
  BY DEF Init, Never
<1>2. Placed(p) BY <1>1, StartType DEF Placed
<1>3. Paced(p) BY <1>1, StartType, PluginConstants DEF Paced
<1>4. Fresh(p)
  BY <1>1, StartType, GapBelowThreshold DEF Fresh
<1> QED BY <1>2, <1>3, <1>4

\* A plugin that is stale is hung or excused.
LEMMA StaleMeans ==
  ASSUME TypeOK, Beating, NEW p \in Plugins, Stale(p)
  PROVE  Hung(p) \/ Excused(p)
<1>1. since[p] \in Nat \cup {-1} BY DEF TypeOK, Never
<1>2. ~Hung(p) /\ ~Excused(p) => since[p] <= Gap(p) BY DEF Beating, Fresh
<1> QED BY <1>1, <1>2, GapBelowThreshold DEF Stale

\* The watchdog has no false alarm, whatever the number of plugins, their
\* intervals and the order of what they do: Heartbeat.StaleSources names a plugin
\* only if its goroutine hangs, or if it failed and its runs can be too short for
\* runPlugin to reset the backoff.
THEOREM NoFalseAlarm == Spec => []StaleHasCause
<1>1. Spec => [](TypeOK /\ Beating)
  BY TypeInit, TypeStep, BeatingInit, BeatingStep, PTL DEF Spec
<1>2. TypeOK /\ Beating => StaleHasCause
  BY StaleMeans DEF StaleHasCause, Excused
<1> QED BY <1>1, <1>2, PTL

-----------------------------------------------------------------------------
(***************************************************************************)
(* The exit code.                                                          *)
(***************************************************************************)

\* A plugin that failed or hangs is one for good.
LEMMA CausesStay ==
  ASSUME TypeOK, [Next]_vars, NEW p \in Plugins
  PROVE  (lastErr[p] => lastErr'[p]) /\ (Hung(p) => Hung(p)')
<1>1. ASSUME NEW q \in Plugins, PluginStep(q) \/ Hang(q)
      PROVE  (lastErr[p] => lastErr'[p]) /\ (Hung(p) => Hung(p)')
  BY <1>1 DEF PluginStep, FirstWorkEnds, TickerFires, WorkEnds, Hang, Panic, BackOff,
              Restart, PluginReturns, Goto, Hung, TypeOK
<1>2. CASE Pass BY <1>2 DEF Pass, Hung
<1> QED BY <1>1, <1>2, GroupLeavesPlugins DEF Next, Same, Hung

\* An error of the group gets its cause when it is returned, and keeps it.
LEMMA CausedStep == TypeOK /\ Beating /\ Caused /\ [Next]_vars => Caused'
<1> SUFFICES ASSUME TypeOK, Beating, Caused, [Next]_vars PROVE Caused' OBVIOUS
<1>1. CASE groupErr' = groupErr
  BY <1>1, CausesStay DEF Caused
<1>2. CASE groupErr' # groupErr
  <2>1. ExchangeStep \/ MonitorReturns \/ PingReturns \/ WatchdogStep
    BY <1>2 DEF Next, PluginStep, FirstWorkEnds, TickerFires, WorkEnds, Hang, Panic,
                BackOff, Restart, PluginReturns, Pass, MainStep, ShutDown,
                HandlersWaited, GroupWaited, Sigterm, vars
  <2>2. \A p \in Plugins : Same(p) BY <2>1, GroupLeavesPlugins
  <2>3. CASE MonitorReturns
    <3>1. groupErr' = "monitor" => \E p \in Plugins : lastErr[p]
      BY <1>2, <2>3 DEF MonitorReturns, MonitorError, Returns, NoError
    <3>2. groupErr' # "watchdog"
      BY <1>2, <2>3 DEF MonitorReturns, MonitorError, Returns, NoError
    <3> QED BY <2>2, <3>1, <3>2 DEF Caused, Same
  <2>4. CASE WatchdogStep
    <3>1. groupErr' = "watchdog" /\ \E p \in Plugins : Stale(p)
      BY <1>2, <2>4 DEF WatchdogStep, WatchdogLooks, WatchdogReturns, WatchdogError,
                        Returns, NoError
    <3>2. \E p \in Plugins : lastErr[p] \/ Hung(p)
      BY <3>1, StaleMeans DEF Excused
    <3> QED BY <2>2, <3>1, <3>2 DEF Caused, Same, Hung
  <2>5. CASE ExchangeStep \/ PingReturns
    <3>1. groupErr' \notin {"monitor", "watchdog"}
      BY <1>2, <2>5 DEF ExchangeStep, ExchangeStarts, ExchangeReturns, PingReturns,
                        Returns, NoError
    <3> QED BY <3>1 DEF Caused
  <2> QED BY <2>1, <2>3, <2>4, <2>5
<1> QED BY <1>1, <1>2

\* Only a cancelled context ends the ping loop, so a group that is done without a
\* signal has an error, and run returns it.
LEMMA ReportsStep == TypeOK /\ Reports /\ [Next]_vars => Reports'
<1> SUFFICES ASSUME TypeOK, Reports, [Next]_vars PROVE Reports' OBVIOUS
<1>1. ASSUME NEW p \in Plugins, PluginStep(p) \/ Hang(p) PROVE Reports'
  <2>1. UNCHANGED <<groupVars, sigterm, mainVars>>
    BY <1>1 DEF PluginStep, FirstWorkEnds, TickerFires, WorkEnds, Hang, Panic,
                BackOff, Restart, PluginReturns
  <2> QED BY <2>1 DEF Reports, Cancelled
<1>2. CASE Pass \/ Sigterm \/ UNCHANGED vars
  BY <1>2 DEF Pass, Sigterm, vars, Reports, Cancelled
<1>3. CASE ExchangeStep \/ MonitorReturns \/ PingReturns \/ WatchdogStep
  <2>1. /\ UNCHANGED <<sigterm, mainVars>>
        /\ runners'["ping"] = "returned" => runners["ping"] = "returned" \/ Cancelled
    BY <1>3 DEF ExchangeStep, ExchangeStarts, ExchangeReturns, MonitorReturns,
                PingReturns, WatchdogStep, WatchdogLooks, WatchdogReturns, Returns,
                Runners, TypeOK
  <2>2. /\ Cancelled => Cancelled'
        /\ groupErr # NoError => groupErr' = groupErr
    BY <1>3, GroupLeavesPlugins
  <2> QED BY <2>1, <2>2 DEF Reports
<1>4. CASE MainStep
  <2>1. UNCHANGED <<runners, groupErr, sigterm>>
    BY <1>4 DEF MainStep, ShutDown, HandlersWaited, GroupWaited
  <2>2. Cancelled' = Cancelled BY <2>1 DEF Cancelled
  <2>3. GroupDone => Cancelled BY DEF GroupDone, Runners, Reports
  <2>4. CASE ShutDown
    <3>1. sigterm \/ groupErr # NoError BY <2>3, <2>4 DEF ShutDown, Cancelled
    <3> QED BY <2>1, <2>2, <2>4, <3>1 DEF ShutDown, FirstError, Reports
  <2>5. CASE HandlersWaited
    BY <2>1, <2>2, <2>5 DEF HandlersWaited, Reports
  <2>6. CASE GroupWaited
    <3>1. sigterm \/ groupErr # NoError BY <2>6 DEF GroupWaited, Reports
    <3> QED BY <2>1, <2>2, <2>6, <3>1 DEF GroupWaited, Reports
  <2> QED BY <1>4, <2>4, <2>5, <2>6 DEF MainStep
<1> QED BY <1>1, <1>2, <1>3, <1>4 DEF Next

\* The exit code tells whether the daemon failed and why: without a signal it is
\* never 0, for the ping loop ends with a cancelled context only; and what run
\* returns is the first error of its group, which names a failure or a hang that
\* has happened.
THEOREM ExitCodeIsTrue == Spec => []ExitCodeTells
<1>1. Init => TypeOK /\ Beating /\ Caused /\ Reports
  <2> SUFFICES ASSUME Init PROVE Caused /\ Reports BY TypeInit, BeatingInit
  <2> QED BY DEF Init, Caused, Reports, Runners, NoError
<1>2. Spec => [](TypeOK /\ Beating /\ Caused /\ Reports)
  BY <1>1, TypeStep, BeatingStep, CausedStep, ReportsStep, PTL DEF Spec
<1>3. Caused /\ Reports => ExitCodeTells
  <2> SUFFICES ASSUME Caused, Reports, main = "exit" PROVE ExitCodeTells
    BY DEF ExitCodeTells
  <2>1. ExitCode = 1 <=> err # NoError BY DEF ExitCode
  <2> QED BY <2>1 DEF Caused, Reports, ExitCodeTells, NoError
<1> QED BY <1>2, <1>3, PTL
=============================================================================
