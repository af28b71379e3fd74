--------------------------- MODULE NetworkActivity --------------------------
(***************************************************************************)
(* internal/monitor/networkactivity.go and accumulator.go: the traffic of  *)
(* each interface, as the difference of two samples of a kernel counter,   *)
(* gathered for a window and then sent.                                    *)
(*                                                                         *)
(* Time is counted in ticks of the plugin.  One counter of an interface    *)
(* stands for its two, of bytes received and sent, which the code treats   *)
(* alike but that a point is made when either has moved.                   *)
(***************************************************************************)
EXTENDS Integers, FiniteSets

CONSTANTS
  Ifaces,
  Wide,                \* those whose counter has 64 bits; the others have 32
  Wrap,                \* counterWrap, 2^32
  Threshold,           \* counterWrapThreshold, 2^32 - 2^24
  Window,              \* sendInterval, in ticks: 5 minutes, 30 seconds each
  Amounts,             \* what an interface may carry at a time
  Uptime,              \* what the counters may show at the start
  MaxTraffic,          \* bound: what all of them carry
  MaxFaults            \* bound: removals, failed reads and restarts

Absent == -1           \* an interface that is not there, or was not sampled

ASSUME NetworkAssumptions ==
  /\ IsFiniteSet(Ifaces) /\ Wide \subseteq Ifaces
  /\ Wrap \in Nat /\ Threshold \in 1..(Wrap - 1)
  /\ Window \in Nat \ {0}
  /\ Amounts \subseteq 1..(Wrap - 1) /\ Uptime \subseteq 0..(Wrap - 1)
  /\ MaxTraffic \in Nat /\ MaxFaults \in Nat

VARIABLES
  counter,             \* the kernel's counter of each interface
  last,                \* lastRx and lastTx
  points,              \* of the accumulator of each interface: how many, their sum
  age,                 \* ticks since its lastSend; Absent: no accumulator yet
  sent,                \* history: the sum of the points sent
  \* history
  owed,                \* traffic that the points have to account for
  held,                \* ticks since the oldest of its points was added
  trust,               \* what became of the counter, see Trust
  carried, faults      \* for the bounds

vars == <<counter, last, points, age, sent, owed, held, trust, carried, faults>>

\* An interface may have carried more than the code can tell between two samples,
\* or have been created anew: after a sample far from the wrap, or close to it.
Trust == {"plain", "outrun", "created", "created near wrap"}

-----------------------------------------------------------------------------
\* Mutation: a counter that went down has been reset.
DeltaClamped(now, prev) == IF now >= prev THEN now - prev ELSE 0

CounterDelta(now, prev) ==
  IF now >= prev THEN now - prev
  ELSE IF prev >= Threshold THEN now - prev + Wrap ELSE 0

\* The difference that the next sample finds; none for an interface that the last
\* sample did not have.
Delta(i) ==
  IF counter[i] = Absent \/ last[i] = Absent THEN 0
  ELSE CounterDelta(counter[i], last[i])

NoPoints == [count |-> 0, total |-> 0]

Add(ps, d) == [count |-> ps.count + 1, total |-> ps.total + d]

\* What the points made so far account for, and with the one the next sample makes.
Pointed(i) == sent[i] + points[i].total

Reported(i) == Pointed(i) + Delta(i)

Init ==
  /\ counter \in [Ifaces -> Uptime]
  /\ last = counter
  /\ points = [i \in Ifaces |-> NoPoints] /\ age = [i \in Ifaces |-> Absent]
  /\ sent = [i \in Ifaces |-> 0] /\ owed = [i \in Ifaces |-> 0]
  /\ held = [i \in Ifaces |-> 0] /\ trust = [i \in Ifaces |-> "plain"]
  /\ carried = 0 /\ faults = 0

Fault == faults < MaxFaults /\ faults' = faults + 1

-----------------------------------------------------------------------------
(***************************************************************************)
(* The kernel.                                                             *)
(***************************************************************************)

\* A 32-bit counter wraps after a sample that was too far from the wrap, or goes
\* all the way round, before the next sample.
Outruns(i, n) ==
  /\ i \notin Wide /\ last[i] # Absent
  /\ \/ counter[i] + n >= Wrap /\ last[i] < Threshold
     \/ Delta(i) + n >= Wrap

Carry(i) ==
  /\ counter[i] # Absent
  /\ \E n \in Amounts :
       /\ carried + n <= MaxTraffic
       /\ counter' = [counter EXCEPT ![i] = IF i \in Wide THEN @ + n ELSE (@ + n) % Wrap]
       /\ owed' = [owed EXCEPT ![i] = @ + n]
       /\ carried' = carried + n
       /\ trust' = [trust EXCEPT ![i] = IF @ = "plain" /\ Outruns(i, n) THEN "outrun" ELSE @]
  /\ UNCHANGED <<last, points, age, sent, held, faults>>

\* What it has carried since the last sample is lost with it.
Disappears(i) ==
  /\ counter[i] # Absent /\ Fault
  /\ counter' = [counter EXCEPT ![i] = Absent]
  /\ owed' = [owed EXCEPT ![i] = Pointed(i)]
  /\ UNCHANGED <<last, points, age, sent, held, trust, carried>>

Appears(i) ==
  /\ counter[i] = Absent
  /\ counter' = [counter EXCEPT ![i] = 0]
  /\ trust' = [trust EXCEPT ![i] =
                 IF last[i] >= Threshold THEN "created near wrap"
                 ELSE IF @ = "plain" /\ last[i] # Absent THEN "created" ELSE @]
  /\ UNCHANGED <<last, points, age, sent, owed, held, carried, faults>>

-----------------------------------------------------------------------------
(***************************************************************************)
(* The plugin.                                                             *)
(***************************************************************************)

\* The traffic before its first sample is not accounted for.
Baseline(i) == IF last[i] = Absent THEN Pointed(i) ELSE owed[i]

\* The time since the last send is measured when a point is there to be sent:
\* the window may be over or not when its last tick comes.
IsDue(t) == IF t = Window THEN BOOLEAN ELSE {t > Window}

\* Mutation: the window starts anew with every point.
AgeFromPoint(i) == 0

\* A new accumulator starts its window with its first point.
AgeNow(i) == IF age[i] = Absent THEN 0 ELSE age[i] + 1

Later(t) == IF t = Absent \/ t > Window THEN t ELSE t + 1

\* add and drainIfDue, for an interface with traffic.
Accumulate(i, due) ==
  LET ps == Add(points[i], Delta(i)) IN
  IF due THEN [points |-> NoPoints, age |-> 0, held |-> 0, out |-> ps.total]
  ELSE [points |-> ps, age |-> AgeNow(i),
        held |-> IF points[i].count = 0 THEN 0 ELSE held[i] + 1, out |-> 0]

\* The accumulator of an interface without is left alone, whatever it holds.
LeftAlone(i) ==
  [points |-> points[i], age |-> Later(age[i]), held |-> Later(held[i]), out |-> 0]

\* The ticker fires and /proc/net/dev is read; the new sample replaces the last.
Tick ==
  /\ \E due \in [Ifaces -> BOOLEAN] :
       /\ \A i \in Ifaces : due[i] \in IF Delta(i) = 0 THEN {FALSE} ELSE IsDue(AgeNow(i))
       /\ LET acc == [i \in Ifaces |-> IF Delta(i) = 0 THEN LeftAlone(i)
                                       ELSE Accumulate(i, due[i])]
          IN  /\ points' = [i \in Ifaces |-> acc[i].points]
              /\ age' = [i \in Ifaces |-> acc[i].age]
              /\ held' = [i \in Ifaces |-> acc[i].held]
              /\ sent' = [i \in Ifaces |-> sent[i] + acc[i].out]
  /\ last' = counter
  /\ owed' = [i \in Ifaces |-> Baseline(i)]
  /\ UNCHANGED <<counter, trust, carried, faults>>

\* It cannot be read: the next sample is compared with the same one.
ReadFails ==
  /\ Fault
  /\ age' = [i \in Ifaces |-> Later(age[i])]
  /\ held' = [i \in Ifaces |-> IF points[i].count = 0 THEN 0 ELSE Later(held[i])]
  /\ UNCHANGED <<counter, last, points, sent, owed, trust, carried>>

\* The plugin panics, or the daemon is started anew.  The accumulators are gone;
\* what was sampled last is kept only by a plugin that panicked and cannot read
\* its new baseline.
Restart ==
  /\ Fault
  /\ last' \in {counter, last, [i \in Ifaces |-> Absent]}
  /\ points' = [i \in Ifaces |-> NoPoints] /\ age' = [i \in Ifaces |-> Absent]
  /\ held' = [i \in Ifaces |-> 0]
  /\ owed' = [i \in Ifaces |->
                IF last' = last /\ counter[i] # Absent /\ last[i] # Absent
                  THEN owed[i] - points[i].total ELSE sent[i]]
  /\ UNCHANGED <<counter, sent, trust, carried>>

Next ==
  \/ \E i \in Ifaces : Carry(i) \/ Disappears(i) \/ Appears(i)
  \/ Tick \/ ReadFails \/ Restart

Spec == Init /\ [][Next]_vars

-----------------------------------------------------------------------------
\* All traffic is reported once: what was sent, what waits in the accumulators and
\* what the next sample will find add up to what passed, across wraps, failed
\* reads and restarts.  An interface that was created anew may hide traffic, but
\* adds none that never passed.  Nothing is said of a counter that outran the
\* samples, nor of an interface created anew after a sample that was near the
\* wrap or beyond it: there counterDelta takes the reset for a wrap.
TrafficAccounted ==
  \A i \in Ifaces :
    counter[i] # Absent /\ last[i] # Absent =>
      /\ trust[i] = "plain" => Reported(i) = owed[i]
      /\ trust[i] = "created" => Reported(i) <= owed[i]

\* An interface that goes on carrying traffic has its points sent in time: a tick
\* that adds a point leaves none that is older than the window.  (One that falls
\* silent keeps its points until it carries traffic again.)
PointsLeaveInTime ==
  [][\A i \in Ifaces : points'[i].count > points[i].count => held'[i] <= Window]_vars
=============================================================================
