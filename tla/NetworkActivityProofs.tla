------------------------ MODULE NetworkActivityProofs -----------------------
(***************************************************************************)
(* That no traffic is reported twice or forgotten, and that points leave in*)
(* time, for every wrap, threshold and window, any number of interfaces,   *)
(* any traffic and any number of failures.                                 *)
(***************************************************************************)
EXTENDS NetworkActivity, TLAPS

Points == [count : Nat, total : Int]

Typed ==
  /\ counter \in [Ifaces -> {Absent} \cup Nat] /\ last \in [Ifaces -> {Absent} \cup Nat]
  /\ \A i \in Ifaces \ Wide : counter[i] < Wrap /\ last[i] < Wrap
  /\ points \in [Ifaces -> Points]
  /\ age \in [Ifaces -> {Absent} \cup Nat] /\ held \in [Ifaces -> Nat]
  /\ sent \in [Ifaces -> Int] /\ owed \in [Ifaces -> Int]
  /\ trust \in [Ifaces -> Trust]

\* A counter that can be trusted is not behind the sample, or has wrapped since; one
\* of 64 bits that is behind was created anew after a sample below the threshold.
Following(i) ==
  counter[i] # Absent /\ last[i] # Absent =>
    /\ trust[i] = "plain" => \/ counter[i] >= last[i]
                             \/ i \notin Wide /\ last[i] >= Threshold
    /\ trust[i] = "created" /\ i \in Wide => \/ counter[i] >= last[i]
                                             \/ last[i] < Threshold

\* Nothing is owed of an interface that is not there but its points; of the others
\* what TrafficAccounted says.
Balanced(i) ==
  /\ counter[i] = Absent => owed[i] = Pointed(i)
  /\ counter[i] # Absent /\ last[i] # Absent =>
       /\ trust[i] = "plain" => Reported(i) = owed[i]
       /\ trust[i] = "created" => Reported(i) <= owed[i]

\* Points are no older than the window of their accumulator.
Windowed(i) == points[i].count > 0 => age[i] # Absent /\ held[i] <= age[i]

Sound == Typed /\ \A i \in Ifaces : Following(i) /\ Balanced(i) /\ Windowed(i)

-----------------------------------------------------------------------------
(***************************************************************************)
(* counterDelta.                                                           *)
(***************************************************************************)
LEMMA Width == /\ Wrap \in Nat /\ Threshold \in Nat /\ Threshold < Wrap /\ Threshold > 0
               /\ \A n \in Amounts : n \in Nat /\ n > 0 /\ n < Wrap
               /\ \A n \in Uptime : n \in Nat /\ n < Wrap
               /\ Window \in Nat /\ Window > 0
               /\ Absent = -1 /\ \A n \in Nat : n # Absent
BY NetworkAssumptions DEF Absent

\* A difference is a number, and no difference is found twice.
LEMMA DeltaType ==
  ASSUME NEW now \in Int, NEW prev \in Int
  PROVE  /\ CounterDelta(now, prev) \in Int
         /\ CounterDelta(now, now) = 0
BY Width DEF CounterDelta

\* What a counter of 64 bits carries is found in full when it is not behind the sample,
\* and never more than that.
LEMMA WideCarries ==
  ASSUME NEW now \in Nat, NEW prev \in Nat, NEW n \in Nat, n > 0
  PROVE  /\ now >= prev => CounterDelta(now + n, prev) = CounterDelta(now, prev) + n
         /\ prev < Threshold => CounterDelta(now + n, prev) <= CounterDelta(now, prev) + n
BY Width DEF CounterDelta

\* The counter of 32 bits after it has carried n.
Wrapped(now, n) == (now + n) % Wrap

LEMMA WrappedIs ==
  ASSUME NEW now \in Nat, now < Wrap, NEW n \in Nat, n < Wrap
  PROVE  /\ Wrapped(now, n) \in Nat /\ Wrapped(now, n) < Wrap
         /\ Wrapped(now, n) = IF now + n < Wrap THEN now + n ELSE now + n - Wrap
BY Width DEF Wrapped

\* Of one of 32 bits, unless it outruns the samples.
LEMMA NarrowCarries ==
  ASSUME NEW now \in Nat, now < Wrap, NEW prev \in Nat, prev < Wrap,
         NEW n \in Nat, n > 0, n < Wrap
  PROVE  /\ CounterDelta(Wrapped(now, n), prev) <= CounterDelta(now, prev) + n
         /\ /\ now >= prev \/ prev >= Threshold
            /\ now + n < Wrap \/ prev >= Threshold
            /\ CounterDelta(now, prev) + n < Wrap
            => /\ CounterDelta(Wrapped(now, n), prev) = CounterDelta(now, prev) + n
               /\ Wrapped(now, n) >= prev \/ prev >= Threshold
<1>1. CASE now + n < Wrap
  <2>1. Wrapped(now, n) = now + n BY <1>1, WrappedIs
  <2> QED BY <1>1, <2>1, Width DEF CounterDelta
<1>2. CASE now + n >= Wrap
  <2>1. Wrapped(now, n) = now + n - Wrap BY <1>2, Width, WrappedIs
  <2> QED BY <1>2, <2>1, Width DEF CounterDelta
<1> QED BY <1>1, <1>2, Width

LEMMA PointsAre ==
  /\ NoPoints \in Points /\ NoPoints.count = 0 /\ NoPoints.total = 0
  /\ \A ps \in Points : ps.count \in Nat /\ ps.total \in Int
  /\ \A ps \in Points, d \in Int :
       /\ Add(ps, d) \in Points
       /\ Add(ps, d).count = ps.count + 1 /\ Add(ps, d).total = ps.total + d
BY DEF NoPoints, Points, Add

LEMMA LaterIs ==
  /\ Later(Absent) = Absent
  /\ \A t \in Nat : Later(t) \in Nat /\ t <= Later(t) /\ (t <= Window => Later(t) = t + 1)
  /\ \A t, u \in Nat : t <= u => Later(t) <= Later(u)
BY Width DEF Later

-----------------------------------------------------------------------------
(***************************************************************************)
(* The invariant, step by step.                                            *)
(***************************************************************************)
LEMMA DeltaIs ==
  ASSUME Typed, NEW i \in Ifaces
  PROVE  /\ Delta(i) \in Int /\ Pointed(i) \in Int
         /\ counter[i] \in Int /\ last[i] \in Int
         /\ counter[i] # Absent => counter[i] \in Nat
         /\ last[i] # Absent => last[i] \in Nat
         /\ counter[i] = Absent \/ last[i] = Absent => Delta(i) = 0
         /\ counter[i] # Absent /\ last[i] # Absent =>
              Delta(i) = CounterDelta(counter[i], last[i])
<1>1. /\ counter[i] \in Int /\ last[i] \in Int
      /\ counter[i] # Absent => counter[i] \in Nat
      /\ last[i] # Absent => last[i] \in Nat
  BY Width DEF Typed
<1>2. Pointed(i) \in Int
  <2>1. points[i] \in Points /\ sent[i] \in Int BY DEF Typed
  <2>2. points[i].total \in Int BY <2>1, PointsAre
  <2> QED BY <2>1, <2>2 DEF Pointed
<1>3. CASE counter[i] = Absent \/ last[i] = Absent BY <1>1, <1>2, <1>3 DEF Delta
<1>4. CASE counter[i] # Absent /\ last[i] # Absent
  <2>1. Delta(i) = CounterDelta(counter[i], last[i]) BY <1>4 DEF Delta
  <2> QED BY <1>1, <1>2, <1>4, <2>1, DeltaType
<1> QED BY <1>3, <1>4

LEMMA InitSound == Init => Sound
<1> SUFFICES ASSUME Init PROVE Sound OBVIOUS
<1>1. Typed BY Width, PointsAre DEF Init, Typed, Trust
<1>2. ASSUME NEW i \in Ifaces PROVE Following(i) /\ Balanced(i) /\ Windowed(i)
  <2>1. counter[i] = last[i] /\ trust[i] = "plain" /\ owed[i] = 0 /\ sent[i] = 0
        /\ points[i] = NoPoints
    BY <1>2 DEF Init
  <2>2. Delta(i) = 0 BY <1>1, <1>2, <2>1, DeltaIs, DeltaType
  <2>3. counter[i] \in Nat BY <1>2, Width DEF Init
  <2> QED BY <2>1, <2>2, <2>3, PointsAre
        DEF Following, Balanced, Windowed, Reported, Pointed
<1> QED BY <1>1, <1>2 DEF Sound

LEMMA CarryKeeps == ASSUME Sound, NEW j \in Ifaces, Carry(j) PROVE Sound'
<1>1. Typed /\ \A i \in Ifaces : Following(i) /\ Balanced(i) /\ Windowed(i)
  BY DEF Sound
<1>2. PICK n \in Amounts :
        /\ counter' = [counter EXCEPT ![j] = IF j \in Wide THEN @ + n ELSE (@ + n) % Wrap]
        /\ owed' = [owed EXCEPT ![j] = @ + n]
        /\ trust' = [trust EXCEPT ![j] = IF @ = "plain" /\ Outruns(j, n) THEN "outrun" ELSE @]
  BY DEF Carry
<1>3. counter[j] # Absent /\ UNCHANGED <<last, points, age, sent, held>>
  BY DEF Carry
<1>4. n \in Nat /\ n > 0 /\ n < Wrap BY Width
<1>5. counter[j] \in Nat /\ last[j] \in {Absent} \cup Nat /\ owed[j] \in Int /\ trust[j] \in Trust
  BY <1>1, <1>3, DeltaIs DEF Typed
<1>6. /\ counter'[j] = IF j \in Wide THEN counter[j] + n ELSE Wrapped(counter[j], n)
      /\ \A i \in Ifaces : i # j => counter'[i] = counter[i]
  BY <1>1, <1>2 DEF Typed, Wrapped
<1>7. /\ owed'[j] = owed[j] + n /\ \A i \in Ifaces : i # j => owed'[i] = owed[i]
      /\ trust'[j] = IF trust[j] = "plain" /\ Outruns(j, n) THEN "outrun" ELSE trust[j]
      /\ \A i \in Ifaces : i # j => trust'[i] = trust[i]
  BY <1>1, <1>2 DEF Typed
<1>8. /\ counter'[j] \in Nat
      /\ j \notin Wide => counter[j] < Wrap /\ last[j] < Wrap /\ counter'[j] < Wrap
  <2>1. j \notin Wide => counter[j] < Wrap /\ last[j] < Wrap BY <1>1 DEF Typed
  <2>2. CASE j \in Wide BY <1>4, <1>5, <1>6, <2>2
  <2>3. CASE j \notin Wide
    <3>1. counter'[j] = Wrapped(counter[j], n) BY <1>6, <2>3
    <3> QED BY <1>4, <1>5, <2>1, <2>3, <3>1, WrappedIs
  <2> QED BY <2>2, <2>3
<1>9. Typed'
  <2>1. counter' \in [Ifaces -> {Absent} \cup Nat] BY <1>1, <1>2, <1>6, <1>8 DEF Typed
  <2>2. \A i \in Ifaces \ Wide : counter'[i] < Wrap /\ last'[i] < Wrap
    BY <1>1, <1>3, <1>6, <1>8 DEF Typed
  <2>3. owed' \in [Ifaces -> Int] BY <1>1, <1>2, <1>4 DEF Typed
  <2>4. trust' \in [Ifaces -> Trust] BY <1>1, <1>2 DEF Typed, Trust
  <2> QED BY <1>1, <1>3, <2>1, <2>2, <2>3, <2>4 DEF Typed
<1>10. ASSUME NEW i \in Ifaces, i # j
       PROVE  Following(i)' /\ Balanced(i)'
  <2>1. UNCHANGED <<counter[i], last[i], trust[i], owed[i], sent[i], points[i]>>
    BY <1>3, <1>6, <1>7, <1>10
  <2>2. UNCHANGED <<Delta(i), Pointed(i)>> BY <2>1 DEF Delta, Pointed
  <2> QED BY <1>1, <2>1, <2>2 DEF Following, Balanced, Reported
<1>11. Following(j)' /\ Balanced(j)'
  <2> SUFFICES ASSUME last[j] # Absent,
                      trust'[j] = "plain" \/ trust'[j] = "created"
               PROVE  /\ trust'[j] = "plain" =>
                           /\ \/ counter'[j] >= last[j]
                              \/ j \notin Wide /\ last[j] >= Threshold
                           /\ CounterDelta(counter'[j], last[j]) = Delta(j) + n
                      /\ trust'[j] = "created" =>
                           /\ j \in Wide => counter'[j] >= last[j] \/ last[j] < Threshold
                           /\ CounterDelta(counter'[j], last[j]) <= Delta(j) + n
    <3>1. counter'[j] # Absent /\ last'[j] = last[j] BY <1>3, <1>8, Width
    <3>2. last[j] # Absent => Delta(j)' = CounterDelta(counter'[j], last[j])
      BY <3>1 DEF Delta
    <3>3. Pointed(j)' = Pointed(j) BY <1>3 DEF Pointed
    <3>4. Pointed(j) \in Int /\ Delta(j) \in Int BY <1>1, DeltaIs
    <3>5. trust'[j] = "plain" \/ trust'[j] = "created" => trust'[j] = trust[j]
      BY <1>7
    <3>6. last[j] # Absent =>
            /\ trust[j] = "plain" => Pointed(j) + Delta(j) = owed[j]
            /\ trust[j] = "created" => Pointed(j) + Delta(j) <= owed[j]
      BY <1>1, <1>3 DEF Balanced, Reported
    <3>7. Following(j)' BY <3>1 DEF Following
    <3>8. Balanced(j)'
      <4>a. Reported(j)' = Pointed(j) + Delta(j)' BY <3>3 DEF Reported
      <4>1. CounterDelta(counter'[j], last[j]) \in Int
        <5>1. counter'[j] \in Int /\ last[j] \in Int BY <1>1, <1>8, DeltaIs
        <5> QED BY <5>1, DeltaType
      <4> DEFINE d == CounterDelta(counter'[j], last[j])
      <4>2. last[j] # Absent =>
              /\ Delta(j)' = d
              /\ trust'[j] = "plain" => d = Delta(j) + n
              /\ trust'[j] = "created" => d <= Delta(j) + n
        BY <3>2
      <4>3. d \in Int BY <4>1
      <4> HIDE DEF d
      <4>4. last[j] # Absent =>
              /\ trust'[j] = "plain" => Pointed(j) + Delta(j)' = owed[j] + n
              /\ trust'[j] = "created" => Pointed(j) + Delta(j)' <= owed[j] + n
        BY <1>4, <1>5, <3>4, <3>5, <3>6, <4>2, <4>3
      <4>5. counter'[j] # Absent /\ last'[j] = last[j] /\ owed'[j] = owed[j] + n
        BY <1>7, <3>1
      <4> QED BY <4>a, <4>4, <4>5 DEF Balanced
    <3> QED BY <3>7, <3>8
  <2>1. /\ Delta(j) = CounterDelta(counter[j], last[j]) /\ Delta(j) \in Int
        /\ last[j] \in Nat
    BY <1>1, <1>3, DeltaIs
  <2>2. trust'[j] = trust[j] /\ (trust[j] = "plain" => ~Outruns(j, n)) BY <1>7
  <2>3. /\ trust[j] = "plain" => \/ counter[j] >= last[j]
                                 \/ j \notin Wide /\ last[j] >= Threshold
        /\ trust[j] = "created" /\ j \in Wide => \/ counter[j] >= last[j]
                                                 \/ last[j] < Threshold
    BY <1>1, <1>3 DEF Following
  <2>4. CASE j \in Wide
    <3>1. counter'[j] = counter[j] + n BY <1>6, <2>4
    <3>2. /\ counter[j] >= last[j] =>
               CounterDelta(counter[j] + n, last[j]) = CounterDelta(counter[j], last[j]) + n
          /\ last[j] < Threshold =>
               CounterDelta(counter[j] + n, last[j]) <= CounterDelta(counter[j], last[j]) + n
      BY <1>4, <1>5, <2>1, WideCarries
    <3>3. counter[j] >= last[j] => counter[j] + n >= last[j] BY <1>4, <1>5, <2>1
    <3>4. last[j] \in Int /\ counter[j] \in Int BY <1>5, <2>1
    <3>5. counter[j] >= last[j] \/ last[j] < Threshold BY <2>2, <2>3, <2>4
    <3>6. CASE counter[j] >= last[j]
      <4>1. CounterDelta(counter'[j], last[j]) = Delta(j) + n
        BY <2>1, <3>1, <3>2, <3>6
      <4>2. CounterDelta(counter'[j], last[j]) <= Delta(j) + n
        BY <1>4, <2>1, <4>1
      <4> QED BY <3>1, <3>3, <3>6, <4>1, <4>2
    <3>7. CASE ~(counter[j] >= last[j])
      <4>1. trust'[j] = "created" /\ last[j] < Threshold BY <2>2, <2>3, <2>4, <3>7
      <4>2. CounterDelta(counter'[j], last[j]) <= Delta(j) + n
        BY <2>1, <3>1, <3>2, <4>1
      <4> QED BY <4>1, <4>2
    <3> QED BY <3>6, <3>7
  <2>5. CASE j \notin Wide
    <3>1. counter'[j] = Wrapped(counter[j], n) BY <1>6, <2>5
    <3>2. /\ CounterDelta(Wrapped(counter[j], n), last[j])
               <= CounterDelta(counter[j], last[j]) + n
          /\ /\ counter[j] >= last[j] \/ last[j] >= Threshold
             /\ counter[j] + n < Wrap \/ last[j] >= Threshold
             /\ CounterDelta(counter[j], last[j]) + n < Wrap
             => /\ CounterDelta(Wrapped(counter[j], n), last[j])
                     = CounterDelta(counter[j], last[j]) + n
                /\ Wrapped(counter[j], n) >= last[j] \/ last[j] >= Threshold
      BY <1>4, <1>5, <1>8, <2>1, <2>5, NarrowCarries
    <3>3. trust[j] = "plain" => /\ counter[j] + n < Wrap \/ last[j] >= Threshold
                                /\ Delta(j) + n < Wrap
      BY <1>4, <1>5, <2>1, <2>2, <2>5, Width DEF Outruns
    <3>4. CASE trust[j] = "plain"
      <4>1. /\ counter[j] >= last[j] \/ last[j] >= Threshold
            /\ counter[j] + n < Wrap \/ last[j] >= Threshold
            /\ CounterDelta(counter[j], last[j]) + n < Wrap
        BY <2>1, <2>3, <3>3, <3>4
      <4> QED BY <2>1, <2>2, <2>5, <3>1, <3>2, <3>4, <4>1
    <3>5. CASE trust[j] = "created" BY <2>1, <2>2, <2>5, <3>1, <3>2, <3>5
    <3> QED BY <2>2, <3>4, <3>5
  <2> QED BY <2>4, <2>5
<1>12. \A i \in Ifaces : Windowed(i)' BY <1>1, <1>3 DEF Windowed
<1> QED BY <1>9, <1>10, <1>11, <1>12 DEF Sound

\* Nothing but the history of an interface that is gone, and of one that is created.
LEMMA DisappearsKeeps == ASSUME Sound, NEW j \in Ifaces, Disappears(j) PROVE Sound'
<1>1. Typed /\ \A i \in Ifaces : Following(i) /\ Balanced(i) /\ Windowed(i)
  BY DEF Sound
<1>2. /\ counter' = [counter EXCEPT ![j] = Absent] /\ owed' = [owed EXCEPT ![j] = Pointed(j)]
      /\ UNCHANGED <<last, points, age, sent, held, trust>>
  BY DEF Disappears
<1>3. Pointed(j) \in Int BY <1>1, DeltaIs
<1>4. /\ counter'[j] = Absent /\ owed'[j] = Pointed(j)
      /\ \A i \in Ifaces : i # j => counter'[i] = counter[i] /\ owed'[i] = owed[i]
  BY <1>1, <1>2 DEF Typed
<1>5. Typed'
  <2>1. \A i \in Ifaces \ Wide : counter'[i] < Wrap
    BY <1>1, <1>4, Width DEF Typed
  <2> QED BY <1>1, <1>2, <1>3, <2>1 DEF Typed
<1>6. ASSUME NEW i \in Ifaces PROVE Following(i)' /\ Balanced(i)' /\ Windowed(i)'
  <2>1. Pointed(i)' = Pointed(i) BY <1>2 DEF Pointed
  <2>2. CASE i = j BY <1>1, <1>2, <1>4, <2>1, <2>2 DEF Following, Balanced, Windowed
  <2>3. CASE i # j
    <3>1. Delta(i)' = Delta(i) BY <1>2, <1>4, <2>3 DEF Delta
    <3> QED BY <1>1, <1>2, <1>4, <2>1, <2>3, <3>1
          DEF Following, Balanced, Windowed, Reported
  <2> QED BY <2>2, <2>3
<1> QED BY <1>5, <1>6 DEF Sound

LEMMA AppearsKeeps == ASSUME Sound, NEW j \in Ifaces, Appears(j) PROVE Sound'
<1>1. Typed /\ \A i \in Ifaces : Following(i) /\ Balanced(i) /\ Windowed(i)
  BY DEF Sound
<1> DEFINE t == IF last[j] >= Threshold THEN "created near wrap"
                ELSE IF trust[j] = "plain" /\ last[j] # Absent THEN "created" ELSE trust[j]
<1>2. /\ counter[j] = Absent
      /\ counter' = [counter EXCEPT ![j] = 0] /\ trust' = [trust EXCEPT ![j] = t]
      /\ UNCHANGED <<last, points, age, sent, owed, held>>
  BY DEF Appears
<1>3. /\ t \in Trust /\ (last[j] # Absent => t # "plain")
      /\ t = "created near wrap" \/ last[j] < Threshold
  <2>1. last[j] \in Int /\ trust[j] \in Trust BY <1>1, DeltaIs DEF Typed
  <2>2. CASE last[j] >= Threshold
    <3>1. t = "created near wrap" BY <2>2
    <3> QED BY <3>1 DEF Trust
  <2>3. CASE ~(last[j] >= Threshold)
    <3>1. last[j] < Threshold BY <2>1, <2>3, Width
    <3>2. t = IF trust[j] = "plain" /\ last[j] # Absent THEN "created" ELSE trust[j]
      BY <2>3
    <3>3. "created" \in Trust /\ "created" # "plain" BY DEF Trust
    <3> HIDE DEF t
    <3>4. t \in Trust BY <2>1, <3>2, <3>3
    <3>5. last[j] # Absent => t # "plain" BY <3>2, <3>3
    <3> QED BY <3>1, <3>4, <3>5
  <2> QED BY <2>2, <2>3
<1> HIDE DEF t
<1>4. /\ counter'[j] = 0 /\ trust'[j] = t
      /\ \A i \in Ifaces : i # j => counter'[i] = counter[i] /\ trust'[i] = trust[i]
  BY <1>1, <1>2 DEF Typed
<1>5. Typed'
  <2>1. \A i \in Ifaces \ Wide : counter'[i] < Wrap
    BY <1>1, <1>4, Width DEF Typed
  <2> QED BY <1>1, <1>2, <1>3, <2>1 DEF Typed
<1>6. ASSUME NEW i \in Ifaces PROVE Following(i)' /\ Balanced(i)' /\ Windowed(i)'
  <2>1. Pointed(i)' = Pointed(i) BY <1>2 DEF Pointed
  <2>2. Windowed(i)' BY <1>1, <1>2 DEF Windowed
  <2>3. CASE i # j
    <3>1. Delta(i)' = Delta(i) BY <1>2, <1>4, <2>3 DEF Delta
    <3> QED BY <1>1, <1>2, <1>4, <2>1, <2>2, <2>3, <3>1
          DEF Following, Balanced, Reported
  <2>4. CASE i = j
    <3>1. owed'[j] = Pointed(j) /\ Pointed(j) \in Int
      BY <1>1, <1>2, DeltaIs DEF Balanced
    <3>2. counter'[j] # Absent BY <1>4, Width
    <3>3. CASE last[j] = Absent BY <1>2, <2>2, <2>4, <3>2, <3>3 DEF Following, Balanced
    <3>4. CASE last[j] # Absent
      <4>1. last[j] \in Nat BY <1>1, <3>4, DeltaIs
      <4>2. t # "plain" BY <1>3, <3>4
      <4>3. CASE t = "created near wrap"
        BY <1>2, <1>4, <2>2, <2>4, <3>2, <4>3 DEF Following, Balanced
      <4>4. CASE last[j] < Threshold
        <5>1. CounterDelta(0, last[j]) = 0 BY <4>1, <4>4, Width DEF CounterDelta
        <5>2. Delta(j)' = 0 BY <1>2, <1>4, <3>2, <3>4, <5>1 DEF Delta
        <5>3. Reported(j)' = owed'[j] BY <2>1, <2>4, <3>1, <5>2 DEF Reported
        <5>4. owed'[j] \in Int BY <3>1
        <5> QED BY <1>2, <1>4, <2>2, <2>4, <3>2, <4>2, <4>4, <5>3, <5>4
              DEF Following, Balanced
      <4> QED BY <1>3, <4>3, <4>4
    <3> QED BY <3>3, <3>4
  <2> QED BY <2>3, <2>4
<1> QED BY <1>5, <1>6 DEF Sound

\* The new sample is what the next difference is taken from.
LEMMA TickKeeps == ASSUME Sound, Tick PROVE Sound'
<1>1. Typed /\ \A i \in Ifaces : Following(i) /\ Balanced(i) /\ Windowed(i)
  BY DEF Sound
<1>2. UNCHANGED <<counter, trust>> /\ last' = counter
      /\ owed' = [i \in Ifaces |-> Baseline(i)]
  BY DEF Tick
<1>3. PICK due \in [Ifaces -> BOOLEAN] :
       /\ \A i \in Ifaces : due[i] \in IF Delta(i) = 0 THEN {FALSE} ELSE IsDue(AgeNow(i))
       /\ points' = [i \in Ifaces |-> (IF Delta(i) = 0 THEN LeftAlone(i)
                                       ELSE Accumulate(i, due[i])).points]
       /\ age' = [i \in Ifaces |-> (IF Delta(i) = 0 THEN LeftAlone(i)
                                    ELSE Accumulate(i, due[i])).age]
       /\ held' = [i \in Ifaces |-> (IF Delta(i) = 0 THEN LeftAlone(i)
                                     ELSE Accumulate(i, due[i])).held]
       /\ sent' = [i \in Ifaces |-> sent[i] + (IF Delta(i) = 0 THEN LeftAlone(i)
                                               ELSE Accumulate(i, due[i])).out]
  <2>1. PICK due \in [Ifaces -> BOOLEAN] :
          /\ \A i \in Ifaces : due[i] \in IF Delta(i) = 0 THEN {FALSE}
                                           ELSE IsDue(AgeNow(i))
          /\ LET acc == [i \in Ifaces |-> IF Delta(i) = 0 THEN LeftAlone(i)
                                           ELSE Accumulate(i, due[i])]
             IN  /\ points' = [i \in Ifaces |-> acc[i].points]
                 /\ age' = [i \in Ifaces |-> acc[i].age]
                 /\ held' = [i \in Ifaces |-> acc[i].held]
                 /\ sent' = [i \in Ifaces |-> sent[i] + acc[i].out]
    BY DEF Tick
  <2> QED BY <2>1
<1>4. ASSUME NEW i \in Ifaces
      PROVE  /\ Delta(i) = 0 =>
                  /\ points'[i] = points[i] /\ age'[i] = Later(age[i])
                  /\ held'[i] = Later(held[i]) /\ sent'[i] = sent[i]
             /\ Delta(i) # 0 /\ due[i] =>
                  /\ points'[i] = NoPoints /\ age'[i] = 0 /\ held'[i] = 0
                  /\ sent'[i] = Pointed(i) + Delta(i)
             /\ Delta(i) # 0 /\ ~due[i] =>
                  /\ points'[i] = Add(points[i], Delta(i)) /\ age'[i] = AgeNow(i)
                  /\ held'[i] = (IF points[i].count = 0 THEN 0 ELSE held[i] + 1)
                  /\ sent'[i] = sent[i]
  <2>1. sent[i] \in Int /\ points[i] \in Points BY <1>1 DEF Typed
  <2>2. points[i].total \in Int /\ Delta(i) \in Int BY <1>1, <2>1, PointsAre, DeltaIs
  <2>3. CASE Delta(i) = 0 BY <1>3, <2>1, <2>3 DEF LeftAlone
  <2>4. CASE Delta(i) # 0 /\ due[i]
    <3>1. points'[i] = NoPoints /\ age'[i] = 0 /\ held'[i] = 0
      BY <1>3, <2>4 DEF Accumulate
    <3>2. sent'[i] = sent[i] + Add(points[i], Delta(i)).total
      BY <1>3, <2>4 DEF Accumulate
    <3>3. Add(points[i], Delta(i)).total = points[i].total + Delta(i)
      BY <2>1, <2>2, PointsAre
    <3> QED BY <2>1, <2>2, <2>4, <3>1, <3>2, <3>3 DEF Pointed
  <2>5. CASE Delta(i) # 0 /\ ~due[i] BY <1>3, <2>1, <2>5 DEF Accumulate
  <2> QED BY <2>3, <2>4, <2>5
<1>5. ASSUME NEW i \in Ifaces
      PROVE  /\ points'[i] \in Points /\ age'[i] \in {Absent} \cup Nat
             /\ held'[i] \in Nat /\ sent'[i] \in Int /\ owed'[i] \in Int
             /\ Pointed(i)' = Pointed(i) + Delta(i)
             /\ Windowed(i)'
  <2>1. /\ points[i] \in Points /\ age[i] \in {Absent} \cup Nat /\ held[i] \in Nat
        /\ sent[i] \in Int /\ owed[i] \in Int /\ Delta(i) \in Int /\ Pointed(i) \in Int
    BY <1>1, DeltaIs DEF Typed
  <2>2. points[i].count \in Nat /\ points[i].total \in Int BY <2>1, PointsAre
  <2>3. Pointed(i) = sent[i] + points[i].total BY DEF Pointed
  <2>4. Pointed(i)' = sent'[i] + points'[i].total BY DEF Pointed
  <2>5. owed'[i] \in Int BY <1>2, <2>1 DEF Baseline
  <2>6. CASE Delta(i) = 0
    <3>1. /\ points'[i] = points[i] /\ age'[i] = Later(age[i])
          /\ held'[i] = Later(held[i]) /\ sent'[i] = sent[i]
      BY <1>4, <2>6
    <3>2. Pointed(i)' = Pointed(i) + Delta(i) BY <2>1, <2>2, <2>3, <2>4, <2>6, <3>1
    <3>3. age'[i] \in {Absent} \cup Nat /\ held'[i] \in Nat BY <2>1, <3>1, LaterIs
    <3>4. Windowed(i)'
      <4> SUFFICES ASSUME points[i].count > 0
                   PROVE  age'[i] # Absent /\ held'[i] <= age'[i]
        BY <3>1 DEF Windowed
      <4>1. age[i] # Absent /\ held[i] <= age[i] BY <1>1 DEF Windowed
      <4>2. age[i] \in Nat BY <2>1, <4>1
      <4> QED BY <2>1, <3>1, <4>1, <4>2, LaterIs, Width
    <3> QED BY <2>1, <2>5, <3>1, <3>2, <3>3, <3>4
  <2>7. CASE Delta(i) # 0 /\ due[i]
    <3>1. /\ points'[i] = NoPoints /\ age'[i] = 0 /\ held'[i] = 0
          /\ sent'[i] = Pointed(i) + Delta(i)
      BY <1>4, <2>7
    <3>2. points'[i].total = 0 /\ points'[i].count = 0 BY <3>1, PointsAre
    <3>3. Windowed(i)' BY <3>2 DEF Windowed
    <3> QED BY <2>1, <2>4, <2>5, <3>1, <3>2, <3>3, PointsAre
  <2>8. CASE Delta(i) # 0 /\ ~due[i]
    <3>1. /\ points'[i] = Add(points[i], Delta(i)) /\ age'[i] = AgeNow(i)
          /\ held'[i] = (IF points[i].count = 0 THEN 0 ELSE held[i] + 1)
          /\ sent'[i] = sent[i]
      BY <1>4, <2>8
    <3>2. /\ points'[i] \in Points
          /\ points'[i].total = points[i].total + Delta(i)
      <4>1. PICK ps \in Points, d \in Int : ps = points[i] /\ d = Delta(i) BY <2>1
      <4>2. Add(ps, d) \in Points /\ Add(ps, d).total = ps.total + d
        BY ONLY PointsAre
      <4> QED BY <3>1, <4>1, <4>2
    <3>3. Pointed(i)' = Pointed(i) + Delta(i)
      <4>1. /\ Pointed(i)' = sent[i] + points'[i].total
            /\ points'[i].total = points[i].total + Delta(i)
        BY <2>4, <3>1, <3>2
      <4>2. sent[i] \in Int /\ points[i].total \in Int /\ Delta(i) \in Int
        BY <2>1, <2>2
      <4>3. PICK s \in Int, t \in Int, d \in Int :
              s = sent[i] /\ t = points[i].total /\ d = Delta(i)
        BY <4>2
      <4>4. Pointed(i)' = s + (t + d) /\ Pointed(i) = s + t BY <2>3, <4>1, <4>3
      <4> QED BY ONLY <4>3, <4>4
    <3>4. AgeNow(i) \in Nat BY <2>1 DEF AgeNow
    <3>5. Windowed(i)'
      <4>1. points[i].count # 0 => age[i] # Absent /\ held[i] <= age[i]
        BY <1>1, <2>2 DEF Windowed
      <4>2. held'[i] <= AgeNow(i) BY <2>1, <3>1, <3>4, <4>1 DEF AgeNow
      <4> QED BY <3>1, <3>4, <4>2, Width DEF Windowed
    <3>6. held'[i] \in Nat BY <2>1, <3>1
    <3> QED BY <2>1, <2>5, <3>1, <3>2, <3>3, <3>4, <3>5, <3>6
  <2> QED BY <2>6, <2>7, <2>8
<1>6. Typed'
  <2>1. /\ points' \in [Ifaces -> Points] /\ age' \in [Ifaces -> {Absent} \cup Nat]
        /\ held' \in [Ifaces -> Nat] /\ sent' \in [Ifaces -> Int]
        /\ owed' \in [Ifaces -> Int]
    BY <1>2, <1>3, <1>5
  <2> QED BY <1>1, <1>2, <2>1 DEF Typed
<1>7. ASSUME NEW i \in Ifaces PROVE Following(i)' /\ Balanced(i)'
  <2>1. counter[i] \in Int /\ Delta(i) \in Int /\ Pointed(i) \in Int /\ owed[i] \in Int
    BY <1>1, DeltaIs DEF Typed
  <2>2. Following(i)' BY <1>2, <2>1 DEF Following
  <2>3. owed'[i] = IF last[i] = Absent THEN Pointed(i) ELSE owed[i]
    BY <1>2 DEF Baseline
  <2>4. Delta(i)' = 0 BY <1>2, <2>1, DeltaType DEF Delta
  <2>5. Pointed(i)' = Pointed(i) + Delta(i) /\ Reported(i)' = Pointed(i) + Delta(i)
    BY <1>5, <2>1, <2>4 DEF Reported
  <2>6. CASE counter[i] = Absent
    <3>1. Delta(i) = 0 /\ owed[i] = Pointed(i) BY <1>1, <2>6, DeltaIs DEF Balanced
    <3> QED BY <1>2, <2>1, <2>2, <2>3, <2>5, <2>6, <3>1 DEF Balanced
  <2>7. CASE counter[i] # Absent /\ last[i] = Absent
    <3>1. Delta(i) = 0 BY <1>1, <2>7, DeltaIs
    <3> QED BY <1>2, <2>1, <2>2, <2>3, <2>5, <2>7, <3>1 DEF Balanced
  <2>8. CASE counter[i] # Absent /\ last[i] # Absent
    BY <1>1, <1>2, <2>1, <2>2, <2>3, <2>5, <2>8 DEF Balanced, Reported
  <2> QED BY <2>6, <2>7, <2>8
<1> QED BY <1>5, <1>6, <1>7 DEF Sound

LEMMA ReadFailsKeeps == ASSUME Sound, ReadFails PROVE Sound'
<1>1. Typed /\ \A i \in Ifaces : Following(i) /\ Balanced(i) /\ Windowed(i)
  BY DEF Sound
<1>2. /\ age' = [i \in Ifaces |-> Later(age[i])]
      /\ held' = [i \in Ifaces |-> IF points[i].count = 0 THEN 0 ELSE Later(held[i])]
      /\ UNCHANGED <<counter, last, points, sent, owed, trust>>
  BY DEF ReadFails
<1>3. Typed'
  <2>1. \A i \in Ifaces : age[i] \in {Absent} \cup Nat /\ held[i] \in Nat
    BY <1>1 DEF Typed
  <2>2. \A i \in Ifaces : Later(age[i]) \in {Absent} \cup Nat /\ Later(held[i]) \in Nat
    BY <2>1, LaterIs
  <2> QED BY <1>1, <1>2, <2>2 DEF Typed
<1>4. ASSUME NEW i \in Ifaces PROVE Following(i)' /\ Balanced(i)' /\ Windowed(i)'
  <2>1. UNCHANGED <<Delta(i), Pointed(i)>> BY <1>2 DEF Delta, Pointed
  <2>2. Following(i)' /\ Balanced(i)' BY <1>1, <1>2, <2>1 DEF Following, Balanced, Reported
  <2>3. ASSUME points[i].count > 0 PROVE age'[i] # Absent /\ held'[i] <= age'[i]
    <3>1. age[i] # Absent /\ held[i] <= age[i] BY <1>1, <2>3 DEF Windowed
    <3>2. age[i] \in Nat /\ held[i] \in Nat BY <1>1, <3>1 DEF Typed
    <3>3. age'[i] = Later(age[i]) /\ held'[i] = Later(held[i])
      <4>1. points[i].count # 0 BY <2>3
      <4> QED BY <1>2, <4>1
    <3> QED BY <3>1, <3>2, <3>3, LaterIs, Width
  <2> QED BY <1>2, <2>2, <2>3 DEF Windowed
<1> QED BY <1>3, <1>4 DEF Sound

LEMMA RestartKeeps == ASSUME Sound, Restart PROVE Sound'
<1>1. Typed /\ \A i \in Ifaces : Following(i) /\ Balanced(i) /\ Windowed(i)
  BY DEF Sound
<1>2. /\ last' \in {counter, last, [i \in Ifaces |-> Absent]}
      /\ points' = [i \in Ifaces |-> NoPoints] /\ age' = [i \in Ifaces |-> Absent]
      /\ held' = [i \in Ifaces |-> 0]
      /\ owed' = [i \in Ifaces |->
                    IF last' = last /\ counter[i] # Absent /\ last[i] # Absent
                      THEN owed[i] - points[i].total ELSE sent[i]]
      /\ UNCHANGED <<counter, sent, trust>>
  BY DEF Restart
<1>3. \A i \in Ifaces : /\ points[i] \in Points /\ points[i].total \in Int
                        /\ sent[i] \in Int /\ owed[i] \in Int
  BY <1>1, PointsAre DEF Typed
<1>4. \A i \in Ifaces : last'[i] \in {counter[i], last[i], Absent}
  BY <1>2
<1>5. Typed'
  <2>1. last' \in [Ifaces -> {Absent} \cup Nat] BY <1>1, <1>2 DEF Typed
  <2>2. \A i \in Ifaces \ Wide : last'[i] < Wrap
    BY <1>1, <1>4, Width DEF Typed
  <2>3. /\ points' \in [Ifaces -> Points] /\ owed' \in [Ifaces -> Int]
        /\ age' \in [Ifaces -> {Absent} \cup Nat] /\ held' \in [Ifaces -> Nat]
    <3>1. NoPoints \in Points BY PointsAre
    <3>2. \A i \in Ifaces : owed[i] - points[i].total \in Int /\ sent[i] \in Int
      BY <1>3
    <3> QED BY <1>2, <3>1, <3>2
  <2> QED BY <1>1, <1>2, <2>1, <2>2, <2>3 DEF Typed
<1>6. ASSUME NEW i \in Ifaces PROVE Following(i)' /\ Balanced(i)' /\ Windowed(i)'
  <2>1. Windowed(i)' BY <1>2, PointsAre DEF Windowed
  <2>2. Pointed(i)' = sent[i] BY <1>2, <1>3, PointsAre DEF Pointed
  <2>3. owed'[i] = IF last' = last /\ counter[i] # Absent /\ last[i] # Absent
                     THEN owed[i] - points[i].total ELSE sent[i]
    BY <1>2
  <2>4. counter[i] \in Int /\ Delta(i) \in Int BY <1>1, DeltaIs
  <2>5. CASE last' = last /\ counter[i] # Absent /\ last[i] # Absent
    <3>1. Delta(i)' = Delta(i) BY <1>2, <2>5 DEF Delta
    <3>2. Reported(i)' = sent[i] + Delta(i) BY <2>2, <3>1 DEF Reported
    <3>3. Reported(i) = sent[i] + points[i].total + Delta(i) BY DEF Reported, Pointed
    <3>4. Following(i)' BY <1>1, <1>2, <2>5 DEF Following
    <3> QED BY <1>1, <1>2, <1>3, <2>1, <2>3, <2>4, <2>5, <3>2, <3>3, <3>4 DEF Balanced
  <2>6. CASE last'[i] = Absent \/ counter[i] = Absent
    BY <1>2, <2>1, <2>2, <2>3, <2>5, <2>6 DEF Following, Balanced
  <2>7. CASE last' # last /\ last'[i] = counter[i] /\ counter[i] # Absent
    <3>1. Delta(i)' = 0 BY <1>2, <2>4, <2>7, DeltaType DEF Delta
    <3>2. Reported(i)' = owed'[i] BY <1>3, <2>2, <2>3, <2>7, <3>1 DEF Reported
    <3>3. owed'[i] \in Int BY <1>3, <2>3, <2>7
    <3> QED BY <1>2, <2>1, <2>4, <2>7, <3>2, <3>3 DEF Following, Balanced
  <2> QED BY <1>2, <2>5, <2>6, <2>7
<1> QED BY <1>5, <1>6 DEF Sound

LEMMA SoundStep == Sound /\ [Next]_vars => Sound'
<1> SUFFICES ASSUME Sound, [Next]_vars PROVE Sound' OBVIOUS
<1>1. CASE UNCHANGED vars
  BY <1>1 DEF vars, Sound, Typed, Following, Balanced, Windowed, Reported, Pointed, Delta
<1> QED BY <1>1, CarryKeeps, DisappearsKeeps, AppearsKeeps, TickKeeps, ReadFailsKeeps,
           RestartKeeps DEF Next

LEMMA Invariant == Spec => []Sound
BY InitSound, SoundStep, PTL DEF Spec

-----------------------------------------------------------------------------
(***************************************************************************)
(* The theorems.                                                           *)
(***************************************************************************)

\* All traffic is reported once, across wraps, failed reads and restarts
\* (counterDelta, networkactivity.go): for every width of a counter, every threshold
\* and any traffic between two samples that the samples can follow.
THEOREM AllIsAccounted == Spec => []TrafficAccounted
<1>1. Sound => TrafficAccounted BY DEF Sound, Balanced, TrafficAccounted
<1> QED BY <1>1, Invariant, PTL

\* A tick that adds a point leaves none that is older than the window (drainIfDue,
\* accumulator.go).
THEOREM PointsAreFresh == Spec => PointsLeaveInTime
<1>1. Sound /\ [Next]_vars =>
        [\A i \in Ifaces : points'[i].count > points[i].count => held'[i] <= Window]_vars
  <2> SUFFICES ASSUME Sound, [Next]_vars, NEW i \in Ifaces,
                      points'[i].count > points[i].count
               PROVE  held'[i] <= Window
    OBVIOUS
  <2>1. /\ points[i] \in Points /\ points[i].count \in Nat /\ age[i] \in {Absent} \cup Nat
        /\ held[i] \in Nat /\ Windowed(i)
    BY PointsAre DEF Sound, Typed
  <2>2. ~(points[i].count > points[i].count) /\ ~(0 > points[i].count) BY <2>1
  <2>3. ~UNCHANGED points BY <2>2
  <2>4. ~Restart BY <2>2, PointsAre DEF Restart
  <2>5. Tick
    BY <2>3, <2>4 DEF Next, Carry, Disappears, Appears, ReadFails, vars
  <2>6. PICK due \in [Ifaces -> BOOLEAN] :
          /\ due[i] \in IF Delta(i) = 0 THEN {FALSE} ELSE IsDue(AgeNow(i))
          /\ points'[i] = (IF Delta(i) = 0 THEN LeftAlone(i)
                           ELSE Accumulate(i, due[i])).points
          /\ held'[i] = (IF Delta(i) = 0 THEN LeftAlone(i)
                         ELSE Accumulate(i, due[i])).held
    BY <2>5 DEF Tick
  <2>7. Delta(i) # 0 BY <2>2, <2>6 DEF LeftAlone
  <2>8. ~due[i] BY <2>2, <2>6, <2>7, PointsAre DEF Accumulate
  <2>9. held'[i] = IF points[i].count = 0 THEN 0 ELSE held[i] + 1
    BY <2>6, <2>7, <2>8 DEF Accumulate
  <2>10. AgeNow(i) \in Nat /\ ~(AgeNow(i) > Window)
    BY <2>1, <2>6, <2>7, <2>8 DEF IsDue, AgeNow
  <2>11. points[i].count # 0 => held[i] + 1 <= AgeNow(i)
    BY <2>1 DEF Windowed, AgeNow
  <2> QED BY <2>1, <2>9, <2>10, <2>11, Width
<1> QED BY <1>1, Invariant, PTL DEF PointsLeaveInTime, Spec
=============================================================================
