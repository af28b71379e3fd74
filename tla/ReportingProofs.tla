--------------------------- MODULE ReportingProofs --------------------------
(***************************************************************************)
(* What holds of the reports for every set of plugins and facts, every     *)
(* combination of failures and any number of them.                         *)
(***************************************************************************)
EXTENDS Reporting, TLAPS

USE DEF pluginVars, storeVars, loopVars

-----------------------------------------------------------------------------
(***************************************************************************)
(* The inductive invariant.                                                *)
(***************************************************************************)

\* Who holds the lock of the Store writes what the file has, but for its own part;
\* the exchange what it had in memory when it began.
Writing ==
  mutex # Free =>
    /\ mutex.who \in Writers /\ file.kind # "bad"
    /\ file.state.out <= mutex.state.out /\ mutex.state.out <= mem.out
    /\ mutex.who # "exchange" => mutex.state.out = file.state.out
    /\ \A p \in Saving :
         mutex.state.saved[p] = IF p = mutex.who THEN seen[p]
                                ELSE file.state.saved[p]

\* The exchange has nothing in memory that the file lacks, but for its own part.
Loop ==
  file.kind # "bad" =>
    /\ file.state.out <= mem.out
    /\ \A p \in Saving : file.state.saved[p] = None => mem.saved[p] = None

\* Where the tick of a plugin is, and what it remembers: a plugin that saves first
\* remembers what the file has.
Ticking(p) ==
  /\ pc[p] = "save" => p \in Saving
  /\ pc[p] = "send" => p \in Hashed /\ prev[p] # None
  /\ p \in Diffed /\ pc[p] = "save" => seen[p] = prev[p]
  /\ p \in Hashed /\ up /\ file.kind # "bad" => prev[p] = file.state.saved[p]

\* What a plugin remembers is what the server is about to know; one that sends
\* differences has told it nothing before it remembers anything.
Mirrored(p) ==
  up /\ ~gap[p] /\ pc[p] # "send" /\ (prev[p] # None \/ p \in Diffed)
    => After(known, queue)[p] = Base(p)

Reporters == \A p \in Plugins : Ticking(p) /\ Mirrored(p)

-----------------------------------------------------------------------------
(***************************************************************************)
(* What the server knows after a queue.                                    *)
(***************************************************************************)

\* An empty queue tells it nothing.
LEMMA AfterNothing ==
  ASSUME NEW k \in [Plugins -> SUBSET Facts]
  PROVE  After(k, <<>>) = k
<1>1. \A p \in Plugins : ReportsOf(p, <<>>) = {} BY DEF ReportsOf
<1>2. \A p \in Plugins : After(k, <<>>)[p] = k[p] BY <1>1 DEF After
<1>3. After(k, <<>>) = [p \in Plugins |-> After(k, <<>>)[p]] BY DEF After
<1> QED BY <1>2, <1>3

LEMMA AfterType ==
  ASSUME NEW k, NEW q
  PROVE  After(k, q) \in [Plugins -> SUBSET Facts]
BY DEF After

\* A queue with a report behind, and the position of that report.
With(q, r) == Append(q, r)
End(q) == Len(q) + 1

LEMMA Appended ==
  ASSUME NEW q \in Seq(Report), NEW r \in Report, NEW p \in Plugins
  PROVE  /\ End(q) \in Nat /\ With(q, r)[End(q)] = r
         /\ \A i \in ReportsOf(p, q) :
              i \in Nat /\ i < End(q) /\ With(q, r)[i] = q[i]
         /\ r.from = p => ReportsOf(p, With(q, r)) = ReportsOf(p, q) \cup {End(q)}
         /\ r.from # p => ReportsOf(p, With(q, r)) = ReportsOf(p, q)
<1>1. /\ DOMAIN q = 1..Len(q) /\ Len(q) \in Nat /\ End(q) = Len(q) + 1
      /\ DOMAIN With(q, r) = 1..End(q) /\ With(q, r)[End(q)] = r
      /\ \A i \in 1..Len(q) : With(q, r)[i] = q[i]
  BY DEF With, End
<1>2. DOMAIN With(q, r) = DOMAIN q \cup {End(q)} BY <1>1
<1>3. /\ r.from = p => ReportsOf(p, With(q, r)) = ReportsOf(p, q) \cup {End(q)}
      /\ r.from # p => ReportsOf(p, With(q, r)) = ReportsOf(p, q)
  BY <1>1, <1>2 DEF ReportsOf
<1>4. \A i \in ReportsOf(p, q) : i \in Nat /\ i < End(q) /\ With(q, r)[i] = q[i]
  BY <1>1 DEF ReportsOf
<1>5. End(q) \in Nat /\ With(q, r)[End(q)] = r BY <1>1
<1> QED BY <1>3, <1>4, <1>5

\* A report is about the facts of its own plugin.
LEMMA AfterOther ==
  ASSUME NEW k, NEW q \in Seq(Report), NEW r \in Report, NEW p \in Plugins,
         r.from # p
  PROVE  After(k, With(q, r))[p] = After(k, q)[p]
<1>1. /\ ReportsOf(p, With(q, r)) = ReportsOf(p, q)
      /\ \A i \in ReportsOf(p, q) : With(q, r)[i] = q[i]
  BY Appended
<1> QED BY <1>1 DEF After

\* What a report tells of a fact is what counts of it; of the others, what counted
\* before.
LEMMA AfterOwn ==
  ASSUME NEW k, NEW q \in Seq(Report), NEW r \in Report
  PROVE  \A f \in Facts :
           f \in After(k, With(q, r))[r.from] <=>
             \/ f \in r.add
             \/ ~Tells(r, f) /\ f \in After(k, q)[r.from]
<1> DEFINE p == r.from
           a == With(q, r)
           n == End(q)
<1>1. p \in Plugins BY DEF Report
<1>2. /\ ReportsOf(p, a) = ReportsOf(p, q) \cup {n} /\ a[n] = r /\ n \in Nat
      /\ \A i \in ReportsOf(p, q) : i < n /\ a[i] = q[i] /\ i \in Nat
  BY <1>1, Appended
<1> HIDE DEF a, n
<1> SUFFICES ASSUME NEW f \in Facts
             PROVE  f \in After(k, a)[p] <=>
                      \/ f \in r.add
                      \/ ~Tells(r, f) /\ f \in After(k, q)[p]
  BY DEF a
<1>3. f \in After(k, a)[p] <=>
        \/ \E i \in ReportsOf(p, a) :
             /\ f \in a[i].add
             /\ \A j \in ReportsOf(p, a) : i < j => ~Tells(a[j], f)
        \/ f \in k[p] /\ \A j \in ReportsOf(p, a) : ~Tells(a[j], f)
  BY <1>1 DEF After
<1>4. f \in After(k, q)[p] <=>
        \/ \E i \in ReportsOf(p, q) :
             /\ f \in q[i].add
             /\ \A j \in ReportsOf(p, q) : i < j => ~Tells(q[j], f)
        \/ f \in k[p] /\ \A j \in ReportsOf(p, q) : ~Tells(q[j], f)
  BY <1>1 DEF After
<1>5. f \in r.add => f \in After(k, a)[p]
  <2>1. ~(n < n) /\ \A j \in ReportsOf(p, q) : ~(n < j) BY <1>2
  <2> QED BY <1>2, <1>3, <2>1
<1>6. ~Tells(r, f) /\ f \in After(k, q)[p] => f \in After(k, a)[p]
  BY <1>2, <1>3, <1>4
<1>7. f \in After(k, a)[p] /\ f \notin r.add =>
        ~Tells(r, f) /\ f \in After(k, q)[p]
  BY <1>2, <1>3, <1>4
<1> QED BY <1>5, <1>6, <1>7

\* The same of a report that is sent only when there is something in it.
Sent(q, r) == IF Changed(r) THEN With(q, r) ELSE q

LEMMA AfterSent ==
  ASSUME NEW k, NEW q \in Seq(Report), NEW r \in Report
  PROVE  \A f \in Facts :
           f \in After(k, Sent(q, r))[r.from] <=>
             \/ f \in r.add
             \/ ~Tells(r, f) /\ f \in After(k, q)[r.from]
<1>1. CASE Changed(r)
  <2>1. Sent(q, r) = With(q, r) BY <1>1 DEF Sent
  <2> QED BY <2>1, AfterOwn
<1>2. CASE ~Changed(r)
  <2>1. Sent(q, r) = q BY <1>2 DEF Sent
  <2>2. r.add = {} /\ \A f \in Facts : ~Tells(r, f) BY <1>2 DEF Changed, Tells
  <2> QED BY <2>1, <2>2
<1> QED BY <1>1, <1>2

LEMMA ReportMade ==
  ASSUME NEW p \in Plugins, NEW a \in SUBSET Facts, NEW b \in SUBSET Facts
  PROVE  /\ Whole(p, b) \in Report /\ Whole(p, b).from = p
         /\ Diff(p, a, b) \in Report /\ Diff(p, a, b).from = p
<1>1. b \ a \in SUBSET Facts /\ a \ b \in SUBSET Facts /\ {} \in SUBSET Facts
  OBVIOUS
<1>2. Whole(p, b) \in Report /\ Whole(p, b).from = p BY <1>1 DEF Report, Whole
<1>3. Diff(p, a, b) \in Report /\ Diff(p, a, b).from = p BY <1>1 DEF Report, Diff
<1> QED BY <1>2, <1>3

\* A whole report leaves nothing else.
LEMMA AfterWhole ==
  ASSUME NEW k, NEW q \in Seq(Report), NEW p \in Plugins, NEW b \in SUBSET Facts
  PROVE  After(k, Sent(q, Whole(p, b)))[p] = b
<1>1. Whole(p, b) \in Report /\ Whole(p, b).from = p BY ReportMade
<1>2. Whole(p, b).add = b /\ \A f \in Facts : Tells(Whole(p, b), f)
  BY DEF Whole, Tells
<1>3. \A f \in Facts : f \in After(k, Sent(q, Whole(p, b)))[p] <=> f \in b
  BY <1>1, <1>2, AfterSent
<1>4. After(k, Sent(q, Whole(p, b)))[p] \subseteq Facts BY DEF After
<1> QED BY <1>3, <1>4

\* A difference turns what it was built from into what it was built for.
LEMMA AfterDiff ==
  ASSUME NEW k, NEW q \in Seq(Report), NEW p \in Plugins, NEW a \in SUBSET Facts,
         NEW b \in SUBSET Facts, After(k, q)[p] = a
  PROVE  After(k, Sent(q, Diff(p, a, b)))[p] = b
<1>1. Diff(p, a, b) \in Report /\ Diff(p, a, b).from = p BY ReportMade
<1>2. /\ Diff(p, a, b).add = b \ a
      /\ \A f \in Facts : Tells(Diff(p, a, b), f) <=> f \in (b \ a) \cup (a \ b)
  BY DEF Diff, Tells
<1>3. \A f \in Facts : f \in After(k, Sent(q, Diff(p, a, b)))[p] <=> f \in b
  BY <1>1, <1>2, AfterSent
<1>4. After(k, Sent(q, Diff(p, a, b)))[p] \subseteq Facts BY DEF After
<1> QED BY <1>3, <1>4

\* Only the reports of a plugin, and their order, count for it.
LEMMA AfterSame ==
  ASSUME NEW k, NEW q, NEW s, NEW p \in Plugins, SameReports(p, q, s),
         ReportsOf(p, q) \subseteq Nat, ReportsOf(p, s) \subseteq Nat
  PROVE  After(k, q)[p] = After(k, s)[p]
<1>1. PICK h \in [ReportsOf(p, q) -> ReportsOf(p, s)] :
        /\ \A j \in ReportsOf(p, s) : \E i \in ReportsOf(p, q) : h[i] = j
        /\ \A i, j \in ReportsOf(p, q) : i < j => h[i] < h[j]
        /\ \A i \in ReportsOf(p, q) : s[h[i]] = q[i]
  BY DEF SameReports
<1>2. \A i, j \in ReportsOf(p, q) : i < j <=> h[i] < h[j]
  <2> SUFFICES ASSUME NEW i \in ReportsOf(p, q), NEW j \in ReportsOf(p, q),
                      h[i] < h[j], ~(i < j)
               PROVE  FALSE
    BY <1>1
  <2>1. i \in Nat /\ j \in Nat /\ h[i] \in Nat /\ h[j] \in Nat OBVIOUS
  <2>2. i = j \/ j < i BY <2>1
  <2> QED BY <1>1, <2>1, <2>2
<1> SUFFICES ASSUME NEW f \in Facts
             PROVE  f \in After(k, q)[p] <=> f \in After(k, s)[p]
  BY DEF After
<1>3. (\A j \in ReportsOf(p, q) : ~Tells(q[j], f))
        <=> (\A j \in ReportsOf(p, s) : ~Tells(s[j], f))
  BY <1>1
<1>4. ASSUME NEW i \in ReportsOf(p, q)
      PROVE  (\A j \in ReportsOf(p, q) : i < j => ~Tells(q[j], f))
               <=> (\A j \in ReportsOf(p, s) : h[i] < j => ~Tells(s[j], f))
  BY <1>1, <1>2
<1>5. (\E i \in ReportsOf(p, q) :
         /\ f \in q[i].add
         /\ \A j \in ReportsOf(p, q) : i < j => ~Tells(q[j], f))
        <=> (\E i \in ReportsOf(p, s) :
               /\ f \in s[i].add
               /\ \A j \in ReportsOf(p, s) : i < j => ~Tells(s[j], f))
  BY <1>1, <1>4
<1> QED BY <1>3, <1>5 DEF After

-----------------------------------------------------------------------------
(***************************************************************************)
(* The State and the files that hold it.                                   *)
(***************************************************************************)

\* What a plugin may have saved.
Savable == {None} \cup SUBSET Facts

LEMMA NoneIsNoReport ==
  /\ None \notin SUBSET Facts
  /\ \A s \in SUBSET Facts : s # None /\ s \in Savable
  /\ None \in Savable /\ \A v \in Savable : v # None => v \in SUBSET Facts
BY ReportingAssumptions DEF None, Savable

LEMMA StateFields ==
  ASSUME NEW s \in State
  PROVE  s.out \in Nat /\ s.saved \in [Saving -> Savable]
BY DEF State, Savable

LEMMA StateMade ==
  ASSUME NEW n \in Nat, NEW f \in [Saving -> Savable]
  PROVE  /\ [out |-> n, saved |-> f] \in State
         /\ [out |-> n, saved |-> f].out = n /\ [out |-> n, saved |-> f].saved = f
BY DEF State, Savable

LEMMA NothingThere ==
  /\ NothingSaved \in [Saving -> Savable] /\ Fresh \in State
  /\ \A p \in Saving : Fresh.saved[p] = None /\ NothingSaved[p] = None
  /\ Fresh.out = 0 /\ Fresh.saved = NothingSaved
BY NoneIsNoReport, StateMade DEF NothingSaved, Fresh

LEMMA FileFields ==
  /\ \A x \in File : x.state \in State /\ x.kind \in {"missing", "bad", "good"}
  /\ Missing \in File /\ Bad \in File
  /\ Missing.kind = "missing" /\ Bad.kind = "bad"
  /\ Missing.state = Fresh /\ Bad.state = Fresh
BY NothingThere DEF File, Missing, Bad

LEMMA GoodFile ==
  ASSUME NEW s \in State
  PROVE  Good(s) \in File /\ Good(s).kind = "good" /\ Good(s).state = s
BY DEF File, Good

LEMMA LockFields ==
  /\ \A m \in Lock : /\ m.who \in Writers \cup {"nobody"}
                     /\ m.step \in {"none", "temp", "rename"}
                     /\ m.state \in State
  /\ Free \in Lock /\ Free.step = "none"
BY NothingThere DEF Lock, Free

Held(w, s) == [who |-> w, step |-> "temp", state |-> s]

LEMMA LockMade ==
  ASSUME NEW w \in Writers, NEW s \in State
  PROVE  /\ Held(w, s) \in Lock
         /\ Held(w, s).who = w /\ Held(w, s).step = "temp" /\ Held(w, s).state = s
         /\ Held(w, s) # Free
BY LockFields DEF Lock, Held

LEMMA LockStep ==
  ASSUME NEW m \in Lock
  PROVE  /\ [m EXCEPT !.step = "rename"] \in Lock
         /\ [m EXCEPT !.step = "rename"].who = m.who
         /\ [m EXCEPT !.step = "rename"].step = "rename"
         /\ [m EXCEPT !.step = "rename"].state = m.state
BY DEF Lock

\* What a plugin and what the exchange write.
LEMMA PluginWrites ==
  ASSUME NEW p \in Saving, file \in File, seen[p] \in SUBSET Facts
  PROVE  /\ SetPluginState(p) \in State
         /\ SetPluginState(p).out = file.state.out
         /\ SetPluginState(p).saved = [file.state.saved EXCEPT ![p] = seen[p]]
<1>1. file.state \in State BY FileFields
<1>2. [file.state.saved EXCEPT ![p] = seen[p]] \in [Saving -> Savable]
  BY <1>1, StateFields, NoneIsNoReport
<1> QED BY <1>1, <1>2 DEF SetPluginState, State, Savable

LEMMA ExchangeWrites ==
  ASSUME file \in File, mem \in State
  PROVE  /\ SetExchangeState \in State /\ SetExchangeState.out = mem.out
         /\ SetExchangeState.saved = MergedPluginState
<1>1. file.state \in State BY FileFields
<1>2. MergedPluginState \in [Saving -> Savable]
  BY <1>1, StateFields DEF MergedPluginState
<1> QED BY <1>2, StateFields, StateMade DEF SetExchangeState

-----------------------------------------------------------------------------
(***************************************************************************)
(* The types.                                                              *)
(***************************************************************************)
Safe == TypeOK /\ Writing /\ Loop /\ Reporters

LEMMA WriterIsOne ==
  /\ \A p \in Plugins : p # "exchange"
  /\ Hashed \subseteq Saving /\ Diffed \subseteq Saving /\ Saving \subseteq Plugins
  /\ Scanned \subseteq Plugins
  /\ \A w \in Writers : w # "exchange" => w \in Saving
  /\ \A p \in Diffed : p \notin Hashed
  /\ \A p \in Scanned : p \notin Saving
BY ReportingAssumptions DEF Plugins, Saving, Writers

LEMMA LoadedType ==
  ASSUME file \in File, old \in File
  PROVE  /\ Loaded \in State
         /\ \A p \in Plugins : Remembered(p) \in Savable
<1>1. Loaded \in State BY FileFields DEF Loaded
<1> QED BY <1>1, StateFields, NoneIsNoReport DEF Remembered

LEMMA InitTyped == Init => TypeOK
<1> SUFFICES ASSUME Init PROVE TypeOK OBVIOUS
<1>1. <<>> \in Seq(Report) OBVIOUS
<1>2. prev \in [Plugins -> {None} \cup SUBSET Facts] BY DEF Init
<1> QED BY <1>1, <1>2, FileFields, NothingThere, LockFields, ReportingAssumptions
      DEF Init, TypeOK

LEMMA TypeStep == Safe /\ [Next]_vars => TypeOK'
<1> SUFFICES ASSUME Safe, [Next]_vars PROVE TypeOK'
  OBVIOUS
<1>ty. TypeOK BY DEF Safe
<1>fd. \A x : Fault(x) => faults' \in 0..MaxFaults
  <2>1. faults \in 0..MaxFaults /\ MaxFaults \in Nat
    BY <1>ty, ReportingAssumptions DEF TypeOK
  <2> QED BY <2>1 DEF Fault
<1>who. mutex # Free => mutex.who \in Writers BY DEF Safe, Writing
<1>step. mutex.step # "none" => mutex # Free BY LockFields
<1>1. ASSUME NEW p \in Plugins, Change(p) PROVE TypeOK'
  <2>1. PICK s \in SUBSET Facts : world' = [world EXCEPT ![p] = s]
    BY <1>1 DEF Change
  <2>2. world' \in [Plugins -> SUBSET Facts] BY <1>ty, <2>1 DEF TypeOK
  <2>3. changes' \in 0..MaxChanges
    BY <1>1, <1>ty, ReportingAssumptions DEF Change, TypeOK
  <2> QED BY <1>1, <1>ty, <2>2, <2>3 DEF Change, TypeOK, Wants
<1>2. ASSUME NEW p \in Plugins, TickHashed(p) PROVE TypeOK'
  <2>1. seen' \in [Plugins -> SUBSET Facts] /\ pc' \in [Plugins -> {"idle", "save", "send"}]
    BY <1>2, <1>ty DEF TickHashed, Goto, TypeOK
  <2>2. mutex' # Free => mutex'.step # "none" /\ Wants(mutex.who)'
    BY <1>2, <1>ty, <1>who, WriterIsOne DEF TickHashed, Goto, TypeOK, Wants
  <2> QED BY <1>2, <1>ty, <2>1, <2>2 DEF TickHashed, TypeOK
<1>3. ASSUME NEW p \in Plugins, SendHashed(p) PROVE TypeOK'
  <2>1. prev[p] \in SUBSET Facts
    BY <1>3, <1>ty, NoneIsNoReport DEF SendHashed, Safe, Reporters, Ticking, TypeOK, Savable
  <2>2. Whole(p, prev[p]) \in Report BY <2>1, ReportMade
  <2>3. queue' \in Seq(Report) BY <1>3, <1>ty, <2>2 DEF SendHashed, Send, TypeOK
  <2>4. /\ gap' \in [Plugins -> BOOLEAN]
        /\ pc' \in [Plugins -> {"idle", "save", "send"}]
    BY <1>3, <1>ty DEF SendHashed, Goto, TypeOK
  <2>5. mutex' # Free => mutex'.step # "none" /\ Wants(mutex.who)'
    BY <1>3, <1>ty, <1>who, WriterIsOne DEF SendHashed, Goto, TypeOK, Wants
  <2> QED BY <1>3, <1>ty, <2>3, <2>4, <2>5 DEF SendHashed, TypeOK
<1>4. ASSUME NEW p \in Plugins, TickDiffed(p) PROVE TypeOK'
  <2>1. Diff(p, Base(p), world[p]) \in Report
    <3>1. world[p] \in SUBSET Facts /\ Base(p) \in SUBSET Facts
      BY <1>ty DEF TypeOK, Base
    <3> QED BY <3>1, ReportMade
  <2>2. queue' \in Seq(Report) BY <1>4, <1>ty, <2>1 DEF TickDiffed, Send, TypeOK
  <2>3. /\ seen' \in [Plugins -> SUBSET Facts]
        /\ prev' \in [Plugins -> {None} \cup SUBSET Facts]
        /\ pc' \in [Plugins -> {"idle", "save", "send"}]
    BY <1>4, <1>ty DEF TickDiffed, Goto, TypeOK
  <2>4. mutex' # Free => mutex'.step # "none" /\ Wants(mutex.who)'
    BY <1>4, <1>ty, <1>who, WriterIsOne DEF TickDiffed, Goto, TypeOK, Wants
  <2> QED BY <1>4, <1>ty, <2>2, <2>3, <2>4 DEF TickDiffed, TypeOK
<1>5. ASSUME NEW p \in Plugins, TickScanned(p) PROVE TypeOK'
  <2>1. Scan(p) \in Report
    <3>1. world[p] \in SUBSET Facts /\ (prev[p] # None => prev[p] \in SUBSET Facts)
      BY <1>ty DEF TypeOK
    <3> QED BY <3>1, ReportMade DEF Scan
  <2>2. queue' \in Seq(Report) BY <1>5, <1>ty, <2>1 DEF TickScanned, Send, TypeOK
  <2>3. prev' \in [Plugins -> {None} \cup SUBSET Facts]
    BY <1>5, <1>ty DEF TickScanned, TypeOK
  <2>4. gap' \in [Plugins -> BOOLEAN]
    BY <1>5, <1>ty DEF TickScanned, TypeOK
  <2> QED BY <1>5, <1>ty, <2>2, <2>3, <2>4 DEF TickScanned, TypeOK, Wants
<1>6. ASSUME NEW p \in Plugins, Panic(p) PROVE TypeOK'
  <2>1. Remembered(p) \in {None} \cup SUBSET Facts
    BY <1>ty, LoadedType DEF TypeOK, Savable
  <2>2. prev' \in [Plugins -> {None} \cup SUBSET Facts]
    BY <1>6, <1>ty, <2>1 DEF Panic, TypeOK
  <2>3. gap' \in [Plugins -> BOOLEAN] BY <1>6, <1>ty DEF Panic, TypeOK
  <2>4. faults' \in 0..MaxFaults BY <1>6, <1>fd DEF Panic
  <2> QED BY <1>6, <1>ty, <2>2, <2>3, <2>4 DEF Panic, TypeOK, Wants
<1>7. ASSUME NEW w \in Writers, NEW l \in {"idle", "send"}, Wants(w), GoesOn(w, l),
             TypeOK
      PROVE  /\ pc' \in [Plugins -> {"idle", "save", "send"}]
             /\ seen' \in [Plugins -> SUBSET Facts]
             /\ xpc' \in {"idle", "update", "spool"}
             /\ w # "exchange" => seen[w] \in SUBSET Facts
  <2>1. CASE w = "exchange" BY <1>7, <2>1 DEF GoesOn, TypeOK
  <2>2. CASE w # "exchange"
    <3>1. w \in Plugins BY <2>2, WriterIsOne
    <3> QED BY <1>7, <2>2, <3>1 DEF GoesOn, Goto, TypeOK
  <2> QED BY <2>1, <2>2
<1>8. ASSUME NEW w \in Writers, BeginUpdate(w) PROVE TypeOK'
  <2>1. CASE file.kind = "bad"
    <3>1. GoesOn(w, "idle") /\ UNCHANGED <<prev, mutex>> /\ mutex = Free
      BY <1>8, <2>1 DEF BeginUpdate, NotSaved
    <3>2. Wants(w) BY <1>8 DEF BeginUpdate
    <3>3. /\ pc' \in [Plugins -> {"idle", "save", "send"}]
          /\ seen' \in [Plugins -> SUBSET Facts]
          /\ xpc' \in {"idle", "update", "spool"}
      BY <1>7, <1>ty, <3>1, <3>2
    <3> QED BY <1>8, <1>ty, <3>1, <3>3 DEF BeginUpdate, TypeOK
  <2>2. CASE file.kind # "bad"
    <3> DEFINE st == IF w = "exchange" THEN SetExchangeState ELSE SetPluginState(w)
    <3>1. mutex' = Held(w, st) /\ UNCHANGED <<pluginVars, xpc>> /\ Wants(w)
      BY <1>8, <2>2 DEF BeginUpdate, Held
    <3>2. st \in State
      <4>1. CASE w = "exchange" BY <1>ty, <4>1, ExchangeWrites DEF TypeOK
      <4>2. CASE w # "exchange"
        BY <1>ty, <4>2, WriterIsOne, PluginWrites DEF TypeOK
      <4> QED BY <4>1, <4>2
    <3> HIDE DEF st
    <3>3. mutex' \in Lock /\ mutex'.step = "temp" /\ mutex'.who = w
      BY <3>1, <3>2, LockMade
    <3> QED BY <1>8, <1>ty, <3>1, <3>3 DEF BeginUpdate, TypeOK, Wants
  <2> QED BY <2>1, <2>2
<1>9. ASSUME WriteTemp PROVE TypeOK'
  <2>1. mutex' \in Lock /\ mutex'.step = "rename" /\ mutex'.who = mutex.who /\ mutex # Free
    BY <1>9, <1>ty, <1>step, LockStep DEF WriteTemp, TypeOK
  <2> QED BY <1>9, <1>ty, <2>1 DEF WriteTemp, TypeOK, Wants, FileMeanwhile
<1>10. ASSUME Rename PROVE TypeOK'
  <2> DEFINE w == mutex.who
             l == IF w \in Hashed THEN "send" ELSE "idle"
  <2>1. mutex # Free BY <1>10, <1>step DEF Rename
  <2>2. w \in Writers /\ Wants(w) BY <1>who, <1>ty, <2>1 DEF TypeOK
  <2>3. GoesOn(w, l) /\ Remember(w) /\ mutex' = Free BY <1>10 DEF Rename, HasSaved
  <2>4. l \in {"idle", "send"} OBVIOUS
  <2> HIDE DEF w, l
  <2>5. /\ pc' \in [Plugins -> {"idle", "save", "send"}]
        /\ seen' \in [Plugins -> SUBSET Facts]
        /\ xpc' \in {"idle", "update", "spool"}
        /\ w # "exchange" => seen[w] \in SUBSET Facts
    BY <1>7, <1>ty, <2>2, <2>3, <2>4
  <2>6. prev' \in [Plugins -> {None} \cup SUBSET Facts]
    BY <1>ty, <2>3, <2>5 DEF Remember, TypeOK
  <2>7. file' \in File
    BY <1>10, <1>ty, LockFields, GoodFile DEF Rename, TypeOK
  <2>8. old' \in File BY <1>10, <1>ty, FileFields DEF Rename, TypeOK
  <2>9. faults' \in 0..MaxFaults BY <1>10, <1>fd, <1>ty DEF Rename, TypeOK
  <2> QED BY <1>10, <1>ty, <2>3, <2>5, <2>6, <2>7, <2>8, <2>9, LockFields
        DEF Rename, TypeOK
<1>11. ASSUME SaveFails PROVE TypeOK'
  <2>1. mutex # Free BY <1>11, <1>step DEF SaveFails
  <2>2. mutex.who \in Writers /\ Wants(mutex.who) BY <1>who, <1>ty, <2>1 DEF TypeOK
  <2>3. GoesOn(mutex.who, "idle") /\ UNCHANGED prev /\ mutex' = Free
    BY <1>11 DEF SaveFails, NotSaved, Unlocked
  <2>4. /\ pc' \in [Plugins -> {"idle", "save", "send"}]
        /\ seen' \in [Plugins -> SUBSET Facts]
        /\ xpc' \in {"idle", "update", "spool"}
    BY <1>7, <1>ty, <2>2, <2>3
  <2>5. old' \in File BY <1>11, <1>ty DEF SaveFails, TypeOK
  <2>6. faults' \in 0..MaxFaults BY <1>11, <1>fd DEF SaveFails
  <2> QED BY <1>11, <1>ty, <2>3, <2>4, <2>5, <2>6, LockFields DEF SaveFails, TypeOK
<1>12. <<>> \in Seq(Report) OBVIOUS
<1>13. ASSUME Deliver PROVE TypeOK'
  <2>1. known' \in [Plugins -> SUBSET Facts] BY <1>13, AfterType DEF Deliver
  <2>2. mem' \in State
    <3>1. mem.out + Len(queue) \in Nat BY <1>ty, StateFields DEF TypeOK
    <3>2. mem' = [mem EXCEPT !.out = mem.out + Len(queue)] BY <1>13 DEF Deliver
    <3> QED BY <1>ty, <3>1, <3>2 DEF TypeOK, State
  <2>3. mutex' # Free => mutex'.step # "none" /\ Wants(mutex.who)'
    BY <1>13, <1>ty, <1>who, WriterIsOne DEF Deliver, Due, Taken, TypeOK, Wants
  <2> QED BY <1>12, <1>13, <1>ty, <2>1, <2>2, <2>3 DEF Deliver, Taken, TypeOK
<1>14. ASSUME DeliverReset PROVE TypeOK'
  <2>1. mem' \in State
    <3>1. mem.out + Len(queue) \in Nat BY <1>ty, StateFields DEF TypeOK
    <3> QED BY <1>14, <3>1, NothingThere, StateMade DEF DeliverReset
  <2>2. /\ known' \in [Plugins -> SUBSET Facts] /\ gap' \in [Plugins -> BOOLEAN]
        /\ faults' \in 0..MaxFaults
    BY <1>14, <1>fd DEF DeliverReset
  <2>3. mutex' # Free => mutex'.step # "none" /\ Wants(mutex.who)'
    BY <1>14, <1>ty, <1>who, WriterIsOne DEF DeliverReset, Due, Taken, TypeOK, Wants
  <2> QED BY <1>12, <1>14, <1>ty, <2>1, <2>2, <2>3 DEF DeliverReset, Taken, TypeOK
<1>15. ASSUME Refused PROVE TypeOK'
  <2>1. faults' \in 0..MaxFaults BY <1>15, <1>fd DEF Refused
  <2>2. mutex' # Free => mutex'.step # "none" /\ Wants(mutex.who)'
    BY <1>15, <1>ty, <1>who, WriterIsOne DEF Refused, Due, TypeOK, Wants
  <2> QED BY <1>15, <1>ty, <2>1, <2>2 DEF Refused, TypeOK
<1>16. ASSUME WriteSpool PROVE TypeOK'
  <2>1. mutex' # Free => mutex'.step # "none" /\ Wants(mutex.who)'
    BY <1>16, <1>ty, <1>who, WriterIsOne DEF WriteSpool, TypeOK, Wants
  <2> QED BY <1>16, <1>ty, <2>1 DEF WriteSpool, TypeOK
<1>17. ASSUME Crash PROVE TypeOK'
  <2>1. Loaded \in State /\ \A p \in Plugins : Remembered(p) \in {None} \cup SUBSET Facts
    BY <1>ty, LoadedType DEF TypeOK, Savable
  <2>2. prev' \in [Plugins -> {None} \cup SUBSET Facts] BY <1>17, <2>1 DEF Crash
  <2>3. old' \in File BY <1>17, <1>ty, FileFields DEF Crash, TypeOK
  <2>4. up' \in BOOLEAN BY <1>17 DEF Crash, CanLoad
  <2>5. gap' \in [Plugins -> BOOLEAN] BY <1>17, <1>ty DEF Crash, Lost, TypeOK
  <2>6. faults' \in 0..MaxFaults BY <1>17, <1>fd DEF Crash
  <2>7. /\ pc' \in [Plugins -> {"idle", "save", "send"}]
        /\ seen' \in [Plugins -> SUBSET Facts]
    BY <1>17 DEF Crash
  <2> QED BY <1>17, <1>ty, <2>1, <2>2, <2>3, <2>4, <2>5, <2>6, <2>7, LockFields
        DEF Crash, TypeOK
<1>18. ASSUME Corrupt PROVE TypeOK'
  <2>1. faults' \in 0..MaxFaults BY <1>18, <1>fd DEF Corrupt
  <2> QED BY <1>18, <1>ty, <2>1, FileFields DEF Corrupt, TypeOK, Wants
<1>19. CASE UNCHANGED vars BY <1>19, <1>ty DEF vars, TypeOK, Wants
<1> QED BY <1>1, <1>2, <1>3, <1>4, <1>5, <1>6, <1>8, <1>9, <1>10, <1>11, <1>13,
           <1>14, <1>15, <1>16, <1>17, <1>18, <1>19 DEF Next, PluginStep, SaveStep

-----------------------------------------------------------------------------
(***************************************************************************)
(* What is being written.                                                  *)
(***************************************************************************)
LEMMA WritingStep == Safe /\ [Next]_vars => Writing'
<1> SUFFICES ASSUME Safe, [Next]_vars, mutex' # Free PROVE Writing'
  BY DEF Writing
<1>ty. TypeOK BY DEF Safe
<1>wr. mutex # Free =>
         /\ mutex.who \in Writers /\ file.kind # "bad"
         /\ file.state.out <= mutex.state.out /\ mutex.state.out <= mem.out
         /\ mutex.who # "exchange" => mutex.state.out = file.state.out
         /\ \A p \in Saving :
              mutex.state.saved[p] = IF p = mutex.who THEN seen[p]
                                     ELSE file.state.saved[p]
  BY DEF Safe, Writing
<1>n. /\ mem.out \in Nat /\ mutex.state.out \in Nat /\ file.state.out \in Nat
      /\ Len(queue) \in Nat
  BY <1>ty, LockFields, FileFields, StateFields DEF TypeOK
<1>1. ASSUME UNCHANGED <<mutex, file, mem, seen>> PROVE Writing'
  BY <1>1, <1>wr DEF Writing
<1>2. ASSUME NEW p \in Plugins, pc[p] = "idle", seen' = [seen EXCEPT ![p] = world[p]],
             UNCHANGED <<mutex, file, mem>>
      PROVE  Writing'
  <2>1. mutex # Free BY <1>2
  <2>2. mutex.who # p BY <1>2, <1>ty, <2>1, WriterIsOne DEF TypeOK, Wants
  <2>3. \A q \in Saving : q # p => seen'[q] = seen[q]
    BY <1>2, <1>ty, WriterIsOne DEF TypeOK
  <2> QED BY <1>2, <1>wr, <2>1, <2>2, <2>3 DEF Writing
<1>3. ASSUME NEW w \in Writers, BeginUpdate(w) PROVE Writing'
  <2>1. file.kind # "bad" BY <1>3 DEF BeginUpdate
  <2>2. CASE w = "exchange"
    <3>1. mutex' = Held(w, SetExchangeState) /\ UNCHANGED <<file, mem, seen>>
      BY <1>3, <2>1, <2>2 DEF BeginUpdate, Held
    <3>2. /\ SetExchangeState \in State /\ SetExchangeState.out = mem.out
          /\ SetExchangeState.saved = MergedPluginState
      BY <1>ty, ExchangeWrites DEF TypeOK
    <3>3. mutex'.who = "exchange" /\ mutex'.state = SetExchangeState
      BY <2>2, <3>1, <3>2, LockMade
    <3>4. /\ file.state.out <= mem.out
          /\ \A p \in Saving : file.state.saved[p] = None => mem.saved[p] = None
      BY <2>1 DEF Safe, Loop
    <3>5. \A p \in Saving : MergedPluginState[p] = file.state.saved[p] /\ p # "exchange"
      BY <3>4, WriterIsOne DEF MergedPluginState
    <3> QED BY <1>n, <2>1, <2>2, <3>1, <3>2, <3>3, <3>4, <3>5 DEF Writing
  <2>3. CASE w # "exchange"
    <3>1. mutex' = Held(w, SetPluginState(w)) /\ UNCHANGED <<file, mem, seen>>
      BY <1>3, <2>1, <2>3 DEF BeginUpdate, Held
    <3>2. w \in Saving /\ w \in Plugins /\ seen[w] \in SUBSET Facts
      BY <1>ty, <2>3, WriterIsOne DEF TypeOK
    <3>3. /\ SetPluginState(w) \in State
          /\ SetPluginState(w).out = file.state.out
          /\ SetPluginState(w).saved = [file.state.saved EXCEPT ![w] = seen[w]]
      BY <1>ty, <3>2, PluginWrites DEF TypeOK
    <3>4. mutex'.who = w /\ mutex'.state = SetPluginState(w)
      BY <3>1, <3>3, LockMade
    <3>5. file.state.saved \in [Saving -> Savable]
      BY <1>ty, FileFields, StateFields DEF TypeOK
    <3>6. \A p \in Saving : SetPluginState(w).saved[p] =
                              IF p = w THEN seen[p] ELSE file.state.saved[p]
      BY <3>2, <3>3, <3>5
    <3>7. file.state.out <= mem.out BY <2>1 DEF Safe, Loop
    <3>8. /\ file'.state.out <= mutex'.state.out /\ mutex'.state.out <= mem'.out
          /\ mutex'.state.out = file'.state.out
      BY <1>n, <3>1, <3>3, <3>4, <3>7
    <3>9. \A p \in Saving : mutex'.state.saved[p] = IF p = mutex'.who THEN seen'[p]
                                                    ELSE file'.state.saved[p]
      BY <3>1, <3>4, <3>6
    <3> QED BY <2>1, <3>1, <3>4, <3>8, <3>9 DEF Writing
  <2> QED BY <2>2, <2>3
<1>4. ASSUME WriteTemp PROVE Writing'
  <2>1. /\ mutex'.who = mutex.who /\ mutex'.state = mutex.state
        /\ mutex # Free
    BY <1>4, <1>ty, LockFields, LockStep DEF WriteTemp, TypeOK
  <2> QED BY <1>4, <1>wr, <2>1 DEF WriteTemp, FileMeanwhile, Writing
<1>5. ASSUME mem'.out = mem.out + Len(queue), UNCHANGED <<mutex, file, seen>>
      PROVE  Writing'
  <2>1. mutex.state.out <= mem.out => mutex.state.out <= mem.out + Len(queue) BY <1>n
  <2> QED BY <1>5, <1>wr, <2>1 DEF Writing
<1>6. ASSUME Deliver PROVE Writing'
  <2>1. mem'.out = mem.out + Len(queue)
    <3>1. mem' = [mem EXCEPT !.out = mem.out + Len(queue)] BY <1>6 DEF Deliver
    <3> QED BY <1>ty, <3>1 DEF TypeOK, State
  <2> QED BY <1>5, <1>6, <2>1 DEF Deliver
<1>7. ASSUME DeliverReset PROVE Writing'
  BY <1>5, <1>7 DEF DeliverReset
<1>8. ASSUME NEW p \in Plugins, Change(p) \/ PluginStep(p) \/ Panic(p) PROVE Writing'
  BY <1>1, <1>2, <1>8
     DEF Change, PluginStep, TickHashed, SendHashed, TickDiffed, TickScanned, Panic
<1>9. ~Rename /\ ~SaveFails /\ ~Crash BY DEF Rename, SaveFails, Crash, Unlocked
<1>10. ASSUME Refused \/ WriteSpool PROVE Writing'
  BY <1>1, <1>10 DEF Refused, WriteSpool
<1>11. ~Corrupt BY DEF Corrupt
<1>12. CASE UNCHANGED vars BY <1>1, <1>12 DEF vars
<1> QED BY <1>3, <1>4, <1>6, <1>7, <1>8, <1>9, <1>10, <1>11, <1>12 DEF Next, SaveStep

\* What a save puts into the file.
LEMMA Renamed ==
  ASSUME Safe, Rename
  PROVE  /\ mutex # Free /\ mutex.who \in Writers /\ file.kind # "bad"
         /\ file'.kind = "good" /\ file'.state = mutex.state
         /\ file.state.out <= file'.state.out /\ file'.state.out <= mem.out
         /\ mutex.who # "exchange" => file'.state.out = file.state.out
         /\ \A p \in Saving :
              /\ p = mutex.who => file'.state.saved[p] = seen[p]
              /\ p # mutex.who => file'.state.saved[p] = file.state.saved[p]
<1>1. mutex # Free BY LockFields DEF Rename
<1>2. mutex.state \in State BY LockFields DEF Safe, TypeOK
<1>3. file'.kind = "good" /\ file'.state = mutex.state BY <1>2, GoodFile DEF Rename
<1> QED BY <1>1, <1>3 DEF Safe, Writing

\* The exchange has what the file has.
LEMMA LoopStep == Safe /\ [Next]_vars => Loop'
<1> SUFFICES ASSUME Safe, [Next]_vars, file'.kind # "bad"
             PROVE  /\ file'.state.out <= mem'.out
                    /\ \A p \in Saving :
                         file'.state.saved[p] = None => mem'.saved[p] = None
  BY DEF Loop
<1>ty. TypeOK BY DEF Safe
<1>lp. file.kind # "bad" =>
         /\ file.state.out <= mem.out
         /\ \A p \in Saving : file.state.saved[p] = None => mem.saved[p] = None
  BY DEF Safe, Loop
<1>n. mem.out \in Nat /\ file.state.out \in Nat /\ Len(queue) \in Nat
  BY <1>ty, FileFields, StateFields DEF TypeOK
<1>1. CASE UNCHANGED <<file, mem>> BY <1>1, <1>lp
<1>2. CASE Rename
  <2>1. UNCHANGED mem BY <1>2 DEF Rename
  <2>2. \A p \in Saving : seen[p] # None
    BY <1>ty, NoneIsNoReport, WriterIsOne DEF TypeOK
  <2>3. /\ file.kind # "bad" /\ file'.state.out <= mem.out
        /\ \A p \in Saving :
              /\ p = mutex.who => file'.state.saved[p] = seen[p]
              /\ p # mutex.who => file'.state.saved[p] = file.state.saved[p]
    BY <1>2, Renamed
  <2> QED BY <1>lp, <2>1, <2>2, <2>3
<1>3. CASE Deliver
  <2>1. mem' = [mem EXCEPT !.out = mem.out + Len(queue)] /\ UNCHANGED file
    BY <1>3 DEF Deliver
  <2>2. mem'.out = mem.out + Len(queue) /\ mem'.saved = mem.saved
    BY <1>ty, <2>1 DEF TypeOK, State
  <2> QED BY <1>lp, <1>n, <2>1, <2>2
<1>4. CASE DeliverReset
  <2>1. /\ mem'.out = mem.out + Len(queue) /\ mem'.saved = NothingSaved
        /\ UNCHANGED file
    BY <1>4 DEF DeliverReset
  <2> QED BY <1>lp, <1>n, <2>1, NothingThere
<1>5. CASE Crash
  <2>1. mem' = Loaded /\ UNCHANGED file BY <1>5 DEF Crash
  <2>2. mem' = file.state BY <2>1 DEF Loaded
  <2> QED BY <1>n, <2>1, <2>2
<1>6. CASE Corrupt BY <1>6, FileFields DEF Corrupt
<1>7. ASSUME NEW w \in Writers, BeginUpdate(w) PROVE UNCHANGED <<file, mem>>
  BY <1>7 DEF BeginUpdate
<1>8. ASSUME NEW p \in Plugins, Change(p) \/ PluginStep(p) \/ Panic(p)
      PROVE  UNCHANGED <<file, mem>>
  BY <1>8 DEF Change, PluginStep, TickHashed, SendHashed, TickDiffed, TickScanned, Panic
<1>9. WriteTemp \/ SaveFails \/ Refused \/ WriteSpool \/ UNCHANGED vars
        => UNCHANGED <<file, mem>>
  BY DEF WriteTemp, FileMeanwhile, SaveFails, Refused, WriteSpool, vars
<1> QED BY <1>1, <1>2, <1>3, <1>4, <1>5, <1>6, <1>7, <1>8, <1>9 DEF Next, SaveStep

-----------------------------------------------------------------------------
(***************************************************************************)
(* What the plugins remember.                                              *)
(***************************************************************************)

\* How the tick of a plugin goes on when the lock is given back.
LEMMA Continues ==
  ASSUME TypeOK, NEW w \in Writers, NEW l, GoesOn(w, l), Wants(w)
  PROVE  /\ \A p \in Plugins : p # w => pc'[p] = pc[p] /\ seen'[p] = seen[p]
         /\ w # "exchange" => /\ w \in Saving /\ pc[w] = "save"
                              /\ pc'[w] = l /\ seen'[w] = {}
<1>1. CASE w = "exchange" BY <1>1, WriterIsOne DEF GoesOn
<1>2. CASE w # "exchange"
  BY <1>2, WriterIsOne DEF GoesOn, Goto, Wants, TypeOK
<1> QED BY <1>1, <1>2

\* An Update that does not save, and a save that goes through.
LEMMA Abandoned ==
  ASSUME Safe, NEW w \in Writers, NotSaved(w), Wants(w)
  PROVE  /\ UNCHANGED prev
         /\ \A p \in Plugins : \/ pc'[p] = pc[p] /\ seen'[p] = seen[p]
                               \/ pc[p] = "save" /\ pc'[p] = "idle"
<1>1. GoesOn(w, "idle") /\ UNCHANGED prev BY DEF NotSaved
<1>2. /\ \A p \in Plugins : p # w => pc'[p] = pc[p] /\ seen'[p] = seen[p]
      /\ w # "exchange" => pc[w] = "save" /\ pc'[w] = "idle"
  BY <1>1, Continues DEF Safe
<1> QED BY <1>1, <1>2, WriterIsOne

LEMMA Saved ==
  ASSUME Safe, Rename
  PROVE  /\ up
         /\ \A p \in Plugins : p # mutex.who =>
              pc'[p] = pc[p] /\ seen'[p] = seen[p] /\ prev'[p] = prev[p]
         /\ \A p \in Plugins : p = mutex.who =>
              /\ p \in Saving /\ pc[p] = "save" /\ prev'[p] = seen[p]
              /\ pc'[p] = IF p \in Hashed THEN "send" ELSE "idle"
<1> DEFINE w == mutex.who
           l == IF w \in Hashed THEN "send" ELSE "idle"
<1>1. /\ mutex # Free /\ w \in Writers BY Renamed
<1>2. GoesOn(w, l) /\ Remember(w) /\ up BY DEF Rename, HasSaved
<1>3. Wants(w) /\ TypeOK BY <1>1 DEF Safe, TypeOK
<1> HIDE DEF w, l
<1>4. /\ \A p \in Plugins : p # w => pc'[p] = pc[p] /\ seen'[p] = seen[p]
      /\ w # "exchange" => w \in Saving /\ pc[w] = "save" /\ pc'[w] = l
  BY <1>1, <1>2, <1>3, Continues
<1>5. \A p \in Plugins : prev'[p] = IF p = w THEN seen[p] ELSE prev[p]
  BY <1>2, <1>3, WriterIsOne DEF Remember, TypeOK
<1> QED BY <1>2, <1>4, <1>5, WriterIsOne DEF w, l

LEMMA TickingStep ==
  ASSUME Safe, [Next]_vars, NEW p \in Plugins
  PROVE  Ticking(p)'
<1>ty. TypeOK BY DEF Safe
<1>tk. /\ pc[p] = "save" => p \in Saving
       /\ pc[p] = "send" => p \in Hashed /\ prev[p] # None
       /\ p \in Diffed /\ pc[p] = "save" => seen[p] = prev[p]
       /\ p \in Hashed /\ up /\ file.kind # "bad" => prev[p] = file.state.saved[p]
  BY DEF Safe, Reporters, Ticking
<1>1. CASE UNCHANGED <<pc, seen, prev, up, file>> BY <1>1, <1>tk DEF Ticking
<1>2. ASSUME NEW q \in Plugins, TickHashed(q) PROVE Ticking(p)'
  <2>1. q \in Hashed /\ pc' = [pc EXCEPT ![q] = "save"] /\ UNCHANGED <<prev, up, file>>
        /\ seen' = [seen EXCEPT ![q] = world[q]]
    BY <1>2 DEF TickHashed, Goto
  <2>2. CASE p = q
    <3>1. pc'[p] = "save" /\ p \in Hashed BY <1>ty, <2>1, <2>2 DEF TypeOK
    <3> QED BY <1>tk, <2>1, <3>1, WriterIsOne DEF Ticking
  <2>3. CASE p # q
    <3>1. pc'[p] = pc[p] /\ seen'[p] = seen[p] BY <1>ty, <2>1, <2>3 DEF TypeOK
    <3> QED BY <1>tk, <2>1, <3>1 DEF Ticking
  <2> QED BY <2>2, <2>3
<1>3. ASSUME NEW q \in Plugins, SendHashed(q) PROVE Ticking(p)'
  <2>1. pc' = [pc EXCEPT ![q] = "idle"] /\ UNCHANGED <<prev, seen, up, file>>
    BY <1>3 DEF SendHashed, Goto
  <2>2. pc'[p] = IF p = q THEN "idle" ELSE pc[p] BY <1>ty, <2>1 DEF TypeOK
  <2> QED BY <1>tk, <2>1, <2>2 DEF Ticking
<1>4. ASSUME NEW q \in Plugins, TickDiffed(q) PROVE Ticking(p)'
  <2>1. /\ q \in Diffed /\ pc' = [pc EXCEPT ![q] = "save"] /\ UNCHANGED <<up, file>>
        /\ seen' = [seen EXCEPT ![q] = world[q]] /\ prev' = [prev EXCEPT ![q] = world[q]]
    BY <1>4 DEF TickDiffed, Goto
  <2>2. CASE p = q
    <3>1. pc'[p] = "save" /\ seen'[p] = prev'[p] /\ p \in Diffed
      BY <1>ty, <2>1, <2>2 DEF TypeOK
    <3> QED BY <3>1, WriterIsOne DEF Ticking
  <2>3. CASE p # q
    <3>1. pc'[p] = pc[p] /\ seen'[p] = seen[p] /\ prev'[p] = prev[p]
      BY <1>ty, <2>1, <2>3 DEF TypeOK
    <3> QED BY <1>tk, <2>1, <3>1 DEF Ticking
  <2> QED BY <2>2, <2>3
<1>5. ASSUME NEW q \in Plugins, TickScanned(q) PROVE Ticking(p)'
  <2>1. /\ q \in Scanned /\ pc[q] = "idle" /\ UNCHANGED <<pc, seen, up, file>>
        /\ prev' = [prev EXCEPT ![q] = world[q]]
    BY <1>5 DEF TickScanned
  <2>2. p # q => prev'[p] = prev[p] BY <1>ty, <2>1 DEF TypeOK
  <2>3. p = q => p \notin Hashed /\ p \notin Diffed /\ pc[p] = "idle"
    BY <2>1, WriterIsOne
  <2> QED BY <1>tk, <2>1, <2>2, <2>3 DEF Ticking
<1>6. ASSUME NEW q \in Plugins, Panic(q) PROVE Ticking(p)'
  <2>1. /\ q \in Saving /\ pc[q] = "idle" /\ UNCHANGED <<pc, seen, up, file>>
        /\ prev' = [prev EXCEPT ![q] = IF CanLoad THEN Remembered(q) ELSE None]
    BY <1>6 DEF Panic
  <2>2. p # q => prev'[p] = prev[p] BY <1>ty, <2>1 DEF TypeOK
  <2>3. p = q /\ file.kind # "bad" => prev'[p] = file.state.saved[p]
    BY <1>ty, <2>1 DEF TypeOK, CanLoad, Remembered, Loaded
  <2> QED BY <1>tk, <2>1, <2>2, <2>3 DEF Ticking
<1>7. ASSUME NEW w \in Writers, NotSaved(w), Wants(w), UNCHANGED <<up, file>>
      PROVE  Ticking(p)'
  <2>1. /\ UNCHANGED prev
        /\ \/ pc'[p] = pc[p] /\ seen'[p] = seen[p]
           \/ pc[p] = "save" /\ pc'[p] = "idle"
    BY <1>7, Abandoned
  <2> QED BY <1>7, <1>tk, <2>1 DEF Ticking
<1>8. ASSUME NEW w \in Writers, BeginUpdate(w) PROVE Ticking(p)'
  <2>1. CASE file.kind = "bad" BY <1>7, <1>8, <2>1 DEF BeginUpdate
  <2>2. CASE file.kind # "bad" BY <1>1, <1>8, <2>2 DEF BeginUpdate
  <2> QED BY <2>1, <2>2
<1>9. CASE SaveFails
  <2>1. mutex # Free BY <1>9, LockFields DEF SaveFails
  <2>2. mutex.who \in Writers /\ Wants(mutex.who)
    BY <2>1, <1>ty DEF Safe, Writing, TypeOK
  <2> QED BY <1>7, <1>9, <2>2 DEF SaveFails
<1>10. CASE Rename
  <2>1. /\ p # mutex.who => pc'[p] = pc[p] /\ seen'[p] = seen[p] /\ prev'[p] = prev[p]
        /\ p = mutex.who => /\ p \in Saving /\ pc[p] = "save" /\ prev'[p] = seen[p]
                            /\ pc'[p] = IF p \in Hashed THEN "send" ELSE "idle"
        /\ up
    BY <1>10, Saved
  <2>2. /\ file.kind # "bad"
        /\ p \in Saving => /\ p = mutex.who => file'.state.saved[p] = seen[p]
                           /\ p # mutex.who => file'.state.saved[p] = file.state.saved[p]
    BY <1>10, Renamed
  <2>3. seen[p] # None BY <1>ty, NoneIsNoReport DEF TypeOK
  <2>4. CASE p = mutex.who BY <2>1, <2>2, <2>3, <2>4 DEF Ticking
  <2>5. CASE p # mutex.who BY <1>tk, <2>1, <2>2, <2>5, WriterIsOne DEF Ticking
  <2> QED BY <2>4, <2>5
<1>11. CASE Crash
  <2>1. pc'[p] = "idle" /\ prev'[p] = Remembered(p) /\ UNCHANGED file
    BY <1>11 DEF Crash
  <2>2. p \in Hashed /\ file.kind # "bad" => prev'[p] = file.state.saved[p]
    BY <2>1, WriterIsOne DEF Remembered, Loaded
  <2> QED BY <2>1, <2>2 DEF Ticking
<1>12. CASE Corrupt
  <2>1. file'.kind = "bad" /\ UNCHANGED <<pc, seen, prev>>
    BY <1>12, FileFields DEF Corrupt
  <2> QED BY <1>tk, <2>1 DEF Ticking
<1>13. ASSUME NEW q \in Plugins, Change(q) PROVE Ticking(p)'
  BY <1>1, <1>13 DEF Change
<1>14. WriteTemp \/ Deliver \/ DeliverReset \/ Refused \/ WriteSpool \/ UNCHANGED vars
         => UNCHANGED <<pc, seen, prev, up, file>>
  BY DEF WriteTemp, FileMeanwhile, Deliver, DeliverReset, Refused, WriteSpool, vars
<1> QED BY <1>1, <1>2, <1>3, <1>4, <1>5, <1>6, <1>8, <1>9, <1>10, <1>11, <1>12,
           <1>13, <1>14 DEF Next, PluginStep, SaveStep

LEMMA MirroredStep ==
  ASSUME Safe, [Next]_vars, NEW p \in Plugins
  PROVE  Mirrored(p)'
<1>ty. TypeOK BY DEF Safe
<1>tk. Ticking(p) BY DEF Safe, Reporters
<1>mi. up /\ ~gap[p] /\ pc[p] # "send" /\ (prev[p] # None \/ p \in Diffed)
         => After(known, queue)[p] = Base(p)
  BY DEF Safe, Reporters, Mirrored
<1>1. ASSUME UNCHANGED <<up, known, queue, gap>>, prev'[p] = prev[p],
             pc'[p] # "send" => pc[p] # "send"
      PROVE  Mirrored(p)'
  BY <1>1, <1>mi DEF Mirrored, Base
<1>2. ASSUME NEW q \in Plugins, NEW r \in Report, r.from = q, p # q, Send(r),
             UNCHANGED <<up, known>>, pc'[p] = pc[p], gap'[p] = gap[p],
             prev'[p] = prev[p]
      PROVE  Mirrored(p)'
  <2>1. queue' = queue \/ queue' = With(queue, r) BY <1>2 DEF Send, With
  <2>2. After(known, queue')[p] = After(known, queue)[p]
    BY <1>2, <1>ty, <2>1, AfterOther DEF TypeOK
  <2> QED BY <1>2, <1>mi, <2>2 DEF Mirrored, Base
<1>3. ASSUME NEW a \in SUBSET Facts, NEW b \in SUBSET Facts, NEW r, Send(r),
             \/ r = Whole(p, b)
             \/ r = Diff(p, a, b) /\ After(known, queue)[p] = a,
             prev'[p] = b, UNCHANGED known
      PROVE  Mirrored(p)'
  <2>1. queue' = Sent(queue, r) BY <1>3 DEF Send, Sent, With
  <2>2. queue \in Seq(Report) BY <1>ty DEF TypeOK
  <2>3. After(known', queue')[p] = b
    <3>1. CASE r = Whole(p, b) BY <1>3, <2>1, <2>2, <3>1, AfterWhole
    <3>2. CASE r = Diff(p, a, b) /\ After(known, queue)[p] = a
      BY <1>3, <2>1, <2>2, <3>2, AfterDiff
    <3> QED BY <1>3, <3>1, <3>2
  <2>4. Base(p)' = b BY <1>3, NoneIsNoReport DEF Base
  <2> QED BY <2>3, <2>4 DEF Mirrored
<1>4. ASSUME NEW q \in Plugins, TickHashed(q) PROVE Mirrored(p)'
  <2>1. pc'[p] # "send" => pc[p] # "send"
    BY <1>4, <1>ty DEF TickHashed, Goto, TypeOK
  <2> QED BY <1>1, <1>4, <2>1 DEF TickHashed
<1>5. ASSUME NEW q \in Plugins, SendHashed(q) PROVE Mirrored(p)'
  <2>1. prev[q] \in SUBSET Facts
    BY <1>5, <1>ty, NoneIsNoReport
       DEF SendHashed, Safe, Reporters, Ticking, TypeOK, Savable
  <2>2. Send(Whole(q, prev[q])) /\ UNCHANGED <<up, known, prev>>
    BY <1>5 DEF SendHashed
  <2>3. CASE p = q BY <1>3, <2>1, <2>2, <2>3
  <2>4. CASE p # q
    <3>1. pc'[p] = pc[p] /\ gap'[p] = gap[p]
      BY <1>5, <1>ty, <2>4 DEF SendHashed, Goto, TypeOK
    <3>2. Whole(q, prev[q]) \in Report /\ Whole(q, prev[q]).from = q
      BY <2>1, ReportMade
    <3> QED BY <1>2, <2>2, <2>4, <3>1, <3>2
  <2> QED BY <2>3, <2>4
<1>6. ASSUME NEW q \in Plugins, TickDiffed(q) PROVE Mirrored(p)'
  <2>1. /\ Send(Diff(q, Base(q), world[q])) /\ UNCHANGED <<up, known, gap>>
        /\ q \in Diffed /\ up /\ pc[q] = "idle"
    BY <1>6 DEF TickDiffed
  <2>2. Base(q) \in SUBSET Facts /\ world[q] \in SUBSET Facts
    BY <1>ty DEF Base, TypeOK
  <2>3. CASE p = q /\ ~gap[p]
    <3>1. After(known, queue)[p] = Base(p) BY <1>mi, <2>1, <2>3
    <3>2. prev'[p] = world[p] BY <1>6, <1>ty, <2>3 DEF TickDiffed, TypeOK
    <3> QED BY <1>3, <2>1, <2>2, <2>3, <3>1, <3>2
  <2>4. CASE gap[p] BY <2>1, <2>4 DEF Mirrored
  <2>5. CASE p # q
    <3>1. pc'[p] = pc[p] /\ prev'[p] = prev[p]
      BY <1>6, <1>ty, <2>5 DEF TickDiffed, Goto, TypeOK
    <3>2. /\ Diff(q, Base(q), world[q]) \in Report
          /\ Diff(q, Base(q), world[q]).from = q
      BY <2>2, ReportMade
    <3> QED BY <1>2, <2>1, <2>5, <3>1, <3>2
  <2> QED BY <2>3, <2>4, <2>5
<1>7. ASSUME NEW q \in Plugins, TickScanned(q) PROVE Mirrored(p)'
  <2>1. /\ Send(Scan(q)) /\ UNCHANGED <<up, known, pc>>
        /\ q \in Scanned /\ up /\ pc[q] = "idle"
    BY <1>7 DEF TickScanned
  <2>2. world[q] \in SUBSET Facts /\ (prev[q] # None => prev[q] \in SUBSET Facts)
    BY <1>ty DEF TypeOK
  <2>3. CASE p = q
    <3>1. prev'[p] = world[p] BY <1>7, <1>ty, <2>3 DEF TickScanned, TypeOK
    <3>2. CASE prev[p] = None
      <4>1. Scan(q) = Whole(p, world[p]) BY <2>3, <3>2 DEF Scan
      <4> QED BY <1>3, <2>1, <2>2, <2>3, <3>1, <4>1
    <3>3. CASE prev[p] # None /\ ~gap[p]
      <4>1. Scan(q) = Diff(p, prev[p], world[p]) BY <2>3, <3>3 DEF Scan
      <4>2. After(known, queue)[p] = prev[p] BY <1>mi, <2>1, <2>3, <3>3 DEF Base
      <4> QED BY <1>3, <2>1, <2>2, <2>3, <3>1, <3>3, <4>1, <4>2
    <3>4. CASE prev[p] # None /\ gap[p]
      <4>1. ~Scan(q).all BY <2>3, <3>4 DEF Scan, Diff
      <4>2. gap'[p] BY <1>7, <1>ty, <2>3, <3>4, <4>1 DEF TickScanned, TypeOK
      <4> QED BY <4>2 DEF Mirrored
    <3> QED BY <3>2, <3>3, <3>4
  <2>4. CASE p # q
    <3>1. gap'[p] = gap[p] /\ prev'[p] = prev[p]
      BY <1>7, <1>ty, <2>4 DEF TickScanned, TypeOK
    <3>2. Scan(q) \in Report /\ Scan(q).from = q
      BY <2>2, ReportMade DEF Scan
    <3> QED BY <1>2, <2>1, <2>4, <3>1, <3>2
  <2> QED BY <2>3, <2>4
<1>8. ASSUME NEW q \in Plugins, Panic(q) PROVE Mirrored(p)'
  <2>1. /\ UNCHANGED <<pc, up, known, queue>>
        /\ gap' = [gap EXCEPT ![q] = gap[q] \/ prev'[q] # prev[q]]
    BY <1>8 DEF Panic
  <2>2. CASE p # q
    <3>1. gap'[p] = gap[p] /\ prev'[p] = prev[p]
      BY <1>8, <1>ty, <2>1, <2>2 DEF Panic, TypeOK
    <3> QED BY <1>mi, <2>1, <3>1 DEF Mirrored, Base
  <2>3. CASE p = q
    <3>1. gap'[p] = (gap[p] \/ prev'[p] # prev[p]) BY <1>ty, <2>1, <2>3 DEF TypeOK
    <3>2. ~gap'[p] => ~gap[p] /\ prev'[p] = prev[p] BY <3>1
    <3> QED BY <1>mi, <2>1, <3>2 DEF Mirrored, Base
  <2> QED BY <2>2, <2>3
<1>9. ASSUME NEW w \in Writers, NotSaved(w), Wants(w),
             UNCHANGED <<up, known, queue, gap>>
      PROVE  Mirrored(p)'
  <2>1. /\ UNCHANGED prev
        /\ \/ pc'[p] = pc[p]
           \/ pc[p] = "save" /\ pc'[p] = "idle"
    BY <1>9, Abandoned
  <2> QED BY <1>1, <1>9, <2>1
<1>10. ASSUME NEW w \in Writers, BeginUpdate(w) PROVE Mirrored(p)'
  <2>1. CASE file.kind = "bad" BY <1>9, <1>10, <2>1 DEF BeginUpdate
  <2>2. CASE file.kind # "bad" BY <1>1, <1>10, <2>2 DEF BeginUpdate
  <2> QED BY <2>1, <2>2
<1>11. CASE SaveFails
  <2>1. mutex # Free BY <1>11, LockFields DEF SaveFails
  <2>2. mutex.who \in Writers /\ Wants(mutex.who)
    BY <2>1, <1>ty DEF Safe, Writing, TypeOK
  <2> QED BY <1>9, <1>11, <2>2 DEF SaveFails
<1>12. CASE Rename
  <2>1. /\ p # mutex.who => pc'[p] = pc[p] /\ prev'[p] = prev[p]
        /\ p = mutex.who => /\ p \in Saving /\ pc[p] = "save" /\ prev'[p] = seen[p]
                            /\ pc'[p] = IF p \in Hashed THEN "send" ELSE "idle"
    BY <1>12, Saved
  <2>2. UNCHANGED <<up, known, queue, gap>> BY <1>12 DEF Rename
  <2>3. CASE p # mutex.who BY <1>1, <2>1, <2>2, <2>3
  <2>4. CASE p = mutex.who /\ p \in Hashed BY <2>1, <2>4 DEF Mirrored
  <2>5. CASE p = mutex.who /\ p \in Diffed
    <3>1. prev'[p] = prev[p] BY <1>tk, <2>1, <2>5 DEF Ticking
    <3> QED BY <1>1, <2>1, <2>2, <2>5, <3>1
  <2> QED BY <2>1, <2>3, <2>4, <2>5 DEF Saving
<1>13. CASE Deliver
  <2>1. /\ known' = After(known, queue) /\ queue' = <<>>
        /\ UNCHANGED <<pc, prev, up, gap>>
    BY <1>13 DEF Deliver, Taken
  <2>2. After(known', queue') = After(known, queue) BY <2>1, AfterType, AfterNothing
  <2> QED BY <1>mi, <2>1, <2>2 DEF Mirrored, Base
<1>14. CASE DeliverReset BY <1>14 DEF DeliverReset, Mirrored
<1>15. CASE Crash
  <2> SUFFICES ASSUME ~gap'[p], prev'[p] # None \/ p \in Diffed
               PROVE  After(known', queue')[p] = Base(p)'
    BY DEF Mirrored
  <2>1. /\ prev'[p] = Remembered(p) /\ UNCHANGED known /\ queue' = spool /\ up
        /\ gap'[p] = (gap[p] \/ Lost(p))
    BY <1>15 DEF Crash
  <2>2. ~gap[p] /\ ~Lost(p) BY <2>1
  <2>3. /\ pc[p] # "send" /\ SameReports(p, queue, spool) /\ file.kind # "bad"
        /\ p \in Diffed => Loaded.saved[p] = prev[p]
    BY <2>2 DEF Lost
  <2>4. p \in Saving BY <2>1, WriterIsOne DEF Remembered
  <2>5. prev'[p] = prev[p]
    <3>1. prev'[p] = Loaded.saved[p] BY <2>1, <2>4 DEF Remembered
    <3>2. p \in Hashed => prev[p] = Loaded.saved[p]
      BY <1>tk, <2>1, <2>3 DEF Ticking, Loaded
    <3> QED BY <2>3, <2>4, <3>1, <3>2 DEF Saving
  <2>6. ReportsOf(p, queue) \subseteq Nat /\ ReportsOf(p, spool) \subseteq Nat
    BY <1>ty DEF TypeOK, ReportsOf
  <2>7. After(known, queue)[p] = After(known, spool)[p] BY <2>3, <2>6, AfterSame
  <2> QED BY <1>mi, <2>1, <2>2, <2>3, <2>5, <2>7 DEF Base
<1>16. ASSUME NEW q \in Plugins, Change(q) PROVE Mirrored(p)'
  BY <1>1, <1>16 DEF Change
<1>17. WriteTemp \/ Refused \/ WriteSpool \/ Corrupt \/ UNCHANGED vars
         => UNCHANGED <<pc, prev, up, known, queue, gap>>
  BY DEF WriteTemp, Refused, WriteSpool, Corrupt, vars
<1> QED BY <1>1, <1>4, <1>5, <1>6, <1>7, <1>8, <1>10, <1>11, <1>12, <1>13, <1>14,
           <1>15, <1>16, <1>17 DEF Next, PluginStep, SaveStep

LEMMA InitSafe == Init => Safe
<1> SUFFICES ASSUME Init PROVE Safe OBVIOUS
<1>1. TypeOK BY InitTyped
<1>2. Writing BY DEF Init, Writing
<1>3. Loop BY NothingThere, FileFields DEF Init, Loop
<1>4. ASSUME NEW p \in Plugins PROVE Ticking(p)
  BY NothingThere, FileFields, WriterIsOne DEF Init, Ticking
<1>5. ASSUME NEW p \in Plugins PROVE Mirrored(p)
  <2>1. After(known, queue)[p] = {} BY AfterNothing DEF Init
  <2> QED BY <2>1 DEF Init, Mirrored, Base
<1> QED BY <1>1, <1>2, <1>3, <1>4, <1>5 DEF Safe, Reporters

LEMMA SafeStep == Safe /\ [Next]_vars => Safe'
BY TypeStep, WritingStep, LoopStep, TickingStep, MirroredStep DEF Safe, Reporters

LEMMA Invariant == Spec => []Safe
BY InitSafe, SafeStep, PTL DEF Spec

-----------------------------------------------------------------------------
(***************************************************************************)
(* The theorems.                                                           *)
(***************************************************************************)

\* The types are right, and who holds the lock of the Store is in the middle of an
\* Update: a lock that is held is given back by its holder (Store.Update).
THEOREM TypeCorrect == Spec => []TypeOK
<1>1. Safe => TypeOK BY DEF Safe
<1> QED BY <1>1, Invariant, PTL

\* What a plugin remembers is what the server knows or is about to know, through
\* failed saves, refused exchanges and a damaged state.json (the diffs of
\* internal/monitor, and their hashes, are taken from it).
THEOREM ServerIsMirrored == Spec => []ServerMirrorsPlugin
<1>1. Safe => ServerMirrorsPlugin
  <2> SUFFICES ASSUME Safe, up, NEW p \in Plugins,
                      ~gap[p], pc[p] # "send", prev[p] # None
               PROVE  After(known, queue)[p] = prev[p]
    BY DEF ServerMirrorsPlugin
  <2> QED BY DEF Safe, Reporters, Mirrored, Base
<1> QED BY <1>1, Invariant, PTL

\* An Update of state.json changes the part of the one who makes it, and the fields of
\* the exchange never go back (Store.Update, persist.go).
THEOREM UpdatesKeepApart == Spec => NobodyClobbers
<1>1. Safe /\ [Next]_vars =>
        [file'.kind = "good" /\ file' # file =>
           /\ file'.state.out >= file.state.out
           /\ file'.state.out # file.state.out => mutex.who = "exchange"
           /\ \A p \in Saving :
                file'.state.saved[p] # file.state.saved[p] => mutex.who = p]_vars
  <2> SUFFICES ASSUME Safe, [Next]_vars, file'.kind = "good", file' # file
               PROVE  /\ file'.state.out >= file.state.out
                      /\ file'.state.out # file.state.out => mutex.who = "exchange"
                      /\ \A p \in Saving :
                           file'.state.saved[p] # file.state.saved[p] => mutex.who = p
    OBVIOUS
  <2>1. Rename
    BY FileFields DEF Next, PluginStep, SaveStep, vars, Change, TickHashed, SendHashed,
       TickDiffed, TickScanned, Panic, BeginUpdate, WriteTemp, FileMeanwhile, SaveFails,
       Deliver, DeliverReset, Refused, WriteSpool, Crash, Corrupt
  <2>2. file.state.out \in Nat /\ file'.state.out \in Nat
    BY TypeStep, FileFields, StateFields DEF Safe, TypeOK
  <2> QED BY <2>1, <2>2, Renamed
<1> QED BY <1>1, Invariant, PTL DEF NobodyClobbers, Spec

\* Wherever the process dies, state.json is the old one or the new one: no step but the
\* damage from outside leaves it undecodable (saveToDisk).
THEOREM FileIsWhole == Spec => CrashesAreSafe
<1>1. [Next]_vars => [file'.kind = "bad" => file.kind = "bad" \/ Corrupt]_vars
  <2> SUFFICES ASSUME [Next]_vars, file'.kind = "bad", file.kind # "bad" PROVE Corrupt
    OBVIOUS
  <2>1. ~Rename BY DEF Rename, Good
  <2> QED BY <2>1 DEF Next, PluginStep, SaveStep, vars, Change, TickHashed, SendHashed,
       TickDiffed, TickScanned, Panic, BeginUpdate, WriteTemp, FileMeanwhile, SaveFails,
       Deliver, DeliverReset, Refused, WriteSpool, Crash
<1> QED BY <1>1, PTL DEF CrashesAreSafe, Spec

=============================================================================
