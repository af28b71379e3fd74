------------------------------ MODULE Reporting -----------------------------
(***************************************************************************)
(* How what the monitor plugins see reaches the server: the plugins that   *)
(* report changes only (internal/monitor), the state they keep between runs*)
(* in state.json (internal/persist), which the exchange writes too, and the*)
(* queue in front of the server.                                           *)
(*                                                                         *)
(* What a plugin watches is a set of facts.  The exchange is reduced to one*)
(* batch that is taken whole or not at all: module Exchange has the rest of*)
(* it.                                                                     *)
(***************************************************************************)
EXTENDS Integers, Sequences, FiniteSets

CONSTANTS
  Hashed,              \* plugins that save a hash of what they see, then send
                       \* all of it: snap-services, reboot-required,
                       \* network-device
  Diffed,              \* plugins that send what changed, then save: users
  Scanned,             \* plugins that save nothing: active-process-info
  Facts,
  Faults,              \* the failures that happen
  MaxChanges,          \* bound: changes of what the plugins watch
  MaxFaults            \* bound: failures

FaultKinds ==
  { "crash",           \* the process dies
    "panic",           \* a plugin panics
    "save",            \* a step of a save fails
    "refuse",          \* the server is out of reach
    "reset",           \* the server sends set-id or resynchronize
    "corrupt" }        \* the content of state.json is damaged

Plugins == Hashed \cup Diffed \cup Scanned

Saving == Hashed \cup Diffed

ASSUME ReportingAssumptions ==
  /\ IsFiniteSet(Plugins) /\ IsFiniteSet(Facts)
  /\ Hashed \cap Diffed = {} /\ Saving \cap Scanned = {}
  /\ "exchange" \notin Plugins /\ "none" \notin Facts
  /\ Faults \subseteq FaultKinds
  /\ MaxChanges \in Nat /\ MaxFaults \in Nat

VARIABLES
  world,               \* what each plugin watches
  \* the plugins
  pc,                  \* idle, save or send
  seen,                \* what this tick has read
  prev,                \* what the plugin remembers to have reported
  \* Store
  file,                \* state.json
  old,                 \* state.json.old
  mutex,               \* who holds Store.mu, how far its save is, what it writes
  \* the exchange
  xpc,                 \* idle, update or spool
  mem,                 \* the State that Exchange.Run owns
  queue,               \* Exchange.pending
  spool,               \* the queue file
  up,                  \* the daemon runs
  \* the server
  known,               \* what it knows of each plugin's facts
  \* bounds and history
  gap,                 \* a report of the plugin was lost, see Lost
  changes, faults

pluginVars == <<pc, seen, prev>>
storeVars  == <<file, old, mutex>>
loopVars   == <<xpc, mem, queue, spool>>
vars == <<world, pluginVars, storeVars, loopVars, up, known, gap, changes, faults>>

-----------------------------------------------------------------------------
\* No report, which is not the report of no facts.
None == {"none"}

\* What a state file holds of the State: out stands for the fields of the
\* exchange, saved for PluginState.
State == [out : Nat, saved : [Saving -> {None} \cup SUBSET Facts]]

NothingSaved == [p \in Saving |-> None]

Fresh == [out |-> 0, saved |-> NothingSaved]

\* A file: there is none, it cannot be decoded, or it holds a State.
File == [kind : {"missing", "bad", "good"}, state : State]

Missing == [kind |-> "missing", state |-> Fresh]
Bad     == [kind |-> "bad", state |-> Fresh]
Good(s) == [kind |-> "good", state |-> s]

\* Who writes the file, and the lock of the Store: who holds it, how far its save is
\* and what it writes.
Writers == Saving \cup {"exchange"}

Lock == [who : Writers \cup {"nobody"}, step : {"none", "temp", "rename"}, state : State]

Free == [who |-> "nobody", step |-> "none", state |-> Fresh]

\* A report: whether what the server knows is replaced, what is new, what is gone.
Report == [from : Plugins, all : BOOLEAN, add : SUBSET Facts, del : SUBSET Facts]

Whole(p, s)   == [from |-> p, all |-> TRUE, add |-> s, del |-> {}]
Diff(p, a, b) == [from |-> p, all |-> FALSE, add |-> b \ a, del |-> a \ b]

\* buildUsersDiff and buildMessage return nothing when nothing has changed.
Changed(r) == r.all \/ r.add # {} \/ r.del # {}

\* The reports of p in a queue.
ReportsOf(p, q) == {i \in DOMAIN q : q[i].from = p}

\* The report says whether the fact is there.
Tells(r, f) == r.all \/ f \in r.add \cup r.del

\* What the server knows once it has the reports of q, on top of k: the last report
\* that tells of a fact counts.
After(k, q) ==
  [p \in Plugins |->
     { f \in Facts :
         \/ \E i \in ReportsOf(p, q) :
              /\ f \in q[i].add
              /\ \A j \in ReportsOf(p, q) : i < j => ~Tells(q[j], f)
         \/ f \in k[p] /\ \A j \in ReportsOf(p, q) : ~Tells(q[j], f) }]

\* Two queues have the same reports of p, in the same order.
SameReports(p, q, s) ==
  \E h \in [ReportsOf(p, q) -> ReportsOf(p, s)] :
    /\ \A j \in ReportsOf(p, s) : \E i \in ReportsOf(p, q) : h[i] = j
    /\ \A i, j \in ReportsOf(p, q) : i < j => h[i] < h[j]
    /\ \A i \in ReportsOf(p, q) : s[h[i]] = q[i]

\* A plugin that has saved nothing starts from no facts.
Base(p) == IF prev[p] = None THEN {} ELSE prev[p]

-----------------------------------------------------------------------------
\* Load: the file, or else the backup; an error when neither can be decoded.
CanLoad == file.kind # "bad" \/ old.kind = "good"
Loaded  == IF file.kind # "bad" THEN file.state ELSE old.state

\* What a plugin remembers when it starts.
Remembered(p) == IF p \in Saving THEN Loaded.saved[p] ELSE None

Init ==
  /\ world \in [Plugins -> SUBSET Facts]
  /\ pc = [p \in Plugins |-> "idle"] /\ seen = [p \in Plugins |-> {}]
  /\ prev = [p \in Plugins |-> None]
  /\ file = Missing /\ old = Missing /\ mutex = Free
  /\ xpc = "idle" /\ mem = Fresh /\ queue = <<>> /\ spool = <<>>
  /\ up = TRUE
  /\ known = [p \in Plugins |-> {}]
  /\ gap = [p \in Plugins |-> FALSE]
  /\ changes = 0 /\ faults = 0

Fault(f) == f \in Faults /\ faults < MaxFaults /\ faults' = faults + 1

Change(p) ==
  /\ changes < MaxChanges /\ changes' = changes + 1
  /\ \E s \in (SUBSET Facts) \ {world[p]} : world' = [world EXCEPT ![p] = s]
  /\ UNCHANGED <<pluginVars, storeVars, loopVars, up, known, gap, faults>>

-----------------------------------------------------------------------------
(***************************************************************************)
(* The ticks of the plugins.  A tick that cannot read what it watches, or  *)
(* finds it unchanged, does nothing.                                       *)
(***************************************************************************)
Goto(p, l) == pc' = [pc EXCEPT ![p] = l]

Send(r) == queue' = IF Changed(r) THEN Append(queue, r) ELSE queue

\* A hash that is not the one remembered is saved first.
TickHashed(p) ==
  /\ up /\ p \in Hashed /\ pc[p] = "idle" /\ world[p] # prev[p]
  /\ seen' = [seen EXCEPT ![p] = world[p]]
  /\ Goto(p, "save")
  /\ UNCHANGED <<world, prev, storeVars, loopVars, up, known, gap, changes, faults>>

\* Saved: all of it is sent, which makes good for what was lost.
SendHashed(p) ==
  /\ up /\ pc[p] = "send"
  /\ Send(Whole(p, prev[p]))
  /\ gap' = [gap EXCEPT ![p] = FALSE]
  /\ Goto(p, "idle")
  /\ UNCHANGED <<world, seen, prev, storeVars, xpc, mem, spool, up, known, changes, faults>>

\* The difference is sent, remembered and, changed or not, saved.
TickDiffed(p) ==
  /\ up /\ p \in Diffed /\ pc[p] = "idle"
  /\ Send(Diff(p, Base(p), world[p]))
  /\ seen' = [seen EXCEPT ![p] = world[p]]
  /\ prev' = [prev EXCEPT ![p] = world[p]]
  /\ Goto(p, "save")
  /\ UNCHANGED <<world, storeVars, xpc, mem, spool, up, known, gap, changes, faults>>

\* The first report of a process replaces what the server knows.
Scan(p) == IF prev[p] = None THEN Whole(p, world[p])
           ELSE Diff(p, prev[p], world[p])

TickScanned(p) ==
  /\ up /\ p \in Scanned /\ pc[p] = "idle"
  /\ Send(Scan(p))
  /\ gap' = [gap EXCEPT ![p] = @ /\ ~Scan(p).all]
  /\ prev' = [prev EXCEPT ![p] = world[p]]
  /\ UNCHANGED <<world, pc, seen, storeVars, xpc, mem, spool, up, known, changes, faults>>

-----------------------------------------------------------------------------
(***************************************************************************)
(* Update: a read, a callback and a write under the lock of the Store.     *)
(***************************************************************************)

\* Mutation: SetPluginState writes the State it has cached since the start of
\* the plugin.
SetCached(p) == [out |-> 0, saved |-> [file.state.saved EXCEPT ![p] = seen[p]]]

\* The callback of SetPluginState: the latest State but for the plugin's key.
SetPluginState(p) == [file.state EXCEPT !.saved[p] = seen[p]]

\* maps.Copy: the keys on disk win over those the exchange has in memory.  (The
\* copy may go into the map it has in memory; no later merge can tell.)
MergedPluginState ==
  [p \in Saving |-> IF file.state.saved[p] # None THEN file.state.saved[p]
                    ELSE mem.saved[p]]

\* The callback of performExchange.
SetExchangeState == [out |-> mem.out, saved |-> MergedPluginState]

Wants(w) == IF w = "exchange" THEN xpc = "update" ELSE pc[w] = "save"

\* The tick of w goes on at l; what it has read is of no more use.
GoesOn(w, l) ==
  IF w = "exchange" THEN xpc' = "spool" /\ UNCHANGED <<pc, seen>>
  ELSE Goto(w, l) /\ seen' = [seen EXCEPT ![w] = {}] /\ UNCHANGED xpc

Remember(w) ==
  prev' = IF w = "exchange" THEN prev ELSE [prev EXCEPT ![w] = seen[w]]

\* Mutation: the plugin remembers what it has not saved.
ReportsAnyway(w) == GoesOn(w, "idle") /\ Remember(w)

\* Update returns an error: the exchange has failed, and a plugin remembers what
\* it remembered before.
NotSaved(w) == GoesOn(w, "idle") /\ UNCHANGED prev

\* Update has saved: a plugin that saves first remembers, and goes on to send.
HasSaved(w) == GoesOn(w, IF w \in Hashed THEN "send" ELSE "idle") /\ Remember(w)

\* Lock, load and callback.  A file that cannot be decoded is an error: the
\* backup is for Load only.
BeginUpdate(w) ==
  /\ up /\ Wants(w) /\ mutex = Free
  /\ IF file.kind = "bad" THEN NotSaved(w) /\ UNCHANGED mutex
     ELSE /\ mutex' = [who |-> w, step |-> "temp",
                       state |-> IF w = "exchange" THEN SetExchangeState
                                 ELSE SetPluginState(w)]
          /\ UNCHANGED <<pluginVars, xpc>>
  /\ UNCHANGED <<world, file, old, mem, queue, spool, up, known, gap, changes, faults>>

\* Mutation: the file is written in place.
TempInPlace == Bad

\* While the temporary file is written state.json stays as it is.
FileMeanwhile == file

WriteTemp ==
  /\ up /\ mutex.step = "temp"
  /\ mutex' = [mutex EXCEPT !.step = "rename"]
  /\ file' = FileMeanwhile
  /\ UNCHANGED <<world, pluginVars, old, loopVars, up, known, gap, changes, faults>>

\* The file there is, if any, becomes the backup, and the temporary file takes its
\* place.  The backup is not written by a rename: a failure is logged and leaves
\* it torn.
Rename ==
  /\ up /\ mutex.step = "rename"
  /\ IF file.kind = "missing" THEN UNCHANGED <<old, faults>>
     ELSE \/ old' = file /\ UNCHANGED faults
          \/ old' = Bad /\ Fault("save")
  /\ file' = Good(mutex.state)
  /\ mutex' = Free
  /\ HasSaved(mutex.who)
  /\ UNCHANGED <<world, mem, queue, spool, up, known, gap, changes>>

\* Mutation: an error path without the unlock.
StillLocked == mutex

\* The deferred unlock.
Unlocked == Free

\* The temporary file cannot be written; or renamed, and then the backup is already
\* there.
SaveFails ==
  /\ up /\ mutex.step \in {"temp", "rename"} /\ Fault("save")
  /\ old' = IF mutex.step = "rename" /\ file.kind # "missing" THEN file ELSE old
  /\ mutex' = Unlocked
  /\ NotSaved(mutex.who)
  /\ UNCHANGED <<world, file, mem, queue, spool, up, known, gap, changes>>

-----------------------------------------------------------------------------
(***************************************************************************)
(* The exchange.  One with nothing to send and nothing to save changes     *)
(* nothing and is left out.                                                *)
(***************************************************************************)
Due == up /\ xpc = "idle" /\ (queue # <<>> \/ mem.out # file.state.out \/ spool # queue)

Taken ==
  /\ queue' = <<>>
  /\ xpc' = "update"

\* The server takes the batch.
Deliver ==
  /\ Due /\ Taken
  /\ known' = After(known, queue)
  /\ mem' = [mem EXCEPT !.out = @ + Len(queue)]
  /\ UNCHANGED <<world, pluginVars, storeVars, spool, up, gap, changes, faults>>

\* It takes it, and with set-id or resynchronize it asks for everything anew:
\* PluginState is cleared in the memory of the exchange.
DeliverReset ==
  /\ Due /\ Taken /\ Fault("reset")
  /\ known' = [p \in Plugins |-> {}]
  /\ mem' = [out |-> mem.out + Len(queue), saved |-> NothingSaved]
  /\ gap' = [p \in Plugins |-> TRUE]
  /\ UNCHANGED <<world, pluginVars, storeVars, spool, up, changes>>

\* The batch is put back.
Refused ==
  /\ Due /\ Fault("refuse")
  /\ xpc' = "spool"
  /\ UNCHANGED <<world, pluginVars, storeVars, mem, queue, spool, up, known, gap, changes>>

\* persistQueue, after every exchange.
WriteSpool ==
  /\ up /\ xpc = "spool"
  /\ spool' = queue
  /\ xpc' = "idle"
  /\ UNCHANGED <<world, pluginVars, storeVars, mem, queue, up, known, gap, changes, faults>>

-----------------------------------------------------------------------------
(***************************************************************************)
(* Failures.                                                               *)
(***************************************************************************)

\* Why a report of p is lost when the process dies: it was saved but not queued,
\* queued but not spooled, spooled although delivered, or not saved; and what a
\* damaged file had is gone.
Lost(p) ==
  \/ pc[p] = "send"
  \/ ~SameReports(p, queue, spool)
  \/ p \in Diffed /\ Loaded.saved[p] # prev[p]
  \/ file.kind = "bad"

\* The process dies and is started again.  A backup being written may be torn.
Crash ==
  /\ up /\ Fault("crash")
  /\ old' \in IF mutex.step = "rename" /\ file.kind # "missing"
                THEN {old, Bad, file} ELSE {old}
  /\ up' = CanLoad
  /\ gap' = [p \in Plugins |-> gap[p] \/ Lost(p)]
  /\ pc' = [p \in Plugins |-> "idle"] /\ seen' = [p \in Plugins |-> {}]
  /\ prev' = [p \in Plugins |-> Remembered(p)]
  /\ mutex' = Free /\ xpc' = "idle" /\ mem' = Loaded /\ queue' = spool
  /\ UNCHANGED <<world, file, spool, known, changes>>

\* A plugin panics while it collects: runPlugin starts it again with what is
\* saved.  The fields of active-process-info outlive it.
Panic(p) ==
  /\ up /\ pc[p] = "idle" /\ p \in Saving /\ mutex = Free /\ Fault("panic")
  /\ prev' = [prev EXCEPT ![p] = IF CanLoad THEN Remembered(p) ELSE None]
  /\ gap' = [gap EXCEPT ![p] = @ \/ prev'[p] # prev[p]]
  /\ UNCHANGED <<world, pc, seen, storeVars, loopVars, up, known, changes>>

Corrupt ==
  /\ file.kind = "good" /\ mutex = Free /\ Fault("corrupt")
  /\ file' = Bad
  /\ UNCHANGED <<world, pluginVars, old, mutex, loopVars, up, known, gap, changes>>

-----------------------------------------------------------------------------
PluginStep(p) == TickHashed(p) \/ SendHashed(p) \/ TickDiffed(p) \/ TickScanned(p)

SaveStep == WriteTemp \/ Rename

Next ==
  \/ \E p \in Plugins : Change(p) \/ PluginStep(p) \/ Panic(p)
  \/ \E w \in Writers : BeginUpdate(w)
  \/ SaveStep \/ SaveFails
  \/ Deliver \/ DeliverReset \/ Refused \/ WriteSpool
  \/ Crash \/ Corrupt

Spec == Init /\ [][Next]_vars

\* The tickers fire, the exchange comes round, saves go on, and the lock is given
\* to whoever waits for it: sync.Mutex starves nobody.  Failures are bounded.
Fairness ==
  /\ \A p \in Plugins : WF_vars(PluginStep(p))
  /\ \A w \in Writers : SF_vars(BeginUpdate(w))
  /\ WF_vars(SaveStep) /\ WF_vars(Deliver) /\ WF_vars(WriteSpool)

FairSpec == Spec /\ Fairness

-----------------------------------------------------------------------------
\* The types; who holds the lock of the Store is in the middle of an Update.
TypeOK ==
  /\ world \in [Plugins -> SUBSET Facts]
  /\ pc \in [Plugins -> {"idle", "save", "send"}]
  /\ seen \in [Plugins -> SUBSET Facts]
  /\ prev \in [Plugins -> {None} \cup SUBSET Facts]
  /\ file \in File /\ old \in File /\ mem \in State
  /\ mutex \in Lock
  /\ mutex # Free => mutex.step # "none" /\ Wants(mutex.who)
  /\ xpc \in {"idle", "update", "spool"}
  /\ queue \in Seq(Report) /\ spool \in Seq(Report)
  /\ up \in BOOLEAN
  /\ known \in [Plugins -> SUBSET Facts]
  /\ gap \in [Plugins -> BOOLEAN]
  /\ changes \in 0..MaxChanges /\ faults \in 0..MaxFaults

\* The plugins and the exchange write the same file and never each other's part:
\* an Update changes the key of its plugin, or the fields of the exchange, which
\* never go back.  (The comment at persist.go 229-231 says what goes wrong
\* otherwise.)
NobodyClobbers ==
  [][file'.kind = "good" /\ file' # file =>
       /\ file'.state.out >= file.state.out
       /\ file'.state.out # file.state.out => mutex.who = "exchange"
       /\ \A p \in Saving : file'.state.saved[p] # file.state.saved[p] => mutex.who = p
    ]_vars

\* No step of the code leaves a state.json that cannot be decoded, wherever the
\* process dies.
CrashesAreSafe ==
  [][file'.kind = "bad" => file.kind = "bad" \/ Corrupt]_vars

\* Between its ticks a plugin remembers what the server knows, or will know from
\* the reports on their way, so that a change it finds is one the server has not
\* heard of: through failed saves, refused exchanges and a damaged file.  Only a
\* crash, a panic or a reset can tell the two apart, and the next full report
\* brings them together again.
ServerMirrorsPlugin ==
  up => \A p \in Plugins :
    ~gap[p] /\ pc[p] # "send" /\ prev[p] # None => After(known, queue)[p] = prev[p]

\* What exchange.go 617 says of a reset: "Reset plugin state so all monitors
\* re-report to the newly registered server."
ResetReportsAnew == \A p \in Hashed : gap[p] ~> ~gap[p]
=============================================================================
