---------------------------- MODULE ManagerProofs ---------------------------
(***************************************************************************)
(* What holds of the operations for every sequence of commands the server  *)
(* may send, every limit of the semaphore and every number of failures.    *)
(***************************************************************************)
EXTENDS Manager, FiniteSetTheorems, SequenceTheorems, TLAPS

USE DEF handlerVars, contextVars, snapdVars, listVars

-----------------------------------------------------------------------------
(***************************************************************************)
(* The inductive invariant: what is true of a command at each stage.       *)
(***************************************************************************)

\* The goroutine is in its handler.
Working ==
  {"begun", "request", "wait", "list", "send", "call", "logind", "run", "report"}

\* The stages are those of the command's handler, which has an operation-id from
\* its first step on; and the values a step reads are there: a change for each
\* entry that the loop over the snaps has passed, all of them for named snaps; a
\* list to send; a verdict to report.
Local(c) ==
  /\ stage[c] \in {"request", "wait", "list", "send"} => Kind(c) \in SnapKinds
  /\ stage[c] = "call" => Kind(c) \in ServiceKinds
  /\ stage[c] = "logind" => Kind(c) = "shutdown"
  /\ stage[c] \in {"begun", "run"} => Kind(c) = "execute-script"
  /\ stage[c] \in Working =>
       plan[c].form # "no operation-id" /\ Kind(c) # "cancel-operation"
  /\ Len(changes[c]) <= Len(plan[c].snaps)
  /\ \A i \in DOMAIN changes[c] : plan[c].snaps[i] \in Snaps
  /\ stage[c] = "wait" => changes[c] # <<>>
  /\ stage[c] = "send" => listing[c] # None
  /\ stage[c] = "report" => verdict[c] # "none"

Locals == \A c \in Ids : Local(c)

-----------------------------------------------------------------------------
\* The positions of the plan, and the commands there.
LEMMA PlanType ==
  ASSUME TypeOK
  PROVE  /\ Ids = 1..Len(plan) /\ Len(plan) \in Nat /\ IsFiniteSet(Ids)
         /\ Ids \subseteq Nat \ {0}
         /\ \A c \in Ids : plan[c] \in Command
<1>1. plan \in Seq(Command) BY ManagerAssumptions DEF TypeOK
<1>2. Ids = 1..Len(plan) /\ Len(plan) \in Nat BY <1>1 DEF Ids
<1>3. IsFiniteSet(1..Len(plan)) BY <1>2, FS_Interval
<1>4. \A c \in 1..Len(plan) : plan[c] \in Command BY <1>1
<1> QED BY <1>2, <1>3, <1>4

\* The goroutines that hold a slot.
Holders == {c \in Ids : Holding(c)}

\* They can be counted, and one that holds a slot has taken it.
LEMMA HoldersCounted ==
  ASSUME TypeOK
  PROVE  /\ IsFiniteSet(Holders) /\ Cardinality(Holders) \in Nat
         /\ \A c \in Ids : Holding(c) => Cardinality(Holders) > 0
<1>1. IsFiniteSet(Ids) BY PlanType
<1>2. Holders \in SUBSET Ids BY DEF Holders
<1>3. IsFiniteSet(Holders) BY <1>1, <1>2, FS_Subset
<1>4. Cardinality(Holders) \in Nat BY <1>3, FS_CardinalityType
<1>5. Cardinality(Holders) = 0 <=> Holders = {} BY <1>3, FS_EmptySet
<1> QED BY <1>3, <1>4, <1>5 DEF Holders

\* Dispatch keeps the types.
LEMMA TypeDispatch ==
  ASSUME TypeOK, NEW c \in Ids, Dispatch(c)
  PROVE  TypeOK'
<1>1. OpOf(c) \in Nat BY PlanType DEF OpOf, Command
<1>2. CASE Receive(c) BY <1>2 DEF TypeOK, Receive, Goto, Stages, Ids
<1>3. CASE Acquire(c)
  <2>1. slots' \in 0..Limit BY <1>3, ManagerAssumptions DEF Acquire, TypeOK
  <2> QED BY <1>3, <2>1 DEF TypeOK, Acquire, Goto, Stages, Ids
<1>4. CASE AcquireFails(c)
  <2>1. results' \in Seq(OperationResult)
    BY <1>1, <1>4, PlanType DEF AcquireFails, Result, OperationResult, TypeOK
  <2> QED BY <1>4, <2>1 DEF TypeOK, AcquireFails, SlotsAfterRefusal, Goto, Stages, Ids
<1> QED BY <1>2, <1>3, <1>4 DEF Dispatch

\* What every handler shares keeps them: there is a verdict to report, and a
\* slot to release.
LEMMA TypeShared ==
  ASSUME TypeOK, NothingLeaks, Locals, NEW c \in Ids,
         Report(c) \/ Finish(c) \/ Panic(c)
  PROVE  TypeOK'
<1>1. OpOf(c) \in Nat /\ c \in Nat BY PlanType DEF OpOf, Command
<1>2. CASE Report(c)
  <2>1. verdict[c] \in {"succeeded", "failed"}
    BY <1>2 DEF Report, Locals, Local, TypeOK
  <2>2. results' \in Seq(OperationResult)
    BY <1>1, <1>2, <2>1 DEF Report, Result, OperationResult, TypeOK
  <2> QED BY <1>2, <2>2 DEF TypeOK, Report, AfterReport, Goto, Stages, Ids
<1>3. CASE Finish(c)
  <2>1. Holding(c) BY <1>3 DEF Finish, Holding
  <2>2. slots + Cardinality(Holders) = Limit BY DEF NothingLeaks, Holders
  <2>3. slots' \in 0..Limit
    BY <1>3, <2>1, <2>2, HoldersCounted, ManagerAssumptions
       DEF Finish, Released, TypeOK
  <2>4. operations' \in SUBSET Ids BY <1>3 DEF Finish, Cleanup, TypeOK
  <2> QED BY <1>3, <2>3, <2>4 DEF TypeOK, Finish, Goto, Stages, Ids
<1>4. CASE Panic(c)
  <2>1. results' \in Seq(OperationResult)
    BY <1>1, <1>4 DEF Panic, PanicReported, Result, OperationResult, TypeOK
  <2>2. faults' \in 0..MaxFaults
    BY <1>4, ManagerAssumptions DEF Panic, Fault, TypeOK
  <2> QED BY <1>4, <2>1, <2>2 DEF TypeOK, Panic, Goto, Stages, Ids
<1> QED BY <1>2, <1>3, <1>4

\* So do the snap handlers.
LEMMA TypeSnaps ==
  ASSUME TypeOK, Locals, NEW c \in Ids, SnapCommand(c)
  PROVE  TypeOK'
<1>1. CASE BeginSnaps(c)
  BY <1>1 DEF TypeOK, BeginSnaps, ReturnError, RegisterOperation, Decide, Goto,
              Stages, Ids
<1>2. CASE RequestChange(c)
  <2>1. changes' \in [Ids -> Seq({"Doing", "Done", "Error"})]
    <3>1. Append(changes[c], "Doing") \in Seq({"Doing", "Done", "Error"})
      BY DEF TypeOK
    <3>2. \/ changes' = changes
          \/ changes' = [changes EXCEPT ![c] = Append(@, "Doing")]
      BY <1>2 DEF RequestChange
    <3> QED BY <3>1, <3>2 DEF TypeOK
  <2>2. faults' \in 0..MaxFaults
    BY <1>2, ManagerAssumptions DEF RequestChange, Fault, TypeOK
  <2>3. /\ stage' \in [Ids -> Stages]
        /\ verdict' \in [Ids -> {"none", "succeeded", "failed"}]
    BY <1>2 DEF RequestChange, Decide, Goto, Stages, TypeOK
  <2> QED BY <1>2, <2>1, <2>2, <2>3 DEF TypeOK, RequestChange, Ids
<1>3. CASE ChangeSeen(c)
  BY <1>3 DEF TypeOK, ChangeSeen, Decide, Goto, Stages, Ids
<1>4. CASE GiveUpChange(c)
  <2>1. faults' \in 0..MaxFaults
    BY <1>4, ManagerAssumptions DEF GiveUpChange, Fault, TypeOK
  <2> QED BY <1>4, <2>1 DEF TypeOK, GiveUpChange, Decide, Goto, Stages, Ids
<1>5. CASE AllDone(c) BY <1>5 DEF TypeOK, AllDone, Goto, Stages, Ids
<1>6. CASE SendNow(c)
  <2>1. stage[c] = "send" => listing[c] \in SUBSET Snaps
    BY DEF Locals, Local, TypeOK
  <2>2. /\ listing' \in [Ids \cup {Plugin} -> (SUBSET Snaps) \cup {None}]
        /\ lastList' \in SUBSET Snaps
    <3>1. CASE stage[c] = "list" /\ List(c)
      <4>1. lastList' = lastList BY <3>1 DEF List
      <4>2. PICK l \in SUBSET Snaps : listing' = [listing EXCEPT ![c] = l]
        BY <3>1 DEF List, Collected, TypeOK
      <4> QED BY <4>1, <4>2 DEF TypeOK
    <3>2. CASE stage[c] = "send" /\ SendList(c)
      BY <2>1, <3>2 DEF SendList, TypeOK
    <3> QED BY <1>6, <3>1, <3>2 DEF SendNow
  <2>3. faults' \in 0..MaxFaults
    BY <1>6, ManagerAssumptions DEF SendNow, List, SendList, Fault, TypeOK
  <2> QED BY <1>6, <2>2, <2>3 DEF TypeOK, SendNow, Decide, Goto, Stages, Ids
<1> QED BY <1>1, <1>2, <1>3, <1>4, <1>5, <1>6 DEF SnapCommand

\* And the other handlers.
LEMMA TypeServices ==
  ASSUME TypeOK, NEW c \in Ids, ServiceCommand(c) \/ Cancel(c)
  PROVE  TypeOK'
<1>1. CASE BeginService(c)
  BY <1>1 DEF TypeOK, BeginService, ReturnError, RegisterOperation, Goto, Stages,
              Ids
<1>2. CASE ServiceAction(c)
  <2>1. faults' \in 0..MaxFaults
    BY <1>2, ManagerAssumptions DEF ServiceAction, Fault, TypeOK
  <2> QED BY <1>2, <2>1 DEF TypeOK, ServiceAction, Decide, Goto, Stages, Ids
<1>3. CASE Cancel(c)
  BY <1>3 DEF TypeOK, Cancel, Reached, Goto, Stages, Ids
<1> QED BY <1>1, <1>2, <1>3 DEF ServiceCommand

LEMMA TypeShutdown ==
  ASSUME TypeOK, NEW c \in Ids, Shutdown(c)
  PROVE  TypeOK'
<1>1. CASE AnswerShutdown(c)
  <2>1. results' \in Seq(OperationResult)
    <3>1. Result(c, "succeeded", c) \in OperationResult
      BY PlanType DEF Result, OperationResult
    <3>2. results' = results \/ results' = Append(results, Result(c, "succeeded", c))
      BY <1>1 DEF AnswerShutdown, ReturnError
    <3>3. results \in Seq(OperationResult) BY DEF TypeOK
    <3>4. PICK r \in OperationResult : r = Result(c, "succeeded", c) BY <3>1
    <3> QED BY ONLY <3>2, <3>3, <3>4
  <2> QED BY <1>1, <2>1 DEF TypeOK, AnswerShutdown, ReturnError, Goto, Stages, Ids
<1>2. CASE CallLogind(c)
  <2>1. faults' \in 0..MaxFaults
    BY <1>2, ManagerAssumptions DEF CallLogind, Fault, TypeOK
  <2> QED BY <1>2, <2>1 DEF TypeOK, CallLogind, Decide, Goto, Stages, Ids
<1> QED BY <1>1, <1>2 DEF Shutdown

LEMMA TypeScript ==
  ASSUME TypeOK, NEW c \in Ids, ExecuteScript(c)
  PROVE  TypeOK'
<1>1. CASE BeginScript(c)
  BY <1>1 DEF TypeOK, BeginScript, ReturnError, RegisterOperation, Goto, Stages,
              Ids
<1>2. CASE PrepareScript(c)
  <2>1. faults' \in 0..MaxFaults
    <3>1. faults' = faults \/ (faults < MaxFaults /\ faults' = faults + 1)
      BY <1>2 DEF PrepareScript, Fault
    <3> QED BY <3>1, ManagerAssumptions DEF TypeOK
  <2> QED BY <1>2, <2>1 DEF TypeOK, PrepareScript, ReturnError, Decide, Goto,
                            Stages, Ids
<1>3. CASE ScriptEnds(c)
  <2>1. faults' \in 0..MaxFaults
    BY <1>3, ManagerAssumptions DEF ScriptEnds, Fault, TypeOK
  <2> QED BY <1>3, <2>1 DEF TypeOK, ScriptEnds, Decide, Goto, Stages, Ids
<1>4. CASE ScriptKilled(c)
  BY <1>4 DEF TypeOK, ScriptKilled, Decide, Goto, Stages, Ids
<1> QED BY <1>1, <1>2, <1>3, <1>4 DEF ExecuteScript

\* And what is not a handler: snapd, the plugin's own goroutine and SIGTERM.
LEMMA TypeOthers ==
  ASSUME TypeOK, Locals, (\E c \in Ids : ChangeReady(c)) \/ Tick \/ Stop
  PROVE  TypeOK'
<1>1. ASSUME NEW c \in Ids, ChangeReady(c) PROVE TypeOK'
  <2>1. PICK i \in DOMAIN changes[c] :
          /\ changes[c][i] = "Doing"
          /\ \/ /\ changes' = [changes EXCEPT ![c][i] = "Done"]
                /\ installed' = Effect(Kind(c), plan[c].snaps[i])
                /\ UNCHANGED faults
             \/ /\ Fault("change")
                /\ changes' = [changes EXCEPT ![c][i] = "Error"]
                /\ UNCHANGED installed
          /\ UNCHANGED <<plan, stage, verdict, slots, operations, cancelled,
                         results, stopping, listing, lastList>>
    BY <1>1 DEF ChangeReady
  <2>2. changes[c] \in Seq({"Doing", "Done", "Error"}) BY DEF TypeOK
  <2>3. \A v \in {"Done", "Error"} :
          [changes[c] EXCEPT ![i] = v] \in Seq({"Doing", "Done", "Error"})
    BY <2>2, ExceptSeq
  <2>4. changes' \in [Ids -> Seq({"Doing", "Done", "Error"})]
    BY <2>1, <2>3 DEF TypeOK
  <2>5. plan[c].snaps[i] \in Snaps BY <1>1 DEF Locals, Local
  <2>6. installed' \in SUBSET Snaps
    BY <2>1, <2>5 DEF TypeOK, Effect
  <2>7. faults' \in 0..MaxFaults BY <2>1, ManagerAssumptions DEF Fault, TypeOK
  <2> QED BY <2>1, <2>4, <2>6, <2>7 DEF TypeOK, Ids
<1>2. CASE Tick
  <2>1. /\ listing' \in [Ids \cup {Plugin} -> (SUBSET Snaps) \cup {None}]
        /\ lastList' \in SUBSET Snaps
    BY <1>2 DEF Tick, List, SendList, Collected, TypeOK
  <2>2. faults' \in 0..MaxFaults
    BY <1>2, ManagerAssumptions DEF Tick, List, SendList, Fault, TypeOK
  <2> QED BY <1>2, <2>1, <2>2 DEF TypeOK, Tick, Ids
<1>3. CASE Stop
  <2>1. faults' \in 0..MaxFaults
    BY <1>3, ManagerAssumptions DEF Stop, Fault, TypeOK
  <2> QED BY <1>3, <2>1 DEF TypeOK, Stop, Ids
<1> QED BY <1>1, <1>2, <1>3

\* At the start the plan is unread and nothing is under way.
LEMMA TypeInit == Init => TypeOK /\ Locals
<1> SUFFICES ASSUME Init PROVE TypeOK /\ Locals OBVIOUS
<1>1. \A c \in Ids : "unseen" \in Stages /\ <<>> \in Seq({"Doing", "Done", "Error"})
  BY DEF Stages
<1>2. TypeOK
  <2>1. /\ stage \in [Ids -> Stages]
        /\ verdict \in [Ids -> {"none", "succeeded", "failed"}]
        /\ changes \in [Ids -> Seq({"Doing", "Done", "Error"})]
    BY <1>1 DEF Init
  <2>2. listing \in [Ids \cup {Plugin} -> (SUBSET Snaps) \cup {None}]
    BY DEF Init
  <2>3. slots \in 0..Limit /\ installed \in SUBSET Snaps /\ faults \in 0..MaxFaults
    BY ManagerAssumptions DEF Init
  <2>4. results \in Seq(OperationResult) /\ lastList \in SUBSET Snaps
    BY DEF Init
  <2> QED BY <2>1, <2>2, <2>3, <2>4 DEF Init, TypeOK
<1>3. \A c \in Ids : plan[c] \in Command BY <1>2, PlanType
<1>4. \A c \in Ids : Len(plan[c].snaps) \in Nat
  <2>1. ASSUME NEW c \in Ids PROVE Len(plan[c].snaps) \in Nat
    <3>1. plan[c].snaps \in Seq(Snaps \cup {NoName}) BY <1>3 DEF Command
    <3> QED BY <3>1
  <2> QED BY <2>1
<1>5. Locals BY <1>4 DEF Init, Locals, Local, Working
<1> QED BY <1>2, <1>5

-----------------------------------------------------------------------------
(***************************************************************************)
(* The goroutines of the commands touch nothing of each other.             *)
(***************************************************************************)
Step(c) == Dispatch(c) \/ Handle(c) \/ Report(c) \/ Finish(c) \/ Panic(c)

\* The plan stays what it is.
LEMMA PlanFixed == ASSUME NEW c \in Ids, Step(c) PROVE plan' = plan
BY DEF Step, Dispatch, Receive, Acquire, AcquireFails, Handle, InstallSnap,
       RemoveSnap, RefreshSnap, StartService, StopService, RestartService,
       SnapCommand, BeginSnaps, RequestChange, ChangeSeen, GiveUpChange,
       AllDone, SendNow, ServiceCommand, BeginService, ServiceAction,
       Shutdown, AnswerShutdown, CallLogind, ExecuteScript, BeginScript,
       PrepareScript, ScriptEnds, ScriptKilled, Cancel, Report, Finish, Panic

\* The locals of another command.
Untouched(d) ==
  /\ stage'[d] = stage[d] /\ verdict'[d] = verdict[d]
  /\ changes'[d] = changes[d] /\ listing'[d] = listing[d]

\* A step of one command leaves the locals of another alone.
LEMMA OthersUntouched ==
  ASSUME TypeOK, NEW c \in Ids, NEW d \in Ids, d # c, Step(c)
  PROVE  Untouched(d)
<1>1. CASE Dispatch(c)
  BY <1>1 DEF Dispatch, Receive, Acquire, AcquireFails, Goto, Untouched, TypeOK
<1>2. CASE Report(c) \/ Finish(c) \/ Panic(c)
  BY <1>2 DEF Report, Finish, Panic, Goto, Untouched, TypeOK
<1>3. CASE SnapCommand(c)
  <2>1. CASE BeginSnaps(c) \/ ChangeSeen(c) \/ GiveUpChange(c) \/ AllDone(c)
    BY <2>1 DEF BeginSnaps, ChangeSeen, GiveUpChange, AllDone, ReturnError, Decide,
                Goto, Untouched, TypeOK
  <2>2. CASE RequestChange(c)
    BY <2>2 DEF RequestChange, Decide, Goto, Untouched, TypeOK
  <2>3. CASE SendNow(c)
    BY <2>3 DEF SendNow, List, SendList, Decide, Goto, Untouched, TypeOK
  <2> QED BY <1>3, <2>1, <2>2, <2>3 DEF SnapCommand
<1>4. CASE ServiceCommand(c) \/ Cancel(c)
  BY <1>4 DEF ServiceCommand, BeginService, ServiceAction, Cancel, ReturnError,
              Decide, Goto, Untouched, TypeOK
<1>5. CASE Shutdown(c)
  BY <1>5 DEF Shutdown, AnswerShutdown, CallLogind, ReturnError, Decide, Goto,
              Untouched, TypeOK
<1>6. CASE ExecuteScript(c)
  <2>1. CASE BeginScript(c)
    BY <2>1 DEF BeginScript, ReturnError, Goto, Untouched, TypeOK
  <2>2. CASE PrepareScript(c)
    BY <2>2 DEF PrepareScript, ReturnError, Decide, Goto, Untouched, TypeOK
  <2>3. CASE ScriptEnds(c) \/ ScriptKilled(c)
    BY <2>3 DEF ScriptEnds, ScriptKilled, Decide, Goto, Untouched, TypeOK
  <2> QED BY <1>6, <2>1, <2>2, <2>3 DEF ExecuteScript
<1> QED
  BY <1>1, <1>2, <1>3, <1>4, <1>5, <1>6
     DEF Step, Handle, InstallSnap, RemoveSnap, RefreshSnap, StartService,
         StopService, RestartService

\* The position an entry of the plan has in a loop.
LEMMA EntryType ==
  ASSUME TypeOK, NEW c \in Ids
  PROVE  /\ plan[c].snaps \in Seq(Snaps \cup {NoName})
         /\ Len(plan[c].snaps) \in Nat
         /\ changes[c] \in Seq({"Doing", "Done", "Error"})
         /\ Len(changes[c]) \in Nat /\ DOMAIN changes[c] = 1..Len(changes[c])
<1>1. plan[c].snaps \in Seq(Snaps \cup {NoName}) BY PlanType DEF Command
<1>2. changes[c] \in Seq({"Doing", "Done", "Error"}) BY DEF TypeOK
<1> QED BY <1>1, <1>2

\* What every handler shares keeps the locals in order.
LEMMA LocalShared ==
  ASSUME TypeOK, Locals, NEW c \in Ids,
         Dispatch(c) \/ Report(c) \/ Finish(c) \/ Panic(c)
  PROVE  Local(c)'
<1>1. Local(c) BY DEF Locals
<1>2. changes' = changes /\ listing' = listing /\ plan' = plan
  BY DEF Dispatch, Receive, Acquire, AcquireFails, Report, Finish, Panic
<1>3. stage'[c] \in {"acquire", "start", "ended", "finish"}
  BY DEF Dispatch, Receive, Acquire, AcquireFails, Report, AfterReport, Finish,
         Panic, Goto, TypeOK
<1> QED BY <1>1, <1>2, <1>3 DEF Local, Working, Kind

\* So do the snap handlers: a change is added for the entry the loop has come to.
LEMMA LocalSnaps ==
  ASSUME TypeOK, Locals, NEW c \in Ids, SnapCommand(c), Kind(c) \in SnapKinds
  PROVE  Local(c)'
<1>1. Local(c) /\ Kind(c) # "cancel-operation" BY DEF Locals, SnapKinds
<1>2. CASE BeginSnaps(c)
  <2>1. changes' = changes /\ listing' = listing /\ plan' = plan
    BY <1>2 DEF BeginSnaps
  <2>2. \/ stage'[c] = "finish"
        \/ stage'[c] = "request" /\ plan[c].form = "complete"
        \/ /\ stage'[c] = "report" /\ plan[c].form = "no argument"
           /\ verdict'[c] = "failed"
    BY <1>2 DEF BeginSnaps, ReturnError, Decide, Goto, TypeOK
  <2> QED BY <1>1, <2>1, <2>2 DEF Local, Working, Kind
<1>3. CASE RequestChange(c)
  <2>1. /\ listing' = listing /\ plan' = plan /\ stage[c] = "request"
        /\ Entry(c) <= Len(plan[c].snaps)
    BY <1>3 DEF RequestChange
  <2>2. \/ changes'[c] = changes[c]
        \/ /\ changes'[c] = Append(changes[c], "Doing")
           /\ plan[c].snaps[Entry(c)] # NoName
    BY <1>3 DEF RequestChange, TypeOK
  <2>3. plan[c].snaps[Entry(c)] # NoName => plan[c].snaps[Entry(c)] \in Snaps
    BY <2>1, EntryType DEF Entry
  <2>4. /\ Len(changes'[c]) <= Len(plan[c].snaps)
        /\ \A i \in DOMAIN changes'[c] : plan[c].snaps[i] \in Snaps
    <3>1. CASE changes'[c] = changes[c] BY <1>1, <3>1 DEF Local
    <3>2. CASE /\ changes'[c] = Append(changes[c], "Doing")
               /\ plan[c].snaps[Entry(c)] # NoName
      <4>1. /\ Len(changes'[c]) = Len(changes[c]) + 1
            /\ DOMAIN changes'[c] = 1..(Len(changes[c]) + 1)
        BY <3>2, EntryType
      <4>2. \A i \in 1..Len(changes[c]) : plan[c].snaps[i] \in Snaps
        BY <1>1, EntryType DEF Local
      <4>3. plan[c].snaps[Len(changes[c]) + 1] \in Snaps
        BY <2>3, <3>2 DEF Entry
      <4> QED BY <2>1, <4>1, <4>2, <4>3, EntryType DEF Entry
    <3> QED BY <2>2, <3>1, <3>2
  <2>5. \/ /\ stage'[c] = "wait"
           /\ changes'[c] = Append(changes[c], "Doing")
        \/ stage'[c] = "report" /\ verdict'[c] = "failed"
    BY <1>3 DEF RequestChange, Decide, Goto, TypeOK
  <2>6. stage'[c] = "wait" => changes'[c] # <<>>
    BY <2>5, EntryType
  <2> QED BY <1>1, <2>1, <2>4, <2>5, <2>6 DEF Local, Working, Kind
<1>4. CASE ChangeSeen(c) \/ GiveUpChange(c) \/ AllDone(c)
  <2>1. /\ changes' = changes /\ listing' = listing /\ plan' = plan
        /\ stage[c] \in {"wait", "request"}
    BY <1>4 DEF ChangeSeen, GiveUpChange, AllDone
  <2>2. \/ stage'[c] \in {"request", "list"}
        \/ stage'[c] = "report" /\ verdict'[c] = "failed"
    BY <1>4 DEF ChangeSeen, GiveUpChange, AllDone, Decide, Goto, TypeOK
  <2> QED BY <1>1, <2>1, <2>2 DEF Local, Working, Kind
<1>5. CASE SendNow(c)
  <2>1. changes' = changes /\ plan' = plan /\ stage[c] \in {"list", "send"}
    BY <1>5 DEF SendNow
  <2>2. CASE stage[c] = "list" /\ List(c) /\ Goto(c, "send")
    <3>1. PICK l \in SUBSET Snaps : listing' = [listing EXCEPT ![c] = l]
      BY <2>2 DEF List, Collected, TypeOK
    <3>2. listing'[c] # None
      BY <3>1, ManagerAssumptions DEF None, TypeOK
    <3>3. stage'[c] = "send" BY <2>2 DEF Goto, TypeOK
    <3> QED BY <1>1, <2>1, <3>2, <3>3 DEF Local, Working, Kind
  <2>3. CASE stage[c] = "send" /\ Decide(c, "succeeded")
    <3>1. stage'[c] = "report" /\ verdict'[c] = "succeeded"
      BY <2>3 DEF Decide, Goto, TypeOK
    <3> QED BY <1>1, <2>1, <3>1 DEF Local, Working, Kind
  <2> QED BY <1>5, <2>2, <2>3 DEF SendNow
<1> QED BY <1>2, <1>3, <1>4, <1>5 DEF SnapCommand

\* And the handlers that ask snapd for no change they wait for.
LEMMA LocalOthers ==
  ASSUME TypeOK, Locals, NEW c \in Ids,
         \/ ServiceCommand(c) /\ Kind(c) \in ServiceKinds
         \/ Shutdown(c) \/ ExecuteScript(c)
         \/ Cancel(c)
  PROVE  Local(c)'
<1>1. Local(c) BY DEF Locals
<1>2. changes' = changes /\ listing' = listing /\ plan' = plan
  BY DEF ServiceCommand, BeginService, ServiceAction, Shutdown, AnswerShutdown,
         CallLogind, ExecuteScript, BeginScript, PrepareScript, ScriptEnds,
         ScriptKilled, Cancel
<1>3. CASE ServiceCommand(c) /\ Kind(c) \in ServiceKinds
  <2>1. \/ stage'[c] = "finish"
        \/ stage'[c] = "call" /\ plan[c].form = "complete"
        \/ /\ stage[c] = "call" /\ stage'[c] = "report"
           /\ verdict'[c] \in {"failed", "succeeded"}
    BY <1>3 DEF ServiceCommand, BeginService, ServiceAction, ReturnError, Decide,
                Goto, TypeOK
  <2> QED BY <1>1, <1>2, <1>3, <2>1 DEF Local, Working, Kind, ServiceKinds
<1>4. CASE Shutdown(c)
  <2>1. \/ stage'[c] = "finish"
        \/ stage'[c] = "logind" /\ plan[c].form # "no operation-id"
        \/ /\ stage[c] = "logind" /\ stage'[c] = "report"
           /\ verdict'[c] = "failed"
    BY <1>4 DEF Shutdown, AnswerShutdown, CallLogind, ReturnError, Decide, Goto,
                TypeOK
  <2>2. Kind(c) = "shutdown" BY <1>4 DEF Shutdown
  <2> QED BY <1>1, <1>2, <2>1, <2>2 DEF Local, Working, Kind
<1>5. CASE ExecuteScript(c)
  <2>1. \/ stage'[c] = "finish"
        \/ stage'[c] = "begun" /\ plan[c].form # "no operation-id"
        \/ stage[c] = "begun" /\ stage'[c] = "run"
        \/ /\ stage[c] \in {"begun", "run"} /\ stage'[c] = "report"
           /\ verdict'[c] \in {"failed", "succeeded"}
    <3>1. CASE BeginScript(c)
      BY <3>1 DEF BeginScript, ReturnError, Goto, TypeOK
    <3>2. CASE PrepareScript(c)
      BY <3>2 DEF PrepareScript, ReturnError, Decide, Goto, TypeOK
    <3>3. CASE ScriptEnds(c) \/ ScriptKilled(c)
      BY <3>3 DEF ScriptEnds, ScriptKilled, Decide, Goto, TypeOK
    <3> QED BY <1>5, <3>1, <3>2, <3>3 DEF ExecuteScript
  <2>2. Kind(c) = "execute-script" BY <1>5 DEF ExecuteScript
  <2> QED BY <1>1, <1>2, <2>1, <2>2 DEF Local, Working, Kind
<1>6. CASE Cancel(c)
  <2>1. stage'[c] = "finish" BY <1>6 DEF Cancel, Goto, TypeOK
  <2> QED BY <1>1, <1>2, <2>1 DEF Local, Working, Kind
<1> QED BY <1>3, <1>4, <1>5, <1>6

\* A change that ends is still a change; the plugin's goroutine has a list of its
\* own.
LEMMA LocalEnvironment ==
  ASSUME TypeOK, Locals, (\E b \in Ids : ChangeReady(b)) \/ Tick \/ Stop
  PROVE  Locals'
<1>1. plan' = plan /\ stage' = stage /\ verdict' = verdict
  BY DEF ChangeReady, Tick, Stop
<1>2. SUFFICES ASSUME NEW c \in Ids PROVE Local(c)'
  BY <1>1 DEF Locals, Ids
<1>3. Local(c) BY DEF Locals
<1>4. listing'[c] = listing[c]
  <2>1. Plugin # c BY PlanType DEF Plugin
  <2> QED BY <2>1 DEF ChangeReady, Tick, Stop, List, SendList, TypeOK
<1>5. CASE Tick \/ Stop
  <2>1. changes' = changes BY <1>5 DEF Tick, Stop
  <2> QED BY <1>1, <1>3, <1>4, <2>1 DEF Local, Kind
<1>6. CASE \E b \in Ids : ChangeReady(b)
  <2>1. PICK b \in Ids : ChangeReady(b) BY <1>6
  <2>2. PICK i \in DOMAIN changes[b], v \in {"Done", "Error"} :
          changes' = [changes EXCEPT ![b][i] = v]
    BY <2>1 DEF ChangeReady
  <2>3. /\ Len(changes'[c]) = Len(changes[c])
        /\ DOMAIN changes'[c] = DOMAIN changes[c]
    <3>1. CASE c # b BY <2>2, <3>1 DEF TypeOK
    <3>2. CASE c = b
      <4>1. changes'[c] = [changes[c] EXCEPT ![i] = v]
        BY <2>2, <3>2 DEF TypeOK
      <4>2. Len([changes[c] EXCEPT ![i] = v]) = Len(changes[c])
        BY <2>2, <3>2, EntryType, ExceptSeq
      <4>3. DOMAIN [changes[c] EXCEPT ![i] = v] = DOMAIN changes[c] OBVIOUS
      <4> QED BY <4>1, <4>2, <4>3
    <3> QED BY <3>1, <3>2
  <2>4. changes[c] # <<>> => changes'[c] # <<>>
    BY <2>3, EntryType
  <2> QED BY <1>1, <1>3, <1>4, <2>3, <2>4 DEF Local, Kind
<1> QED BY <1>5, <1>6

\* The handler of a command is the one of its kind.
LEMMA HandlerOfKind ==
  ASSUME NEW c \in Ids, Handle(c)
  PROVE  \/ SnapCommand(c) /\ Kind(c) \in SnapKinds
         \/ ServiceCommand(c) /\ Kind(c) \in ServiceKinds
         \/ Shutdown(c) \/ ExecuteScript(c) \/ Cancel(c)
BY DEF Handle, InstallSnap, RemoveSnap, RefreshSnap, StartService, StopService,
       RestartService, SnapKinds, ServiceKinds

\* Every step keeps the locals in order.
LEMMA LocalStep == TypeOK /\ Locals /\ [Next]_vars => Locals'
<1> SUFFICES ASSUME TypeOK, Locals, [Next]_vars PROVE Locals' OBVIOUS
<1>1. ASSUME NEW c \in Ids, Step(c) PROVE Locals'
  <2>1. Local(c)'
    BY <1>1, LocalShared, LocalSnaps, LocalOthers, HandlerOfKind DEF Step
  <2>2. ASSUME NEW d \in Ids, d # c PROVE Local(d)'
    <3>1. Untouched(d) /\ plan' = plan
      BY <1>1, <2>2, PlanFixed, OthersUntouched
    <3>2. Local(d) BY DEF Locals
    <3> QED BY <3>1, <3>2 DEF Local, Untouched, Kind
  <2>3. plan' = plan BY <1>1, PlanFixed
  <2> QED BY <2>1, <2>2, <2>3 DEF Locals, Ids
<1>2. CASE UNCHANGED vars
  BY <1>2 DEF vars, Locals, Local, Ids, Kind
<1> QED BY <1>1, <1>2, LocalEnvironment DEF Next, Step

-----------------------------------------------------------------------------
(***************************************************************************)
(* Slots and registrations.                                                *)
(***************************************************************************)

\* A handler at work neither takes a slot nor gives one back; it registers its
\* own operation, at its start.
LEMMA HandlerHolds ==
  ASSUME TypeOK, NEW c \in Ids, Handle(c) \/ Report(c) \/ Panic(c)
  PROVE  /\ Holding(c) /\ Holding(c)' /\ slots' = slots
         /\ stage'[c] # "start"
         /\ operations' = operations \/ operations' = operations \cup {c}
<1>1. CASE Report(c) \/ Panic(c)
  BY <1>1 DEF Report, AfterReport, Panic, Goto, Holding, TypeOK
<1>2. CASE SnapCommand(c)
  <2>1. CASE BeginSnaps(c) \/ ChangeSeen(c) \/ GiveUpChange(c) \/ AllDone(c)
    BY <2>1 DEF BeginSnaps, ChangeSeen, GiveUpChange, AllDone, ReturnError, Decide,
                RegisterOperation, Goto, Holding, TypeOK
  <2>2. CASE RequestChange(c) \/ SendNow(c)
    BY <2>2 DEF RequestChange, SendNow, Decide, Goto, Holding, TypeOK
  <2> QED BY <1>2, <2>1, <2>2 DEF SnapCommand
<1>3. CASE ServiceCommand(c) \/ Cancel(c)
  BY <1>3 DEF ServiceCommand, BeginService, ServiceAction, Cancel, ReturnError,
              RegisterOperation, Decide, Goto, Holding, TypeOK
<1>4. CASE Shutdown(c)
  BY <1>4 DEF Shutdown, AnswerShutdown, CallLogind, ReturnError, Decide, Goto,
              Holding, TypeOK
<1>5. CASE ExecuteScript(c)
  <2>1. CASE BeginScript(c)
    BY <2>1 DEF BeginScript, ReturnError, RegisterOperation, Goto, Holding, TypeOK
  <2>2. CASE PrepareScript(c)
    BY <2>2 DEF PrepareScript, ReturnError, Decide, Goto, Holding, TypeOK
  <2>3. CASE ScriptEnds(c) \/ ScriptKilled(c)
    BY <2>3 DEF ScriptEnds, ScriptKilled, Decide, Goto, Holding, TypeOK
  <2> QED BY <1>5, <2>1, <2>2, <2>3 DEF ExecuteScript
<1> QED BY <1>1, <1>2, <1>3, <1>4, <1>5, HandlerOfKind

\* The slots taken are counted by the goroutines that hold one, through every step.
LEMMA LeaksNothing ==
  TypeOK /\ NothingLeaks /\ [Next]_vars => NothingLeaks'
<1> SUFFICES ASSUME TypeOK, NothingLeaks, [Next]_vars PROVE NothingLeaks'
  OBVIOUS
<1>1. ASSUME plan' = plan, stage' = stage, slots' = slots, operations' = operations
      PROVE  NothingLeaks'
  BY <1>1 DEF NothingLeaks, Holding, Ids
<1>2. ASSUME NEW c \in Ids, Step(c) PROVE NothingLeaks'
  <2>1. /\ slots + Cardinality(Holders) = Limit
        /\ \A d \in operations : Holding(d) /\ stage[d] # "start"
    BY DEF NothingLeaks, Holders
  <2>2. plan' = plan /\ \A d \in Ids : d # c => stage'[d] = stage[d]
    BY <1>2, PlanFixed, OthersUntouched DEF Untouched
  <2>3. \A d \in Ids : d # c => (Holding(d)' <=> Holding(d))
    BY <2>2 DEF Holding
  <2>4. CASE Holding(c)' <=> Holding(c)
    <3>1. Holders' = Holders BY <2>2, <2>3, <2>4 DEF Holders, Ids
    <3>2. slots' = slots
      <4>1. CASE Dispatch(c)
        BY <2>4, <4>1 DEF Dispatch, Receive, Acquire, AcquireFails,
                          SlotsAfterRefusal, Goto, Holding, TypeOK
      <4>2. CASE Finish(c)
        BY <2>4, <4>2 DEF Finish, Goto, Holding, TypeOK
      <4> QED BY <1>2, <4>1, <4>2, HandlerHolds DEF Step
    <3>3. \A d \in operations' : Holding(d)' /\ stage'[d] # "start"
      <4>1. CASE Dispatch(c)
        BY <2>1, <2>2, <2>3, <2>4, <4>1
           DEF Dispatch, Receive, Acquire, AcquireFails, Goto, Holding, TypeOK
      <4>2. CASE Finish(c)
        BY <2>4, <4>2 DEF Finish, Goto, Holding, TypeOK
      <4>3. CASE Handle(c) \/ Report(c) \/ Panic(c)
        BY <2>1, <2>2, <2>3, <4>3, HandlerHolds DEF TypeOK
      <4> QED BY <1>2, <4>1, <4>2, <4>3 DEF Step
    <3> QED BY <2>1, <2>2, <3>1, <3>2, <3>3 DEF NothingLeaks, Holders, Ids
  <2>5. CASE Holding(c)' /\ ~Holding(c)
    <3>1. Acquire(c)
      <4>1. ~(Handle(c) \/ Report(c) \/ Panic(c)) BY <2>5, HandlerHolds
      <4>2. ~Finish(c) BY <2>5 DEF Finish, Holding
      <4>3. ~Receive(c) /\ ~AcquireFails(c)
        BY <2>5 DEF Receive, AcquireFails, Goto, Holding, TypeOK
      <4> QED BY <1>2, <4>1, <4>2, <4>3 DEF Step, Dispatch
    <3>2. Holders' = Holders \cup {c} BY <2>2, <2>3, <2>5 DEF Holders, Ids
    <3>3. Cardinality(Holders') = Cardinality(Holders) + 1
      BY <2>5, <3>2, HoldersCounted, FS_AddElement DEF Holders
    <3>4. slots' = slots - 1 /\ operations' = operations BY <3>1 DEF Acquire
    <3>5. slots' + Cardinality(Holders') = Limit
      BY <2>1, <3>3, <3>4, HoldersCounted, ManagerAssumptions DEF TypeOK
    <3>6. \A d \in operations' : Holding(d)' /\ stage'[d] # "start"
      BY <2>1, <2>2, <2>3, <2>5, <3>4 DEF TypeOK
    <3> QED BY <2>2, <3>5, <3>6 DEF NothingLeaks, Holders, Ids
  <2>6. CASE ~Holding(c)' /\ Holding(c)
    <3>1. Finish(c)
      <4>1. ~(Handle(c) \/ Report(c) \/ Panic(c)) BY <2>6, HandlerHolds
      <4>2. ~Dispatch(c)
        BY <2>6 DEF Dispatch, Receive, Acquire, AcquireFails, Holding
      <4> QED BY <1>2, <4>1, <4>2 DEF Step
    <3>2. Holders' = Holders \ {c} BY <2>2, <2>3, <2>6 DEF Holders, Ids
    <3>3. Cardinality(Holders') = Cardinality(Holders) - 1
      BY <2>6, <3>2, HoldersCounted, FS_RemoveElement DEF Holders
    <3>4. slots' = slots + 1 /\ operations' = operations \ {c}
      BY <3>1 DEF Finish, Released, Cleanup
    <3>5. slots' + Cardinality(Holders') = Limit
      BY <2>1, <3>3, <3>4, HoldersCounted, ManagerAssumptions DEF TypeOK
    <3>6. \A d \in operations' : Holding(d)' /\ stage'[d] # "start"
      BY <2>1, <2>2, <2>3, <3>4 DEF TypeOK
    <3> QED BY <2>2, <3>5, <3>6 DEF NothingLeaks, Holders, Ids
  <2> QED BY <2>4, <2>5, <2>6
<1>3. CASE (\E b \in Ids : ChangeReady(b)) \/ Tick \/ Stop \/ UNCHANGED vars
  BY <1>1, <1>3 DEF ChangeReady, Tick, Stop, vars
<1> QED BY <1>2, <1>3 DEF Next, Step

-----------------------------------------------------------------------------
\* The types, the locals and the slots hold at the start ...
LEMMA BasicsInit == Init => TypeOK /\ Locals /\ NothingLeaks
<1> SUFFICES ASSUME Init PROVE NothingLeaks BY TypeInit
<1>1. Holders = {} BY DEF Init, Holders, Holding
<1>2. slots + Cardinality(Holders) = Limit
  BY <1>1, FS_EmptySet, ManagerAssumptions DEF Init
<1> QED BY <1>2 DEF Init, NothingLeaks, Holders

\* ... and through every step.
LEMMA BasicsStep ==
  TypeOK /\ Locals /\ NothingLeaks /\ [Next]_vars
    => TypeOK' /\ Locals' /\ NothingLeaks'
<1> SUFFICES ASSUME TypeOK, Locals, NothingLeaks, [Next]_vars PROVE TypeOK'
  BY LocalStep, LeaksNothing
<1>1. ASSUME NEW c \in Ids, Step(c) PROVE TypeOK'
  BY <1>1, TypeDispatch, TypeShared, TypeSnaps, TypeServices, TypeShutdown,
     TypeScript, HandlerOfKind DEF Step
<1>2. CASE UNCHANGED vars BY <1>2 DEF vars, TypeOK, Ids
<1> QED BY <1>1, <1>2, TypeOthers DEF Next, Step

\* Every variable keeps its type, the semaphore's count and the registry among
\* them, whatever commands come and whatever fails.
THEOREM TypeCorrect == Spec => []TypeOK
<1>1. Spec => [](TypeOK /\ Locals /\ NothingLeaks)
  BY BasicsInit, BasicsStep, PTL DEF Spec
<1> QED BY <1>1, PTL

\* Neither a slot of the semaphore nor an entry of the registry stays behind,
\* however a handler ended: the deferred calls of Runner.Register and of the
\* handlers give back what was taken, once.
THEOREM NothingIsLeaked == Spec => []NothingLeaks
<1>1. Spec => [](TypeOK /\ Locals /\ NothingLeaks)
  BY BasicsInit, BasicsStep, PTL DEF Spec
<1> QED BY <1>1, PTL

-----------------------------------------------------------------------------
(***************************************************************************)
(* The results of a command.                                               *)
(***************************************************************************)

\* A command answers itself, and but for a shutdown it answers once, when it is
\* over; a command that is over without an answer returned an error.
Reply(c) ==
  /\ Answered(c) => \/ stage[c] \in {"finish", "ended"}
                    \/ Kind(c) = "shutdown"
  /\ stage[c] \in {"unseen", "acquire", "start"} => ~Answered(c)
  /\ stage[c] = "logind" => Answered(c)
  /\ stage[c] \in {"finish", "ended"} =>
       \/ Answered(c)
       \/ Kind(c) = "cancel-operation"
       \/ plan[c].form = "no operation-id"
       \/ plan[c].form = "no argument" /\ Kind(c) \notin SnapKinds
       \/ Kind(c) = "execute-script"

Replies == \A c \in Ids : Reply(c)

\* A result is for the operation of the command it is from; only one that names
\* its own operation is a success.
Signed ==
  \A i \in DOMAIN results :
    /\ results[i].from \in Ids /\ results[i].op = OpOf(results[i].from)
    /\ results[i].status = "succeeded" => results[i].op = results[i].from

\* Two results of one command are those of a shutdown.
Single ==
  \A i, j \in DOMAIN results :
    i < j /\ results[i].from = results[j].from => Kind(results[i].from) = "shutdown"

\* What a step adds to the results.
Adds(c, status) ==
  \E r \in OperationResult :
    /\ r.from = c /\ r.op = OpOf(c) /\ r.status = status
    /\ results' = Append(results, r)

\* Of the operations that have a handler, those with an id have their own.
LEMMA OwnOperation ==
  ASSUME TypeOK, NEW c \in Ids, NEW status \in {"succeeded", "failed"}
  PROVE  /\ Result(OpOf(c), status, c) \in OperationResult
         /\ (plan[c].form # "no operation-id" /\ Kind(c) # "cancel-operation")
              => OpOf(c) = c
<1>1. OpOf(c) \in Nat /\ c \in Nat BY PlanType DEF OpOf, Command
<1> QED BY <1>1 DEF Result, OperationResult, OpOf

\* A step adds a result when a handler reports or panics, when a shutdown begins
\* and when no slot can be had; else it adds none.
LEMMA ResultsOfStep ==
  ASSUME TypeOK, Locals, NEW c \in Ids, Step(c)
  PROVE  \/ results' = results /\ ~AcquireFails(c) /\ ~Report(c) /\ ~Panic(c)
         \/ /\ Adds(c, "failed") /\ stage[c] \in Working \cup {"acquire"}
            /\ stage'[c] \in {"finish", "ended"}
         \/ /\ Report(c) /\ Adds(c, verdict[c]) /\ stage[c] = "report"
            /\ stage'[c] = "finish" /\ verdict[c] \in {"succeeded", "failed"}
         \/ /\ AnswerShutdown(c) /\ Adds(c, "succeeded") /\ stage[c] = "start"
            /\ Kind(c) = "shutdown" /\ stage'[c] = "logind"
<1>0. Local(c) BY DEF Locals
<1>1. CASE Report(c)
  <2>1. verdict[c] \in {"succeeded", "failed"} /\ OpOf(c) = c
    BY <1>0, <1>1, OwnOperation DEF Report, Local, Working, TypeOK
  <2>2. Result(c, verdict[c], c) \in OperationResult
    BY <2>1, OwnOperation
  <2>3. Adds(c, verdict[c])
    BY <1>1, <2>1, <2>2 DEF Adds, Report, Result
  <2> QED BY <1>1, <2>1, <2>3 DEF Report, AfterReport, Goto, TypeOK
<1>2. CASE AcquireFails(c)
  <2>1. Result(OpOf(c), "failed", c) \in OperationResult BY OwnOperation
  <2>2. Adds(c, "failed") BY <1>2, <2>1 DEF Adds, AcquireFails, Result
  <2> QED BY <1>2, <2>2 DEF AcquireFails, Goto, TypeOK
<1>3. CASE Panic(c)
  <2>1. Result(OpOf(c), "failed", c) \in OperationResult BY OwnOperation
  <2>2. Adds(c, "failed") BY <1>3, <2>1 DEF Adds, Panic, PanicReported, Result
  <2> QED BY <1>3, <2>2 DEF Panic, Goto, Working, TypeOK
<1>4. CASE AnswerShutdown(c) /\ Kind(c) = "shutdown" /\ plan[c].form # "no operation-id"
  <2>1. OpOf(c) = c BY <1>4, OwnOperation
  <2>2. Result(c, "succeeded", c) \in OperationResult BY <2>1, OwnOperation
  <2>3. Adds(c, "succeeded")
    BY <1>4, <2>1, <2>2 DEF Adds, AnswerShutdown, Result
  <2> QED BY <1>4, <2>3 DEF AnswerShutdown, Goto, TypeOK
<1>5. ASSUME ~Report(c), ~AcquireFails(c), ~Panic(c),
             ~(AnswerShutdown(c) /\ Kind(c) = "shutdown"
                 /\ plan[c].form # "no operation-id")
      PROVE  results' = results
  <2>1. CASE Receive(c) \/ Acquire(c) \/ Finish(c)
    BY <2>1 DEF Receive, Acquire, Finish
  <2>2. CASE SnapCommand(c)
    BY <2>2 DEF SnapCommand, BeginSnaps, RequestChange, ChangeSeen, GiveUpChange,
                AllDone, SendNow, ReturnError
  <2>3. CASE ServiceCommand(c) \/ Cancel(c)
    BY <2>3 DEF ServiceCommand, BeginService, ServiceAction, Cancel, ReturnError
  <2>4. CASE Shutdown(c)
    BY <1>5, <2>4 DEF Shutdown, AnswerShutdown, CallLogind, ReturnError
  <2>5. CASE ExecuteScript(c)
    BY <2>5 DEF ExecuteScript, BeginScript, PrepareScript, ScriptEnds, ScriptKilled,
                ReturnError
  <2> QED BY <1>5, <2>1, <2>2, <2>3, <2>4, <2>5, HandlerOfKind DEF Step, Dispatch
<1> QED BY <1>1, <1>2, <1>3, <1>4, <1>5

\* A result that is added answers the command that it is from.
LEMMA AnswersAfter ==
  ASSUME TypeOK, NEW c, NEW d, NEW status \in {"succeeded", "failed"},
         Adds(c, status)
  PROVE  Answered(d)' <=> Answered(d) \/ d = c
<1>1. PICK r \in OperationResult :
        r.from = c /\ results' = Append(results, r)
  BY DEF Adds
<1>2. results \in Seq(OperationResult) /\ Len(results) \in Nat BY DEF TypeOK
<1>3. /\ DOMAIN results = 1..Len(results) /\ DOMAIN results' = 1..(Len(results) + 1)
      /\ results'[Len(results) + 1] = r
      /\ \A i \in 1..Len(results) : results'[i] = results[i]
  BY <1>1, <1>2
<1>4. \A i \in DOMAIN results' : i \in DOMAIN results \/ i = Len(results) + 1
  BY <1>2, <1>3
<1> QED BY <1>1, <1>2, <1>3, <1>4 DEF Answered

\* Where a command goes when it adds no result.
LEMMA SilentStep ==
  ASSUME TypeOK, Locals, NEW c \in Ids, Step(c), results' = results,
         ~AcquireFails(c), ~Report(c), ~Panic(c)
  PROVE  \/ stage[c] \in {"unseen", "acquire"} /\ stage'[c] \in {"acquire", "start"}
         \/ /\ stage[c] \in Working \cup {"start"}
            /\ stage'[c] \in Working \ {"logind"}
         \/ stage[c] = "logind" /\ stage'[c] = "finish"
         \/ stage[c] = "finish" /\ stage'[c] = "ended"
         \/ /\ stage[c] \in {"start", "begun"} /\ stage'[c] = "finish"
            /\ \/ Kind(c) \in {"cancel-operation", "execute-script"}
               \/ plan[c].form = "no operation-id"
               \/ plan[c].form = "no argument" /\ Kind(c) \notin SnapKinds
<1>0. plan[c].form \in Forms BY PlanType DEF Command
<1>1. CASE Dispatch(c) \/ Finish(c)
  BY <1>1 DEF Dispatch, Receive, Acquire, Finish, Goto, TypeOK
<1>2. CASE SnapCommand(c)
  <2>1. CASE BeginSnaps(c)
    BY <2>1 DEF BeginSnaps, ReturnError, Decide, Goto, Working, TypeOK
  <2>2. CASE RequestChange(c)
    BY <2>2 DEF RequestChange, Decide, Goto, Working, TypeOK
  <2>3. CASE ChangeSeen(c) \/ GiveUpChange(c) \/ AllDone(c)
    BY <2>3 DEF ChangeSeen, GiveUpChange, AllDone, Decide, Goto, Working, TypeOK
  <2>4. CASE SendNow(c)
    BY <2>4 DEF SendNow, Decide, Goto, Working, TypeOK
  <2> QED BY <1>2, <2>1, <2>2, <2>3, <2>4 DEF SnapCommand
<1>3. CASE ServiceCommand(c) /\ Kind(c) \in ServiceKinds
  <2>1. Kind(c) \notin SnapKinds BY <1>3 DEF ServiceKinds, SnapKinds
  <2> QED
    BY <1>0, <1>3, <2>1 DEF ServiceCommand, BeginService, ServiceAction, Forms,
                            ReturnError, Decide, Goto, Working, TypeOK
<1>4. CASE Shutdown(c)
  <2>1. CASE AnswerShutdown(c)
    <3>1. CASE plan[c].form = "no operation-id"
      BY <2>1, <3>1 DEF AnswerShutdown, ReturnError, Goto, TypeOK
    <3>2. CASE plan[c].form # "no operation-id"
      <4>1. Result(c, "succeeded", c) \in OperationResult
        BY PlanType DEF Result, OperationResult
      <4>2. results' = Append(results, Result(c, "succeeded", c))
        BY <2>1, <3>2 DEF AnswerShutdown
      <4>3. results \in Seq(OperationResult) BY DEF TypeOK
      <4>4. Len(results') = Len(results) + 1 /\ Len(results) \in Nat
        BY <4>1, <4>2, <4>3
      <4>5. \A n \in Nat : n # n + 1 OBVIOUS
      <4> QED BY <4>4, <4>5
    <3> QED BY <3>1, <3>2
  <2>2. CASE CallLogind(c)
    BY <2>2 DEF CallLogind, Decide, Goto, Working, TypeOK
  <2> QED BY <1>4, <2>1, <2>2 DEF Shutdown
<1>5. CASE ExecuteScript(c)
  <2>1. CASE BeginScript(c)
    BY <2>1 DEF BeginScript, ReturnError, Goto, Working, TypeOK
  <2>2. CASE PrepareScript(c) /\ Kind(c) = "execute-script"
    BY <2>2 DEF PrepareScript, ReturnError, Decide, Goto, Working, TypeOK
  <2>3. CASE ScriptEnds(c) \/ ScriptKilled(c)
    BY <2>3 DEF ScriptEnds, ScriptKilled, Decide, Goto, Working, TypeOK
  <2> QED BY <1>5, <2>1, <2>2, <2>3 DEF ExecuteScript
<1>6. CASE Cancel(c)
  BY <1>6 DEF Cancel, Goto, TypeOK
<1> QED BY <1>1, <1>2, <1>3, <1>4, <1>5, <1>6, HandlerOfKind DEF Step

\* A step keeps the answers of its command in order ...
LEMMA ReplyOfStep ==
  ASSUME TypeOK, Locals, Replies, NEW c \in Ids, Step(c)
  PROVE  Reply(c)'
<1>1. Reply(c) BY DEF Replies
<1>2. plan' = plan BY PlanFixed
<1>3. CASE results' = results /\ ~AcquireFails(c) /\ ~Report(c) /\ ~Panic(c)
  <2>1. Answered(c)' <=> Answered(c) BY <1>3 DEF Answered
  <2> QED BY <1>1, <1>2, <1>3, <2>1, SilentStep DEF Reply, Kind, Working
<1>4. ASSUME Answered(c)',
             stage'[c] \in {"finish", "ended", "logind"},
             stage'[c] = "logind" => Kind(c) = "shutdown"
      PROVE  Reply(c)'
  BY <1>2, <1>4 DEF Reply, Kind
<1>5. CASE Adds(c, "failed") /\ stage'[c] \in {"finish", "ended"}
  <2>1. Answered(c)' BY <1>5, AnswersAfter
  <2> QED BY <1>4, <1>5, <2>1
<1>6. CASE /\ Adds(c, verdict[c]) /\ stage'[c] = "finish"
           /\ verdict[c] \in {"succeeded", "failed"}
  <2>1. Answered(c)' BY <1>6, AnswersAfter
  <2> QED BY <1>4, <1>6, <2>1
<1>7. CASE Adds(c, "succeeded") /\ stage'[c] = "logind" /\ Kind(c) = "shutdown"
  <2>1. Answered(c)' BY <1>7, AnswersAfter
  <2> QED BY <1>4, <1>7, <2>1
<1> QED BY <1>3, <1>5, <1>6, <1>7, ResultsOfStep

\* ... and those of the others as they are.
LEMMA RepliesStep == TypeOK /\ Locals /\ Replies /\ [Next]_vars => Replies'
<1> SUFFICES ASSUME TypeOK, Locals, Replies, [Next]_vars PROVE Replies' OBVIOUS
<1>1. ASSUME NEW c \in Ids, Step(c) PROVE Replies'
  <2>1. plan' = plan BY <1>1, PlanFixed
  <2>2. ASSUME NEW d \in Ids, d # c PROVE Reply(d)'
    <3>1. stage'[d] = stage[d] BY <1>1, <2>2, OthersUntouched DEF Untouched
    <3>2. Answered(d)' <=> Answered(d)
      <4>1. CASE results' = results BY <4>1 DEF Answered
      <4>2. ASSUME NEW status \in {"succeeded", "failed"}, Adds(c, status)
            PROVE  Answered(d)' <=> Answered(d)
        BY <2>2, <4>2, AnswersAfter
      <4> QED BY <1>1, <4>1, <4>2, ResultsOfStep
    <3>3. Reply(d) BY DEF Replies
    <3> QED BY <2>1, <3>1, <3>2, <3>3 DEF Reply, Kind
  <2>3. Reply(c)' BY <1>1, ReplyOfStep
  <2>4. Ids' = Ids BY <2>1 DEF Ids
  <2>5. \A d \in Ids : Reply(d)' BY <2>2, <2>3, Zenon
  <2> QED BY <2>4, <2>5 DEF Replies
<1>2. CASE (\E b \in Ids : ChangeReady(b)) \/ Tick \/ Stop \/ UNCHANGED vars
  <2>1. plan' = plan /\ stage' = stage /\ results' = results
    BY <1>2 DEF ChangeReady, Tick, Stop, vars
  <2>2. Ids' = Ids BY <2>1 DEF Ids
  <2>3. ASSUME NEW d \in Ids PROVE Reply(d)'
    <3>1. Reply(d) BY DEF Replies
    <3>2. Answered(d)' <=> Answered(d) BY <2>1 DEF Answered
    <3> QED BY <2>1, <3>1, <3>2 DEF Reply, Kind
  <2> QED BY <2>2, <2>3 DEF Replies
<1> QED BY <1>1, <1>2 DEF Next, Step

\* A command that has given its only answer is past the places where it would
\* give another.
LEMMA SignedStep ==
  TypeOK /\ Locals /\ Replies /\ Signed /\ Single /\ [Next]_vars
    => Signed' /\ Single'
<1> SUFFICES ASSUME TypeOK, Locals, Replies, Signed, Single, [Next]_vars
             PROVE  Signed' /\ Single'
  OBVIOUS
<1>1. ASSUME NEW c \in Ids, NEW status \in {"succeeded", "failed"},
             Adds(c, status), plan' = plan,
             status = "succeeded" => OpOf(c) = c,
             Kind(c) # "shutdown" => ~Answered(c)
      PROVE  Signed' /\ Single'
  <2>1. PICK r \in OperationResult :
          /\ r.from = c /\ r.op = OpOf(c) /\ r.status = status
          /\ results' = Append(results, r)
    BY <1>1 DEF Adds
  <2>2. results \in Seq(OperationResult) /\ Len(results) \in Nat BY DEF TypeOK
  <2>3. /\ DOMAIN results = 1..Len(results)
        /\ DOMAIN results' = 1..(Len(results) + 1)
        /\ results'[Len(results) + 1] = r
        /\ \A i \in 1..Len(results) : results'[i] = results[i]
    BY <2>1, <2>2
  <2>4. \A i \in DOMAIN results' : i \in DOMAIN results \/ i = Len(results) + 1
    BY <2>2, <2>3
  <2>5. Ids' = Ids /\ \A d : (OpOf(d)' = OpOf(d)) /\ (Kind(d)' = Kind(d))
    BY <1>1 DEF Ids, OpOf, Kind
  <2>6. Signed'
    BY <1>1, <2>1, <2>3, <2>4, <2>5 DEF Signed
  <2>7. \A i, j \in DOMAIN results' :
          i < j /\ results'[i].from = results'[j].from
            => Kind(results'[i].from) = "shutdown"
    <3> SUFFICES ASSUME NEW i \in DOMAIN results', NEW j \in DOMAIN results',
                        i < j, results'[i].from = results'[j].from
                 PROVE  Kind(results'[i].from) = "shutdown"
      OBVIOUS
    <3>1. i \in DOMAIN results BY <2>2, <2>3
    <3>2. CASE j \in DOMAIN results
      BY <2>3, <3>1, <3>2 DEF Single
    <3>3. CASE j = Len(results) + 1
      BY <1>1, <2>1, <2>3, <3>1, <3>3 DEF Answered
    <3> QED BY <2>4, <3>2, <3>3
  <2> QED BY <2>5, <2>6, <2>7 DEF Single
<1>2. ASSUME NEW c \in Ids, Step(c) PROVE Signed' /\ Single'
  <2>1. plan' = plan BY <1>2, PlanFixed
  <2>2. Reply(c) /\ Local(c) BY DEF Replies, Locals
  <2>3. CASE results' = results
    BY <2>1, <2>3 DEF Signed, Single, OpOf, Kind, Ids
  <2>4. CASE /\ Adds(c, "failed") /\ stage[c] \in Working \cup {"acquire"}
    <3>1. Kind(c) # "shutdown" => ~Answered(c)
      BY <2>2, <2>4 DEF Reply, Working
    <3> QED BY <1>1, <2>1, <2>4, <3>1
  <2>5. CASE /\ Adds(c, verdict[c]) /\ stage[c] = "report"
             /\ verdict[c] \in {"succeeded", "failed"}
    <3>1. Kind(c) # "shutdown" => ~Answered(c) BY <2>2, <2>5 DEF Reply
    <3>2. OpOf(c) = c BY <2>2, <2>5, OwnOperation DEF Local, Working
    <3> QED BY <1>1, <2>1, <2>5, <3>1, <3>2
  <2>6. CASE /\ AnswerShutdown(c) /\ Adds(c, "succeeded") /\ Kind(c) = "shutdown"
             /\ stage[c] = "start" /\ stage'[c] = "logind"
    <3>1. plan[c].form # "no operation-id"
      BY <2>6 DEF AnswerShutdown, ReturnError, Goto, TypeOK
    <3>2. OpOf(c) = c BY <2>6, <3>1, OwnOperation
    <3> QED BY <1>1, <2>1, <2>6, <3>2
  <2> QED BY <1>2, <2>3, <2>4, <2>5, <2>6, ResultsOfStep
<1>3. CASE (\E b \in Ids : ChangeReady(b)) \/ Tick \/ Stop \/ UNCHANGED vars
  <2>1. plan' = plan /\ results' = results
    BY <1>3 DEF ChangeReady, Tick, Stop, vars
  <2> QED BY <2>1 DEF Signed, Single, OpOf, Kind, Ids
<1> QED BY <1>2, <1>3 DEF Next, Step

\* The types, the locals, the slots and the results together.
Sound == TypeOK /\ Locals /\ NothingLeaks /\ Replies /\ Signed /\ Single

LEMMA SoundInit == Init => Sound
<1> SUFFICES ASSUME Init PROVE Sound OBVIOUS
<1>1. \A c : ~Answered(c) BY DEF Init, Answered
<1>2. Replies BY <1>1 DEF Init, Replies, Reply
<1>3. Signed /\ Single BY DEF Init, Signed, Single
<1> QED BY <1>2, <1>3, BasicsInit DEF Sound

LEMMA SoundStep == Sound /\ [Next]_vars => Sound'
BY BasicsStep, RepliesStep, SignedStep DEF Sound

LEMMA SpecSound == Spec => []Sound
BY SoundInit, SoundStep, PTL DEF Spec

\* Two results for an operation are of one command, or one of them is that of a
\* cancel-operation; the first only for a shutdown.
THEOREM VerdictIsFinal == Spec => []OneVerdict
<1>1. Sound => OneVerdict
  <2> SUFFICES ASSUME Sound,
                      NEW i \in DOMAIN results, NEW j \in DOMAIN results,
                      i < j, results[i].op = results[j].op, results[i].op # 0,
                      \A r \in {results[i], results[j]} :
                        Kind(r.from) # "cancel-operation"
               PROVE  Kind(results[i].op) = "shutdown"
    BY DEF OneVerdict
  <2>1. /\ results[i].from \in Ids /\ results[i].op = OpOf(results[i].from)
        /\ results[j].from \in Ids /\ results[j].op = OpOf(results[j].from)
    BY DEF Sound, Signed
  <2>2. results[i].op = results[i].from /\ results[j].op = results[j].from
    BY <2>1 DEF OpOf
  <2> QED BY <2>2 DEF Sound, Single
<1> QED BY <1>1, SpecSound, PTL

\* Only a handler that returned an error leaves its command without an answer.
THEOREM SilenceMeansError == Spec => []SilenceIsAnError
<1>1. Sound => SilenceIsAnError
  BY DEF Sound, Replies, Reply, SilenceIsAnError
<1> QED BY <1>1, SpecSound, PTL

-----------------------------------------------------------------------------
(***************************************************************************)
(* What a snap operation has achieved.                                     *)
(***************************************************************************)

\* Each entry has its change, and all are done.
CarriedOut(c) == changes[c] = [k \in DOMAIN plan[c].snaps |-> "Done"]

\* A result of the command reports success.
Succeeded(c) ==
  \E i \in DOMAIN results :
    results[i].from = c /\ results[i].status = "succeeded"

\* The handler is past the loop, or is about to report success, or has.
PastLoop(c) ==
  \/ stage[c] \in {"list", "send"}
  \/ stage[c] = "report" /\ verdict[c] = "succeeded"
  \/ Succeeded(c)

\* The loop over the snaps goes on from a change that is done only; it is left for
\* the list and the report of success when it has passed every entry.
Carried(c) ==
  /\ stage[c] \in {"unseen", "acquire", "start"} => changes[c] = <<>>
  /\ stage[c] = "request" => \A i \in DOMAIN changes[c] : changes[c][i] = "Done"
  /\ stage[c] = "wait" =>
       \A i \in DOMAIN changes[c] :
         i < Len(changes[c]) => changes[c][i] = "Done"
  /\ PastLoop(c) => CarriedOut(c)

CarriedAll == \A c \in Ids : Kind(c) \in SnapKinds => Carried(c)

\* Only a success that is added makes a command succeed.
LEMMA SuccessAfter ==
  ASSUME TypeOK, NEW c, NEW d, NEW status \in {"succeeded", "failed"},
         Adds(c, status)
  PROVE  Succeeded(d)' <=> Succeeded(d) \/ (d = c /\ status = "succeeded")
<1>1. PICK r \in OperationResult :
        /\ r.from = c /\ r.status = status
        /\ results' = Append(results, r)
  BY DEF Adds
<1>2. results \in Seq(OperationResult) /\ Len(results) \in Nat BY DEF TypeOK
<1>3. /\ DOMAIN results = 1..Len(results) /\ DOMAIN results' = 1..(Len(results) + 1)
      /\ results'[Len(results) + 1] = r
      /\ \A i \in 1..Len(results) : results'[i] = results[i]
  BY <1>1, <1>2
<1>4. \A i \in DOMAIN results' : i \in DOMAIN results \/ i = Len(results) + 1
  BY <1>2, <1>3
<1> QED BY <1>1, <1>2, <1>3, <1>4 DEF Succeeded

\* A snap operation that is not over has not succeeded.
LEMMA NotYet ==
  ASSUME Replies, NEW c \in Ids, Kind(c) \in SnapKinds,
         stage[c] \notin {"finish", "ended"}
  PROVE  ~Succeeded(c)
<1>1. Reply(c) /\ Kind(c) # "shutdown" BY DEF Replies, SnapKinds
<1>2. Succeeded(c) => Answered(c) BY DEF Succeeded, Answered
<1> QED BY <1>1, <1>2 DEF Reply

\* The steps of a snap handler.
LEMMA CarriedSnaps ==
  ASSUME Sound, NEW c \in Ids, Kind(c) \in SnapKinds, Carried(c), SnapCommand(c)
  PROVE  Carried(c)'
<1>0. TypeOK /\ Local(c) /\ Replies BY DEF Sound, Locals
<1>1. plan' = plan /\ results' = results
  BY DEF SnapCommand, BeginSnaps, RequestChange, ChangeSeen, GiveUpChange, AllDone,
         SendNow, ReturnError
<1>2. stage[c] \notin {"finish", "ended"} /\ ~Succeeded(c)
  <2>1. stage[c] \notin {"finish", "ended"}
    BY DEF SnapCommand, BeginSnaps, RequestChange, ChangeSeen, GiveUpChange,
           AllDone, SendNow
  <2> QED BY <1>0, <2>1, NotYet
<1>3. ~Succeeded(c)' BY <1>1, <1>2 DEF Succeeded
<1>4. /\ Len(changes[c]) \in Nat /\ Len(plan[c].snaps) \in Nat
      /\ DOMAIN changes[c] = 1..Len(changes[c])
      /\ DOMAIN plan[c].snaps = 1..Len(plan[c].snaps)
      /\ changes[c] \in Seq({"Doing", "Done", "Error"})
  BY <1>0, EntryType
<1>5. ASSUME stage'[c] \in {"finish", "report"},
             stage'[c] = "report" => verdict'[c] = "failed"
      PROVE  Carried(c)'
  BY <1>3, <1>5 DEF Carried, PastLoop
<1>6. CASE BeginSnaps(c)
  <2>1. changes'[c] = <<>> BY <1>6 DEF BeginSnaps, Carried
  <2>2. \/ stage'[c] = "request"
        \/ stage'[c] = "finish"
        \/ stage'[c] = "report" /\ verdict'[c] = "failed"
    BY <1>0, <1>6 DEF BeginSnaps, ReturnError, Decide, Goto, TypeOK
  <2>3. CASE stage'[c] = "request"
    BY <1>3, <2>1, <2>3 DEF Carried, PastLoop
  <2> QED BY <1>5, <2>2, <2>3
<1>7. CASE RequestChange(c)
  <2>1. \/ /\ stage'[c] = "wait"
           /\ changes'[c] = Append(changes[c], "Doing")
        \/ stage'[c] = "report" /\ verdict'[c] = "failed"
    BY <1>0, <1>7 DEF RequestChange, Decide, Goto, TypeOK
  <2>2. CASE /\ stage'[c] = "wait"
             /\ changes'[c] = Append(changes[c], "Doing")
    <3>1. \A i \in DOMAIN changes[c] : changes[c][i] = "Done"
      BY <1>7 DEF RequestChange, Carried
    <3>2. \A i \in DOMAIN changes'[c] :
            i < Len(changes'[c]) => changes'[c][i] = "Done"
      BY <1>4, <2>2, <3>1
    <3> QED BY <1>3, <2>2, <3>2 DEF Carried, PastLoop
  <2> QED BY <1>5, <2>1, <2>2
<1>8. CASE ChangeSeen(c)
  <2>1. /\ changes' = changes /\ stage[c] = "wait"
        /\ \/ stage'[c] = "request" /\ changes[c][Len(changes[c])] = "Done"
           \/ stage'[c] = "report" /\ verdict'[c] = "failed"
    BY <1>0, <1>8
       DEF ChangeSeen, EndsWell, LastChange, Decide, Goto, TypeOK
  <2>2. CASE stage'[c] = "request" /\ changes[c][Len(changes[c])] = "Done"
    <3>1. \A i \in DOMAIN changes[c] : changes[c][i] = "Done"
      BY <1>4, <2>1, <2>2 DEF Carried
    <3> QED BY <1>3, <2>1, <2>2, <3>1 DEF Carried, PastLoop
  <2> QED BY <1>5, <2>1, <2>2
<1>9. CASE GiveUpChange(c)
  <2>1. stage'[c] = "report" /\ verdict'[c] = "failed"
    BY <1>0, <1>9 DEF GiveUpChange, Decide, Goto, TypeOK
  <2> QED BY <1>5, <2>1
<1>10. CASE AllDone(c)
  <2>1. stage'[c] = "list" /\ changes' = changes
    BY <1>0, <1>10 DEF AllDone, Goto, TypeOK
  <2>2. Len(changes[c]) = Len(plan[c].snaps)
    <3>1. Len(changes[c]) + 1 > Len(plan[c].snaps) BY <1>10 DEF AllDone, Entry
    <3>2. Len(changes[c]) <= Len(plan[c].snaps) BY <1>0 DEF Local
    <3> QED BY <1>4, <3>1, <3>2
  <2>3. \A i \in DOMAIN changes[c] : changes[c][i] = "Done"
    BY <1>10 DEF AllDone, Carried
  <2>4. CarriedOut(c) BY <1>4, <2>2, <2>3 DEF CarriedOut
  <2> QED BY <1>1, <2>1, <2>4 DEF Carried, CarriedOut
<1>11. CASE SendNow(c)
  <2>1. changes' = changes /\ stage[c] \in {"list", "send"}
    BY <1>11 DEF SendNow
  <2>2. stage'[c] \in {"send", "report"}
    BY <1>0, <1>11 DEF SendNow, Decide, Goto, TypeOK
  <2>3. CarriedOut(c) BY <2>1 DEF Carried, PastLoop
  <2> QED BY <1>1, <2>1, <2>2, <2>3 DEF Carried, CarriedOut
<1> QED BY <1>6, <1>7, <1>8, <1>9, <1>10, <1>11 DEF SnapCommand

\* Every step of the command.
LEMMA CarriedOfStep ==
  ASSUME Sound, NEW c \in Ids, Kind(c) \in SnapKinds, Carried(c), Step(c)
  PROVE  Carried(c)'
<1>0. TypeOK /\ Local(c) /\ Locals /\ Replies BY DEF Sound, Locals
<1>1. CASE Handle(c)
  <2>1. Kind(c) \notin ServiceKinds \cup {"shutdown", "execute-script", "cancel-operation"}
    BY DEF SnapKinds, ServiceKinds
  <2>2. SnapCommand(c)
    BY <1>1, <2>1, HandlerOfKind DEF Shutdown, ExecuteScript, Cancel
  <2> QED BY <2>2, CarriedSnaps
<1>2. CASE Dispatch(c) \/ Finish(c) \/ Panic(c) \/ Report(c)
  <2>1. changes' = changes /\ verdict' = verdict /\ plan' = plan
    BY <1>2 DEF Dispatch, Receive, Acquire, AcquireFails, Finish, Panic, Report
  <2>2. \/ stage[c] \in {"unseen", "acquire"} /\ stage'[c] \in {"acquire", "start"}
        \/ stage'[c] \in {"finish", "ended"}
    BY <1>0, <1>2 DEF Dispatch, Receive, Acquire, AcquireFails, Finish, Panic,
                      Report, AfterReport, Goto, TypeOK
  <2>3. Succeeded(c)' => PastLoop(c)
    <3>1. CASE results' = results BY <3>1 DEF Succeeded, PastLoop
    <3>2. CASE Adds(c, "failed")
      BY <1>0, <3>2, SuccessAfter DEF PastLoop
    <3>3. CASE /\ Adds(c, verdict[c]) /\ stage[c] = "report"
               /\ verdict[c] \in {"succeeded", "failed"}
      BY <1>0, <3>3, SuccessAfter DEF PastLoop
    <3>4. Kind(c) # "shutdown" BY DEF SnapKinds
    <3> QED BY <1>0, <3>1, <3>2, <3>3, <3>4, ResultsOfStep
  <2>4. PastLoop(c)' => CarriedOut(c)
    BY <2>2, <2>3 DEF Carried, PastLoop
  <2> QED BY <2>1, <2>2, <2>4 DEF Carried, CarriedOut
<1> QED BY <1>1, <1>2 DEF Step

\* A change that is done stays done.
LEMMA CarriedEnvironment ==
  ASSUME Sound, CarriedAll, (\E b \in Ids : ChangeReady(b)) \/ Tick \/ Stop
  PROVE  CarriedAll'
<1>0. TypeOK BY DEF Sound
<1>1. plan' = plan /\ stage' = stage /\ verdict' = verdict /\ results' = results
  BY DEF ChangeReady, Tick, Stop
<1>2. SUFFICES ASSUME NEW c \in Ids, Kind(c) \in SnapKinds PROVE Carried(c)'
  BY <1>1 DEF CarriedAll, Ids, Kind
<1>3. Carried(c) BY <1>2 DEF CarriedAll
<1>4. PastLoop(c)' <=> PastLoop(c) BY <1>1 DEF PastLoop, Succeeded
<1>5. CASE changes'[c] = changes[c]
  BY <1>1, <1>3, <1>4, <1>5 DEF Carried, CarriedOut
<1>6. CASE ChangeReady(c)
  <2>1. PICK i \in DOMAIN changes[c], v \in {"Done", "Error"} :
          /\ changes[c][i] = "Doing"
          /\ changes' = [changes EXCEPT ![c][i] = v]
    BY <1>6 DEF ChangeReady
  <2>2. changes'[c] = [changes[c] EXCEPT ![i] = v]
    BY <1>0, <2>1 DEF TypeOK
  <2>3. /\ DOMAIN changes'[c] = DOMAIN changes[c]
        /\ \A k \in DOMAIN changes[c] :
             changes[c][k] = "Done" => changes'[c][k] = "Done"
    BY <2>1, <2>2
  <2>4. Len(changes'[c]) = Len(changes[c])
    BY <1>0, <2>1, <2>2, EntryType, ExceptSeq
  <2>5. changes[c] # <<>>
    BY <1>0, <2>1, EntryType
  <2>6. ~CarriedOut(c)
    BY <2>1 DEF CarriedOut
  <2> QED BY <1>1, <1>3, <1>4, <2>3, <2>4, <2>5, <2>6 DEF Carried
<1>7. CASE \E b \in Ids : b # c /\ ChangeReady(b)
  <2>1. changes'[c] = changes[c] BY <1>0, <1>7 DEF ChangeReady, TypeOK
  <2> QED BY <1>5, <2>1
<1>8. CASE Tick \/ Stop
  BY <1>5, <1>8 DEF Tick, Stop
<1> QED BY <1>6, <1>7, <1>8

LEMMA CarriedStep == Sound /\ CarriedAll /\ [Next]_vars => CarriedAll'
<1> SUFFICES ASSUME Sound, CarriedAll, [Next]_vars PROVE CarriedAll' OBVIOUS
<1>1. ASSUME NEW c \in Ids, Step(c) PROVE CarriedAll'
  <2>0. TypeOK /\ Locals BY DEF Sound
  <2>1. plan' = plan BY <1>1, PlanFixed
  <2>2. SUFFICES ASSUME NEW d \in Ids, Kind(d) \in SnapKinds PROVE Carried(d)'
    BY <2>1 DEF CarriedAll, Ids, Kind
  <2>3. Carried(d) BY <2>2 DEF CarriedAll
  <2>4. CASE d = c BY <1>1, <2>2, <2>3, <2>4, CarriedOfStep
  <2>5. CASE d # c
    <3>1. Untouched(d) BY <1>1, <2>0, <2>5, OthersUntouched
    <3>2. Succeeded(d)' <=> Succeeded(d)
      <4>1. CASE results' = results BY <4>1 DEF Succeeded
      <4>2. ASSUME NEW status \in {"succeeded", "failed"}, Adds(c, status)
            PROVE  Succeeded(d)' <=> Succeeded(d)
        BY <2>0, <2>5, <4>2, SuccessAfter
      <4> QED BY <1>1, <2>0, <4>1, <4>2, ResultsOfStep
    <3> QED BY <2>1, <2>3, <3>1, <3>2 DEF Carried, PastLoop, CarriedOut, Untouched
  <2> QED BY <2>4, <2>5
<1>2. CASE UNCHANGED vars
  BY <1>2 DEF vars, CarriedAll, Carried, PastLoop, Succeeded, CarriedOut, Kind, Ids
<1> QED BY <1>1, <1>2, CarriedEnvironment DEF Next, Step

\* Success is reported for a snap operation only when snapd has completed a change
\* for each of its entries: neither a change that was given up, nor one that was
\* ready and failed, nor a cancelled wait counts.
THEOREM SuccessIsDone == Spec => []SucceededMeansDone
<1>1. Init => Sound /\ CarriedAll
  <2> SUFFICES ASSUME Init PROVE CarriedAll BY SoundInit
  <2>1. \A c : ~Succeeded(c) BY DEF Init, Succeeded
  <2> QED BY <2>1 DEF Init, CarriedAll, Carried, PastLoop
<1>2. Sound /\ CarriedAll => SucceededMeansDone
  <2> SUFFICES ASSUME Sound, CarriedAll, NEW i \in DOMAIN results,
                      results[i].status = "succeeded",
                      Kind(results[i].op) \in SnapKinds
               PROVE  CarriedOut(results[i].op)
    BY DEF SucceededMeansDone, CarriedOut
  <2>1. results[i].op = results[i].from /\ results[i].from \in Ids
    BY DEF Sound, Signed
  <2>2. PastLoop(results[i].op) BY <2>1 DEF PastLoop, Succeeded
  <2> QED BY <2>1, <2>2 DEF CarriedAll, Carried
<1>3. Spec => [](Sound /\ CarriedAll)
  BY <1>1, SoundStep, CarriedStep, PTL DEF Spec
<1> QED BY <1>2, <1>3, PTL
=============================================================================
