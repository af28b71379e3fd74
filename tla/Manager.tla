------------------------------- MODULE Manager ------------------------------
(***************************************************************************)
(* internal/manager: the operations the server sends, each carried out in  *)
(* a goroutine of its own.  The exchange loop takes a slot of the semaphore*)
(* for a command and starts its goroutine; the handler registers a cancel  *)
(* function under the operation-id, works with snapd, DBus or a script, and*)
(* queues its result; a cancel-operation command looks that function up.   *)
(*                                                                         *)
(* With it the plugin of internal/monitor/snappackages.go, whose SendNow   *)
(* the snap handlers call, and the client of internal/snapd.  snapd itself,*)
(* logind and the scripts are external: they are modelled from what the    *)
(* handlers see of them.                                                   *)
(*                                                                         *)
(* The server gives each operation an id of its own: the id of the command *)
(* at position c of the plan is c, and a cancel-operation names another    *)
(* position.                                                               *)
(***************************************************************************)
EXTENDS Naturals, Sequences, FiniteSets

CONSTANTS
  Plans,               \* the sequences of commands the server may send
  Snaps,               \* names of snaps
  NoName,              \* a snap entry without a name
  Preinstalled,        \* the snaps on the device at the start
  Limit,               \* -handler-concurrency, 100 by default
  Faults,              \* the kinds of failure this instance explores
  MaxFaults            \* bound: failures in one behaviour

SnapKinds == {"install-snaps", "remove-snaps", "refresh-snaps"}

ServiceKinds ==
  {"start-snap-service", "stop-snap-service", "restart-snap-service"}

Kinds == SnapKinds \cup ServiceKinds
           \cup {"shutdown", "execute-script", "cancel-operation"}

\* What the message lacks: nothing, its operation-id, or the field its handler
\* reads besides: the list of snaps, the service's name, the script's code.
Forms == {"complete", "no operation-id", "no argument"}

Command == [kind : Kinds, form : Forms, snaps : Seq(Snaps \cup {NoName}),
            limited : BOOLEAN,  \* a script with a time-limit
            target : Nat]       \* the operation a cancel-operation names

FaultKinds ==
  { "panic",           \* the handler panics
    "request",         \* snapd refuses a request or does not answer it
    "poll",            \* one GET of a change fails
    "change",          \* snapd gives up a change
    "list",            \* snapd does not list its snaps
    "logind",          \* the DBus call fails
    "interpreter",     \* the interpreter is missing or not executable
    "files",           \* the script's directory or file cannot be written
    "attachment",      \* an attachment cannot be fetched, or has a bad name
    "exit",            \* the script fails
    "stop" }           \* SIGTERM

ASSUME ManagerAssumptions ==
  /\ NoName \notin Snaps /\ Preinstalled \subseteq Snaps
  /\ Limit \in Nat \ {0}
  /\ Plans \subseteq Seq(Command)
  /\ Faults \subseteq FaultKinds
  /\ MaxFaults \in Nat

VARIABLES
  plan,                \* the commands the server sends
  stage,               \* where the goroutine of each command is
  slots,               \* free slots of the semaphore
  operations,          \* operation-ids in the OperationContextManager
  cancelled,           \* commands whose operation context was cancelled
  verdict,             \* the result a handler is about to report
  results,             \* the operation-result messages queued
  stopping,            \* the daemon's context is cancelled
  changes,             \* snapd: the state of each change a command asked for
  installed,           \* snapd: the snaps on the device
  listing,             \* a list of snaps read from snapd and not yet sent
  lastList,            \* the list of snaps last sent to the server
  faults               \* failures so far

handlerVars == <<stage, verdict>>
contextVars == <<operations, cancelled>>
snapdVars   == <<changes, installed>>
listVars    == <<listing, lastList>>

vars == <<plan, handlerVars, slots, contextVars, results, stopping, snapdVars,
          listVars, faults>>

-----------------------------------------------------------------------------
Ids == DOMAIN plan

Kind(c) == plan[c].kind

Stages ==
  { "unseen",          \* not yet read from the server's reply
    "acquire",         \* the exchange loop waits for a slot
    "start",           \* the goroutine runs, Handle has done nothing yet
    "begun",           \* registered
    "request",         \* before the next request to snapd
    "wait",            \* in WaitForChange
    "list", "send",    \* in SendNow: before ListSnaps, before Send
    "call",            \* in the call of a service action
    "logind",          \* in the DBus call
    "run",             \* the script runs
    "report",          \* before reportResult
    "finish",          \* Handle returned or panicked, before the deferred calls
    "ended" }

\* The goroutine exists and holds a slot.
Holding(c) == stage[c] \notin {"unseen", "acquire", "ended"}

\* Mutation: the handler works with the context it was called with.
DoneWithDaemon(c) == stopping

\* The operation's context, a child of the daemon's, is done.
Done(c) == c \in cancelled \/ stopping

\* The list of snaps of the periodic goroutine of the plugin has index 0.
Plugin == 0

None == {NoName}       \* no list of snaps at hand

OperationResult ==
  [op : Nat, status : {"succeeded", "failed"},
   from : Nat]         \* the command that the result is from

Result(op, status, from) == [op |-> op, status |-> status, from |-> from]

\* The id in a message; 0 where it has none.
OpOf(c) ==
  IF plan[c].form = "no operation-id" THEN 0
  ELSE IF Kind(c) = "cancel-operation" THEN plan[c].target ELSE c

Answered(c) == \E i \in DOMAIN results : results[i].from = c

Init ==
  /\ plan \in Plans
  /\ stage = [c \in Ids |-> "unseen"]
  /\ verdict = [c \in Ids |-> "none"]
  /\ slots = Limit
  /\ operations = {} /\ cancelled = {}
  /\ results = <<>>
  /\ stopping = FALSE
  /\ changes = [c \in Ids |-> <<>>]
  /\ installed = Preinstalled
  /\ listing = [c \in Ids \cup {Plugin} |-> None] /\ lastList = {}
  /\ faults = 0

Fault(kind) == kind \in Faults /\ faults < MaxFaults /\ faults' = faults + 1

Goto(c, s) == stage' = [stage EXCEPT ![c] = s]

\* The handler has its verdict and goes to report it.
Decide(c, v) == Goto(c, "report") /\ verdict' = [verdict EXCEPT ![c] = v]

-----------------------------------------------------------------------------
(***************************************************************************)
(* Runner: dispatch in the exchange loop.                                  *)
(***************************************************************************)

\* The exchange loop calls the callbacks one message after the other.
Receive(c) ==
  /\ stage[c] = "unseen"
  /\ \A b \in Ids : stage[b] = "acquire" => b = c
  /\ \A b \in Ids : b < c => stage[b] # "unseen"
  /\ Goto(c, "acquire")
  /\ UNCHANGED <<plan, verdict, slots, contextVars, results, stopping,
                 snapdVars, listVars, faults>>

\* A slot is free and the context not done.
Acquire(c) ==
  /\ stage[c] = "acquire" /\ slots > 0 /\ ~stopping
  /\ slots' = slots - 1
  /\ Goto(c, "start")
  /\ UNCHANGED <<plan, verdict, contextVars, results, stopping, snapdVars,
                 listVars, faults>>

\* Mutation: the release is deferred before the slot is acquired.
SlotsReleased == slots + 1

\* No slot was taken.
SlotsAfterRefusal == slots

\* Acquire gives up with the context: the callback itself sends the result, for
\* whatever operation-id the message has.
AcquireFails(c) ==
  /\ stage[c] = "acquire" /\ stopping
  /\ results' = Append(results, Result(OpOf(c), "failed", c))
  /\ slots' = SlotsAfterRefusal
  /\ Goto(c, "ended")
  /\ UNCHANGED <<plan, verdict, contextVars, stopping, snapdVars,
                 listVars, faults>>

\* Mutation: the slot is released only once there is a result.
ReleasedWithAnswer(c) == IF Answered(c) THEN slots + 1 ELSE slots

\* The deferred sem.Release.
Released(c) == slots + 1

\* Mutation: the entry stays when the operation was cancelled.
CleanupUnlessCancelled(c) ==
  IF c \in cancelled THEN operations ELSE operations \ {c}

\* The deferred Cleanup.
Cleanup(c) == operations \ {c}

\* The deferred calls, however Handle ended: the operation leaves the registry,
\* its context is cancelled, the slot is free.
Finish(c) ==
  /\ stage[c] = "finish"
  /\ operations' = Cleanup(c)
  /\ slots' = Released(c)
  /\ Goto(c, "ended")
  /\ UNCHANGED <<plan, verdict, cancelled, results, stopping, snapdVars,
                 listVars, faults>>

\* Mutation: the recovered panic is only logged.
PanicLogged(c) == results

PanicReported(c) == Append(results, Result(OpOf(c), "failed", c))

\* A panic in Handle is reported as a failure.
Panic(c) ==
  /\ stage[c] \in {"begun", "request", "wait", "list", "send", "call", "logind",
                  "run"}
  /\ Fault("panic")
  /\ results' = PanicReported(c)
  /\ Goto(c, "finish")
  /\ UNCHANGED <<plan, verdict, slots, contextVars, stopping, snapdVars,
                 listVars>>

\* Handle returns an error: it is logged.
ReturnError(c) ==
  /\ Goto(c, "finish")
  /\ UNCHANGED <<verdict, results>>

\* Mutation: the loop over the snaps goes on after a failed entry.
GoOnAfterReport(c) ==
  IF Kind(c) \in SnapKinds /\ verdict[c] = "failed" /\ changes[c] # <<>>
    THEN "request" ELSE "finish"

\* Handle returns when it has reported.
AfterReport(c) == "finish"

\* reportResult, SendResult and SendResultCode.
Report(c) ==
  /\ stage[c] = "report"
  /\ results' = Append(results, Result(c, verdict[c], c))
  /\ Goto(c, AfterReport(c))
  /\ UNCHANGED <<plan, verdict, slots, contextVars, stopping, snapdVars,
                 listVars, faults>>

\* Register: the operation can be cancelled from now on.
RegisterOperation(c) == operations' = operations \cup {c}

-----------------------------------------------------------------------------
(***************************************************************************)
(* CancelHandler.                                                          *)
(***************************************************************************)

\* Cancel calls the function registered under the id, if there is one.
Reached(op) == operations \cap {op}

Cancel(c) ==
  /\ Kind(c) = "cancel-operation" /\ stage[c] = "start"
  /\ cancelled' = IF plan[c].form = "no operation-id" THEN cancelled
                  ELSE cancelled \cup Reached(plan[c].target)
  /\ Goto(c, "finish")
  /\ UNCHANGED <<plan, verdict, slots, operations, results, stopping,
                 snapdVars, listVars, faults>>

-----------------------------------------------------------------------------
(***************************************************************************)
(* snapd, as its client sees it.                                           *)
(***************************************************************************)

\* A change for this snap is under way.
Busy(s) == \E c \in Ids : \E i \in DOMAIN changes[c] :
             changes[c][i] = "Doing" /\ plan[c].snaps[i] = s

Applicable(kind, s) ==
  IF kind = "install-snaps" THEN s \notin installed ELSE s \in installed

Effect(kind, s) ==
  CASE kind = "install-snaps" -> installed \cup {s}
    [] kind = "remove-snaps"  -> installed \ {s}
    [] OTHER                  -> installed

\* A change ends, whether or not the client still waits for it.
ChangeReady(c) ==
  \E i \in DOMAIN changes[c] :
    /\ changes[c][i] = "Doing"
    /\ \/ /\ changes' = [changes EXCEPT ![c][i] = "Done"]
          /\ installed' = Effect(Kind(c), plan[c].snaps[i])
          /\ UNCHANGED faults
       \/ /\ Fault("change")
          /\ changes' = [changes EXCEPT ![c][i] = "Error"]
          /\ UNCHANGED installed
    /\ UNCHANGED <<plan, handlerVars, slots, contextVars, results, stopping,
                   listVars>>

-----------------------------------------------------------------------------
(***************************************************************************)
(* The snap handlers.  The three differ in the change they ask snapd for.  *)
(***************************************************************************)

\* The entry the loop over the snaps has come to.
Entry(c) == Len(changes[c]) + 1

\* The first statements of Handle, up to the loop.  Without a list of snaps the
\* operation has failed; without an operation-id there is none.
BeginSnaps(c) ==
  /\ stage[c] = "start"
  /\ \/ /\ plan[c].form = "no operation-id"
        /\ ReturnError(c)
        /\ UNCHANGED operations
     \/ /\ plan[c].form = "no argument"
        /\ RegisterOperation(c)
        /\ Decide(c, "failed")
        /\ UNCHANGED results
     \/ /\ plan[c].form = "complete"
        /\ RegisterOperation(c)
        /\ Goto(c, "request")
        /\ UNCHANGED <<verdict, results>>
  /\ UNCHANGED <<plan, slots, cancelled, stopping, snapdVars, listVars, faults>>

\* The loop has an entry left: snapd takes the request and starts a change, or
\* the operation has failed.
RequestChange(c) ==
  /\ stage[c] = "request" /\ Entry(c) <= Len(plan[c].snaps)
  /\ LET s == plan[c].snaps[Entry(c)]
         refused == s = NoName \/ Done(c) \/ Busy(s) \/ ~Applicable(Kind(c), s)
     IN  \/ /\ ~refused
            /\ changes' = [changes EXCEPT ![c] = Append(@, "Doing")]
            /\ Goto(c, "wait")
            /\ UNCHANGED <<verdict, faults>>
         \/ /\ refused
            /\ Decide(c, "failed")
            /\ UNCHANGED <<changes, faults>>
         \/ \* no answer, with or without a change
            /\ ~refused /\ Fault("request")
            /\ Decide(c, "failed")
            /\ changes' \in {changes, [changes EXCEPT ![c] = Append(@, "Doing")]}
  /\ UNCHANGED <<plan, slots, contextVars, results, stopping, installed,
                 listVars>>

LastChange(c) == changes[c][Len(changes[c])]

\* Mutation: a change that is ready counts, whatever its status.
EndsWellWhenReady(status) == status \in {"Done", "Error"}

\* A ready change is a success with status Done and no error.
EndsWell(status) == status = "Done"

\* WaitForChange sees the change ready.
ChangeSeen(c) ==
  /\ stage[c] = "wait" /\ LastChange(c) # "Doing"
  /\ ~Done(c)
  /\ IF EndsWell(LastChange(c))
       THEN Goto(c, "request") /\ UNCHANGED verdict
       ELSE Decide(c, "failed")
  /\ UNCHANGED <<plan, slots, contextVars, results, stopping, snapdVars,
                 listVars, faults>>

\* Mutation: the wait has no timeout of its own.
WaitOverWhenDone(c) == Done(c)

\* The context is done, or ten minutes are over and snapd is not ready.
WaitOver(c) == Done(c) \/ LastChange(c) = "Doing"

\* WaitForChange gives up: the context is done, ten minutes are over, or one
\* poll failed.  The change goes on.
GiveUpChange(c) ==
  /\ stage[c] = "wait"
  /\ \/ WaitOver(c) /\ UNCHANGED faults
     \/ Fault("poll")
  /\ Decide(c, "failed")
  /\ UNCHANGED <<plan, slots, contextVars, results, stopping, snapdVars,
                 listVars>>

\* All entries are done: OnComplete, which is SendNow.
AllDone(c) ==
  /\ stage[c] = "request" /\ Entry(c) > Len(plan[c].snaps)
  /\ Goto(c, "list")
  /\ UNCHANGED <<plan, verdict, slots, contextVars, results, stopping,
                 snapdVars, listVars, faults>>

\* Mutation: what could not be listed is taken for unchanged.
CollectedLast == {lastList}

\* collect: the snaps on the device, or none if snapd cannot be asked.
Collected == IF stopping THEN {{}} ELSE {installed}

\* send: ListSnaps, then Send.  Another goroutine may come in between.
List(g) ==
  /\ \/ listing' \in {[listing EXCEPT ![g] = l] : l \in Collected}
        /\ UNCHANGED faults
     \/ ~stopping /\ Fault("list") /\ listing' = [listing EXCEPT ![g] = {}]
  /\ UNCHANGED lastList

SendList(g) ==
  /\ lastList' = listing[g]
  /\ listing' = [listing EXCEPT ![g] = None]
  /\ UNCHANGED faults

SendNow(c) ==
  /\ \/ /\ stage[c] = "list" /\ List(c)
        /\ Goto(c, "send")
        /\ UNCHANGED verdict
     \/ /\ stage[c] = "send" /\ SendList(c)
        /\ Decide(c, "succeeded")
  /\ UNCHANGED <<plan, slots, contextVars, results, stopping, snapdVars>>

\* The plugin's own goroutine, at each tick.
Tick ==
  /\ IF listing[Plugin] = None
       THEN ~stopping /\ List(Plugin)
       ELSE SendList(Plugin)
  /\ UNCHANGED <<plan, handlerVars, slots, contextVars, results, stopping,
                 snapdVars>>

SnapCommand(c) ==
  \/ BeginSnaps(c) \/ RequestChange(c) \/ ChangeSeen(c) \/ GiveUpChange(c)
  \/ AllDone(c) \/ SendNow(c)

InstallSnap(c) == Kind(c) = "install-snaps" /\ SnapCommand(c)
RemoveSnap(c)  == Kind(c) = "remove-snaps" /\ SnapCommand(c)
RefreshSnap(c) == Kind(c) = "refresh-snaps" /\ SnapCommand(c)

-----------------------------------------------------------------------------
(***************************************************************************)
(* The service handlers: one request to snapd, whose change nobody waits   *)
(* for.                                                                    *)
(***************************************************************************)
BeginService(c) ==
  /\ stage[c] = "start"
  /\ IF plan[c].form = "complete"
       THEN RegisterOperation(c) /\ Goto(c, "call") /\ UNCHANGED <<verdict, results>>
       ELSE ReturnError(c) /\ UNCHANGED operations
  /\ UNCHANGED <<plan, slots, cancelled, stopping, snapdVars, listVars, faults>>

ServiceAction(c) ==
  /\ stage[c] = "call"
  /\ \/ Done(c) /\ Decide(c, "failed") /\ UNCHANGED faults
     \/ ~Done(c) /\ Decide(c, "succeeded") /\ UNCHANGED faults
     \/ ~Done(c) /\ Fault("request") /\ Decide(c, "failed")
  /\ UNCHANGED <<plan, slots, contextVars, results, stopping, snapdVars,
                 listVars>>

ServiceCommand(c) == BeginService(c) \/ ServiceAction(c)

StartService(c)   == Kind(c) = "start-snap-service" /\ ServiceCommand(c)
StopService(c)    == Kind(c) = "stop-snap-service" /\ ServiceCommand(c)
RestartService(c) == Kind(c) = "restart-snap-service" /\ ServiceCommand(c)

-----------------------------------------------------------------------------
(***************************************************************************)
(* ShutdownHandler: the result first, then the call, which may fail.       *)
(***************************************************************************)
AnswerShutdown(c) ==
  /\ stage[c] = "start"
  /\ IF plan[c].form = "no operation-id"
       THEN ReturnError(c)
       ELSE /\ results' = Append(results, Result(c, "succeeded", c))
            /\ Goto(c, "logind")
            /\ UNCHANGED verdict
  /\ UNCHANGED <<plan, slots, contextVars, stopping, snapdVars, listVars,
                 faults>>

\* logind refuses, 30 seconds pass, or the context is done.
CallLogind(c) ==
  /\ stage[c] = "logind"
  /\ \/ ~stopping /\ Goto(c, "finish") /\ UNCHANGED <<verdict, faults>>
     \/ ~stopping /\ Fault("logind") /\ Decide(c, "failed")
     \/ stopping /\ Decide(c, "failed") /\ UNCHANGED faults
  /\ UNCHANGED <<plan, slots, contextVars, results, stopping, snapdVars,
                 listVars>>

Shutdown(c) ==
  Kind(c) = "shutdown" /\ (AnswerShutdown(c) \/ CallLogind(c))

-----------------------------------------------------------------------------
(***************************************************************************)
(* ScriptExecHandler.                                                      *)
(***************************************************************************)
BeginScript(c) ==
  /\ stage[c] = "start"
  /\ IF plan[c].form = "no operation-id"
       THEN ReturnError(c) /\ UNCHANGED operations
       ELSE /\ RegisterOperation(c) /\ Goto(c, "begun")
            /\ UNCHANGED <<verdict, results>>
  /\ UNCHANGED <<plan, slots, cancelled, stopping, snapdVars, listVars, faults>>

\* The code, the interpreter, the directory with the script and the attachments:
\* what is wrong with the first or with the files is an error of Handle, the
\* rest is a result.
PrepareScript(c) ==
  /\ stage[c] = "begun"
  /\ \/ /\ plan[c].form = "no argument"
        /\ ReturnError(c) /\ UNCHANGED faults
     \/ /\ plan[c].form = "complete"
        /\ \/ Goto(c, "run") /\ UNCHANGED <<verdict, results, faults>>
           \/ Fault("files") /\ ReturnError(c)
           \/ Fault("interpreter") /\ Decide(c, "failed") /\ UNCHANGED results
           \/ Fault("attachment") /\ Decide(c, "failed") /\ UNCHANGED results
  /\ UNCHANGED <<plan, slots, contextVars, stopping, snapdVars, listVars>>

\* The script ends by itself, maybe just before it would be killed.
ScriptEnds(c) ==
  /\ stage[c] = "run"
  /\ \/ Decide(c, "succeeded") /\ UNCHANGED faults
     \/ Fault("exit") /\ Decide(c, "failed")
  /\ UNCHANGED <<plan, slots, contextVars, results, stopping, snapdVars,
                 listVars>>

\* The process group is killed, as the context is done or the time limit reached;
\* the limit counts even if the script ended well.
ScriptKilled(c) ==
  /\ stage[c] = "run" /\ (Done(c) \/ plan[c].limited)
  /\ Decide(c, "failed")
  /\ UNCHANGED <<plan, slots, contextVars, results, stopping, snapdVars,
                 listVars, faults>>

ExecuteScript(c) ==
  /\ Kind(c) = "execute-script"
  /\ BeginScript(c) \/ PrepareScript(c) \/ ScriptEnds(c) \/ ScriptKilled(c)

-----------------------------------------------------------------------------
\* SIGTERM, or a failed runner, cancels the context of every operation.
Stop ==
  /\ ~stopping /\ Fault("stop")
  /\ stopping' = TRUE
  /\ UNCHANGED <<plan, handlerVars, slots, contextVars, results, snapdVars,
                 listVars>>

Handle(c) ==
  \/ InstallSnap(c) \/ RemoveSnap(c) \/ RefreshSnap(c)
  \/ StartService(c) \/ StopService(c) \/ RestartService(c)
  \/ Shutdown(c) \/ ExecuteScript(c) \/ Cancel(c)

Dispatch(c) == Receive(c) \/ Acquire(c) \/ AcquireFails(c)

Next ==
  \/ \E c \in Ids :
       \/ Dispatch(c) \/ Handle(c) \/ Report(c) \/ Finish(c) \/ Panic(c)
       \/ ChangeReady(c)
  \/ Tick
  \/ Stop

-----------------------------------------------------------------------------
(***************************************************************************)
(* Fairness.  Every call a handler makes ends: snapd's answers have a      *)
(* timeout, the wait for a change ten minutes, the DBus call 30 seconds, a *)
(* script its time limit if it has one; a cancelled context ends all of    *)
(* them.  Nothing is assumed of a script without a time limit, nor of the  *)
(* changes of snapd.  The ticker of the plugin keeps ticking.              *)
(***************************************************************************)
Progress(c) ==
  \/ InstallSnap(c) \/ RemoveSnap(c) \/ RefreshSnap(c)
  \/ StartService(c) \/ StopService(c) \/ RestartService(c)
  \/ Shutdown(c) \/ Cancel(c)
  \/ Kind(c) = "execute-script"
       /\ (BeginScript(c) \/ PrepareScript(c) \/ ScriptKilled(c))
  \/ Report(c) \/ Finish(c)

Positions == UNION {DOMAIN p : p \in Plans}

Fairness ==
  /\ WF_vars(\E c \in Ids : Dispatch(c))
  /\ \A c \in Positions : WF_vars(c \in Ids /\ Progress(c))
  /\ WF_vars(Tick)

Spec == Init /\ [][Next]_vars

FairSpec == Spec /\ Fairness

-----------------------------------------------------------------------------
(***************************************************************************)
(* Properties.                                                             *)
(***************************************************************************)

\* Every variable holds a value of the Go type it stands for.
TypeOK ==
  /\ plan \in Plans
  /\ stage \in [Ids -> Stages]
  /\ verdict \in [Ids -> {"none", "succeeded", "failed"}]
  /\ slots \in 0..Limit
  /\ operations \in SUBSET Ids /\ cancelled \in SUBSET Ids
  /\ results \in Seq(OperationResult)
  /\ stopping \in BOOLEAN
  /\ changes \in [Ids -> Seq({"Doing", "Done", "Error"})]
  /\ installed \in SUBSET Snaps
  /\ listing \in [Ids \cup {Plugin} -> (SUBSET Snaps) \cup {None}]
  /\ lastList \in SUBSET Snaps
  /\ faults \in 0..MaxFaults

\* Whatever ends a handler, an error, a panic or a refusal, neither a slot nor an
\* entry of the registry stays behind: the slots taken are those of the live
\* goroutines, and only their operations can be looked up.
NothingLeaks ==
  /\ slots + Cardinality({c \in Ids : Holding(c)}) = Limit
  /\ \A c \in operations : Holding(c) /\ stage[c] # "start"

\* The server gets one verdict for an operation.  Two exceptions: a shutdown
\* reports success before it is tried, and a cancel-operation that finds the
\* daemon stopping reports the failure of the operation it names.
OneVerdict ==
  \A i, j \in DOMAIN results :
    (i < j /\ results[i].op = results[j].op /\ results[i].op # 0)
      => \/ Kind(results[i].op) = "shutdown"
         \/ \E r \in {results[i], results[j]} : Kind(r.from) = "cancel-operation"

\* A snap operation reported as succeeded has been carried out: snapd has
\* completed a change for each of its entries.
SucceededMeansDone ==
  \A i \in DOMAIN results :
    LET r == results[i] IN
    (r.status = "succeeded" /\ Kind(r.op) \in SnapKinds)
      => changes[r.op] = [k \in DOMAIN plan[r.op].snaps |-> "Done"]

\* A command is left without an answer only if Handle returned an error: its
\* message lacks the operation-id or, for a service or a script, the argument,
\* or the files of a script could not be written.  A cancel-operation has none.
SilenceIsAnError ==
  \A c \in Ids :
    (stage[c] = "ended" /\ ~Answered(c) /\ Kind(c) # "cancel-operation")
      => \/ plan[c].form = "no operation-id"
         \/ plan[c].form = "no argument" /\ Kind(c) \notin SnapKinds
         \/ Kind(c) = "execute-script"

-----------------------------------------------------------------------------
\* The plan has a command at this position.
HasId(c) == c \in Ids

\* A handler at work reports in the end, however snapd or logind behave: but for
\* a script without a time limit that nobody cancels.
HandlersReport ==
  \A c \in Positions :
    (/\ HasId(c) /\ Holding(c) /\ stage[c] \notin {"start", "begun", "finish"}
     /\ stage[c] = "run" => plan[c].limited \/ Done(c))
      ~> Answered(c)

\* A cancel-operation that has its goroutine ends the script it names, though the
\* script would run for ever.
CancelHeeded ==
  \A c \in Positions :
    (/\ HasId(c) /\ stage[c] = "run"
     /\ \E k \in Ids : /\ Kind(k) = "cancel-operation" /\ stage[k] = "start"
                       /\ plan[k].target = c)
      ~> Answered(c)

\* Scripts that may run for ever and are not cancelled.
Hung == {c \in Ids : stage[c] = "run" /\ ~plan[c].limited /\ ~Done(c)}

\* The exchange loop gets past a command, unless every slot is held by a script
\* without a time limit.  Then it stays: the cancel-operation that would free a
\* slot needs one itself.
OnlyHungScriptsBlock ==
  \A c \in Positions :
    (HasId(c) /\ stage[c] = "acquire")
      ~> (HasId(c) => stage[c] # "acquire" \/ Cardinality(Hung) = Limit)

\* The server ends up with the snaps on the device, whichever handlers and ticks
\* listed and sent them in whichever order.
SnapListConverges == <>[](stopping \/ lastList = installed)
=============================================================================
