------------------------------ MODULE Exchange ------------------------------
(***************************************************************************)
(* The exchange loop of internal/exchange: the goroutine Exchange.Run, the *)
(* outbound queue it shares with the goroutines that call Send and         *)
(* SendUrgent, the two files it keeps (state.json and the queue spool), and*)
(* the Landscape server it talks to.                                       *)
(*                                                                         *)
(* The server is not part of the repository.  It is modelled from what the *)
(* client relies on: it numbers the messages it receives by position,      *)
(* ignores the positions it already has, replies with the next position it *)
(* expects, and resends its own messages from the position the client asks *)
(* for.                                                                    *)
(*                                                                         *)
(* Left to other modules: State.PluginState, the exchange token, the       *)
(* accepted-types hash and the atomicity of the file writes.               *)
(***************************************************************************)
EXTENDS MessageQueue

CONSTANTS
  Telemetry,           \* the message types monitor plugins send
  MaxBatch,            \* maxMessagesPerExchange, 100 in the code
  NormalInterval,      \* cfg.ExchangeInterval
  UrgentInterval,      \* cfg.UrgentExchangeInterval
  BackoffInitial,      \* backoffInitial, 300 s
  BackoffMax,          \* backoffMax, 7200 s
  Statuses,            \* HTTP statuses a failing exchange may report
  Faults,              \* the kinds of failure this instance explores
  Orders,              \* the kinds of message the server may decide to send
  InitialID,           \* the identity in state.json at the start, 0 for none
  MaxFaults,           \* bound: failures in one behaviour
  MaxOrders,           \* bound: messages the server sends of its own accord
  MaxTelemetry         \* bound: telemetry messages in one behaviour

ProtocolTypes == {"operation-result", "register", "resynchronize"}

FaultKinds ==
  { "refuse",          \* the request never reaches the server
    "lostReply",       \* the server takes the request, the client times out
    "late",            \* the client times out, the server takes it later
    "partial",         \* the server takes only the first part of a batch
    "defer",           \* the server leaves a registration pending
    "forget",          \* the server no longer knows the client's secure-id
    "garble",          \* a 2xx reply that bpickle cannot decode
    "marshal",         \* a batch that bpickle cannot encode
    "saveState",       \* store.Update fails
    "saveSpool",       \* spool.save fails
    "loadState",       \* store.Load fails
    "loadSpool",       \* the spool exists but is unreadable or corrupt
    "crash",           \* the process dies
    "stop",            \* SIGTERM
    "overrun" }        \* the shutdown grace period ends before Run returns

OrderKinds == {"command", "resynchronize", "accepted-types", "unsubscribed"}

ASSUME ExchangeAssumptions ==
  /\ Telemetry \cap ProtocolTypes = {}
  /\ MaxBatch \in Nat \ {0}
  /\ NormalInterval \in Nat /\ UrgentInterval \in Nat
  /\ BackoffInitial \in Nat /\ BackoffInitial >= 5   \* rand.Int63n(0) panics
  /\ BackoffMax \in Nat /\ BackoffMax >= BackoffInitial
  /\ Statuses \subseteq Nat
  /\ Faults \subseteq FaultKinds
  /\ Orders \subseteq OrderKinds
  /\ InitialID \in Nat
  /\ MaxFaults \in Nat /\ MaxOrders \in Nat /\ MaxTelemetry \in Nat

VARIABLES
  \* the goroutine Exchange.Run
  pc,                  \* where it is
  final,               \* it is in the drain that follows ctx.Done()
  delay,               \* backoff.delay
  interval,            \* what the timer was set to; 0 when not in the select
  prevID,              \* prevSecureID
  \* Exchange, guarded by mu, and the wake channel
  pending,             \* Exchange.pending
  pingID,              \* Exchange.insecureID
  wake,                \* the buffered(1) channel holds a token
  \* locals of Run, performExchange and persistQueue
  mem,                 \* the *persist.State that Run owns
  batch,               \* snapshot in performExchange
  inbound,             \* messages of the reply not yet processed
  copied,              \* snapshot in persistQueue
  \* files
  disk,                \* state.json
  spool,               \* the queue file
  \* the other goroutines of the process
  running,             \* commands whose handler has not finished
  raising,             \* commands whose result is queued, wake not yet sent
  stopping,            \* the daemon's context is cancelled
  \* the server and the network between
  log,                 \* messages the server has taken, by position
  outbox,              \* messages the server has for the client, by position
  known,               \* the secure-id the server recognises, 0 for none
  lastID,              \* the last secure-id it gave out
  answered,            \* the current request has been answered
  reply,               \* that answer
  late,                \* requests the client gave up on, still under way
  \* bounds and history
  faults,              \* failures so far
  orders,              \* messages the server decided to send so far
  sent,                \* telemetry messages sent so far
  dispatched,          \* commands handed to a handler, in order
  issued               \* commands whose result was given to SendUrgent

loopVars    == <<pc, final, delay, interval, prevID>>
sharedVars  == <<pending, pingID, wake>>
localVars   == <<mem, batch, inbound, copied>>
fileVars    == <<disk, spool>>
workerVars  == <<running, raising>>
serverVars  == <<log, outbox, known, lastID>>
callVars    == <<answered, reply, late>>
historyVars == <<dispatched, issued>>

vars == <<loopVars, sharedVars, localVars, fileVars, workerVars, stopping,
          serverVars, callVars, faults, orders, sent, historyVars>>

-----------------------------------------------------------------------------
NoID == 0

MessageTypes == ProtocolTypes \cup Telemetry

Message == [type : MessageTypes, id : Nat]

Register        == [type |-> "register", id |-> 0]
ResyncAck(n)    == [type |-> "resynchronize", id |-> n]
Result(n)       == [type |-> "operation-result", id |-> n]
Telemetric(t,n) == [type |-> t, id |-> n]

InboundTypes ==
  OrderKinds \cup {"set-id", "unknown-id", "registration"}

Inbound == [type : InboundTypes, id : Nat, types : SUBSET MessageTypes]

FromServer(type, id) == [type |-> type, id |-> id, types |-> {}]

\* persist.State: out is OutboundSequence, next is NextExpectedFromServer,
\* id stands for SecureID and InsecureID, which the server gives together.
State == [id : Nat, out : Nat, next : Nat, accepted : SUBSET MessageTypes]

Request == [from : Nat, seq : Nat, next : Nat, msgs : Seq(Message)]
\* acks: the reply has a next-expected-sequence, which is ack.
Reply   == [acks : BOOLEAN, ack : Nat, msgs : Seq(Inbound)]

NoReply == [acks |-> FALSE, ack |-> 0, msgs |-> <<>>]

Control == {"off", "load", "drain", "post", "dispatch", "bound", "spool",
            "decide", "wait", "returned"}

-----------------------------------------------------------------------------
(***************************************************************************)
(* Initial states: a device with an empty queue, registered by an earlier  *)
(* run or not, whose daemon has just been started.                         *)
(***************************************************************************)
FreshState == [id |-> InitialID, out |-> 0, next |-> 0, accepted |-> {}]

Init ==
  /\ pc = "load" /\ final = FALSE /\ delay = 0 /\ interval = 0
  /\ prevID = NoID
  /\ pending = <<>> /\ pingID = NoID /\ wake = FALSE
  /\ mem = FreshState /\ batch = <<>> /\ inbound = <<>> /\ copied = <<>>
  /\ disk = FreshState /\ spool = <<>>
  /\ running = {} /\ raising = {} /\ stopping = FALSE
  /\ log = <<>> /\ outbox = <<>> /\ known = InitialID /\ lastID = InitialID
  /\ answered = FALSE /\ reply = NoReply /\ late = {}
  /\ faults = 0 /\ orders = 0 /\ sent = 0
  /\ dispatched = <<>> /\ issued = {}

\* One more failure of the given kind, if this instance has it.
Fault(kind) == kind \in Faults /\ faults < MaxFaults /\ faults' = faults + 1

-----------------------------------------------------------------------------
(***************************************************************************)
(* Start of the process and of Run.                                        *)
(***************************************************************************)

\* A process that ended is started again: by snapd after a failure, by whoever
\* starts the service otherwise.  Send may be called before Run has loaded.
Boot ==
  /\ pc = "off"
  /\ pc' = "load"
  /\ UNCHANGED <<final, delay, interval, prevID, sharedVars, localVars,
                 fileVars, workerVars, stopping, serverVars, callVars, faults,
                 orders, sent, historyVars>>

\* Run reads state.json and prepends the spooled messages to the queue.  An
\* unreadable or corrupt spool only logs, and Run goes on without it.
Load ==
  /\ pc = "load"
  /\ \/ /\ pending' = spool \o pending
        /\ UNCHANGED faults
     \/ /\ spool # <<>>
        /\ Fault("loadSpool")
        /\ UNCHANGED pending
  /\ mem' = disk /\ pingID' = disk.id
  /\ pc' = "drain"
  /\ UNCHANGED <<final, delay, interval, prevID, wake, batch, inbound, copied,
                 fileVars, workerVars, stopping, serverVars, callVars,
                 orders, sent, historyVars>>

\* state.json cannot be read: Run returns, which ends the daemon.
LoadFails ==
  /\ pc = "load"
  /\ Fault("loadState")
  /\ pc' = "returned"
  /\ UNCHANGED <<final, delay, interval, prevID, sharedVars, localVars,
                 fileVars, workerVars, stopping, serverVars, callVars,
                 orders, sent, historyVars>>

-----------------------------------------------------------------------------
(***************************************************************************)
(* performExchange up to the POST.                                         *)
(***************************************************************************)

\* The queue an exchange drains: an unregistered client puts a register
\* message at its front, at every attempt.
WithRegister == IF mem.id = NoID THEN <<Register>> \o pending ELSE pending

BatchLen == IF Len(WithRegister) < MaxBatch THEN Len(WithRegister) ELSE MaxBatch

Drained == DropUnaccepted(SubSeq(WithRegister, 1, BatchLen), mem.accepted)

LeftBehind == SubSeq(WithRegister, BatchLen + 1, Len(WithRegister))

\* The batch is drained, filtered and posted.
Drain ==
  /\ pc = "drain"
  /\ batch' = Drained
  /\ pending' = LeftBehind
  /\ prevID' = IF final THEN prevID ELSE mem.id
  /\ pc' = "post"
  /\ UNCHANGED <<final, delay, interval, pingID, wake, mem, inbound, copied,
                 fileVars, workerVars, stopping, serverVars, callVars, faults,
                 orders, sent, historyVars>>

\* The payload cannot be encoded: performExchange returns, the drained batch
\* goes with its stack frame.
MarshalFails ==
  /\ pc = "drain"
  /\ Fault("marshal")
  /\ pending' = LeftBehind
  /\ prevID' = IF final THEN prevID ELSE mem.id
  /\ pc' = "bound"
  /\ UNCHANGED <<final, delay, interval, pingID, wake, localVars,
                 fileVars, workerVars, stopping, serverVars, callVars,
                 orders, sent, historyVars>>

\* The request under way, as the payload and the X-Computer-ID header say it.
CurrentRequest ==
  [from |-> mem.id, seq |-> mem.out, next |-> mem.next, msgs |-> batch]

-----------------------------------------------------------------------------
(***************************************************************************)
(* The server.                                                             *)
(***************************************************************************)

\* The messages of request r at positions the server does not have yet.
Fresh(r) ==
  IF r.seq > Len(log) THEN <<>>
  ELSE SubSeq(r.msgs, Len(log) - r.seq + 1, Len(r.msgs))

\* The server takes a prefix of the fresh messages: all of them, unless it
\* fails part of the way.
Take(r, n) ==
  /\ n \in 0..Len(Fresh(r))
  /\ log' = log \o SubSeq(Fresh(r), 1, n)

Recognised(r) == r.from \in {NoID, known}

\* A message of this type is on its way to the client that sent r.
Owes(r, type) == \E i \in r.next + 1 .. Len(outbox) : outbox[i].type = type

\* A register message among those the server takes.
AsksForIdentity(r, n) ==
  /\ r.from = NoID
  /\ \E i \in 1..n : Fresh(r)[i].type = "register"
  /\ ~Owes(r, "set-id")

\* The server handles request r, whose client may be gone.
Serve(r) ==
  \/ \* a client it does not know is told so, and nothing is taken
     /\ ~Recognised(r)
     /\ outbox' = IF Owes(r, "unknown-id") THEN outbox
                  ELSE Append(outbox, FromServer("unknown-id", 0))
     /\ UNCHANGED <<log, known, lastID, faults>>
  \/ /\ Recognised(r)
     /\ \E n \in 0..Len(Fresh(r)) :
          \/ \* everything, and whoever registers gets an identity
             /\ n = Len(Fresh(r)) /\ Take(r, n)
             /\ IF AsksForIdentity(r, n)
                  THEN /\ lastID' = lastID + 1 /\ known' = lastID + 1
                       /\ outbox' = Append(outbox,
                                           FromServer("set-id", lastID + 1))
                  ELSE UNCHANGED <<outbox, known, lastID>>
             /\ UNCHANGED faults
          \/ \* everything, but the registration waits for an administrator
             /\ n = Len(Fresh(r)) /\ Take(r, n)
             /\ AsksForIdentity(r, n)
             /\ Fault("defer")
             /\ outbox' = Append(outbox, FromServer("registration", 0))
             /\ UNCHANGED <<known, lastID>>
          \/ \* only a part, which has no registration
             /\ n < Len(Fresh(r)) /\ Take(r, n)
             /\ ~AsksForIdentity(r, n)
             /\ Fault("partial")
             /\ UNCHANGED <<outbox, known, lastID>>

\* The server answers the request under way: the next position it expects
\* and everything it holds beyond the position the client asked for.  It may
\* leave the first out when it took the whole batch, as the client's default
\* supposes.
ServeCurrent ==
  /\ pc = "post" /\ ~answered
  /\ Serve(CurrentRequest)
  /\ answered' = TRUE
  /\ \E acks \in BOOLEAN :
       /\ acks \/ Len(log') = mem.out + Len(batch)
       /\ reply' = [acks |-> acks, ack |-> Len(log'),
                    msgs |-> SubSeq(outbox', mem.next + 1, Len(outbox'))]
  /\ UNCHANGED <<loopVars, sharedVars, localVars, fileVars, workerVars,
                 stopping, late, orders, sent, historyVars>>

\* A request the client has given up on reaches the server after all.
ServeLate ==
  \E r \in late :
    /\ Serve(r)
    /\ late' = late \ {r}
    /\ UNCHANGED <<loopVars, sharedVars, localVars, fileVars, workerVars,
                   stopping, answered, reply, orders, sent, historyVars>>

\* The server queues something for a client it knows: a command, a request
\* to resynchronize, a new list of accepted types, or a message of a type
\* nobody subscribed to.
Order ==
  /\ known # NoID /\ orders < MaxOrders
  /\ \/ /\ "command" \in Orders
        /\ outbox' = Append(outbox, FromServer("command", Len(outbox) + 1))
     \/ /\ "resynchronize" \in Orders
        /\ outbox' = Append(outbox,
                            FromServer("resynchronize", Len(outbox) + 1))
     \/ /\ "unsubscribed" \in Orders
        /\ outbox' = Append(outbox, FromServer("unsubscribed", 0))
     \/ /\ "accepted-types" \in Orders
        /\ \E ts \in SUBSET Telemetry :
             outbox' = Append(outbox,
               [FromServer("accepted-types", 0) EXCEPT !.types = ts \cup {"register"}])
  /\ orders' = orders + 1
  /\ UNCHANGED <<loopVars, sharedVars, localVars, fileVars, workerVars,
                 stopping, log, known, lastID, callVars, faults, sent,
                 historyVars>>

\* The server loses the client's registration.
Forget ==
  /\ known # NoID
  /\ Fault("forget")
  /\ known' = NoID
  /\ UNCHANGED <<loopVars, sharedVars, localVars, fileVars, workerVars,
                 stopping, log, outbox, lastID, callVars, orders, sent,
                 historyVars>>

-----------------------------------------------------------------------------
(***************************************************************************)
(* performExchange: a POST that fails.                                     *)
(***************************************************************************)

\* backoff.failure: only 429 and 5xx double the delay, up to the cap.
BacksOff(status) == status = 429 \/ status \in 500..599

\* Mutation: the delay has no cap.
FailureUncapped(d, status) ==
  IF ~BacksOff(status) THEN d ELSE IF d = 0 THEN BackoffInitial ELSE 2 * d

Failure(d, status) ==
  IF ~BacksOff(status) THEN d
  ELSE LET doubled == IF d = 0 THEN BackoffInitial ELSE 2 * d
       IN  IF doubled > BackoffMax THEN BackoffMax ELSE doubled

\* The error of the final drain is only logged.
DelayAfter(status) == IF final THEN delay ELSE Failure(delay, status)

\* The client is no longer waiting for an answer.
CallEnds == answered' = FALSE /\ reply' = NoReply

\* Post returns an error: an HTTP status, or 0 for a timeout or a network
\* error.  The request was refused, or served and the reply lost, or is still
\* on its way.  The batch goes back to the front of the queue.
PostFails ==
  /\ pc = "post"
  /\ \/ /\ ~answered
        /\ Fault("refuse")
        /\ \E s \in Statuses \cup {0} : delay' = DelayAfter(s)
        /\ UNCHANGED late
     \/ /\ ~answered
        /\ Fault("late")
        /\ late' = late \cup {CurrentRequest}
        /\ UNCHANGED delay
     \/ /\ answered
        /\ Fault("lostReply")
        /\ \E s \in Statuses \cup {0} : delay' = DelayAfter(s)
        /\ UNCHANGED late
     \/ \* the request's context is the daemon's, except in the final drain
        /\ stopping /\ ~final
        /\ UNCHANGED <<delay, late, faults>>
  /\ pending' = batch \o pending
  /\ batch' = <<>>
  /\ CallEnds
  /\ pc' = "bound"
  /\ UNCHANGED <<final, interval, prevID, pingID, wake, mem, inbound, copied,
                 fileVars, workerVars, stopping, serverVars,
                 orders, sent, historyVars>>

\* A reply that cannot be decoded, or is not a dict: performExchange returns,
\* and the batch goes with its stack frame.
ReplyUndecodable ==
  /\ pc = "post" /\ answered
  /\ Fault("garble")
  /\ batch' = <<>>
  /\ CallEnds
  /\ pc' = "bound"
  /\ UNCHANGED <<final, delay, interval, prevID, sharedVars, mem, inbound,
                 copied, fileVars, workerVars, stopping, serverVars, late,
                 orders, sent, historyVars>>

-----------------------------------------------------------------------------
(***************************************************************************)
(* performExchange from the decoded reply to its return.                   *)
(***************************************************************************)

SentUpTo == mem.out + Len(batch)

\* Mutation: the server's number is not looked at.
ServerACKAssumed == SentUpTo

\* Mutation: the default is that nothing was acknowledged.
ServerACKNone == IF reply.acks THEN reply.ack ELSE mem.out

\* The default is that all was acknowledged.
ServerACK == IF reply.acks THEN reply.ack ELSE SentUpTo

\* Mutation: a partial acknowledgement puts the whole batch back.
NAckedNone == 0

\* Mutation: a partial acknowledgement puts nothing back.
NAckedAll == Len(batch)

NAcked == IF ServerACK > mem.out THEN ServerACK - mem.out ELSE 0

\* Mutation: the messages of the reply are not counted.
ReceivedNone == 0

\* How far the reply moves the position the client asks for.
Received == Len(reply.msgs)

\* The server's acknowledgement moves the sequence; what it leaves
\* unacknowledged goes back to the front of the queue.
Acknowledge ==
  /\ pc = "post" /\ answered
  /\ pending' = IF ServerACK < SentUpTo
                  THEN SubSeq(batch, NAcked + 1, Len(batch)) \o pending
                  ELSE pending
  /\ mem' = [mem EXCEPT !.out = ServerACK, !.next = @ + Received]
  /\ inbound' = reply.msgs
  /\ batch' = <<>>
  /\ CallEnds
  /\ pc' = "dispatch"
  /\ UNCHANGED <<final, delay, interval, prevID, pingID, wake, copied, fileVars,
                 workerVars, stopping, serverVars, late, faults, orders,
                 sent, historyVars>>

\* Mutation: processing stops after one message.
ProcessOnce(type) ==
  /\ pc = "dispatch" /\ inbound # <<>>
  /\ Head(inbound).type = type
  /\ inbound' = <<>>
  /\ UNCHANGED <<loopVars, wake, batch, copied, fileVars, raising, stopping,
                 serverVars, callVars, faults, orders, sent, issued>>

\* The next message of the reply has this type, and is done with.
Process(type) ==
  /\ pc = "dispatch" /\ inbound # <<>>
  /\ Head(inbound).type = type
  /\ inbound' = Tail(inbound)
  /\ UNCHANGED <<loopVars, wake, batch, copied, fileVars, raising, stopping,
                 serverVars, callVars, faults, orders, sent, issued>>

DispatchSetID ==
  /\ Process("set-id")
  /\ mem' = [mem EXCEPT !.id = Head(inbound).id]
  /\ pingID' = Head(inbound).id
  /\ UNCHANGED <<pending, running, dispatched>>

\* The identity is cleared in the state; Exchange.insecureID is not.
DispatchUnknownID ==
  /\ Process("unknown-id")
  /\ mem' = [mem EXCEPT !.id = NoID]
  /\ UNCHANGED <<pending, pingID, running, dispatched>>

DispatchAcceptedTypes ==
  /\ Process("accepted-types")
  /\ mem' = [mem EXCEPT !.accepted = Head(inbound).types]
  /\ UNCHANGED <<pending, pingID, running, dispatched>>

\* The acknowledgement of a resynchronize goes to the front of the queue.
DispatchResynchronize ==
  /\ Process("resynchronize")
  /\ pending' = <<ResyncAck(Head(inbound).id)>> \o pending
  /\ UNCHANGED <<mem, pingID, running, dispatched>>

\* The handlers of a command start its operation and return.
DispatchCommand ==
  /\ Process("command")
  /\ running' = running \cup {Head(inbound).id}
  /\ dispatched' = Append(dispatched, Head(inbound).id)
  /\ UNCHANGED <<mem, pending, pingID>>

\* Messages that are only logged.
DispatchLogged ==
  /\ \E type \in {"registration", "unsubscribed"} : Process(type)
  /\ UNCHANGED <<mem, pending, pingID, running, dispatched>>

Dispatch ==
  \/ DispatchSetID \/ DispatchUnknownID \/ DispatchAcceptedTypes
  \/ DispatchResynchronize \/ DispatchCommand \/ DispatchLogged

\* Mutation: the identity is left out.
PersistedAnonymous == [mem EXCEPT !.id = disk.id]

\* What store.Update writes of the state Run holds.
Persisted == mem

\* All processed: state.json is rewritten, a backlog wakes the loop, and the
\* exchange has succeeded, which ends the backoff.
SaveState ==
  /\ pc = "dispatch" /\ inbound = <<>>
  /\ disk' = Persisted
  /\ wake' = (wake \/ pending # <<>>)
  /\ delay' = IF final THEN delay ELSE 0
  /\ pc' = "bound"
  /\ UNCHANGED <<final, interval, prevID, pending, pingID, localVars, spool,
                 workerVars, stopping, serverVars, callVars, faults, orders,
                 sent, historyVars>>

\* store.Update fails: the exchange ends in error, the state in memory keeps
\* what the server said.
SaveStateFails ==
  /\ pc = "dispatch" /\ inbound = <<>>
  /\ Fault("saveState")
  /\ pc' = "bound"
  /\ UNCHANGED <<final, delay, interval, prevID, sharedVars, localVars,
                 fileVars, workerVars, stopping, serverVars, callVars,
                 orders, sent, historyVars>>

-----------------------------------------------------------------------------
(***************************************************************************)
(* The rest of an iteration of Run.                                        *)
(***************************************************************************)

\* Mutation: the copy is taken before the queue is bounded.
SnapshotUnbounded == pending

Snapshot == EnforceQueueBound(pending)

\* persistQueue, under the lock: bound the queue and copy it.
BoundQueue ==
  /\ pc = "bound"
  /\ pending' = EnforceQueueBound(pending)
  /\ copied' = Snapshot
  /\ pc' = "spool"
  /\ UNCHANGED <<final, delay, interval, prevID, pingID, wake, mem, batch,
                 inbound, fileVars, workerVars, stopping, serverVars, callVars,
                 faults, orders, sent, historyVars>>

\* Mutation: an empty queue is not worth a write.
SavedUnlessEmpty == IF copied = <<>> THEN spool ELSE copied

\* spool.save replaces the file by the copy, whatever its length.
Saved == copied

\* Mutation: Run does not return after the final drain.
AfterSpoolDecides == "decide"

\* After the final drain Run returns.
AfterSpool == IF final THEN "returned" ELSE "decide"

\* persistQueue, lock released: write the copy.  A failure is only logged.
WriteSpool ==
  /\ pc = "spool"
  /\ \/ spool' = Saved /\ UNCHANGED faults
     \/ Fault("saveSpool") /\ UNCHANGED spool
  /\ copied' = <<>>
  /\ pc' = AfterSpool
  /\ UNCHANGED <<final, delay, interval, prevID, sharedVars, mem, batch, inbound,
                 disk, workerVars, stopping, serverVars, callVars, orders,
                 sent, historyVars>>

\* Mutation: the jitter shortens the delay.
DelaysJitteredDown ==
  IF delay = 0 THEN {0} ELSE delay - (delay \div 5) + 1 .. delay

\* backoff.current: the delay with up to 20% jitter.
CurrentDelays == IF delay = 0 THEN {0} ELSE delay .. delay + (delay \div 5) - 1

JustRegistered == prevID = NoID /\ mem.id # NoID

\* Mutation: Run does not look for results in the queue.
BaseIntervalBlind ==
  IF mem.id = NoID \/ JustRegistered THEN UrgentInterval ELSE NormalInterval

\* The interval Run chooses when there is no backoff.
BaseInterval ==
  IF HasUrgent(pending) \/ mem.id = NoID \/ JustRegistered
    THEN UrgentInterval ELSE NormalInterval

\* Run sets the timer and enters the select.
Decide ==
  /\ pc = "decide"
  /\ \E d \in CurrentDelays :
       interval' = IF d > BaseInterval THEN d ELSE BaseInterval
  /\ pc' = "wait"
  /\ UNCHANGED <<final, delay, prevID, sharedVars, localVars, fileVars,
                 workerVars, stopping, serverVars, callVars, faults, orders,
                 sent, historyVars>>

\* The timer fires.
TimerFires ==
  /\ pc = "wait"
  /\ interval' = 0
  /\ pc' = "drain"
  /\ UNCHANGED <<final, delay, prevID, sharedVars, localVars, fileVars,
                 workerVars, stopping, serverVars, callVars, faults, orders,
                 sent, historyVars>>

\* A token in the wake channel ends the wait.
Woken ==
  /\ pc = "wait" /\ wake
  /\ wake' = FALSE
  /\ interval' = 0
  /\ pc' = "drain"
  /\ UNCHANGED <<final, delay, prevID, pending, pingID, localVars, fileVars,
                 workerVars, stopping, serverVars, callVars, faults, orders,
                 sent, historyVars>>

\* The daemon's context is cancelled: one last exchange.
FinalDrain ==
  /\ pc = "wait" /\ stopping
  /\ final' = TRUE
  /\ interval' = 0
  /\ pc' = "drain"
  /\ UNCHANGED <<delay, prevID, sharedVars, localVars, fileVars,
                 workerVars, stopping, serverVars, callVars, faults, orders,
                 sent, historyVars>>

-----------------------------------------------------------------------------
(***************************************************************************)
(* The other goroutines of the process.                                    *)
(***************************************************************************)
Alive == pc # "off"

\* Send: a monitor plugin queues telemetry; the loop is not woken.
Send ==
  /\ Alive /\ sent < MaxTelemetry
  /\ \E t \in Telemetry : pending' = Append(pending, Telemetric(t, sent + 1))
  /\ sent' = sent + 1
  /\ UNCHANGED <<loopVars, pingID, wake, localVars, fileVars, workerVars,
                 stopping, serverVars, callVars, faults, orders, historyVars>>

\* SendUrgent, first half: a handler queues the result of its operation.
SendUrgent ==
  /\ \E c \in running :
       /\ pending' = Append(pending, Result(c))
       /\ running' = running \ {c}
       /\ raising' = raising \cup {c}
       /\ issued' = issued \cup {c}
  /\ UNCHANGED <<loopVars, pingID, wake, localVars, fileVars, stopping,
                 serverVars, callVars, faults, orders, sent, dispatched>>

\* SendUrgent, second half: TriggerExchange, which never blocks.
TriggerExchange ==
  /\ raising # {}
  /\ \E c \in raising : raising' = raising \ {c}
  /\ wake' = TRUE
  /\ UNCHANGED <<loopVars, pending, pingID, localVars, fileVars, running,
                 stopping, serverVars, callVars, faults, orders, sent,
                 historyVars>>

\* The ping loop learns that the server holds messages for this identity.
PingFindsMessages ==
  /\ Alive /\ ~stopping
  /\ pingID # NoID /\ pingID = known /\ mem.next < Len(outbox)
  /\ wake' = TRUE
  /\ UNCHANGED <<loopVars, pending, pingID, localVars, fileVars, workerVars,
                 stopping, serverVars, callVars, faults, orders, sent,
                 historyVars>>

\* SIGTERM.
Stop ==
  /\ Alive /\ ~stopping
  /\ Fault("stop")
  /\ stopping' = TRUE
  /\ UNCHANGED <<loopVars, sharedVars, localVars, fileVars, workerVars,
                 serverVars, callVars, orders, sent, historyVars>>

\* What the end of the process leaves: the files, and the requests under way.
ProcessEnds ==
  /\ pc' = "off" /\ final' = FALSE /\ delay' = 0 /\ interval' = 0
  /\ prevID' = NoID
  /\ pending' = <<>> /\ pingID' = NoID /\ wake' = FALSE
  /\ mem' = disk /\ batch' = <<>> /\ inbound' = <<>> /\ copied' = <<>>
  /\ running' = {} /\ raising' = {} /\ stopping' = FALSE
  /\ CallEnds
  /\ UNCHANGED <<fileVars, serverVars, orders, sent, historyVars>>

\* The process dies at any point, or main gives up on a shutdown that takes too
\* long; a request it had posted may still arrive.
Crash ==
  /\ Alive
  /\ \/ Fault("crash")
     \/ stopping /\ pc # "returned" /\ Fault("overrun")
  /\ \/ UNCHANGED late
     \/ pc = "post" /\ ~answered /\ late' = late \cup {CurrentRequest}
  /\ ProcessEnds

\* Run has returned.  The process waits for the handlers, but not for ever,
\* and exits.
Exit ==
  /\ pc = "returned"
  /\ ProcessEnds
  /\ UNCHANGED <<late, faults>>

-----------------------------------------------------------------------------
RunStep ==
  \/ Load \/ Drain \/ Acknowledge \/ Dispatch \/ SaveState
  \/ BoundQueue \/ WriteSpool \/ Decide

FaultStep ==
  \/ LoadFails \/ MarshalFails \/ PostFails \/ ReplyUndecodable
  \/ SaveStateFails \/ Forget \/ Stop \/ Crash

Next ==
  \/ RunStep \/ TimerFires \/ Woken \/ FinalDrain
  \/ Boot \/ Exit
  \/ Send \/ SendUrgent \/ TriggerExchange \/ PingFindsMessages
  \/ ServeCurrent \/ ServeLate \/ Order
  \/ FaultStep

\* The loop is never stuck but in the POST, which has a timeout, and in the
\* select, where the timer fires in the end; Go's select picks at random
\* among the ready cases, so a cancelled context is not passed over for ever.
\* A server that is up answers.  A process that ended need not come back: snapd
\* restarts it on failure only.  The commands are operations that end and give
\* one result: a script without a time limit that hangs is not one.
Fairness ==
  /\ WF_vars(RunStep) /\ WF_vars(TimerFires) /\ SF_vars(FinalDrain)
  /\ WF_vars(SendUrgent) /\ WF_vars(TriggerExchange)
  /\ WF_vars(ServeCurrent)
  /\ WF_vars(Exit)

Spec == Init /\ [][Next]_vars

FairSpec == Spec /\ Fairness

-----------------------------------------------------------------------------
(***************************************************************************)
(* Properties.                                                             *)
(***************************************************************************)
Members(q) == {q[i] : i \in DOMAIN q}

\* Every variable holds a value of the Go type it stands for, and locals are
\* empty where the code has no use for them.
TypeOK ==
  /\ pc \in Control /\ final \in BOOLEAN /\ stopping \in BOOLEAN
  /\ delay \in 0..BackoffMax /\ interval \in Nat /\ prevID \in Nat
  /\ pending \in Seq(Message) /\ pingID \in Nat /\ wake \in BOOLEAN
  /\ mem \in State /\ batch \in Seq(Message) /\ inbound \in Seq(Inbound)
  /\ copied \in Seq(Message)
  /\ disk \in State /\ spool \in Seq(Message)
  /\ running \in SUBSET Nat /\ raising \in SUBSET Nat
  /\ log \in Seq(Message) /\ outbox \in Seq(Inbound)
  /\ known \in Nat /\ lastID \in Nat
  /\ answered \in BOOLEAN /\ reply \in Reply /\ late \in SUBSET Request
  /\ faults \in Nat /\ orders \in Nat /\ sent \in Nat
  /\ dispatched \in Seq(Nat) /\ issued \in SUBSET Nat

\* No lost wake-up.  While Run sleeps in the select with an operation result
\* in the queue, either a token is in the wake channel, or the goroutine that
\* queued it is about to put one, or the timer was set knowing of the result:
\* to the urgent interval, or to the backoff delay when that is longer.
NoResultSleeps ==
  (pc = "wait" /\ HasUrgent(pending) /\ raising = {})
    => \/ wake
       \/ interval <= UrgentInterval
       \/ delay > 0 /\ interval \in CurrentDelays

\* After server errors Run never sets its timer below the backoff delay, and
\* without them never above the configured interval.
TimerHonoursBackoff ==
  pc = "wait" => /\ interval >= delay
                 /\ delay = 0 => interval \in {UrgentInterval, NormalInterval}

\* The client never counts as acknowledged a position the server does not
\* have, in memory or in state.json, and never asks the server to skip one of
\* its messages.
NothingInvented ==
  /\ mem.out <= Len(log) /\ disk.out <= Len(log)
  /\ mem.next <= Len(outbox) /\ disk.next <= mem.next

\* An operation result given to SendUrgent is somewhere until the server has
\* it: in the queue, in the batch under way, in the spool while the process
\* is down or starting.
Held == Members(pending) \cup Members(batch) \cup
        (IF pc \in {"off", "load"} THEN Members(spool) ELSE {})

ResultsKept == \A c \in issued : Result(c) \in Members(log) \cup Held

\* When Run has returned after a shutdown, the spool holds the queue: what is
\* not in it was queued after the final drain.
ShutdownSpoolsQueue ==
  pc = "returned" => /\ Len(spool) <= Len(pending)
                     /\ SubSeq(pending, 1, Len(spool)) = spool
                     /\ batch = <<>>

\* Only the end of the process loses an operation result, and only one that
\* was queued since the queue was last written: not one in the spool, and not
\* one queued after the restart.
OnlyRestartLosesUnsaved ==
  [][\A c \in issued :
       LET kept == Members(log) \cup Held \cup Members(spool)
       IN  (Result(c) \in kept /\ Result(c) \notin kept')
             => pc' = "off" /\ Result(c) \notin Members(spool)]_vars

\* Commands reach their handlers in the order the server sent them, each
\* exactly once: those dispatched are those before the position the client
\* will ask for next, without the part of the reply still to be processed.
CommandsInOrder ==
  LET settled  == 1..(mem.next - Len(inbound))
      commands == Select(outbox, {i \in settled : outbox[i].type = "command"})
  IN  dispatched = [n \in DOMAIN commands |-> commands[n].id]

\* A command below the position in state.json has been given to its handler:
\* a crash never makes the client skip a command it has not dispatched.
NoCommandSkipped ==
  \A i \in 1..disk.next :
    outbox[i].type = "command" => outbox[i].id \in Members(dispatched)

\* Why those two hold, as an invariant that is inductive with TypeOK: the part
\* of the reply still to be processed is the last stretch before the position
\* the client asks for next, the answer to the request under way continues at
\* that position, and state.json is never ahead of what has been processed.
Processed == mem.next - Len(inbound)

Positions ==
  /\ pc # "dispatch" => inbound = <<>>
  /\ 0 <= Processed /\ mem.next <= Len(outbox)
  /\ \A j \in DOMAIN inbound : inbound[j] = outbox[Processed + j]
  /\ disk.next <= Processed
  /\ \A i \in 1..Processed :
       outbox[i].type = "command" => outbox[i].id \in Members(dispatched)
  /\ mem.out <= Len(log) /\ disk.out <= Len(log)
  /\ answered =>
       /\ pc = "post"
       /\ ServerACK <= Len(log)
       /\ mem.next + Len(reply.msgs) <= Len(outbox)
       /\ \A j \in DOMAIN reply.msgs : reply.msgs[j] = outbox[mem.next + j]

\* The spool never exceeds the bound but with operation results alone.
SpoolBounded ==
  Len(spool) > MaxQueued => \A i \in DOMAIN spool : IsUrgent(spool[i])

-----------------------------------------------------------------------------
\* Every command is answered: its operation result reaches the server.
CommandsAnswered ==
  \A c \in 1..(MaxOrders + MaxFaults) :
    (c \in DOMAIN outbox /\ outbox[c].type = "command")
      ~> (Result(c) \in Members(log))

\* The backlog drains: whatever is queued, the queue is empty in the end.
QueueDrains == []<>(pending = <<>> /\ batch = <<>>)

\* The client ends up registered under the identity the server knows, in memory
\* and in state.json, unless the daemon ends for good.
Registers ==
  <>[](pc = "off" \/ (known # NoID /\ mem.id = known /\ disk.id = known))

\* A cancelled daemon leaves Run, whatever else is ready in its select.
ShutdownCompletes == stopping ~> (pc \in {"returned", "off"})

-----------------------------------------------------------------------------
(***************************************************************************)
(* Refinement.  The messages the client still holds, from the position its *)
(* sequence number names, are those of the batch under way and then those  *)
(* of the queue.  The server may be ahead of that number, by what it took  *)
(* in exchanges whose reply the client never saw: it has those already.    *)
(***************************************************************************)
Undelivered ==
  LET held == batch \o pending
  IN  SubSeq(held, Len(log) - mem.out + 1, Len(held))

Promise == INSTANCE ResultDelivery WITH
             owed  <- Results(Undelivered),
             taken <- Results(log)

\* The exchange delivers operation results once each and in order, through
\* retransmissions, partial acknowledgements, filtering and trimming.
DeliversOnceInOrder == Promise!Spec

\* ... and does deliver them, if failures stop.
DeliversEventually == Promise!FairSpec

=============================================================================
