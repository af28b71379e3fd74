--------------------------- MODULE ExchangeProofs ---------------------------
(***************************************************************************)
(* What holds of the exchange loop for every queue bound, batch size,      *)
(* number of messages and combination of failures.                         *)
(***************************************************************************)
EXTENDS ExchangeMC, MessageQueueProofs

USE DEF loopVars, sharedVars, localVars, fileVars, workerVars, serverVars,
        callVars, historyVars

-----------------------------------------------------------------------------
(***************************************************************************)
(* Types of the values the actions build.                                  *)
(***************************************************************************)

\* A slice of a sequence that starts at or after its first element and ends
\* at or before its last is a sequence of the same kind.
LEMMA Slice ==
  ASSUME NEW S, NEW q \in Seq(S), NEW a \in Nat \ {0}, NEW b \in Int,
         b <= Len(q)
  PROVE  /\ SubSeq(q, a, b) \in Seq(S)
         /\ Len(SubSeq(q, a, b)) = IF a <= b THEN b - a + 1 ELSE 0
         /\ \A i \in 1..Len(SubSeq(q, a, b)) : SubSeq(q, a, b)[i] = q[a + i - 1]
<1>1. \A i \in a..b : q[i] \in S OBVIOUS
<1> QED BY <1>1, SubSeqProperties

\* The messages the client builds.
LEMMA ClientMessages ==
  /\ Register \in Message
  /\ \A n \in Nat : ResyncAck(n) \in Message /\ Result(n) \in Message
  /\ \A t \in Telemetry, n \in Nat : Telemetric(t, n) \in Message
BY DEF Register, ResyncAck, Result, Telemetric, Message, MessageTypes,
       ProtocolTypes

\* The messages the server builds.
LEMMA ServerMessages ==
  /\ \A type \in InboundTypes, n \in Nat : FromServer(type, n) \in Inbound
  /\ \A ts \in SUBSET Telemetry :
       [FromServer("accepted-types", 0) EXCEPT !.types = ts \cup {"register"}]
         \in Inbound
BY DEF FromServer, Inbound, InboundTypes, OrderKinds, MessageTypes,
       ProtocolTypes

\* The queue with the register message an unregistered client adds.
LEMMA DrainTypes ==
  ASSUME TypeOK
  PROVE  /\ WithRegister \in Seq(Message)
         /\ BatchLen \in 0..Len(WithRegister)
         /\ Drained \in Seq(Message) /\ LeftBehind \in Seq(Message)
<1>1. WithRegister \in Seq(Message)
  BY ClientMessages DEF TypeOK, WithRegister
<1>2. Len(WithRegister) \in Nat BY <1>1
<1>3. BatchLen \in Nat /\ BatchLen <= Len(WithRegister)
  BY <1>2, ExchangeAssumptions DEF BatchLen
<1>4. SubSeq(WithRegister, 1, BatchLen) \in Seq(Message)
  BY <1>1, <1>2, <1>3, Slice
<1>5. Drained \in Seq(Message) BY <1>4, FilterKeepsProtocol DEF Drained
<1>6. LeftBehind \in Seq(Message) BY <1>1, <1>2, <1>3, Slice DEF LeftBehind
<1> QED BY <1>1, <1>2, <1>3, <1>5, <1>6

\* A call that ends leaves no answer behind.
LEMMA NoReplyType == NoReply \in Reply /\ (CallEnds => reply' \in Reply)
<1>1. NoReply \in Reply BY DEF NoReply, Reply
<1> QED BY <1>1 DEF CallEnds

\* A fault that happens, or does not, leaves their count a natural number.
LEMMA FaultsType ==
  ASSUME TypeOK, NEW kind, Fault(kind) \/ UNCHANGED faults PROVE faults' \in Nat
<1>1. faults \in Nat BY DEF TypeOK
<1>2. faults' = faults \/ faults' = faults + 1 BY DEF Fault
<1> QED BY ONLY <1>1, <1>2

\* The request under way is a request.
LEMMA CurrentRequestType ==
  ASSUME TypeOK PROVE CurrentRequest \in Request
BY DEF TypeOK, CurrentRequest, Request, State

\* What the server finds new in a request are messages of the request.
LEMMA FreshType ==
  ASSUME NEW r, r.msgs \in Seq(Message), r.seq \in Nat, log \in Seq(Message)
  PROVE  Fresh(r) \in Seq(Message)
<1>1. CASE r.seq > Len(log) BY <1>1 DEF Fresh
<1>2. CASE ~(r.seq > Len(log))
  <2>1. Len(log) - r.seq + 1 \in Nat \ {0} BY <1>2
  <2>2. SubSeq(r.msgs, Len(log) - r.seq + 1, Len(r.msgs)) \in Seq(Message)
    BY <2>1, Slice
  <2> QED BY <1>2, <2>2 DEF Fresh
<1> QED BY <1>1, <1>2

\* Serving a request keeps the types of what the server holds.
LEMMA ServeTypes ==
  ASSUME TypeOK, NEW r \in Request, Serve(r)
  PROVE  /\ log' \in Seq(Message) /\ outbox' \in Seq(Inbound)
         /\ known' \in Nat /\ lastID' \in Nat /\ faults' \in Nat
<1>1. /\ r.msgs \in Seq(Message) /\ r.seq \in Nat /\ r.next \in Nat
      /\ log \in Seq(Message) /\ outbox \in Seq(Inbound)
      /\ known \in Nat /\ lastID \in Nat /\ faults \in Nat
  BY DEF TypeOK, Request
<1>2. Fresh(r) \in Seq(Message) BY <1>1, FreshType
<1>3. \A n \in 0..Len(Fresh(r)) : SubSeq(Fresh(r), 1, n) \in Seq(Message)
  BY <1>2, Slice
<1>4. log' \in Seq(Message)
  <2>1. \/ log' = log
        \/ \E n \in 0..Len(Fresh(r)) : log' = log \o SubSeq(Fresh(r), 1, n)
    BY DEF Serve, Take
  <2>2. ASSUME NEW n \in 0..Len(Fresh(r)), log' = log \o SubSeq(Fresh(r), 1, n)
        PROVE  log' \in Seq(Message)
    <3>1. SubSeq(Fresh(r), 1, n) \in Seq(Message) BY <1>3
    <3> QED BY <1>1, <2>2, <3>1
  <2> QED BY <1>1, <2>1, <2>2
<1>5. outbox' \in Seq(Inbound)
  <2>1. \A type \in InboundTypes, n \in Nat :
          Append(outbox, FromServer(type, n)) \in Seq(Inbound)
    BY <1>1, ServerMessages
  <2>2. /\ "unknown-id" \in InboundTypes /\ "set-id" \in InboundTypes
        /\ "registration" \in InboundTypes /\ lastID + 1 \in Nat
    BY <1>1 DEF InboundTypes
  <2> QED BY <1>1, <2>1, <2>2 DEF Serve
<1>6. known' \in Nat /\ lastID' \in Nat
  <2>1. /\ lastID' = lastID \/ lastID' = lastID + 1
        /\ known' = known \/ known' = lastID + 1
    BY DEF Serve
  <2>2. known \in Nat /\ lastID \in Nat BY <1>1
  <2> QED BY ONLY <2>1, <2>2
<1>7. faults' \in Nat
  <2>1. Fault("defer") \/ Fault("partial") \/ UNCHANGED faults BY DEF Serve
  <2> QED BY <2>1, FaultsType
<1> QED BY <1>4, <1>5, <1>6, <1>7

-----------------------------------------------------------------------------
(***************************************************************************)
(* Type correctness: every action keeps every variable in its type.        *)
(***************************************************************************)
\* The initial state has the types.
LEMMA TypeInit == Init => TypeOK
<1>1. FreshState \in State
  BY ExchangeAssumptions DEF FreshState, State
<1>2. NoReply \in Reply BY NoReplyType
<1>3. InitialID \in Nat /\ 0 \in 0..BackoffMax BY ExchangeAssumptions
<1>4. /\ <<>> \in Seq(Message) /\ <<>> \in Seq(Inbound) /\ <<>> \in Seq(Nat)
      /\ {} \in SUBSET Nat /\ {} \in SUBSET Request
  OBVIOUS
<1>5. "load" \in Control BY DEF Control
<1> SUFFICES ASSUME Init PROVE TypeOK OBVIOUS
<1>6. /\ mem \in State /\ disk \in State /\ reply \in Reply
      /\ known \in Nat /\ lastID \in Nat
      /\ delay \in 0..BackoffMax
  BY <1>1, <1>2, <1>3 DEF Init
<1>7. /\ pending \in Seq(Message) /\ batch \in Seq(Message)
      /\ copied \in Seq(Message) /\ spool \in Seq(Message)
      /\ log \in Seq(Message) /\ inbound \in Seq(Inbound)
      /\ outbox \in Seq(Inbound) /\ dispatched \in Seq(Nat)
      /\ late \in SUBSET Request
  BY <1>4 DEF Init
<1>8. /\ running \in SUBSET Nat /\ raising \in SUBSET Nat
      /\ issued \in SUBSET Nat
  BY <1>4 DEF Init
<1> QED BY <1>5, <1>6, <1>7, <1>8 DEF Init, TypeOK, NoID

\* Boot, Load and LoadFails keep the types.
LEMMA TypeStart ==
  ASSUME TypeOK, Boot \/ Load \/ LoadFails PROVE TypeOK'
<1>1. CASE Boot BY <1>1 DEF TypeOK, Boot, Control
<1>2. CASE Load
  <2>1. pending' \in Seq(Message)
    <3>1. spool \o pending \in Seq(Message) BY DEF TypeOK
    <3>2. pending \in Seq(Message) BY DEF TypeOK
    <3>3. pending' = spool \o pending \/ pending' = pending
      BY <1>2 DEF Load
    <3> QED BY <3>1, <3>2, <3>3
  <2>2. faults' \in Nat BY <1>2, FaultsType DEF Load
  <2>3. disk.id \in Nat BY DEF TypeOK, State
  <2> QED BY <1>2, <2>1, <2>2, <2>3 DEF TypeOK, Load, Control
<1>3. CASE LoadFails BY <1>3 DEF TypeOK, LoadFails, Fault, Control
<1> QED BY <1>1, <1>2, <1>3

\* The batch and what is left behind are queues of messages.
LEMMA TypeDrain ==
  ASSUME TypeOK, Drain \/ MarshalFails PROVE TypeOK'
<1>1. /\ Drained \in Seq(Message) /\ LeftBehind \in Seq(Message)
      /\ mem.id \in Nat
  BY DrainTypes DEF TypeOK, State
<1>2. CASE Drain BY <1>1, <1>2 DEF TypeOK, Drain, Control
<1>3. CASE MarshalFails
  <2>1. faults' \in Nat BY <1>3, FaultsType DEF MarshalFails
  <2> QED BY <1>1, <1>3, <2>1 DEF TypeOK, MarshalFails, Control
<1> QED BY <1>2, <1>3

\* The server's steps keep the types, its answer included.
LEMMA TypeServer ==
  ASSUME TypeOK, ServeCurrent \/ ServeLate \/ Order \/ Forget PROVE TypeOK'
<1>1. CASE ServeCurrent
  <2>1. /\ log' \in Seq(Message) /\ outbox' \in Seq(Inbound)
        /\ known' \in Nat /\ lastID' \in Nat /\ faults' \in Nat
    BY <1>1, CurrentRequestType, ServeTypes DEF ServeCurrent
  <2>2. mem.next + 1 \in Nat \ {0}
    <3>1. mem.next \in Nat BY DEF TypeOK, State
    <3> QED BY ONLY <3>1
  <2>3. SubSeq(outbox', mem.next + 1, Len(outbox')) \in Seq(Inbound)
    BY <2>1, <2>2, Slice
  <2>4. reply' \in Reply
    BY <1>1, <2>1, <2>3 DEF ServeCurrent, Reply
  <2> QED BY <1>1, <2>1, <2>4 DEF TypeOK, ServeCurrent
<1>2. CASE ServeLate
  <2>1. PICK r \in late : Serve(r) /\ late' = late \ {r}
    BY <1>2 DEF ServeLate
  <2>2. r \in Request BY <2>1 DEF TypeOK
  <2>3. /\ log' \in Seq(Message) /\ outbox' \in Seq(Inbound)
        /\ known' \in Nat /\ lastID' \in Nat /\ faults' \in Nat
    BY <2>1, <2>2, ServeTypes
  <2>4. UNCHANGED <<loopVars, sharedVars, localVars, fileVars, workerVars,
                    stopping, answered, reply, orders, sent, historyVars>>
    BY <1>2 DEF ServeLate
  <2> QED BY <2>1, <2>3, <2>4 DEF TypeOK
<1>3. CASE Order
  <2>1. Len(outbox) + 1 \in Nat /\ outbox \in Seq(Inbound) BY DEF TypeOK
  <2>2. /\ "command" \in InboundTypes /\ "resynchronize" \in InboundTypes
        /\ "unsubscribed" \in InboundTypes
    BY DEF InboundTypes, OrderKinds
  <2>3. /\ FromServer("command", Len(outbox) + 1) \in Inbound
        /\ FromServer("resynchronize", Len(outbox) + 1) \in Inbound
        /\ FromServer("unsubscribed", 0) \in Inbound
    BY <2>1, <2>2, ServerMessages
  <2>4. \E m \in Inbound : outbox' = Append(outbox, m)
    BY <1>3, <2>3, ServerMessages DEF Order
  <2>5. outbox' \in Seq(Inbound) BY <2>1, <2>4
  <2>6. orders' \in Nat BY <1>3 DEF TypeOK, Order
  <2> QED BY <1>3, <2>5, <2>6 DEF TypeOK, Order
<1>4. CASE Forget
  <2>1. known' \in Nat /\ faults' \in Nat
    BY <1>4 DEF TypeOK, Forget, Fault, NoID
  <2> QED BY <1>4, <2>1 DEF TypeOK, Forget
<1> QED BY <1>1, <1>2, <1>3, <1>4

\* A call that fails puts a queue of messages back and caps the delay.
LEMMA TypeCallFails ==
  ASSUME TypeOK, PostFails \/ ReplyUndecodable PROVE TypeOK'
<1>1. CallEnds => answered' \in BOOLEAN /\ reply' \in Reply
  <2>1. CallEnds => answered' = FALSE BY DEF CallEnds
  <2> QED BY <2>1, NoReplyType
<1>2. CASE PostFails
  <2>1. \A s : DelayAfter(s) \in 0..BackoffMax
    BY ExchangeAssumptions DEF TypeOK, Failure, DelayAfter
  <2>2. delay' \in 0..BackoffMax
    <3>1. delay' = delay \/ \E s \in Statuses \cup {0} : delay' = DelayAfter(s)
      BY <1>2 DEF PostFails
    <3>2. delay \in 0..BackoffMax BY DEF TypeOK
    <3> QED BY ONLY <2>1, <3>1, <3>2
  <2>5. faults' \in Nat
    <3>1. \/ Fault("refuse") \/ Fault("late") \/ Fault("lostReply")
          \/ UNCHANGED faults
      BY <1>2 DEF PostFails
    <3> QED BY <3>1, FaultsType
  <2>3. late' \in SUBSET Request
    BY <1>2, CurrentRequestType DEF TypeOK, PostFails
  <2>4. pending' \in Seq(Message) /\ batch' \in Seq(Message)
    BY <1>2 DEF TypeOK, PostFails
  <2> QED BY <1>1, <1>2, <2>2, <2>3, <2>4, <2>5 DEF TypeOK, PostFails, Control
<1>3. CASE ReplyUndecodable
  <2>1. faults' \in Nat /\ batch' \in Seq(Message)
    BY <1>3 DEF TypeOK, ReplyUndecodable, Fault
  <2> QED BY <1>1, <1>3, <2>1 DEF TypeOK, ReplyUndecodable, Control
<1> QED BY <1>2, <1>3

\* What is put back is a part of the batch, and the sequence stays a natural.
LEMMA TypeAcknowledge ==
  ASSUME TypeOK, Acknowledge PROVE TypeOK'
<1>1. /\ mem \in State /\ mem.out \in Nat /\ mem.next \in Nat
      /\ batch \in Seq(Message) /\ pending \in Seq(Message)
      /\ reply.ack \in Nat /\ reply.msgs \in Seq(Inbound)
  BY DEF TypeOK, State, Reply
<1>2. ServerACK \in Nat BY <1>1 DEF ServerACK, SentUpTo
<1>3. NAcked \in Nat BY <1>1, <1>2 DEF NAcked
<1>4. pending' \in Seq(Message)
  <2>1. SubSeq(batch, NAcked + 1, Len(batch)) \in Seq(Message)
    BY <1>1, <1>3, Slice
  <2> QED BY <1>1, <2>1 DEF Acknowledge
<1>5. mem' \in State
  <2>1. Len(reply.msgs) \in Nat BY <1>1
  <2>2. mem.next + Len(reply.msgs) \in Nat BY <1>1, <2>1
  <2>3. \A a, b \in Nat : [mem EXCEPT !.out = a, !.next = b] \in State
    BY <1>1 DEF State
  <2>4. mem' = [mem EXCEPT !.out = ServerACK,
                           !.next = mem.next + Len(reply.msgs)]
    BY DEF Acknowledge, Received
  <2> QED BY <1>2, <2>2, <2>3, <2>4
<1>6. answered' \in BOOLEAN /\ reply' \in Reply
  <2>1. CallEnds BY DEF Acknowledge
  <2> QED BY <2>1, NoReplyType DEF CallEnds
<1>7. inbound' \in Seq(Inbound) /\ batch' \in Seq(Message) /\ pc' \in Control
  BY <1>1 DEF Acknowledge, Control
<1> QED BY <1>4, <1>5, <1>6, <1>7 DEF TypeOK, Acknowledge

\* Processing one message keeps the types.
LEMMA TypeDispatch ==
  ASSUME TypeOK, Dispatch PROVE TypeOK'
<1>1. PICK type : Process(type)
  BY DEF Dispatch, DispatchSetID, DispatchUnknownID, DispatchAcceptedTypes,
         DispatchResynchronize, DispatchCommand, DispatchLogged
<1>2. /\ inbound \in Seq(Inbound) /\ inbound # <<>>
      /\ inbound' = Tail(inbound)
  BY <1>1 DEF Process, TypeOK
<1>3. Head(inbound) \in Inbound /\ inbound' \in Seq(Inbound)
  BY <1>2, HeadTailProperties
<1>4. /\ Head(inbound).id \in Nat
      /\ Head(inbound).types \in SUBSET MessageTypes
  BY <1>3 DEF Inbound
<1>5. mem' \in State /\ pingID' \in Nat
  <2>1. /\ [mem EXCEPT !.id = Head(inbound).id] \in State
        /\ [mem EXCEPT !.id = NoID] \in State
        /\ [mem EXCEPT !.accepted = Head(inbound).types] \in State
    BY <1>4 DEF TypeOK, State, NoID
  <2> QED BY <1>4, <2>1
          DEF TypeOK, Dispatch, DispatchSetID, DispatchUnknownID,
              DispatchAcceptedTypes, DispatchResynchronize, DispatchCommand,
              DispatchLogged
<1>6. pending' \in Seq(Message)
  <2>1. <<ResyncAck(Head(inbound).id)>> \o pending \in Seq(Message)
    <3>1. Head(inbound).id \in Nat /\ pending \in Seq(Message) BY <1>4 DEF TypeOK
    <3>2. PICK a \in Message : a = ResyncAck(Head(inbound).id)
      BY <3>1, ClientMessages
    <3> QED BY ONLY <3>1, <3>2
  <2> QED BY <2>1
          DEF TypeOK, Dispatch, DispatchSetID, DispatchUnknownID,
              DispatchAcceptedTypes, DispatchResynchronize, DispatchCommand,
              DispatchLogged
<1>7. running' \in SUBSET Nat /\ dispatched' \in Seq(Nat)
  <2>1. Append(dispatched, Head(inbound).id) \in Seq(Nat)
    BY <1>4 DEF TypeOK
  <2> QED BY <1>4, <2>1
          DEF TypeOK, Dispatch, DispatchSetID, DispatchUnknownID,
              DispatchAcceptedTypes, DispatchResynchronize, DispatchCommand,
              DispatchLogged
<1> QED BY <1>1, <1>3, <1>5, <1>6, <1>7 DEF TypeOK, Process

\* The rest of an iteration keeps the types: the bound, the spool, the timer.
LEMMA TypeLoop ==
  ASSUME TypeOK,
         \/ SaveState \/ SaveStateFails \/ BoundQueue \/ WriteSpool \/ Decide
         \/ TimerFires \/ Woken \/ FinalDrain
  PROVE  TypeOK'
<1>1. CASE SaveState
  <2>1. delay' \in 0..BackoffMax /\ wake' \in BOOLEAN
    BY <1>1, ExchangeAssumptions DEF TypeOK, SaveState
  <2> QED BY <1>1, <2>1 DEF TypeOK, SaveState, Persisted, Control
<1>2. CASE SaveStateFails BY <1>2 DEF TypeOK, SaveStateFails, Fault, Control
<1>3. CASE BoundQueue
  <2>1. EnforceQueueBound(pending) \in Seq(Message)
    BY BoundNeverDropsResults DEF TypeOK
  <2> QED BY <1>3, <2>1 DEF TypeOK, BoundQueue, Snapshot, Control
<1>4. CASE WriteSpool
  <2>1. spool' \in Seq(Message) /\ copied' \in Seq(Message)
    BY <1>4 DEF TypeOK, WriteSpool, Saved
  <2>2. pc' \in Control BY <1>4 DEF WriteSpool, AfterSpool, Control
  <2>3. faults' \in Nat BY <1>4, FaultsType DEF WriteSpool
  <2> QED BY <1>4, <2>1, <2>2, <2>3 DEF TypeOK, WriteSpool
<1>5. CASE Decide
  <2>1. \A d \in CurrentDelays : d \in Nat
    BY DEF TypeOK, CurrentDelays
  <2>2. interval' \in Nat BY <1>5, <2>1, ExchangeAssumptions DEF Decide, BaseInterval
  <2> QED BY <1>5, <2>2 DEF TypeOK, Decide, Control
<1>6. CASE TimerFires BY <1>6 DEF TypeOK, TimerFires, Control
<1>7. CASE Woken BY <1>7 DEF TypeOK, Woken, Control
<1>8. CASE FinalDrain BY <1>8 DEF TypeOK, FinalDrain, Control
<1> QED BY <1>1, <1>2, <1>3, <1>4, <1>5, <1>6, <1>7, <1>8

\* Queueing and waking keep the types.
LEMMA TypeWorkers ==
  ASSUME TypeOK,
         Send \/ SendUrgent \/ TriggerExchange \/ PingFindsMessages \/ Stop
  PROVE  TypeOK'
<1>1. CASE Send
  <2>1. sent' \in Nat BY <1>1 DEF TypeOK, Send
  <2>2. \A t \in Telemetry : Telemetric(t, sent + 1) \in Message
    BY ClientMessages DEF TypeOK
  <2>3. pending' \in Seq(Message) BY <1>1, <2>2 DEF TypeOK, Send
  <2> QED BY <1>1, <2>1, <2>3 DEF TypeOK, Send
<1>2. CASE SendUrgent
  <2>1. PICK c \in running : /\ pending' = Append(pending, Result(c))
                             /\ running' = running \ {c}
                             /\ raising' = raising \cup {c}
                             /\ issued' = issued \cup {c}
    BY <1>2 DEF SendUrgent
  <2>2. c \in Nat /\ Result(c) \in Message BY ClientMessages DEF TypeOK
  <2>3. pending' \in Seq(Message) BY <2>1, <2>2 DEF TypeOK
  <2> QED BY <1>2, <2>1, <2>2, <2>3 DEF TypeOK, SendUrgent
<1>3. CASE TriggerExchange BY <1>3 DEF TypeOK, TriggerExchange
<1>4. CASE PingFindsMessages BY <1>4 DEF TypeOK, PingFindsMessages
<1>5. CASE Stop BY <1>5 DEF TypeOK, Stop, Fault
<1> QED BY <1>1, <1>2, <1>3, <1>4, <1>5

\* The end of the process keeps the types.
LEMMA TypeEnd ==
  ASSUME TypeOK, Crash \/ Exit PROVE TypeOK'
<1>1. ProcessEnds BY DEF Crash, Exit
<1>2. faults' \in Nat
  <2>1. Fault("crash") \/ Fault("overrun") \/ UNCHANGED faults BY DEF Crash, Exit
  <2> QED BY <2>1, FaultsType
<1>3. late' \in SUBSET Request
  BY CurrentRequestType DEF TypeOK, Crash, Exit
<1>4. answered' \in BOOLEAN /\ reply' \in Reply
  <2>1. CallEnds BY <1>1 DEF ProcessEnds
  <2> QED BY <2>1, NoReplyType DEF CallEnds
<1>5. /\ pc' \in Control /\ delay' \in 0..BackoffMax /\ interval' \in Nat
      /\ prevID' \in Nat /\ pingID' \in Nat /\ mem' \in State
  BY <1>1, ExchangeAssumptions DEF TypeOK, ProcessEnds, Control, NoID
<1>6. /\ pending' \in Seq(Message) /\ batch' \in Seq(Message)
      /\ copied' \in Seq(Message) /\ inbound' \in Seq(Inbound)
      /\ running' \in SUBSET Nat /\ raising' \in SUBSET Nat
  BY <1>1 DEF ProcessEnds
<1> QED BY <1>1, <1>2, <1>3, <1>4, <1>5, <1>6 DEF TypeOK, ProcessEnds

\* The type invariant is inductive on its own.
LEMMA TypeStep == ASSUME TypeOK, [Next]_vars PROVE TypeOK'
<1>1. CASE Next
  BY <1>1, TypeStart, TypeDrain, TypeServer, TypeCallFails, TypeAcknowledge,
     TypeDispatch, TypeLoop, TypeWorkers, TypeEnd
     DEF Next, RunStep, FaultStep
<1>2. CASE UNCHANGED vars BY <1>2 DEF vars, TypeOK
<1> QED BY <1>1, <1>2

\* In every reachable state each variable holds a value of the Go type it
\* stands for.
THEOREM TypeCorrect == Spec => []TypeOK
BY TypeInit, TypeStep, PTL DEF Spec

-----------------------------------------------------------------------------
(***************************************************************************)
(* Wake-ups and timers.                                                    *)
(***************************************************************************)

\* Telemetry does not make a queue urgent.
LEMMA TelemetryIsNotUrgent ==
  ASSUME TypeOK, NEW t \in Telemetry, NEW n \in Nat,
         HasUrgent(Append(pending, Telemetric(t, n)))
  PROVE  HasUrgent(pending)
<1>1. pending \in Seq(Message) BY DEF TypeOK
<1>2. PICK i \in 1..Len(Append(pending, Telemetric(t, n))) :
        IsUrgent(Append(pending, Telemetric(t, n))[i])
  BY DEF HasUrgent
<1>3. CASE i \in 1..Len(pending)
  <2>1. Append(pending, Telemetric(t, n))[i] = pending[i] BY <1>1, <1>3
  <2> QED BY <1>2, <1>3, <2>1 DEF HasUrgent
<1>4. CASE i = Len(pending) + 1
  <2>1. Append(pending, Telemetric(t, n))[i] = Telemetric(t, n) BY <1>1, <1>4
  <2>2. t # "operation-result" BY ExchangeAssumptions DEF ProtocolTypes
  <2> QED BY <1>2, <2>1, <2>2 DEF IsUrgent, Telemetric
<1> QED BY <1>1, <1>2, <1>3, <1>4

\* The timer Run sets is the base interval or a backoff delay above it, and
\* the base interval is the urgent one when the queue holds a result.
LEMMA TimerSet ==
  ASSUME TypeOK, Decide
  PROVE  /\ pc' = "wait" /\ UNCHANGED <<pending, delay, raising, wake>>
         /\ interval' >= delay
         /\ \/ interval' \in {UrgentInterval, NormalInterval}
            \/ delay > 0 /\ interval' \in CurrentDelays
         /\ delay = 0 => interval' \in {UrgentInterval, NormalInterval}
         /\ HasUrgent(pending) =>
              \/ interval' = UrgentInterval
              \/ delay > 0 /\ interval' \in CurrentDelays
<1> DEFINE base == BaseInterval
<1>1. PICK d \in CurrentDelays : interval' = IF d > base THEN d ELSE base
  BY DEF Decide
<1>2. delay \in Nat /\ base \in Nat
  BY ExchangeAssumptions DEF TypeOK, BaseInterval
<1>3. /\ d \in Nat /\ d >= delay
      /\ delay = 0 => d = 0
  BY <1>2 DEF CurrentDelays
<1>4. base \in {UrgentInterval, NormalInterval} BY DEF BaseInterval
<1>5. HasUrgent(pending) => base = UrgentInterval BY DEF BaseInterval
<1>6. pc' = "wait" /\ UNCHANGED <<pending, delay, raising, wake>>
  BY DEF Decide
<1> HIDE DEF base
<1>7. CASE d > base
  <2>1. delay > 0 BY <1>2, <1>3, <1>7
  <2> QED BY <1>1, <1>2, <1>3, <1>6, <1>7, <2>1
<1>8. CASE ~(d > base)
  <2>1. interval' = base /\ base >= delay BY <1>1, <1>2, <1>3, <1>8
  <2> QED BY <1>4, <1>5, <1>6, <2>1
<1> QED BY <1>7, <1>8

\* Run enters the select through Decide alone, and while it is there nothing
\* changes its timer or the backoff delay.
LEMMA OnlyDecideWaits ==
  ASSUME TypeOK, [Next]_vars, pc' = "wait", ~Decide
  PROVE  pc = "wait" /\ UNCHANGED <<interval, delay>>
<1>1. CASE RunStep
  BY <1>1 DEF RunStep, Load, Drain, Acknowledge, Dispatch, DispatchSetID,
     DispatchUnknownID, DispatchAcceptedTypes, DispatchResynchronize,
     DispatchCommand, DispatchLogged, Process, SaveState, BoundQueue, WriteSpool,
     AfterSpool
<1>2. CASE FaultStep
  BY <1>2 DEF FaultStep, LoadFails, MarshalFails, PostFails, ReplyUndecodable,
     SaveStateFails, Forget, Stop, Crash, ProcessEnds
<1>3. CASE Boot \/ TimerFires \/ Woken \/ FinalDrain \/ Exit
  BY <1>3 DEF Boot, TimerFires, Woken, FinalDrain, Exit, ProcessEnds
<1>4. CASE Send \/ SendUrgent \/ TriggerExchange \/ PingFindsMessages
  BY <1>4 DEF Send, SendUrgent, TriggerExchange, PingFindsMessages
<1>5. CASE ServeCurrent \/ ServeLate \/ Order
  BY <1>5 DEF ServeCurrent, ServeLate, Order
<1>6. CASE UNCHANGED vars BY <1>6 DEF vars
<1> QED BY <1>1, <1>2, <1>3, <1>4, <1>5, <1>6 DEF Next

\* While Run stays in the select, only SendUrgent, TriggerExchange, the ping
\* loop and Send touch the queue, the wake channel or the raising workers.
LEMMA WaitKeeps ==
  ASSUME TypeOK, [Next]_vars, pc = "wait", pc' = "wait",
         ~Send, ~SendUrgent, ~TriggerExchange, ~PingFindsMessages
  PROVE  UNCHANGED <<pending, raising, wake>>
<1>1. CASE RunStep
  BY <1>1 DEF RunStep, Load, Drain, Acknowledge, Dispatch, DispatchSetID,
     DispatchUnknownID, DispatchAcceptedTypes, DispatchResynchronize,
     DispatchCommand, DispatchLogged, Process, SaveState, BoundQueue,
     WriteSpool, AfterSpool, Decide
<1>2. CASE FaultStep
  BY <1>2 DEF FaultStep, LoadFails, MarshalFails, PostFails, ReplyUndecodable,
     SaveStateFails, Forget, Stop, Crash, ProcessEnds
<1>3. CASE Boot \/ TimerFires \/ Woken \/ FinalDrain \/ Exit
  BY <1>3 DEF Boot, TimerFires, Woken, FinalDrain, Exit, ProcessEnds
<1>4. CASE ServeCurrent \/ ServeLate \/ Order
  BY <1>4 DEF ServeCurrent, ServeLate, Order
<1>5. CASE UNCHANGED vars BY <1>5 DEF vars
<1> QED BY <1>1, <1>2, <1>3, <1>4, <1>5 DEF Next

\* A step cannot put Run to sleep over a result.
LEMMA NoResultSleepsStep ==
  ASSUME TypeOK, NoResultSleeps, [Next]_vars PROVE NoResultSleeps'
<1> SUFFICES ASSUME pc' = "wait", HasUrgent(pending)', raising' = {}, ~wake'
             PROVE  \/ interval' <= UrgentInterval
                    \/ delay' > 0 /\ interval' \in CurrentDelays'
  BY DEF NoResultSleeps
<1>1. CASE Decide
  <2>1. /\ UNCHANGED <<pending, delay>>
        /\ HasUrgent(pending) =>
             \/ interval' = UrgentInterval
             \/ delay > 0 /\ interval' \in CurrentDelays
    BY <1>1, TimerSet
  <2>2. HasUrgent(pending) /\ CurrentDelays' = CurrentDelays
    BY <2>1 DEF HasUrgent, CurrentDelays
  <2>3. UrgentInterval <= UrgentInterval BY ExchangeAssumptions
  <2> QED BY <2>1, <2>2, <2>3
<1>2. CASE ~Decide
  <2>1. pc = "wait" /\ UNCHANGED <<interval, delay>>
    BY <1>2, OnlyDecideWaits
  <2>2. CurrentDelays' = CurrentDelays BY <2>1 DEF CurrentDelays
  <2>3. ~SendUrgent BY DEF SendUrgent
  <2>4. ~TriggerExchange /\ ~PingFindsMessages
    BY DEF TriggerExchange, PingFindsMessages
  <2>5. HasUrgent(pending) /\ raising = {} /\ ~wake
    <3>1. CASE Send
      <4>1. PICK t \in Telemetry :
              pending' = Append(pending, Telemetric(t, sent + 1))
        BY <3>1 DEF Send
      <4>2. HasUrgent(Append(pending, Telemetric(t, sent + 1)))
        BY <4>1 DEF HasUrgent
      <4>3. sent + 1 \in Nat BY DEF TypeOK
      <4>4. HasUrgent(pending) BY <4>2, <4>3, TelemetryIsNotUrgent
      <4> QED BY <3>1, <4>4 DEF Send
    <3>2. CASE ~Send
      <4>1. UNCHANGED <<pending, raising, wake>>
        BY <2>1, <2>3, <2>4, <3>2, WaitKeeps
      <4> QED BY <4>1 DEF HasUrgent
    <3> QED BY <3>1, <3>2
  <2> QED BY <2>1, <2>2, <2>5 DEF NoResultSleeps
<1> QED BY <1>1, <1>2

\* No operation result waits in the queue behind a sleeping loop: hasUrgent and
\* the wake channel together leave no window between the check and the select.
THEOREM WakeUpsAreNotLost == Spec => []NoResultSleeps
<1>1. Init => NoResultSleeps BY DEF Init, NoResultSleeps
<1> QED BY <1>1, NoResultSleepsStep, TypeCorrect, PTL DEF Spec

\* A step cannot leave Run with a timer below the backoff delay.
LEMMA TimerHonoursBackoffStep ==
  ASSUME TypeOK, TimerHonoursBackoff, [Next]_vars PROVE TimerHonoursBackoff'
<1> SUFFICES ASSUME pc' = "wait"
             PROVE  /\ interval' >= delay'
                    /\ delay' = 0 => interval' \in {UrgentInterval, NormalInterval}
  BY DEF TimerHonoursBackoff
<1>1. CASE Decide BY <1>1, TimerSet
<1>2. CASE ~Decide BY <1>2, OnlyDecideWaits DEF TimerHonoursBackoff
<1> QED BY <1>1, <1>2

\* The timer Run sleeps on is never below the backoff delay, and is one of the
\* two configured intervals when there is none.
THEOREM TimerNeverBelowBackoff == Spec => []TimerHonoursBackoff
<1>1. Init => TimerHonoursBackoff BY DEF Init, TimerHonoursBackoff
<1> QED BY <1>1, TimerHonoursBackoffStep, TypeCorrect, PTL DEF Spec

-----------------------------------------------------------------------------
(***************************************************************************)
(* Positions: what the client has processed, what it asks for next, and    *)
(* what state.json says of both.                                           *)
(***************************************************************************)
cursorVars == <<mem, inbound, outbox, disk, log, dispatched>>

\* The numbers Positions compares.
LEMMA Counters ==
  ASSUME TypeOK
  PROVE  /\ mem.next \in Nat /\ mem.out \in Nat
         /\ disk.next \in Nat /\ disk.out \in Nat
         /\ inbound \in Seq(Inbound) /\ outbox \in Seq(Inbound)
         /\ log \in Seq(Message) /\ batch \in Seq(Message)
         /\ reply.msgs \in Seq(Inbound) /\ reply.ack \in Nat
         /\ Processed \in Int /\ ServerACK \in Nat
<1>1. /\ mem.next \in Nat /\ mem.out \in Nat
      /\ disk.next \in Nat /\ disk.out \in Nat
      /\ reply.msgs \in Seq(Inbound) /\ reply.ack \in Nat
  BY DEF TypeOK, State, Reply
<1>2. /\ inbound \in Seq(Inbound) /\ outbox \in Seq(Inbound)
      /\ log \in Seq(Message) /\ batch \in Seq(Message)
  BY DEF TypeOK
<1>3. Processed \in Int BY <1>1, <1>2 DEF Processed
<1>4. ServerACK \in Nat BY <1>1, <1>2 DEF ServerACK, SentUpTo
<1> QED BY <1>1, <1>2, <1>3, <1>4

\* How the cursors stand to each other, as numbers.
LEMMA CursorBounds ==
  ASSUME TypeOK, Positions
  PROVE  /\ mem.next \in Nat /\ mem.out \in Nat
         /\ disk.next \in Nat /\ disk.out \in Nat
         /\ Len(inbound) \in Nat /\ Len(outbox) \in Nat /\ Len(log) \in Nat
         /\ Processed \in Int /\ Processed = mem.next - Len(inbound)
         /\ 0 <= Processed /\ mem.next <= Len(outbox) /\ disk.next <= Processed
         /\ mem.out <= Len(log) /\ disk.out <= Len(log)
<1>1. /\ inbound \in Seq(Inbound) /\ outbox \in Seq(Inbound)
      /\ log \in Seq(Message)
  BY Counters
<1>2. Len(inbound) \in Nat /\ Len(outbox) \in Nat /\ Len(log) \in Nat
  BY ONLY <1>1
<1>3. Processed = mem.next - Len(inbound) BY DEF Processed
<1> QED BY <1>2, <1>3, Counters, Zenon DEF Positions

\* Steps that touch neither the cursors nor the answer.
LEMMA PositionsQuiet ==
  ASSUME Positions, UNCHANGED cursorVars, pc' # "dispatch" \/ UNCHANGED pc,
         pc # "dispatch" \/ inbound = <<>> \/ UNCHANGED pc,
         ~answered' \/ UNCHANGED <<pc, answered, reply, batch>>
  PROVE  Positions'
<1>1. pc' # "dispatch" => inbound' = <<>>
  BY DEF Positions, cursorVars
<1>2. Processed' = Processed BY DEF Processed, cursorVars
<1>3. answered' => ServerACK' = ServerACK
  BY DEF ServerACK, SentUpTo, cursorVars
<1>4. answered' =>
        /\ pc' = "post"
        /\ ServerACK' <= Len(log')
        /\ mem'.next + Len(reply'.msgs) <= Len(outbox')
        /\ \A j \in DOMAIN reply'.msgs :
             reply'.msgs[j] = outbox'[mem'.next + j]
  BY <1>3 DEF Positions, cursorVars
<1> QED BY <1>1, <1>2, <1>4 DEF Positions, cursorVars, Members

\* The server's log and outbox only grow.
LEMMA ServerGrows ==
  ASSUME TypeOK,
         Order \/ \E r \in Request : Serve(r)
  PROVE  /\ Len(log) <= Len(log') /\ Len(outbox) <= Len(outbox')
         /\ \A i \in 1..Len(outbox) : outbox'[i] = outbox[i]
<1>1. log \in Seq(Message) /\ outbox \in Seq(Inbound) BY DEF TypeOK
<1>2. outbox' = outbox \/ \E m \in Inbound : outbox' = Append(outbox, m)
  <2>1. CASE Order
    <3>1. /\ "command" \in InboundTypes /\ "resynchronize" \in InboundTypes
          /\ "unsubscribed" \in InboundTypes /\ Len(outbox) + 1 \in Nat
      BY <1>1 DEF InboundTypes, OrderKinds
    <3>2. /\ FromServer("command", Len(outbox) + 1) \in Inbound
          /\ FromServer("resynchronize", Len(outbox) + 1) \in Inbound
          /\ FromServer("unsubscribed", 0) \in Inbound
      BY <3>1, ServerMessages
    <3> QED BY <2>1, <3>2, ServerMessages DEF Order
  <2>2. ASSUME NEW r \in Request, Serve(r)
        PROVE  outbox' = outbox \/ \E m \in Inbound : outbox' = Append(outbox, m)
    <3>1. /\ "unknown-id" \in InboundTypes /\ "set-id" \in InboundTypes
          /\ "registration" \in InboundTypes /\ lastID + 1 \in Nat
      BY DEF InboundTypes, TypeOK
    <3>2. /\ FromServer("unknown-id", 0) \in Inbound
          /\ FromServer("registration", 0) \in Inbound
          /\ FromServer("set-id", lastID + 1) \in Inbound
      BY <3>1, ServerMessages
    <3> QED BY <2>2, <3>2 DEF Serve
  <2> QED BY <2>1, <2>2
<1>3. Len(log) <= Len(log')
  <2>1. CASE Order BY <1>1, <2>1 DEF Order
  <2>2. ASSUME NEW r \in Request, Serve(r) PROVE Len(log) <= Len(log')
    <3>1. \/ log' = log
          \/ \E n \in 0..Len(Fresh(r)) : log' = log \o SubSeq(Fresh(r), 1, n)
      BY <2>2 DEF Serve, Take
    <3>2. r.msgs \in Seq(Message) /\ r.seq \in Nat BY DEF Request
    <3>3. Fresh(r) \in Seq(Message) BY <1>1, <3>2, FreshType
    <3>4. \A n \in 0..Len(Fresh(r)) : SubSeq(Fresh(r), 1, n) \in Seq(Message)
      BY <3>3, Slice
    <3>5. \A q \in Seq(Message) : Len(log) <= Len(log \o q)
      BY <1>1
    <3> QED BY <1>1, <3>1, <3>4, <3>5
  <2> QED BY <2>1, <2>2
<1> QED BY <1>1, <1>2, <1>3

\* Steps that only extend the log and the outbox, and leave the answer alone.
LEMMA PositionsGrow ==
  ASSUME TypeOK, Positions,
         UNCHANGED <<pc, mem, inbound, disk, dispatched, batch>>,
         answered' = answered /\ reply' = reply,
         Len(log) <= Len(log') /\ Len(outbox) <= Len(outbox'),
         log' \in Seq(Message) /\ outbox' \in Seq(Inbound),
         \A i \in 1..Len(outbox) : outbox'[i] = outbox[i]
  PROVE  Positions'
<1>1. Processed' = Processed /\ ServerACK' = ServerACK
  BY DEF Processed, ServerACK, SentUpTo
<1>2. /\ Len(log) \in Nat /\ Len(log') \in Nat
      /\ Len(outbox) \in Nat /\ Len(outbox') \in Nat
      /\ Len(inbound) \in Nat /\ Len(reply.msgs) \in Nat
      /\ DOMAIN inbound = 1..Len(inbound)
      /\ DOMAIN reply.msgs = 1..Len(reply.msgs)
      /\ Processed = mem.next - Len(inbound)
  <2>1. /\ log' \in Seq(Message) /\ outbox' \in Seq(Inbound)
        /\ log \in Seq(Message) /\ outbox \in Seq(Inbound)
        /\ inbound \in Seq(Inbound) /\ reply.msgs \in Seq(Inbound)
    BY DEF TypeOK, Reply
  <2> QED BY ONLY <2>1 DEF Processed
<1>num. /\ mem.next \in Nat /\ mem.out \in Nat /\ disk.out \in Nat
        /\ Processed \in Int /\ Processed = mem.next - Len(inbound)
        /\ 0 <= Processed /\ mem.next <= Len(outbox) /\ disk.next <= Processed
        /\ mem.out <= Len(log) /\ disk.out <= Len(log)
  BY CursorBounds
<1>3. 0 <= Processed' /\ mem'.next <= Len(outbox') /\ disk'.next <= Processed'
  <2>1. mem.next <= Len(outbox') BY ONLY <1>num, <1>2, Len(outbox) <= Len(outbox')
  <2> QED BY <1>1, <1>num, <2>1
<1>4. \A j \in DOMAIN inbound' : inbound'[j] = outbox'[Processed' + j]
  <2>1. ASSUME NEW j \in 1..Len(inbound) PROVE Processed + j \in 1..Len(outbox)
    <3>1. PICK n \in Nat, p \in Int, i \in Nat, o \in Nat :
            /\ n = mem.next /\ p = Processed /\ i = Len(inbound)
            /\ o = Len(outbox) /\ p = n - i /\ 0 <= p /\ n <= o
      BY ONLY <1>2, <1>num, Zenon
    <3>2. j \in 1..i BY <3>1, Zenon
    <3>3. p + j \in 1..o BY ONLY <3>1, <3>2
    <3> QED BY ONLY <3>1, <3>3, Zenon
  <2> QED BY <1>1, <1>2, <2>1 DEF Positions
<1>5. \A i \in 1..Processed' :
        outbox'[i].type = "command" => outbox'[i].id \in Members(dispatched)'
  <2>1. \A i \in 1..Processed : i \in 1..Len(outbox) BY ONLY <1>2, <1>num
  <2> QED BY <1>1, <2>1 DEF Positions, Members
<1>6. mem'.out <= Len(log') /\ disk'.out <= Len(log')
  <2>1. mem.out <= Len(log') /\ disk.out <= Len(log')
    BY ONLY <1>2, <1>num, Len(log) <= Len(log')
  <2> QED BY <2>1
<1>7. ASSUME answered'
      PROVE  /\ pc' = "post"
             /\ ServerACK' <= Len(log')
             /\ mem'.next + Len(reply'.msgs) <= Len(outbox')
             /\ \A j \in DOMAIN reply'.msgs :
                  reply'.msgs[j] = outbox'[mem'.next + j]
  <2>1. /\ pc = "post" /\ ServerACK <= Len(log)
        /\ mem.next + Len(reply.msgs) <= Len(outbox)
        /\ \A j \in DOMAIN reply.msgs : reply.msgs[j] = outbox[mem.next + j]
    BY <1>7 DEF Positions
  <2>2. ASSUME NEW j \in 1..Len(reply.msgs)
        PROVE  mem.next + j \in 1..Len(outbox)
    <3>1. j \in Int /\ 1 <= j /\ j <= Len(reply.msgs) BY <1>2
    <3>2. /\ mem.next \in Nat /\ Len(reply.msgs) \in Nat /\ Len(outbox) \in Nat
          /\ mem.next + Len(reply.msgs) <= Len(outbox)
      BY <1>2, <2>1, Counters
    <3> QED BY ONLY <3>1, <3>2
  <2>3. ServerACK \in Nat /\ mem.next \in Nat BY Counters
  <2>4. ServerACK' <= Len(log') BY <1>1, <1>2, <2>1, <2>3
  <2>5. mem'.next + Len(reply'.msgs) <= Len(outbox')
    <3>1. mem.next + Len(reply.msgs) <= Len(outbox')
      BY ONLY <1>2, <2>1, <2>3, Len(outbox) <= Len(outbox')
    <3> QED BY <3>1
  <2>6. \A j \in DOMAIN reply'.msgs : reply'.msgs[j] = outbox'[mem'.next + j]
    BY <1>2, <2>1, <2>2
  <2> QED BY <2>1, <2>4, <2>5, <2>6
<1>8. pc' # "dispatch" => inbound' = <<>> BY DEF Positions
<1> QED BY <1>3, <1>4, <1>5, <1>6, <1>7, <1>8 DEF Positions

\* The answer continues at the position the request asked for.
LEMMA PositionsAnswer ==
  ASSUME TypeOK, TypeOK', Positions, ServeCurrent PROVE Positions'
<1> DEFINE Middle == /\ \A j \in DOMAIN inbound : inbound[j] = outbox'[Processed + j]
                     /\ \A i \in 1..Processed : outbox'[i] = outbox[i]
<1>1. /\ Len(log) <= Len(log') /\ Len(outbox) <= Len(outbox')
      /\ \A i \in 1..Len(outbox) : outbox'[i] = outbox[i]
  BY CurrentRequestType, ServerGrows DEF ServeCurrent
<1>2. /\ UNCHANGED <<pc, mem, inbound, disk, dispatched, batch>>
      /\ pc = "post" /\ answered'
  BY DEF ServeCurrent
<1>3. /\ log' \in Seq(Message) /\ outbox' \in Seq(Inbound) BY DEF TypeOK
<1>num. /\ Len(log) \in Nat /\ Len(outbox) \in Nat
        /\ mem.next \in Nat /\ mem.out \in Nat /\ disk.out \in Nat
        /\ Processed \in Int /\ Processed = mem.next - Len(inbound)
        /\ 0 <= Processed /\ mem.next <= Len(outbox) /\ disk.next <= Processed
        /\ mem.out <= Len(log) /\ disk.out <= Len(log)
  BY CursorBounds
<1>4. /\ Len(log) \in Nat /\ Len(log') \in Nat
      /\ Len(outbox) \in Nat /\ Len(outbox') \in Nat
  <2>1. Len(log') \in Nat /\ Len(outbox') \in Nat BY ONLY <1>3
  <2> QED BY <1>num, <2>1
<1>5. inbound = <<>> /\ Len(inbound) = 0 BY <1>2 DEF Positions
<1>6. Processed = mem.next /\ Processed' = mem.next /\ mem.next \in Nat
  BY <1>2, <1>5, Counters DEF Processed
<1>7. 0 <= Processed' /\ mem'.next <= Len(outbox') /\ disk'.next <= Processed'
  <2>1. mem.next <= Len(outbox') BY ONLY <1>1, <1>4, <1>num
  <2> QED BY <1>2, <1>6, <1>num, <2>1
<1>8. \A i \in 1..Processed' :
        outbox'[i].type = "command" => outbox'[i].id \in Members(dispatched)'
  <2>1. \A i \in 1..Processed : i \in 1..Len(outbox)
    BY <1>4, <1>6 DEF Positions
  <2> QED BY <1>1, <1>2, <1>6, <2>1 DEF Positions, Members
<1>9. mem'.out <= Len(log') /\ disk'.out <= Len(log')
  <2>1. mem.out <= Len(log') /\ disk.out <= Len(log')
    BY ONLY <1>1, <1>4, <1>num
  <2> QED BY <1>2, <2>1
<1>10. PICK acks \in BOOLEAN :
         /\ acks \/ Len(log') = mem.out + Len(batch)
         /\ reply' = [acks |-> acks, ack |-> Len(log'),
                      msgs |-> SubSeq(outbox', mem.next + 1, Len(outbox'))]
  BY DEF ServeCurrent
<1>11. ServerACK' <= Len(log')
  BY <1>2, <1>4, <1>10 DEF ServerACK, SentUpTo
<1>12. /\ Len(reply'.msgs) = Len(outbox') - mem.next
       /\ \A j \in 1..Len(reply'.msgs) : reply'.msgs[j] = outbox'[mem.next + j]
  <2>1. mem.next <= Len(outbox') /\ mem.next + 1 \in Nat \ {0}
    BY <1>2, <1>6, <1>7
  <2>2. reply'.msgs = SubSeq(outbox', mem.next + 1, Len(outbox')) BY <1>10
  <2>3. Len(reply'.msgs) = IF mem.next + 1 <= Len(outbox')
                             THEN Len(outbox') - (mem.next + 1) + 1 ELSE 0
    BY <1>3, <1>4, <2>1, <2>2, Slice
  <2>4. Len(reply'.msgs) = Len(outbox') - mem.next
    BY ONLY <1>4, <1>6, <2>1, <2>3
  <2>5. \A j \in 1..Len(reply'.msgs) :
          reply'.msgs[j] = outbox'[mem.next + 1 + j - 1]
    <3>1. PICK a \in Nat \ {0}, c \in Nat, o \in Seq(Inbound) :
            a = mem.next + 1 /\ c = Len(outbox') /\ o = outbox'
      BY <1>3, <1>4, <2>1, Zenon
    <3>2. c \in Int /\ c <= Len(o)
      <4>1. c \in Int /\ c <= c OBVIOUS
      <4> QED BY ONLY <3>1, <4>1, Zenon
    <3>3. \A j \in 1..Len(SubSeq(o, a, c)) : SubSeq(o, a, c)[j] = o[a + j - 1]
      BY ONLY <3>2, Slice
    <3>4. reply'.msgs = SubSeq(o, a, c) BY ONLY <2>2, <3>1, Zenon
    <3> QED BY ONLY <3>1, <3>3, <3>4, Zenon
  <2>6. \A j \in 1..Len(reply'.msgs) : mem.next + 1 + j - 1 = mem.next + j
    BY ONLY <1>4, <1>6, <2>4
  <2> QED BY <2>4, <2>5, <2>6
<1>13. /\ mem'.next + Len(reply'.msgs) <= Len(outbox')
       /\ \A j \in DOMAIN reply'.msgs : reply'.msgs[j] = outbox'[mem'.next + j]
  <2>1. reply'.msgs \in Seq(Inbound) BY DEF TypeOK, Reply
  <2>2. DOMAIN reply'.msgs = 1..Len(reply'.msgs) BY <2>1
  <2>3. mem.next + Len(reply'.msgs) <= Len(outbox')
    BY ONLY <1>4, <1>6, <1>12
  <2> QED BY <1>2, <1>12, <2>2, <2>3, Zenon
<1>14. /\ pc' # "dispatch" => inbound' = <<>>
       /\ \A j \in DOMAIN inbound' : inbound'[j] = outbox'[Processed' + j]
  BY <1>2, <1>5
<1> QED BY <1>2, <1>7, <1>8, <1>9, <1>11, <1>13, <1>14 DEF Positions

\* Acknowledge moves the answer's messages to the part still to be processed.
LEMMA PositionsAcknowledge ==
  ASSUME TypeOK, Positions, Acknowledge PROVE Positions'
<1>1. /\ pc = "post" /\ answered /\ pc' = "dispatch" /\ answered' = FALSE
      /\ inbound' = reply.msgs
      /\ UNCHANGED <<disk, log, outbox, dispatched>>
  BY DEF Acknowledge, CallEnds
<1>2. mem'.out = ServerACK /\ mem'.next = mem.next + Len(reply.msgs)
  BY DEF Acknowledge, Received, TypeOK, State
<1>3. /\ ServerACK <= Len(log) /\ mem.next + Len(reply.msgs) <= Len(outbox)
      /\ \A j \in DOMAIN reply.msgs : reply.msgs[j] = outbox[mem.next + j]
  BY <1>1 DEF Positions
<1>4. inbound = <<>> /\ Len(inbound) = 0 BY <1>1 DEF Positions
<1>5. Len(reply.msgs) \in Nat /\ mem.next \in Nat BY Counters
<1>6. Processed = mem.next /\ Processed' = mem.next
  BY <1>1, <1>2, <1>4, <1>5 DEF Processed
<1>7. 0 <= Processed' /\ mem'.next <= Len(outbox') /\ disk'.next <= Processed'
  BY <1>1, <1>2, <1>3, <1>5, <1>6 DEF Positions
<1>8. \A j \in DOMAIN inbound' : inbound'[j] = outbox'[Processed' + j]
  BY <1>1, <1>3, <1>6
<1>9. \A i \in 1..Processed' :
        outbox'[i].type = "command" => outbox'[i].id \in Members(dispatched)'
  BY <1>1, <1>6 DEF Positions, Members
<1>10. mem'.out <= Len(log') /\ disk'.out <= Len(log')
  BY <1>1, <1>2, <1>3 DEF Positions
<1> QED BY <1>1, <1>7, <1>8, <1>9, <1>10 DEF Positions

\* What a step that processes one message does to the cursors.
LEMMA DispatchEffect ==
  ASSUME TypeOK, Dispatch
  PROVE  /\ pc = "dispatch" /\ inbound # <<>> /\ inbound' = Tail(inbound)
         /\ UNCHANGED <<pc, batch, disk, log, outbox, answered, reply>>
         /\ mem'.next = mem.next /\ mem'.out = mem.out
         /\ \/ Head(inbound).type # "command" /\ dispatched' = dispatched
            \/ dispatched' = Append(dispatched, Head(inbound).id)
<1>1. CASE DispatchSetID
  BY <1>1 DEF DispatchSetID, Process, TypeOK, State
<1>2. CASE DispatchUnknownID
  BY <1>2 DEF DispatchUnknownID, Process, TypeOK, State
<1>3. CASE DispatchAcceptedTypes
  BY <1>3 DEF DispatchAcceptedTypes, Process, TypeOK, State
<1>4. CASE DispatchResynchronize
  BY <1>4 DEF DispatchResynchronize, Process
<1>5. CASE DispatchCommand BY <1>5 DEF DispatchCommand, Process
<1>6. CASE DispatchLogged BY <1>6 DEF DispatchLogged, Process
<1> QED BY <1>1, <1>2, <1>3, <1>4, <1>5, <1>6 DEF Dispatch

\* What has been dispatched stays dispatched.
LEMMA DispatchedGrows ==
  ASSUME dispatched \in Seq(Nat), NEW n \in Nat, dispatched' = Append(dispatched, n)
  PROVE  Members(dispatched) \subseteq Members(dispatched)'
         /\ n \in Members(dispatched)'
<1>1. /\ DOMAIN dispatched = 1..Len(dispatched)
      /\ DOMAIN dispatched' = 1..Len(dispatched) + 1
      /\ Len(dispatched) \in Nat
      /\ dispatched'[Len(dispatched) + 1] = n
      /\ \A i \in 1..Len(dispatched) : dispatched'[i] = dispatched[i]
  OBVIOUS
<1>2. /\ \A i \in DOMAIN dispatched : i \in DOMAIN dispatched'
      /\ Len(dispatched) + 1 \in DOMAIN dispatched'
  BY <1>1
<1> QED BY <1>1, <1>2 DEF Members

\* A message is processed once, at its position.
LEMMA PositionsDispatch ==
  ASSUME TypeOK, Positions, Dispatch PROVE Positions'
<1>1. /\ pc = "dispatch" /\ inbound # <<>> /\ inbound' = Tail(inbound)
      /\ UNCHANGED <<pc, batch, disk, log, outbox, answered, reply>>
      /\ mem'.next = mem.next /\ mem'.out = mem.out
      /\ \/ Head(inbound).type # "command" /\ dispatched' = dispatched
         \/ dispatched' = Append(dispatched, Head(inbound).id)
  BY DispatchEffect
<1>2. /\ inbound \in Seq(Inbound) /\ outbox \in Seq(Inbound)
      /\ mem.next \in Nat /\ Processed \in Int
      /\ disk.next \in Nat /\ Len(outbox) \in Nat
  BY Counters
<1>3. /\ Len(inbound) \in Nat \ {0} /\ Len(Tail(inbound)) = Len(inbound) - 1
      /\ Head(inbound) = inbound[1]
      /\ DOMAIN inbound = 1..Len(inbound)
      /\ DOMAIN Tail(inbound) = 1..Len(inbound) - 1
      /\ \A j \in 1..Len(inbound) - 1 : Tail(inbound)[j] = inbound[j + 1]
  BY <1>1, <1>2
<1>4. /\ Processed = mem.next - Len(inbound)
      /\ Processed' = Processed + 1
  BY <1>1, <1>2, <1>3 DEF Processed
<1>5. 0 <= Processed' /\ mem'.next <= Len(outbox') /\ disk'.next <= Processed'
  <2>1. /\ Processed \in Int /\ 0 <= Processed /\ mem.next <= Len(outbox)
        /\ disk.next <= Processed /\ disk.next \in Nat
    BY CursorBounds
  <2>2. 0 <= Processed + 1 /\ disk.next <= Processed + 1 BY ONLY <2>1
  <2> QED BY <1>1, <1>4, <2>1, <2>2
<1>6. \A j \in DOMAIN inbound' : inbound'[j] = outbox'[Processed' + j]
  <2>1. \A j \in 1..Len(inbound) - 1 :
          j + 1 \in 1..Len(inbound) /\ Processed + 1 + j = Processed + (j + 1)
    BY <1>2, <1>3
  <2>2. \A j \in 1..Len(inbound) : inbound[j] = outbox[Processed + j]
    BY <1>3 DEF Positions
  <2> QED BY <1>1, <1>3, <1>4, <2>1, <2>2
<1>7. Head(inbound) = outbox[Processed + 1]
  <2>1. 1 \in 1..Len(inbound) BY <1>3
  <2> QED BY <1>3, <2>1 DEF Positions
<1>8. \A i \in 1..Processed' :
        outbox'[i].type = "command" => outbox'[i].id \in Members(dispatched)'
  <2>1. dispatched \in Seq(Nat) /\ Head(inbound).id \in Nat
    <3>1. Head(inbound) \in Inbound BY <1>2, <1>3
    <3> QED BY <3>1 DEF TypeOK, Inbound
  <2>2. \A i \in 1..Processed' : i \in 1..Processed \/ i = Processed + 1
    BY <1>2, <1>4
  <2>3. \A i \in 1..Processed :
          outbox[i].type = "command" => outbox[i].id \in Members(dispatched)
    BY DEF Positions
  <2>4. CASE Head(inbound).type # "command" /\ dispatched' = dispatched
    <3>1. Members(dispatched)' = Members(dispatched) BY <2>4 DEF Members
    <3> QED BY <1>1, <1>7, <2>2, <2>3, <2>4, <3>1
  <2>5. CASE dispatched' = Append(dispatched, Head(inbound).id)
    <3>1. /\ Members(dispatched) \subseteq Members(dispatched)'
          /\ Head(inbound).id \in Members(dispatched)'
      BY <2>1, <2>5, DispatchedGrows
    <3> QED BY <1>1, <1>7, <2>2, <2>3, <3>1
  <2> QED BY <1>1, <2>4, <2>5
<1>9. mem'.out <= Len(log') /\ disk'.out <= Len(log') BY <1>1 DEF Positions
<1>10. ~answered' BY <1>1 DEF Positions
<1>11. pc' = "dispatch" BY <1>1
<1> QED BY <1>5, <1>6, <1>8, <1>9, <1>10, <1>11 DEF Positions

\* state.json takes the state once the whole reply is processed, and a process
\* that starts takes it back.
LEMMA PositionsFiles ==
  ASSUME TypeOK, Positions, SaveState \/ Load \/ Crash \/ Exit PROVE Positions'
<1>1. CASE SaveState
  <2>1. /\ pc = "dispatch" /\ inbound = <<>> /\ disk' = mem /\ pc' = "bound"
        /\ UNCHANGED <<mem, inbound, log, outbox, dispatched, answered>>
    BY <1>1 DEF SaveState, Persisted
  <2>2. Len(inbound) = 0 /\ mem.next \in Nat BY <2>1, Counters
  <2>3. Processed = mem.next /\ Processed' = mem.next
    BY <2>1, <2>2 DEF Processed
  <2>4. ~answered' BY <2>1 DEF Positions
  <2>5. /\ mem'.next <= Len(outbox') /\ 0 <= Processed' /\ disk'.next <= Processed'
        /\ mem'.out <= Len(log') /\ disk'.out <= Len(log')
    BY <2>1, <2>2, <2>3 DEF Positions
  <2>6. \A i \in 1..Processed' :
          outbox'[i].type = "command" => outbox'[i].id \in Members(dispatched)'
    BY <2>1, <2>3 DEF Positions, Members
  <2> QED BY <2>1, <2>4, <2>5, <2>6 DEF Positions
<1>2. CASE Load \/ Crash \/ Exit
  <2>1. /\ pc' # "dispatch" /\ mem' = disk /\ disk' = disk /\ inbound' = <<>>
        /\ UNCHANGED <<log, outbox, dispatched>> /\ ~answered'
    BY <1>2 DEF Load, Crash, Exit, ProcessEnds, CallEnds, Positions
  <2>2. /\ disk.next \in Nat /\ mem.next \in Nat /\ Processed \in Int
        /\ Len(outbox) \in Nat /\ Len(inbound) \in Nat
        /\ Processed = mem.next - Len(inbound)
    BY CursorBounds
  <2>3. Processed' = disk.next BY <2>1, <2>2 DEF Processed
  <2>4. disk.next <= Processed /\ Processed <= mem.next /\ mem.next <= Len(outbox)
    BY <2>2 DEF Positions
  <2>5. /\ mem'.next <= Len(outbox') /\ 0 <= Processed' /\ disk'.next <= Processed'
        /\ mem'.out <= Len(log') /\ disk'.out <= Len(log')
    BY <2>1, <2>2, <2>3, <2>4 DEF Positions
  <2>6. \A i \in 1..Processed' :
          outbox'[i].type = "command" => outbox'[i].id \in Members(dispatched)'
    <3>1. \A i \in 1..disk.next : i \in 1..Processed BY <2>2, <2>4
    <3> QED BY <2>1, <2>3, <3>1 DEF Positions, Members
  <2> QED BY <2>1, <2>5, <2>6 DEF Positions
<1> QED BY <1>1, <1>2

\* The other steps of the loop and of the workers.
LEMMA PositionsOthers ==
  ASSUME Positions,
         \/ Boot \/ LoadFails \/ Drain \/ MarshalFails \/ PostFails
         \/ ReplyUndecodable \/ SaveStateFails \/ BoundQueue \/ WriteSpool
         \/ Decide \/ TimerFires \/ Woken \/ FinalDrain \/ Send \/ SendUrgent
         \/ TriggerExchange \/ PingFindsMessages \/ Stop \/ Forget
  PROVE  Positions'
<1>1. (answered => pc = "post") /\ (pc # "dispatch" => inbound = <<>>)
  BY DEF Positions
<1>2. ASSUME UNCHANGED cursorVars, pc' # "dispatch", ~answered',
             pc # "dispatch" \/ inbound = <<>>
      PROVE  Positions'
  BY <1>2, PositionsQuiet
<1>3. CASE Boot BY <1>1, <1>2, <1>3 DEF Boot, cursorVars
<1>4. CASE LoadFails BY <1>1, <1>2, <1>4 DEF LoadFails, cursorVars
<1>5. CASE Drain BY <1>1, <1>2, <1>5 DEF Drain, cursorVars
<1>6. CASE MarshalFails BY <1>1, <1>2, <1>6 DEF MarshalFails, cursorVars
<1>7. CASE PostFails BY <1>1, <1>2, <1>7 DEF PostFails, CallEnds, cursorVars
<1>8. CASE ReplyUndecodable BY <1>1, <1>2, <1>8 DEF ReplyUndecodable, CallEnds, cursorVars
<1>9. CASE SaveStateFails BY <1>1, <1>2, <1>9 DEF SaveStateFails, cursorVars
<1>10. CASE BoundQueue BY <1>1, <1>2, <1>10 DEF BoundQueue, cursorVars
<1>11. CASE WriteSpool BY <1>1, <1>2, <1>11 DEF WriteSpool, AfterSpool, cursorVars
<1>12. CASE Decide BY <1>1, <1>2, <1>12 DEF Decide, cursorVars
<1>13. CASE TimerFires BY <1>1, <1>2, <1>13 DEF TimerFires, cursorVars
<1>14. CASE Woken BY <1>1, <1>2, <1>14 DEF Woken, cursorVars
<1>15. CASE FinalDrain BY <1>1, <1>2, <1>15 DEF FinalDrain, cursorVars
<1>16. CASE Send BY <1>16, PositionsQuiet DEF Send, cursorVars
<1>17. CASE SendUrgent BY <1>17, PositionsQuiet DEF SendUrgent, cursorVars
<1>18. CASE TriggerExchange BY <1>18, PositionsQuiet DEF TriggerExchange, cursorVars
<1>19. CASE PingFindsMessages BY <1>19, PositionsQuiet DEF PingFindsMessages, cursorVars
<1>20. CASE Stop BY <1>20, PositionsQuiet DEF Stop, cursorVars
<1>21. CASE Forget BY <1>21, PositionsQuiet DEF Forget, cursorVars
<1> QED BY <1>3, <1>4, <1>5, <1>6, <1>7, <1>8, <1>9, <1>10, <1>11, <1>12,
         <1>13, <1>14, <1>15, <1>16, <1>17, <1>18, <1>19, <1>20, <1>21

\* The server's own steps.
LEMMA PositionsServer ==
  ASSUME TypeOK, TypeOK', Positions, ServeLate \/ Order PROVE Positions'
<1>1. log' \in Seq(Message) /\ outbox' \in Seq(Inbound) BY DEF TypeOK
<1>2. Order \/ \E r \in Request : Serve(r)
  BY DEF ServeLate, TypeOK
<1>3. /\ UNCHANGED <<pc, mem, inbound, disk, dispatched, batch>>
      /\ answered' = answered /\ reply' = reply
  BY DEF ServeLate, Order
<1>4. /\ Len(log) <= Len(log') /\ Len(outbox) <= Len(outbox')
      /\ \A i \in 1..Len(outbox) : outbox'[i] = outbox[i]
  BY <1>2, ServerGrows
<1> QED BY <1>1, <1>3, <1>4, PositionsGrow

\* Before the first exchange nothing has been sent or processed.
LEMMA PositionsInit == Init => Positions
<1> SUFFICES ASSUME Init PROVE Positions OBVIOUS
<1>1. /\ inbound = <<>> /\ outbox = <<>> /\ log = <<>> /\ answered = FALSE
      /\ mem.next = 0 /\ disk.next = 0 /\ mem.out = 0 /\ disk.out = 0
  BY DEF Init, FreshState
<1>2. Len(inbound) = 0 BY <1>1
<1>3. Processed = 0
  <2>1. \A a, b \in Nat : a = b => a - b = 0 OBVIOUS
  <2>2. mem.next \in Nat /\ Len(inbound) \in Nat /\ mem.next = Len(inbound)
    BY <1>1, <1>2
  <2> QED BY <2>1, <2>2 DEF Processed
<1>4. Len(outbox) = 0 /\ Len(log) = 0 BY <1>1
<1> QED BY <1>1, <1>3, <1>4 DEF Positions

\* Positions is inductive with TypeOK.
LEMMA PositionsStep ==
  ASSUME TypeOK, TypeOK', Positions, [Next]_vars PROVE Positions'
<1>1. CASE RunStep
  BY <1>1, PositionsOthers, PositionsFiles, PositionsAcknowledge,
     PositionsDispatch DEF RunStep
<1>2. CASE FaultStep
  BY <1>2, PositionsOthers, PositionsFiles DEF FaultStep
<1>3. CASE ServeCurrent \/ ServeLate \/ Order
  BY <1>3, PositionsAnswer, PositionsServer
<1>4. CASE \/ Boot \/ TimerFires \/ Woken \/ FinalDrain \/ Send \/ SendUrgent
           \/ TriggerExchange \/ PingFindsMessages
  BY <1>4, PositionsOthers
<1>5. CASE Exit BY <1>5, PositionsFiles
<1>6. CASE UNCHANGED vars
  BY <1>6, PositionsQuiet DEF vars, cursorVars
<1> QED BY <1>1, <1>2, <1>3, <1>4, <1>5, <1>6 DEF Next

\* The reply under way is processed from the position state.json or memory
\* gives, without a gap and without a repetition within one process.
THEOREM PositionsAgree == Spec => []Positions
BY PositionsInit, PositionsStep, TypeCorrect, PTL DEF Spec

\* A crash at any point, even between the exchange and the write of state.json,
\* never makes the client skip a command it has not given to its handler.
THEOREM CommandsAreNotSkipped == Spec => []NoCommandSkipped
<1>1. TypeOK /\ Positions => NoCommandSkipped
  <2> SUFFICES ASSUME TypeOK, Positions PROVE NoCommandSkipped OBVIOUS
  <2>1. disk.next <= Processed BY DEF Positions
  <2>2. \A i \in 1..disk.next : i \in 1..Processed BY <2>1, Counters
  <2> QED BY <2>2 DEF Positions, NoCommandSkipped
<1> QED BY <1>1, TypeCorrect, PositionsAgree, PTL

\* The client counts as acknowledged only what the server has, in memory and in
\* state.json, and never asks the server to skip one of its messages.
THEOREM NothingIsInvented == Spec => []NothingInvented
<1>1. TypeOK /\ Positions => NothingInvented
  <2> SUFFICES ASSUME TypeOK, Positions PROVE NothingInvented OBVIOUS
  <2>1. /\ disk.next \in Nat /\ Len(inbound) \in Nat /\ mem.next \in Nat
        /\ Processed = mem.next - Len(inbound) /\ disk.next <= Processed
    BY CursorBounds
  <2>2. disk.next <= mem.next BY ONLY <2>1
  <2> QED BY <2>2 DEF Positions, NothingInvented
<1> QED BY <1>1, TypeCorrect, PositionsAgree, PTL

-----------------------------------------------------------------------------
(***************************************************************************)
(* The spool.                                                              *)
(***************************************************************************)

\* A queue within the bound, or one that only operation results fill.
WithinBound(q) == Len(q) > MaxQueued => \A i \in DOMAIN q : IsUrgent(q[i])

\* What persistQueue copied is within the bound, and so is what it wrote.
CopyBounded == WithinBound(copied) /\ WithinBound(spool)

\* Only BoundQueue fills the copy, and only WriteSpool writes it.
LEMMA CopyBoundedStep ==
  ASSUME TypeOK, CopyBounded, [Next]_vars PROVE CopyBounded'
<1>1. WithinBound(<<>>)
  <2>1. Len(<<>>) = 0 /\ DOMAIN <<>> = {} OBVIOUS
  <2> QED BY <2>1 DEF WithinBound
<1>2. CASE BoundQueue
  <2>1. pending \in Seq(Message) BY DEF TypeOK
  <2>2. WithinBound(EnforceQueueBound(pending))
    BY <2>1, BoundIsMet DEF WithinBound
  <2>3. copied' = EnforceQueueBound(pending) /\ spool' = spool
    BY <1>2 DEF BoundQueue, Snapshot
  <2> QED BY <2>2, <2>3 DEF CopyBounded, WithinBound
<1>3. CASE WriteSpool
  <2>1. copied' = <<>> /\ spool' \in {copied, spool}
    BY <1>3 DEF WriteSpool, Saved
  <2> QED BY <1>1, <2>1 DEF CopyBounded, WithinBound
<1>4. ASSUME copied' \in {copied, <<>>}, spool' = spool PROVE CopyBounded'
  BY <1>1, <1>4 DEF CopyBounded, WithinBound
<1>5. CASE RunStep /\ ~BoundQueue /\ ~WriteSpool
  BY <1>4, <1>5 DEF RunStep, Load, Drain, Acknowledge, Dispatch,
     DispatchSetID, DispatchUnknownID, DispatchAcceptedTypes,
     DispatchResynchronize, DispatchCommand, DispatchLogged, Process,
     SaveState, Decide
<1>6. CASE FaultStep
  BY <1>4, <1>6 DEF FaultStep, LoadFails, MarshalFails, PostFails,
     ReplyUndecodable, SaveStateFails, Forget, Stop, Crash, ProcessEnds
<1>7. CASE Boot \/ TimerFires \/ Woken \/ FinalDrain \/ Exit
  BY <1>4, <1>7 DEF Boot, TimerFires, Woken, FinalDrain, Exit, ProcessEnds
<1>8. CASE Send \/ SendUrgent \/ TriggerExchange \/ PingFindsMessages
  BY <1>4, <1>8 DEF Send, SendUrgent, TriggerExchange, PingFindsMessages
<1>9. CASE ServeCurrent \/ ServeLate \/ Order
  BY <1>4, <1>9 DEF ServeCurrent, ServeLate, Order
<1>10. CASE UNCHANGED vars BY <1>4, <1>10 DEF vars
<1> QED BY <1>2, <1>3, <1>5, <1>6, <1>7, <1>8, <1>9, <1>10 DEF Next

\* The file never holds more messages than the bound, but when operation
\* results alone exceed it.
THEOREM SpoolIsBounded == Spec => []SpoolBounded
<1>1. Init => CopyBounded
  <2> SUFFICES ASSUME Init PROVE CopyBounded OBVIOUS
  <2>1. copied = <<>> /\ spool = <<>> BY DEF Init
  <2>2. DOMAIN copied = {} /\ DOMAIN spool = {} BY <2>1
  <2> QED BY <2>2 DEF CopyBounded, WithinBound
<1>2. CopyBounded => SpoolBounded BY DEF CopyBounded, WithinBound, SpoolBounded
<1> QED BY <1>1, <1>2, CopyBoundedStep, TypeCorrect, PTL DEF Spec

\* The declarative bound is the loop of enforceQueueBound, and drops what it promises
\* to: on the queue of every reachable state, and on all the short ones.
THEOREM BoundIsFaithful == Spec => []BoundIsTheLoop
<1>1. ShortQueuesBounded
  <2> SUFFICES ASSUME NEW q \in ShortQueues PROVE IsTheLoop(q) /\ DropsTheOldest(q)
    BY DEF ShortQueuesBounded
  <2>1. PICK n \in 0..6 :
          \E ts \in [1..n -> MCTypes] : q = [i \in 1..n |-> [type |-> ts[i], id |-> i]]
    BY DEF ShortQueues
  <2>2. PICK S : S = {q[i] : i \in 1..n} OBVIOUS
  <2>3. q \in Seq(S) BY <2>1, <2>2
  <2> QED BY ONLY <2>3, BoundIsLoop, BoundDropsTheOldest
<1>2. TypeOK => BoundIsTheLoop
  <2> SUFFICES ASSUME TypeOK PROVE BoundIsTheLoop OBVIOUS
  <2>1. pending \in Seq(Message) BY DEF TypeOK
  <2>2. IsTheLoop(pending) /\ DropsTheOldest(pending)
    BY ONLY <2>1, BoundIsLoop, BoundDropsTheOldest
  <2> QED BY <1>1, <2>2 DEF BoundIsTheLoop
<1> QED BY <1>2, TypeCorrect, PTL
=============================================================================
