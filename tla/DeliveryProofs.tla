--------------------------- MODULE DeliveryProofs ---------------------------
(***************************************************************************)
(* What the exchange loop keeps and delivers: for every queue, batch size  *)
(* and number of failures, of the kinds each theorem admits.               *)
(***************************************************************************)
EXTENDS ExchangeProofs

USE DEF loopVars, sharedVars, localVars, fileVars, workerVars, serverVars,
        callVars, historyVars

-----------------------------------------------------------------------------
(***************************************************************************)
(* The shutdown: the spool is the queue as the final drain left it.        *)
(***************************************************************************)

\* A queue that starts with another.
StartsWith(q, s) == Len(s) <= Len(q) /\ SubSeq(q, 1, Len(s)) = s

\* What a goroutine queues does not change how the queue starts.
LEMMA StartKept ==
  ASSUME NEW q \in Seq(Message), NEW s \in Seq(Message), NEW m \in Message,
         StartsWith(q, s)
  PROVE  StartsWith(Append(q, m), s)
<1>1. Len(s) \in Nat /\ Len(s) <= Len(q) /\ Len(q) \in Nat BY DEF StartsWith
<1>2. /\ Append(q, m) \in Seq(Message) /\ Len(Append(q, m)) = Len(q) + 1
      /\ \A i \in 1..Len(q) : Append(q, m)[i] = q[i]
  OBVIOUS
<1>3. /\ SubSeq(Append(q, m), 1, Len(s)) \in Seq(Message)
      /\ Len(SubSeq(Append(q, m), 1, Len(s))) = Len(s)
      /\ \A i \in 1..Len(s) : SubSeq(Append(q, m), 1, Len(s))[i] = Append(q, m)[i]
  <2>1. 1 \in Nat \ {0} /\ Len(s) \in Int /\ Len(s) <= Len(Append(q, m))
    BY <1>1, <1>2
  <2> HIDE DEF StartsWith
  <2> QED BY <1>1, <1>2, <2>1, Slice
<1>4. \A i \in 1..Len(s) : s[i] = q[i]
  <2>1. /\ Len(SubSeq(q, 1, Len(s))) = Len(s)
        /\ \A i \in 1..Len(s) : SubSeq(q, 1, Len(s))[i] = q[i]
    <3>1. 1 \in Nat \ {0} /\ Len(s) \in Int /\ Len(s) <= Len(q) BY <1>1
    <3> QED BY <1>1, <3>1, Slice
  <2> QED BY <2>1 DEF StartsWith
<1>5. \A i \in 1..Len(s) : SubSeq(Append(q, m), 1, Len(s))[i] = s[i]
  BY <1>1, <1>2, <1>3, <1>4
<1>6. SubSeq(Append(q, m), 1, Len(s)) = s
  <2> DEFINE front == SubSeq(Append(q, m), 1, Len(s))
  <2>1. /\ front \in Seq(Message) /\ Len(front) = Len(s)
        /\ \A i \in 1..Len(s) : front[i] = s[i]
    BY <1>3, <1>5
  <2> HIDE DEF front
  <2>2. front = s BY <2>1
  <2> QED BY <2>2 DEF front
<1> QED BY <1>1, <1>2, <1>6 DEF StartsWith

\* A queue starts with itself.
LEMMA StartItself ==
  ASSUME NEW q \in Seq(Message) PROVE StartsWith(q, q)
<1>1. SubSeq(q, 1, Len(q)) = q
  <2>1. 1 \in Nat \ {0} /\ Len(q) \in Int /\ Len(q) <= Len(q) OBVIOUS
  <2>2. /\ SubSeq(q, 1, Len(q)) \in Seq(Message)
        /\ Len(SubSeq(q, 1, Len(q))) = Len(q)
        /\ \A i \in 1..Len(q) : SubSeq(q, 1, Len(q))[i] = q[i]
    BY <2>1, Slice
  <2> QED BY <2>2
<1> QED BY <1>1 DEF StartsWith

\* Between BoundQueue and WriteSpool the copy is how the queue starts, and after
\* WriteSpool the file is; a batch is under way in the POST only.
Spooled ==
  /\ pc = "spool" => StartsWith(pending, copied)
  /\ pc = "returned" => StartsWith(pending, spool)
  /\ pc # "post" => batch = <<>>

\* Files that can be written and read: an instance without these failures.
FilesWork == "loadState" \notin Faults /\ "saveSpool" \notin Faults

LEMMA SpooledStep ==
  ASSUME FilesWork, TypeOK, TypeOK', Spooled, [Next]_vars
  PROVE  Spooled'
<1>1. CASE \/ Send \/ SendUrgent
  <2>1. \E m \in Message : pending' = Append(pending, m)
    <3>1. CASE Send
      <4>1. PICK t \in Telemetry : pending' = Append(pending, Telemetric(t, sent + 1))
        BY <3>1 DEF Send
      <4>2. Telemetric(t, sent + 1) \in Message
        <5>1. sent + 1 \in Nat BY DEF TypeOK
        <5> QED BY <5>1, ClientMessages
      <4> QED BY <4>1, <4>2
    <3>2. CASE SendUrgent
      <4>1. PICK c \in running : pending' = Append(pending, Result(c))
        BY <3>2 DEF SendUrgent
      <4>2. Result(c) \in Message
        <5>1. c \in Nat BY DEF TypeOK
        <5> QED BY <5>1, ClientMessages
      <4> QED BY <4>1, <4>2
    <3> QED BY <1>1, <3>1, <3>2
  <2>2. UNCHANGED <<pc, copied, spool, batch>> BY <1>1 DEF Send, SendUrgent
  <2>3. pending \in Seq(Message) /\ copied \in Seq(Message) /\ spool \in Seq(Message)
    BY DEF TypeOK
  <2> QED BY <2>1, <2>2, <2>3, StartKept DEF Spooled
<1>2. CASE BoundQueue
  <2>1. pending' = copied' /\ pending' \in Seq(Message) /\ pc' = "spool" /\ batch' = batch
        /\ pc # "post"
    BY <1>2 DEF BoundQueue, Snapshot, TypeOK
  <2>2. StartsWith(pending', pending') BY <2>1, StartItself
  <2> QED BY <2>1, <2>2 DEF Spooled
<1>3. CASE WriteSpool
  <2>1. /\ spool' = copied /\ pc = "spool" /\ pc' \in {"returned", "decide"}
        /\ UNCHANGED <<pending, batch>>
    BY <1>3 DEF WriteSpool, Saved, AfterSpool, Fault, FilesWork
  <2> QED BY <2>1 DEF Spooled
<1>4. CASE ~(Send \/ SendUrgent \/ BoundQueue \/ WriteSpool)
  <2>1. /\ pc' \in {"spool", "returned"} =>
             /\ pc' = pc
             /\ UNCHANGED <<pending, copied, spool>>
        /\ pc' # "post" => batch' = <<>>
    <3>1. CASE RunStep
      BY <1>4, <3>1 DEF RunStep, Load, Drain, Acknowledge, Dispatch, DispatchSetID,
           DispatchUnknownID, DispatchAcceptedTypes, DispatchResynchronize,
           DispatchCommand, DispatchLogged, Process, SaveState, Decide, Spooled
    <3>2. CASE TimerFires \/ Woken \/ FinalDrain \/ Boot \/ Exit
      BY <3>2 DEF TimerFires, Woken, FinalDrain, Boot, Exit, ProcessEnds, Spooled
    <3>3. CASE TriggerExchange \/ PingFindsMessages \/ ServeCurrent \/ ServeLate
               \/ Order
      BY <3>3 DEF TriggerExchange, PingFindsMessages, ServeCurrent, ServeLate,
           Order, Spooled
    <3>4. CASE FaultStep
      BY <3>4 DEF FaultStep, LoadFails, MarshalFails, PostFails, ReplyUndecodable,
           SaveStateFails, Forget, Stop, Crash, ProcessEnds, Spooled, FilesWork, Fault
    <3>5. CASE UNCHANGED vars BY <3>5 DEF vars, Spooled
    <3> QED BY <1>4, <3>1, <3>2, <3>3, <3>4, <3>5 DEF Next
  <2> QED BY <2>1 DEF Spooled
<1> QED BY <1>1, <1>2, <1>3, <1>4

\* After a shutdown the spool holds the queue, through every failure but those of the
\* files themselves: Run returns only from persistQueue, which writes what it copied
\* under the lock, and what is queued later goes to the end (Exchange.Run 254-286).
THEOREM QueueIsSpooled ==
  ASSUME FilesWork PROVE Spec => []ShutdownSpoolsQueue
<1>1. Init => Spooled BY DEF Init, Spooled
<1>2. TypeOK /\ TypeOK' /\ Spooled /\ [Next]_vars => Spooled' BY SpooledStep
<1>3. Spooled => ShutdownSpoolsQueue BY DEF Spooled, ShutdownSpoolsQueue, StartsWith
<1> QED BY <1>1, <1>2, <1>3, TypeCorrect, PTL DEF Spec
-----------------------------------------------------------------------------
(***************************************************************************)
(* The commands: each one to its handler, once, in the server's order.     *)
(***************************************************************************)

\* A process that ends has written state.json after every reply.
EndsAreClean == Faults \cap {"crash", "overrun", "saveState"} = {}

Commands(k) == {i \in 1..k : outbox[i].type = "command"}

\* The commands among the first k messages of the server.
Sent(k) == Select(outbox, Commands(k))

InOrder ==
  /\ Len(dispatched) = Len(Sent(Processed))
  /\ \A n \in 1..Len(dispatched) : dispatched[n] = Sent(Processed)[n].id

\* state.json is written before the next request.
Clean == pc # "dispatch" => disk.next = mem.next

\* Who writes to the server's outbox.
LEMMA OutboxSteps ==
  ASSUME TypeOK, [Next]_vars
  PROVE  Order \/ (\E r \in Request : Serve(r)) \/ outbox' = outbox
<1>1. CASE ServeCurrent \/ ServeLate \/ Order
  BY <1>1, CurrentRequestType DEF ServeCurrent, ServeLate, TypeOK
<1>2. CASE RunStep \/ TimerFires \/ Woken \/ FinalDrain \/ Boot \/ Exit
  BY <1>2 DEF RunStep, Load, Drain, Acknowledge, Dispatch, DispatchSetID,
     DispatchUnknownID, DispatchAcceptedTypes, DispatchResynchronize,
     DispatchCommand, DispatchLogged, Process, SaveState, BoundQueue, WriteSpool,
     Decide, TimerFires, Woken, FinalDrain, Boot, Exit, ProcessEnds
<1>3. CASE Send \/ SendUrgent \/ TriggerExchange \/ PingFindsMessages \/ UNCHANGED vars
  BY <1>3 DEF Send, SendUrgent, TriggerExchange, PingFindsMessages, vars
<1>4. CASE FaultStep
  BY <1>4 DEF FaultStep, LoadFails, MarshalFails, PostFails, ReplyUndecodable,
     SaveStateFails, Forget, Stop, Crash, ProcessEnds
<1> QED BY <1>1, <1>2, <1>3, <1>4 DEF Next

\* The server's outbox only grows.
LEMMA OutboxGrows ==
  ASSUME TypeOK, [Next]_vars
  PROVE  /\ Len(outbox) <= Len(outbox')
         /\ \A i \in 1..Len(outbox) : outbox'[i] = outbox[i]
<1>1. CASE Order \/ \E r \in Request : Serve(r) BY <1>1, ServerGrows
<1>2. CASE outbox' = outbox
  <2>1. Len(outbox) \in Nat BY DEF TypeOK
  <2> QED BY <1>2, <2>1
<1> QED BY <1>1, <1>2, OutboxSteps

\* How far the client has come changes with Dispatch alone.
LEMMA ProcessedKept ==
  ASSUME EndsAreClean, TypeOK, Positions, Clean, [Next]_vars, ~Dispatch
  PROVE  Processed' = Processed /\ dispatched' = dispatched /\ Clean'
<1>1. /\ mem.next \in Nat /\ disk.next \in Nat /\ Len(inbound) \in Nat
      /\ Len(<<>>) = 0 /\ (inbound = <<>> => Len(inbound) = 0)
  BY Counters
<1>2. pc # "dispatch" => inbound = <<>> BY DEF Positions
<1>3. CASE UNCHANGED <<pc, mem, inbound, disk, dispatched>>
  BY <1>3 DEF Processed, Clean
<1>4. CASE Load
  <2>1. /\ pc = "load" /\ pc' = "drain" /\ mem' = disk
        /\ UNCHANGED <<inbound, disk, dispatched>>
    BY <1>4 DEF Load
  <2>2. disk.next = mem.next BY <2>1 DEF Clean
  <2> QED BY <1>1, <2>1, <2>2 DEF Processed, Clean
<1>5. CASE Exit
  <2>1. /\ pc = "returned" /\ pc' = "off" /\ mem' = disk /\ inbound' = <<>>
        /\ UNCHANGED <<disk, dispatched>>
    BY <1>5 DEF Exit, ProcessEnds
  <2>2. disk.next = mem.next /\ inbound = <<>> BY <1>2, <2>1 DEF Clean
  <2> QED BY <1>1, <2>1, <2>2 DEF Processed, Clean
<1>6. CASE Acknowledge
  <2>1. /\ pc = "post" /\ pc' = "dispatch" /\ inbound' = reply.msgs
        /\ mem'.next = mem.next + Len(reply.msgs) /\ dispatched' = dispatched
    BY <1>6 DEF Acknowledge, Received, TypeOK, State
  <2>2. Len(reply.msgs) \in Nat BY DEF TypeOK, Reply
  <2>3. Len(inbound) = 0 BY <1>1, <1>2, <2>1
  <2> QED BY <1>1, <2>1, <2>2, <2>3 DEF Processed, Clean
<1>7. CASE SaveState
  <2>1. disk' = mem /\ UNCHANGED <<mem, inbound, dispatched>>
    BY <1>7 DEF SaveState, Persisted
  <2> QED BY <2>1 DEF Processed, Clean
<1>8. CASE pc # "dispatch" /\ UNCHANGED <<mem, inbound, disk, dispatched>>
  BY <1>8 DEF Processed, Clean
<1>9. CASE RunStep
  <2>1. CASE Drain \/ BoundQueue \/ WriteSpool \/ Decide
    BY <1>8, <2>1 DEF Drain, BoundQueue, WriteSpool, Decide
  <2> QED BY <1>4, <1>6, <1>7, <1>9, <2>1 DEF RunStep
<1>10. CASE TimerFires \/ Woken \/ FinalDrain \/ Boot
  BY <1>8, <1>10 DEF TimerFires, Woken, FinalDrain, Boot
<1>11. CASE \/ Send \/ SendUrgent \/ TriggerExchange \/ PingFindsMessages
            \/ ServeCurrent \/ ServeLate \/ Order \/ UNCHANGED vars
  BY <1>3, <1>11 DEF Send, SendUrgent, TriggerExchange, PingFindsMessages,
     ServeCurrent, ServeLate, Order, vars
<1>12. CASE FaultStep
  <2>1. ~Crash /\ ~SaveStateFails BY DEF Crash, SaveStateFails, Fault, EndsAreClean
  <2>2. CASE LoadFails \/ MarshalFails \/ PostFails \/ ReplyUndecodable
    BY <1>8, <2>2 DEF LoadFails, MarshalFails, PostFails, ReplyUndecodable
  <2>3. CASE Forget \/ Stop BY <1>3, <2>3 DEF Forget, Stop
  <2> QED BY <1>12, <2>1, <2>2, <2>3 DEF FaultStep
<1> QED BY <1>5, <1>9, <1>10, <1>11, <1>12 DEF Next

\* The commands sent are the same while the outbox grows.
LEMMA SentKept ==
  ASSUME TypeOK, TypeOK', [Next]_vars, NEW k \in Nat, k <= Len(outbox)
  PROVE  /\ Sent(k)' = Sent(k) /\ Sent(k) \in Seq(Inbound)
         /\ Commands(k) \subseteq 1..k
<1>1. /\ outbox \in Seq(Inbound) /\ outbox' \in Seq(Inbound)
      /\ Len(outbox) <= Len(outbox') /\ Len(outbox) \in Nat
      /\ \A i \in 1..Len(outbox) : outbox'[i] = outbox[i]
  <2>1. outbox \in Seq(Inbound) /\ outbox' \in Seq(Inbound) BY DEF TypeOK
  <2>2. /\ Len(outbox) <= Len(outbox')
        /\ \A i \in 1..Len(outbox) : outbox'[i] = outbox[i]
    BY OutboxGrows
  <2> QED BY <2>1, <2>2
<1>2. \A i \in 1..k : i \in 1..Len(outbox) BY <1>1
<1>3. Commands(k)' = Commands(k) BY <1>1, <1>2 DEF Commands
<1>4. Commands(k) \subseteq 1..Len(outbox) /\ Commands(k) \subseteq 1..k
  BY <1>2 DEF Commands
<1> HIDE DEF Commands
<1>5. Select(outbox', Commands(k)) = Select(outbox, Commands(k))
  BY <1>1, <1>4, SelectOfLonger
<1>6. Select(outbox, Commands(k)) \in Seq(Inbound) BY <1>1, <1>4, SelectPositions
<1> QED BY <1>3, <1>4, <1>5, <1>6 DEF Sent

\* A message dispatched is the next of the server.
LEMMA DispatchAdvances ==
  ASSUME TypeOK, Positions, Dispatch
  PROVE  /\ Processed \in Nat /\ Processed' = Processed + 1 /\ Processed < Len(outbox)
         /\ Head(inbound) = outbox[Processed + 1] /\ outbox' = outbox
         /\ outbox \in Seq(Inbound) /\ dispatched \in Seq(Nat)
<1>1. /\ inbound # <<>> /\ inbound' = Tail(inbound) /\ mem'.next = mem.next
      /\ outbox' = outbox
  BY DispatchEffect
<1>2. /\ inbound \in Seq(Inbound) /\ outbox \in Seq(Inbound) /\ mem.next \in Nat
      /\ Processed \in Int /\ Len(outbox) \in Nat
  BY Counters
<1>3. /\ Len(inbound) \in Nat \ {0} /\ Len(Tail(inbound)) = Len(inbound) - 1
      /\ Head(inbound) = inbound[1] /\ 1 \in DOMAIN inbound
  BY <1>1, <1>2
<1>4. 0 <= Processed /\ mem.next <= Len(outbox) /\ inbound[1] = outbox[Processed + 1]
  BY <1>3 DEF Positions
<1>5. /\ Processed = mem.next - Len(inbound)
      /\ Processed' = mem'.next - Len(inbound')
  BY DEF Processed
<1>6. dispatched \in Seq(Nat) BY DEF TypeOK
<1>7. Processed \in Nat /\ Processed < Len(outbox) BY <1>2, <1>3, <1>4, <1>5
<1>8. Processed' = Processed + 1 BY <1>1, <1>2, <1>3, <1>5
<1> QED BY <1>1, <1>2, <1>3, <1>4, <1>6, <1>7, <1>8

\* ... and a command is given to its handler.
LEMMA InOrderDispatch ==
  ASSUME TypeOK, TypeOK', Positions, InOrder, Dispatch PROVE InOrder'
<1>1. /\ Processed \in Nat /\ Processed' = Processed + 1 /\ Processed < Len(outbox)
      /\ Head(inbound) = outbox[Processed + 1] /\ outbox' = outbox
      /\ outbox \in Seq(Inbound) /\ dispatched \in Seq(Nat)
  BY DispatchAdvances
<1>2. PICK k \in Nat : k = Processed BY <1>1
<1>3. k + 1 \in Nat /\ k < Len(outbox) /\ \A i : i \in 1..(k + 1) <=> i \in 1..k \/ i = k + 1
  BY <1>1, <1>2
<1>4. Commands(k) \subseteq 1..k BY DEF Commands
<1>5. Sent(k + 1)' = Sent(k + 1) BY <1>1 DEF Sent, Commands
<1>6. CASE DispatchCommand
  <2>1. /\ outbox[k + 1].type = "command"
        /\ dispatched' = Append(dispatched, outbox[k + 1].id)
    BY <1>1, <1>2, <1>6 DEF DispatchCommand, Process
  <2>2. Commands(k + 1) = Commands(k) \cup {k + 1} BY <1>3, <2>1 DEF Commands
  <2> HIDE DEF Commands
  <2>3. /\ Sent(k) \in Seq(Inbound) /\ Sent(k + 1) \in Seq(Inbound)
        /\ Len(Sent(k + 1)) = Len(Sent(k)) + 1
        /\ \A i \in 1..Len(Sent(k)) : Sent(k + 1)[i] = Sent(k)[i]
        /\ Sent(k + 1)[Len(Sent(k + 1))] = outbox[k + 1]
    <3>1. PICK K : K = Commands(k) OBVIOUS
    <3>2. PICK L : L = K \cup {k + 1} OBVIOUS
    <3>3. /\ outbox \in Seq(Inbound) /\ k < Len(outbox)
          /\ K \subseteq 1..k
      BY <1>1, <1>3, <1>4, <3>1, <3>2
    <3>4. /\ Select(outbox, K) \in Seq(Inbound)
          /\ Select(outbox, L) = Append(Select(outbox, K), outbox[k + 1])
      BY ONLY k \in Nat, <3>2, <3>3, SelectGrows
    <3>5. Sent(k) \in Seq(Inbound) /\ Sent(k + 1) = Append(Sent(k), outbox[k + 1])
      BY <2>2, <3>1, <3>2, <3>4 DEF Sent
    <3>6. outbox[k + 1] \in Inbound BY <1>1, <1>3
    <3> QED BY <3>5, <3>6
  <2>4. /\ Len(dispatched) = Len(Sent(k))
        /\ \A n \in 1..Len(dispatched) : dispatched[n] = Sent(k)[n].id
    BY <1>2 DEF InOrder
  <2> DEFINE d == dispatched'
             s == Sent(k + 1)
  <2>5. /\ Len(d) = Len(dispatched) + 1 /\ d[Len(dispatched) + 1] = outbox[k + 1].id
        /\ \A n \in 1..Len(dispatched) : d[n] = dispatched[n]
        /\ Len(dispatched) \in Nat
    BY <1>1, <2>1
  <2>6. \A n \in 1..Len(d) : n \in 1..Len(dispatched) \/ n = Len(dispatched) + 1
    BY <2>5
  <2>7. Len(d) = Len(s) BY <2>3, <2>4, <2>5
  <2>8. \A n \in 1..Len(d) : d[n] = s[n].id
    <3> SUFFICES ASSUME NEW n \in 1..Len(d) PROVE d[n] = s[n].id OBVIOUS
    <3>1. CASE n \in 1..Len(dispatched) BY <2>3, <2>4, <2>5, <3>1
    <3>2. CASE n = Len(dispatched) + 1 BY <2>3, <2>4, <2>5, <3>2
    <3> QED BY <2>6, <3>1, <3>2
  <2>9. Sent(Processed)' = Sent(k + 1) BY <1>1, <1>2, <1>5 DEF Sent, Commands
  <2> QED BY <2>7, <2>8, <2>9 DEF InOrder
<1>7. CASE ~DispatchCommand
  <2>1. outbox[k + 1].type # "command" /\ dispatched' = dispatched
    BY <1>1, <1>2, <1>7 DEF Dispatch, DispatchSetID, DispatchUnknownID,
       DispatchAcceptedTypes, DispatchResynchronize, DispatchLogged, Process
  <2>2. Commands(k + 1) = Commands(k) BY <1>3, <2>1 DEF Commands
  <2>3. Sent(Processed)' = Sent(k) BY <1>1, <1>2, <2>2 DEF Sent, Commands
  <2>4. /\ Len(dispatched) = Len(Sent(k))
        /\ \A n \in 1..Len(dispatched) : dispatched[n] = Sent(k)[n].id
    BY <1>2 DEF InOrder
  <2> QED BY <2>1, <2>3, <2>4 DEF InOrder
<1> QED BY <1>6, <1>7

LEMMA InOrderStep ==
  ASSUME EndsAreClean, TypeOK, TypeOK', Positions, Clean, InOrder, [Next]_vars
  PROVE  Clean' /\ InOrder'
<1>1. CASE Dispatch
  <2>1. InOrder' BY <1>1, InOrderDispatch
  <2>2. pc' = "dispatch" BY <1>1, DispatchEffect
  <2> QED BY <2>1, <2>2 DEF Clean
<1>2. CASE ~Dispatch
  <2>1. Processed' = Processed /\ dispatched' = dispatched /\ Clean'
    BY <1>2, ProcessedKept
  <2>2. PICK k \in Nat : k = Processed /\ k <= Len(outbox)
    BY Counters DEF Positions, Processed
  <2>3. Sent(k)' = Sent(k) BY <2>2, SentKept
  <2>4. Sent(Processed)' = Sent(Processed) BY <2>1, <2>2, <2>3 DEF Sent, Commands
  <2> QED BY <2>1, <2>4 DEF InOrder
<1> QED BY <1>1, <1>2

\* Commands are given to their handlers once each and in the server's order, through
\* lost, late and undecodable replies, batches put back, failed reads and writes of
\* the spool and clean restarts (the loop of performExchange over the reply, 584-688):
\* as long as the process does not die with a reply half processed.
THEOREM CommandsKeepOrder ==
  ASSUME EndsAreClean PROVE Spec => []CommandsInOrder
<1>1. Init => Clean /\ InOrder
  <2> SUFFICES ASSUME Init PROVE Clean /\ InOrder OBVIOUS
  <2>1. disk.next = mem.next /\ mem.next = 0 /\ inbound = <<>> /\ dispatched = <<>>
        /\ outbox = <<>>
    BY DEF Init, FreshState
  <2>2. Processed = 0
    <3>1. \A a, b \in Nat : a = b => a - b = 0 OBVIOUS
    <3>2. mem.next \in Nat /\ Len(inbound) \in Nat /\ mem.next = Len(inbound)
      BY <2>1
    <3> QED BY <3>1, <3>2 DEF Processed
  <2>3. Commands(0) = {} /\ Cardinality(Commands(0)) = 0
    BY FS_EmptySet DEF Commands
  <2>4. Len(Sent(0)) = 0
    <3>1. outbox \in Seq(Inbound) /\ Commands(0) \subseteq DOMAIN outbox
      BY <2>1, <2>3
    <3> QED BY <2>3, <3>1, SelectPositions DEF Sent
  <2> QED BY <2>1, <2>2, <2>4 DEF Clean, InOrder
<1>2. TypeOK /\ TypeOK' /\ Positions /\ Clean /\ InOrder /\ [Next]_vars => Clean' /\ InOrder'
  BY InOrderStep
<1>3. TypeOK /\ Positions /\ InOrder => CommandsInOrder
  <2> SUFFICES ASSUME TypeOK, Positions, InOrder PROVE CommandsInOrder OBVIOUS
  <2>1. CommandsInOrder <=>
          dispatched = [n \in DOMAIN Sent(Processed) |-> Sent(Processed)[n].id]
    BY DEF CommandsInOrder, Sent, Commands, Processed
  <2>2. Sent(Processed) \in Seq(Inbound) /\ dispatched \in Seq(Nat)
    <3>1. Processed \in Nat /\ Processed <= Len(outbox)
      BY Counters DEF Positions, Processed
    <3>2. outbox \in Seq(Inbound) /\ Commands(Processed) \subseteq DOMAIN outbox
      BY <3>1 DEF TypeOK, Commands
    <3> QED BY <3>2, SelectPositions DEF Sent, TypeOK
  <2> DEFINE s == Sent(Processed)
             ids == [n \in DOMAIN s |-> s[n].id]
  <2>3. DOMAIN dispatched = 1..Len(dispatched) /\ DOMAIN s = 1..Len(s) BY <2>2
  <2>4. Len(dispatched) = Len(s) /\ \A n \in 1..Len(dispatched) : dispatched[n] = s[n].id
    BY DEF InOrder
  <2> HIDE DEF s
  <2>5. dispatched = [n \in DOMAIN dispatched |-> dispatched[n]] BY <2>2
  <2>6. dispatched = ids BY <2>3, <2>4, <2>5
  <2> QED BY <2>1, <2>6 DEF s
<1> QED BY <1>1, <1>2, <1>3, TypeCorrect, PositionsAgree, PTL DEF Spec
-----------------------------------------------------------------------------
(***************************************************************************)
(* The operation results.  While no reply, batch, queue or process is lost *)
(* the client holds exactly the results the server does not have.          *)
(***************************************************************************)

\* The kinds of failure after which the loop still has what the server has not.
NothingIsLost ==
  Faults \subseteq {"refuse", "partial", "defer", "forget", "saveState", "saveSpool"}

\* The results the client owes and those the server has, as the refinement maps them.
Owed  == Results(Undelivered)
Taken == Results(log)

\* The queues of messages, and their lengths.
LEMMA QueueTypes ==
  ASSUME TypeOK
  PROVE  /\ batch \in Seq(Message) /\ pending \in Seq(Message) /\ log \in Seq(Message)
         /\ batch \o pending \in Seq(Message)
         /\ Len(batch) \in Nat /\ Len(pending) \in Nat /\ Len(log) \in Nat
         /\ mem.out \in Nat
<1>1. batch \in Seq(Message) /\ pending \in Seq(Message) /\ log \in Seq(Message)
  BY DEF TypeOK
<1>2. mem.out \in Nat BY Counters
<1>3. batch \o pending \in Seq(Message) BY ONLY <1>1
<1>4. Len(batch) \in Nat /\ Len(pending) \in Nat /\ Len(log) \in Nat BY ONLY <1>1
<1> QED BY <1>1, <1>2, <1>3, <1>4

\* What follows the first n messages of a queue.
LEMMA TailOf ==
  ASSUME NEW S, NEW q \in Seq(S), NEW n \in Nat, n <= Len(q)
  PROVE  /\ SubSeq(q, n + 1, Len(q)) \in Seq(S)
         /\ Len(SubSeq(q, n + 1, Len(q))) = Len(q) - n
         /\ \A i \in 1..(Len(q) - n) : SubSeq(q, n + 1, Len(q))[i] = q[n + i]
<1>1. PICK a \in Nat \ {0}, k \in Nat : a = n + 1 /\ k = Len(q) OBVIOUS
<1>2. /\ SubSeq(q, a, k) \in Seq(S)
      /\ Len(SubSeq(q, a, k)) = IF a <= k THEN k - a + 1 ELSE 0
      /\ \A i \in 1..Len(SubSeq(q, a, k)) : SubSeq(q, a, k)[i] = q[a + i - 1]
  <2>1. k \in Int /\ k <= Len(q) BY <1>1
  <2> QED BY ONLY q \in Seq(S), <2>1, Slice
<1>3. PICK f : f = SubSeq(q, a, k) OBVIOUS
<1>4. /\ f \in Seq(S) /\ Len(f) = IF a <= k THEN k - a + 1 ELSE 0
      /\ \A i \in 1..Len(f) : f[i] = q[a + i - 1]
  BY ONLY <1>2, <1>3
<1>5. n \in Nat /\ n <= k BY <1>1
<1>6. Len(f) = k - n BY ONLY <1>1, <1>4, <1>5
<1>7. ASSUME NEW i \in 1..(k - n) PROVE f[i] = q[n + i]
  <2>1. f[i] = q[a + i - 1] BY ONLY <1>4, <1>6
  <2>2. a + i - 1 = n + i BY ONLY <1>1, <1>5
  <2> QED BY ONLY <2>1, <2>2
<1> QED BY ONLY <1>1, <1>3, <1>4, <1>6, <1>7

\* Joining a queue behind another leaves the front's first messages alone.
LEMMA JoinedTail ==
  ASSUME NEW S, NEW s \in Seq(S), NEW t \in Seq(S), NEW n \in Nat, n <= Len(s)
  PROVE  SubSeq(s \o t, n + 1, Len(s \o t)) = SubSeq(s, n + 1, Len(s)) \o t
<1> DEFINE w == s \o t
           l == SubSeq(w, n + 1, Len(w))
           f == SubSeq(s, n + 1, Len(s))
           r == f \o t
<1>1. /\ w \in Seq(S) /\ Len(s) \in Nat /\ Len(t) \in Nat /\ Len(w) = Len(s) + Len(t)
      /\ \A i \in 1..Len(s) : w[i] = s[i]
      /\ \A i \in 1..Len(t) : w[Len(s) + i] = t[i]
  OBVIOUS
<1> HIDE DEF w
<1> n \in Nat /\ n <= Len(s) OBVIOUS
<1>2. n <= Len(w) BY ONLY <1>1, n \in Nat, n <= Len(s)
<1>3. /\ f \in Seq(S) /\ Len(f) = Len(s) - n
      /\ \A i \in 1..(Len(s) - n) : f[i] = s[n + i]
  BY TailOf
<1>4. /\ l \in Seq(S) /\ Len(l) = Len(w) - n
      /\ \A i \in 1..(Len(w) - n) : l[i] = w[n + i]
  BY <1>1, <1>2, TailOf
<1> HIDE DEF f, l
<1>5. /\ r \in Seq(S) /\ Len(r) = Len(s) - n + Len(t)
      /\ \A i \in 1..(Len(s) - n) : r[i] = f[i]
      /\ \A i \in 1..Len(t) : r[Len(s) - n + i] = t[i]
  <2>1. \A g \in Seq(S) :
          /\ g \o t \in Seq(S) /\ Len(g \o t) = Len(g) + Len(t)
          /\ \A i \in 1..Len(g) : (g \o t)[i] = g[i]
          /\ \A i \in 1..Len(t) : (g \o t)[Len(g) + i] = t[i]
    OBVIOUS
  <2>2. /\ r \in Seq(S) /\ Len(r) = Len(f) + Len(t)
        /\ \A i \in 1..Len(f) : r[i] = f[i]
        /\ \A i \in 1..Len(t) : r[Len(f) + i] = t[i]
    BY <1>3, <2>1
  <2> HIDE DEF r
  <2>3. Len(f) = Len(s) - n BY <1>3
  <2> QED BY <2>2, <2>3
<1> HIDE DEF r
<1>6. ASSUME NEW i \in 1..(Len(w) - n) PROVE l[i] = r[i]
  <2>1. l[i] = w[n + i] BY <1>4
  <2>2. CASE i \in 1..(Len(s) - n)
    <3>1. n + i \in 1..Len(s) BY <1>1, <2>2
    <3>2. w[n + i] = s[n + i] /\ f[i] = s[n + i] /\ r[i] = f[i]
      <4>1. w[n + i] = s[n + i] BY ONLY <1>1, <3>1
      <4>2. f[i] = s[n + i] BY ONLY <1>3, <2>2
      <4>3. r[i] = f[i] BY ONLY <1>5, <2>2
      <4> QED BY ONLY <4>1, <4>2, <4>3
    <3> QED BY ONLY <2>1, <3>2
  <2>3. CASE i - (Len(s) - n) \in 1..Len(t)
    <3>1. PICK j \in 1..Len(t) : j = i - (Len(s) - n) BY <2>3
    <3>2. i = Len(s) - n + j /\ n + i = Len(s) + j BY <1>1, <3>1
    <3>3. w[Len(s) + j] = t[j] BY ONLY <1>1
    <3>4. r[Len(s) - n + j] = t[j] BY ONLY <1>5
    <3> QED BY ONLY <2>1, <3>2, <3>3, <3>4
  <2>4. i \in 1..(Len(s) - n) \/ i - (Len(s) - n) \in 1..Len(t) BY <1>1
  <2> QED BY ONLY <2>2, <2>3, <2>4
<1>7. l = r
  <2>1. Len(l) = Len(r) /\ \A i \in 1..Len(l) : l[i] = r[i] BY <1>1, <1>4, <1>5, <1>6
  <2>2. l \in Seq(S) /\ r \in Seq(S) BY <1>4, <1>5
  <2> QED BY ONLY <2>1, <2>2, SeqEqual
<1> QED BY <1>7 DEF l, r, f, w

\* A queue is its first n messages and the rest.
LEMMA SplitAt ==
  ASSUME NEW S, NEW q \in Seq(S), NEW n \in 0..Len(q)
  PROVE  /\ SubSeq(q, 1, n) \in Seq(S) /\ SubSeq(q, n + 1, Len(q)) \in Seq(S)
         /\ Len(SubSeq(q, 1, n)) = n
         /\ SubSeq(q, 1, n) \o SubSeq(q, n + 1, Len(q)) = q
<1>1. Len(q) \in Nat /\ n \in Nat /\ n <= Len(q) OBVIOUS
<1>2. SubSeq(q, 1, n) \in Seq(S) /\ Len(SubSeq(q, 1, n)) = n
  <2>1. 1 \in Nat \ {0} /\ n \in Int /\ n <= Len(q) BY <1>1
  <2>2. /\ SubSeq(q, 1, n) \in Seq(S)
        /\ Len(SubSeq(q, 1, n)) = IF 1 <= n THEN n - 1 + 1 ELSE 0
    BY <2>1, Slice
  <2> QED BY <1>1, <2>2
<1>3. SubSeq(q, n + 1, Len(q)) \in Seq(S)
  <2>1. n + 1 \in Nat \ {0} /\ Len(q) \in Int /\ Len(q) <= Len(q) BY <1>1
  <2> QED BY <2>1, Slice
<1>4. SubSeq(q, 1, n) \o SubSeq(q, n + 1, Len(q)) = SubSeq(q, 1, Len(q))
  <2>1. /\ 1 \in 1..(Len(q) + 1) /\ n \in (1 - 1)..Len(q) /\ Len(q) \in n..Len(q)
    BY <1>1
  <2> QED BY <2>1, ConcatAdjacentSubSeq, Zenon
<1>5. SubSeq(q, 1, Len(q)) = q BY SubSeqFull
<1>6. SubSeq(q, 1, n) \o SubSeq(q, n + 1, Len(q)) = q BY ONLY <1>4, <1>5, Zenon
<1> QED BY <1>2, <1>3, <1>6, Zenon

\* The members of joined queues.
LEMMA MembersJoined ==
  ASSUME NEW S, NEW s \in Seq(S), NEW t \in Seq(S)
  PROVE  Members(s \o t) = Members(s) \cup Members(t)
<1> DEFINE w == s \o t
<1>1. /\ DOMAIN s = 1..Len(s) /\ DOMAIN t = 1..Len(t) /\ DOMAIN w = 1..Len(w)
      /\ Len(s) \in Nat /\ Len(t) \in Nat /\ Len(w) = Len(s) + Len(t)
      /\ \A i \in 1..Len(s) : w[i] = s[i]
      /\ \A i \in 1..Len(t) : w[Len(s) + i] = t[i]
  OBVIOUS
<1> HIDE DEF w
<1>2. \A i \in 1..Len(s) : i \in 1..Len(w) BY <1>1
<1>3. \A i \in 1..Len(t) : Len(s) + i \in 1..Len(w) BY <1>1
<1>4. \A i \in 1..Len(w) : i \in 1..Len(s) \/ \E j \in 1..Len(t) : i = Len(s) + j
  <2> SUFFICES ASSUME NEW i \in 1..Len(w), ~(i \in 1..Len(s))
               PROVE  \E j \in 1..Len(t) : i = Len(s) + j
    OBVIOUS
  <2>1. i - Len(s) \in 1..Len(t) /\ i = Len(s) + (i - Len(s)) BY <1>1
  <2> QED BY <2>1
<1>5. Members(w) \subseteq Members(s) \cup Members(t)
  <2>1. ASSUME NEW i \in 1..Len(w) PROVE w[i] \in Members(s) \cup Members(t)
    <3>1. CASE i \in 1..Len(s)
      <4>1. w[i] = s[i] /\ i \in DOMAIN s BY <1>1, <3>1
      <4> QED BY <4>1 DEF Members
    <3>2. CASE \E j \in 1..Len(t) : i = Len(s) + j
      <4>1. PICK j \in 1..Len(t) : i = Len(s) + j BY <3>2
      <4>2. w[i] = t[j] /\ j \in DOMAIN t BY <1>1, <4>1
      <4> QED BY <4>2 DEF Members
    <3> QED BY <1>4, <3>1, <3>2
  <2> QED BY <1>1, <2>1 DEF Members
<1>6. Members(s) \subseteq Members(w) BY <1>1, <1>2 DEF Members
<1>7. Members(t) \subseteq Members(w) BY <1>1, <1>3 DEF Members
<1> QED BY <1>5, <1>6, <1>7 DEF w

\* The results of a queue are messages of it.
LEMMA ResultsAreMembers ==
  ASSUME NEW S, NEW q \in Seq(S)
  PROVE  Results(q) \in Seq(S) /\ Members(Results(q)) \subseteq Members(q)
<1>1. Urgent(q) \subseteq DOMAIN q BY DEF Urgent
<1>2. /\ Results(q) \in Seq(S) /\ Len(Results(q)) = Cardinality(Urgent(q))
      /\ \A n \in 1..Cardinality(Urgent(q)) : \E i \in Urgent(q) : Results(q)[n] = q[i]
  BY <1>1, SelectPositions DEF Results
<1> HIDE DEF Results
<1>3. DOMAIN Results(q) = 1..Cardinality(Urgent(q)) BY <1>2
<1> QED BY <1>1, <1>2, <1>3 DEF Members

-----------------------------------------------------------------------------
(***************************************************************************)
(* What such an instance never meets, and where the client and the server  *)
(* agree.                                                                  *)
(***************************************************************************)

\* The process lives and is not asked to end, the queue is empty of spooled messages at
\* the start, and a batch is under way in the POST only.
Lively ==
  /\ pc \notin {"off", "returned"} /\ ~final /\ ~stopping
  /\ pc = "load" => spool = <<>> /\ mem = disk
  /\ pc # "post" => batch = <<>>

\* No request is left behind.
Steady == Lively /\ late = {}

\* The server is ahead of the client's number only while its answer is on the way, and
\* by a part of the batch.
InStep ==
  /\ mem.out <= Len(log) /\ Len(log) <= SentUpTo
  /\ ~answered => mem.out = Len(log)
  /\ answered => ServerACK = Len(log)

\* Nothing happens to the queue, the batch, the log and the positions.
Quiet ==
  /\ UNCHANGED <<pending, batch, log, answered, reply, issued>>
  /\ mem'.out = mem.out

\* The steps of a steady process.
LEMMA SteadySteps ==
  ASSUME NothingIsLost, TypeOK, Positions, Steady, [Next]_vars
  PROVE  /\ Steady'
         /\ \/ Drain \/ ServeCurrent \/ Acknowledge \/ DispatchResynchronize
            \/ BoundQueue \/ Send \/ SendUrgent \/ (PostFails /\ ~answered) \/ Quiet
<1>1. ASSUME NEW kind \in {"lostReply", "late", "garble", "marshal", "loadState",
                           "loadSpool", "crash", "stop", "overrun"}
      PROVE  ~Fault(kind)
  <2>1. kind \notin Faults BY DEF NothingIsLost
  <2> QED BY <2>1 DEF Fault
<1>2. /\ pc \notin {"off", "returned"} /\ ~final /\ ~stopping /\ late = {}
      /\ pc = "load" => spool = <<>> /\ mem = disk
      /\ pc # "post" => batch = <<>>
  BY DEF Steady, Lively
<1>3. mem \in State /\ pending \in Seq(Message) /\ <<>> \o pending = pending
  <2>1. pending \in Seq(Message) BY DEF TypeOK
  <2> QED BY <2>1, ConcatEmptySeq DEF TypeOK
<1>4. answered => pc = "post" BY DEF Positions
<1>5. CASE Load
  <2>1. pending' = pending BY <1>1, <1>2, <1>3, <1>5 DEF Load
  <2>2. mem' = mem /\ batch' = <<>> /\ pc' = "drain"
        /\ UNCHANGED <<batch, log, answered, reply, issued, final, stopping, late>>
    BY <1>2, <1>5 DEF Load
  <2> QED BY <1>2, <2>1, <2>2 DEF Steady, Lively, Quiet
<1>6. CASE Drain BY <1>2, <1>6 DEF Drain, Steady, Lively
<1>7. CASE Acknowledge BY <1>2, <1>7 DEF Acknowledge, Steady, Lively
<1>8. CASE Dispatch
  <2>1. /\ pc = "dispatch" /\ UNCHANGED <<pc, final, stopping, late, batch, log>>
        /\ UNCHANGED <<answered, reply, issued>> /\ mem'.out = mem.out
    BY <1>3, <1>8 DEF Dispatch, DispatchSetID, DispatchUnknownID, DispatchAcceptedTypes,
       DispatchResynchronize, DispatchCommand, DispatchLogged, Process, State
  <2>2. DispatchResynchronize \/ pending' = pending
    BY <1>8 DEF Dispatch, DispatchSetID, DispatchUnknownID, DispatchAcceptedTypes,
       DispatchCommand, DispatchLogged
  <2> QED BY <1>2, <2>1, <2>2 DEF Steady, Lively, Quiet
<1>9. CASE SaveState \/ SaveStateFails
  BY <1>2, <1>9 DEF SaveState, SaveStateFails, Steady, Lively, Quiet
<1>10. CASE BoundQueue BY <1>2, <1>10 DEF BoundQueue, Steady, Lively
<1>11. CASE WriteSpool \/ Decide
  BY <1>2, <1>11 DEF WriteSpool, AfterSpool, Decide, Steady, Lively, Quiet
<1>12. CASE TimerFires \/ Woken \/ TriggerExchange \/ PingFindsMessages
  BY <1>2, <1>12 DEF TimerFires, Woken, TriggerExchange, PingFindsMessages, Steady, Lively, Quiet
<1>13. CASE FinalDrain \/ Boot \/ Exit \/ ServeLate
  BY <1>2, <1>13 DEF FinalDrain, Boot, Exit, ServeLate
<1>14. CASE Send \/ SendUrgent \/ ServeCurrent
  BY <1>2, <1>14 DEF Send, SendUrgent, ServeCurrent, Steady, Lively
<1>15. CASE Order \/ Forget BY <1>2, <1>15 DEF Order, Forget, Steady, Lively, Quiet
<1>16. CASE LoadFails \/ MarshalFails \/ ReplyUndecodable \/ Stop \/ Crash
  BY <1>1, <1>2, <1>16 DEF LoadFails, MarshalFails, ReplyUndecodable, Stop, Crash
<1>17. CASE PostFails
  <2>1. ~answered /\ late' = late BY <1>1, <1>2, <1>17 DEF PostFails
  <2> QED BY <1>2, <1>17, <2>1 DEF PostFails, Steady, Lively
<1>18. CASE UNCHANGED vars BY <1>2, <1>18 DEF vars, Steady, Lively, Quiet
<1> QED BY <1>5, <1>6, <1>7, <1>8, <1>9, <1>10, <1>11, <1>12, <1>13, <1>14, <1>15,
         <1>16, <1>17, <1>18 DEF Next, RunStep, FaultStep

\* The server takes the first messages of the batch.
LEMMA ServedPrefix ==
  ASSUME TypeOK, TypeOK', InStep, ServeCurrent
  PROVE  /\ \E n \in 0..Len(batch) : log' = log \o SubSeq(batch, 1, n)
         /\ mem.out = Len(log) /\ answered' /\ ServerACK' = Len(log')
         /\ UNCHANGED <<mem, batch, pending, issued>>
<1>1. /\ log \in Seq(Message) /\ batch \in Seq(Message) /\ mem.out \in Nat
      /\ Len(log) \in Nat /\ Len(log') \in Nat /\ Len(batch) \in Nat
  <2>1. log \in Seq(Message) /\ log' \in Seq(Message) /\ batch \in Seq(Message)
    BY DEF TypeOK
  <2>2. mem.out \in Nat BY DEF TypeOK, State
  <2> QED BY <2>1, <2>2
<1>2. mem.out = Len(log) /\ answered' /\ UNCHANGED <<mem, batch, pending, issued>>
  BY DEF InStep, ServeCurrent
<1>3. Fresh(CurrentRequest) = batch
  <2>1. SubSeq(batch, 1, Len(batch)) = batch BY <1>1, SubSeqFull
  <2>2. Len(log) - CurrentRequest.seq + 1 = 1 /\ ~(CurrentRequest.seq > Len(log))
    BY <1>1, <1>2 DEF CurrentRequest
  <2>3. CurrentRequest.msgs = batch BY DEF CurrentRequest
  <2> QED BY <2>1, <2>2, <2>3 DEF Fresh
<1>4. \E n \in 0..Len(batch) : log' = log \o SubSeq(batch, 1, n)
  <2>1. CASE log' = log
    <3>1. SubSeq(batch, 1, 0) = <<>> BY SubSeqEmpty
    <3>2. log \o <<>> = log BY <1>1, ConcatEmptySeq
    <3>3. 0 \in 0..Len(batch) BY <1>1
    <3> QED BY <2>1, <3>1, <3>2, <3>3
  <2>2. CASE \E n \in 0..Len(Fresh(CurrentRequest)) : Take(CurrentRequest, n)
    BY <1>3, <2>2 DEF Take
  <2>3. Serve(CurrentRequest) BY DEF ServeCurrent
  <2> QED BY <2>1, <2>2, <2>3 DEF Serve
<1>5. ServerACK' = Len(log')
  <2>1. PICK acks \in BOOLEAN :
          /\ acks \/ Len(log') = mem.out + Len(batch)
          /\ reply' = [acks |-> acks, ack |-> Len(log'),
                       msgs |-> SubSeq(outbox', mem.next + 1, Len(outbox'))]
    BY DEF ServeCurrent
  <2>2. reply'.acks = acks /\ reply'.ack = Len(log') BY <2>1
  <2> QED BY <1>2, <2>1, <2>2 DEF ServerACK, SentUpTo
<1> QED BY <1>2, <1>4, <1>5

LEMMA InStepStep ==
  ASSUME NothingIsLost, TypeOK, TypeOK', Positions, Steady, InStep, [Next]_vars
  PROVE  InStep'
<1>1. /\ mem.out \in Nat /\ mem'.out \in Nat /\ Len(log) \in Nat /\ Len(log') \in Nat
      /\ Len(batch) \in Nat /\ Len(batch') \in Nat
      /\ batch \in Seq(Message) /\ log \in Seq(Message)
  <2>1. /\ log \in Seq(Message) /\ log' \in Seq(Message)
        /\ batch \in Seq(Message) /\ batch' \in Seq(Message)
    BY DEF TypeOK
  <2>2. mem.out \in Nat /\ mem'.out \in Nat BY DEF TypeOK, State
  <2> QED BY <2>1, <2>2
<1>2. /\ mem.out <= Len(log) /\ Len(log) <= mem.out + Len(batch)
      /\ ~answered => mem.out = Len(log)
      /\ answered => ServerACK = Len(log)
  BY DEF InStep, SentUpTo
<1>3. (answered => pc = "post") /\ (pc # "post" => batch = <<>>) BY DEF Positions, Steady, Lively
<1>4. ASSUME log' = log, mem'.out = Len(log), ~answered' PROVE InStep'
  BY <1>1, <1>4 DEF InStep, SentUpTo
<1>5. ASSUME UNCHANGED <<batch, log, answered, reply>>, mem'.out = mem.out PROVE InStep'
  <2>1. SentUpTo' = SentUpTo /\ ServerACK' = ServerACK BY <1>5 DEF SentUpTo, ServerACK
  <2> QED BY <1>2, <1>5, <2>1 DEF InStep
<1>6. CASE Drain \/ (PostFails /\ ~answered)
  BY <1>2, <1>3, <1>4, <1>6 DEF Drain, PostFails, CallEnds
<1>7. CASE Acknowledge
  <2>1. mem'.out = Len(log)
    BY <1>2, <1>7 DEF Acknowledge, TypeOK, State
  <2> QED BY <1>4, <1>7, <2>1 DEF Acknowledge, CallEnds
<1>8. CASE ServeCurrent
  <2>1. PICK n \in 0..Len(batch) : log' = log \o SubSeq(batch, 1, n)
    BY <1>8, ServedPrefix
  <2>2. SubSeq(batch, 1, n) \in Seq(Message) /\ Len(SubSeq(batch, 1, n)) = n
    BY <1>1, SplitAt
  <2>3. n \in Nat /\ n <= Len(batch) /\ Len(log') = Len(log) + n BY <1>1, <2>1, <2>2
  <2>4. /\ mem.out = Len(log) /\ answered' /\ ServerACK' = Len(log')
        /\ mem' = mem /\ batch' = batch
    BY <1>8, ServedPrefix
  <2>5. mem'.out <= Len(log') /\ Len(log') <= mem'.out + Len(batch')
    BY <1>1, <2>3, <2>4
  <2> QED BY <2>4, <2>5 DEF InStep, SentUpTo
<1>9. CASE DispatchResynchronize \/ BoundQueue \/ Send \/ SendUrgent
  BY <1>5, <1>9 DEF DispatchResynchronize, Process, BoundQueue, Send, SendUrgent
<1>10. CASE Quiet BY <1>5, <1>10 DEF Quiet
<1> QED BY <1>6, <1>7, <1>8, <1>9, <1>10, SteadySteps

-----------------------------------------------------------------------------
(***************************************************************************)
(* One result for a command.                                               *)
(***************************************************************************)

\* The server numbers its commands by their position, and a command that is running or
\* answered has been processed, once.
Numbered == \A i \in DOMAIN outbox : outbox[i].type = "command" => outbox[i].id = i

Once ==
  /\ Numbered
  /\ running \cap issued = {}
  /\ \A c \in running \cup issued : c \in 1..Processed

LEMMA NumberedStep ==
  ASSUME TypeOK, TypeOK', Numbered, [Next]_vars PROVE Numbered'
<1>1. outbox \in Seq(Inbound) /\ outbox' \in Seq(Inbound) /\ Len(outbox) \in Nat
  BY DEF TypeOK
<1>2. CASE outbox' = outbox BY <1>2 DEF Numbered
<1>3. ASSUME NEW type, NEW id, NEW m,
             m.type = type, m.id = id, type = "command" => id = Len(outbox) + 1,
             outbox' = Append(outbox, m)
      PROVE  Numbered'
  <2>1. /\ DOMAIN outbox = 1..Len(outbox) /\ DOMAIN outbox' = 1..Len(outbox')
        /\ Len(outbox') = Len(outbox) + 1
        /\ outbox'[Len(outbox) + 1] = m
        /\ \A i \in 1..Len(outbox) : outbox'[i] = outbox[i]
    BY <1>1, <1>3
  <2>2. ASSUME NEW i \in DOMAIN outbox', outbox'[i].type = "command"
        PROVE  outbox'[i].id = i
    <3>1. CASE i \in 1..Len(outbox) BY <2>1, <2>2, <3>1 DEF Numbered
    <3>2. CASE i = Len(outbox) + 1 BY <1>3, <2>1, <2>2, <3>2
    <3> QED BY <1>1, <2>1, <3>1, <3>2
  <2> QED BY <2>2 DEF Numbered
<1>4. ASSUME NEW type, NEW id, type = "command" => id = Len(outbox) + 1,
             outbox' = Append(outbox, FromServer(type, id))
      PROVE  Numbered'
  <2>1. FromServer(type, id).type = type /\ FromServer(type, id).id = id
    BY DEF FromServer
  <2> QED BY <1>3, <1>4, <2>1
<1>5. CASE Order
  <2>1. CASE \/ outbox' = Append(outbox, FromServer("command", Len(outbox) + 1))
             \/ outbox' = Append(outbox, FromServer("resynchronize", Len(outbox) + 1))
             \/ outbox' = Append(outbox, FromServer("unsubscribed", 0))
    BY <1>4, <2>1
  <2>2. ASSUME NEW ts \in SUBSET Telemetry,
               outbox' = Append(outbox, [FromServer("accepted-types", 0)
                                           EXCEPT !.types = ts \cup {"register"}])
        PROVE  Numbered'
    <3>1. PICK m : m = [FromServer("accepted-types", 0)
                          EXCEPT !.types = ts \cup {"register"}]
      OBVIOUS
    <3>2. m.type = "accepted-types" /\ m.id = 0 BY <3>1 DEF FromServer
    <3> QED BY <1>3, <2>2, <3>1, <3>2
  <2> QED BY <1>5, <2>1, <2>2 DEF Order
<1>6. ASSUME NEW r \in Request, Serve(r) PROVE Numbered'
  <2>1. \/ outbox' = outbox
        \/ outbox' = Append(outbox, FromServer("unknown-id", 0))
        \/ outbox' = Append(outbox, FromServer("set-id", lastID + 1))
        \/ outbox' = Append(outbox, FromServer("registration", 0))
    BY <1>6 DEF Serve
  <2> QED BY <1>2, <1>4, <2>1
<1> QED BY <1>2, <1>5, <1>6, OutboxSteps

\* How far the client has come changes with Dispatch alone.
LEMMA LivelyProcessed ==
  ASSUME "crash" \notin Faults, TypeOK, Positions, Lively, [Next]_vars, ~Dispatch
  PROVE  /\ Processed' = Processed
         /\ running' \cup issued' \subseteq running \cup issued
         /\ running \cap issued = {} => running' \cap issued' = {}
<1>1. /\ mem.next \in Nat /\ Len(inbound) \in Nat /\ Len(reply.msgs) \in Nat
      /\ Len(<<>>) = 0
  <2>1. /\ mem.next \in Nat /\ inbound \in Seq(Inbound)
        /\ reply.msgs \in Seq(Inbound)
    BY Counters
  <2> QED BY ONLY <2>1
<1>2. pc # "dispatch" => inbound = <<>> BY DEF Positions
<1>3. CASE UNCHANGED <<mem, inbound, running, issued>> BY <1>3 DEF Processed
<1>4. CASE Load
  <2>1. mem' = mem /\ UNCHANGED <<inbound, running, issued>>
    BY <1>4 DEF Load, Lively
  <2> QED BY <1>3, <2>1
<1>5. CASE Acknowledge
  <2>1. /\ inbound = <<>> /\ inbound' = reply.msgs /\ UNCHANGED <<running, issued>>
        /\ mem'.next = mem.next + Len(reply.msgs)
    BY <1>2, <1>5 DEF Acknowledge, Received, TypeOK, State
  <2>2. Len(inbound) = 0 BY <2>1
  <2>3. Processed' = Processed BY <1>1, <2>1, <2>2 DEF Processed
  <2> QED BY <2>1, <2>3
<1>6. CASE SendUrgent
  <2>1. PICK c \in running : running' = running \ {c} /\ issued' = issued \cup {c}
    BY <1>6 DEF SendUrgent
  <2>2. Processed' = Processed BY <1>6 DEF SendUrgent, Processed
  <2> QED BY <2>1, <2>2
<1>7. CASE FinalDrain \/ Boot \/ Exit \/ ServeLate
  BY <1>3, <1>7 DEF FinalDrain, Boot, Exit, ServeLate, Lively
<1>8. CASE FaultStep
  <2>1. ~Crash
    <3>1. ~Fault("crash") BY DEF Fault
    <3> QED BY <3>1 DEF Crash, Lively
  <2> QED BY <1>3, <1>8, <2>1 DEF FaultStep, LoadFails, MarshalFails, PostFails,
             ReplyUndecodable, SaveStateFails, Forget, Stop
<1>9. CASE RunStep
  BY <1>3, <1>4, <1>5, <1>9 DEF RunStep, Drain, SaveState, BoundQueue, WriteSpool, Decide
<1>10. CASE \/ TimerFires \/ Woken \/ Send \/ TriggerExchange \/ PingFindsMessages
            \/ ServeCurrent \/ Order \/ UNCHANGED vars
  BY <1>3, <1>10 DEF TimerFires, Woken, Send, TriggerExchange, PingFindsMessages,
     ServeCurrent, Order, vars
<1> QED BY <1>6, <1>7, <1>8, <1>9, <1>10 DEF Next

\* So each command has one operation, and each operation one result.
LEMMA OnceKept ==
  ASSUME TypeOK, TypeOK', Positions, Once, [Next]_vars,
         ~Dispatch => /\ Processed' = Processed
                      /\ running' \cup issued' \subseteq running \cup issued
                      /\ running \cap issued = {} => running' \cap issued' = {}
  PROVE  Once'
<1>1. Numbered' BY NumberedStep DEF Once
<1>2. CASE ~Dispatch
  <2>1. /\ Processed' = Processed
        /\ running' \cup issued' \subseteq running \cup issued
        /\ running' \cap issued' = {}
    BY <1>2 DEF Once
  <2> QED BY <1>1, <2>1 DEF Once
<1>3. CASE Dispatch
  <2>1. /\ Processed \in Nat /\ Processed' = Processed + 1 /\ Processed < Len(outbox)
        /\ Head(inbound) = outbox[Processed + 1] /\ outbox \in Seq(Inbound)
    BY <1>3, DispatchAdvances
  <2>2. PICK k \in Nat : k = Processed BY <2>1
  <2>3. /\ \A i \in 1..k : i \in 1..(k + 1)
        /\ k + 1 \in 1..(k + 1) /\ k + 1 \notin 1..k /\ k + 1 \in DOMAIN outbox
    BY <2>1, <2>2
  <2>4. issued' = issued
    BY <1>3 DEF Dispatch, DispatchSetID, DispatchUnknownID, DispatchAcceptedTypes,
       DispatchResynchronize, DispatchCommand, DispatchLogged, Process
  <2>5. running' = running \/ running' = running \cup {k + 1}
    <3>1. CASE DispatchCommand
      <4>1. Head(inbound).type = "command" /\ running' = running \cup {Head(inbound).id}
        BY <3>1 DEF DispatchCommand, Process
      <4>2. Head(inbound).id = k + 1 BY <2>1, <2>2, <2>3, <4>1 DEF Once, Numbered
      <4> QED BY <4>1, <4>2
    <3> QED BY <1>3, <3>1 DEF Dispatch, DispatchSetID, DispatchUnknownID,
               DispatchAcceptedTypes, DispatchResynchronize, DispatchLogged
  <2>6. \A c \in running \cup issued : c \in 1..k BY <2>2 DEF Once
  <2>7. \A c \in running' \cup issued' : c \in 1..(k + 1) BY <2>3, <2>4, <2>5, <2>6
  <2>8. running' \cap issued' = {} BY <2>3, <2>4, <2>5, <2>6 DEF Once
  <2>9. Processed' = k + 1 BY <2>1, <2>2
  <2> QED BY <1>1, <2>7, <2>8, <2>9 DEF Once
<1> QED BY <1>2, <1>3

LEMMA OnceStep ==
  ASSUME "crash" \notin Faults, TypeOK, TypeOK', Positions, Lively, Once, [Next]_vars
  PROVE  Once'
BY OnceKept, LivelyProcessed

-----------------------------------------------------------------------------
(***************************************************************************)
(* What a step does to the results owed and taken.                         *)
(***************************************************************************)

\* The results of an empty queue, and of a message that is none.
LEMMA NoResults ==
  /\ Results(<<>>) = <<>>
  /\ \A m \in Message : m.type # "operation-result" => Results(<<m>>) = <<>>
  /\ \A n \in Nat : Results(<<Result(n)>>) = <<Result(n)>>
<1>1. Results(<<>>) = <<>>
  <2>1. <<>> \in Seq(Message) /\ \A i \in DOMAIN <<>> : ~IsUrgent(<<>>[i]) OBVIOUS
  <2> QED BY <2>1, ResultsNone
<1>2. ASSUME NEW m \in Message, m.type # "operation-result" PROVE Results(<<m>>) = <<>>
  BY <1>2, ResultsOfOne DEF IsUrgent
<1>3. ASSUME NEW n \in Nat PROVE Results(<<Result(n)>>) = <<Result(n)>>
  <2>1. Result(n) \in Message /\ IsUrgent(Result(n))
    BY ClientMessages DEF Result, IsUrgent
  <2> QED BY <2>1, ResultsOfOne
<1> QED BY <1>1, <1>2, <1>3

\* A queue's results are messages.
LEMMA ResultsType == ASSUME NEW q \in Seq(Message) PROVE Results(q) \in Seq(Message)
BY ResultsAreMembers

\* What is owed, when the server has the first n messages of the batch.
LEMMA OwedJoined ==
  ASSUME NEW b \in Seq(Message), NEW p \in Seq(Message), NEW n \in Nat, n <= Len(b)
  PROVE  /\ Results(SubSeq(b \o p, n + 1, Len(b \o p)))
              = Results(SubSeq(b, n + 1, Len(b))) \o Results(p)
         /\ SubSeq(b, n + 1, Len(b)) \in Seq(Message)
<1> DEFINE rest == SubSeq(b, n + 1, Len(b))
<1>1. rest \in Seq(Message)
  <2>1. n \in 0..Len(b) OBVIOUS
  <2> QED BY <2>1, SplitAt
<1>2. SubSeq(b \o p, n + 1, Len(b \o p)) = rest \o p BY JoinedTail
<1> HIDE DEF rest
<1>3. Results(rest \o p) = Results(rest) \o Results(p) BY <1>1, ResultsJoined
<1> QED BY <1>1, <1>2, <1>3 DEF rest

LEMMA OwedNow ==
  ASSUME TypeOK, InStep, NEW n \in Nat, n = Len(log) - mem.out
  PROVE  /\ n <= Len(batch) /\ SubSeq(batch, n + 1, Len(batch)) \in Seq(Message)
         /\ Owed = Results(SubSeq(batch, n + 1, Len(batch))) \o Results(pending)
<1>1. batch \in Seq(Message) /\ pending \in Seq(Message) BY DEF TypeOK
<1>2. n <= Len(batch)
  <2>1. mem.out \in Nat /\ Len(log) \in Nat /\ Len(batch) \in Nat BY QueueTypes
  <2> QED BY <2>1 DEF InStep, SentUpTo
<1>3. Owed = Results(SubSeq(batch \o pending, n + 1, Len(batch \o pending)))
  BY DEF Owed, Undelivered
<1> QED BY <1>1, <1>2, <1>3, OwedJoined

LEMMA OwedNext ==
  ASSUME TypeOK', InStep', NEW n \in Nat, n = Len(log') - mem'.out
  PROVE  Owed' = Results(SubSeq(batch', n + 1, Len(batch'))) \o Results(pending')
<1>1. batch' \in Seq(Message) /\ pending' \in Seq(Message) /\ log' \in Seq(Message)
  BY DEF TypeOK
<1>2. n <= Len(batch')
  <2>1. mem'.out \in Nat BY DEF TypeOK, State
  <2>2. Len(log') \in Nat /\ Len(batch') \in Nat BY <1>1
  <2>3. Len(log') <= mem'.out + Len(batch') BY DEF InStep, SentUpTo
  <2> QED BY <2>1, <2>2, <2>3
<1>3. Owed' = Results(SubSeq(batch' \o pending', n + 1, Len(batch' \o pending')))
  BY DEF Owed, Undelivered
<1> QED BY <1>1, <1>2, <1>3, OwedJoined

\* ... and when the server and the client agree.
LEMMA OwedAgreed ==
  /\ TypeOK /\ InStep /\ ~answered => Owed = Results(batch) \o Results(pending)
  /\ TypeOK' /\ InStep' /\ ~answered' => Owed' = Results(batch') \o Results(pending')
<1>1. ASSUME TypeOK, InStep, ~answered
      PROVE  Owed = Results(batch) \o Results(pending)
  <2>1. mem.out = Len(log) /\ Len(log) \in Nat /\ batch \in Seq(Message)
    BY <1>1, Counters DEF InStep
  <2>2. PICK n \in Nat : n = 0 /\ n = Len(log) - mem.out BY <2>1
  <2>3. SubSeq(batch, 1, Len(batch)) = batch BY <2>1, SubSeqFull
  <2>4. Owed = Results(SubSeq(batch, n + 1, Len(batch))) \o Results(pending)
    BY <1>1, <2>2, OwedNow
  <2>5. n + 1 = 1 BY <2>2
  <2> QED BY <2>3, <2>4, <2>5
<1>2. ASSUME TypeOK', InStep', ~answered'
      PROVE  Owed' = Results(batch') \o Results(pending')
  <2>1. mem'.out = Len(log') /\ log' \in Seq(Message) /\ batch' \in Seq(Message)
    BY <1>2 DEF InStep, TypeOK
  <2>2. PICK n \in Nat : n = 0 /\ n = Len(log') - mem'.out
    <3>1. Len(log') \in Nat BY <2>1
    <3> QED BY <2>1, <3>1
  <2>3. SubSeq(batch', 1, Len(batch')) = batch' BY <2>1, SubSeqFull
  <2>4. Owed' = Results(SubSeq(batch', n + 1, Len(batch'))) \o Results(pending')
    BY <1>2, <2>2, OwedNext
  <2>5. n + 1 = 1 BY <2>2
  <2> QED BY <2>3, <2>4, <2>5
<1> QED BY <1>1, <1>2

\* The register message and the filter leave the results of the queue alone.
LEMMA DrainKeepsResults ==
  ASSUME TypeOK PROVE Results(Drained) \o Results(LeftBehind) = Results(pending)
<1> DEFINE front == SubSeq(WithRegister, 1, BatchLen)
           K == {i \in DOMAIN front : PassesFilter(front[i], mem.accepted)}
<1>1. /\ WithRegister \in Seq(Message) /\ BatchLen \in 0..Len(WithRegister)
      /\ pending \in Seq(Message) /\ Results(pending) \in Seq(Message)
  BY DrainTypes, ResultsType DEF TypeOK
<1>2. /\ front \in Seq(Message) /\ LeftBehind \in Seq(Message)
      /\ WithRegister = front \o LeftBehind
  BY <1>1, SplitAt DEF LeftBehind
<1>3. Drained = Select(front, K) BY DEF Drained, DropUnaccepted
<1> HIDE DEF front
<1>4. Results(Select(front, K)) = Results(front)
  <2>1. K \subseteq DOMAIN front OBVIOUS
  <2>2. Urgent(front) \subseteq K
    BY DEF Urgent, IsUrgent, PassesFilter, AlwaysAccepted
  <2> HIDE DEF K
  <2> QED BY <1>2, <2>1, <2>2, ResultsSelected
<1>5. Results(WithRegister) = Results(front) \o Results(LeftBehind)
  BY <1>2, ResultsJoined
<1>6. Results(WithRegister) = Results(pending)
  <2>1. Register \in Message /\ Register.type # "operation-result"
    BY ClientMessages DEF Register
  <2>2. Results(<<Register>>) = <<>> BY <2>1, NoResults
  <2>3. Results(<<Register>> \o pending) = Results(<<Register>>) \o Results(pending)
    <3>1. <<Register>> \in Seq(Message) BY <2>1
    <3> QED BY <1>1, <3>1, ResultsJoined
  <2>4. <<>> \o Results(pending) = Results(pending) BY <1>1, ConcatEmptySeq
  <2> QED BY <2>2, <2>3, <2>4 DEF WithRegister
<1> QED BY <1>3, <1>4, <1>5, <1>6

\* Joining is associative, stated without the join.
Joins(w, s, t) == w = s \o t

LEMMA JoinJoin ==
  ASSUME NEW q \in Seq(Message), NEW s \in Seq(Message), NEW t \in Seq(Message),
         NEW a, NEW b, NEW x, NEW y, Joins(a, q, s), Joins(b, s, t),
         Joins(x, a, t), Joins(y, q, b)
  PROVE  x = y
<1>1. (q \o s) \o t = q \o (s \o t) BY ONLY ConcatAssociative
<1>2. a = q \o s /\ b = s \o t /\ x = a \o t /\ y = q \o b BY DEF Joins
<1> QED BY <1>1, <1>2, Zenon

\* A result more at the end of the queue.
LEMMA OwedAppended ==
  ASSUME TypeOK, TypeOK', InStep, InStep', NEW m \in Message,
         pending' = Append(pending, m), UNCHANGED <<batch, log, mem>>
  PROVE  Owed' = Owed \o Results(<<m>>)
<1>1. /\ mem.out \in Nat /\ Len(log) \in Nat /\ mem.out <= Len(log)
      /\ pending \in Seq(Message) /\ <<m>> \in Seq(Message)
  <2>1. mem.out \in Nat /\ Len(log) \in Nat BY Counters
  <2>2. mem.out <= Len(log) BY DEF InStep
  <2>3. pending \in Seq(Message) BY DEF TypeOK
  <2> QED BY <2>1, <2>2, <2>3
<1>2. PICK n \in Nat : n = Len(log) - mem.out BY <1>1
<1> DEFINE rest == SubSeq(batch, n + 1, Len(batch))
<1>3. rest \in Seq(Message) /\ Owed = Results(rest) \o Results(pending)
  BY <1>2, OwedNow
<1>4. Owed' = Results(rest) \o Results(pending')
  <2>1. n = Len(log') - mem'.out BY <1>2
  <2>2. Owed' = Results(SubSeq(batch', n + 1, Len(batch'))) \o Results(pending')
    BY <2>1, OwedNext
  <2> QED BY <2>2
<1> HIDE DEF rest
<1>5. pending' = pending \o <<m>> BY <1>1, AppendIsConcat
<1>6. Results(pending') = Results(pending) \o Results(<<m>>)
  BY <1>1, <1>5, ResultsJoined
<1>7. /\ Results(rest) \in Seq(Message) /\ Results(pending) \in Seq(Message)
      /\ Results(<<m>>) \in Seq(Message)
  BY <1>1, <1>3, ResultsType
<1> HIDE DEF Results
<1>8. PICK a \in Seq(Message), b \in Seq(Message), c \in Seq(Message) :
        a = Results(rest) /\ b = Results(pending) /\ c = Results(<<m>>)
  BY ONLY <1>7
<1>9. PICK o, y, z : o = Owed /\ y = Results(pending') /\ z = o \o c OBVIOUS
<1>10. Joins(o, a, b) /\ Joins(y, b, c) /\ Joins(z, o, c) /\ Joins(Owed', a, y)
  BY <1>3, <1>4, <1>6, <1>8, <1>9, Zenon DEF Joins
<1>11. PICK p : p = Owed' OBVIOUS
<1>12. z = p BY ONLY <1>10, <1>11, JoinJoin
<1> QED BY <1>8, <1>9, <1>11, <1>12, Zenon

\* Put, Deliver or neither.
OwedKept  == UNCHANGED <<Owed, Taken, issued>>
OwedGrows == \E c \in running : /\ Owed' = Append(Owed, Result(c))
                                /\ Taken' = Taken /\ issued' = issued \cup {c}
OwedTaken == \E s, t \in Seq(Message) :
               Owed = s \o t /\ Owed' = t /\ Taken' = Taken \o s /\ issued' = issued

\* The server takes a part of the batch, and the results in it.
LEMMA OwedServed ==
  ASSUME TypeOK, TypeOK', InStep, InStep', ServeCurrent PROVE OwedTaken
<1>1. PICK n \in 0..Len(batch) : log' = log \o SubSeq(batch, 1, n) BY ServedPrefix
<1>2. /\ mem.out = Len(log) /\ UNCHANGED <<mem, batch, pending, issued>> /\ ~answered
  BY ServedPrefix DEF ServeCurrent
<1>3. /\ batch \in Seq(Message) /\ pending \in Seq(Message) /\ log \in Seq(Message)
      /\ Len(log) \in Nat /\ n \in Nat
  BY Counters DEF TypeOK
<1> DEFINE front == SubSeq(batch, 1, n)
           rest == SubSeq(batch, n + 1, Len(batch))
<1>4. /\ front \in Seq(Message) /\ rest \in Seq(Message) /\ Len(front) = n
      /\ batch = front \o rest
  BY <1>3, SplitAt
<1>5. Owed' = Results(rest) \o Results(pending)
  <2>1. Len(log') = Len(log) + n
    <3>1. PICK q, f \in Seq(Message) : q = log /\ f = front BY <1>3, <1>4
    <3>2. Len(q \o f) = Len(q) + Len(f) BY ONLY TRUE
    <3>3. Len(f) = n BY <1>4, <3>1, Zenon
    <3>4. log' = q \o f BY <1>1, <3>1, Zenon
    <3> QED BY ONLY <3>1, <3>2, <3>3, <3>4
  <2>2. n = Len(log') - mem'.out
    <3>1. PICK k \in Nat, j \in Nat : k = Len(log) /\ j = n BY <1>3
    <3>2. Len(log') = k + j /\ mem'.out = k BY <1>2, <2>1, <3>1
    <3> QED BY ONLY <3>1, <3>2
  <2>3. Owed' = Results(SubSeq(batch', n + 1, Len(batch'))) \o Results(pending')
    BY <1>3, <2>2, OwedNext
  <2> QED BY <1>2, <2>3
<1>6. Owed = Results(batch) \o Results(pending) BY <1>2, OwedAgreed
<1> HIDE DEF front, rest
<1>7. /\ Results(batch) = Results(front) \o Results(rest)
      /\ Taken' = Taken \o Results(front)
  <2>1. Results(front \o rest) = Results(front) \o Results(rest)
    BY <1>4, ResultsJoined
  <2>2. Results(log \o front) = Results(log) \o Results(front)
    BY <1>3, <1>4, ResultsJoined
  <2>3. log' = log \o front BY <1>1 DEF front
  <2> QED BY <1>4, <2>1, <2>2, <2>3 DEF Taken
<1>8. /\ Results(front) \in Seq(Message) /\ Results(rest) \in Seq(Message)
      /\ Results(pending) \in Seq(Message)
  BY <1>3, <1>4, ResultsType
<1>9. Owed = Results(front) \o Owed'
  <2>1. PICK a \in Seq(Message), b \in Seq(Message), c \in Seq(Message) :
          a = Results(front) /\ b = Results(rest) /\ c = Results(pending)
    BY <1>8
  <2>2. PICK x, y : x = Results(batch) /\ y = Owed' OBVIOUS
  <2>3. PICK z, o : z = a \o y /\ o = Owed OBVIOUS
  <2>4. Joins(x, a, b) /\ Joins(y, b, c) /\ Joins(z, a, y) /\ Joins(o, x, c)
    BY <1>5, <1>6, <1>7, <2>1, <2>2, <2>3, Zenon DEF Joins
  <2>5. o = z BY ONLY <2>4, JoinJoin
  <2> QED BY <2>1, <2>2, <2>3, <2>5, Zenon
<1> HIDE DEF Results
<1>10. Owed' \in Seq(Message)
  <2>1. PICK b \in Seq(Message), c \in Seq(Message) :
          b = Results(rest) /\ c = Results(pending)
    BY <1>8
  <2>2. b \o c \in Seq(Message) BY ONLY TRUE
  <2> QED BY <1>5, <2>1, <2>2
<1> QED BY <1>2, <1>5, <1>7, <1>8, <1>9, <1>10 DEF OwedTaken

\* What is not acknowledged goes back to the queue's front: nothing else changes.
LEMMA OwedAcknowledged ==
  ASSUME TypeOK, TypeOK', Positions, InStep, InStep', Acknowledge PROVE OwedKept
<1>1. /\ mem.out \in Nat /\ Len(log) \in Nat /\ Len(batch) \in Nat
      /\ batch \in Seq(Message) /\ pending \in Seq(Message)
  <2>1. mem.out \in Nat /\ Len(log) \in Nat /\ Len(batch) \in Nat BY Counters
  <2>2. batch \in Seq(Message) /\ pending \in Seq(Message) BY DEF TypeOK
  <2> QED BY <2>1, <2>2
<1>2. /\ mem.out <= Len(log) /\ Len(log) <= mem.out + Len(batch) /\ ServerACK = Len(log)
      /\ SentUpTo = mem.out + Len(batch)
  BY DEF InStep, Acknowledge, SentUpTo
<1>3. PICK n \in Nat : n = Len(log) - mem.out BY <1>1, <1>2
<1> DEFINE rest == SubSeq(batch, n + 1, Len(batch))
<1>4. rest \in Seq(Message) /\ Owed = Results(rest) \o Results(pending)
  BY <1>3, OwedNow
<1>5. NAcked = n BY <1>1, <1>2, <1>3 DEF NAcked
<1>6. pending' = rest \o pending
  <2>1. CASE ServerACK < SentUpTo BY <1>5, <2>1 DEF Acknowledge
  <2>2. CASE ~(ServerACK < SentUpTo)
    <3>1. n + 1 \in Int /\ Len(batch) \in Int /\ Len(batch) < n + 1
      BY <1>1, <1>2, <1>3, <2>2
    <3>2. rest = <<>> BY <3>1, SubSeqEmpty
    <3>3. <<>> \o pending = pending BY <1>1, ConcatEmptySeq
    <3> QED BY <2>2, <3>2, <3>3 DEF Acknowledge
  <2> QED BY <2>1, <2>2
<1> HIDE DEF rest
<1>7. Owed' = Results(pending')
  <2>1. ~answered' /\ batch' = <<>> /\ pending' \in Seq(Message)
    BY DEF Acknowledge, CallEnds, TypeOK
  <2>2. Owed' = Results(batch') \o Results(pending') BY <2>1, OwedAgreed
  <2>3. Results(pending') \in Seq(Message) BY <2>1, ResultsType
  <2>4. <<>> \o Results(pending') = Results(pending') BY <2>3, ConcatEmptySeq
  <2> QED BY <2>1, <2>2, <2>4, NoResults
<1>8. Results(rest \o pending) = Results(rest) \o Results(pending)
  BY <1>1, <1>4, ResultsJoined
<1>9. UNCHANGED <<log, issued>> BY DEF Acknowledge
<1> QED BY <1>4, <1>6, <1>7, <1>8, <1>9 DEF OwedKept, Taken

\* Steps of a loop that has no batch under way, and the batch put back.
LEMMA OwedRequeued ==
  ASSUME TypeOK, TypeOK', Positions, Steady, InStep, InStep',
         \/ Drain \/ BoundQueue \/ DispatchResynchronize \/ (PostFails /\ ~answered)
  PROVE  OwedKept
<1>1. batch \in Seq(Message) /\ pending \in Seq(Message) /\ Results(pending) \in Seq(Message)
  BY ResultsType DEF TypeOK
<1>2. ~answered /\ ~answered'
  BY DEF Drain, BoundQueue, DispatchResynchronize, Process, PostFails, CallEnds, Positions
<1>3. /\ Owed = Results(batch) \o Results(pending)
      /\ Owed' = Results(batch') \o Results(pending')
  BY <1>2, OwedAgreed
<1>4. UNCHANGED <<log, issued>>
  BY DEF Drain, BoundQueue, DispatchResynchronize, Process, PostFails
<1>5. <<>> \o Results(pending) = Results(pending) BY <1>1, ConcatEmptySeq
<1>6. ASSUME batch = <<>>, Results(batch') \o Results(pending') = Results(pending)
      PROVE  OwedKept
  BY <1>3, <1>4, <1>5, <1>6, NoResults DEF OwedKept, Taken
<1>7. CASE Drain
  <2>1. batch = <<>> /\ batch' = Drained /\ pending' = LeftBehind
    BY <1>7 DEF Drain, Steady, Lively
  <2> QED BY <1>6, <2>1, DrainKeepsResults
<1>8. CASE BoundQueue
  <2>1. batch = <<>> /\ batch' = <<>> /\ pending' = Select(pending, Retained(pending))
    BY <1>8 DEF BoundQueue, Steady, Lively, EnforceQueueBound
  <2>2. Retained(pending) \subseteq DOMAIN pending BY DEF Retained
  <2>3. Urgent(pending) \subseteq Retained(pending) BY DEF Retained, Urgent
  <2>4. Results(Select(pending, Retained(pending))) = Results(pending)
    BY <1>1, <2>2, <2>3, ResultsSelected
  <2> QED BY <1>5, <1>6, <2>1, <2>4, NoResults
<1>9. CASE DispatchResynchronize
  <2>1. /\ batch = <<>> /\ batch' = <<>>
        /\ pending' = <<ResyncAck(Head(inbound).id)>> \o pending
    BY <1>9 DEF DispatchResynchronize, Process, Steady, Lively
  <2>2. PICK m : m = ResyncAck(Head(inbound).id) OBVIOUS
  <2>3. m \in Message /\ m.type # "operation-result"
    <3>1. Head(inbound) \in Inbound
      <4>1. inbound \in Seq(Inbound) /\ inbound # <<>>
        BY <1>9 DEF TypeOK, DispatchResynchronize, Process
      <4> QED BY <4>1, HeadTailProperties
    <3>2. Head(inbound).id \in Nat BY <3>1 DEF Inbound
    <3> QED BY <2>2, <3>2, ClientMessages DEF ResyncAck
  <2>4. Results(<<m>> \o pending) = Results(<<m>>) \o Results(pending)
    <3>1. <<m>> \in Seq(Message) BY <2>3
    <3> QED BY <1>1, <3>1, ResultsJoined
  <2>5. Results(<<m>>) = <<>> BY <2>3, NoResults
  <2>6. Results(pending') = Results(pending) BY <1>5, <2>1, <2>2, <2>4, <2>5
  <2> QED BY <1>5, <1>6, <2>1, <2>6, NoResults
<1>10. CASE PostFails /\ ~answered
  <2>1. batch' = <<>> /\ pending' = batch \o pending BY <1>10 DEF PostFails
  <2>2. Results(batch \o pending) = Results(batch) \o Results(pending)
    BY <1>1, ResultsJoined
  <2>3. pending' \in Seq(Message) BY DEF TypeOK
  <2>4. Results(pending') \in Seq(Message) BY <2>3, ResultsType
  <2>5. <<>> \o Results(pending') = Results(pending') BY <2>4, ConcatEmptySeq
  <2>6. Owed' = Owed BY <1>3, <2>1, <2>2, <2>5, NoResults
  <2> QED BY <1>4, <2>6 DEF OwedKept, Taken
<1> QED BY <1>7, <1>8, <1>9, <1>10

LEMMA OwedType ==
  ASSUME TypeOK, Positions PROVE Owed \in Seq(Message) /\ Taken \in Seq(Message)
<1>1. /\ mem.out \in Nat /\ Len(log) \in Nat /\ mem.out <= Len(log)
      /\ batch \o pending \in Seq(Message) /\ log \in Seq(Message)
  BY QueueTypes DEF Positions
<1> DEFINE h == batch \o pending
<1>2. /\ h \in Seq(Message) /\ Len(log) - mem.out + 1 \in Nat \ {0}
      /\ Len(h) \in Int /\ Len(h) <= Len(h)
  BY <1>1
<1> HIDE DEF h
<1>3. SubSeq(h, Len(log) - mem.out + 1, Len(h)) \in Seq(Message) BY <1>2, Slice
<1>4. Undelivered \in Seq(Message) BY <1>3 DEF h, Undelivered
<1> QED BY <1>1, <1>4, ResultsType DEF Owed, Taken

LEMMA OwedStep ==
  ASSUME NothingIsLost, TypeOK, TypeOK', Positions, Steady, InStep, [Next]_vars
  PROVE  OwedKept \/ OwedGrows \/ OwedTaken
<1>1. InStep' BY InStepStep
<1>2. CASE ServeCurrent BY <1>1, <1>2, OwedServed
<1>3. CASE Acknowledge BY <1>1, <1>3, OwedAcknowledged
<1>4. CASE Drain \/ BoundQueue \/ DispatchResynchronize \/ (PostFails /\ ~answered)
  BY <1>1, <1>4, OwedRequeued
<1>5. CASE Send
  <2>1. PICK t \in Telemetry : pending' = Append(pending, Telemetric(t, sent + 1))
    BY <1>5 DEF Send
  <2>2. PICK m : m = Telemetric(t, sent + 1) OBVIOUS
  <2>3. m \in Message /\ m.type # "operation-result"
    <3>1. sent + 1 \in Nat BY DEF TypeOK
    <3> QED BY <2>2, <3>1, ClientMessages, ExchangeAssumptions
            DEF Telemetric, ProtocolTypes
  <2>4. UNCHANGED <<batch, log, mem, issued>> BY <1>5 DEF Send
  <2>5. Owed' = Owed \o Results(<<m>>)
    BY <1>1, <2>1, <2>2, <2>3, <2>4, OwedAppended
  <2>6. Owed \in Seq(Message) BY OwedType
  <2>7. Owed' = Owed BY <2>3, <2>5, <2>6, NoResults, ConcatEmptySeq
  <2> QED BY <2>4, <2>7 DEF OwedKept, Taken
<1>6. CASE SendUrgent
  <2>1. PICK c \in running : pending' = Append(pending, Result(c)) /\ issued' = issued \cup {c}
    BY <1>6 DEF SendUrgent
  <2>2. c \in Nat /\ Result(c) \in Message BY ClientMessages DEF TypeOK
  <2>3. UNCHANGED <<batch, log, mem>> BY <1>6 DEF SendUrgent
  <2>4. Owed' = Owed \o Results(<<Result(c)>>) BY <1>1, <2>1, <2>2, <2>3, OwedAppended
  <2>5. Results(<<Result(c)>>) = <<Result(c)>> BY <2>2, NoResults
  <2>6. Owed' = Append(Owed, Result(c))
    <3>1. Owed \in Seq(Message) BY OwedType
    <3> QED BY <2>2, <2>4, <2>5, <3>1, AppendIsConcat
  <2>7. Taken' = Taken BY <2>3 DEF Taken
  <2> QED BY <2>1, <2>6, <2>7 DEF OwedGrows
<1>7. CASE Quiet
  <2>1. Undelivered' = Undelivered BY <1>7 DEF Quiet, Undelivered
  <2>2. Taken' = Taken /\ issued' = issued BY <1>7 DEF Quiet, Taken
  <2> QED BY <2>1, <2>2 DEF OwedKept, Owed
<1> QED BY <1>2, <1>3, <1>4, <1>5, <1>6, <1>7, SteadySteps

-----------------------------------------------------------------------------
(***************************************************************************)
(* The promise: every result given to SendUrgent is owed or taken, none    *)
(* twice, and the server takes the oldest.                                 *)
(***************************************************************************)
Accounted == Members(Owed) \cup Members(Taken) = {Result(c) : c \in issued}

\* The loop and the server of an instance that loses nothing.
Delivering == Steady /\ InStep /\ Once /\ Accounted

LEMMA AccountedStep ==
  ASSUME TypeOK, Positions, Accounted, OwedKept \/ OwedGrows \/ OwedTaken
  PROVE  Accounted'
<1>1. /\ Owed \in Seq(Message) /\ Taken \in Seq(Message)
      /\ Members(Owed) \cup Members(Taken) = {Result(c) : c \in issued}
  BY OwedType DEF Accounted
<1>2. CASE OwedKept BY <1>1, <1>2 DEF OwedKept, Accounted, Members
<1>3. CASE OwedGrows
  <2>1. PICK c \in running :
          Owed' = Append(Owed, Result(c)) /\ Taken' = Taken /\ issued' = issued \cup {c}
    BY <1>3 DEF OwedGrows
  <2>2. Result(c) \in Message BY ClientMessages DEF TypeOK
  <2>3. PICK m \in Message : m = Result(c) BY <2>2
  <2>4. Owed' = Owed \o <<m>>
    <3>1. PICK q \in Seq(Message) : q = Owed BY <1>1
    <3>2. Append(q, m) = q \o <<m>> BY ONLY AppendIsConcat
    <3> QED BY <2>1, <2>3, <3>1, <3>2
  <2>5. Members(Owed \o <<m>>) = Members(Owed) \cup Members(<<m>>)
    <3> <<m>> \in Seq(Message) OBVIOUS
    <3>1. PICK q, e \in Seq(Message) : q = Owed /\ e = <<m>> BY <1>1
    <3>2. Members(q \o e) = Members(q) \cup Members(e) BY ONLY MembersJoined
    <3> QED BY ONLY <3>1, <3>2
  <2>6. Members(<<m>>) = {m} BY DEF Members
  <2>7. Members(Owed)' = Members(Owed) \cup {m} BY <2>4, <2>5, <2>6 DEF Members
  <2>8. Members(Taken)' = Members(Taken) BY <2>1 DEF Members
  <2> QED BY <1>1, <2>1, <2>3, <2>7, <2>8 DEF Accounted
<1>4. CASE OwedTaken
  <2>1. PICK s \in Seq(Message), t \in Seq(Message) :
          Owed = s \o t /\ Owed' = t /\ Taken' = Taken \o s /\ issued' = issued
    BY <1>4 DEF OwedTaken
  <2>2. Members(Owed) = Members(s) \cup Members(t) BY <2>1, MembersJoined
  <2>3. Members(Taken \o s) = Members(Taken) \cup Members(s)
    BY <1>1, MembersJoined
  <2>4. Members(Owed)' = Members(t) /\ Members(Taken)' = Members(Taken \o s)
    BY <2>1 DEF Members
  <2> QED BY <1>1, <2>1, <2>2, <2>3, <2>4 DEF Accounted
<1> QED BY <1>2, <1>3, <1>4

LEMMA DeliveringStep ==
  ASSUME NothingIsLost, TypeOK, TypeOK', Positions, Delivering, [Next]_vars
  PROVE  Delivering'
<1>1. Steady' /\ InStep' BY SteadySteps, InStepStep DEF Delivering
<1>2. Once' BY OnceStep DEF Delivering, Steady, NothingIsLost
<1>3. Accounted' BY OwedStep, AccountedStep DEF Delivering
<1> QED BY <1>1, <1>2, <1>3 DEF Delivering

LEMMA DeliveringInit == Init => Delivering
<1> SUFFICES ASSUME Init PROVE Delivering OBVIOUS
<1>1. TypeOK /\ Positions BY TypeInit, PositionsInit
<1>2. /\ pc = "load" /\ ~final /\ ~stopping /\ late = {} /\ spool = <<>> /\ mem = disk
      /\ batch = <<>> /\ log = <<>> /\ mem.out = 0 /\ ~answered /\ pending = <<>>
      /\ outbox = <<>> /\ running = {} /\ issued = {}
  BY DEF Init, FreshState
<1>3. Steady BY <1>2 DEF Steady, Lively
<1>4. InStep
  <2>1. Len(log) = 0 /\ Len(batch) = 0 BY <1>2
  <2> QED BY <1>2, <2>1 DEF InStep, SentUpTo
<1>5. Once BY <1>2 DEF Once, Numbered
<1>6. Owed = <<>> /\ Taken = <<>>
  <2>1. Owed = Results(batch) \o Results(pending) BY <1>1, <1>2, <1>4, OwedAgreed
  <2>2. Results(batch) = <<>> /\ Results(pending) = <<>> /\ Taken = <<>>
    BY <1>2, NoResults DEF Taken
  <2> QED BY <2>1, <2>2
<1>7. Accounted BY <1>2, <1>6 DEF Accounted, Members
<1> QED BY <1>3, <1>4, <1>5, <1>7 DEF Delivering

\* A result that is owed is in the queue or in the batch.
LEMMA OwedIsHeld ==
  ASSUME TypeOK, Positions
  PROVE  Members(Owed) \subseteq Members(batch) \cup Members(pending)
<1>1. /\ batch \in Seq(Message) /\ pending \in Seq(Message)
      /\ mem.out \in Nat /\ Len(log) \in Nat /\ mem.out <= Len(log)
  BY QueueTypes DEF Positions
<1>2. PICK h \in Seq(Message) : h = batch \o pending
  <2>1. batch \o pending \in Seq(Message) BY <1>1
  <2> QED BY <2>1
<1>3. PICK a \in Nat \ {0} : a = Len(log) - mem.out + 1
  <2>1. Len(log) - mem.out + 1 \in Nat \ {0} BY ONLY <1>1
  <2> QED BY <2>1
<1>4. Undelivered = SubSeq(h, a, Len(h)) BY <1>2, <1>3 DEF Undelivered
<1>5. /\ Undelivered \in Seq(Message)
      /\ Len(Undelivered) = IF a <= Len(h) THEN Len(h) - a + 1 ELSE 0
      /\ \A i \in 1..Len(Undelivered) : Undelivered[i] = h[a + i - 1]
  <2>1. Len(h) \in Int /\ Len(h) <= Len(h) BY <1>2
  <2> QED BY <1>4, <2>1, Slice
<1>6. Members(Undelivered) \subseteq Members(h)
  <2>1. ASSUME NEW i \in DOMAIN Undelivered PROVE Undelivered[i] \in Members(h)
    <3>1. i \in 1..Len(Undelivered) BY <1>5
    <3>2. a + i - 1 \in DOMAIN h BY <1>5, <3>1
    <3> QED BY <1>5, <3>1, <3>2 DEF Members
  <2> QED BY <2>1 DEF Members
<1>7. Members(h) = Members(batch) \cup Members(pending) BY <1>1, <1>2, MembersJoined
<1>8. Members(Owed) \subseteq Members(Undelivered) BY <1>5, ResultsAreMembers DEF Owed
<1> QED BY <1>6, <1>7, <1>8

\* What is accounted for is kept.
LEMMA AccountedIsKept ==
  ASSUME TypeOK, Positions, Accounted PROVE ResultsKept
<1> SUFFICES ASSUME NEW c \in issued PROVE Result(c) \in Members(log) \cup Held
  BY DEF ResultsKept
<1>1. Result(c) \in Members(Owed) \cup Members(Taken) BY DEF Accounted
<1>2. Members(Owed) \subseteq Members(batch) \cup Members(pending) BY OwedIsHeld
<1>3. Members(Taken) \subseteq Members(log)
  <2>1. log \in Seq(Message) BY DEF TypeOK
  <2> QED BY <2>1, ResultsAreMembers DEF Taken
<1> QED BY <1>1, <1>2, <1>3 DEF Held

\* While no failure loses a reply, a batch, the queue or the process, an operation
\* result is in the queue, in the batch or with the server from the moment SendUrgent
\* has it: whatever the queue bound drops, the filter drops, the server takes a part
\* of, refuses, or answers (performExchange, enforceQueueBound, queue.go).
THEOREM ResultsAreKept ==
  ASSUME NothingIsLost PROVE Spec => []ResultsKept
<1>1. TypeOK /\ TypeOK' /\ Positions /\ Delivering /\ [Next]_vars => Delivering'
  BY DeliveringStep
<1>2. TypeOK /\ Positions /\ Delivering => ResultsKept
  BY AccountedIsKept DEF Delivering
<1> QED BY <1>1, <1>2, DeliveringInit, TypeCorrect, PositionsAgree, PTL DEF Spec

\* A queue and its first part.
LEMMA TakenFirst ==
  ASSUME NEW s \in Seq(Message), NEW t \in Seq(Message), s # <<>>
  PROVE  \E n \in 1..Len(s \o t) :
           s = SubSeq(s \o t, 1, n) /\ t = SubSeq(s \o t, n + 1, Len(s \o t))
<1>1. /\ Len(s) \in Nat \ {0} /\ Len(t) \in Nat /\ Len(s \o t) = Len(s) + Len(t)
  OBVIOUS
<1>2. PICK n \in Nat : n = Len(s) BY <1>1
<1>3. n \in 1..Len(s \o t) /\ n <= Len(s) BY <1>1, <1>2
<1>4. SubSeq(s \o t, n + 1, Len(s \o t)) = t
  <2>1. SubSeq(s \o t, n + 1, Len(s \o t)) = SubSeq(s, n + 1, Len(s)) \o t
    BY <1>3, JoinedTail
  <2>2. SubSeq(s, n + 1, Len(s)) = <<>>
    <3>1. n + 1 \in Int /\ Len(s) \in Int /\ Len(s) < n + 1 BY <1>1, <1>2
    <3> QED BY <3>1, SubSeqEmpty
  <2> QED BY <2>1, <2>2, ConcatEmptySeq
<1>5. SubSeq(s \o t, 1, n) = s
  <2>1. 1 \in 1..Len(s) /\ n \in 1..Len(s) BY <1>1, <1>2
  <2>2. SubSeq(s \o t, 1, n) = SubSeq(s, 1, n) BY <2>1, SubSeqOfConcat1
  <2>3. SubSeq(s, 1, Len(s)) = s BY SubSeqFull
  <2> QED BY <1>2, <2>2, <2>3
<1> QED BY <1>3, <1>4, <1>5

\* A step puts a result that nobody gave before, delivers the oldest, or does neither.
LEMMA PromiseStep ==
  ASSUME TypeOK, Positions, Once, Accounted, OwedKept \/ OwedGrows \/ OwedTaken
  PROVE  [Promise!Next]_<<Results(Undelivered), Results(log)>>
<1>1. Owed \in Seq(Message) /\ Taken \in Seq(Message)
  BY OwedType
<1>2. CASE OwedKept BY <1>2 DEF OwedKept, Owed, Taken
<1>3. CASE OwedGrows
  <2>1. PICK c \in running : Owed' = Append(Owed, Result(c)) /\ Taken' = Taken
    BY <1>3 DEF OwedGrows
  <2>2. c \in Nat /\ c \notin issued BY DEF TypeOK, Once
  <2>3. Result(c) \in Message BY <2>2, ClientMessages
  <2>4. Result(c) \notin Members(Owed) \cup Members(Taken)
    <3>1. \A d \in issued : Result(c) # Result(d) BY <2>2 DEF Result
    <3> QED BY <3>1 DEF Accounted
  <2>5. PICK m \in Message : m = Result(c) BY <2>3
  <2>6. PICK q \in Seq(Message) : q = Owed BY <1>1
  <2>7. /\ Len(Append(q, m)) = Len(q) + 1 /\ SubSeq(Append(q, m), 1, Len(q)) = q
        /\ Append(q, m)[Len(Append(q, m))] = m
    <3>1. StartsWith(Append(q, m), q) BY StartItself, StartKept
    <3> QED BY <3>1 DEF StartsWith
  <2>8. /\ \A i \in DOMAIN Owed : Owed[i] # m
        /\ \A i \in DOMAIN Taken : Taken[i] # m
    BY <2>4, <2>5 DEF Members
  <2>9. /\ Len(Owed') = Len(Owed) + 1 /\ SubSeq(Owed', 1, Len(Owed)) = Owed
        /\ Owed'[Len(Owed')] = m
    BY <2>1, <2>5, <2>6, <2>7
  <2>10. Promise!Put BY <2>1, <2>8, <2>9 DEF Promise!Put, Promise!In, Owed, Taken
  <2> QED BY <2>10 DEF Promise!Next
<1>4. CASE OwedTaken
  <2>1. PICK s \in Seq(Message), t \in Seq(Message) :
          Owed = s \o t /\ Owed' = t /\ Taken' = Taken \o s
    BY <1>4 DEF OwedTaken
  <2>2. CASE s = <<>>
    <3>1. Owed' = Owed /\ Taken' = Taken BY <1>1, <2>1, <2>2, ConcatEmptySeq
    <3> QED BY <3>1 DEF Owed, Taken
  <2>3. CASE s # <<>>
    <3>1. PICK n \in 1..Len(s \o t) :
            s = SubSeq(s \o t, 1, n) /\ t = SubSeq(s \o t, n + 1, Len(s \o t))
      BY <2>3, TakenFirst
    <3>2. /\ n \in 1..Len(Owed) /\ Taken' = Taken \o SubSeq(Owed, 1, n)
          /\ Owed' = SubSeq(Owed, n + 1, Len(Owed))
      BY <2>1, <3>1
    <3>3. Promise!Deliver BY <3>2 DEF Promise!Deliver, Owed, Taken
    <3> QED BY <3>3 DEF Promise!Next
  <2> QED BY <2>2, <2>3
<1> QED BY <1>2, <1>3, <1>4

\* The exchange loop implements the delivery it promises: the server gets every
\* operation result once and in the order of SendUrgent, through partial
\* acknowledgements, batches put back, filtering, trimming, registration,
\* resynchronization and failed writes (Exchange.Run, performExchange).
THEOREM ExchangeImplementsDelivery ==
  ASSUME NothingIsLost PROVE Spec => DeliversOnceInOrder
<1>1. Init => Promise!Init
  <2> SUFFICES ASSUME Init PROVE Promise!Init OBVIOUS
  <2>1. TypeOK /\ Delivering BY TypeInit, DeliveringInit
  <2>2. pending = <<>> /\ batch = <<>> /\ log = <<>> /\ ~answered BY DEF Init
  <2>3. Owed = Results(batch) \o Results(pending) BY <2>1, <2>2, OwedAgreed DEF Delivering
  <2>4. Owed = <<>> /\ Taken = <<>> BY <2>2, <2>3, NoResults DEF Taken
  <2> QED BY <2>4 DEF Promise!Init, Owed, Taken
<1>2. TypeOK /\ TypeOK' /\ Positions /\ Delivering /\ [Next]_vars => Delivering'
  BY DeliveringStep
<1>3. TypeOK /\ TypeOK' /\ Positions /\ Delivering /\ [Next]_vars
        => [Promise!Next]_<<Results(Undelivered), Results(log)>>
  BY OwedStep, PromiseStep DEF Delivering
<1> QED BY <1>1, <1>2, <1>3, DeliveringInit, TypeCorrect, PositionsAgree, PTL
        DEF Spec, DeliversOnceInOrder, Promise!Spec

-----------------------------------------------------------------------------
(***************************************************************************)
(* Stretches of a queue.                                                   *)
(***************************************************************************)

\* The end of a joined queue is the end of the second.
LEMMA TailOfJoin ==
  ASSUME NEW S, NEW s \in Seq(S), NEW t \in Seq(S), NEW n \in Nat, n <= Len(t)
  PROVE  SubSeq(s \o t, Len(s) + n + 1, Len(s \o t)) = SubSeq(t, n + 1, Len(t))
<1>1. /\ Len(s) \in Nat /\ Len(t) \in Nat /\ s \o t \in Seq(S)
      /\ Len(s \o t) = Len(s) + Len(t)
  OBVIOUS
<1>2. CASE n = Len(t)
  <2>1. SubSeq(t, n + 1, Len(t)) = <<>>
    <3>1. n + 1 \in Int /\ Len(t) \in Int /\ Len(t) < n + 1 BY <1>1, <1>2
    <3> QED BY <3>1, SubSeqEmpty
  <2>2. SubSeq(s \o t, Len(s) + n + 1, Len(s \o t)) = <<>>
    <3>1. /\ Len(s) + n + 1 \in Int /\ Len(s \o t) \in Int
          /\ Len(s \o t) < Len(s) + n + 1
      BY <1>1, <1>2
    <3> QED BY <3>1, SubSeqEmpty
  <2> QED BY <2>1, <2>2
<1>3. CASE n # Len(t)
  <2>1. PICK a : a = Len(s) + n + 1 OBVIOUS
  <2>2. PICK b : b = Len(s) + Len(t) OBVIOUS
  <2>3. a \in Len(s) + 1 .. Len(s) + Len(t) /\ b \in Len(s) + 1 .. Len(s) + Len(t)
    BY <1>1, <1>3, <2>1, <2>2
  <2>4. SubSeq(s \o t, a, b) = SubSeq(t, a - Len(s), b - Len(s))
    BY <2>3, SubSeqOfConcat2
  <2>5. a - Len(s) = n + 1 /\ b - Len(s) = Len(t) BY <1>1, <2>1, <2>2
  <2> QED BY <1>1, <2>1, <2>2, <2>4, <2>5
<1> QED BY <1>2, <1>3

\* A prefix by its messages.
LEMMA PrefixEqual ==
  ASSUME NEW S, NEW q \in Seq(S), NEW p \in Seq(S), Len(p) <= Len(q),
         \A i \in 1..Len(p) : p[i] = q[i]
  PROVE  p = SubSeq(q, 1, Len(p))
<1> DEFINE f == SubSeq(q, 1, Len(p))
<1>1. f \in Seq(S) /\ Len(f) = Len(p) /\ \A i \in 1..Len(p) : f[i] = q[i]
  <2>1. 1 \in Nat \ {0} /\ Len(p) \in Int /\ Len(p) <= Len(q) /\ Len(p) \in Nat OBVIOUS
  <2>2. /\ SubSeq(q, 1, Len(p)) \in Seq(S)
        /\ Len(SubSeq(q, 1, Len(p))) = IF 1 <= Len(p) THEN Len(p) - 1 + 1 ELSE 0
        /\ \A i \in 1..Len(SubSeq(q, 1, Len(p))) :
             SubSeq(q, 1, Len(p))[i] = q[1 + i - 1]
    BY <2>1, Slice
  <2> QED BY <2>1, <2>2
<1> HIDE DEF f
<1>2. Len(p) = Len(f) /\ \A i \in 1..Len(p) : p[i] = f[i] BY <1>1
<1>3. p = f BY ONLY <1>1, <1>2, p \in Seq(S), SeqEqual
<1> QED BY <1>3 DEF f

\* ... and the messages of a prefix.
LEMMA PrefixMessages ==
  ASSUME NEW S, NEW q \in Seq(S), NEW n \in 0..Len(q)
  PROVE  /\ SubSeq(q, 1, n) \in Seq(S) /\ Len(SubSeq(q, 1, n)) = n
         /\ \A i \in 1..n : SubSeq(q, 1, n)[i] = q[i]
<1>1. 1 \in Nat \ {0} /\ n \in Int /\ n <= Len(q) /\ n \in Nat OBVIOUS
<1>2. /\ SubSeq(q, 1, n) \in Seq(S)
      /\ Len(SubSeq(q, 1, n)) = IF 1 <= n THEN n - 1 + 1 ELSE 0
      /\ \A i \in 1..Len(SubSeq(q, 1, n)) : SubSeq(q, 1, n)[i] = q[1 + i - 1]
  BY <1>1, Slice
<1> QED BY <1>1, <1>2

\* A queue within its bound is left alone.
LEMMA BoundKeepsAll ==
  ASSUME NEW S, NEW q \in Seq(S), Len(q) <= MaxQueued
  PROVE  EnforceQueueBound(q) = q
<1> DEFINE K == {j \in 1..Len(q) : ~IsUrgent(q[j])}
<1>1. Len(q) \in Nat /\ DOMAIN q = 1..Len(q) OBVIOUS
<1>2. ASSUME NEW i \in 1..Len(q), ~IsUrgent(q[i])
      PROVE  DroppableUpTo(q, i) > Len(q) - MaxQueued
  <2>1. DroppableUpTo(q, i) = Rank(K, i) BY DroppableIsRank
  <2>2. i \in K /\ K \subseteq 1..Len(q) BY <1>2
  <2> HIDE DEF K
  <2>3. i \in Int /\ i - 1 \in Int BY <1>1
  <2>4. Rank(K, i) = Rank(K, i - 1) + 1 BY <1>1, <2>2, RankStep
  <2>5. Rank(K, i) \in Nat /\ Rank(K, i - 1) \in Nat BY <1>1, <2>2, <2>3, RankType
  <2> QED BY <1>1, <2>1, <2>4, <2>5, MaxQueuedAssumption
<1>3. Retained(q) = DOMAIN q BY <1>1, <1>2 DEF Retained
<1> QED BY <1>3, SelectAll DEF EnforceQueueBound

-----------------------------------------------------------------------------
(***************************************************************************)
(* Replies that are lost or late.  The server is ahead of the client's     *)
(* number by what it took in exchanges whose reply the client never saw,   *)
(* and the queue still begins with those messages.                         *)
(***************************************************************************)

\* The failures after which the client sends again what it sent, and an instance in
\* which nothing but the messages themselves goes into the queue: a register or
\* resynchronize message in front, or a filter that drops one of them, moves those behind.
ReplyMayBeLost ==
  /\ Faults \subseteq {"refuse", "lostReply", "late", "partial", "saveState", "saveSpool"}
  /\ Orders \subseteq {"command", "unsubscribed"}
  /\ InitialID # NoID

\* Neither side forgets the other, and the server sends nothing that would change the queue.
NobodyForgets ==
  /\ Faults \cap {"forget", "crash", "overrun"} = {}
  /\ Orders \subseteq {"command", "unsubscribed"}

\* The bound has nothing to drop.
QueueFits == pc = "bound" => Len(pending) <= MaxQueued

\* A batch is under way in the POST only.
BatchPosted == pc # "post" => batch = <<>>

\* The server knows the client, and has sent nothing that would change the queue.
Identified ==
  /\ mem.id = known /\ disk.id = known /\ known # NoID
  /\ mem.accepted = {} /\ disk.accepted = {}
  /\ \A r \in late : r.from = known
  /\ \A i \in DOMAIN outbox : outbox[i].type \in {"command", "unsubscribed"}

\* The queue the client has, or will have when Run has read the spool.
Queue == IF pc \in {"off", "load"} THEN spool \o pending ELSE pending

\* Every message of the client at its position, as the server numbers them: those it has
\* acknowledged, then those the client holds.
Stream == SubSeq(log, 1, mem.out) \o (batch \o Queue)

\* The server has the first messages of the stream, and every request a stretch of it.
Claims(r) ==
  /\ r.seq + Len(r.msgs) <= Len(Stream)
  /\ \A k \in 1..Len(r.msgs) : r.msgs[k] = Stream[r.seq + k]

Mirrored ==
  /\ mem.out <= Len(log) /\ Len(log) <= Len(Stream)
  /\ \A i \in 1..Len(log) : log[i] = Stream[i]
  /\ \A r \in late : Claims(r)

\* No request reaches beyond the batch that is under way after it.
Within(n) == n <= mem.out + MaxBatch /\ (pc = "post" => n <= SentUpTo)

Reached ==
  /\ Len(batch) <= MaxBatch
  /\ Within(Len(log)) /\ \A r \in late : Within(r.seq + Len(r.msgs))
  /\ answered => mem.out <= ServerACK /\ ServerACK <= Len(log)

\* Nothing happens to the batch, the log and the positions, ...
Still ==
  /\ UNCHANGED <<batch, log, answered, reply, issued, late>>
  /\ mem'.out = mem.out /\ (pc' = "post" => pc = "post")

\* ... nor to the queue.
Calm == Still /\ pending' = pending

\* The server of such an instance sends nothing else.
LEMMA NextInbound ==
  ASSUME TypeOK, Positions, Identified, NEW type, Process(type)
  PROVE  type \in {"command", "unsubscribed"}
<1>1. Len(inbound) \in Nat \ {0} /\ Head(inbound) = inbound[1] /\ 1 \in DOMAIN inbound
  <2>1. inbound \in Seq(Inbound) /\ inbound # <<>> BY DEF TypeOK, Process
  <2> QED BY <2>1
<1>2. /\ Processed \in Int /\ mem.next \in Nat /\ Len(outbox) \in Nat
      /\ DOMAIN outbox = 1..Len(outbox)
  BY Counters
<1>3. /\ inbound[1] = outbox[Processed + 1] /\ 0 <= Processed
      /\ mem.next <= Len(outbox)
  BY <1>1 DEF Positions
<1>4. Processed + 1 \in DOMAIN outbox BY <1>1, <1>2, <1>3 DEF Processed
<1> QED BY <1>1, <1>3, <1>4 DEF Process, Identified

\* The steps such an instance has.
LEMMA LossySteps ==
  ASSUME ReplyMayBeLost, TypeOK, Positions, Lively, Identified, [Next]_vars
  PROVE  /\ Lively'
         /\ \/ Drain \/ ServeCurrent \/ ServeLate \/ Acknowledge \/ PostFails
            \/ BoundQueue \/ Send \/ SendUrgent \/ Calm
<1>1. ASSUME NEW kind \in {"garble", "marshal", "loadState", "loadSpool", "crash", "stop",
                           "overrun", "forget", "defer"}
      PROVE  ~Fault(kind)
  <2>1. kind \notin Faults BY DEF ReplyMayBeLost
  <2> QED BY <2>1 DEF Fault
<1>2. /\ pc \notin {"off", "returned"} /\ ~final /\ ~stopping
      /\ pc = "load" => spool = <<>> /\ mem = disk
      /\ pc # "post" => batch = <<>>
  BY DEF Lively
<1>3. mem \in State /\ pending \in Seq(Message) /\ <<>> \o pending = pending
  <2>1. pending \in Seq(Message) BY DEF TypeOK
  <2> QED BY <2>1, ConcatEmptySeq DEF TypeOK
<1>4. CASE Load
  <2>1. pending' = pending BY <1>1, <1>2, <1>3, <1>4 DEF Load
  <2>2. mem' = mem /\ pc' = "drain" BY <1>2, <1>4 DEF Load
  <2> QED BY <1>2, <1>4, <2>1, <2>2 DEF Load, Lively, Calm, Still
<1>5. CASE Drain BY <1>2, <1>5 DEF Drain, Lively
<1>6. CASE Acknowledge BY <1>2, <1>6 DEF Acknowledge, Lively
<1>7. CASE Dispatch
  <2>1. DispatchCommand \/ DispatchLogged
    BY <1>7, NextInbound DEF Dispatch, DispatchSetID, DispatchUnknownID,
       DispatchAcceptedTypes, DispatchResynchronize
  <2> QED BY <1>2, <2>1 DEF DispatchCommand, DispatchLogged, Process, Lively, Calm, Still
<1>8. CASE SaveState \/ SaveStateFails
  BY <1>2, <1>8 DEF SaveState, SaveStateFails, Lively, Calm, Still
<1>9. CASE BoundQueue BY <1>2, <1>9 DEF BoundQueue, Lively
<1>10. CASE WriteSpool \/ Decide
  BY <1>2, <1>10 DEF WriteSpool, AfterSpool, Decide, Lively, Calm, Still
<1>11. CASE TimerFires \/ Woken \/ TriggerExchange \/ PingFindsMessages
  BY <1>2, <1>11 DEF TimerFires, Woken, TriggerExchange, PingFindsMessages, Lively, Calm, Still
<1>12. CASE FinalDrain \/ Boot \/ Exit
  BY <1>2, <1>12 DEF FinalDrain, Boot, Exit
<1>13. CASE Send \/ SendUrgent \/ ServeCurrent \/ ServeLate
  BY <1>2, <1>13 DEF Send, SendUrgent, ServeCurrent, ServeLate, Lively
<1>14. CASE Order BY <1>2, <1>14 DEF Order, Lively, Calm, Still
<1>15. CASE LoadFails \/ MarshalFails \/ ReplyUndecodable \/ Stop \/ Crash \/ Forget
  BY <1>1, <1>2, <1>15 DEF LoadFails, MarshalFails, ReplyUndecodable, Stop, Crash, Forget
<1>16. CASE PostFails BY <1>2, <1>16 DEF PostFails, Lively
<1>17. CASE UNCHANGED vars BY <1>2, <1>17 DEF vars, Lively, Calm, Still
<1> QED BY <1>4, <1>5, <1>6, <1>7, <1>8, <1>9, <1>10, <1>11, <1>12, <1>13, <1>14, <1>15,
         <1>16, <1>17 DEF Next, RunStep, FaultStep

\* A request of a client the server knows.
LEMMA ServedKnown ==
  ASSUME Identified, NEW r, r.from = known, Serve(r)
  PROVE  UNCHANGED <<outbox, known, lastID>> /\ \E n \in 0..Len(Fresh(r)) : Take(r, n)
<1>1. Recognised(r) /\ r.from # NoID BY DEF Recognised, Identified
<1>2. \A n : ~AsksForIdentity(r, n) BY <1>1 DEF AsksForIdentity
<1> QED BY <1>1, <1>2 DEF Serve

\* The identity stays what both sides have.
LEMMA IdentifiedStep ==
  ASSUME NobodyForgets, TypeOK, TypeOK', Positions, Identified, [Next]_vars
  PROVE  Identified'
<1>1. /\ mem.id = known /\ disk.id = known /\ known # NoID
      /\ mem.accepted = {} /\ disk.accepted = {}
      /\ \A r \in late : r.from = known
      /\ \A i \in DOMAIN outbox : outbox[i].type \in {"command", "unsubscribed"}
  BY DEF Identified
<1>2. ASSUME UNCHANGED <<mem, disk, known, outbox, late>> PROVE Identified'
  BY <1>2 DEF Identified
<1>3. CASE ServeCurrent
  <2>1. CurrentRequest.from = known BY <1>1 DEF CurrentRequest
  <2>2. UNCHANGED <<outbox, known>> BY <1>3, <2>1, ServedKnown DEF ServeCurrent
  <2> QED BY <1>2, <1>3, <2>2 DEF ServeCurrent
<1>4. CASE ServeLate
  <2>1. PICK r \in late : Serve(r) /\ late' = late \ {r} BY <1>4 DEF ServeLate
  <2>2. UNCHANGED <<outbox, known>> BY <1>1, <2>1, ServedKnown
  <2>3. UNCHANGED <<mem, disk>> BY <1>4 DEF ServeLate
  <2> QED BY <1>1, <2>1, <2>2, <2>3 DEF Identified
<1>5. CASE Order
  <2>1. \E type \in {"command", "unsubscribed"} :
          \E id : outbox' = Append(outbox, FromServer(type, id))
    <3>1. "resynchronize" \notin Orders /\ "accepted-types" \notin Orders
      BY DEF NobodyForgets
    <3> QED BY <1>5, <3>1 DEF Order
  <2>2. UNCHANGED <<mem, disk, known, late>> BY <1>5 DEF Order
  <2>3. outbox \in Seq(Inbound) BY DEF TypeOK
  <2>4. PICK m : outbox' = Append(outbox, m) /\ m.type \in {"command", "unsubscribed"}
    <3>1. \A type, id : FromServer(type, id).type = type BY DEF FromServer
    <3> QED BY <2>1, <3>1
  <2>6. \A i \in DOMAIN outbox' : outbox'[i].type \in {"command", "unsubscribed"}
    <3>1. /\ DOMAIN outbox' = 1..(Len(outbox) + 1) /\ DOMAIN outbox = 1..Len(outbox)
          /\ \A i \in 1..Len(outbox) : outbox'[i] = outbox[i]
          /\ outbox'[Len(outbox) + 1] = m
      BY <2>3, <2>4
    <3> SUFFICES ASSUME NEW i \in 1..(Len(outbox) + 1)
                 PROVE  outbox'[i].type \in {"command", "unsubscribed"}
      BY <3>1
    <3>2. CASE i = Len(outbox) + 1 BY <2>4, <3>1, <3>2
    <3>3. CASE i # Len(outbox) + 1
      <4>1. i \in 1..Len(outbox)
        <5>1. Len(outbox) \in Nat BY <2>3
        <5> QED BY <3>3, <5>1
      <4> QED BY <1>1, <3>1, <4>1
    <3> QED BY <3>2, <3>3
  <2> QED BY <1>1, <2>2, <2>6 DEF Identified
<1>6. CASE PostFails
  <2>1. late' \subseteq late \cup {CurrentRequest} /\ UNCHANGED <<mem, disk, known, outbox>>
    BY <1>6 DEF PostFails
  <2>2. CurrentRequest.from = known BY <1>1 DEF CurrentRequest
  <2> QED BY <1>1, <2>1, <2>2 DEF Identified
<1>7. CASE Acknowledge
  <2>1. mem'.id = mem.id /\ mem'.accepted = mem.accepted
    BY <1>7 DEF Acknowledge, TypeOK, State
  <2>2. UNCHANGED <<disk, known, outbox, late>> BY <1>7 DEF Acknowledge
  <2> QED BY <1>1, <2>1, <2>2 DEF Identified
<1>8. CASE Load \/ Exit
  <2>1. mem' = disk /\ UNCHANGED <<disk, known, outbox, late>>
    BY <1>8 DEF Load, Exit, ProcessEnds
  <2> QED BY <1>1, <2>1 DEF Identified
<1>9. CASE SaveState
  <2>1. disk' = mem /\ UNCHANGED <<mem, known, outbox, late>>
    BY <1>9 DEF SaveState, Persisted
  <2> QED BY <1>1, <2>1 DEF Identified
<1>10. CASE Dispatch
  <2>1. DispatchCommand \/ DispatchLogged
    BY <1>10, NextInbound DEF Dispatch, DispatchSetID, DispatchUnknownID,
       DispatchAcceptedTypes, DispatchResynchronize
  <2> QED BY <1>2, <2>1 DEF DispatchCommand, DispatchLogged, Process
<1>11. CASE Drain \/ BoundQueue \/ WriteSpool \/ Decide
  BY <1>2, <1>11 DEF Drain, BoundQueue, WriteSpool, Decide
<1>12. CASE \/ TimerFires \/ Woken \/ TriggerExchange \/ PingFindsMessages
            \/ Send \/ SendUrgent \/ UNCHANGED vars
  BY <1>2, <1>12 DEF TimerFires, Woken, TriggerExchange, PingFindsMessages, Send,
     SendUrgent, vars
<1>13. CASE FinalDrain \/ Boot
  BY <1>2, <1>13 DEF FinalDrain, Boot
<1>14. CASE FaultStep
  <2>1. "forget" \notin Faults /\ "crash" \notin Faults /\ "overrun" \notin Faults
    BY DEF NobodyForgets
  <2>2. ~Forget /\ ~Crash BY <2>1 DEF Forget, Crash, Fault
  <2>3. CASE LoadFails \/ MarshalFails \/ ReplyUndecodable \/ SaveStateFails \/ Stop
    BY <1>2, <2>3 DEF LoadFails, MarshalFails, ReplyUndecodable, SaveStateFails, Stop
  <2> QED BY <1>6, <1>14, <2>2, <2>3 DEF FaultStep
<1> QED BY <1>3, <1>4, <1>5, <1>7, <1>8, <1>9, <1>10, <1>11, <1>12, <1>13, <1>14
        DEF Next, RunStep

-----------------------------------------------------------------------------
(***************************************************************************)
(* The stream, and how a step changes it.                                  *)
(***************************************************************************)
\* The queue is a queue, and while Run runs it is the one in memory.
LEMMA QueueType ==
  ASSUME TypeOK
  PROVE  /\ Queue \in Seq(Message)
         /\ pc \notin {"off", "load"} => Queue = pending
         /\ spool = <<>> => Queue = pending
         /\ pending = <<>> /\ pc \in {"off", "load"} => Queue = spool
<1>1. spool \in Seq(Message) /\ pending \in Seq(Message) BY DEF TypeOK
<1>2. spool \o pending \in Seq(Message) BY <1>1
<1>3. spool = <<>> => spool \o pending = pending BY <1>1, ConcatEmptySeq
<1>4. pending = <<>> => spool \o pending = spool BY <1>1, ConcatEmptySeq
<1> QED BY <1>1, <1>2, <1>3, <1>4 DEF Queue

\* The stream by its parts.
LEMMA StreamType ==
  ASSUME TypeOK, mem.out <= Len(log)
  PROVE  /\ Stream \in Seq(Message) /\ mem.out \in Nat /\ Len(log) \in Nat
         /\ Len(batch) \in Nat /\ Len(Queue) \in Nat /\ Queue \in Seq(Message)
         /\ batch \o Queue \in Seq(Message)
         /\ SubSeq(log, 1, mem.out) \in Seq(Message)
         /\ Len(SubSeq(log, 1, mem.out)) = mem.out
         /\ Len(Stream) = mem.out + Len(batch) + Len(Queue)
         /\ \A i \in 1..mem.out : Stream[i] = log[i]
         /\ \A k \in 1..Len(batch) : Stream[mem.out + k] = batch[k]
<1>1. /\ mem.out \in Nat /\ log \in Seq(Message) /\ batch \in Seq(Message)
      /\ pending \in Seq(Message) /\ Len(log) \in Nat
  BY Counters DEF TypeOK
<1>2. PICK b \in Seq(Message) : b = batch BY <1>1
<1>3. PICK p \in Seq(Message) : p = Queue BY QueueType
<1>4. PICK h \in Seq(Message) : h = SubSeq(log, 1, mem.out) /\ Len(h) = mem.out
        /\ \A i \in 1..mem.out : h[i] = log[i]
  <2>1. PICK n \in 0..Len(log) : n = mem.out BY <1>1
  <2>2. PICK q \in Seq(Message) : q = log BY <1>1
  <2>3. n \in 0..Len(q) BY <2>1, <2>2
  <2>4. /\ SubSeq(q, 1, n) \in Seq(Message) /\ Len(SubSeq(q, 1, n)) = n
        /\ \A i \in 1..n : SubSeq(q, 1, n)[i] = q[i]
    BY <2>3, PrefixMessages
  <2> QED BY <2>1, <2>2, <2>4
<1>5. /\ b \o p \in Seq(Message) /\ Len(b \o p) = Len(b) + Len(p)
      /\ \A k \in 1..Len(b) : (b \o p)[k] = b[k]
      /\ Len(b) \in Nat /\ Len(p) \in Nat
  OBVIOUS
<1>6. PICK t \in Seq(Message) : t = b \o p BY <1>5
<1>7. /\ h \o t \in Seq(Message) /\ Len(h \o t) = Len(h) + Len(t)
      /\ \A i \in 1..Len(h) : (h \o t)[i] = h[i]
      /\ \A k \in 1..Len(t) : (h \o t)[Len(h) + k] = t[k]
  OBVIOUS
<1>8. Stream = h \o t BY <1>2, <1>3, <1>4, <1>6 DEF Stream
<1>9. \A k \in 1..Len(b) : k \in 1..Len(t) BY <1>5, <1>6
<1>10. /\ Len(Stream) = mem.out + Len(batch) + Len(Queue)
       /\ \A i \in 1..mem.out : Stream[i] = log[i]
       /\ \A k \in 1..Len(batch) : Stream[mem.out + k] = batch[k]
  <2>1. Len(t) = Len(b) + Len(p) BY <1>5, <1>6
  <2>2. Len(Stream) = mem.out + (Len(b) + Len(p)) BY <1>4, <1>7, <1>8, <2>1
  <2>3. \A i \in 1..mem.out : Stream[i] = log[i] BY <1>4, <1>7, <1>8
  <2>4. \A k \in 1..Len(b) : Stream[mem.out + k] = b[k]
    <3> SUFFICES ASSUME NEW k \in 1..Len(b) PROVE Stream[mem.out + k] = b[k] OBVIOUS
    <3>1. t[k] = b[k] BY <1>5, <1>6
    <3>2. (h \o t)[Len(h) + k] = t[k] BY <1>7, <1>9
    <3> QED BY <1>4, <1>8, <3>1, <3>2
  <2>5. Len(Stream) = mem.out + Len(b) + Len(p) BY ONLY <1>1, <1>5, <2>2
  <2>6. Len(Stream) = mem.out + Len(batch) + Len(Queue) BY ONLY <1>2, <1>3, <2>5
  <2>7. \A k \in 1..Len(batch) : Stream[mem.out + k] = batch[k]
    BY ONLY <1>2, <2>4
  <2> QED BY ONLY <2>3, <2>6, <2>7
<1>11. Stream \in Seq(Message) BY <1>7, <1>8
<1>12. batch \o Queue \in Seq(Message) BY <1>2, <1>3, <1>5
<1>13. SubSeq(log, 1, mem.out) \in Seq(Message) /\ Len(SubSeq(log, 1, mem.out)) = mem.out
  BY <1>4
<1>14. Len(batch) \in Nat /\ Len(Queue) \in Nat /\ Queue \in Seq(Message)
  BY <1>1, <1>3
<1>15. mem.out \in Nat /\ Len(log) \in Nat BY ONLY <1>1
<1> QED BY ONLY <1>10, <1>11, <1>12, <1>13, <1>14, <1>15

\* The stream with the batch still in the queue.
LEMMA StreamKept ==
  ASSUME TypeOK, mem.out <= Len(log), mem'.out = mem.out, log' = log,
         batch' \o Queue' = batch \o Queue
  PROVE  Stream' = Stream
BY DEF Stream

\* The loop moves messages between the queue and the batch, and loses none.
LEMMA StreamRequeued ==
  ASSUME QueueFits, TypeOK, Positions, BatchPosted, Identified, Mirrored,
         Drain \/ PostFails \/ BoundQueue
  PROVE  /\ Stream' = Stream /\ log' = log /\ mem'.out = mem.out
         /\ Drain => Len(batch') = IF Len(pending) < MaxBatch THEN Len(pending) ELSE MaxBatch
<1>1. /\ pending \in Seq(Message) /\ batch \in Seq(Message) /\ mem.out <= Len(log)
      /\ <<>> \o pending = pending /\ batch \o pending \in Seq(Message)
      /\ Len(pending) \in Nat
  <2>1. pending \in Seq(Message) /\ batch \in Seq(Message) BY DEF TypeOK
  <2> QED BY <2>1, ConcatEmptySeq DEF Mirrored
<1>2. log' = log /\ mem'.out = mem.out BY DEF Drain, PostFails, BoundQueue
<1>3. CASE Drain
  <2>1. batch = <<>> /\ batch' = Drained /\ pending' = LeftBehind
    BY <1>3 DEF Drain, BatchPosted
  <2>2. WithRegister = pending /\ mem.accepted = {} BY DEF WithRegister, Identified
  <2>3. PICK n \in 0..Len(pending) : n = BatchLen
    BY <2>2, DrainTypes
  <2>4. /\ SubSeq(pending, 1, n) \in Seq(Message) /\ Len(SubSeq(pending, 1, n)) = n
        /\ SubSeq(pending, 1, n) \o SubSeq(pending, n + 1, Len(pending)) = pending
    BY <1>1, SplitAt
  <2>5. LeftBehind = SubSeq(pending, n + 1, Len(pending)) BY <2>2, <2>3 DEF LeftBehind
  <2>6. Drained = SubSeq(pending, 1, n)
    <3>1. PICK f \in Seq(Message) : f = SubSeq(pending, 1, n) BY <2>4
    <3>2. {i \in DOMAIN f : PassesFilter(f[i], {})} = DOMAIN f BY DEF PassesFilter
    <3>3. DropUnaccepted(f, {}) = f BY <3>2, SelectAll DEF DropUnaccepted
    <3> QED BY <2>2, <2>3, <3>1, <3>3 DEF Drained
  <2>7. batch' \o pending' = batch \o pending BY <1>1, <2>1, <2>4, <2>5, <2>6
  <2>8. Len(batch') = n BY <2>1, <2>4, <2>6
  <2>9. Queue = pending /\ Queue' = pending' BY <1>3 DEF Drain, Queue
  <2>10. Stream' = Stream BY <1>1, <1>2, <2>7, <2>9, StreamKept
  <2> QED BY <1>2, <2>2, <2>3, <2>8, <2>10 DEF BatchLen
<1>4. CASE PostFails
  <2>1. batch' = <<>> /\ pending' = batch \o pending BY <1>4 DEF PostFails
  <2>2. batch' \o pending' = batch \o pending BY <1>1, <2>1, ConcatEmptySeq
  <2>3. Queue = pending /\ Queue' = pending' BY <1>4 DEF PostFails, Queue
  <2>4. Stream' = Stream BY <1>1, <1>2, <2>2, <2>3, StreamKept
  <2> QED BY <1>2, <1>4, <2>4 DEF Drain, PostFails
<1>5. CASE BoundQueue
  <2>1. batch' = batch /\ pending' = EnforceQueueBound(pending) /\ Len(pending) <= MaxQueued
    BY <1>5 DEF BoundQueue, QueueFits
  <2>2. pending' = pending BY <1>1, <2>1, BoundKeepsAll
  <2>3. Queue = pending /\ Queue' = pending' BY <1>5 DEF BoundQueue, Queue
  <2>4. Stream' = Stream BY <1>1, <1>2, <2>1, <2>2, <2>3, StreamKept
  <2> QED BY <1>2, <1>5, <2>4 DEF Drain, BoundQueue
<1> QED BY <1>3, <1>4, <1>5

\* A message more at the end of the queue is one more at the end of the stream.
LEMMA StreamAppended ==
  ASSUME TypeOK, Mirrored, NEW m \in Message, pending' = Append(pending, m),
         UNCHANGED <<pc, batch, log, mem, spool>>
  PROVE  Stream' = Append(Stream, m)
<1>1. /\ batch \in Seq(Message) /\ pending \in Seq(Message) /\ spool \in Seq(Message)
      /\ SubSeq(log, 1, mem.out) \in Seq(Message)
  BY StreamType DEF TypeOK, Mirrored
<1>2. ASSUME NEW s \in Seq(Message), NEW t \in Seq(Message)
      PROVE  s \o Append(t, m) = Append(s \o t, m)
  <2>1. <<m>> \in Seq(Message) /\ s \o t \in Seq(Message) OBVIOUS
  <2>2. Append(t, m) = t \o <<m>> /\ Append(s \o t, m) = (s \o t) \o <<m>>
    BY <2>1, AppendIsConcat
  <2> QED BY <2>1, <2>2, ConcatAssociative
<1>3. PICK h \in Seq(Message) : h = SubSeq(log, 1, mem.out) BY <1>1
<1>4. PICK b \in Seq(Message) : b = batch BY <1>1
<1>5. PICK p \in Seq(Message) : p = Queue BY QueueType
<1>6. Queue' = Append(p, m)
  <2>1. spool \o Append(pending, m) = Append(spool \o pending, m) BY <1>1, <1>2
  <2> QED BY <1>5, <2>1 DEF Queue
<1>7. h \o (b \o Append(p, m)) = Append(h \o (b \o p), m)
  <2>1. b \o p \in Seq(Message) OBVIOUS
  <2> QED BY <1>2, <2>1
<1>8. Stream = h \o (b \o p) BY <1>3, <1>4, <1>5 DEF Stream
<1>9. Stream' = h \o (b \o Append(p, m)) BY <1>3, <1>4, <1>6 DEF Stream
<1> QED BY <1>7, <1>8, <1>9

\* What the server takes is the next stretch of the stream.
LEMMA ServedFrom ==
  ASSUME TypeOK, TypeOK', Mirrored, NEW r \in Request, Claims(r),
         \E n \in 0..Len(Fresh(r)) : Take(r, n)
  PROVE  /\ Len(log) <= Len(log') /\ Len(log') <= Len(Stream)
         /\ Len(log') = Len(log) \/ Len(log') <= r.seq + Len(r.msgs)
         /\ \A i \in 1..Len(log') : log'[i] = Stream[i]
<1>0. \A l, s, e, c, m, n \in Nat :
        l <= s /\ e + c <= s /\ (m = 0 \/ l + m <= e + c) /\ n <= m
          => l <= l + n /\ l + n <= s /\ (l + n = l \/ l + n <= e + c)
  BY ONLY TRUE
<1>1. /\ mem.out \in Nat /\ Len(log) \in Nat /\ log \in Seq(Message)
      /\ mem.out <= Len(log) /\ Len(log) <= Len(Stream)
      /\ \A i \in 1..Len(log) : log[i] = Stream[i]
      /\ Len(Stream) \in Nat
  <2>1. Stream \in Seq(Message) BY StreamType DEF Mirrored
  <2>2. Len(Stream) \in Nat BY ONLY <2>1
  <2>3. mem.out \in Nat /\ Len(log) \in Nat /\ log \in Seq(Message) BY QueueTypes
  <2> HIDE DEF Stream
  <2> QED BY <2>2, <2>3 DEF Mirrored
<1>2. /\ r.seq \in Nat /\ r.msgs \in Seq(Message) /\ Len(r.msgs) \in Nat
      /\ r.seq + Len(r.msgs) <= Len(Stream)
      /\ \A k \in 1..Len(r.msgs) : r.msgs[k] = Stream[r.seq + k]
  BY DEF Request, Claims
<1>3. PICK f \in Seq(Message) :
        /\ f = Fresh(r)
        /\ Len(f) = 0 \/ Len(log) + Len(f) <= r.seq + Len(r.msgs)
        /\ \A i \in 1..Len(f) : f[i] = Stream[Len(log) + i]
  <2>1. CASE r.seq > Len(log)
    <3>1. Fresh(r) = <<>> BY <2>1 DEF Fresh
    <3>2. <<>> \in Seq(Message) /\ Len(<<>>) = 0 /\ 1..0 = {} OBVIOUS
    <3> QED BY <3>1, <3>2
  <2>2. CASE ~(r.seq > Len(log))
    <3>1. PICK a \in Nat \ {0} : a = Len(log) - r.seq + 1
      <4>1. PICK l \in Nat, e \in Nat : l = Len(log) /\ e = r.seq BY <1>1, <1>2
      <4>2. e <= l BY <2>2, <4>1
      <4>3. l - e + 1 \in Nat \ {0} BY ONLY <4>2
      <4> QED BY <4>1, <4>3
    <3>2. PICK q \in Seq(Message) : q = r.msgs BY <1>2
    <3>3. Fresh(r) = SubSeq(q, a, Len(q)) BY <2>2, <3>1, <3>2 DEF Fresh
    <3>4. /\ SubSeq(q, a, Len(q)) \in Seq(Message)
          /\ Len(SubSeq(q, a, Len(q))) = IF a <= Len(q) THEN Len(q) - a + 1 ELSE 0
          /\ \A i \in 1..Len(SubSeq(q, a, Len(q))) :
               SubSeq(q, a, Len(q))[i] = q[a + i - 1]
      <4>1. Len(q) \in Int /\ Len(q) <= Len(q) OBVIOUS
      <4> QED BY <4>1, Slice
    <3>5. PICK f \in Seq(Message) : f = SubSeq(q, a, Len(q)) BY <3>4
    <3>6. /\ Len(f) = IF a <= Len(r.msgs) THEN Len(r.msgs) - a + 1 ELSE 0
          /\ \A i \in 1..Len(f) : f[i] = r.msgs[a + i - 1]
      BY <3>2, <3>4, <3>5
    <3>7. PICK c \in Nat : c = Len(r.msgs) BY <1>2
    <3>8. PICK l \in Nat : l = Len(log) BY <1>1
    <3>9. PICK e \in Nat : e = r.seq BY <1>2
    <3>10. a = l - e + 1 /\ Len(f) = IF a <= c THEN c - a + 1 ELSE 0
      BY <3>1, <3>6, <3>7, <3>8, <3>9
    <3>11. Len(f) = 0 \/ l + Len(f) <= e + c BY ONLY <3>10
    <3>12. ASSUME NEW i \in 1..Len(f) PROVE f[i] = Stream[Len(log) + i]
      <4>1. PICK k : k = a + i - 1 OBVIOUS
      <4>2. k \in 1..c /\ e + k = l + i BY ONLY <3>10, <4>1
      <4>3. r.msgs[k] = Stream[e + k] BY <1>2, <3>7, <3>9, <4>2
      <4> QED BY <3>6, <3>8, <4>1, <4>2, <4>3
    <3> QED BY <3>3, <3>5, <3>7, <3>8, <3>9, <3>11, <3>12
  <2> QED BY <2>1, <2>2
<1>4. PICK n \in 0..Len(f) : log' = log \o SubSeq(f, 1, n) BY <1>3 DEF Take
<1>5. PICK g \in Seq(Message) :
        g = SubSeq(f, 1, n) /\ Len(g) = n /\ \A i \in 1..n : g[i] = f[i]
  <2>1. /\ SubSeq(f, 1, n) \in Seq(Message) /\ Len(SubSeq(f, 1, n)) = n
        /\ \A i \in 1..n : SubSeq(f, 1, n)[i] = f[i]
    BY PrefixMessages
  <2> QED BY <2>1
<1>6. /\ Len(log') = Len(log) + n /\ n \in Nat /\ n <= Len(f) /\ Len(f) \in Nat
      /\ \A i \in 1..Len(log) : log'[i] = log[i]
      /\ \A k \in 1..n : log'[Len(log) + k] = g[k]
  <2>1. PICK l \in Seq(Message) : l = log BY <1>1
  <2>2. /\ Len(l \o g) = Len(l) + Len(g)
        /\ \A i \in 1..Len(l) : (l \o g)[i] = l[i]
        /\ \A k \in 1..Len(g) : (l \o g)[Len(l) + k] = g[k]
    BY ONLY TRUE
  <2>3. log' = l \o g BY <1>4, <1>5, <2>1
  <2>4. PICK w : w = l \o g OBVIOUS
  <2>5. /\ Len(w) = Len(l) + Len(g) /\ log' = w
        /\ \A i \in 1..Len(l) : w[i] = l[i]
        /\ \A k \in 1..Len(g) : w[Len(l) + k] = g[k]
    BY ONLY <2>2, <2>3, <2>4
  <2> QED BY <1>5, <2>1, <2>5
<1>7. /\ Len(log) <= Len(log') /\ Len(log') <= Len(Stream)
      /\ Len(log') = Len(log) \/ Len(log') <= r.seq + Len(r.msgs)
  <2>1. PICK l \in Nat, s \in Nat, e \in Nat, c \in Nat, m \in Nat :
          /\ l = Len(log) /\ s = Len(Stream) /\ e = r.seq /\ c = Len(r.msgs)
          /\ m = Len(f)
    <3>1. Len(log) \in Nat /\ Len(Stream) \in Nat BY <1>1, Zenon
    <3>2. r.seq \in Nat /\ Len(r.msgs) \in Nat BY <1>2, Zenon
    <3>3. Len(f) \in Nat BY <1>6, Zenon
    <3> QED BY ONLY <3>1, <3>2, <3>3, Zenon
  <2>2. l <= s BY <1>1, <2>1, Zenon
  <2>3. e + c <= s BY <1>2, <2>1, Zenon
  <2>4. m = 0 \/ l + m <= e + c BY <1>3, <2>1, Zenon
  <2>5. n <= m /\ n \in Nat BY <1>6, <2>1, Zenon
  <2>6. l <= l + n /\ l + n <= s /\ (l + n = l \/ l + n <= e + c)
    BY <1>0, <2>2, <2>3, <2>4, <2>5, Zenon
  <2>7. Len(log') = l + n BY <1>6, <2>1, Zenon
  <2>8. Len(log) <= Len(log') BY <2>1, <2>6, <2>7, Zenon
  <2>9. Len(log') <= Len(Stream) BY <2>1, <2>6, <2>7, Zenon
  <2>10. Len(log') = Len(log) \/ Len(log') <= r.seq + Len(r.msgs)
    BY <2>1, <2>6, <2>7, Zenon
  <2> QED BY <2>8, <2>9, <2>10, Zenon
<1>8. ASSUME NEW i \in 1..Len(log') PROVE log'[i] = Stream[i]
  <2>1. CASE i \in 1..Len(log) BY <1>1, <1>6, <2>1
  <2>2. CASE ~(i \in 1..Len(log))
    <3>1. PICK k \in 1..n : i = Len(log) + k
      <4>1. i - Len(log) \in 1..n /\ i = Len(log) + (i - Len(log)) BY <1>1, <1>6, <2>2
      <4> QED BY <4>1
    <3>2. k \in 1..Len(f) BY <1>6
    <3> QED BY <1>3, <1>5, <1>6, <3>1, <3>2
  <2> QED BY <2>1, <2>2
<1> QED BY <1>7, <1>8

\* The request under way holds the batch, at its place in the stream.
LEMMA ClaimsOwn ==
  ASSUME TypeOK, mem.out <= Len(log)
  PROVE  /\ CurrentRequest \in Request /\ Claims(CurrentRequest)
         /\ CurrentRequest.seq + Len(CurrentRequest.msgs) = SentUpTo
<1>1. CurrentRequest.seq = mem.out /\ CurrentRequest.msgs = batch
  BY DEF CurrentRequest
<1>2. mem.out + Len(batch) <= Len(Stream)
  <2>1. /\ mem.out \in Nat /\ Len(batch) \in Nat /\ Len(Queue) \in Nat
        /\ Len(Stream) = mem.out + Len(batch) + Len(Queue)
    BY StreamType
  <2> QED BY ONLY <2>1
<1>3. \A k \in 1..Len(batch) : batch[k] = Stream[mem.out + k] BY StreamType
<1> QED BY <1>1, <1>2, <1>3, CurrentRequestType DEF Claims, SentUpTo

\* What the server acknowledges leaves the batch and is behind the new position.
LEMMA StreamAcknowledged ==
  ASSUME TypeOK, Mirrored, Reached, Acknowledge
  PROVE  /\ Stream' = Stream /\ log' = log
         /\ mem'.out \in Nat /\ mem.out <= mem'.out /\ mem'.out <= Len(log)
<1>1. /\ mem.out \in Nat /\ Len(log) \in Nat /\ Len(batch) \in Nat /\ mem.out <= Len(log)
      /\ \A i \in 1..Len(log) : log[i] = Stream[i]
      /\ \A k \in 1..Len(batch) : Stream[mem.out + k] = batch[k]
  BY StreamType DEF Mirrored
<1>2. /\ mem.out <= ServerACK /\ ServerACK <= Len(log) /\ Len(log) <= mem.out + Len(batch)
      /\ SentUpTo = mem.out + Len(batch)
  BY DEF Acknowledge, Reached, Within, SentUpTo
<1>3. ServerACK \in Nat
  <2>1. reply.ack \in Nat BY DEF TypeOK, Reply
  <2> QED BY <1>1, <2>1 DEF ServerACK, SentUpTo
<1>num. /\ mem.out \in Nat /\ ServerACK \in Nat /\ Len(batch) \in Nat
        /\ mem.out <= ServerACK /\ ServerACK <= mem.out + Len(batch)
        /\ SentUpTo = mem.out + Len(batch)
  <2>1. mem.out \in Nat /\ Len(log) \in Nat /\ Len(batch) \in Nat BY QueueTypes
  <2> QED BY ONLY <1>2, <1>3, <2>1
<1>4. PICK n \in 0..Len(batch) :
        /\ n = ServerACK - mem.out /\ mem.out + n = ServerACK /\ n \in Nat
        /\ ~(ServerACK > mem.out) => n = 0
        /\ ~(ServerACK < SentUpTo) => n = Len(batch) /\ Len(batch) < n + 1
  <2>1. PICK a \in Nat, c \in Nat, o \in Nat :
          a = ServerACK /\ c = Len(batch) /\ o = mem.out /\ SentUpTo = o + c
    BY ONLY <1>num, Zenon
  <2>2. o <= a /\ a <= o + c BY ONLY <1>num, <2>1, Zenon
  <2>3. PICK n \in 0..c : n = a - o BY ONLY <2>2
  <2>4. o + n = a /\ n \in Nat /\ (~(a > o) => n = 0)
        /\ (~(a < o + c) => n = c /\ c < n + 1)
    BY ONLY <2>2, <2>3
  <2> QED BY ONLY <2>1, <2>3, <2>4, Zenon
<1>5. /\ mem'.out = ServerACK /\ batch' = <<>> /\ log' = log
      /\ pending' = IF ServerACK < SentUpTo
                      THEN SubSeq(batch, NAcked + 1, Len(batch)) \o pending ELSE pending
  BY DEF Acknowledge, TypeOK, State
<1>6. PICK b \in Seq(Message) : b = batch BY DEF TypeOK
<1>7. PICK p \in Seq(Message) : p = pending BY DEF TypeOK
<1>8. PICK l \in Seq(Message) : l = log BY DEF TypeOK
<1>9. /\ SubSeq(b, 1, n) \in Seq(Message) /\ SubSeq(b, n + 1, Len(b)) \in Seq(Message)
      /\ Len(SubSeq(b, 1, n)) = n
      /\ SubSeq(b, 1, n) \o SubSeq(b, n + 1, Len(b)) = b
      /\ \A k \in 1..n : SubSeq(b, 1, n)[k] = b[k]
  <2>1. n \in 0..Len(b) BY <1>6
  <2> QED BY <2>1, SplitAt, PrefixMessages
<1>10. PICK f \in Seq(Message) : f = SubSeq(b, 1, n) BY <1>9
<1>11. PICK t \in Seq(Message) : t = SubSeq(b, n + 1, Len(b)) BY <1>9
<1>12. PICK o \in Nat : o = mem.out BY <1>1
<1>13. o \in 0..Len(l) BY <1>1, <1>8, <1>12
<1>14. PICK h \in Seq(Message) :
         h = SubSeq(l, 1, o) /\ Len(h) = o /\ \A i \in 1..o : h[i] = l[i]
  <2>1. /\ SubSeq(l, 1, o) \in Seq(Message) /\ Len(SubSeq(l, 1, o)) = o
        /\ \A i \in 1..o : SubSeq(l, 1, o)[i] = l[i]
    BY <1>13, PrefixMessages
  <2> QED BY <2>1
<1>15. batch' \o pending' = t \o p
  <2>1. NAcked = n
    <3>1. CASE ServerACK > mem.out BY <1>4, <3>1 DEF NAcked
    <3>2. CASE ~(ServerACK > mem.out)
      <4>1. n = 0 BY <1>4, <3>2, Zenon
      <4> QED BY <3>2, <4>1 DEF NAcked
    <3> QED BY <3>1, <3>2
  <2>2. t \o p \in Seq(Message) OBVIOUS
  <2>3. pending' = t \o p
    <3>1. CASE ServerACK < SentUpTo BY <1>5, <1>6, <1>7, <1>11, <2>1, <3>1
    <3>2. CASE ~(ServerACK < SentUpTo)
      <4>1. n + 1 \in Int /\ Len(b) \in Int /\ Len(b) < n + 1
        <5>1. Len(b) = Len(batch) BY <1>6, Zenon
        <5>2. Len(batch) < n + 1 BY <1>4, <3>2, Zenon
        <5>3. n + 1 \in Int /\ Len(b) \in Int BY <1>4
        <5> QED BY <5>1, <5>2, <5>3, Zenon
      <4>2. t = <<>> BY <1>11, <4>1, SubSeqEmpty
      <4>3. <<>> \o p = p BY ConcatEmptySeq
      <4> QED BY <1>5, <1>7, <3>2, <4>2, <4>3
    <3> QED BY <3>1, <3>2
  <2> QED BY <1>5, <2>2, <2>3, ConcatEmptySeq
<1>16. PICK w \in Seq(Message) :
         /\ w = h \o f /\ Len(w) = Len(h) + Len(f)
         /\ \A i \in 1..Len(h) : w[i] = h[i]
         /\ \A k \in 1..Len(f) : w[Len(h) + k] = f[k]
  <2>1. /\ h \o f \in Seq(Message) /\ Len(h \o f) = Len(h) + Len(f)
        /\ \A i \in 1..Len(h) : (h \o f)[i] = h[i]
        /\ \A k \in 1..Len(f) : (h \o f)[Len(h) + k] = f[k]
    OBVIOUS
  <2> QED BY <2>1
<1>17. Len(w) = ServerACK /\ Len(w) = o + n /\ Len(w) <= Len(l) /\ Len(f) = n
  <2>1. Len(f) = n BY <1>9, <1>10
  <2>2. Len(w) = o + n BY <1>14, <1>16, <2>1
  <2>3. o + n = ServerACK BY <1>4, <1>12, Zenon
  <2> QED BY <1>2, <1>8, <2>1, <2>2, <2>3
<1>18. ASSUME NEW i \in 1..Len(w) PROVE w[i] = l[i]
  <2>1. CASE i \in 1..o BY <1>14, <1>16, <2>1
  <2>2. CASE ~(i \in 1..o)
    <3>1. PICK k \in 1..n : i = o + k
      <4>1. i - o \in 1..n /\ i = o + (i - o) BY ONLY <1>17, <2>2, o \in Nat, n \in Nat, i \in 1..Len(w)
      <4> QED BY <4>1
    <3>2. w[i] = f[k] BY <1>14, <1>16, <1>17, <3>1
    <3>3. f[k] = batch[k] BY <1>6, <1>9, <1>10
    <3>4. k \in 1..Len(batch) OBVIOUS
    <3>5. Stream[mem.out + k] = batch[k] BY <1>1, <3>4
    <3>6. i \in 1..Len(log)
      <4>1. Len(l) \in Nat /\ Len(w) \in Nat OBVIOUS
      <4>2. i \in 1..Len(l) BY ONLY <1>17, <4>1, i \in 1..Len(w)
      <4> QED BY <1>8, <4>2
    <3> QED BY <1>1, <1>8, <1>12, <3>1, <3>2, <3>3, <3>5, <3>6
  <2> QED BY <2>1, <2>2
<1>19. w = SubSeq(l, 1, Len(w))
  BY ONLY <1>17, <1>18, w \in Seq(Message), l \in Seq(Message), PrefixEqual
<1>20. PICK y \in Seq(Message) : y = t \o p
  <2>1. t \o p \in Seq(Message) OBVIOUS
  <2> QED BY <2>1
<1>queue. Queue = pending /\ Queue' = pending' BY DEF Acknowledge, Queue
<1>21. Stream' = w \o y
  <2>1. SubSeq(log', 1, mem'.out) = w BY <1>5, <1>8, <1>17, <1>19
  <2> QED BY <1>15, <1>20, <1>queue, <2>1 DEF Stream
<1>22. PICK v : v = b \o p OBVIOUS
<1>23. Stream = h \o v BY <1>6, <1>7, <1>8, <1>12, <1>14, <1>22, <1>queue DEF Stream
<1>24. w \o y = h \o v
  <2>1. b = f \o t BY <1>9, <1>10, <1>11
  <2>2. w = h \o f BY <1>16
  <2>3. PICK e : e = f \o y OBVIOUS
  <2>4. Joins(b, f, t) /\ Joins(y, t, p) /\ Joins(v, b, p) /\ Joins(e, f, y)
    BY ONLY <1>20, <1>22, <2>1, <2>3 DEF Joins
  <2>5. PICK u : Joins(u, h, e) BY DEF Joins
  <2>6. Joins(w, h, f) BY <2>2 DEF Joins
  <2>7. PICK x : Joins(x, w, y) BY DEF Joins
  <2>8. v = e BY ONLY <2>4, JoinJoin
  <2>9. x = u BY ONLY <2>4, <2>5, <2>6, <2>7, JoinJoin
  <2> QED BY <2>5, <2>7, <2>8, <2>9 DEF Joins
<1> QED BY <1>1, <1>2, <1>3, <1>5, <1>21, <1>23, <1>24

\* What the server takes does not change the stream.
LEMMA StreamServed ==
  ASSUME TypeOK, TypeOK', Mirrored, UNCHANGED <<mem, batch, Queue>>,
         Len(log) <= Len(log'), \A i \in 1..Len(log') : log'[i] = Stream[i]
  PROVE  Stream' = Stream
<1>1. /\ mem.out <= Len(log) /\ \A i \in 1..Len(log) : log[i] = Stream[i]
      /\ mem.out \in Nat /\ Len(log) \in Nat
  BY StreamType DEF Mirrored
<1>2. PICK o \in Nat : o = mem.out BY <1>1
<1>3. PICK l \in Seq(Message) : l = log BY DEF TypeOK
<1>4. PICK m \in Seq(Message) : m = log' BY DEF TypeOK
<1>5. o \in 0..Len(l) /\ o \in 0..Len(m) BY <1>1, <1>2, <1>3, <1>4
<1>6. /\ SubSeq(l, 1, o) \in Seq(Message) /\ Len(SubSeq(l, 1, o)) = o
      /\ \A i \in 1..o : SubSeq(l, 1, o)[i] = l[i]
  BY <1>5, PrefixMessages
<1>7. /\ SubSeq(m, 1, o) \in Seq(Message) /\ Len(SubSeq(m, 1, o)) = o
      /\ \A i \in 1..o : SubSeq(m, 1, o)[i] = m[i]
  BY <1>5, PrefixMessages
<1>8. \A i \in 1..o : l[i] = m[i]
  <2>1. \A i \in 1..o : i \in 1..Len(log) /\ i \in 1..Len(log') BY <1>3, <1>4, <1>5
  <2> QED BY <1>1, <1>3, <1>4, <2>1
<1>9. SubSeq(m, 1, o) = SubSeq(l, 1, o)
  <2>1. PICK f \in Seq(Message) : f = SubSeq(l, 1, o) BY <1>6
  <2>2. PICK g \in Seq(Message) : g = SubSeq(m, 1, o) BY <1>7
  <2>3. Len(f) = Len(g) /\ \A i \in 1..Len(f) : f[i] = g[i]
    BY <1>6, <1>7, <1>8, <2>1, <2>2
  <2>4. f = g BY ONLY <2>3, f \in Seq(Message), g \in Seq(Message), SeqEqual
  <2> QED BY <2>1, <2>2, <2>4
<1> QED BY <1>2, <1>3, <1>4, <1>9 DEF Stream

\* What the client still owes is the stream from where the server is.
LEMMA RestOfStream ==
  ASSUME NEW l \in Seq(Message), NEW w \in Seq(Message), NEW n \in Nat,
         n <= Len(l), Len(l) <= Len(SubSeq(l, 1, n) \o w)
  PROVE  /\ SubSeq(l, 1, n) \o w \in Seq(Message)
         /\ SubSeq(w, Len(l) - n + 1, Len(w))
              = SubSeq(SubSeq(l, 1, n) \o w, Len(l) + 1, Len(SubSeq(l, 1, n) \o w))
<1>1. n \in 0..Len(l) /\ Len(l) \in Nat /\ Len(w) \in Nat OBVIOUS
<1>2. PICK h \in Seq(Message) : h = SubSeq(l, 1, n) /\ Len(h) = n
  <2>1. SubSeq(l, 1, n) \in Seq(Message) /\ Len(SubSeq(l, 1, n)) = n
    BY <1>1, PrefixMessages
  <2> QED BY <2>1
<1>3. PICK k \in Nat : k = Len(l) - n
  <2>1. Len(l) - n \in Nat BY ONLY <1>1, n <= Len(l), n \in Nat
  <2> QED BY <2>1
<1>4. h \o w \in Seq(Message) /\ Len(h \o w) = Len(h) + Len(w) OBVIOUS
<1>5. Len(l) <= Len(h \o w) BY <1>2
<1>6. k <= Len(w) /\ Len(h) + k = Len(l) BY ONLY <1>1, <1>2, <1>3, <1>4, <1>5, n \in Nat
<1>7. SubSeq(h \o w, Len(h) + k + 1, Len(h \o w)) = SubSeq(w, k + 1, Len(w))
  BY <1>6, TailOfJoin
<1>8. Len(h) + k + 1 = Len(l) + 1 BY <1>6
<1> QED BY <1>2, <1>3, <1>4, <1>7, <1>8

-----------------------------------------------------------------------------
(***************************************************************************)
(* The server stays within the stream, and the requests within the batch.  *)
(***************************************************************************)
\* The numbers in what follows.
LEMMA Sizes ==
  ASSUME TypeOK, TypeOK', Mirrored
  PROVE  /\ mem.out \in Nat /\ mem'.out \in Nat /\ mem.out <= Len(log)
         /\ Len(log) \in Nat /\ Len(log') \in Nat
         /\ Len(batch) \in Nat /\ Len(batch') \in Nat /\ Len(Queue) \in Nat
         /\ Len(Stream) = mem.out + Len(batch) + Len(Queue)
         /\ \A r \in late \cup late' : r \in Request /\ r.seq + Len(r.msgs) \in Nat
         /\ SentUpTo = mem.out + Len(batch) /\ SentUpTo' = mem'.out + Len(batch')
         /\ MaxBatch \in Nat
<1>1. /\ mem.out \in Nat /\ mem.out <= Len(log)
      /\ Len(log) \in Nat /\ Len(batch) \in Nat /\ Len(Queue) \in Nat
      /\ Len(Stream) = mem.out + Len(batch) + Len(Queue)
  BY StreamType DEF Mirrored
<1>2. mem'.out \in Nat /\ Len(log') \in Nat /\ Len(batch') \in Nat
  <2>1. log' \in Seq(Message) /\ batch' \in Seq(Message) /\ mem' \in State BY DEF TypeOK
  <2> QED BY <2>1 DEF State
<1>3. \A r \in late \cup late' : r \in Request BY DEF TypeOK
<1>4. \A r \in Request : r.seq + Len(r.msgs) \in Nat
  <2> SUFFICES ASSUME NEW r \in Request PROVE r.seq + Len(r.msgs) \in Nat OBVIOUS
  <2>1. r.seq \in Nat /\ r.msgs \in Seq(Message) BY DEF Request
  <2> QED BY <2>1
<1> QED BY <1>1, <1>2, <1>3, <1>4, ExchangeAssumptions DEF SentUpTo

\* A position within reach stays so while the client's number grows.
LEMMA WithinKept ==
  ASSUME NEW n \in Nat, Within(n), mem.out \in Nat, mem'.out \in Nat,
         mem.out <= mem'.out, pc' = "post" => n <= SentUpTo'
  PROVE  Within(n)'
<1>1. n <= mem.out + MaxBatch /\ MaxBatch \in Nat BY ExchangeAssumptions DEF Within
<1>2. n <= mem'.out + MaxBatch BY <1>1
<1> QED BY <1>2 DEF Within

\* The same stream, the same log, and no request but those there were and the current one.
LEMMA MirroredKept ==
  ASSUME TypeOK, Mirrored, Stream' = Stream, log' = log, mem'.out <= Len(log),
         late' \subseteq late \cup {CurrentRequest}
  PROVE  Mirrored'
<1>1. /\ mem.out <= Len(log) /\ Len(log) <= Len(Stream)
      /\ \A i \in 1..Len(log) : log[i] = Stream[i]
      /\ \A r \in late : Claims(r)
  BY DEF Mirrored
<1>2. Claims(CurrentRequest) BY <1>1, ClaimsOwn
<1>3. \A r \in late' : Claims(r) BY <1>1, <1>2
<1>4. \A r \in late' : Claims(r)' BY <1>3 DEF Claims
<1> QED BY <1>1, <1>4 DEF Mirrored

\* The batch of a drain reaches as far as any request before it.
LEMMA ReachedDrain ==
  ASSUME QueueFits, TypeOK, TypeOK', Positions, BatchPosted, Identified, Mirrored,
         Reached, Drain
  PROVE  Reached'
<1>1. /\ mem.out \in Nat /\ Len(log) \in Nat /\ Len(batch) \in Nat /\ Len(batch') \in Nat
      /\ Len(pending) \in Nat /\ Len(Stream) = mem.out + Len(batch) + Len(pending)
      /\ \A r \in late : r.seq + Len(r.msgs) \in Nat
      /\ SentUpTo' = mem'.out + Len(batch') /\ MaxBatch \in Nat
  <2>1. Queue = pending BY DEF Drain, Queue
  <2> QED BY <2>1, Sizes
<1>2. /\ batch = <<>> /\ ~answered /\ UNCHANGED <<mem, log, late, answered>>
  BY DEF Drain, BatchPosted, Positions
<1>3. Len(batch) = 0 BY <1>2
<1>4. Len(batch') = IF Len(pending) < MaxBatch THEN Len(pending) ELSE MaxBatch
  BY StreamRequeued
<1>5. ASSUME NEW n \in Nat, Within(n), n <= Len(Stream) PROVE Within(n)'
  <2>1. n <= mem.out + MaxBatch BY <1>5 DEF Within
  <2>2. n <= mem.out + Len(batch') BY ONLY <1>1, <1>3, <1>4, <1>5, <2>1
  <2>3. n <= SentUpTo' BY <1>1, <1>2, <2>2
  <2> QED BY <1>2, <2>1, <2>3 DEF Within
<1>6. Within(Len(log))'
  <2>1. Within(Len(log)) /\ Len(log) <= Len(Stream) BY DEF Reached, Mirrored
  <2>2. PICK n \in Nat : n = Len(log) BY <1>1
  <2>3. Within(n)' BY <1>5, <2>1, <2>2
  <2> QED BY <1>2, <2>2, <2>3 DEF Within
<1>7. \A r \in late' : Within(r.seq + Len(r.msgs))'
  <2> SUFFICES ASSUME NEW r \in late PROVE Within(r.seq + Len(r.msgs))' BY <1>2
  <2>1. PICK n \in Nat : n = r.seq + Len(r.msgs) BY <1>1
  <2>2. Within(n) /\ n <= Len(Stream) BY <2>1 DEF Reached, Mirrored, Claims
  <2> QED BY <1>5, <2>1, <2>2
<1>8. Len(batch') <= MaxBatch BY ONLY <1>1, <1>4
<1> QED BY <1>2, <1>6, <1>7, <1>8 DEF Reached

\* A step out of the POST, or outside it, by which the client's number does not go back.
LEMMA ReachedOutside ==
  ASSUME TypeOK, TypeOK', Mirrored, Reached, log' = log, mem.out <= mem'.out,
         Len(batch') <= MaxBatch, ~answered', pc' # "post",
         late' \subseteq late \cup {CurrentRequest}
  PROVE  Reached'
<1>1. /\ mem.out \in Nat /\ mem'.out \in Nat /\ Len(log) \in Nat /\ Len(batch) \in Nat
      /\ \A r \in late' : r.seq + Len(r.msgs) \in Nat
      /\ MaxBatch \in Nat /\ SentUpTo = mem.out + Len(batch)
  BY Sizes
<1>2. Within(Len(log))'
  <2>1. PICK n \in Nat : n = Len(log) BY <1>1
  <2>2. Within(n)' BY <1>1, <2>1, WithinKept DEF Reached
  <2> QED BY <2>1, <2>2 DEF Within
<1>3. \A r \in late' : Within(r.seq + Len(r.msgs))'
  <2> SUFFICES ASSUME NEW r \in late' PROVE Within(r.seq + Len(r.msgs))' OBVIOUS
  <2>1. PICK n \in Nat : n = r.seq + Len(r.msgs) BY <1>1
  <2>2. Within(n)
    <3>1. CASE r \in late BY <2>1, <3>1 DEF Reached
    <3>2. CASE r = CurrentRequest
      <4>1. n = SentUpTo BY <2>1, <3>2, ClaimsOwn DEF Mirrored
      <4>2. Len(batch) <= MaxBatch BY DEF Reached
      <4>3. n <= mem.out + MaxBatch BY ONLY <1>1, <4>1, <4>2
      <4>4. n <= SentUpTo BY ONLY <1>1, <4>1
      <4> QED BY <4>3, <4>4 DEF Within
    <3> QED BY <3>1, <3>2
  <2>3. Within(n)' BY <1>1, <2>2, WithinKept
  <2> QED BY <2>1, <2>3
<1> QED BY <1>2, <1>3 DEF Reached

\* The loop's own steps.
LEMMA LoopKeepsStream ==
  ASSUME QueueFits, TypeOK, TypeOK', Positions, BatchPosted, Identified, Mirrored, Reached,
         Drain \/ PostFails \/ BoundQueue \/ Acknowledge
  PROVE  /\ Stream' = Stream /\ log' = log /\ issued' = issued
         /\ Mirrored' /\ Reached'
<1>1. mem.out <= Len(log) /\ mem.out \in Nat BY Sizes
<1>2. /\ Stream' = Stream /\ log' = log /\ mem.out <= mem'.out /\ mem'.out <= Len(log)
  <2>1. CASE Acknowledge BY <2>1, StreamAcknowledged
  <2>2. CASE Drain \/ PostFails \/ BoundQueue
    <3>1. Stream' = Stream /\ log' = log /\ mem'.out = mem.out BY <2>2, StreamRequeued
    <3> QED BY <1>1, <3>1
  <2> QED BY <2>1, <2>2
<1>3. issued' = issued /\ late' \subseteq late \cup {CurrentRequest}
  BY DEF Drain, PostFails, BoundQueue, Acknowledge
<1>4. Mirrored' BY <1>2, <1>3, MirroredKept
<1>5. CASE Drain BY <1>2, <1>3, <1>4, <1>5, ReachedDrain
<1>6. CASE ~Drain
  <2>1. pc' # "post" /\ ~answered' /\ (batch' = <<>> \/ batch' = batch)
    BY <1>6 DEF PostFails, BoundQueue, Acknowledge, CallEnds, Positions
  <2>2. Len(batch') <= MaxBatch
    <3>1. MaxBatch \in Nat /\ Len(batch) <= MaxBatch /\ Len(<<>>) = 0
      BY ExchangeAssumptions DEF Reached
    <3> QED BY <2>1, <3>1
  <2> QED BY <1>2, <1>3, <1>4, <2>1, <2>2, ReachedOutside
<1> QED BY <1>5, <1>6

\* The server takes what is new to it of a request, at the end of its log.
LEMMA ServerKeepsStream ==
  ASSUME TypeOK, TypeOK', Positions, Identified, Mirrored, Reached,
         ServeCurrent \/ ServeLate
  PROVE  /\ Stream' = Stream /\ issued' = issued
         /\ Len(log) <= Len(log')
         /\ Mirrored' /\ Reached'
<1>1. PICK r \in Request :
        /\ r.from = known /\ Serve(r) /\ Claims(r) /\ Within(r.seq + Len(r.msgs))
        /\ UNCHANGED <<pc, mem, batch, pending, spool, issued>>
        /\ late' \subseteq late
  <2>1. CASE ServeCurrent
    <3>1. /\ CurrentRequest \in Request /\ Claims(CurrentRequest)
          /\ CurrentRequest.seq + Len(CurrentRequest.msgs) = SentUpTo
      BY ClaimsOwn DEF Mirrored
    <3>2. CurrentRequest.from = known BY DEF CurrentRequest, Identified
    <3>3. Within(SentUpTo)
      <4>1. /\ SentUpTo = mem.out + Len(batch) /\ Len(batch) <= MaxBatch
            /\ mem.out \in Nat /\ Len(batch) \in Nat /\ MaxBatch \in Nat
        BY Sizes DEF Reached
      <4>2. SentUpTo <= mem.out + MaxBatch /\ SentUpTo <= SentUpTo BY ONLY <4>1
      <4> QED BY <4>2 DEF Within
    <3>4. /\ Serve(CurrentRequest)
          /\ UNCHANGED <<pc, mem, batch, pending, spool, issued, late>>
      BY <2>1 DEF ServeCurrent
    <3> QED BY <3>1, <3>2, <3>3, <3>4
  <2>2. CASE ServeLate
    <3>1. PICK r \in late : Serve(r) /\ late' = late \ {r} BY <2>2 DEF ServeLate
    <3>2. /\ r \in Request /\ r.from = known /\ Claims(r) /\ Within(r.seq + Len(r.msgs))
      BY DEF TypeOK, Identified, Mirrored, Reached
    <3>3. UNCHANGED <<pc, mem, batch, pending, spool, issued>> BY <2>2 DEF ServeLate
    <3> QED BY <3>1, <3>2, <3>3
  <2> QED BY <2>1, <2>2
<1>2. \E n \in 0..Len(Fresh(r)) : Take(r, n) BY <1>1, ServedKnown
<1>3. /\ Len(log) <= Len(log') /\ Len(log') <= Len(Stream)
      /\ Len(log') = Len(log) \/ Len(log') <= r.seq + Len(r.msgs)
      /\ \A i \in 1..Len(log') : log'[i] = Stream[i]
  BY <1>1, <1>2, ServedFrom
<1>4. Stream' = Stream
  <2>1. Queue' = Queue BY <1>1 DEF Queue
  <2> QED BY <1>1, <1>3, <2>1, StreamServed
<1>5. /\ mem.out \in Nat /\ mem'.out \in Nat /\ Len(log) \in Nat /\ Len(log') \in Nat
      /\ mem.out <= Len(log) /\ Len(batch) \in Nat /\ MaxBatch \in Nat
      /\ SentUpTo = mem.out + Len(batch) /\ SentUpTo' = mem'.out + Len(batch')
  BY Sizes
<1>6. r.seq + Len(r.msgs) \in Nat
  <2>1. r.seq \in Nat /\ r.msgs \in Seq(Message) BY DEF Request
  <2> QED BY <2>1
<1>7. mem'.out <= Len(log') BY <1>1, <1>3, <1>5
<1>8. SentUpTo' = SentUpTo BY <1>1, <1>5
<1>9. \A s : Claims(s) => Claims(s)' BY <1>4 DEF Claims
<1>10. Mirrored' BY <1>1, <1>3, <1>4, <1>7, <1>9 DEF Mirrored
<1>11. \A n : Within(n) => Within(n)' BY <1>1, <1>8 DEF Within
<1>12. Within(Len(log'))
  <2>1. CASE Len(log') = Len(log) BY <2>1 DEF Reached
  <2>2. CASE Len(log') <= r.seq + Len(r.msgs)
    <3>1. PICK n \in Nat : n = r.seq + Len(r.msgs) BY <1>6
    <3>2. PICK l \in Nat : l = Len(log') BY <1>5
    <3>3. n <= mem.out + MaxBatch /\ (pc = "post" => n <= SentUpTo)
      BY <1>1, <3>1 DEF Within
    <3>4. PICK o \in Nat, b \in Nat : o = mem.out /\ b = Len(batch) BY <1>5
    <3>5. n <= o + MaxBatch /\ (pc = "post" => n <= o + b) /\ l <= n /\ MaxBatch \in Nat
      BY <1>5, <2>2, <3>1, <3>2, <3>3, <3>4
    <3>6. l <= o + MaxBatch /\ (pc = "post" => l <= o + b) BY ONLY <3>5
    <3>7. l <= mem.out + MaxBatch /\ (pc = "post" => l <= SentUpTo)
      BY <1>5, <3>4, <3>6
    <3> QED BY <3>2, <3>7 DEF Within
  <2> QED BY <1>3, <2>1, <2>2
<1>13. \A s \in late' : Within(s.seq + Len(s.msgs))' BY <1>1, <1>11 DEF Reached
<1>14. Within(Len(log))' BY <1>1, <1>8, <1>12 DEF Within
<1>15. answered' => mem'.out <= ServerACK' /\ ServerACK' <= Len(log')
  <2>1. CASE ServeCurrent
    <3>1. PICK acks \in BOOLEAN :
            /\ acks \/ Len(log') = mem.out + Len(batch)
            /\ reply' = [acks |-> acks, ack |-> Len(log'),
                         msgs |-> SubSeq(outbox', mem.next + 1, Len(outbox'))]
      BY <2>1 DEF ServeCurrent
    <3>2. reply'.acks = acks /\ reply'.ack = Len(log') BY <3>1
    <3>3. ServerACK' = Len(log') BY <1>5, <1>8, <3>1, <3>2 DEF ServerACK
    <3> QED BY <1>5, <1>7, <3>3
  <2>2. CASE ServeLate
    <3>1. UNCHANGED <<answered, reply>> BY <2>2 DEF ServeLate
    <3>2. ServerACK' = ServerACK BY <1>8, <3>1 DEF ServerACK
    <3>3. answered => mem.out <= ServerACK /\ ServerACK <= Len(log) BY DEF Reached
    <3>4. answered => ServerACK \in Nat
      <4>1. reply.ack \in Nat BY DEF TypeOK, Reply
      <4> QED BY <1>5, <4>1 DEF ServerACK
    <3>5. ASSUME answered PROVE ServerACK <= Len(log')
      <4>1. ServerACK \in Nat /\ ServerACK <= Len(log) BY <3>3, <3>4, <3>5
      <4> QED BY ONLY <1>3, <1>5, <4>1
    <3> QED BY <1>1, <3>1, <3>2, <3>3, <3>5
  <2> QED BY <2>1, <2>2
<1>16. Len(batch') <= MaxBatch BY <1>1 DEF Reached
<1> QED BY <1>1, <1>3, <1>4, <1>10, <1>13, <1>14, <1>15, <1>16 DEF Reached

\* A message of the client, and nothing else.
LEMMA SendGrowsStream ==
  ASSUME TypeOK, TypeOK', Mirrored, Reached, NEW m \in Message,
         pending' = Append(pending, m),
         UNCHANGED <<pc, batch, log, mem, spool, answered, reply, late>>
  PROVE  Stream' = Append(Stream, m) /\ Mirrored' /\ Reached'
<1>1. Stream' = Append(Stream, m) BY StreamAppended
<1>2. PICK s \in Seq(Message) : s = Stream BY StreamType DEF Mirrored
<1>3. /\ Len(Append(s, m)) = Len(s) + 1 /\ \A i \in 1..Len(s) : Append(s, m)[i] = s[i]
      /\ Len(s) \in Nat
  OBVIOUS
<1>4. Len(log) \in Nat /\ Len(log) <= Len(s) /\ mem.out <= Len(log)
  BY <1>2, Sizes DEF Mirrored
<1>5. Len(log') <= Len(Stream') BY <1>1, <1>2, <1>3, <1>4
<1>6. \A i \in 1..Len(log') : log'[i] = Stream'[i]
  <2> SUFFICES ASSUME NEW i \in 1..Len(log) PROVE log[i] = Stream'[i] OBVIOUS
  <2>1. i \in 1..Len(s) BY <1>3, <1>4
  <2> QED BY <1>1, <1>2, <1>3, <2>1 DEF Mirrored
<1>7. ASSUME NEW r \in late PROVE Claims(r)'
  <2>1. r \in Request /\ Claims(r) BY DEF TypeOK, Mirrored
  <2>2. r.seq \in Nat /\ Len(r.msgs) \in Nat
    <3>1. r.msgs \in Seq(Message) /\ r.seq \in Nat BY <2>1 DEF Request
    <3> QED BY <3>1
  <2>3. /\ r.seq + Len(r.msgs) <= Len(s)
        /\ \A k \in 1..Len(r.msgs) : r.msgs[k] = s[r.seq + k]
    BY <1>2, <2>1 DEF Claims
  <2>4. r.seq + Len(r.msgs) <= Len(s) + 1 BY ONLY <1>3, <2>2, <2>3
  <2>5. \A k \in 1..Len(r.msgs) : r.seq + k \in 1..Len(s) BY ONLY <1>3, <2>2, <2>3
  <2>6. \A k \in 1..Len(r.msgs) : r.msgs[k] = Append(s, m)[r.seq + k]
    BY <1>3, <2>3, <2>5
  <2> QED BY <1>1, <1>2, <1>3, <2>4, <2>6 DEF Claims
<1>8. Mirrored' BY <1>4, <1>5, <1>6, <1>7 DEF Mirrored
<1>9. \A n : Within(n)' <=> Within(n) BY DEF Within, SentUpTo
<1>10. ServerACK' = ServerACK BY DEF ServerACK, SentUpTo
<1>11. Within(Len(log))' BY <1>9 DEF Reached
<1>12. \A r \in late' : Within(r.seq + Len(r.msgs))' BY <1>9 DEF Reached
<1>13. Reached' BY <1>10, <1>11, <1>12 DEF Reached
<1> QED BY <1>1, <1>8, <1>13

\* A step that is none of these.
LEMMA CalmKeepsStream ==
  ASSUME TypeOK, TypeOK', Mirrored, Reached, Still, Queue' = Queue
  PROVE  Stream' = Stream /\ log' = log /\ issued' = issued /\ Mirrored' /\ Reached'
<1>1. /\ UNCHANGED <<batch, log, answered, reply, issued, late>>
      /\ mem'.out = mem.out /\ (pc' = "post" => pc = "post")
  BY DEF Still
<1>2. Stream' = Stream BY <1>1 DEF Stream
<1>3. mem'.out <= Len(log) BY <1>1 DEF Mirrored
<1>4. Mirrored' BY <1>1, <1>2, <1>3, MirroredKept
<1>5. SentUpTo' = SentUpTo BY <1>1 DEF SentUpTo
<1>6. \A n : Within(n) => Within(n)' BY <1>1, <1>5 DEF Within
<1>7. ServerACK' = ServerACK BY <1>1, <1>5 DEF ServerACK
<1>8. Within(Len(log))'
  <2>1. Within(Len(log)) BY DEF Reached
  <2> QED BY <1>1, <1>5, <2>1 DEF Within
<1>9. \A r \in late' : Within(r.seq + Len(r.msgs))' BY <1>1, <1>6 DEF Reached
<1>10. Len(batch') <= MaxBatch BY <1>1 DEF Reached
<1>11. answered' => mem'.out <= ServerACK' /\ ServerACK' <= Len(log')
  BY <1>1, <1>7 DEF Reached
<1> QED BY <1>1, <1>2, <1>4, <1>8, <1>9, <1>10, <1>11 DEF Reached

-----------------------------------------------------------------------------
(***************************************************************************)
(* What the server does not have is the stream from where the server is.   *)
(***************************************************************************)
\* The results owed are those of the stream's end.
LEMMA OwedRest ==
  /\ TypeOK /\ Mirrored /\ Queue = pending =>
       /\ Stream \in Seq(Message) /\ Len(log) <= Len(Stream)
       /\ Owed = Results(SubSeq(Stream, Len(log) + 1, Len(Stream)))
  /\ TypeOK' /\ Mirrored' /\ Queue' = pending' =>
       Owed' = Results(SubSeq(Stream', Len(log') + 1, Len(Stream')))
<1>1. ASSUME TypeOK, Mirrored, Queue = pending
      PROVE  /\ Stream \in Seq(Message) /\ Len(log) <= Len(Stream)
             /\ Owed = Results(SubSeq(Stream, Len(log) + 1, Len(Stream)))
  <2>1. PICK l \in Seq(Message) : l = log BY <1>1 DEF TypeOK
  <2>2. PICK w \in Seq(Message) : w = batch \o pending
    <3>1. batch \o pending \in Seq(Message) BY <1>1, StreamType DEF Mirrored
    <3> QED BY <3>1
  <2>3. PICK n \in Nat : n = mem.out BY <1>1, StreamType DEF Mirrored
  <2>4. Stream = SubSeq(l, 1, n) \o w BY <1>1, <2>1, <2>2, <2>3 DEF Stream
  <2>5. n <= Len(l) /\ Len(l) <= Len(SubSeq(l, 1, n) \o w)
    BY <1>1, <2>1, <2>3, <2>4 DEF Mirrored
  <2>6. /\ SubSeq(l, 1, n) \o w \in Seq(Message)
        /\ SubSeq(w, Len(l) - n + 1, Len(w))
             = SubSeq(SubSeq(l, 1, n) \o w, Len(l) + 1, Len(SubSeq(l, 1, n) \o w))
    BY <2>5, RestOfStream
  <2>7. Undelivered = SubSeq(w, Len(l) - n + 1, Len(w))
    BY <2>1, <2>2, <2>3 DEF Undelivered
  <2> QED BY <2>1, <2>4, <2>5, <2>6, <2>7 DEF Owed
<1>2. ASSUME TypeOK', Mirrored', Queue' = pending'
      PROVE  Owed' = Results(SubSeq(Stream', Len(log') + 1, Len(Stream')))
  <2>1. PICK l \in Seq(Message) : l = log' BY <1>2 DEF TypeOK
  <2>2. PICK w \in Seq(Message) : w = batch' \o pending'
    <3>1. batch' \in Seq(Message) /\ pending' \in Seq(Message) BY <1>2 DEF TypeOK
    <3>2. batch' \o pending' \in Seq(Message) BY <3>1
    <3> QED BY <3>2
  <2>3. PICK n \in Nat : n = mem'.out BY <1>2 DEF TypeOK, State
  <2>4. Stream' = SubSeq(l, 1, n) \o w BY <1>2, <2>1, <2>2, <2>3 DEF Stream
  <2>5. n <= Len(l) /\ Len(l) <= Len(SubSeq(l, 1, n) \o w)
    BY <1>2, <2>1, <2>3, <2>4 DEF Mirrored
  <2>6. SubSeq(w, Len(l) - n + 1, Len(w))
          = SubSeq(SubSeq(l, 1, n) \o w, Len(l) + 1, Len(SubSeq(l, 1, n) \o w))
    BY <2>5, RestOfStream
  <2>7. Undelivered' = SubSeq(w, Len(l) - n + 1, Len(w))
    BY <2>1, <2>2, <2>3 DEF Undelivered
  <2> QED BY <2>1, <2>4, <2>6, <2>7 DEF Owed
<1> QED BY <1>1, <1>2

\* The server takes a stretch of the stream.
LEMMA OwedAdvanced ==
  ASSUME TypeOK, TypeOK', Mirrored, Mirrored', Queue = pending, Queue' = pending',
         Stream' = Stream, issued' = issued, Len(log) <= Len(log')
  PROVE  OwedTaken
<1>1. PICK s \in Seq(Message) : s = Stream BY OwedRest
<1>2. PICK l \in Seq(Message) : l = log BY DEF TypeOK
<1>3. PICK m \in Seq(Message) : m = log' BY DEF TypeOK
<1>4. PICK a \in Nat : a = Len(l) OBVIOUS
<1>5. PICK b \in Nat : b = Len(m) OBVIOUS
<1>6. /\ a <= b /\ b <= Len(s) /\ Len(s) \in Nat
      /\ \A i \in 1..a : l[i] = s[i]
      /\ \A i \in 1..b : m[i] = s[i]
  BY <1>1, <1>2, <1>3, <1>4, <1>5 DEF Mirrored
<1>7. l = SubSeq(s, 1, a)
  <2>1. Len(l) <= Len(s) /\ \A i \in 1..Len(l) : l[i] = s[i] BY <1>4, <1>6
  <2> QED BY ONLY <1>4, <2>1, s \in Seq(Message), l \in Seq(Message), PrefixEqual
<1>8. m = SubSeq(s, 1, b)
  <2>1. Len(m) <= Len(s) /\ \A i \in 1..Len(m) : m[i] = s[i] BY <1>5, <1>6
  <2> QED BY ONLY <1>5, <2>1, s \in Seq(Message), m \in Seq(Message), PrefixEqual
<1>9. PICK f \in Seq(Message) : f = SubSeq(s, a + 1, b)
  <2>1. a + 1 \in Nat \ {0} /\ b \in Int /\ b <= Len(s) BY <1>6
  <2>2. SubSeq(s, a + 1, b) \in Seq(Message) BY <2>1, Slice
  <2> QED BY <2>2
<1>10. PICK t \in Seq(Message) : t = SubSeq(s, b + 1, Len(s))
  <2>1. b + 1 \in Nat \ {0} /\ Len(s) \in Int /\ Len(s) <= Len(s) BY <1>6
  <2>2. SubSeq(s, b + 1, Len(s)) \in Seq(Message) BY <2>1, Slice
  <2> QED BY <2>2
<1>11. m = l \o f
  <2>1. 1 \in 1..(Len(s) + 1) /\ a \in (1 - 1)..Len(s) /\ b \in a..Len(s) BY <1>6
  <2>2. SubSeq(s, 1, a) \o SubSeq(s, a + 1, b) = SubSeq(s, 1, b)
    BY <2>1, ConcatAdjacentSubSeq
  <2> QED BY <1>7, <1>8, <1>9, <2>2
<1>12. SubSeq(s, a + 1, Len(s)) = f \o t
  <2>1. PICK c \in Nat : c = a + 1 OBVIOUS
  <2>2. c \in 1..(Len(s) + 1) /\ b \in (c - 1)..Len(s) /\ Len(s) \in b..Len(s)
    BY <1>6, <2>1
  <2>3. SubSeq(s, c, b) \o SubSeq(s, b + 1, Len(s)) = SubSeq(s, c, Len(s))
    BY <2>2, ConcatAdjacentSubSeq
  <2> QED BY <1>9, <1>10, <2>1, <2>3
<1>13. Owed = Results(f \o t) BY <1>1, <1>2, <1>4, <1>12, OwedRest
<1>14. Owed' = Results(t) BY <1>1, <1>3, <1>5, <1>10, OwedRest
<1>15. Taken = Results(l) /\ Taken' = Results(l \o f) BY <1>2, <1>3, <1>11 DEF Taken
<1>16. /\ Results(f \o t) = Results(f) \o Results(t)
       /\ Results(l \o f) = Results(l) \o Results(f)
  BY ResultsJoined
<1>17. Results(f) \in Seq(Message) /\ Results(t) \in Seq(Message) BY ResultsType
<1> HIDE DEF Results
<1> QED BY <1>13, <1>14, <1>15, <1>16, <1>17 DEF OwedTaken

\* A message more in the stream is owed if it is a result.
LEMMA OwedExtended ==
  ASSUME TypeOK, TypeOK', Mirrored, Mirrored', Queue = pending, Queue' = pending',
         NEW m \in Message, Stream' = Append(Stream, m), log' = log
  PROVE  Owed' = Owed \o Results(<<m>>)
<1>1. PICK s \in Seq(Message) : s = Stream BY OwedRest
<1>2. PICK a \in Nat : a = Len(log) BY StreamType DEF Mirrored
<1>3. a <= Len(s) BY <1>1, <1>2, OwedRest
<1>4. PICK e \in Seq(Message) : e = <<m>>
  <2>1. <<m>> \in Seq(Message) OBVIOUS
  <2> QED BY <2>1
<1>5. Stream' = s \o e BY <1>1, <1>4, AppendIsConcat
<1>6. SubSeq(s \o e, a + 1, Len(s \o e)) = SubSeq(s, a + 1, Len(s)) \o e
  BY <1>3, JoinedTail
<1>7. PICK f \in Seq(Message) : f = SubSeq(s, a + 1, Len(s))
  <2>1. a + 1 \in Nat \ {0} /\ Len(s) \in Int /\ Len(s) <= Len(s) OBVIOUS
  <2>2. SubSeq(s, a + 1, Len(s)) \in Seq(Message) BY <2>1, Slice
  <2> QED BY <2>2
<1>8. Owed' = Results(f \o e) BY <1>2, <1>5, <1>6, <1>7, OwedRest
<1>9. Owed = Results(f) BY <1>1, <1>2, <1>7, OwedRest
<1>10. Results(f \o e) = Results(f) \o Results(e) BY ResultsJoined
<1> QED BY <1>4, <1>8, <1>9, <1>10

-----------------------------------------------------------------------------
(***************************************************************************)
(* The same promise, through replies that are lost or late.                *)
(***************************************************************************)
Retrying == Lively /\ Identified /\ Mirrored /\ Reached

\* The stream, or the stream with a message of the telemetry or a result at its end.
StreamRests == Stream' = Stream /\ issued' = issued
StreamGrows == \E m \in Message :
                 /\ Stream' = Append(Stream, m)
                 /\ \/ sent' = sent + 1 /\ issued' = issued
                    \/ \E c \in running : issued' = issued \cup {c}

\* ... or only a beginning of it is left.
StreamCut == /\ Len(Stream') \in Nat /\ Len(Stream') <= Len(Stream)
             /\ UNCHANGED <<sent, issued>>

\* A step keeps the stream, and puts a result in it, or takes its oldest, or neither.
LEMMA RetryingStep ==
  ASSUME ReplyMayBeLost, QueueFits, TypeOK, TypeOK', Positions, Retrying, [Next]_vars
  PROVE  /\ Retrying'
         /\ OwedKept \/ OwedGrows \/ OwedTaken
         /\ StreamRests \/ StreamGrows
<1>1. Lively /\ Identified /\ Mirrored /\ Reached BY DEF Retrying
<1>2. Lively' /\ Identified'
  <2>1. NobodyForgets BY DEF ReplyMayBeLost, NobodyForgets
  <2> QED BY <1>1, <2>1, LossySteps, IdentifiedStep
<1>10. Queue = pending /\ Queue' = pending'
  <2>1. Queue = pending BY <1>1, QueueType DEF Lively
  <2>2. <<>> \o pending' = pending'
    <3>1. pending' \in Seq(Message) BY DEF TypeOK
    <3> QED BY <3>1, ConcatEmptySeq
  <2>3. Queue' = pending' BY <1>2, <2>2 DEF Lively, Queue
  <2> QED BY <2>1, <2>3
<1>3. ASSUME Mirrored', Reached', Stream' = Stream, issued' = issued, Len(log) <= Len(log')
      PROVE  Retrying' /\ OwedTaken /\ StreamRests
  BY <1>1, <1>2, <1>3, <1>10, OwedAdvanced DEF Retrying, StreamRests
<1>4. Len(log) <= Len(log)
  <2>1. Len(log) \in Nat BY Counters
  <2> QED BY <2>1
<1>5. CASE Drain \/ PostFails \/ BoundQueue \/ Acknowledge
  BY <1>1, <1>3, <1>4, <1>5, LoopKeepsStream DEF Lively, BatchPosted
<1>6. CASE ServeCurrent \/ ServeLate BY <1>1, <1>3, <1>6, ServerKeepsStream
<1>7. CASE Calm BY <1>1, <1>3, <1>4, <1>7, <1>10, CalmKeepsStream DEF Calm
<1>8. CASE Send
  <2>1. PICK t \in Telemetry : pending' = Append(pending, Telemetric(t, sent + 1))
    BY <1>8 DEF Send
  <2>2. PICK m : m = Telemetric(t, sent + 1) OBVIOUS
  <2>3. m \in Message /\ m.type # "operation-result"
    <3>1. sent + 1 \in Nat BY DEF TypeOK
    <3> QED BY <2>2, <3>1, ClientMessages, ExchangeAssumptions
            DEF Telemetric, ProtocolTypes
  <2>4. UNCHANGED <<pc, batch, log, mem, spool, answered, reply, late, issued>>
    BY <1>8 DEF Send
  <2>5. Stream' = Append(Stream, m) /\ Mirrored' /\ Reached'
    BY <1>1, <2>1, <2>2, <2>3, <2>4, SendGrowsStream
  <2>6. Owed' = Owed \o Results(<<m>>) BY <1>1, <1>10, <2>3, <2>4, <2>5, OwedExtended
  <2>7. Owed \in Seq(Message) BY OwedType
  <2>8. Owed' = Owed BY <2>3, <2>6, <2>7, NoResults, ConcatEmptySeq
  <2>9. OwedKept BY <2>4, <2>8 DEF OwedKept, Taken
  <2>10. sent' = sent + 1 BY <1>8 DEF Send
  <2>11. StreamGrows BY <2>3, <2>4, <2>5, <2>10 DEF StreamGrows
  <2> QED BY <1>2, <2>5, <2>9, <2>11 DEF Retrying
<1>9. CASE SendUrgent
  <2>1. PICK c \in running : pending' = Append(pending, Result(c)) /\ issued' = issued \cup {c}
    BY <1>9 DEF SendUrgent
  <2>2. c \in Nat /\ Result(c) \in Message BY ClientMessages DEF TypeOK
  <2>3. UNCHANGED <<pc, batch, log, mem, spool, answered, reply, late>>
    BY <1>9 DEF SendUrgent
  <2>4. Stream' = Append(Stream, Result(c)) /\ Mirrored' /\ Reached'
    BY <1>1, <2>1, <2>2, <2>3, SendGrowsStream
  <2>5. Owed' = Owed \o Results(<<Result(c)>>)
    BY <1>1, <1>10, <2>2, <2>3, <2>4, OwedExtended
  <2>6. Results(<<Result(c)>>) = <<Result(c)>> BY <2>2, NoResults
  <2>7. Owed' = Append(Owed, Result(c))
    <3>1. Owed \in Seq(Message) BY OwedType
    <3> QED BY <2>2, <2>5, <2>6, <3>1, AppendIsConcat
  <2>8. OwedGrows BY <2>1, <2>3, <2>7 DEF OwedGrows, Taken
  <2>9. StreamGrows BY <2>1, <2>2, <2>4 DEF StreamGrows
  <2> QED BY <1>2, <2>4, <2>8, <2>9 DEF Retrying
<1> QED BY <1>1, <1>5, <1>6, <1>7, <1>8, <1>9, LossySteps

\* The first state.
LEMMA StreamInit ==
  ASSUME InitialID # NoID, Init PROVE Identified /\ Mirrored /\ Reached
<1>1. TypeOK BY TypeInit
<1>2. /\ pc = "load" /\ ~final /\ ~stopping /\ late = {} /\ spool = <<>> /\ mem = disk
      /\ batch = <<>> /\ log = <<>> /\ ~answered /\ pending = <<>> /\ outbox = <<>>
      /\ mem.out = 0 /\ mem.id = InitialID /\ known = InitialID /\ mem.accepted = {}
  BY DEF Init, FreshState
<1>4. Identified BY <1>2 DEF Identified
<1>5. Len(log) = 0 /\ Len(batch) = 0 /\ Len(pending) = 0 BY <1>2
<1>6. Len(Stream) = 0
  <2>1. mem.out <= Len(log) BY <1>2, <1>5
  <2>2. Len(Stream) = mem.out + Len(batch) + Len(pending)
    BY <1>1, <1>2, <2>1, StreamType, QueueType
  <2> QED BY <1>2, <1>5, <2>2
<1>7. Mirrored BY <1>2, <1>5, <1>6 DEF Mirrored
<1>8. MaxBatch \in Nat BY ExchangeAssumptions
<1>9. Within(Len(log)) BY <1>2, <1>5, <1>8 DEF Within
<1>10. Reached BY <1>2, <1>5, <1>8, <1>9 DEF Reached
<1> QED BY <1>4, <1>7, <1>10

LEMMA RetryingInit == ASSUME ReplyMayBeLost, Init PROVE Retrying
<1>1. Lively BY DEF Init, Lively
<1>2. Identified /\ Mirrored /\ Reached BY StreamInit DEF ReplyMayBeLost
<1> QED BY <1>1, <1>2 DEF Retrying

\* Why each result is there once, whatever was sent again.
Redelivering == Retrying /\ Once /\ Accounted

\* ... with every result accounted for.
LEMMA RedeliveringStep ==
  ASSUME ReplyMayBeLost, QueueFits, TypeOK, TypeOK', Positions, Redelivering, [Next]_vars
  PROVE  /\ Redelivering'
         /\ OwedKept \/ OwedGrows \/ OwedTaken
         /\ StreamRests \/ StreamGrows
<1>1. /\ Retrying'
      /\ OwedKept \/ OwedGrows \/ OwedTaken
      /\ StreamRests \/ StreamGrows
  BY RetryingStep DEF Redelivering
<1>2. Once'
  <2>1. "crash" \notin Faults BY DEF ReplyMayBeLost
  <2> QED BY <2>1, OnceStep DEF Redelivering, Retrying
<1>3. Accounted' BY <1>1, AccountedStep DEF Redelivering
<1> QED BY <1>1, <1>2, <1>3 DEF Redelivering

\* ... from the first state.
LEMMA RedeliveringInit ==
  ASSUME ReplyMayBeLost, Init PROVE Redelivering
<1>1. Delivering BY DeliveringInit
<1> QED BY <1>1, RetryingInit DEF Redelivering, Delivering

\* Sending again loses no result and delivers none twice: with POSTs that fail after the
\* server took the batch, requests that arrive when the client has given up on them and
\* others have followed, and partial acknowledgements of what was sent again, the server
\* takes the results once each and in order, as long as the bound drops nothing
\* (performExchange 534-584: the batch goes back to the front, the number stays).
THEOREM RetriesImplementDelivery ==
  ASSUME ReplyMayBeLost PROVE Spec /\ []QueueFits => DeliversOnceInOrder
<1>1. Init => Promise!Init
  <2> SUFFICES ASSUME Init PROVE Promise!Init OBVIOUS
  <2>1. TypeOK /\ Delivering BY TypeInit, DeliveringInit
  <2>2. pending = <<>> /\ batch = <<>> /\ log = <<>> /\ ~answered BY DEF Init
  <2>3. Owed = Results(batch) \o Results(pending) BY <2>1, <2>2, OwedAgreed DEF Delivering
  <2>4. Owed = <<>> /\ Taken = <<>> BY <2>2, <2>3, NoResults DEF Taken
  <2> QED BY <2>4 DEF Promise!Init, Owed, Taken
<1>2. Init => Redelivering BY RedeliveringInit
<1>3. TypeOK /\ TypeOK' /\ Positions /\ QueueFits /\ Redelivering /\ [Next]_vars
        => Redelivering' /\ [Promise!Next]_<<Results(Undelivered), Results(log)>>
  BY RedeliveringStep, PromiseStep DEF Redelivering
<1> QED BY <1>1, <1>2, <1>3, TypeCorrect, PositionsAgree, PTL
        DEF Spec, DeliversOnceInOrder, Promise!Spec

\* ... and at every moment a result is in the queue, in the batch or with the server.
THEOREM RetriesKeepResults ==
  ASSUME ReplyMayBeLost PROVE Spec /\ []QueueFits => []ResultsKept
<1>1. Init => Redelivering BY RedeliveringInit
<1>2. TypeOK /\ TypeOK' /\ Positions /\ QueueFits /\ Redelivering /\ [Next]_vars
        => Redelivering'
  BY RedeliveringStep
<1>3. TypeOK /\ Positions /\ Accounted => ResultsKept BY AccountedIsKept
<1> QED BY <1>1, <1>2, <1>3, TypeCorrect, PositionsAgree, PTL DEF Spec, Redelivering

-----------------------------------------------------------------------------
(***************************************************************************)
(* The bound has nothing to drop in an instance with room for every        *)
(* message of it, sent again or not: the queue holds no message twice.     *)
(***************************************************************************)

\* Room for the telemetry of a behaviour and a result for each command the server sends.
RoomForAll == MaxTelemetry + MaxOrders <= MaxQueued

\* What was sent and what was answered, each once.
Counted ==
  /\ IsFiniteSet(issued) /\ Len(Stream) <= sent + Cardinality(issued)
  /\ sent <= MaxTelemetry
  /\ Len(outbox) <= orders /\ orders <= MaxOrders

\* How a step counts.
LEMMA CountsStep ==
  ASSUME TypeOK, Identified, Counted, [Next]_vars
  PROVE  /\ sent <= sent' /\ sent' <= MaxTelemetry
         /\ Len(outbox') <= orders' /\ orders' <= MaxOrders
<1>1. /\ sent \in Nat /\ orders \in Nat /\ outbox \in Seq(Inbound) /\ Len(outbox) \in Nat
      /\ MaxTelemetry \in Nat /\ MaxOrders \in Nat
  BY ExchangeAssumptions DEF TypeOK
<1>2. ASSUME UNCHANGED <<sent, orders, outbox>>
      PROVE  /\ sent <= sent' /\ sent' <= MaxTelemetry
             /\ Len(outbox') <= orders' /\ orders' <= MaxOrders
  BY <1>1, <1>2 DEF Counted
<1>3. CASE Send
  <2>1. sent < MaxTelemetry /\ sent' = sent + 1 /\ UNCHANGED <<orders, outbox>>
    BY <1>3 DEF Send
  <2> QED BY <1>1, <2>1 DEF Counted
<1>4. CASE Order
  <2>1. orders < MaxOrders /\ orders' = orders + 1 /\ sent' = sent BY <1>4 DEF Order
  <2>2. \E m : outbox' = Append(outbox, m) BY <1>4 DEF Order
  <2>3. Len(outbox') = Len(outbox) + 1 BY <1>1, <2>2
  <2> QED BY <1>1, <2>1, <2>3 DEF Counted
<1>5. CASE ServeCurrent
  <2>1. CurrentRequest.from = known BY DEF CurrentRequest, Identified
  <2>2. outbox' = outbox BY <1>5, <2>1, ServedKnown DEF ServeCurrent
  <2> QED BY <1>2, <1>5, <2>2 DEF ServeCurrent
<1>6. CASE ServeLate
  <2>1. PICK r \in late : Serve(r) BY <1>6 DEF ServeLate
  <2>2. outbox' = outbox BY <2>1, ServedKnown DEF Identified
  <2> QED BY <1>2, <1>6, <2>2 DEF ServeLate
<1>7. CASE RunStep \/ TimerFires \/ Woken \/ FinalDrain \/ Boot \/ Exit
  BY <1>2, <1>7 DEF RunStep, Load, Drain, Acknowledge, Dispatch, DispatchSetID,
     DispatchUnknownID, DispatchAcceptedTypes, DispatchResynchronize,
     DispatchCommand, DispatchLogged, Process, SaveState, BoundQueue, WriteSpool,
     Decide, TimerFires, Woken, FinalDrain, Boot, Exit, ProcessEnds
<1>8. CASE SendUrgent \/ TriggerExchange \/ PingFindsMessages \/ UNCHANGED vars
  BY <1>2, <1>8 DEF SendUrgent, TriggerExchange, PingFindsMessages, vars
<1>9. CASE FaultStep
  BY <1>2, <1>9 DEF FaultStep, LoadFails, MarshalFails, PostFails, ReplyUndecodable,
     SaveStateFails, Forget, Stop, Crash, ProcessEnds
<1> QED BY <1>3, <1>4, <1>5, <1>6, <1>7, <1>8, <1>9 DEF Next

\* There is a result for each command at most, and every one is in the server's outbox.
LEMMA IssuedBounded ==
  ASSUME TypeOK, Positions, Once, Counted
  PROVE  Cardinality(issued) \in Nat /\ Cardinality(issued) <= MaxOrders
<1>1. PICK n \in Nat : n = Processed
  <2>1. Processed \in Int /\ 0 <= Processed BY Counters DEF Positions
  <2> QED BY <2>1
<1>2. n <= MaxOrders
  <2>1. mem.next \in Nat /\ Len(inbound) \in Nat /\ Len(outbox) \in Nat
    <3>1. mem.next \in Nat /\ inbound \in Seq(Inbound) /\ outbox \in Seq(Inbound)
      BY Counters
    <3> QED BY ONLY <3>1
  <2>2. orders \in Nat /\ MaxOrders \in Nat BY ExchangeAssumptions DEF TypeOK
  <2>3. n = mem.next - Len(inbound) BY <1>1 DEF Processed
  <2>4. mem.next <= Len(outbox) /\ Len(outbox) <= orders /\ orders <= MaxOrders
    BY DEF Positions, Counted
  <2> QED BY ONLY <2>1, <2>2, <2>3, <2>4
<1>3. issued \in SUBSET (1..n) BY <1>1 DEF Once
<1>4. IsFiniteSet(1..n) /\ Cardinality(1..n) = n
  <2>1. 1 \in Int /\ n \in Int OBVIOUS
  <2>2. Cardinality(1..n) = IF 1 > n THEN 0 ELSE n - 1 + 1 BY <2>1, FS_Interval
  <2>3. Cardinality(1..n) = n BY ONLY <2>2, n \in Nat
  <2> QED BY <2>1, <2>3, FS_Interval
<1>5. IsFiniteSet(issued) /\ Cardinality(issued) <= n BY <1>3, <1>4, FS_Subset
<1>6. Cardinality(issued) \in Nat BY <1>5, FS_CardinalityType
<1>7. MaxOrders \in Nat BY ExchangeAssumptions
<1> QED BY ONLY <1>2, <1>5, <1>6, <1>7

\* The queue is a part of the stream, so it has room for it.
LEMMA CountedFits ==
  ASSUME RoomForAll, TypeOK, Positions, Mirrored, Once, Counted PROVE QueueFits
<1> SUFFICES ASSUME pc = "bound" PROVE Len(pending) <= MaxQueued BY DEF QueueFits
<1>1. /\ Len(Stream) = mem.out + Len(batch) + Len(pending)
      /\ mem.out \in Nat /\ Len(batch) \in Nat /\ Len(pending) \in Nat
  <2>1. Queue = pending BY QueueType
  <2> QED BY <2>1, StreamType DEF Mirrored
<1>2. Cardinality(issued) \in Nat /\ Cardinality(issued) <= MaxOrders BY IssuedBounded
<1>3. sent \in Nat /\ MaxTelemetry \in Nat /\ MaxOrders \in Nat /\ MaxQueued \in Nat
  BY ExchangeAssumptions, MaxQueuedAssumption DEF TypeOK
<1>4. Len(Stream) <= sent + Cardinality(issued) /\ sent <= MaxTelemetry BY DEF Counted
<1>5. MaxTelemetry + MaxOrders <= MaxQueued BY DEF RoomForAll
<1> QED BY ONLY <1>1, <1>2, <1>3, <1>4, <1>5

\* A result comes with the command it answers, which has none yet.
LEMMA CountedStep ==
  ASSUME TypeOK, TypeOK', Positions, Identified, Mirrored, Once, Counted, [Next]_vars,
         StreamRests \/ StreamGrows \/ StreamCut
  PROVE  Counted'
<1>3. /\ sent <= sent' /\ sent' <= MaxTelemetry
      /\ Len(outbox') <= orders' /\ orders' <= MaxOrders
  BY CountsStep
<1>4. PICK s \in Seq(Message) : s = Stream BY StreamType DEF Mirrored
<1>5. PICK n \in Nat : n = Cardinality(issued) BY IssuedBounded
<1>6. Len(s) \in Nat /\ sent \in Nat /\ sent' \in Nat /\ Len(s) <= sent + n
  BY <1>4, <1>5 DEF TypeOK, Counted
<1>7. IsFiniteSet(issued') /\ Len(Stream') <= sent' + Cardinality(issued')
  <2>1. CASE StreamRests
    <3>1. IsFiniteSet(issued') /\ Len(Stream') = Len(s) /\ Cardinality(issued') = n
      BY <1>4, <1>5, <2>1 DEF StreamRests, Counted
    <3>2. Len(s) <= sent' + n BY ONLY <1>3, <1>6, n \in Nat
    <3> QED BY <3>1, <3>2
  <2>2. CASE StreamGrows
    <3>1. PICK m \in Message :
            /\ Stream' = Append(s, m)
            /\ \/ sent' = sent + 1 /\ issued' = issued
               \/ \E c \in running : issued' = issued \cup {c}
      BY <1>4, <2>2 DEF StreamGrows
    <3>2. Len(Stream') = Len(s) + 1
      <4>1. Len(Append(s, m)) = Len(s) + 1 OBVIOUS
      <4> QED BY <3>1, <4>1
    <3>3. CASE sent' = sent + 1 /\ issued' = issued
      <4>1. Len(s) + 1 <= (sent + 1) + n BY ONLY <1>6, n \in Nat
      <4> QED BY <1>5, <3>2, <3>3, <4>1 DEF Counted
    <3>4. CASE \E c \in running : issued' = issued \cup {c}
      <4>1. PICK c \in running : issued' = issued \cup {c} BY <3>4
      <4>2. c \notin issued BY <4>1 DEF Once
      <4>3. IsFiniteSet(issued') /\ Cardinality(issued') = n + 1
        BY <1>5, <4>1, <4>2, FS_AddElement DEF Counted
      <4>4. Len(s) + 1 <= sent' + (n + 1) BY ONLY <1>3, <1>6, n \in Nat
      <4> QED BY <3>2, <4>3, <4>4
    <3> QED BY <3>1, <3>3, <3>4
  <2>3. CASE StreamCut
    <3>1. PICK k \in Nat : k = Len(Stream') /\ k <= Len(s) BY <1>4, <2>3 DEF StreamCut
    <3>2. k <= sent' + n BY ONLY <1>3, <1>6, <3>1, n \in Nat
    <3> QED BY <1>5, <2>3, <3>1, <3>2 DEF StreamCut, Counted
  <2> QED BY <2>1, <2>2, <2>3
<1> QED BY <1>3, <1>7 DEF Counted

\* The first state.
LEMMA CountedInit == ASSUME Init PROVE Counted
<1>1. /\ issued = {} /\ sent = 0 /\ orders = 0 /\ outbox = <<>> /\ batch = <<>>
      /\ log = <<>> /\ pending = <<>> /\ mem.out = 0
  BY DEF Init, FreshState
<1>2. Len(outbox) = 0 /\ Len(batch) = 0 /\ Len(pending) = 0 /\ Len(log) = 0 BY <1>1
<1>3. Len(Stream) = 0
  <2>1. mem.out <= Len(log) BY <1>1, <1>2
  <2>2. spool = <<>> /\ Len(Stream) = mem.out + Len(batch) + Len(pending)
    BY <2>1, TypeInit, StreamType, QueueType DEF Init
  <2> QED BY <1>1, <1>2, <2>2
<1>4. IsFiniteSet(issued) /\ Cardinality(issued) = 0 BY <1>1, FS_EmptySet
<1>5. MaxTelemetry \in Nat /\ MaxOrders \in Nat BY ExchangeAssumptions
<1> QED BY <1>1, <1>2, <1>3, <1>4, <1>5 DEF Counted

\* A message sent again is in the queue once, where it was: an instance with room for all
\* its messages never has one too many, however often they are sent (the batch goes back
\* to the front of the queue it came from, exchange.go:534-584, and every command gets
\* one result), so that enforceQueueBound (queue.go:119-142) drops nothing.
THEOREM NothingToDrop ==
  ASSUME ReplyMayBeLost, RoomForAll PROVE Spec => []QueueFits
<1>1. Init => Redelivering /\ Counted BY RedeliveringInit, CountedInit
<1>2. TypeOK /\ TypeOK' /\ Positions /\ Redelivering /\ Counted /\ [Next]_vars
        => Redelivering' /\ Counted'
  <2> SUFFICES ASSUME TypeOK, TypeOK', Positions, Redelivering, Counted, [Next]_vars
               PROVE  Redelivering' /\ Counted'
    OBVIOUS
  <2>1. Identified /\ Mirrored /\ Once BY DEF Redelivering, Retrying
  <2>2. QueueFits BY <2>1, CountedFits
  <2>3. Redelivering' /\ (StreamRests \/ StreamGrows) BY <2>2, RedeliveringStep
  <2> QED BY <2>1, <2>3, CountedStep
<1>3. TypeOK /\ Positions /\ Redelivering /\ Counted => QueueFits
  BY CountedFits DEF Redelivering, Retrying
<1> QED BY <1>1, <1>2, <1>3, TypeCorrect, PositionsAgree, PTL DEF Spec

\* The promise of the exchange loop, with nothing assumed of the behaviour: through lost
\* replies, late requests and partial acknowledgements the server takes every operation
\* result once and in order, and none is ever missing on its way.
THEOREM RetriesDeliverOnce ==
  ASSUME ReplyMayBeLost, RoomForAll PROVE Spec => DeliversOnceInOrder /\ []ResultsKept
BY NothingToDrop, RetriesImplementDelivery, RetriesKeepResults, PTL

-----------------------------------------------------------------------------
(***************************************************************************)
(* A shutdown and the restart that follows it.  The stream is cut behind   *)
(* the spool, in which the client has all that the server has beyond its   *)
(* number, and goes on when Run has read it.                               *)
(***************************************************************************)

\* Failures of the network, and processes that end as SIGTERM ends them: after the final
\* drain, with both files written.
RestartsAreClean ==
  /\ Faults \subseteq {"refuse", "lostReply", "late", "partial", "stop"}
  /\ Orders \subseteq {"command", "unsubscribed"}
  /\ InitialID # NoID

\* state.json has the state Run holds, but while a reply is processed.
Written == pc # "dispatch" => mem = disk

\* A queue that reaches as far as the server and every request on its way to it.
Covers(q) ==
  /\ Len(log) <= mem.out + Len(q)
  /\ \A r \in late : r.seq + Len(r.msgs) <= mem.out + Len(q)

\* What a shutdown leaves is enough for the next process to go on with.
Covered ==
  /\ pc = "spool" => Covers(copied)
  /\ pc = "returned" => Covers(spool)

\* No message of the file is gone, however old the file.
Lasting == Members(spool) \cup Members(copied) \subseteq Members(Stream)

\* The copy and the file in every step but the one that takes the copy.
Filed ==
  /\ spool' \in {spool, copied} /\ copied' \in {copied, <<>>}
  /\ pc' = "spool" => pc = "spool" /\ copied' = copied
  /\ pc' = "returned" => \/ pc = "returned" /\ spool' = spool
                         \/ pc = "spool" /\ spool' = copied

\* The failures such an instance does not have.
LEMMA RestartFaults ==
  ASSUME RestartsAreClean
  PROVE  /\ NobodyForgets /\ EndsAreClean /\ FilesWork
         /\ ~Fault("loadSpool") /\ ~Fault("saveSpool")
         /\ ~LoadFails /\ ~MarshalFails /\ ~ReplyUndecodable /\ ~SaveStateFails
         /\ ~Forget /\ ~Crash
<1>1. ASSUME NEW kind \in {"garble", "marshal", "loadState", "loadSpool", "saveState",
                           "saveSpool", "crash", "overrun", "forget"}
      PROVE  kind \notin Faults /\ ~Fault(kind)
  <2>1. kind \notin Faults BY DEF RestartsAreClean
  <2> QED BY <2>1 DEF Fault
<1>2. NobodyForgets /\ EndsAreClean /\ FilesWork
  BY <1>1 DEF RestartsAreClean, NobodyForgets, EndsAreClean, FilesWork
<1>3. /\ ~LoadFails /\ ~MarshalFails /\ ~ReplyUndecodable /\ ~SaveStateFails
      /\ ~Forget /\ ~Crash
  BY <1>1 DEF LoadFails, MarshalFails, ReplyUndecodable, SaveStateFails, Forget, Crash
<1> QED BY <1>1, <1>2, <1>3

\* Who writes the copy, the file and the state in memory.
LEMMA FiledStep ==
  ASSUME RestartsAreClean, [Next]_vars, ~BoundQueue PROVE Filed
<1>1. CASE RunStep
  <2>1. CASE WriteSpool
    <3>1. ~Fault("saveSpool") BY RestartFaults
    <3> QED BY <2>1, <3>1 DEF WriteSpool, Saved, AfterSpool, Filed
  <2>2. CASE Load \/ Drain \/ Acknowledge \/ SaveState \/ Decide
    BY <2>2 DEF Load, Drain, Acknowledge, SaveState, Decide, Filed
  <2>3. CASE Dispatch
    BY <2>3 DEF Dispatch, DispatchSetID, DispatchUnknownID, DispatchAcceptedTypes,
       DispatchResynchronize, DispatchCommand, DispatchLogged, Process, Filed
  <2> QED BY <1>1, <2>1, <2>2, <2>3 DEF RunStep
<1>2. CASE TimerFires \/ Woken \/ FinalDrain \/ Boot \/ Exit
  BY <1>2 DEF TimerFires, Woken, FinalDrain, Boot, Exit, ProcessEnds, Filed
<1>3. CASE \/ Send \/ SendUrgent \/ TriggerExchange \/ PingFindsMessages
           \/ ServeCurrent \/ ServeLate \/ Order \/ UNCHANGED vars
  BY <1>3 DEF Send, SendUrgent, TriggerExchange, PingFindsMessages, ServeCurrent,
     ServeLate, Order, vars, Filed
<1>4. CASE FaultStep
  BY <1>4, RestartFaults DEF FaultStep, PostFails, Stop, Filed
<1> QED BY <1>1, <1>2, <1>3, <1>4 DEF Next

LEMMA WrittenStep ==
  ASSUME RestartsAreClean, Written, [Next]_vars PROVE Written'
<1>1. CASE RunStep
  <2>1. CASE Load \/ Drain \/ Acknowledge \/ BoundQueue \/ WriteSpool \/ Decide
    BY <2>1 DEF Load, Drain, Acknowledge, BoundQueue, WriteSpool, AfterSpool, Decide,
       Written
  <2>2. CASE SaveState BY <2>2 DEF SaveState, Persisted, Written
  <2>3. CASE Dispatch
    BY <2>3 DEF Dispatch, DispatchSetID, DispatchUnknownID, DispatchAcceptedTypes,
       DispatchResynchronize, DispatchCommand, DispatchLogged, Process, Written
  <2> QED BY <1>1, <2>1, <2>2, <2>3 DEF RunStep
<1>2. CASE TimerFires \/ Woken \/ FinalDrain \/ Boot \/ Exit
  BY <1>2 DEF TimerFires, Woken, FinalDrain, Boot, Exit, ProcessEnds, Written
<1>3. CASE \/ Send \/ SendUrgent \/ TriggerExchange \/ PingFindsMessages
           \/ ServeCurrent \/ ServeLate \/ Order \/ UNCHANGED vars
  BY <1>3 DEF Send, SendUrgent, TriggerExchange, PingFindsMessages, ServeCurrent,
     ServeLate, Order, vars, Written
<1>4. CASE FaultStep
  BY <1>4, RestartFaults DEF FaultStep, PostFails, Stop, Written
<1> QED BY <1>1, <1>2, <1>3, <1>4 DEF Next

\* The steps such an instance has.
LEMMA RestartSteps ==
  ASSUME RestartsAreClean, TypeOK, Positions, Identified, Written, [Next]_vars
  PROVE  \/ Drain \/ PostFails \/ BoundQueue \/ Acknowledge
         \/ ServeCurrent \/ ServeLate \/ Send \/ SendUrgent \/ Exit
         \/ Still /\ Queue' = Queue
<1>1. CASE Load
  <2>1. pending' = spool \o pending /\ spool' = spool
    BY <1>1, RestartFaults DEF Load
  <2>2. Queue' = Queue BY <1>1, <2>1 DEF Load, Queue
  <2>3. mem' = mem /\ pc' = "drain" BY <1>1 DEF Load, Written
  <2> QED BY <1>1, <2>2, <2>3 DEF Load, Still
<1>2. CASE Dispatch
  <2>1. DispatchCommand \/ DispatchLogged
    BY <1>2, NextInbound DEF Dispatch, DispatchSetID, DispatchUnknownID,
       DispatchAcceptedTypes, DispatchResynchronize
  <2> QED BY <2>1 DEF DispatchCommand, DispatchLogged, Process, Still, Queue
<1>3. CASE SaveState \/ WriteSpool \/ Decide \/ TimerFires \/ Woken \/ FinalDrain \/ Boot
  BY <1>3 DEF SaveState, WriteSpool, AfterSpool, Decide, TimerFires, Woken, FinalDrain,
     Boot, Still, Queue
<1>4. CASE TriggerExchange \/ PingFindsMessages \/ Order \/ UNCHANGED vars
  BY <1>4 DEF TriggerExchange, PingFindsMessages, Order, vars, Still, Queue
<1>5. CASE FaultStep
  <2>1. CASE Stop BY <2>1 DEF Stop, Still, Queue
  <2> QED BY <1>5, <2>1, RestartFaults DEF FaultStep
<1> QED BY <1>1, <1>2, <1>3, <1>4, <1>5 DEF Next, RunStep

\* How far the client has come, and the operations of its commands, without Dispatch.
LEMMA RestartProcessed ==
  ASSUME RestartsAreClean, TypeOK, Positions, Written, [Next]_vars, ~Dispatch
  PROVE  /\ Processed' = Processed
         /\ running' \cup issued' \subseteq running \cup issued
         /\ running \cap issued = {} => running' \cap issued' = {}
<1>1. Clean BY DEF Written, Clean
<1>2. Processed' = Processed BY <1>1, RestartFaults, ProcessedKept
<1>3. CASE SendUrgent
  <2>1. PICK c \in running : running' = running \ {c} /\ issued' = issued \cup {c}
    BY <1>3 DEF SendUrgent
  <2> QED BY <1>2, <2>1
<1>4. CASE issued' = issued /\ running' \in {running, {}} BY <1>2, <1>4
<1>5. CASE RunStep \/ TimerFires \/ Woken \/ FinalDrain \/ Boot \/ Exit
  BY <1>4, <1>5 DEF RunStep, Load, Drain, Acknowledge, SaveState, BoundQueue, WriteSpool,
     Decide, TimerFires, Woken, FinalDrain, Boot, Exit, ProcessEnds
<1>6. CASE \/ Send \/ TriggerExchange \/ PingFindsMessages
           \/ ServeCurrent \/ ServeLate \/ Order \/ UNCHANGED vars
  BY <1>4, <1>6 DEF Send, TriggerExchange, PingFindsMessages, ServeCurrent,
     ServeLate, Order, vars
<1>7. CASE FaultStep BY <1>4, <1>7, RestartFaults DEF FaultStep, PostFails, Stop
<1> QED BY <1>3, <1>5, <1>6, <1>7 DEF Next

\* The messages of the stream are those of the log's beginning, the batch and the queue.
LEMMA StreamMembers ==
  ASSUME NEW l \in Seq(Message), NEW b \in Seq(Message), NEW q \in Seq(Message),
         NEW n \in 0..Len(l)
  PROVE  /\ Members(b) \cup Members(q) \subseteq Members(SubSeq(l, 1, n) \o (b \o q))
         /\ Members(SubSeq(l, 1, n) \o (b \o q))
              \subseteq Members(l) \cup (Members(b) \cup Members(q))
<1>1. PICK h \in Seq(Message) :
        h = SubSeq(l, 1, n) /\ Len(h) = n /\ \A i \in 1..n : h[i] = l[i]
  <2>1. /\ SubSeq(l, 1, n) \in Seq(Message) /\ Len(SubSeq(l, 1, n)) = n
        /\ \A i \in 1..n : SubSeq(l, 1, n)[i] = l[i]
    BY PrefixMessages
  <2> QED BY <2>1
<1>2. PICK w \in Seq(Message) : w = b \o q
  <2>1. b \o q \in Seq(Message) OBVIOUS
  <2> QED BY <2>1
<1>3. Members(w) = Members(b) \cup Members(q) BY <1>2, MembersJoined
<1>4. Members(h \o w) = Members(h) \cup Members(w) BY MembersJoined
<1>5. Members(h) \subseteq Members(l)
  <2>1. DOMAIN h = 1..n /\ DOMAIN l = 1..Len(l) /\ \A i \in 1..n : i \in 1..Len(l)
    BY <1>1
  <2> QED BY <1>1, <2>1 DEF Members
<1> QED BY ONLY <1>1, <1>2, <1>3, <1>4, <1>5

\* What the client holds is what is in its batch and its queue.
LEMMA HeldIsQueue ==
  /\ TypeOK => Held = Members(batch) \cup Members(Queue)
  /\ TypeOK' => Held' = Members(batch') \cup Members(Queue')
<1>1. ASSUME NEW s \in Seq(Message), NEW p \in Seq(Message)
      PROVE  Members(s \o p) = Members(s) \cup Members(p)
  BY MembersJoined
<1>2. ASSUME TypeOK PROVE Held = Members(batch) \cup Members(Queue)
  <2>1. Members(spool \o pending) = Members(spool) \cup Members(pending)
    BY <1>1, <1>2 DEF TypeOK
  <2>2. CASE pc \in {"off", "load"} BY <2>1, <2>2 DEF Held, Queue
  <2>3. CASE pc \notin {"off", "load"} BY <2>3 DEF Held, Queue
  <2> QED BY <2>2, <2>3
<1>3. ASSUME TypeOK' PROVE Held' = Members(batch') \cup Members(Queue')
  <2>1. Members(spool' \o pending') = Members(spool') \cup Members(pending')
    BY <1>1, <1>3 DEF TypeOK
  <2>2. /\ pc' \in {"off", "load"} => Queue' = spool' \o pending'
        /\ pc' \notin {"off", "load"} => Queue' = pending'
    BY DEF Queue
  <2>3. Held' = Members(pending') \cup Members(batch') \cup
                (IF pc' \in {"off", "load"} THEN Members(spool') ELSE {})
    BY DEF Held, Members
  <2> QED BY <2>1, <2>2, <2>3
<1> QED BY <1>2, <1>3

\* What is not lost is what is in the stream.
LEMMA KeptIsStream ==
  /\ TypeOK /\ Mirrored =>
       /\ Members(batch) \cup Members(Queue) \subseteq Members(Stream)
       /\ Lasting => Members(log) \cup Held \cup Members(spool) \subseteq Members(Stream)
  /\ TypeOK' /\ Mirrored' =>
       /\ Members(batch') \cup Members(Queue') \subseteq Members(Stream')
       /\ Members(Stream') \subseteq Members(log') \cup Held'
<1>1. ASSUME TypeOK, Mirrored
      PROVE  /\ Members(batch) \cup Members(Queue) \subseteq Members(Stream)
             /\ Members(log) \subseteq Members(Stream)
  <2>1. /\ log \in Seq(Message) /\ batch \in Seq(Message) /\ Queue \in Seq(Message)
        /\ Stream \in Seq(Message)
    BY <1>1, StreamType DEF TypeOK, Mirrored
  <2>2. mem.out \in 0..Len(log) BY <1>1, <2>1, StreamType DEF Mirrored
  <2>3. Members(batch) \cup Members(Queue) \subseteq Members(Stream)
    BY <2>1, <2>2, StreamMembers DEF Stream
  <2>4. /\ \A i \in 1..Len(log) : i \in 1..Len(Stream) /\ log[i] = Stream[i]
        /\ DOMAIN log = 1..Len(log) /\ DOMAIN Stream = 1..Len(Stream)
    <3>1. Len(log) <= Len(Stream) /\ \A i \in 1..Len(log) : log[i] = Stream[i]
      BY <1>1 DEF Mirrored
    <3> HIDE DEF Stream
    <3>2. Len(log) \in Nat /\ Len(Stream) \in Nat BY <2>1
    <3> QED BY <2>1, <3>1, <3>2
  <2>5. Members(log) \subseteq Members(Stream) BY <2>4 DEF Members
  <2> QED BY <2>3, <2>5
<1>2. ASSUME TypeOK', Mirrored'
      PROVE  /\ Members(batch') \cup Members(Queue') \subseteq Members(Stream')
             /\ Members(Stream')
                  \subseteq Members(log') \cup (Members(batch') \cup Members(Queue'))
  <2>1. /\ log' \in Seq(Message) /\ batch' \in Seq(Message) /\ mem'.out \in Nat
        /\ pending' \in Seq(Message) /\ spool' \in Seq(Message)
    BY <1>2 DEF TypeOK, State
  <2>2. Queue' \in Seq(Message)
    <3>1. spool' \o pending' \in Seq(Message) BY <2>1
    <3> QED BY <2>1, <3>1 DEF Queue
  <2>3. mem'.out \in 0..Len(log')
    <3>1. mem'.out <= Len(log') BY <1>2 DEF Mirrored
    <3> QED BY <2>1, <3>1
  <2>4. Stream' = SubSeq(log', 1, mem'.out) \o (batch' \o Queue') BY DEF Stream
  <2> QED BY <2>1, <2>2, <2>3, <2>4, StreamMembers
<1>3. TypeOK => Held = Members(batch) \cup Members(Queue) BY HeldIsQueue
<1>4. TypeOK' => Held' = Members(batch') \cup Members(Queue') BY HeldIsQueue
<1>5. Lasting => Members(spool) \subseteq Members(Stream) BY DEF Lasting
<1> QED BY ONLY <1>1, <1>2, <1>3, <1>4, <1>5

\* The process ends: the stream keeps what the server acknowledged and what is in the file.
LEMMA StreamShutdown ==
  ASSUME TypeOK, TypeOK', Mirrored, Reached, Written, Spooled, Covered, Exit
  PROVE  StreamCut /\ Mirrored' /\ Reached'
<1>1. /\ pc = "returned" /\ pc' = "off" /\ pending' = <<>> /\ batch' = <<>> /\ ~answered'
      /\ mem' = disk /\ UNCHANGED <<spool, log, late, sent, issued>>
  BY DEF Exit, ProcessEnds, CallEnds
<1>2. mem' = mem BY <1>1 DEF Written
<1>3. batch = <<>> /\ StartsWith(pending, spool) /\ Covers(spool)
  BY <1>1 DEF Spooled, Covered
<1>4. PICK q \in Seq(Message) : q = pending BY DEF TypeOK
<1>5. PICK s \in Seq(Message) : s = spool BY DEF TypeOK
<1>6. PICK h \in Seq(Message) : h = SubSeq(log, 1, mem.out) /\ Len(h) = mem.out
  BY StreamType DEF Mirrored
<1>7. Stream = h \o q
  <2>1. Queue = q /\ <<>> \o q = q BY <1>1, <1>4, ConcatEmptySeq DEF Queue
  <2> QED BY <1>3, <1>6, <2>1 DEF Stream
<1>8. Stream' = h \o s
  <2>1. Queue' = s
    <3>1. s \o <<>> = s BY ConcatEmptySeq
    <3> QED BY <1>1, <1>5, <3>1 DEF Queue
  <2>2. <<>> \o s = s BY ConcatEmptySeq
  <2> QED BY <1>1, <1>2, <1>6, <2>1, <2>2 DEF Stream
<1>9. Len(s) <= Len(q) /\ \A k \in 1..Len(s) : s[k] = q[k]
  <2>1. Len(s) <= Len(q) /\ SubSeq(q, 1, Len(s)) = s
    BY <1>3, <1>4, <1>5 DEF StartsWith
  <2>2. Len(s) \in 0..Len(q) BY <2>1
  <2>3. \A k \in 1..Len(s) : SubSeq(q, 1, Len(s))[k] = q[k] BY <2>2, PrefixMessages
  <2> QED BY <2>1, <2>3
<1>10. PICK n \in Nat, m \in Nat : n = Len(Stream') /\ m = Len(Stream)
         /\ n = mem.out + Len(spool) /\ n <= m
         /\ \A i \in 1..n : Stream'[i] = Stream[i]
  <2>1. /\ Len(h \o s) = Len(h) + Len(s) /\ Len(h \o q) = Len(h) + Len(q)
        /\ \A i \in 1..Len(h) : (h \o s)[i] = h[i] /\ (h \o q)[i] = h[i]
        /\ \A k \in 1..Len(s) : (h \o s)[Len(h) + k] = s[k]
        /\ \A k \in 1..Len(q) : (h \o q)[Len(h) + k] = q[k]
    OBVIOUS
  <2>2. Len(h) \in Nat /\ Len(s) \in Nat /\ Len(q) \in Nat OBVIOUS
  <2>3. ASSUME NEW i \in 1..(Len(h) + Len(s)) PROVE (h \o s)[i] = (h \o q)[i]
    <3>1. CASE i \in 1..Len(h) BY <2>1, <3>1
    <3>2. CASE ~(i \in 1..Len(h))
      <4>1. PICK k \in 1..Len(s) : i = Len(h) + k
        <5>1. i - Len(h) \in 1..Len(s) /\ i = Len(h) + (i - Len(h))
          BY ONLY <2>2, <3>2, i \in 1..(Len(h) + Len(s))
        <5> QED BY <5>1
      <4>2. k \in 1..Len(q) BY <1>9, <2>2
      <4> QED BY <1>9, <2>1, <4>1, <4>2
    <3> QED BY <3>1, <3>2
  <2>4. /\ Len(h) + Len(s) \in Nat /\ Len(h) + Len(q) \in Nat
        /\ Len(h) + Len(s) <= Len(h) + Len(q)
    BY ONLY <1>9, <2>2
  <2> QED BY <1>5, <1>6, <1>7, <1>8, <2>1, <2>3, <2>4
<1>11. StreamCut BY <1>1, <1>10 DEF StreamCut
<1>12. /\ Len(log) \in Nat /\ mem.out <= Len(log) /\ Len(log) <= n
       /\ \A r \in late : /\ r.seq \in Nat /\ Len(r.msgs) \in Nat
                          /\ r.seq + Len(r.msgs) <= n
  <2>1. Len(log) \in Nat /\ mem.out <= Len(log) BY Sizes
  <2>2. ASSUME NEW r \in late PROVE r.seq \in Nat /\ Len(r.msgs) \in Nat
    <3>1. r \in Request BY DEF TypeOK
    <3>2. r.seq \in Nat /\ r.msgs \in Seq(Message) BY <3>1 DEF Request
    <3> QED BY <3>2
  <2> QED BY <1>3, <1>10, <2>1, <2>2 DEF Covers
<1>13. Mirrored'
  <2>1. \A i \in 1..Len(log') : log'[i] = Stream'[i]
    <3> SUFFICES ASSUME NEW i \in 1..Len(log) PROVE log[i] = Stream'[i] BY <1>1
    <3>1. i \in 1..n BY <1>12
    <3> QED BY <1>10, <3>1 DEF Mirrored
  <2>2. ASSUME NEW r \in late PROVE Claims(r)'
    <3>1. r.seq \in Nat /\ Len(r.msgs) \in Nat /\ r.seq + Len(r.msgs) <= n
      BY <1>12
    <3>2. \A k \in 1..Len(r.msgs) : r.seq + k \in 1..n BY ONLY <3>1, n \in Nat
    <3>3. \A k \in 1..Len(r.msgs) : r.msgs[k] = Stream[r.seq + k]
      BY DEF Mirrored, Claims
    <3> QED BY <1>10, <3>1, <3>2, <3>3 DEF Claims
  <2>3. mem'.out <= Len(log') /\ Len(log') <= Len(Stream') BY <1>1, <1>2, <1>10, <1>12
  <2> QED BY <1>1, <2>1, <2>2, <2>3 DEF Mirrored
<1>14. Reached'
  <2>1. Len(batch') <= MaxBatch
    <3>1. Len(<<>>) = 0 /\ MaxBatch \in Nat BY ExchangeAssumptions
    <3> QED BY <1>1, <3>1
  <2>2. mem.out <= mem'.out /\ late' \subseteq late \cup {CurrentRequest}
    <3>1. mem.out \in Nat BY Sizes
    <3> QED BY <1>1, <1>2, <3>1
  <2> QED BY <1>1, <2>1, <2>2, ReachedOutside
<1> QED BY <1>11, <1>13, <1>14

\* The server takes a request the client gave up on: no more than the request had.
LEMMA ServedLateFrom ==
  ASSUME TypeOK, TypeOK', Identified, Mirrored, ServeLate
  PROVE  /\ late' \subseteq late
         /\ Len(log') = Len(log) \/ \E r \in late : Len(log') <= r.seq + Len(r.msgs)
<1>1. PICK r \in late : Serve(r) /\ late' = late \ {r} BY DEF ServeLate
<1>2. r \in Request /\ r.from = known /\ Claims(r) BY DEF TypeOK, Identified, Mirrored
<1>3. \E n \in 0..Len(Fresh(r)) : Take(r, n) BY <1>1, <1>2, ServedKnown
<1>4. Len(log') = Len(log) \/ Len(log') <= r.seq + Len(r.msgs)
  BY <1>2, <1>3, ServedFrom
<1> QED BY <1>1, <1>4

\* Nothing the copy or the file does not cover reaches the server after the copy is taken.
LEMMA CoveredStep ==
  ASSUME RestartsAreClean, QueueFits, TypeOK, TypeOK', Positions, Identified, Mirrored,
         Spooled, Written, Covered, [Next]_vars, Mirrored'
  PROVE  Covered'
<1>1. CASE BoundQueue
  <2>1. /\ pc = "bound" /\ pc' = "spool" /\ batch' = batch /\ copied' = pending'
        /\ UNCHANGED <<mem, log, late>>
    BY <1>1 DEF BoundQueue, Snapshot
  <2>2. batch = <<>> /\ BatchPosted BY <2>1 DEF Spooled, BatchPosted
  <2>3. Stream' = Stream BY <1>1, <2>2, StreamRequeued
  <2>4. PICK p \in Seq(Message) : p = pending BY DEF TypeOK
  <2>5. pending' = pending
    <3>1. Len(p) <= MaxQueued BY <2>1, <2>4 DEF QueueFits
    <3>2. EnforceQueueBound(p) = p BY <3>1, BoundKeepsAll
    <3> QED BY <1>1, <2>4, <3>2 DEF BoundQueue
  <2>6. Len(Stream) = mem.out + Len(copied')
    <3>1. Queue = pending /\ Len(batch) = 0 BY <2>1, <2>2, QueueType
    <3>2. /\ Len(Stream) = mem.out + Len(batch) + Len(Queue)
          /\ mem.out \in Nat /\ Len(Queue) \in Nat
      BY Sizes
    <3>3. Len(copied') = Len(Queue) BY <2>1, <2>5, <3>1
    <3> QED BY ONLY <3>1, <3>2, <3>3
  <2>7. Len(log) <= Len(Stream) /\ \A r \in late : r.seq + Len(r.msgs) <= Len(Stream)
    BY DEF Mirrored, Claims
  <2> QED BY <2>1, <2>6, <2>7 DEF Covered, Covers
<1>2. CASE ~BoundQueue
  <2>1. Filed BY <1>2, FiledStep
  <2>2. ASSUME NEW q \in Seq(Message), Covers(q), pc \in {"spool", "returned"}, ~Exit
        PROVE  Covers(q)'
    <3>1. UNCHANGED <<log, late>> \/ ServeLate
      <4>1. ~(Drain \/ PostFails \/ Acknowledge \/ ServeCurrent)
        BY <2>2 DEF Drain, PostFails, Acknowledge, ServeCurrent
      <4>2. Send \/ SendUrgent \/ Still => UNCHANGED <<log, late>>
        BY DEF Send, SendUrgent, Still
      <4> QED BY <1>2, <2>2, <4>1, <4>2, RestartSteps
    <3>2. mem'.out = mem.out
      <4>1. ~(Drain \/ PostFails \/ Acknowledge \/ ServeCurrent)
        BY <2>2 DEF Drain, PostFails, Acknowledge, ServeCurrent
      <4>2. Send \/ SendUrgent \/ ServeLate \/ Still => mem'.out = mem.out
        BY DEF Send, SendUrgent, ServeLate, Still
      <4> QED BY <1>2, <2>2, <4>1, <4>2, RestartSteps
    <3>3. CASE UNCHANGED <<log, late>> BY <2>2, <3>2, <3>3 DEF Covers
    <3>4. CASE ServeLate
      <4>1. /\ late' \subseteq late
            /\ Len(log') = Len(log) \/ \E r \in late : Len(log') <= r.seq + Len(r.msgs)
        BY <3>4, ServedLateFrom
      <4>2. PICK t \in Nat : t = mem.out + Len(q)
        <5>1. mem.out \in Nat /\ Len(q) \in Nat BY Sizes
        <5> QED BY <5>1
      <4>3. Len(log) <= t /\ \A r \in late : r.seq + Len(r.msgs) <= t
        BY <2>2, <4>2 DEF Covers
      <4>4. Len(log') <= t
        <5>1. CASE Len(log') = Len(log) BY <4>3, <5>1
        <5>2. CASE \E r \in late : Len(log') <= r.seq + Len(r.msgs)
          <6>1. PICK r \in late : Len(log') <= r.seq + Len(r.msgs) BY <5>2
          <6>2. r.seq + Len(r.msgs) <= t BY <4>3
          <6>3. Len(log') \in Nat /\ r.seq + Len(r.msgs) \in Nat BY Sizes
          <6> QED BY ONLY <6>1, <6>2, <6>3, t \in Nat
        <5> QED BY <4>1, <5>1, <5>2
      <4>5. \A r \in late' : r.seq + Len(r.msgs) <= t BY <4>1, <4>3
      <4> QED BY <3>2, <4>2, <4>4, <4>5 DEF Covers
    <3> QED BY <3>1, <3>3, <3>4
  <2>3. pc' \in {"spool", "returned"} => ~Exit BY DEF Exit, ProcessEnds
  <2>4. CASE pc' = "spool"
    <3>1. pc = "spool" /\ copied' = copied BY <2>1, <2>4 DEF Filed
    <3>2. Covers(copied) BY <3>1 DEF Covered
    <3>3. Covers(copied)'
      <4>1. copied \in Seq(Message) BY DEF TypeOK
      <4> QED BY <2>2, <2>3, <2>4, <3>1, <3>2, <4>1 DEF Covers
    <3> QED BY <2>4, <3>3 DEF Covered
  <2>5. CASE pc' = "returned"
    <3>1. PICK q \in Seq(Message) : q = spool' BY DEF TypeOK
    <3>2. Covers(q) /\ pc \in {"spool", "returned"}
      BY <2>1, <2>5, <3>1 DEF Filed, Covered
    <3>3. /\ Len(log') <= mem'.out + Len(q)
          /\ \A r \in late' : r.seq + Len(r.msgs) <= mem'.out + Len(q)
      BY <2>2, <2>3, <2>5, <3>2 DEF Covers
    <3> QED BY <2>5, <3>1, <3>3 DEF Covered, Covers
  <2> QED BY <2>4, <2>5 DEF Covered
<1> QED BY <1>1, <1>2

\* What is in the file stays in the stream.
LEMMA LastingStep ==
  ASSUME RestartsAreClean, TypeOK, TypeOK', Mirrored', Lasting, [Next]_vars,
         Exit \/ Members(Stream) \subseteq Members(Stream')
  PROVE  Lasting'
<1>1. Members(Queue') \subseteq Members(Stream') BY KeptIsStream
<1>2. Members(<<>>) = {} BY DEF Members
<1>3. CASE BoundQueue
  <2>1. /\ pc = "bound" /\ copied' = pending' /\ Queue' = pending' /\ spool' = spool
    BY <1>3 DEF BoundQueue, Snapshot, Queue
  <2>2. Members(Stream) \subseteq Members(Stream') BY <2>1 DEF Exit
  <2>3. Members(spool) \subseteq Members(Stream) BY DEF Lasting
  <2>4. Members(spool') \cup Members(copied') \subseteq Members(Stream')
    BY <1>1, <2>1, <2>2, <2>3
  <2> QED BY <2>4 DEF Lasting, Members
<1>4. CASE Exit
  <2>1. pc' = "off" /\ pending' = <<>> /\ copied' = <<>> /\ spool' = spool
    BY <1>4 DEF Exit, ProcessEnds
  <2>2. spool \in Seq(Message) /\ spool' \o <<>> = spool'
    BY <2>1, ConcatEmptySeq DEF TypeOK
  <2>3. Queue' = spool' BY <2>1, <2>2 DEF Queue
  <2>4. Members(spool') \cup Members(copied') \subseteq Members(Stream')
    BY <1>1, <1>2, <2>1, <2>3
  <2> QED BY <2>4 DEF Lasting, Members
<1>5. CASE ~BoundQueue /\ ~Exit
  <2>1. spool' \in {spool, copied} /\ copied' \in {copied, <<>>}
    BY <1>5, FiledStep DEF Filed
  <2>2. Members(spool) \cup Members(copied) \subseteq Members(Stream') BY <1>5 DEF Lasting
  <2>3. Members(spool') \cup Members(copied') \subseteq Members(Stream')
    BY <1>2, <2>1, <2>2
  <2> QED BY <2>3 DEF Lasting, Members
<1> QED BY <1>3, <1>4, <1>5

\* A goroutine puts its message at the end.
LEMMA SentGrows ==
  ASSUME TypeOK, TypeOK', Mirrored, Reached, Send \/ SendUrgent
  PROVE  StreamGrows /\ Mirrored' /\ Reached'
<1>1. PICK m \in Message :
        /\ pending' = Append(pending, m)
        /\ \/ sent' = sent + 1 /\ issued' = issued
           \/ \E c \in running : issued' = issued \cup {c}
  <2>1. CASE Send
    <3>1. PICK t \in Telemetry : pending' = Append(pending, Telemetric(t, sent + 1))
      BY <2>1 DEF Send
    <3>2. sent + 1 \in Nat BY DEF TypeOK
    <3>3. Telemetric(t, sent + 1) \in Message BY <3>2, ClientMessages
    <3>4. sent' = sent + 1 /\ issued' = issued BY <2>1 DEF Send
    <3> QED BY <3>1, <3>3, <3>4
  <2>2. CASE SendUrgent
    <3>1. PICK c \in running : pending' = Append(pending, Result(c)) /\ issued' = issued \cup {c}
      BY <2>2 DEF SendUrgent
    <3>2. Result(c) \in Message BY ClientMessages DEF TypeOK
    <3> QED BY <3>1, <3>2
  <2> QED BY <2>1, <2>2
<1>2. UNCHANGED <<pc, batch, log, mem, spool, answered, reply, late>>
  BY DEF Send, SendUrgent
<1>3. Stream' = Append(Stream, m) /\ Mirrored' /\ Reached' BY <1>1, <1>2, SendGrowsStream
<1> QED BY <1>1, <1>3 DEF StreamGrows

\* Only the end of the process takes something out of the stream.
LEMMA RestartStream ==
  ASSUME RestartsAreClean, QueueFits, TypeOK, TypeOK', Positions, Identified, Mirrored,
         Reached, Spooled, Written, Covered, [Next]_vars
  PROVE  /\ Mirrored' /\ Reached'
         /\ StreamRests \/ StreamGrows \/ (Exit /\ StreamCut)
<1>1. CASE Drain \/ PostFails \/ BoundQueue \/ Acknowledge
  <2>1. BatchPosted BY DEF Spooled, BatchPosted
  <2> QED BY <1>1, <2>1, LoopKeepsStream DEF StreamRests
<1>2. CASE ServeCurrent \/ ServeLate BY <1>2, ServerKeepsStream DEF StreamRests
<1>3. CASE Send \/ SendUrgent BY <1>3, SentGrows
<1>4. CASE Exit BY <1>4, StreamShutdown
<1>5. CASE Still /\ Queue' = Queue BY <1>5, CalmKeepsStream DEF StreamRests
<1> QED BY <1>1, <1>2, <1>3, <1>4, <1>5, RestartSteps

\* A stream that rests or grows loses no message.
LEMMA StreamMembersKept ==
  ASSUME TypeOK, Mirrored, StreamRests \/ StreamGrows
  PROVE  Members(Stream) \subseteq Members(Stream')
<1>1. PICK s \in Seq(Message) : s = Stream BY StreamType DEF Mirrored
<1>2. CASE StreamRests BY <1>2 DEF StreamRests
<1>3. CASE StreamGrows
  <2>1. PICK m \in Message : Stream' = Append(s, m) BY <1>1, <1>3 DEF StreamGrows
  <2>2. /\ DOMAIN s = 1..Len(s) /\ DOMAIN Append(s, m) = 1..(Len(s) + 1)
        /\ \A i \in 1..Len(s) : i \in 1..(Len(s) + 1) /\ Append(s, m)[i] = s[i]
    OBVIOUS
  <2>3. Members(s) \subseteq Members(Append(s, m)) BY <2>2 DEF Members
  <2> QED BY <1>1, <2>1, <2>3
<1> QED BY <1>2, <1>3

\* The client and its files through any number of shutdowns.
Restarting == /\ Written /\ Spooled /\ Identified /\ Mirrored /\ Reached
              /\ Once /\ Covered /\ Lasting

LEMMA RestartingStep ==
  ASSUME RestartsAreClean, QueueFits, TypeOK, TypeOK', Positions, Restarting, [Next]_vars
  PROVE  /\ Restarting'
         /\ StreamRests \/ StreamGrows \/ StreamCut
         /\ Exit \/ Members(Stream) \subseteq Members(Stream')
<1>1. /\ Written /\ Spooled /\ Identified /\ Mirrored /\ Reached
      /\ Once /\ Covered /\ Lasting
  BY DEF Restarting
<1>3. /\ Mirrored' /\ Reached'
      /\ StreamRests \/ StreamGrows \/ (Exit /\ StreamCut)
  BY <1>1, RestartStream
<1>4. Written' BY <1>1, WrittenStep
<1>5. Spooled' BY <1>1, RestartFaults, SpooledStep
<1>6. Identified' BY <1>1, RestartFaults, IdentifiedStep
<1>7. Once'
  <2>1. ~Dispatch => /\ Processed' = Processed
                     /\ running' \cup issued' \subseteq running \cup issued
                     /\ running \cap issued = {} => running' \cap issued' = {}
    BY <1>1, RestartProcessed
  <2> QED BY <1>1, <2>1, OnceKept
<1>8. Covered' BY <1>1, <1>3, CoveredStep
<1>9. Exit \/ Members(Stream) \subseteq Members(Stream')
  BY <1>1, <1>3, StreamMembersKept
<1>10. Lasting' BY <1>1, <1>3, <1>9, LastingStep
<1> QED BY <1>3, <1>4, <1>5, <1>6, <1>7, <1>8, <1>9, <1>10 DEF Restarting

\* ... from the first state.
LEMMA RestartingInit == ASSUME RestartsAreClean, Init PROVE Restarting
<1>1. Identified /\ Mirrored /\ Reached BY StreamInit DEF RestartsAreClean
<1>2. Once BY DeliveringInit DEF Delivering
<1>3. Written /\ Spooled /\ Covered BY DEF Init, Written, Spooled, Covered
<1>4. Lasting
  <2>1. spool = <<>> /\ copied = <<>> /\ Members(<<>>) = {} BY DEF Init, Members
  <2> QED BY <2>1 DEF Lasting
<1> QED BY <1>1, <1>2, <1>3, <1>4 DEF Restarting

\* What a step takes from the queue, the batch, the log and the file.
LEMMA OnlyUnsavedLost ==
  ASSUME TypeOK, TypeOK', Mirrored, Mirrored', Lasting,
         Exit \/ Members(Stream) \subseteq Members(Stream')
  PROVE  \A c \in issued :
           LET kept == Members(log) \cup Held \cup Members(spool)
           IN  (Result(c) \in kept /\ Result(c) \notin kept')
                 => pc' = "off" /\ Result(c) \notin Members(spool)
<1> DEFINE kept == Members(log) \cup Held \cup Members(spool)
<1>1. kept' = Members(log') \cup Held' \cup Members(spool') BY DEF Members
<1>2. Members(Stream') \subseteq Members(log') \cup Held' BY KeptIsStream
<1>3. kept \subseteq Members(Stream) BY KeptIsStream
<1>4. CASE Members(Stream) \subseteq Members(Stream')
  <2>1. kept \subseteq kept' BY <1>1, <1>2, <1>3, <1>4
  <2> HIDE DEF kept
  <2>2. \A c \in issued : ~(Result(c) \in kept /\ Result(c) \notin kept') BY <2>1
  <2> QED BY <2>2 DEF kept
<1>5. CASE Exit
  <2>1. pc' = "off" /\ spool' = spool BY <1>5 DEF Exit, ProcessEnds
  <2>2. Members(spool) \subseteq kept' BY <1>1, <2>1
  <2> HIDE DEF kept
  <2>3. \A c \in issued : Result(c) \notin kept' => Result(c) \notin Members(spool)
    BY <2>2
  <2> QED BY <2>1, <2>3 DEF kept
<1> QED BY <1>4, <1>5

\* A shutdown and the restart after it lose no operation result but one queued after the
\* final drain, which no file has: the numbers in state.json and the order of the spool
\* fit, so that the next process goes on where this one stopped, whatever the server took
\* of the last requests (Run 194-210 and 254-286, persistQueue, spool.go).  A crash, which
\* leaves the two files of different moments, breaks it: run crash_misnumbers.
THEOREM RestartsKeepFiled ==
  ASSUME RestartsAreClean PROVE Spec /\ []QueueFits => OnlyRestartLosesUnsaved
<1>1. Init => Restarting BY RestartingInit
<1>2. TypeOK /\ TypeOK' /\ Positions /\ QueueFits /\ Restarting /\ [Next]_vars
        => Restarting'
  BY RestartingStep
<1>3. TypeOK /\ TypeOK' /\ Positions /\ QueueFits /\ Restarting /\ [Next]_vars =>
        [\A c \in issued :
           LET kept == Members(log) \cup Held \cup Members(spool)
           IN  (Result(c) \in kept /\ Result(c) \notin kept')
                 => pc' = "off" /\ Result(c) \notin Members(spool)]_vars
  BY RestartingStep, OnlyUnsavedLost DEF Restarting
<1> QED BY <1>1, <1>2, <1>3, TypeCorrect, PositionsAgree, PTL
        DEF Spec, OnlyRestartLosesUnsaved

\* ... and a restart puts nothing twice in the queue: with room for all messages the bound
\* has nothing to drop, so that nothing is assumed of the behaviour.
THEOREM CleanRestartsKeep ==
  ASSUME RestartsAreClean, RoomForAll
  PROVE  Spec => OnlyRestartLosesUnsaved /\ []QueueFits
<1>1. Init => Restarting /\ Counted BY RestartingInit, CountedInit
<1>2. TypeOK /\ TypeOK' /\ Positions /\ Restarting /\ Counted /\ [Next]_vars
        => Restarting' /\ Counted'
  <2> SUFFICES ASSUME TypeOK, TypeOK', Positions, Restarting, Counted, [Next]_vars
               PROVE  Restarting' /\ Counted'
    OBVIOUS
  <2>1. Identified /\ Mirrored /\ Once BY DEF Restarting
  <2>2. QueueFits BY <2>1, CountedFits
  <2>3. Restarting' /\ (StreamRests \/ StreamGrows \/ StreamCut) BY <2>2, RestartingStep
  <2> QED BY <2>1, <2>3, CountedStep
<1>3. TypeOK /\ Positions /\ Restarting /\ Counted => QueueFits
  BY CountedFits DEF Restarting
<1>4. Spec => []QueueFits
  BY <1>1, <1>2, <1>3, TypeCorrect, PositionsAgree, PTL DEF Spec
<1> QED BY <1>4, RestartsKeepFiled, PTL
=============================================================================
