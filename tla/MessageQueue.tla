---------------------------- MODULE MessageQueue ----------------------------
(***************************************************************************)
(* The pure part of the outbound queue (internal/exchange/queue.go and the *)
(* queue helpers of exchange.go).  A message is a record with a field type *)
(* and whatever else the user of this module needs; a queue is a sequence  *)
(* of messages, oldest first.                                              *)
(***************************************************************************)
EXTENDS Integers, Sequences, FiniteSets

CONSTANT MaxQueued     \* maxQueuedMessages, 1000 in the code

ASSUME MaxQueuedAssumption == MaxQueued \in Nat

\* The server blocks on operation results, and on nothing else.
IsUrgent(m) == m.type = "operation-result"

HasUrgent(q) == \E i \in DOMAIN q : IsUrgent(q[i])

-----------------------------------------------------------------------------
(***************************************************************************)
(* Select(q, K) is what a loop over q leaves when it keeps the positions   *)
(* in K and skips the others: the n-th message kept is the one whose       *)
(* position has rank n in K.                                               *)
(***************************************************************************)
Rank(K, i) == Cardinality({j \in K : j <= i})

Select(q, K) ==
  [n \in 1..Cardinality(K) |-> q[CHOOSE i \in K : Rank(K, i) = n]]

\* The operation results of a queue, in their order.
Urgent(q) == {i \in DOMAIN q : IsUrgent(q[i])}

Results(q) == Select(q, Urgent(q))

\* Mutation: the message at i itself is not counted.
DroppableBefore(q, i) == Cardinality({j \in 1..(i - 1) : ~IsUrgent(q[j])})

\* The number of droppable messages among the first i: their age order.
DroppableUpTo(q, i) == Cardinality({j \in 1..i : ~IsUrgent(q[j])})

\* The positions the bound retains: every operation result, and the messages
\* that are not among the (Len(q) - MaxQueued) oldest droppable ones.
Retained(q) ==
  {i \in DOMAIN q : \/ IsUrgent(q[i])
                    \/ DroppableUpTo(q, i) > Len(q) - MaxQueued}

EnforceQueueBound(q) == Select(q, Retained(q))

\* One iteration of the loop of enforceQueueBound, over the message m.
BoundStep(before, m, excess) ==
  IF before.dropped < excess /\ ~IsUrgent(m)
    THEN [before EXCEPT !.dropped = @ + 1]
    ELSE [before EXCEPT !.kept = Append(@, m)]

\* What the loop has kept and dropped after its first i iterations.
BoundLoop(msgs) ==
  LET run[i \in 0..Len(msgs)] ==
        IF i = 0 THEN [kept |-> <<>>, dropped |-> 0]
        ELSE BoundStep(run[i - 1], msgs[i], Len(msgs) - MaxQueued)
  IN  run

\* enforceQueueBound as it is written: a reference for the declarative form.
BoundReference(msgs) ==
  IF Len(msgs) <= MaxQueued THEN msgs ELSE BoundLoop(msgs)[Len(msgs)].kept

\* The messages of a queue that may be dropped, in their order.
Droppable(q) == {i \in DOMAIN q : ~IsUrgent(q[i])}

Droppables(q) == Select(q, Droppable(q))

\* The declarative bound is the loop of the code.
IsTheLoop(q) == EnforceQueueBound(q) = BoundReference(q)

\* What enforceQueueBound promises (queue.go:119-121): the operation results stay, as
\* they were; of the rest the d oldest go; the bound is met unless only results
\* are left; and no more go than must.
DropsTheOldest(q) ==
  LET kept == EnforceQueueBound(q)
      rest == Droppables(q)
  IN  /\ Results(kept) = Results(q)
      /\ \E d \in 0..Len(rest) :
           /\ Droppables(kept) = SubSeq(rest, d + 1, Len(rest))
           /\ Len(kept) = Len(q) - d
           /\ d > 0 => Len(kept) >= MaxQueued
           /\ Len(kept) > MaxQueued => d = Len(rest)

-----------------------------------------------------------------------------
\* Mutation: the server has to declare operation results.
AcceptedWithoutResults == {"register", "resynchronize"}

\* Protocol messages pass whatever the server has declared.
AlwaysAccepted == {"register", "resynchronize", "operation-result"}

\* An empty list is "nothing declared yet": everything passes.
PassesFilter(m, accepted) ==
  accepted # {} => m.type \in accepted \cup AlwaysAccepted

DropUnaccepted(q, accepted) ==
  Select(q, {i \in DOMAIN q : PassesFilter(q[i], accepted)})

=============================================================================
