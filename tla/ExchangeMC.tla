----------------------------- MODULE ExchangeMC -----------------------------
(***************************************************************************)
(* Instances of Exchange for TLC, with the bound of its queue checked over *)
(* every short queue and over the queues of the run.                       *)
(***************************************************************************)
EXTENDS Exchange

MCTypes == Telemetry \cup {"register", "operation-result"}

\* The queues of at most six messages, whose message i has i for its identifier.
ShortQueues ==
  UNION {{[i \in 1..n |-> [type |-> ts[i], id |-> i]] : ts \in [1..n -> MCTypes]}
           : n \in 0..6}

ShortQueuesBounded ==
  \A q \in ShortQueues : IsTheLoop(q) /\ DropsTheOldest(q)

\* The declarative bound is the loop of enforceQueueBound, which drops no operation
\* result, and no more than it must, the oldest telemetry first (queue.go:119-121).
BoundIsTheLoop ==
  ShortQueuesBounded /\ IsTheLoop(pending) /\ DropsTheOldest(pending)
=============================================================================
