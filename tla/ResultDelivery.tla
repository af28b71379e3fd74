--------------------------- MODULE ResultDelivery ---------------------------
(***************************************************************************)
(* What the exchange promises for operation results, on which the server   *)
(* blocks: they reach the server once each, in the order in which the      *)
(* handlers gave them to SendUrgent, and none stays behind for ever.       *)
(***************************************************************************)
EXTENDS Sequences, Naturals

VARIABLES
  owed,      \* results given to SendUrgent that the server does not have
  taken      \* results the server has, in the order it took them

Init == owed = <<>> /\ taken = <<>>

In(m, s) == \E i \in DOMAIN s : s[i] = m

\* A handler gives the result of its operation, which nobody gave before.
Put ==
  /\ Len(owed') = Len(owed) + 1
  /\ SubSeq(owed', 1, Len(owed)) = owed
  /\ ~In(owed'[Len(owed')], owed) /\ ~In(owed'[Len(owed')], taken)
  /\ UNCHANGED taken

\* The server takes the n oldest.
Deliver ==
  \E n \in 1..Len(owed) :
    /\ taken' = taken \o SubSeq(owed, 1, n)
    /\ owed' = SubSeq(owed, n + 1, Len(owed))

Next == Put \/ Deliver

Spec == Init /\ [][Next]_<<owed, taken>>

FairSpec == Spec /\ WF_<<owed, taken>>(Deliver)
=============================================================================
