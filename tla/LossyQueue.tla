----------------------------- MODULE LossyQueue -----------------------------
(***************************************************************************)
(* What an input ring promises its reader: values leave in the order they  *)
(* came, none is made up, repeated or changed, and one is refused only     *)
(* while Capacity of them are waiting.                                     *)
(***************************************************************************)
EXTENDS Integers, Sequences

CONSTANTS
  Values,     \* what a device sends
  Capacity    \* how many may wait

VARIABLES
  items,   \* the values that wait, oldest first
  out,     \* the values of the latest read
  lost     \* how many values were refused

LossyQueueInit ==
  /\ items = <<>>
  /\ out = <<>>
  /\ lost = 0

Put(v) ==
  /\ Len(items) < Capacity
  /\ items' = Append(items, v)
  /\ UNCHANGED <<out, lost>>

Lose ==
  /\ Len(items) = Capacity
  /\ lost' = lost + 1
  /\ UNCHANGED <<items, out>>

Take(k) ==
  /\ out' = SubSeq(items, 1, k)
  /\ items' = SubSeq(items, k + 1, Len(items))
  /\ UNCHANGED lost

LossyQueueNext ==
  \/ \E v \in Values : Put(v)
  \/ Lose
  \/ \E k \in 1..Len(items) : Take(k)

LossyQueueSpec ==
  LossyQueueInit /\ [][LossyQueueNext]_<<items, out, lost>>
=============================================================================
