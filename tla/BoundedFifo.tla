------------------------------ MODULE BoundedFifo ------------------------------
(***************************************************************************)
(* What a single-producer / single-consumer queue promises: the items the  *)
(* producer puts in are taken out once each, in order, and there are never *)
(* more than Limit of them under way.  SpscQueue implements it.            *)
(***************************************************************************)
EXTENDS Naturals, Sequences

CONSTANTS
  Items,           \* what the queue carries
  Limit            \* how many it can hold

VARIABLES
  fifo,            \* put in and not yet taken, oldest first
  taken            \* everything taken so far

Init == fifo = <<>> /\ taken = <<>>

Put(item) ==
  /\ Len(fifo) < Limit
  /\ fifo' = Append(fifo, item)
  /\ UNCHANGED taken

Take ==
  /\ fifo # <<>>
  /\ taken' = Append(taken, Head(fifo))
  /\ fifo' = Tail(fifo)

Next == (\E item \in Items : Put(item)) \/ Take

Spec == Init /\ [][Next]_<<fifo, taken>>
=============================================================================
