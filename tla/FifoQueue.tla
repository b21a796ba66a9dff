----------------------------- MODULE FifoQueue -----------------------------
(***************************************************************************)
(* What Queue<E> of src/src/queue.hpp promises ("a simple thread safe FIFO *)
(* queue"): elements go in at one end and come out at the other, each one  *)
(* to a single consumer.                                                   *)
(***************************************************************************)
EXTENDS Sequences

CONSTANTS Item, Consumer, None

VARIABLES
  items,  \* the elements pushed and not yet popped, oldest first
  got     \* the element each consumer has popped and is working on, or None

Init == items = <<>> /\ got = [c \in Consumer |-> None]

Push(x) == items' = Append(items, x) /\ UNCHANGED got

Pop(c) ==
  /\ items # <<>>
  /\ got[c] = None
  /\ got' = [got EXCEPT ![c] = Head(items)]
  /\ items' = Tail(items)

Finish(c) == got[c] # None /\ got' = [got EXCEPT ![c] = None] /\ UNCHANGED items

Next ==
  \/ \E x \in Item : Push(x)
  \/ \E c \in Consumer : Pop(c) \/ Finish(c)

Spec == Init /\ [][Next]_<<items, got>>
=============================================================================
