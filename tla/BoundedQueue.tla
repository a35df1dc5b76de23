---------------------------- MODULE BoundedQueue ----------------------------
(***************************************************************************)
(* What the event bus and the jobber expect of one of their queues: a      *)
(* first-in first-out queue of at most Capacity items, whatever threads    *)
(* push and pop.  Items are numbered in the order of their pushes.         *)
(***************************************************************************)
EXTENDS Naturals, Sequences

CONSTANT Capacity

VARIABLES queue,   \* items pushed and not popped
          popped   \* history: items popped, in order

Init == queue = <<>> /\ popped = <<>>

Push ==
  /\ Len(queue) < Capacity
  /\ queue' = Append(queue, Len(popped) + Len(queue) + 1)
  /\ UNCHANGED popped

Pop ==
  /\ queue # <<>>
  /\ queue' = Tail(queue)
  /\ popped' = Append(popped, Head(queue))

Next == Push \/ Pop

Spec == Init /\ [][Next]_<<queue, popped>>
=============================================================================
