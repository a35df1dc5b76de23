------------------------------ MODULE Queuefd ------------------------------
(***************************************************************************)
(* The queue under the event bus and the jobber (generic/mdv_queue.c and   *)
(* mdv_queuefd.c): a ring buffer with one free cell, a mutex for producers, *)
(* another for consumers, and an eventfd semaphore that counts the items.  *)
(* Producers and consumers share no mutex: head, tail, cells and the       *)
(* semaphore are all that orders them.                                     *)
(***************************************************************************)
EXTENDS Naturals, Sequences, FiniteSets

CONSTANTS Producers, Consumers,
          Capacity,   \* of the queue; the ring has one cell more
          MaxItems    \* bound on pushes, for model checking

ASSUME QueuefdAssumption == /\ Capacity \in Nat \ {0}
                            /\ MaxItems \in Nat
                            /\ Producers \cap Consumers = {}

VARIABLES
  head, tail,  \* of the ring buffer
  cells,       \* its cells
  event,       \* the semaphore
  wmutex,      \* the producer that holds wmutex: a set of at most one
  rmutex,      \* the consumer that holds rmutex
  pc,          \* where each thread is
  free,        \* the free space that the producer computed
  got,         \* the item that the consumer copied
  pushed,      \* history: number of items pushed
  popped       \* history: items popped, in order

ring == <<head, tail, cells>>
vars == <<ring, event, wmutex, rmutex, pc, free, got, pushed, popped>>

Cells == 0 .. Capacity

\* The size computed from two indices by every operation of the ring.
Size(h, t) == IF h <= t THEN t - h ELSE Capacity + 1 + t - h

Threads == Producers \cup Consumers
GoTo(t, step) == pc' = [pc EXCEPT ![t] = step]

Init ==
  /\ head = 0 /\ tail = 0 /\ cells = [c \in Cells |-> 0]
  /\ event = 0 /\ wmutex = {} /\ rmutex = {}
  /\ pc = [t \in Threads |-> "out"]
  /\ free = 0 /\ got = 0 /\ pushed = 0 /\ popped = <<>>

-----------------------------------------------------------------------------
\* _mdv_queuefd_push takes wmutex and _mdv_queue_push_one loads the indices.  The
\* head may be stale when it is used: consumers go on.
PushLoad(p) ==
  /\ pc[p] = "out" /\ wmutex = {}
  /\ pushed < MaxItems
  /\ wmutex' = {p}
  /\ free' = Capacity - Size(head, tail)
  /\ GoTo(p, "copy")
  /\ UNCHANGED <<ring, event, rmutex, got, pushed, popped>>

\* No free space: the push fails and its caller yields and tries again.
PushFull(p) ==
  /\ pc[p] = "copy" /\ free = 0
  /\ wmutex' = {}
  /\ GoTo(p, "out")
  /\ UNCHANGED <<ring, event, rmutex, free, got, pushed, popped>>

PushCopy(p) ==
  /\ pc[p] = "copy" /\ free > 0
  /\ cells' = [cells EXCEPT ![tail] = pushed + 1]
  /\ GoTo(p, "store")
  /\ UNCHANGED <<head, tail, event, wmutex, rmutex, free, got, pushed, popped>>

\* Mutant: the index wraps one cell too early.
PushStoreMut(p) ==
  /\ pc[p] = "store"
  /\ tail' = (tail + 1) % Capacity
  /\ pushed' = pushed + 1
  /\ GoTo(p, "signal")
  /\ UNCHANGED <<head, cells, event, wmutex, rmutex, free, got, popped>>

PushStore(p) ==
  /\ pc[p] = "store"
  /\ tail' = (tail + 1) % (Capacity + 1)
  /\ pushed' = pushed + 1
  /\ GoTo(p, "signal")
  /\ UNCHANGED <<head, cells, event, wmutex, rmutex, free, got, popped>>

\* Mutant: only the first item is announced.
PushSignalMut(p) ==
  /\ pc[p] = "signal"
  /\ event' = IF Size(head, tail) = 1 THEN event + 1 ELSE event
  /\ wmutex' = {}
  /\ GoTo(p, "out")
  /\ UNCHANGED <<ring, rmutex, free, got, pushed, popped>>

\* The write to the eventfd and the unlock.
PushSignal(p) ==
  /\ pc[p] = "signal"
  /\ event' = event + 1
  /\ wmutex' = {}
  /\ GoTo(p, "out")
  /\ UNCHANGED <<ring, rmutex, free, got, pushed, popped>>

-----------------------------------------------------------------------------
\* _mdv_queuefd_pop takes rmutex and reads the eventfd.  A worker that epoll woke
\* for an item that another one took reads nothing and leaves: a stutter.
PopWait(c) ==
  /\ pc[c] = "out" /\ rmutex = {} /\ event > 0
  /\ event' = event - 1
  /\ rmutex' = {c}
  /\ GoTo(c, "copy")
  /\ UNCHANGED <<ring, wmutex, free, got, pushed, popped>>

\* _mdv_queue_pop_one.  It would fail on an empty ring, which EveryTokenHasItem
\* excludes.
PopCopy(c) ==
  /\ pc[c] = "copy" /\ Size(head, tail) > 0
  /\ got' = cells[head]
  /\ GoTo(c, "store")
  /\ UNCHANGED <<ring, event, wmutex, rmutex, free, pushed, popped>>

PopStore(c) ==
  /\ pc[c] = "store"
  /\ head' = (head + 1) % (Capacity + 1)
  /\ popped' = Append(popped, got)
  /\ rmutex' = {}
  /\ GoTo(c, "out")
  /\ UNCHANGED <<tail, cells, event, wmutex, free, got, pushed>>

Next ==
  \/ \E p \in Producers : PushLoad(p) \/ PushFull(p) \/ PushCopy(p) \/ PushStore(p) \/ PushSignal(p)
  \/ \E c \in Consumers : PopWait(c) \/ PopCopy(c) \/ PopStore(c)

Spec == Init /\ [][Next]_vars

\* Workers poll the queues; nothing makes anybody push.
Fairness ==
  /\ \A p \in Producers : WF_vars(PushFull(p) \/ PushCopy(p) \/ PushStore(p) \/ PushSignal(p))
  /\ WF_vars(\E c \in Consumers : PopWait(c) \/ PopCopy(c) \/ PopStore(c))

LiveSpec == Spec /\ Fairness

-----------------------------------------------------------------------------
\* The type invariant.
TypeOK ==
  /\ head \in Cells /\ tail \in Cells /\ free \in 0 .. Capacity
  /\ cells \in [Cells -> Nat] /\ event \in Nat /\ got \in Nat /\ pushed \in Nat
  /\ wmutex = {} \/ \E p \in Producers : wmutex = {p}
  /\ rmutex = {} \/ \E c \in Consumers : rmutex = {c}
  /\ pc \in [Threads -> {"out", "copy", "store", "signal"}]

\* Every token of the semaphore stands for an item of the ring: the consumer that
\* has read the eventfd finds an item, although it shares no mutex with producers,
\* so that _mdv_queue_pop_one never fails after the token is spent and no event or
\* job stays behind without a token.
EveryTokenHasItem ==
  event + Cardinality(rmutex) + Cardinality({p \in Producers : pc[p] = "signal"})
    = Size(head, tail)

\* What the ring holds, oldest first.
Contents == [i \in 1 .. Size(head, tail) |-> cells[(head + i - 1) % (Capacity + 1)]]

Bounded == INSTANCE BoundedQueue WITH queue <- Contents

\* Ring, mutexes and semaphore together are a bounded first-in first-out queue:
\* no item is lost, overwritten, duplicated or overtaken, at any fill level and
\* after any number of turns around the ring.
ImplementsQueue == Bounded!Spec

\* Every item pushed is popped, as long as some consumer polls: pushes are bounded,
\* so that the consumers catch up with the producers.
EventuallyPopped == []<>(Len(popped) = pushed)
=============================================================================
