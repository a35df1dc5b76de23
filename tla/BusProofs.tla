------------------------------ MODULE BusProofs ------------------------------
(***************************************************************************)
(* Proofs about the queue of the event bus and the jobber, for every       *)
(* capacity and any number of producers and consumers, and about the life  *)
(* of the objects that the bus calls and that emit jobs, for any number of *)
(* event workers, job workers and jobs.                                    *)
(***************************************************************************)
EXTENDS Queuefd, JobOwner, TLAPS

-----------------------------------------------------------------------------
(* The queue.                                                              *)

\* The cell that is n cells behind cell h, without the division.
Behind(h, n) == IF h + n <= Capacity THEN h + n ELSE (h + n) - (Capacity + 1)

\* The mutexes say who is inside an operation.
Locks ==
  /\ \A p \in Producers : pc[p] # "out" <=> wmutex = {p}
  /\ \A c \in Consumers : (pc[c] # "out" <=> rmutex = {c}) /\ pc[c] # "signal"

\* EveryTokenHasItem without cardinalities.
Busy       == IF rmutex = {} THEN 0 ELSE 1
Signalling == IF \E p \in Producers : pc[p] = "signal" THEN 1 ELSE 0
Tokens     == event + Busy + Signalling = Size(head, tail)

\* The free space that a producer computed from an old head is still there.
Space ==
  \A p \in Producers :
    /\ pc[p] = "copy" => free <= Capacity - Size(head, tail)
    /\ pc[p] = "store" => Size(head, tail) < Capacity /\ cells[tail] = pushed + 1

\* The cells from head to tail hold the numbers of the items not popped, in order.
Items ==
  /\ popped \in Seq(Nat) /\ pushed = Len(popped) + Size(head, tail)
  /\ \A n \in 0 .. Capacity :
       n < Size(head, tail) => cells[Behind(head, n)] = Len(popped) + n + 1

\* The consumer that has copied an item has the oldest one.
Copied == \A c \in Consumers : pc[c] = "store" => got = Len(popped) + 1

IInv == TypeOK /\ Locks /\ Tokens /\ Space /\ Items /\ Copied

-----------------------------------------------------------------------------
\* The division of _mdv_queue_push_one and _mdv_queue_pop_one.
LEMMA Wrap ==
  ASSUME NEW h \in Cells, NEW n \in 0 .. Capacity
  PROVE  (h + n) % (Capacity + 1) = Behind(h, n) /\ Behind(h, n) \in Cells
<1>1. Capacity + 1 \in Nat \ {0} /\ h \in 0 .. Capacity /\ h + n \in Nat
  BY QueuefdAssumption DEF Cells
<1>2. ASSUME NEW M \in Nat \ {0}, NEW x \in 0 .. M - 1 PROVE x % M = x
  OBVIOUS
<1>3. ASSUME NEW M \in Nat \ {0}, NEW x \in M .. M + M - 1 PROVE x % M = x - M
  OBVIOUS
<1>4. ASSUME h + n <= Capacity PROVE (h + n) % (Capacity + 1) = h + n
  <2>1. h + n \in 0 .. (Capacity + 1) - 1
    BY <1>1, <1>4, QueuefdAssumption
  <2> QED BY <1>1, <1>2, <2>1, Zenon
<1>5. ASSUME ~(h + n <= Capacity) PROVE (h + n) % (Capacity + 1) = (h + n) - (Capacity + 1)
  <2> DEFINE M == Capacity + 1
             x == h + n
  <2>1. M \in Nat \ {0} /\ x \in M .. M + M - 1
    BY <1>1, <1>5, QueuefdAssumption
  <2> HIDE DEF M, x
  <2>2. x % M = x - M
    BY <1>3, <2>1, Zenon
  <2> QED BY <2>2, Zenon DEF M, x
<1>6. Behind(h, n) \in Cells
  BY <1>1, QueuefdAssumption DEF Behind, Cells
<1> QED BY <1>4, <1>5, <1>6, Zenon DEF Behind

\* What the size of the ring becomes when an item is put or taken.
LEMMA Sizes ==
  ASSUME NEW h \in Cells, NEW t \in Cells
  PROVE  /\ Size(h, t) \in 0 .. Capacity
         /\ t = Behind(h, Size(h, t))
         /\ \A n \in 0 .. Capacity : n < Size(h, t) => Behind(h, n) # t
         /\ Size(h, t) < Capacity => Size(h, Behind(t, 1)) = Size(h, t) + 1
         /\ Size(h, t) > 0 => /\ Size(Behind(h, 1), t) = Size(h, t) - 1
                              /\ \A n \in 0 .. Capacity - 1 :
                                   Behind(Behind(h, 1), n) = Behind(h, n + 1)
         /\ Behind(h, 0) = h
  BY QueuefdAssumption DEF Size, Behind, Cells

\* A new queue satisfies the invariant.
LEMMA InitIInv == Init => IInv
  BY QueuefdAssumption
     DEF Init, IInv, TypeOK, Locks, Tokens, Busy, Signalling, Space, Items,
     Copied, Size, Cells, Threads

-----------------------------------------------------------------------------
\* Each step of mdv_queuefd_push keeps it.
LEMMA PushIInv ==
  ASSUME IInv, NEW p \in Producers,
         PushLoad(p) \/ PushFull(p) \/ PushCopy(p) \/ PushStore(p) \/ PushSignal(p)
  PROVE  IInv'
<1>0. Size(head, tail) \in 0 .. Capacity /\ Capacity \in Nat \ {0}
  BY Sizes, QueuefdAssumption, Zenon DEF IInv, TypeOK
<1>1. p \notin Consumers /\ p \in Threads /\ Threads = Producers \cup Consumers
  BY QueuefdAssumption, Zenon DEF Threads
<1>2. CASE PushLoad(p)
  <2>1. TypeOK'
    BY <1>0, <1>1, <1>2 DEF IInv, TypeOK, PushLoad, GoTo, ring
  <2>2. Locks'
    BY <1>1, <1>2, Zenon DEF IInv, TypeOK, Locks, PushLoad, GoTo
  <2>3. Tokens'
    BY <1>1, <1>2, Zenon DEF IInv, TypeOK, Tokens, Busy, Signalling, PushLoad, GoTo, ring
  <2>4. Space'
    BY <1>0, <1>1, <1>2 DEF IInv, TypeOK, Locks, Space, PushLoad, GoTo, ring
  <2>5. Items' /\ Copied'
    BY <1>1, <1>2, Zenon DEF IInv, TypeOK, Items, Copied, PushLoad, GoTo, ring
  <2> QED BY <2>1, <2>2, <2>3, <2>4, <2>5, Zenon DEF IInv
<1>3. CASE PushFull(p)
  <2>1. TypeOK' /\ Locks'
    BY <1>1, <1>3, Zenon DEF IInv, TypeOK, Locks, PushFull, GoTo, ring
  <2>2. Tokens'
    BY <1>1, <1>3, Zenon DEF IInv, TypeOK, Tokens, Busy, Signalling, PushFull, GoTo, ring
  <2>3. Space' /\ Items' /\ Copied'
    BY <1>1, <1>3, Zenon DEF IInv, TypeOK, Space, Items, Copied, PushFull, GoTo, ring
  <2> QED BY <2>1, <2>2, <2>3, Zenon DEF IInv
<1>4. CASE PushCopy(p)
  <2>0. /\ \A n \in 0 .. Capacity : n < Size(head, tail) => Behind(head, n) # tail
        /\ \A n \in 0 .. Capacity : Behind(head, n) \in Cells
    BY Sizes, Wrap, Zenon DEF IInv, TypeOK
  <2>1. TypeOK' /\ Locks'
    BY <1>1, <1>4 DEF IInv, TypeOK, Locks, PushCopy, GoTo
  <2>2. Tokens'
    BY <1>1, <1>4, Zenon DEF IInv, TypeOK, Tokens, Busy, Signalling, PushCopy, GoTo
  <2>3. Space'
    BY <1>0, <1>1, <1>4 DEF IInv, TypeOK, Locks, Space, PushCopy, GoTo
  <2>4. Items'
    BY <1>4, <2>0, Zenon DEF IInv, TypeOK, Items, PushCopy
  <2>5. Copied'
    BY <1>1, <1>4, Zenon DEF IInv, TypeOK, Copied, PushCopy, GoTo
  <2> QED BY <2>1, <2>2, <2>3, <2>4, <2>5, Zenon DEF IInv
<1>5. CASE PushStore(p)
  <2>0. /\ tail' = Behind(tail, 1) /\ tail' \in Cells
        /\ Size(head, tail) < Capacity /\ cells[tail] = pushed + 1
        /\ Size(head, tail)' = Size(head, tail) + 1
    <3>1. tail' = Behind(tail, 1) /\ tail' \in Cells
      BY <1>0, <1>5, Wrap DEF IInv, TypeOK, PushStore
    <3>2. Size(head, tail) < Capacity /\ cells[tail] = pushed + 1 /\ head' = head
      BY <1>5, Zenon DEF IInv, Space, PushStore
    <3>3. Size(head, Behind(tail, 1)) = Size(head, tail) + 1
      BY <3>2, Sizes, Zenon DEF IInv, TypeOK
    <3>4. Size(head, tail)' = Size(head', tail')
      BY Zenon DEF Size
    <3> QED BY <3>1, <3>2, <3>3, <3>4, Zenon
  <2>1. TypeOK' /\ Locks'
    BY <1>1, <1>5, <2>0 DEF IInv, TypeOK, Locks, PushStore, GoTo
  <2>2. Tokens'
    BY <1>0, <1>1, <1>5, <2>0
       DEF IInv, TypeOK, Locks, Tokens, Busy, Signalling, PushStore, GoTo
  <2>3. Space'
    BY <1>1, <1>5, <2>0, Zenon DEF IInv, TypeOK, Locks, Space, PushStore, GoTo
  <2>4. Items'
    <3>1. tail = Behind(head, Size(head, tail))
      BY Sizes, Zenon DEF IInv, TypeOK
    <3>2. /\ popped' = popped /\ cells' = cells /\ head' = head /\ pushed' = pushed + 1
      BY <1>5, Zenon DEF PushStore
    <3>3. pushed' = Len(popped') + Size(head, tail)'
      BY <1>0, <2>0, <3>2 DEF IInv, TypeOK, Items
    <3>4. ASSUME NEW n \in 0 .. Capacity, n < Size(head, tail)'
          PROVE  (cells[Behind(head, n)] = Len(popped) + n + 1)'
      <4>1. Behind(head, n)' = Behind(head, n)
        BY <3>2, Zenon DEF Behind
      <4>2. CASE n < Size(head, tail)
        BY <3>2, <4>1, <4>2, Zenon DEF IInv, Items
      <4>3. CASE n = Size(head, tail)
        BY <2>0, <3>1, <3>2, <4>1, <4>3, Zenon DEF IInv, Items
      <4> QED BY <1>0, <2>0, <3>4, <4>2, <4>3
    <3> QED BY <3>2, <3>3, <3>4, Zenon DEF IInv, Items
  <2>5. Copied'
    BY <1>1, <1>5, Zenon DEF IInv, TypeOK, Copied, PushStore, GoTo
  <2> QED BY <2>1, <2>2, <2>3, <2>4, <2>5 DEF IInv
<1>6. CASE PushSignal(p)
  <2>1. TypeOK' /\ Locks'
    BY <1>1, <1>6 DEF IInv, TypeOK, Locks, PushSignal, GoTo, ring
  <2>2. Tokens'
    BY <1>0, <1>1, <1>6
       DEF IInv, TypeOK, Locks, Tokens, Busy, Signalling, PushSignal, GoTo, ring
  <2>3. Space' /\ Items' /\ Copied'
    BY <1>1, <1>6, Zenon DEF IInv, TypeOK, Space, Items, Copied, PushSignal, GoTo, ring
  <2> QED BY <2>1, <2>2, <2>3 DEF IInv
<1> QED BY <1>2, <1>3, <1>4, <1>5, <1>6, Zenon

\* Each step of mdv_queuefd_pop keeps it.
LEMMA PopIInv ==
  ASSUME IInv, NEW c \in Consumers, PopWait(c) \/ PopCopy(c) \/ PopStore(c)
  PROVE  IInv'
<1>0. Size(head, tail) \in 0 .. Capacity /\ Capacity \in Nat \ {0}
  BY Sizes, QueuefdAssumption, Zenon DEF IInv, TypeOK
<1>1. c \notin Producers /\ c \in Threads /\ Threads = Producers \cup Consumers
  BY QueuefdAssumption, Zenon DEF Threads
<1>2. CASE PopWait(c)
  <2>1. TypeOK' /\ Locks'
    BY <1>1, <1>2 DEF IInv, TypeOK, Locks, PopWait, GoTo, ring
  <2>2. Tokens'
    BY <1>0, <1>1, <1>2 DEF IInv, TypeOK, Tokens, Busy, Signalling, PopWait, GoTo, ring
  <2>3. Space' /\ Items' /\ Copied'
    BY <1>1, <1>2, Zenon DEF IInv, TypeOK, Space, Items, Copied, PopWait, GoTo, ring
  <2> QED BY <2>1, <2>2, <2>3, Zenon DEF IInv
<1>3. CASE PopCopy(c)
  <2>0. cells[head] = Len(popped) + 1 /\ Len(popped) \in Nat
    <3>1. Behind(head, 0) = head
      BY Sizes, Zenon DEF IInv, TypeOK
    <3>2. Len(popped) \in Nat
      BY DEF IInv, Items
    <3> QED BY <1>0, <1>3, <3>1, <3>2 DEF IInv, Items, PopCopy
  <2>1. TypeOK' /\ Locks'
    BY <1>1, <1>3, <2>0, Zenon DEF IInv, TypeOK, Locks, PopCopy, GoTo, ring
  <2>2. Tokens'
    BY <1>1, <1>3, Zenon DEF IInv, TypeOK, Tokens, Busy, Signalling, PopCopy, GoTo, ring
  <2>3. Space' /\ Items'
    BY <1>1, <1>3, Zenon DEF IInv, TypeOK, Space, Items, PopCopy, GoTo, ring
  <2>4. Copied'
    BY <1>1, <1>3, <2>0, Zenon DEF IInv, TypeOK, Locks, Copied, PopCopy, GoTo
  <2> QED BY <2>1, <2>2, <2>3, <2>4, Zenon DEF IInv
<1>4. CASE PopStore(c)
  <2>0. /\ head' = Behind(head, 1) /\ head' \in Cells
        /\ Size(head, tail) > 0 /\ Size(head, tail)' = Size(head, tail) - 1
        /\ \A n \in 0 .. Capacity - 1 : Behind(head', n) = Behind(head, n + 1)
    <3>1. head' = Behind(head, 1) /\ head' \in Cells /\ tail' = tail
      BY <1>0, <1>4, Wrap DEF IInv, TypeOK, PopStore
    <3>2. Size(head, tail) > 0
      <4>1. rmutex = {c}
        BY <1>4, Zenon DEF IInv, Locks, PopStore
      <4>2. Busy = 1
        BY <4>1, Zenon DEF Busy
      <4>3. Signalling \in Nat /\ event \in Nat
        BY Zenon DEF Signalling, IInv, TypeOK
      <4> QED BY <1>0, <4>2, <4>3 DEF IInv, Tokens
    <3>3. Size(Behind(head, 1), tail) = Size(head, tail) - 1
      BY <3>2, Sizes, Zenon DEF IInv, TypeOK
    <3>4. Size(head, tail)' = Size(head', tail')
      BY Zenon DEF Size
    <3>5. \A n \in 0 .. Capacity - 1 : Behind(Behind(head, 1), n) = Behind(head, n + 1)
      BY <3>2, Sizes, Zenon DEF IInv, TypeOK
    <3> QED BY <3>1, <3>2, <3>3, <3>4, <3>5, Zenon
  <2>1. popped' \in Seq(Nat) /\ Len(popped') = Len(popped) + 1 /\ Len(popped) \in Nat
    BY <1>4 DEF IInv, TypeOK, Items, PopStore
  <2>2. TypeOK' /\ Locks'
    BY <1>1, <1>4, <2>0, Zenon DEF IInv, TypeOK, Locks, PopStore, GoTo
  <2>3. Tokens'
    <3>1. Busy = 1 /\ Busy' = 0
      BY <1>4, Zenon DEF IInv, Locks, Busy, PopStore
    <3>2. Signalling' = Signalling /\ Signalling \in Nat
      BY <1>1, <1>4, Zenon DEF IInv, TypeOK, Signalling, PopStore, GoTo
    <3>3. event' = event /\ event \in Nat
      BY <1>4, Zenon DEF IInv, TypeOK, PopStore
    <3> QED BY <1>0, <2>0, <3>1, <3>2, <3>3 DEF IInv, Tokens
  <2>4. Space'
    <3>1. \A p \in Producers : pc'[p] = pc[p]
      BY <1>1, <1>4, Zenon DEF IInv, TypeOK, PopStore, GoTo
    <3>2. UNCHANGED <<free, cells, tail, pushed>> /\ free \in 0 .. Capacity
      BY <1>4, Zenon DEF IInv, TypeOK, PopStore
    <3> QED BY <1>0, <2>0, <3>1, <3>2 DEF IInv, Space
  <2>5. Items'
    <3>1. cells' = cells /\ pushed' = pushed
      BY <1>4, Zenon DEF PopStore
    <3>2. pushed' = Len(popped') + Size(head, tail)'
      BY <1>0, <2>0, <2>1, <3>1 DEF IInv, TypeOK, Items
    <3>3. ASSUME NEW n \in 0 .. Capacity, n < Size(head, tail)'
          PROVE  (cells[Behind(head, n)] = Len(popped) + n + 1)'
      <4>1. n \in 0 .. Capacity - 1 /\ n + 1 \in 0 .. Capacity /\ n + 1 < Size(head, tail)
        BY <1>0, <2>0, <3>3
      <4>2. Behind(head, n)' = Behind(head, n + 1)
        <5>1. Behind(head, n)' = Behind(head', n)
          BY Zenon DEF Behind
        <5> QED BY <2>0, <4>1, <5>1, Zenon
      <4>3. cells[Behind(head, n + 1)] = Len(popped) + (n + 1) + 1
        BY <4>1, Zenon DEF IInv, Items
      <4> QED BY <2>1, <3>1, <4>2, <4>3
    <3> QED BY <2>1, <3>2, <3>3, Zenon DEF Items
  <2>6. Copied'
    BY <1>1, <1>4 DEF IInv, TypeOK, Locks, Copied, PopStore, GoTo
  <2> QED BY <2>2, <2>3, <2>4, <2>5, <2>6, Zenon DEF IInv
<1> QED BY <1>2, <1>3, <1>4, Zenon

\* Every step keeps it.
LEMMA NextIInv == IInv /\ [Next]_vars => IInv'
<1>1. ASSUME IInv, UNCHANGED vars PROVE IInv'
  BY <1>1, Zenon
     DEF vars, ring, IInv, TypeOK, Locks, Tokens, Busy, Signalling, Space, Items, Copied,
              Size, Behind
<1> QED BY <1>1, PushIInv, PopIInv, Zenon DEF Next

\* The invariant behind the theorems below.
THEOREM QueuefdInvariant == Spec => []IInv
<1> QED BY InitIInv, NextIInv, PTL DEF Spec

\* Type correctness: the indices stay inside the ring and the free space that a
\* producer works with is never negative.
THEOREM QueuefdTypeOK == Spec => []TypeOK
<1>1. IInv => TypeOK
  BY Zenon DEF IInv
<1> QED BY <1>1, QueuefdInvariant, PTL

-----------------------------------------------------------------------------
\* Sequences: one element more at the end, one less at the head, and the same ones.
LEMMA SeqAppend ==
  ASSUME NEW S, NEW s \in Seq(S), NEW x \in S
  PROVE  /\ Append(s, x) \in Seq(S) /\ Len(Append(s, x)) = Len(s) + 1
         /\ Append(s, x)[Len(s) + 1] = x
         /\ \A i \in 1 .. Len(s) : Append(s, x)[i] = s[i]
OBVIOUS

\* One element less at the head.
LEMMA SeqTail ==
  ASSUME NEW S, NEW s \in Seq(S), s # <<>>
  PROVE  /\ Tail(s) \in Seq(S) /\ Len(Tail(s)) = Len(s) - 1
         /\ \A i \in 1 .. Len(Tail(s)) : Tail(s)[i] = s[i + 1]
OBVIOUS

\* The same elements, the same sequence.
LEMMA SeqSame ==
  ASSUME NEW S, NEW s \in Seq(S), NEW t \in Seq(S), Len(s) = Len(t),
         \A i \in 1 .. Len(s) : s[i] = t[i]
  PROVE  s = t
OBVIOUS

\* The numbers k + 1 .. k + n as a sequence.
From(k, n) == [i \in 1 .. n |-> k + i]

\* It is a sequence of length n.
LEMMA FromIsSeq ==
  ASSUME NEW k \in Nat, NEW n \in Nat
  PROVE  From(k, n) \in Seq(Nat) /\ Len(From(k, n)) = n
  BY DEF From

\* One number more at the end.
LEMMA FromAppend ==
  ASSUME NEW k \in Nat, NEW n \in Nat
  PROVE  Append(From(k, n), k + n + 1) = From(k, n + 1)
<1> DEFINE a == Append(From(k, n), k + n + 1)
           b == From(k, n + 1)
<1>1. From(k, n) \in Seq(Nat) /\ Len(From(k, n)) = n /\ k + n + 1 \in Nat /\ n + 1 \in Nat
  BY FromIsSeq
<1>2. a \in Seq(Nat) /\ Len(a) = n + 1
  BY <1>1, SeqAppend
<1>3. b \in Seq(Nat) /\ Len(b) = n + 1
  BY <1>1, FromIsSeq, Zenon
<1>4. ASSUME NEW i \in 1 .. n + 1 PROVE a[i] = b[i]
  <2>1. b[i] = k + i
    BY Zenon DEF From
  <2>2. CASE i = n + 1
    BY <1>1, <2>1, <2>2, SeqAppend
  <2>3. CASE i # n + 1
    <3>1. i \in 1 .. n
      BY <2>3
    <3>2. From(k, n)[i] = k + i
      BY <3>1, Zenon DEF From
    <3> QED BY <1>1, <2>1, <3>1, <3>2, SeqAppend
  <2> QED BY <2>2, <2>3, Zenon
<1> HIDE DEF a, b
<1>5. a = b
  BY <1>2, <1>3, <1>4, SeqSame, Zenon
<1> QED BY <1>5, Zenon DEF a, b

\* One number less at the head.
LEMMA FromTail ==
  ASSUME NEW k \in Nat, NEW n \in Nat, n > 0
  PROVE  /\ From(k, n) # <<>> /\ Head(From(k, n)) = k + 1
         /\ Tail(From(k, n)) = From(k + 1, n - 1)
<1> DEFINE a == Tail(From(k, n))
           b == From(k + 1, n - 1)
<1>1. /\ From(k, n) \in Seq(Nat) /\ Len(From(k, n)) = n /\ From(k, n) # <<>>
      /\ k + 1 \in Nat /\ n - 1 \in Nat
  BY FromIsSeq
<1>2. Head(From(k, n)) = k + 1
  BY <1>1 DEF From
<1>3. a \in Seq(Nat) /\ Len(a) = n - 1
  BY <1>1, SeqTail, Zenon
<1>4. b \in Seq(Nat) /\ Len(b) = n - 1
  BY <1>1, FromIsSeq, Zenon
<1>5. ASSUME NEW i \in 1 .. n - 1 PROVE a[i] = b[i]
  <2>1. a[i] = From(k, n)[i + 1]
    BY <1>1, <1>3, SeqTail, Zenon
  <2>2. From(k, n)[i + 1] = k + (i + 1)
    BY DEF From
  <2>3. b[i] = (k + 1) + i
    BY Zenon DEF From
  <2>4. k + (i + 1) = (k + 1) + i
    OBVIOUS
  <2> QED BY <2>1, <2>2, <2>3, <2>4, Zenon
<1> HIDE DEF a, b
<1>6. a = b
  BY <1>3, <1>4, <1>5, SeqSame, Zenon
<1> QED BY <1>1, <1>2, <1>6, Zenon DEF a, b

\* The items in the ring are the numbers behind the last one popped.
Numbered == Contents = From(Len(popped), Size(head, tail))

\* The queue holds the numbers of the items pushed and not yet popped, in order.
LEMMA ContentsAreNumbers == IInv => Numbered
<1> SUFFICES ASSUME IInv PROVE Numbered
  BY Zenon
<1>1. head \in Cells /\ Size(head, tail) \in 0 .. Capacity /\ Len(popped) \in Nat
  BY Sizes DEF IInv, TypeOK, Items
<1>2. ASSUME NEW i \in 1 .. Size(head, tail)
      PROVE  cells[(head + i - 1) % (Capacity + 1)] = Len(popped) + i
  <2>1. i - 1 \in 0 .. Capacity /\ i - 1 < Size(head, tail) /\ head + i - 1 = head + (i - 1)
    BY <1>1, QueuefdAssumption DEF Cells
  <2>2. (head + i - 1) % (Capacity + 1) = Behind(head, i - 1)
    BY <1>1, <2>1, Wrap, Zenon
  <2>3. cells[Behind(head, i - 1)] = Len(popped) + (i - 1) + 1
    BY <2>1, Zenon DEF IInv, Items
  <2> QED BY <1>1, <2>2, <2>3
<1> QED BY <1>2, Zenon DEF Numbered, Contents, From

\* Ring, mutexes and semaphore implement a bounded first-in first-out queue, for
\* every capacity and any number of producers and consumers: the item is in the
\* queue when PushStore has moved the tail, and out of it when PopStore has moved
\* the head; no other step changes what the ring holds.
THEOREM QueuefdImplementsQueue == Spec => ImplementsQueue
<1>1. Init => Bounded!Init
  <2>1. ASSUME Init PROVE Contents = <<>> /\ popped = <<>>
    <3>1. IInv /\ head = 0 /\ tail = 0 /\ popped = <<>>
      BY <2>1, InitIInv, Zenon DEF Init
    <3>2. Contents = From(Len(popped), Size(head, tail)) /\ Size(head, tail) = 0
      BY <3>1, ContentsAreNumbers DEF Numbered, Size
    <3>3. Len(popped) \in Nat
      BY <3>1, Zenon
    <3> QED BY <3>1, <3>2, <3>3 DEF From
  <2> QED BY <2>1, Zenon DEF Bounded!Init
<1>2. ASSUME IInv, IInv', Numbered, Numbered', [Next]_vars
      PROVE  [Bounded!Next]_<<Contents, popped>>
  <2> DEFINE n == Size(head, tail)
             k == Len(popped)
  <2>1. n \in 0 .. Capacity /\ n \in Nat /\ k \in Nat /\ Capacity \in Nat /\ 1 \in 0 .. Capacity
    BY <1>2, Sizes, QueuefdAssumption DEF IInv, TypeOK, Items
  <2>2. Contents = From(k, n) /\ Contents' = From(Len(popped'), n')
    BY <1>2, Zenon DEF Numbered, From, Size
  <2>3. ASSUME UNCHANGED <<popped, head, tail>> PROVE UNCHANGED <<Contents, popped>>
    BY <2>2, <2>3, Zenon DEF Size
  <2>4. ASSUME NEW p \in Producers, PushLoad(p) \/ PushFull(p) \/ PushCopy(p) \/ PushSignal(p)
        PROVE  UNCHANGED <<popped, head, tail>>
    BY <2>4, Zenon DEF PushLoad, PushFull, PushCopy, PushSignal, ring
  <2>5. ASSUME NEW p \in Producers, PushStore(p) PROVE Bounded!Push
    <3>1. popped' = popped /\ n < Capacity /\ n' = n + 1
      <4>1. popped' = popped /\ head' = head /\ tail' = Behind(tail, 1) /\ n < Capacity
        <5>1. tail' = Behind(tail, 1)
          BY <1>2, <2>1, <2>5, Wrap, Zenon DEF IInv, TypeOK, PushStore
        <5> QED BY <1>2, <2>5, <5>1, Zenon DEF IInv, Space, PushStore
      <4>2. Size(head, Behind(tail, 1)) = n + 1
        BY <1>2, <4>1, Sizes, Zenon DEF IInv, TypeOK
      <4> QED BY <4>1, <4>2, Zenon DEF Size
    <3>2. Len(Contents) = n /\ Append(Contents, k + n + 1) = From(k, n + 1)
      <4> HIDE DEF n, k
      <4> QED BY <2>1, <2>2, FromIsSeq, FromAppend, Zenon
    <3> QED BY <2>2, <3>1, <3>2, Zenon DEF Bounded!Push
  <2>6. ASSUME NEW c \in Consumers, PopWait(c) \/ PopCopy(c)
        PROVE  UNCHANGED <<popped, head, tail>>
    BY <2>6, Zenon DEF PopWait, PopCopy, ring
  <2>7. ASSUME NEW c \in Consumers, PopStore(c) PROVE Bounded!Pop
    <3>1. popped' = Append(popped, k + 1) /\ Len(popped') = k + 1
      BY <1>2, <2>7 DEF IInv, Items, Copied, PopStore
    <3>2. n > 0 /\ n' = n - 1
      <4>1. pushed' = pushed
        BY <2>7, Zenon DEF PopStore
      <4>2. pushed = k + n /\ pushed' = Len(popped') + n' /\ n' \in Nat
        BY <1>2, Sizes, SMTT(30) DEF IInv, TypeOK, Items
      <4> QED BY <2>1, <3>1, <4>1, <4>2
    <3>3. Contents # <<>> /\ Head(Contents) = k + 1 /\ Tail(Contents) = From(k + 1, n - 1)
      <4> HIDE DEF n, k
      <4> QED BY <2>1, <2>2, <3>2, FromTail, Zenon
    <3> QED BY <2>2, <3>1, <3>2, <3>3, Zenon DEF Bounded!Pop
  <2>8. CASE UNCHANGED vars
    BY <2>3, <2>8, Zenon DEF vars, ring
  <2> QED BY <1>2, <2>3, <2>4, <2>5, <2>6, <2>7, <2>8, Zenon DEF Next, Bounded!Next
<1> QED BY <1>1, <1>2, ContentsAreNumbers, QueuefdInvariant, PTL
           DEF Spec, ImplementsQueue, Bounded!Spec

-----------------------------------------------------------------------------
(* The life of an object that handles events by emitting jobs.             *)

\* The facts about finite sets that the accounts rest on.  The lemmas assume them;
\* LibraryCounts proves them from the library at the end.
Counting ==
  \A S : IsFiniteSet(S) =>
    /\ Cardinality(S) \in Nat
    /\ Cardinality(S) = 0 <=> S = {}
    /\ \A T \in SUBSET S : IsFiniteSet(T)
    /\ \A x : /\ x \notin S => Cardinality(S \cup {x}) = Cardinality(S) + 1
              /\ x \in S => Cardinality(S \ {x}) = Cardinality(S) - 1

\* How many threads of W are at step v.
At(W, step, v) == Cardinality({x \in W : step[x] = v})

\* A thread that moves leaves one step and enters another.
LEMMA MoveCounts ==
  ASSUME Counting, NEW W, IsFiniteSet(W), NEW w \in W, NEW v, NEW step, NEW next,
         next[w] = v, \A x \in W \ {w} : next[x] = step[x]
  PROVE  /\ \A u : At(W, step, u) \in Nat
         /\ step[w] # v => At(W, next, v) = At(W, step, v) + 1
         /\ step[w] # v => At(W, next, step[w]) = At(W, step, step[w]) - 1
         /\ \A u : u # v /\ u # step[w] => At(W, next, u) = At(W, step, u)
<1> DEFINE S(u) == {x \in W : step[x] = u}
           T(u) == {x \in W : next[x] = u}
<1>1. \A u : IsFiniteSet(S(u))
  BY Zenon DEF Counting
<1>2. \A u : Cardinality(S(u)) \in Nat
  BY <1>1, Zenon DEF Counting
<1>3. ASSUME step[w] # v PROVE T(v) = S(v) \cup {w} /\ w \notin S(v)
  BY <1>3, Zenon
<1>4. ASSUME step[w] # v PROVE T(step[w]) = S(step[w]) \ {w} /\ w \in S(step[w])
  BY <1>4
<1>5. ASSUME NEW u, u # v, u # step[w] PROVE T(u) = S(u)
  BY <1>5, Zenon
<1>6. /\ \A u : At(W, step, u) = Cardinality(S(u))
      /\ \A u : At(W, next, u) = Cardinality(T(u))
  BY Zenon DEF At
<1> HIDE DEF S, T
<1>7. /\ w \notin S(v) => Cardinality(S(v) \cup {w}) = Cardinality(S(v)) + 1
      /\ w \in S(step[w]) => Cardinality(S(step[w]) \ {w}) = Cardinality(S(step[w])) - 1
  <2>1. IsFiniteSet(S(v)) /\ IsFiniteSet(S(step[w]))
    BY <1>1, Zenon
  <2> QED BY <2>1, Zenon DEF Counting
<1>8. ASSUME step[w] # v PROVE Cardinality(T(v)) = Cardinality(S(v)) + 1
  <2>1. T(v) = S(v) \cup {w} /\ w \notin S(v)
    BY <1>3, <1>8, Zenon
  <2> QED BY <1>7, <2>1, Zenon
<1>9. ASSUME step[w] # v PROVE Cardinality(T(step[w])) = Cardinality(S(step[w])) - 1
  <2>1. T(step[w]) = S(step[w]) \ {w} /\ w \in S(step[w])
    BY <1>4, <1>9, Zenon
  <2> QED BY <1>7, <2>1, Zenon
<1> QED BY <1>2, <1>5, <1>6, <1>8, <1>9, Zenon

\* A count is zero when nobody is there.
LEMMA NobodyThere ==
  ASSUME Counting, NEW W, IsFiniteSet(W), NEW step, NEW v
  PROVE  At(W, step, v) \in Nat /\ (At(W, step, v) = 0 <=> \A x \in W : step[x] # v)
<1>1. IsFiniteSet({x \in W : step[x] = v})
  BY Zenon DEF Counting
<1>2. Cardinality({x \in W : step[x] = v}) \in Nat
  BY <1>1, Zenon DEF Counting
<1>3. Cardinality({x \in W : step[x] = v}) = 0 <=> {x \in W : step[x] = v} = {}
  BY <1>1, Zenon DEF Counting
<1> QED BY <1>2, <1>3, Zenon DEF At

-----------------------------------------------------------------------------
\* Every reference belongs to the owner, to a handler that is emitting a job, or to
\* a job that is queued or under way.
References ==
  rc = (IF released THEN 0 ELSE 1) + At(Handlers, hpc, "push") + queue
         + At(JobWorkers, jpc, "release")

\* active_jobs counts the jobs that are queued or under way, but those whose handler
\* has not counted them yet.
ActiveJobs ==
  active = queue + At(JobWorkers, jpc, "release") + At(JobWorkers, jpc, "decrement")
             - At(Handlers, hpc, "count")

\* What the steps of the free function have waited for.
Waited ==
  \A x \in Releasers :
    /\ fpc[x] \in {"handlers", "jobs", "pool", "end"} => ~subscribed
    /\ fpc[x] \in {"jobs", "pool", "end"} => \A h \in Handlers : hpc[h] = "idle"
    /\ fpc[x] \in {"pool", "end"} =>
         /\ queue = 0
         /\ \A j \in JobWorkers : jpc[j] \notin {"release", "decrement"}

\* A handler or a job that frees the object waits for itself: only the owner's
\* release comes to the end.
Freeing ==
  /\ \A h \in Handlers :
       fpc[h] # "no" => hpc[h] = "leave" /\ fpc[h] \in {"unsubscribe", "handlers"}
  /\ \A j \in JobWorkers :
       fpc[j] # "no" => jpc[j] = "decrement" /\ fpc[j] \in {"unsubscribe", "handlers", "jobs"}
  /\ fpc[Main] # "no" => released
  /\ freed = IF fpc[Main] = "end" THEN 1 ELSE 0

ObjectInv == ObjectTypeOK /\ References /\ ActiveJobs /\ Waited /\ Freeing

\* A new object satisfies the invariant.
LEMMA InitObjectInv ==
  ASSUME Counting, ObjectInit
  PROVE  ObjectInv
<1>1. \A v \in {"push", "count"} : At(Handlers, hpc, v) = 0
  BY NobodyThere, JobOwnerAssumption, Zenon DEF ObjectInit
<1>2. \A v \in {"release", "decrement"} : At(JobWorkers, jpc, v) = 0
  BY NobodyThere, JobOwnerAssumption, Zenon DEF ObjectInit
<1>3. Main \in Releasers /\ Handlers \subseteq Releasers /\ JobWorkers \subseteq Releasers
  BY Zenon DEF Releasers
<1>4. ObjectTypeOK
  <2>1. rc \in Nat /\ active \in Int /\ queue \in 0 .. JobQueueSize /\ freed \in Nat
    BY JobOwnerAssumption DEF ObjectInit
  <2>2. subscribed \in BOOLEAN /\ released \in BOOLEAN
    BY Zenon DEF ObjectInit
  <2> QED BY <2>1, <2>2, Zenon DEF ObjectInit, ObjectTypeOK
<1>5. References /\ ActiveJobs
  BY <1>1, <1>2 DEF ObjectInit, References, ActiveJobs
<1>6. Waited /\ Freeing
  BY <1>3, Zenon DEF ObjectInit, Waited, Freeing
<1> QED BY <1>4, <1>5, <1>6, Zenon DEF ObjectInv

\* What a step of handler h does to the counts.
LEMMA HandlerMoves ==
  ASSUME Counting, NEW h \in Handlers, hpc'[h] # hpc[h], \A g \in Handlers \ {h} : hpc'[g] = hpc[g]
  PROVE  \A u : /\ At(Handlers, hpc, u) \in Nat /\ At(Handlers, hpc', u) \in Nat
               /\ At(Handlers, hpc', u) = IF u = hpc'[h] THEN At(Handlers, hpc, u) + 1
                                     ELSE IF u = hpc[h] THEN At(Handlers, hpc, u) - 1
                                     ELSE At(Handlers, hpc, u)
<1>1. IsFiniteSet(Handlers)
  BY JobOwnerAssumption, Zenon
<1>2. /\ At(Handlers, hpc', hpc'[h]) = At(Handlers, hpc, hpc'[h]) + 1
      /\ At(Handlers, hpc', hpc[h]) = At(Handlers, hpc, hpc[h]) - 1
  BY <1>1, MoveCounts, SMTT(30)
<1>3. ASSUME NEW u
      PROVE  /\ At(Handlers, hpc, u) \in Nat /\ At(Handlers, hpc', u) \in Nat
             /\ u # hpc'[h] /\ u # hpc[h] => At(Handlers, hpc', u) = At(Handlers, hpc, u)
  BY <1>1, MoveCounts, NobodyThere, SMTT(30)
<1> QED BY <1>2, <1>3, Zenon

\* What a step of job worker j does to them.
LEMMA JobMoves ==
  ASSUME Counting, NEW j \in JobWorkers, jpc'[j] # jpc[j], \A i \in JobWorkers \ {j} : jpc'[i] = jpc[i]
  PROVE  \A u : /\ At(JobWorkers, jpc, u) \in Nat /\ At(JobWorkers, jpc', u) \in Nat
               /\ At(JobWorkers, jpc', u) = IF u = jpc'[j] THEN At(JobWorkers, jpc, u) + 1
                                     ELSE IF u = jpc[j] THEN At(JobWorkers, jpc, u) - 1
                                     ELSE At(JobWorkers, jpc, u)
<1>1. IsFiniteSet(JobWorkers)
  BY JobOwnerAssumption, Zenon
<1>2. /\ At(JobWorkers, jpc', jpc'[j]) = At(JobWorkers, jpc, jpc'[j]) + 1
      /\ At(JobWorkers, jpc', jpc[j]) = At(JobWorkers, jpc, jpc[j]) - 1
  BY <1>1, MoveCounts, SMTT(30)
<1>3. ASSUME NEW u
      PROVE  /\ At(JobWorkers, jpc, u) \in Nat /\ At(JobWorkers, jpc', u) \in Nat
             /\ u # jpc'[j] /\ u # jpc[j] => At(JobWorkers, jpc', u) = At(JobWorkers, jpc, u)
  BY <1>1, MoveCounts, NobodyThere, SMTT(30)
<1> QED BY <1>2, <1>3, Zenon

\* The threads are different ones.
LEMMA Threads3 ==
  /\ Main \in Releasers /\ Handlers \subseteq Releasers /\ JobWorkers \subseteq Releasers
  /\ \A h \in Handlers : h # Main /\ h \notin JobWorkers
  /\ \A j \in JobWorkers : j # Main /\ j \notin Handlers
BY JobOwnerAssumption, Zenon DEF Releasers

\* All counts are natural numbers.
LEMMA CountTypes ==
  ASSUME Counting
  PROVE  /\ \A v : At(Handlers, hpc, v) \in Nat
         /\ \A v : At(JobWorkers, jpc, v) \in Nat
BY JobOwnerAssumption, NobodyThere, Zenon

\* A release takes one reference; if that is the last, its thread frees the object.
LEMMA ReleaseFrees ==
  ASSUME ObjectTypeOK, NEW x \in Releasers, Release(x)
  PROVE  /\ fpc' \in [Releasers -> {"no", "unsubscribe", "handlers", "jobs", "pool", "end"}]
         /\ \A y \in Releasers : y # x => fpc'[y] = fpc[y]
         /\ fpc'[x] \in {fpc[x], "unsubscribe"}
         /\ rc' = rc - 1
<1>1. fpc \in [Releasers -> {"no", "unsubscribe", "handlers", "jobs", "pool", "end"}]
  BY Zenon DEF ObjectTypeOK
<1> QED BY <1>1, Zenon DEF Release

\* A handler that is under way, or may still be entered, holds up the free function.
LEMMA HandlerQuiet ==
  ASSUME ObjectInv, NEW h \in Handlers, hpc[h] # "idle" \/ subscribed,
         \A g \in Handlers \ {h} : hpc'[g] = hpc[g],
         UNCHANGED <<jpc, subscribed, released, freed>>,
         \A y \in Releasers \ {h} : fpc'[y] = fpc[y], fpc'[h] \in {fpc[h], "unsubscribe"},
         fpc'[h] # "no" => hpc'[h] = "leave"
  PROVE  Waited' /\ Freeing'
<1>1. \A x \in Releasers : fpc[x] \notin {"jobs", "pool", "end"}
  BY Zenon DEF ObjectInv, Waited
<1>2. \A x \in Releasers : fpc'[x] \notin {"jobs", "pool", "end"}
  BY <1>1, Zenon
<1>3. Waited'
  BY <1>2, Zenon DEF ObjectInv, Waited
<1>4. \A g \in Handlers : g \in Releasers /\ (g # h => fpc'[g] = fpc[g] /\ hpc'[g] = hpc[g])
  BY Threads3, Zenon
<1>5. \A j \in JobWorkers : fpc'[j] = fpc[j]
  BY Threads3, Zenon
<1>6. fpc'[Main] = fpc[Main]
  BY Threads3, Zenon
<1>7. \A g \in Handlers :
        fpc'[g] # "no" => hpc'[g] = "leave" /\ fpc'[g] \in {"unsubscribe", "handlers"}
  BY <1>4, Zenon DEF ObjectInv, Freeing
<1> QED BY <1>3, <1>5, <1>6, <1>7, Zenon DEF ObjectInv, Freeing

\* So does a job that is queued or has not been counted off.
LEMMA JobQuiet ==
  ASSUME ObjectInv, NEW j \in JobWorkers,
         \/ queue # 0 \/ jpc[j] \in {"release", "decrement"}
         \/ queue' = queue /\ jpc'[j] \notin {"release", "decrement"},
         \A i \in JobWorkers \ {j} : jpc'[i] = jpc[i],
         UNCHANGED <<hpc, subscribed, released, freed>>,
         \A y \in Releasers \ {j} : fpc'[y] = fpc[y], fpc'[j] \in {fpc[j], "unsubscribe"},
         fpc'[j] # "no" => jpc'[j] = "decrement"
  PROVE  Waited' /\ Freeing'
<1>1. \A x \in Releasers :
        /\ fpc'[x] \in {"handlers", "jobs", "pool", "end"} => ~subscribed'
        /\ fpc'[x] \in {"jobs", "pool", "end"} => \A h \in Handlers : hpc'[h] = "idle"
  BY Zenon DEF ObjectInv, Waited
<1>2. ASSUME NEW x \in Releasers, fpc'[x] \in {"pool", "end"}
      PROVE  queue' = 0 /\ \A i \in JobWorkers : jpc'[i] \notin {"release", "decrement"}
  <2>1. fpc[x] \in {"pool", "end"}
    BY <1>2, Zenon
  <2>2. queue = 0 /\ \A i \in JobWorkers : jpc[i] \notin {"release", "decrement"}
    BY <2>1, Zenon DEF ObjectInv, Waited
  <2>3. queue' = queue /\ jpc'[j] \notin {"release", "decrement"}
    BY <2>2, Zenon
  <2> QED BY <2>2, <2>3, Zenon
<1>3. \A i \in JobWorkers : i # j => fpc'[i] = fpc[i] /\ jpc'[i] = jpc[i]
  BY Threads3, Zenon
<1>4. \A h \in Handlers : fpc'[h] = fpc[h]
  BY Threads3, Zenon
<1>5. fpc'[Main] = fpc[Main]
  BY Threads3, Zenon
<1>6. \A i \in JobWorkers :
        fpc'[i] # "no" => jpc'[i] = "decrement" /\ fpc'[i] \in {"unsubscribe", "handlers", "jobs"}
  BY <1>3, Zenon DEF ObjectInv, Freeing
<1>7. Waited'
  BY <1>1, <1>2, Zenon DEF Waited
<1> QED BY <1>4, <1>5, <1>6, <1>7, Zenon DEF ObjectInv, Freeing

\* The types, without the functions of a step that changes one of them.
LEMMA TypeFacts ==
  ASSUME ObjectInv
  PROVE  /\ rc \in Nat /\ active \in Int /\ queue \in Nat /\ queue <= JobQueueSize /\ freed \in Nat
         /\ hpc \in [Handlers -> {"idle", "retain", "push", "count", "leave"}]
         /\ jpc \in [JobWorkers -> {"idle", "release", "decrement", "end"}]
         /\ fpc \in [Releasers -> {"no", "unsubscribe", "handlers", "jobs", "pool", "end"}]
         /\ (IF released THEN 0 ELSE 1) \in {0, 1}
BY JobOwnerAssumption DEF ObjectInv, ObjectTypeOK

One(b) == IF b THEN 1 ELSE 0

\* A step of a handler that keeps the accounts.
LEMMA HandlerAccounts ==
  ASSUME Counting, ObjectInv, NEW h \in Handlers, NEW v \in {"idle", "retain", "push", "count", "leave"},
         hpc[h] # v, hpc' = [hpc EXCEPT ![h] = v], hpc[h] # "idle" \/ subscribed,
         UNCHANGED <<jpc, subscribed, released, freed>>,
         fpc' \in [Releasers -> {"no", "unsubscribe", "handlers", "jobs", "pool", "end"}],
         \A y \in Releasers \ {h} : fpc'[y] = fpc[y], fpc'[h] \in {fpc[h], "unsubscribe"},
         fpc'[h] # "no" => v = "leave",
         queue' \in 0 .. JobQueueSize,
         rc' = rc + (queue' - queue) + One(v = "push") - One(hpc[h] = "push"),
         active' = active + (queue' - queue) - One(v = "count") + One(hpc[h] = "count")
  PROVE  ObjectInv'
<1>0. /\ rc \in Nat /\ active \in Int /\ queue \in Nat /\ freed \in Nat
      /\ (IF released THEN 0 ELSE 1) \in {0, 1}
      /\ hpc \in [Handlers -> {"idle", "retain", "push", "count", "leave"}]
  BY TypeFacts, Zenon
<1>1. /\ hpc' \in [Handlers -> {"idle", "retain", "push", "count", "leave"}]
      /\ hpc'[h] = v /\ \A g \in Handlers \ {h} : hpc'[g] = hpc[g]
  BY <1>0, Zenon
<1>2. \A u : /\ At(Handlers, hpc, u) \in Nat
             /\ At(Handlers, hpc', u) \in Nat
             /\ At(Handlers, hpc', u) = IF u = v THEN At(Handlers, hpc, u) + 1
                                        ELSE IF u = hpc[h] THEN At(Handlers, hpc, u) - 1
                                        ELSE At(Handlers, hpc, u)
  <2>1. hpc'[h] # hpc[h]
    BY <1>1, Zenon
  <2> QED BY <1>1, <2>1, HandlerMoves, Zenon
<1>3. PICK P, Q, P1, Q1 \in Nat :
        /\ P = At(Handlers, hpc, "push") /\ P1 = At(Handlers, hpc', "push")
        /\ Q = At(Handlers, hpc, "count") /\ Q1 = At(Handlers, hpc', "count")
  BY <1>2, Zenon
<1>4. /\ P1 = P + One(v = "push") - One(hpc[h] = "push")
      /\ Q1 = Q + One(v = "count") - One(hpc[h] = "count")
  <2>1. /\ P1 = IF v = "push" THEN P + 1 ELSE IF hpc[h] = "push" THEN P - 1 ELSE P
        /\ Q1 = IF v = "count" THEN Q + 1 ELSE IF hpc[h] = "count" THEN Q - 1 ELSE Q
    BY <1>2, <1>3, Zenon
  <2> QED BY <1>3, <2>1 DEF One
<1>5. PICK R \in Nat, D \in Nat : R = At(JobWorkers, jpc, "release") /\ D = At(JobWorkers, jpc, "decrement")
  BY CountTypes, Zenon
<1>6. /\ rc = (IF released THEN 0 ELSE 1) + P + queue + R
      /\ active = queue + R + D - Q
  BY <1>3, <1>5, Zenon DEF ObjectInv, References, ActiveJobs
<1>7. /\ One(v = "push") \in Int /\ One(hpc[h] = "push") \in Int /\ One(v = "count") \in Int
      /\ One(hpc[h] = "count") \in Int /\ queue' \in Nat
  BY JobOwnerAssumption DEF One
<1>8. /\ rc' = (IF released THEN 0 ELSE 1) + P1 + queue' + R
      /\ active' = queue' + R + D - Q1
      /\ rc' \in Nat /\ active' \in Int
  <2> HIDE DEF One
  <2>1. rc' = (IF released THEN 0 ELSE 1) + P1 + queue' + R
    BY <1>0, <1>3, <1>4, <1>5, <1>6, <1>7, SMTT(40)
  <2>2. active' = queue' + R + D - Q1
    BY <1>0, <1>3, <1>4, <1>5, <1>6, <1>7, SMTT(40)
  <2>3. rc' \in Nat /\ active' \in Int
    BY <1>0, <1>3, <1>5, <1>7, <2>1, <2>2, SMTT(40)
  <2> QED BY <2>1, <2>2, <2>3, Zenon
<1>9. References' /\ ActiveJobs'
  BY <1>3, <1>5, <1>8, Zenon DEF References, ActiveJobs
<1>10. ObjectTypeOK'
  BY <1>1, <1>8, Zenon DEF ObjectInv, ObjectTypeOK
<1>11. Waited' /\ Freeing'
  BY <1>1, HandlerQuiet, Zenon
<1> QED BY <1>9, <1>10, <1>11, Zenon DEF ObjectInv

\* The steps of a handler.
LEMMA HandlerObjectInv ==
  ASSUME Counting, ObjectInv, NEW h \in Handlers, HandlerEnter(h) \/ HandlerStep(h)
  PROVE  ObjectInv'
<1>0. /\ rc \in Nat /\ active \in Int /\ queue \in Nat /\ queue <= JobQueueSize
      /\ fpc \in [Releasers -> {"no", "unsubscribe", "handlers", "jobs", "pool", "end"}]
      /\ h \in Releasers /\ JobQueueSize \in Nat
  BY TypeFacts, Threads3, JobOwnerAssumption, Zenon
<1>1. hpc[h] # "leave" => fpc[h] = "no"
  BY Zenon DEF ObjectInv, Freeing
<1>2. CASE HandlerEnter(h)
  <2>1. /\ hpc[h] = "idle" /\ hpc' = [hpc EXCEPT ![h] = "retain"] /\ subscribed
        /\ UNCHANGED <<rc, active, queue, fpc, jpc, subscribed, released, freed>>
    BY <1>2, Zenon DEF HandlerEnter
  <2>2. /\ rc' = rc + (queue' - queue) + One("retain" = "push") - One(hpc[h] = "push")
        /\ active' = active + (queue' - queue) - One("retain" = "count") + One(hpc[h] = "count")
        /\ queue' \in 0 .. JobQueueSize
    BY <1>0, <2>1 DEF One
  <2> QED BY <1>0, <1>1, <2>1, <2>2, HandlerAccounts, Zenon
<1>3. CASE Retain(h)
  <2>1. /\ hpc[h] = "retain" /\ hpc' = [hpc EXCEPT ![h] = "push"] /\ rc' = rc + 1
        /\ UNCHANGED <<active, queue, fpc, jpc, subscribed, released, freed>>
    BY <1>3, Zenon DEF Retain
  <2>2. /\ rc' = rc + (queue' - queue) + One("push" = "push") - One(hpc[h] = "push")
        /\ active' = active + (queue' - queue) - One("push" = "count") + One(hpc[h] = "count")
        /\ queue' \in 0 .. JobQueueSize
    BY <1>0, <2>1 DEF One
  <2> QED BY <1>0, <1>1, <2>1, <2>2, HandlerAccounts, Zenon
<1>4. CASE PushJob(h)
  <2>1. /\ hpc[h] = "push" /\ hpc' = [hpc EXCEPT ![h] = "count"]
        /\ queue < JobQueueSize /\ queue' = queue + 1
        /\ UNCHANGED <<rc, active, fpc, jpc, subscribed, released, freed>>
    BY <1>4, Zenon DEF PushJob
  <2>2. /\ rc' = rc + (queue' - queue) + One("count" = "push") - One(hpc[h] = "push")
        /\ active' = active + (queue' - queue) - One("count" = "count") + One(hpc[h] = "count")
        /\ queue' \in 0 .. JobQueueSize
    BY <1>0, <2>1 DEF One
  <2> QED BY <1>0, <1>1, <2>1, <2>2, HandlerAccounts, Zenon
<1>5. CASE PushJobFail(h)
  <2>1. /\ hpc[h] = "push" /\ hpc' = [hpc EXCEPT ![h] = "leave"] /\ Release(h)
        /\ UNCHANGED <<active, queue, jpc, subscribed, released, freed>>
    BY <1>5, Zenon DEF PushJobFail
  <2>2. /\ fpc' \in [Releasers -> {"no", "unsubscribe", "handlers", "jobs", "pool", "end"}]
        /\ \A y \in Releasers \ {h} : fpc'[y] = fpc[y]
        /\ fpc'[h] \in {fpc[h], "unsubscribe"} /\ rc' = rc - 1
    BY <1>0, <2>1, ReleaseFrees, Zenon DEF ObjectInv
  <2>3. /\ rc' = rc + (queue' - queue) + One("leave" = "push") - One(hpc[h] = "push")
        /\ active' = active + (queue' - queue) - One("leave" = "count") + One(hpc[h] = "count")
        /\ queue' \in 0 .. JobQueueSize
    BY <1>0, <2>1, <2>2 DEF One
  <2> QED BY <2>1, <2>2, <2>3, HandlerAccounts, Zenon
<1>6. CASE CountJob(h)
  <2>1. /\ hpc[h] = "count" /\ hpc' = [hpc EXCEPT ![h] = "leave"] /\ active' = active + 1
        /\ UNCHANGED <<rc, queue, fpc, jpc, subscribed, released, freed>>
    BY <1>6, Zenon DEF CountJob
  <2>2. /\ rc' = rc + (queue' - queue) + One("leave" = "push") - One(hpc[h] = "push")
        /\ active' = active + (queue' - queue) - One("leave" = "count") + One(hpc[h] = "count")
        /\ queue' \in 0 .. JobQueueSize
    BY <1>0, <2>1 DEF One
  <2> QED BY <1>0, <1>1, <2>1, <2>2, HandlerAccounts, Zenon
<1>7. CASE HandlerLeave(h)
  <2>1. /\ hpc[h] = "leave" /\ hpc' = [hpc EXCEPT ![h] = "idle"] /\ fpc[h] \in {"no", "end"}
        /\ UNCHANGED <<rc, active, queue, fpc, jpc, subscribed, released, freed>>
    BY <1>7, Zenon DEF HandlerLeave, NotFreeing
  <2>2. fpc[h] = "no"
    BY <2>1, Zenon DEF ObjectInv, Freeing
  <2>3. /\ rc' = rc + (queue' - queue) + One("idle" = "push") - One(hpc[h] = "push")
        /\ active' = active + (queue' - queue) - One("idle" = "count") + One(hpc[h] = "count")
        /\ queue' \in 0 .. JobQueueSize
    BY <1>0, <2>1 DEF One
  <2> QED BY <1>0, <2>1, <2>2, <2>3, HandlerAccounts, Zenon
<1> QED BY <1>2, <1>3, <1>4, <1>5, <1>6, <1>7, Zenon DEF HandlerStep

\* What a job's move from step w to step v does to the counters.
JobMove(w, v) ==
  /\ queue' \in Nat
  /\ At(JobWorkers, jpc', "release") \in Nat /\ At(JobWorkers, jpc', "decrement") \in Nat
  /\ At(JobWorkers, jpc', "release")
       = At(JobWorkers, jpc, "release") + One(v = "release") - One(w = "release")
  /\ At(JobWorkers, jpc', "decrement")
       = At(JobWorkers, jpc, "decrement") + One(v = "decrement") - One(w = "decrement")
  /\ rc' = rc + (queue' - queue) + One(v = "release") - One(w = "release")
  /\ active' = active + (queue' - queue) + One(v = "release") - One(w = "release")
                 + One(v = "decrement") - One(w = "decrement")

\* The sums of the two accounts when a job moves.
LEMMA JobSums ==
  ASSUME Counting, ObjectInv, NEW w, NEW v, JobMove(w, v)
  PROVE  /\ rc' = (IF released THEN 0 ELSE 1) + At(Handlers, hpc, "push") + queue'
                    + At(JobWorkers, jpc', "release")
         /\ active' = queue' + At(JobWorkers, jpc', "release")
                        + At(JobWorkers, jpc', "decrement") - At(Handlers, hpc, "count")
         /\ rc' \in Nat /\ active' \in Int
<1>1. PICK m \in {0, 1} : m = IF released THEN 0 ELSE 1
  BY TypeFacts, Zenon
<1>2. PICK a, b, c, d \in {0, 1} : /\ a = One(v = "release") /\ b = One(w = "release")
                                  /\ c = One(v = "decrement") /\ d = One(w = "decrement")
  BY Zenon DEF One
<1>3. PICK P, Q, R, D \in Nat :
        /\ P = At(Handlers, hpc, "push") /\ Q = At(Handlers, hpc, "count")
        /\ R = At(JobWorkers, jpc, "release") /\ D = At(JobWorkers, jpc, "decrement")
  BY CountTypes, Zenon
<1>4. PICK R1, D1, q1 \in Nat :
        /\ R1 = At(JobWorkers, jpc', "release") /\ D1 = At(JobWorkers, jpc', "decrement")
        /\ q1 = queue'
  BY Zenon DEF JobMove
<1>5. rc = m + P + queue + R /\ active = queue + R + D - Q
  BY <1>1, <1>3, Zenon DEF ObjectInv, References, ActiveJobs
<1>6. /\ R1 = R + a - b /\ D1 = D + c - d
      /\ rc' = rc + (q1 - queue) + a - b
      /\ active' = active + (q1 - queue) + a - b + c - d
  BY <1>2, <1>3, <1>4, Zenon DEF JobMove
<1>7. queue \in Nat
  BY TypeFacts, Zenon
<1>8. rc' = m + P + q1 + R1 /\ active' = q1 + R1 + D1 - Q
  BY <1>5, <1>6, <1>7
<1>9. rc' \in Nat /\ active' \in Int
  BY <1>8
<1> QED BY <1>1, <1>3, <1>4, <1>8, <1>9, Zenon

\* A sum of naturals is zero when each is.
LEMMA NoJobs ==
  ASSUME NEW q \in Nat, NEW R \in Nat, NEW D \in Nat, 0 = q + R + D - 0
  PROVE  q = 0 /\ R = 0 /\ D = 0
OBVIOUS

\* A step of a job that keeps the accounts.
LEMMA JobAccounts ==
  ASSUME Counting, ObjectInv, NEW j \in JobWorkers, NEW v \in {"idle", "release", "decrement", "end"},
         jpc[j] # v, jpc' = [jpc EXCEPT ![j] = v],
         \/ queue # 0 \/ jpc[j] \in {"release", "decrement"}
         \/ queue' = queue /\ v \notin {"release", "decrement"},
         UNCHANGED <<hpc, subscribed, released, freed>>,
         fpc' \in [Releasers -> {"no", "unsubscribe", "handlers", "jobs", "pool", "end"}],
         \A y \in Releasers \ {j} : fpc'[y] = fpc[y], fpc'[j] \in {fpc[j], "unsubscribe"},
         fpc'[j] # "no" => v = "decrement",
         queue' \in 0 .. JobQueueSize,
         rc' = rc + (queue' - queue) + One(v = "release") - One(jpc[j] = "release"),
         active' = active + (queue' - queue) + One(v = "release") - One(jpc[j] = "release")
                     + One(v = "decrement") - One(jpc[j] = "decrement")
  PROVE  ObjectInv'
<1>0. /\ rc \in Nat /\ active \in Int /\ queue \in Nat /\ freed \in Nat
      /\ (IF released THEN 0 ELSE 1) \in {0, 1}
      /\ jpc \in [JobWorkers -> {"idle", "release", "decrement", "end"}]
  BY TypeFacts, Zenon
<1>1. /\ jpc' \in [JobWorkers -> {"idle", "release", "decrement", "end"}]
      /\ jpc'[j] = v /\ \A i \in JobWorkers \ {j} : jpc'[i] = jpc[i]
  BY <1>0, Zenon
<1>2. \A u : /\ At(JobWorkers, jpc, u) \in Nat
             /\ At(JobWorkers, jpc', u) \in Nat
             /\ At(JobWorkers, jpc', u) = IF u = v THEN At(JobWorkers, jpc, u) + 1
                                          ELSE IF u = jpc[j] THEN At(JobWorkers, jpc, u) - 1
                                          ELSE At(JobWorkers, jpc, u)
  <2>1. jpc'[j] # jpc[j]
    BY <1>1, Zenon
  <2> QED BY <1>1, <2>1, JobMoves, Zenon
<1>3. PICK R, D, R1, D1 \in Nat :
        /\ R = At(JobWorkers, jpc, "release") /\ R1 = At(JobWorkers, jpc', "release")
        /\ D = At(JobWorkers, jpc, "decrement") /\ D1 = At(JobWorkers, jpc', "decrement")
  BY <1>2, Zenon
<1>4. /\ R1 = R + One(v = "release") - One(jpc[j] = "release")
      /\ D1 = D + One(v = "decrement") - One(jpc[j] = "decrement")
  <2>1. /\ R1 = IF v = "release" THEN R + 1 ELSE IF jpc[j] = "release" THEN R - 1 ELSE R
        /\ D1 = IF v = "decrement" THEN D + 1 ELSE IF jpc[j] = "decrement" THEN D - 1 ELSE D
    BY <1>2, <1>3, Zenon
  <2> QED BY <1>3, <2>1, SMTT(30) DEF One
<1>5. PICK P \in Nat, Q \in Nat : P = At(Handlers, hpc, "push") /\ Q = At(Handlers, hpc, "count")
  BY CountTypes, Zenon
<1>6. /\ rc = (IF released THEN 0 ELSE 1) + P + queue + R
      /\ active = queue + R + D - Q
  BY <1>3, <1>5, Zenon DEF ObjectInv, References, ActiveJobs
<1>7. /\ One(v = "release") \in Int /\ One(jpc[j] = "release") \in Int
      /\ One(v = "decrement") \in Int /\ One(jpc[j] = "decrement") \in Int /\ queue' \in Nat
  BY JobOwnerAssumption, SMTT(30) DEF One
<1>8. /\ rc' = (IF released THEN 0 ELSE 1) + P + queue' + R1
      /\ active' = queue' + R1 + D1 - Q
      /\ rc' \in Nat /\ active' \in Int
  <2>1. JobMove(jpc[j], v)
    BY <1>3, <1>4, <1>7, Zenon DEF JobMove
  <2> QED BY <1>3, <1>5, <2>1, JobSums, Zenon
<1>9. References' /\ ActiveJobs'
  BY <1>3, <1>5, <1>8, Zenon DEF References, ActiveJobs
<1>10. ObjectTypeOK'
  BY <1>1, <1>8, Zenon DEF ObjectInv, ObjectTypeOK
<1>11. Waited' /\ Freeing'
  BY <1>1, JobQuiet, Zenon
<1> QED BY <1>9, <1>10, <1>11, Zenon DEF ObjectInv

\* The steps of a job whose release comes before it is counted off.
LEMMA JobObjectInv ==
  ASSUME Counting, ObjectInv, ~DecrementFirst, NEW j \in JobWorkers, JobStep(j)
  PROVE  ObjectInv'
<1>0. /\ rc \in Nat /\ active \in Int /\ queue \in Nat /\ queue <= JobQueueSize
      /\ fpc \in [Releasers -> {"no", "unsubscribe", "handlers", "jobs", "pool", "end"}]
      /\ j \in Releasers /\ JobQueueSize \in Nat
  BY TypeFacts, Threads3, JobOwnerAssumption, Zenon
<1>1. jpc[j] # "decrement" \/ fpc[j] \in {"no", "end"} => fpc[j] = "no"
  BY Zenon DEF ObjectInv, Freeing
<1>2. CASE Take(j)
  <2>1. /\ jpc[j] = "idle" /\ jpc' = [jpc EXCEPT ![j] = "release"]
        /\ queue > 0 /\ queue' = queue - 1
        /\ UNCHANGED <<rc, active, fpc, hpc, subscribed, released, freed>>
    BY <1>2, Zenon DEF Take
  <2>2. /\ rc' = rc + (queue' - queue) + One("release" = "release") - One(jpc[j] = "release")
        /\ active' = active + (queue' - queue) + One("release" = "release") - One(jpc[j] = "release")
                       + One("release" = "decrement") - One(jpc[j] = "decrement")
        /\ queue' \in 0 .. JobQueueSize /\ queue # 0
    BY <1>0, <2>1 DEF One
  <2> QED BY <1>0, <1>1, <2>1, <2>2, JobAccounts, Zenon
<1>3. CASE JobRelease(j)
  <2>1. /\ jpc[j] = "release" /\ jpc' = [jpc EXCEPT ![j] = "decrement"] /\ Release(j)
        /\ UNCHANGED <<active, queue, hpc, subscribed, released, freed>>
    BY <1>3, Zenon DEF JobRelease
  <2>2. /\ fpc' \in [Releasers -> {"no", "unsubscribe", "handlers", "jobs", "pool", "end"}]
        /\ \A y \in Releasers \ {j} : fpc'[y] = fpc[y]
        /\ fpc'[j] \in {fpc[j], "unsubscribe"} /\ rc' = rc - 1
    BY <1>0, <2>1, ReleaseFrees, Zenon DEF ObjectInv
  <2>3. /\ rc' = rc + (queue' - queue) + One("decrement" = "release") - One(jpc[j] = "release")
        /\ active' = active + (queue' - queue) + One("decrement" = "release") - One(jpc[j] = "release")
                       + One("decrement" = "decrement") - One(jpc[j] = "decrement")
        /\ queue' \in 0 .. JobQueueSize
    BY <1>0, <2>1, <2>2 DEF One
  <2> QED BY <2>1, <2>2, <2>3, JobAccounts, Zenon
<1>4. CASE JobDecrement(j)
  <2>1. /\ jpc[j] = "decrement" /\ jpc' = [jpc EXCEPT ![j] = "end"] /\ active' = active - 1
        /\ fpc[j] \in {"no", "end"}
        /\ UNCHANGED <<rc, queue, fpc, hpc, subscribed, released, freed>>
    BY <1>4, Zenon DEF JobDecrement, NotFreeing
  <2>2. /\ rc' = rc + (queue' - queue) + One("end" = "release") - One(jpc[j] = "release")
        /\ active' = active + (queue' - queue) + One("end" = "release") - One(jpc[j] = "release")
                       + One("end" = "decrement") - One(jpc[j] = "decrement")
        /\ queue' \in 0 .. JobQueueSize
    BY <1>0, <2>1 DEF One
  <2> QED BY <1>0, <1>1, <2>1, <2>2, JobAccounts, Zenon
<1>5. CASE JobEnd(j)
  <2>1. /\ jpc[j] = "end" /\ jpc' = [jpc EXCEPT ![j] = "idle"]
        /\ UNCHANGED <<rc, active, queue, fpc, hpc, subscribed, released, freed>>
    BY <1>5, Zenon DEF JobEnd
  <2>2. /\ rc' = rc + (queue' - queue) + One("idle" = "release") - One(jpc[j] = "release")
        /\ active' = active + (queue' - queue) + One("idle" = "release") - One(jpc[j] = "release")
                       + One("idle" = "decrement") - One(jpc[j] = "decrement")
        /\ queue' \in 0 .. JobQueueSize
    BY <1>0, <2>1 DEF One
  <2> QED BY <1>0, <1>1, <2>1, <2>2, JobAccounts, Zenon
<1> QED BY <1>2, <1>3, <1>4, <1>5, Zenon DEF JobStep

\* The owner's release.
LEMMA MainObjectInv ==
  ASSUME Counting, ObjectInv, MainRelease
  PROVE  ObjectInv'
<1>1. /\ ~released /\ released' = TRUE /\ Release(Main)
      /\ UNCHANGED <<active, subscribed, hpc, queue, jpc, freed>>
  BY Zenon DEF MainRelease
<1>2. /\ fpc' \in [Releasers -> {"no", "unsubscribe", "handlers", "jobs", "pool", "end"}]
      /\ \A y \in Releasers : y # Main => fpc'[y] = fpc[y]
      /\ fpc'[Main] \in {fpc[Main], "unsubscribe"} /\ rc' = rc - 1
  BY <1>1, Threads3, ReleaseFrees, Zenon DEF ObjectInv
<1>3. fpc[Main] = "no"
  BY <1>1, Zenon DEF ObjectInv, Freeing
<1>4. PICK P \in Nat, R \in Nat : P = At(Handlers, hpc, "push") /\ R = At(JobWorkers, jpc, "release")
  BY CountTypes, Zenon
<1>5. rc = 1 + P + queue + R /\ queue \in Nat
  BY <1>1, <1>4, TypeFacts, Zenon DEF ObjectInv, References
<1>6. rc' = 0 + P + queue + R /\ rc' \in Nat
  BY <1>2, <1>4, <1>5
<1>7. References' /\ ActiveJobs'
  BY <1>1, <1>4, <1>6, Zenon DEF ObjectInv, References, ActiveJobs
<1>8. ObjectTypeOK'
  BY <1>1, <1>2, <1>6, Zenon DEF ObjectInv, ObjectTypeOK
<1>9. Waited'
  BY <1>1, <1>2, <1>3, Zenon DEF ObjectInv, Waited
<1>10. Freeing'
  BY <1>1, <1>2, <1>3, Threads3, Zenon DEF ObjectInv, Freeing
<1> QED BY <1>7, <1>8, <1>9, <1>10, Zenon DEF ObjectInv

\* The steps of the free function: a thread that waits for itself does not go on.
LEMMA FreeObjectInv ==
  ASSUME Counting, ObjectInv, NEW x \in Releasers, FreeStep(x)
  PROVE  ObjectInv'
<1>0. /\ fpc \in [Releasers -> {"no", "unsubscribe", "handlers", "jobs", "pool", "end"}]
      /\ active \in Int /\ queue \in Nat /\ freed \in Nat
      /\ hpc \in [Handlers -> {"idle", "retain", "push", "count", "leave"}]
  BY TypeFacts, Zenon
<1>1. /\ UNCHANGED <<rc, active, queue, hpc, jpc, released>> /\ fpc[x] # "no"
      /\ \/ fpc[x] = "unsubscribe" /\ fpc' = [fpc EXCEPT ![x] = "handlers"]
         \/ fpc[x] = "handlers" /\ fpc' = [fpc EXCEPT ![x] = "jobs"]
         \/ fpc[x] = "jobs" /\ fpc' = [fpc EXCEPT ![x] = "pool"]
         \/ fpc[x] = "pool" /\ fpc' = [fpc EXCEPT ![x] = "end"]
      /\ fpc'[x] = "handlers" => subscribed' = FALSE
      /\ fpc'[x] # "handlers" => subscribed' = subscribed
      /\ fpc'[x] = "jobs" => \A h \in Handlers : hpc[h] = "idle"
      /\ fpc'[x] = "pool" => active = 0
      /\ freed' = IF fpc'[x] = "end" THEN freed + 1 ELSE freed
  BY <1>0, Zenon DEF FreeStep, UnsubscribeObject, HandlersLeft, JobsDone, FreeObject
<1>2. /\ fpc' \in [Releasers -> {"no", "unsubscribe", "handlers", "jobs", "pool", "end"}]
      /\ \A y \in Releasers : y # x => fpc'[y] = fpc[y]
      /\ \/ fpc[x] = "unsubscribe" /\ fpc'[x] = "handlers"
         \/ fpc[x] = "handlers" /\ fpc'[x] = "jobs"
         \/ fpc[x] = "jobs" /\ fpc'[x] = "pool"
         \/ fpc[x] = "pool" /\ fpc'[x] = "end"
  BY <1>0, <1>1, Zenon
<1>3. subscribed' \in {FALSE, subscribed}
  BY <1>1, Zenon
<1>4. ASSUME fpc[x] = "jobs", active = 0
      PROVE  queue = 0 /\ \A j \in JobWorkers : jpc[j] \notin {"release", "decrement"}
  <2>1. \A h \in Handlers : hpc[h] = "idle"
    BY <1>4, Zenon DEF ObjectInv, Waited
  <2>2. At(Handlers, hpc, "count") = 0
    BY <2>1, NobodyThere, JobOwnerAssumption, Zenon
  <2>3. PICK R \in Nat, D \in Nat :
          R = At(JobWorkers, jpc, "release") /\ D = At(JobWorkers, jpc, "decrement")
    BY CountTypes, Zenon
  <2>4. 0 = queue + R + D - 0
    BY <1>4, <2>2, <2>3, Zenon DEF ObjectInv, ActiveJobs
  <2>5. queue = 0 /\ R = 0 /\ D = 0
    <3>1. queue \in Nat
      BY <1>0, Zenon
    <3> QED BY <2>3, <2>4, <3>1, NoJobs, ZenonT(40)
  <2>6. At(JobWorkers, jpc, "release") = 0 /\ At(JobWorkers, jpc, "decrement") = 0 /\ IsFiniteSet(JobWorkers)
    BY <2>3, <2>5, JobOwnerAssumption, Zenon
  <2> QED BY <2>5, <2>6, NobodyThere, Zenon
<1>5. Waited'
  <2>1. ASSUME NEW y \in Releasers
        PROVE  /\ fpc'[y] \in {"handlers", "jobs", "pool", "end"} => ~subscribed'
               /\ fpc'[y] \in {"jobs", "pool", "end"} => \A h \in Handlers : hpc[h] = "idle"
    <3>0. /\ fpc[y] \in {"handlers", "jobs", "pool", "end"} => ~subscribed
          /\ fpc[y] \in {"jobs", "pool", "end"} => \A h \in Handlers : hpc[h] = "idle"
      BY Zenon DEF ObjectInv, Waited
    <3>5. ~subscribed => ~subscribed'
      BY <1>3, Zenon
    <3>1. CASE y # x
      BY <1>2, <3>0, <3>1, <3>5, Zenon
    <3>2. CASE y = x /\ fpc'[x] = "handlers"
      BY <1>1, <3>2, Zenon
    <3>3. CASE y = x /\ fpc'[x] = "jobs"
      <4>1. fpc[x] = "handlers" /\ \A h \in Handlers : hpc[h] = "idle"
        BY <1>1, <1>2, <3>3, Zenon
      <4> QED BY <3>0, <3>3, <3>5, <4>1, Zenon
    <3>4. CASE y = x /\ fpc'[x] \in {"pool", "end"}
      <4>1. fpc[x] \in {"jobs", "pool"}
        BY <1>2, <3>4, Zenon
      <4> QED BY <3>0, <3>4, <3>5, <4>1, Zenon
    <3> QED BY <1>2, <3>1, <3>2, <3>3, <3>4, Zenon
  <2>2. ASSUME NEW y \in Releasers, fpc'[y] \in {"pool", "end"}
        PROVE  queue = 0 /\ \A j \in JobWorkers : jpc[j] \notin {"release", "decrement"}
    <3>1. CASE y # x
      BY <1>2, <2>2, <3>1, Zenon DEF ObjectInv, Waited
    <3>2. CASE y = x /\ fpc'[x] = "end"
      BY <1>2, <3>2, Zenon DEF ObjectInv, Waited
    <3>3. CASE y = x /\ fpc'[x] = "pool"
      BY <1>1, <1>2, <1>4, <3>3, Zenon
    <3> QED BY <2>2, <3>1, <3>2, <3>3, Zenon
  <2> QED BY <1>1, <2>1, <2>2, Zenon DEF Waited
<1>6. ASSUME NEW h \in Handlers, x = h PROVE fpc'[h] = "handlers" /\ hpc[h] = "leave"
  <2>1. hpc[h] = "leave" /\ fpc[h] \in {"unsubscribe", "handlers"}
    BY <1>1, <1>6, Zenon DEF ObjectInv, Freeing
  <2> QED BY <1>1, <1>2, <1>6, <2>1, Zenon
<1>7. ASSUME NEW j \in JobWorkers, x = j
      PROVE  jpc[j] = "decrement" /\ fpc'[j] \in {"handlers", "jobs"}
  <2>1. jpc[j] = "decrement" /\ fpc[j] \in {"unsubscribe", "handlers", "jobs"}
    BY <1>1, <1>7, Zenon DEF ObjectInv, Freeing
  <2> QED BY <1>1, <1>2, <1>4, <1>7, <2>1, Zenon
<1>8. Freeing'
  <2>1. \A h \in Handlers :
          fpc'[h] # "no" => hpc[h] = "leave" /\ fpc'[h] \in {"unsubscribe", "handlers"}
    BY <1>2, <1>6, Threads3, Zenon DEF ObjectInv, Freeing
  <2>2. \A j \in JobWorkers :
          fpc'[j] # "no" => jpc[j] = "decrement" /\ fpc'[j] \in {"unsubscribe", "handlers", "jobs"}
    BY <1>2, <1>7, Threads3, Zenon DEF ObjectInv, Freeing
  <2>3. (fpc'[Main] # "no" => released) /\ freed' = IF fpc'[Main] = "end" THEN 1 ELSE 0
    <3>1. CASE x = Main
      <4>1. released /\ freed = 0
        BY <1>1, <3>1, Zenon DEF ObjectInv, Freeing
      <4> QED BY <1>1, <3>1, <4>1
    <3>2. CASE x # Main
      <4>1. fpc'[x] # "end"
        BY <1>6, <1>7, <3>2, Zenon DEF Releasers
      <4>2. freed' = freed /\ fpc'[Main] = fpc[Main]
        BY <1>1, <1>2, <3>2, <4>1, Threads3, Zenon
      <4> QED BY <4>2, Zenon DEF ObjectInv, Freeing
    <3> QED BY <3>1, <3>2, Zenon
  <2> QED BY <1>1, <2>1, <2>2, <2>3, Zenon DEF Freeing
<1>9. ObjectTypeOK'
  <2>1. freed' \in Nat /\ subscribed' \in BOOLEAN
    <3>1. freed' \in Nat
      BY <1>0, <1>1
    <3> QED BY <1>3, <3>1, Zenon DEF ObjectInv, ObjectTypeOK
  <2> QED BY <1>1, <1>2, <2>1, Zenon DEF ObjectInv, ObjectTypeOK
<1>10. References' /\ ActiveJobs'
  BY <1>1, Zenon DEF ObjectInv, References, ActiveJobs
<1> QED BY <1>5, <1>8, <1>9, <1>10, Zenon DEF ObjectInv

\* Every step keeps the accounts of an object whose jobs release it before they are
\* counted off.
LEMMA NextObjectInv ==
  ASSUME Counting, ~DecrementFirst, ObjectInv, [ObjectNext]_objectVars
  PROVE  ObjectInv'
<1>1. CASE UNCHANGED objectVars
  BY <1>1, Zenon
     DEF objectVars, ObjectInv, ObjectTypeOK, References, ActiveJobs, Waited, Freeing
<1>2. CASE ObjectNext
  BY <1>2, MainObjectInv, HandlerObjectInv, JobObjectInv, FreeObjectInv, Zenon
     DEF ObjectNext
<1> QED BY <1>1, <1>2, Zenon

-----------------------------------------------------------------------------
(* The facts about finite sets, and the theorems that need them.           *)
INSTANCE FiniteSetTheorems

\* What the lemmas above assume of finite sets.
LEMMA LibraryCounts == Counting
<1>1. ASSUME NEW S, IsFiniteSet(S)
      PROVE  /\ Cardinality(S) \in Nat
             /\ \A T \in SUBSET S : IsFiniteSet(T)
             /\ \A x : /\ x \notin S => Cardinality(S \cup {x}) = Cardinality(S) + 1
                       /\ x \in S => Cardinality(S \ {x}) = Cardinality(S) - 1
  BY <1>1, FS_CardinalityType, FS_Subset, FS_AddElement, FS_RemoveElement, Zenon
<1> QED BY <1>1, FS_EmptySet, Zenon DEF Counting

\* A consumer that has read the eventfd finds an item, for every capacity and any
\* number of threads: _mdv_queue_pop_one never fails after its token is spent.
THEOREM QueuefdEveryTokenHasItem == Spec => []EveryTokenHasItem
<1>1. ASSUME IInv PROVE EveryTokenHasItem
  <2> DEFINE S == {p \in Producers : pc[p] = "signal"}
  <2>1. Cardinality(rmutex) = Busy
    <3>1. CASE rmutex = {}
      BY <3>1, FS_EmptySet, Zenon DEF Busy
    <3>2. CASE rmutex # {}
      <4>1. PICK c : rmutex = {c}
        BY <1>1, <3>2, Zenon DEF IInv, TypeOK
      <4> QED BY <3>2, <4>1, FS_Singleton, Zenon DEF Busy
    <3> QED BY <3>1, <3>2, Zenon
  <2>2. Cardinality(S) = Signalling
    <3>1. CASE S = {}
      BY <3>1, FS_EmptySet, Zenon DEF Signalling
    <3>2. CASE S # {}
      <4>1. PICK p \in Producers : pc[p] = "signal"
        BY <3>2, Zenon
      <4>2. S = {p}
        BY <1>1, <4>1 DEF IInv, Locks
      <4>3. Cardinality({p}) = 1
        BY FS_Singleton, Zenon
      <4> QED BY <4>1, <4>2, <4>3, Zenon DEF Signalling
    <3> QED BY <3>1, <3>2, Zenon
  <2> QED BY <1>1, <2>1, <2>2, Zenon DEF IInv, Tokens, EveryTokenHasItem
<1> QED BY <1>1, QueuefdInvariant, PTL

\* The accounts of an object whose jobs release it before they are counted off.
LEMMA ObjectInvariant ==
  ASSUME ~DecrementFirst
  PROVE  ObjectSpec => []ObjectInv
<1>1. ObjectInv /\ [ObjectNext]_objectVars => ObjectInv'
  BY LibraryCounts, NextObjectInv, Zenon
<1>2. ObjectInit => ObjectInv
  BY LibraryCounts, InitObjectInv, Zenon
<1> QED BY <1>1, <1>2, PTL DEF ObjectSpec

\* The committer and the fetcher (mdv_committer_free, mdv_fetcher_free) are freed at
\* most once, and after that no handler, no queued job and no running job uses them.
THEOREM ObjectNoUseAfterFree ==
  ASSUME ~DecrementFirst
  PROVE  ObjectSpec => []NoUseAfterFree
<1>1. ASSUME ObjectInv PROVE NoUseAfterFree
  <2>1. fpc[Main] # "end" => freed = 0
    BY <1>1, Zenon DEF ObjectInv, Freeing
  <2>2. ASSUME fpc[Main] = "end" PROVE NoUseAfterFree
    BY <1>1, <2>2, Threads3, Zenon DEF ObjectInv, Freeing, Waited, NoUseAfterFree
  <2> QED BY <2>1, <2>2 DEF NoUseAfterFree
<1> QED BY <1>1, ObjectInvariant, PTL

\* The reference counter of such an object is never negative (mdv_committer_release).
THEOREM ObjectCounterIsNatural ==
  ASSUME ~DecrementFirst
  PROVE  ObjectSpec => []ObjectTypeOK
BY ObjectInvariant, PTL DEF ObjectInv
=============================================================================
