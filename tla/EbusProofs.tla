----------------------------- MODULE EbusProofs -----------------------------
(***************************************************************************)
(* Proofs about the event bus, for every number of queues, workers,        *)
(* publishers, owners of handlers, events and drops.                       *)
(***************************************************************************)
EXTENDS Ebus, TLAPS

\* The types of the bus, those of its threads and those of the owners.
Versions == [subs : SUBSET Subscribers, refs : Int]
ListTypes ==
  /\ lists \in Seq(Versions) /\ Len(lists) \in Nat \ {0}
  /\ list \in [BusThreads -> Nat] /\ \A t \in BusThreads : list[t] <= Len(lists)
  /\ prev \in [Subscribers -> Nat] /\ \A s \in Subscribers : prev[s] < Len(lists)
  /\ owner \in [Subscribers -> {"out", "in", "waiting", "gone", "failed"}]
EventTypes ==
  /\ gen \in Int /\ idx \in Queues /\ drops \in Nat
  /\ refs \in Seq(Int)
  /\ queues \in [Queues -> Seq(Nat)]
  /\ \A e : Queued(e) => e \in 1 .. Len(refs)
  /\ epc \in [BusThreads -> {"idle", "counted", "popped", "process", "call", "exited"}]
  /\ evt \in [BusThreads -> Nat] /\ \A t \in BusThreads : evt[t] <= Len(refs)
  /\ bus \in {"running", "stopping", "freed"}

\* What a thread has at each of its steps, and what is over when the bus stops and
\* when it has been freed.
Steps ==
  /\ \A w \in Workers : epc[w] # "counted" /\ (epc[w] = "exited" => bus # "running")
  /\ \A p \in Publishers : /\ epc[p] \notin {"popped", "exited"}
                           /\ epc[p] # "idle" => bus = "running"
  /\ left \in [BusThreads -> SUBSET Subscribers]
  /\ call \in [BusThreads -> SUBSET Subscribers]
  /\ \A t \in BusThreads : /\ evt[t] = 0 <=> epc[t] \in {"idle", "exited"}
                           /\ list[t] = 0 <=> epc[t] # "call"
                           /\ epc[t] # "call" => left[t] = {} /\ call[t] = {}
  /\ bus # "running" => \A s \in Subscribers : owner[s] \in {"out", "gone", "failed"}
  /\ bus = "freed" => /\ \A w \in Workers : epc[w] = "exited"
                      /\ \A q \in Queues : queues[q] = <<>>

\* An event is in one place of one queue, or held by one thread; it has one
\* reference then, and none otherwise.
Distinct ==
  \A q1, q2 \in Queues : \A i \in 1 .. Len(queues[q1]), j \in 1 .. Len(queues[q2]) :
    queues[q1][i] = queues[q2][j] => q1 = q2 /\ i = j
Held(e) == \E t \in BusThreads : evt[t] = e
OnePlace ==
  /\ Distinct
  /\ \A t, u \in BusThreads : evt[t] = evt[u] /\ evt[t] # 0 => t = u
  /\ \A t \in BusThreads : ~Queued(evt[t])
  /\ \A e \in 1 .. Len(refs) : refs[e] = IF Queued(e) \/ Held(e) THEN 1 ELSE 0

\* The references to a version of the list: the bus's, those of the owners that
\* wait for it and those of the threads that use it.
WaitFor(v) == {s \in Subscribers : owner[s] = "waiting" /\ prev[s] = v}
Using(v)   == {t \in BusThreads : list[t] = v}
BusHas(v)  == IF v = Len(lists) /\ bus # "freed" THEN 1 ELSE 0
ListRefs ==
  /\ \A v \in 1 .. Len(lists) :
       lists[v].refs = BusHas(v) + Cardinality(WaitFor(v)) + Cardinality(Using(v))
  /\ \A s \in Subscribers : owner[s] \in {"waiting", "gone"} => prev[s] # 0
  /\ \A s \in Subscribers : owner[s] = "gone" => Using(prev[s]) = {}

EventInv == EventTypes /\ OnePlace /\ RefusalIsSafe
EbusInv  == ListTypes /\ ListRefs /\ EventInv /\ Steps

-----------------------------------------------------------------------------
\* The facts about finite sets that the accounts rest on.  The lemmas assume them;
\* LibraryCounts proves them from the library at the end.
Counting ==
  /\ IsFiniteSet({}) /\ Cardinality({}) = 0
  /\ \A S : IsFiniteSet(S) =>
       /\ Cardinality(S) \in Nat
       /\ Cardinality(S) = 0 <=> S = {}
       /\ \A T \in SUBSET S : IsFiniteSet(T)
       /\ \A T : IsFiniteSet(T) => IsFiniteSet(S \cup T)
       /\ \A x : /\ IsFiniteSet(S \cup {x}) /\ IsFiniteSet(S \ {x})
                 /\ x \notin S => Cardinality(S \cup {x}) = Cardinality(S) + 1
                 /\ x \in S => Cardinality(S \ {x}) = Cardinality(S) - 1
  /\ \A x : Cardinality({x}) = 1
  /\ \A n \in Nat : IsFiniteSet(1 .. n)

\* The cases of Counting, one by one.
LEMMA CountEmpty ==
  ASSUME Counting
  PROVE  /\ IsFiniteSet({}) /\ Cardinality({}) = 0
         /\ \A S : IsFiniteSet(S) => (Cardinality(S) = 0 <=> S = {})
BY Zenon DEF Counting

\* A count is a natural number.
LEMMA CountIsNat == ASSUME Counting, NEW S, IsFiniteSet(S) PROVE Cardinality(S) \in Nat
BY Zenon DEF Counting

\* A part of a finite set is finite.
LEMMA CountSubset ==
  ASSUME Counting, NEW S, IsFiniteSet(S), NEW T \in SUBSET S
  PROVE  IsFiniteSet(T)
BY Zenon DEF Counting

\* A new element counts one more ...
LEMMA CountAdd ==
  ASSUME Counting, NEW S, NEW x, IsFiniteSet(S), x \notin S
  PROVE  IsFiniteSet(S \cup {x}) /\ Cardinality(S \cup {x}) = Cardinality(S) + 1
BY Zenon DEF Counting

\* ... and one that leaves, one less.
LEMMA CountRemove ==
  ASSUME Counting, NEW S, NEW x, IsFiniteSet(S), x \in S
  PROVE  IsFiniteSet(S \ {x}) /\ Cardinality(S \ {x}) = Cardinality(S) - 1
BY Zenon DEF Counting

\* Sequences: their elements, and what Append, Tail and EXCEPT do to them.
LEMMA SeqTypes ==
  ASSUME NEW S, NEW s \in Seq(S)
  PROVE  /\ Len(s) \in Nat /\ DOMAIN s = 1 .. Len(s)
         /\ \A i \in 1 .. Len(s) : s[i] \in S
OBVIOUS

\* One element more at the end ...
LEMMA SeqAppend ==
  ASSUME NEW S, NEW s \in Seq(S), NEW x \in S
  PROVE  /\ Append(s, x) \in Seq(S) /\ Len(Append(s, x)) = Len(s) + 1
         /\ Append(s, x)[Len(s) + 1] = x
         /\ \A i \in 1 .. Len(s) : Append(s, x)[i] = s[i]
OBVIOUS

\* ... one less at the head ...
LEMMA SeqTail ==
  ASSUME NEW S, NEW s \in Seq(S), s # <<>>
  PROVE  /\ Tail(s) \in Seq(S) /\ Len(Tail(s)) = Len(s) - 1
         /\ \A i \in 1 .. Len(Tail(s)) : Tail(s)[i] = s[i + 1]
OBVIOUS

\* ... and another one in place of one.
LEMMA SeqExcept ==
  ASSUME NEW S, NEW s \in Seq(S), NEW i \in 1 .. Len(s), NEW x \in S
  PROVE  /\ [s EXCEPT ![i] = x] \in Seq(S) /\ Len([s EXCEPT ![i] = x]) = Len(s)
         /\ \A j \in 1 .. Len(s) : [s EXCEPT ![i] = x][j] = IF j = i THEN x ELSE s[j]
OBVIOUS

\* The threads and the subscribers are finitely many.
LEMMA FiniteThreads == ASSUME Counting PROVE IsFiniteSet(BusThreads) /\ IsFiniteSet(Subscribers)
BY EbusAssumption, Zenon DEF BusThreads, Counting

\* The users of a version can be counted.
LEMMA ListCounts ==
  ASSUME Counting
  PROVE  \A v : /\ IsFiniteSet(WaitFor(v)) /\ Cardinality(WaitFor(v)) \in Nat
                /\ IsFiniteSet(Using(v)) /\ Cardinality(Using(v)) \in Nat
<1>1. \A v : WaitFor(v) \in SUBSET Subscribers /\ Using(v) \in SUBSET BusThreads
  BY Zenon DEF WaitFor, Using
<1>2. \A v : IsFiniteSet(WaitFor(v)) /\ IsFiniteSet(Using(v))
  BY <1>1, FiniteThreads, CountSubset, Zenon
<1> QED BY <1>2, CountIsNat, Zenon

\* What a step that leaves the lists and their users alone preserves.
LEMMA ListsSame ==
  ASSUME ListTypes, ListRefs, UNCHANGED <<lists, list, owner, prev>>,
         bus' = "freed" <=> bus = "freed"
  PROVE  ListTypes' /\ ListRefs'
<1>1. \A v : WaitFor(v)' = WaitFor(v) /\ Using(v)' = Using(v) /\ BusHas(v)' = BusHas(v)
  BY Zenon DEF WaitFor, Using, BusHas
<1> QED BY <1>1, Zenon DEF ListTypes, ListRefs

\* A version loses a reference, gains one, or is added to the list.
LEMMA VersionTypes ==
  ASSUME ListTypes
  PROVE  /\ lists \in Seq(Versions) /\ Len(lists) \in Nat /\ Len(lists) \in 1 .. Len(lists)
         /\ \A v \in 1 .. Len(lists) : lists[v].refs \in Int /\ lists[v].subs \subseteq Subscribers
         /\ Len(lists) + 1 \in Nat \ {0}
         /\ \A v : v \in 1 .. Len(lists) + 1 <=> v \in 1 .. Len(lists) \/ v = Len(lists) + 1
         /\ Len(lists) + 1 \notin 1 .. Len(lists)
<1>1. lists \in Seq(Versions) /\ Len(lists) \in Nat \ {0}
  BY Zenon DEF ListTypes
<1>2. \A v \in 1 .. Len(lists) : lists[v] \in Versions
  BY <1>1, SeqTypes, Zenon
<1>3. \A r \in Versions : r.refs \in Int /\ r.subs \subseteq Subscribers
  BY Zenon DEF Versions
<1>4. /\ Len(lists) \in 1 .. Len(lists) /\ Len(lists) + 1 \in Nat \ {0} /\ Len(lists) \in Nat
      /\ \A v : v \in 1 .. Len(lists) + 1 <=> v \in 1 .. Len(lists) \/ v = Len(lists) + 1
      /\ Len(lists) + 1 \notin 1 .. Len(lists)
  BY <1>1
<1> QED BY <1>1, <1>2, <1>3, <1>4, Zenon

\* The list of handlers after each step that changes it or its users.
LEMMA ListsAfter ==
  ASSUME Counting, EbusInv,
         \/ \E s \in Subscribers : Subscribe(s) \/ Unsubscribe(s) \/ UnsubscribeFail(s) \/ Wait(s)
         \/ \E t \in BusThreads : TakeList(t) \/ Finish(t)
         \/ Free
  PROVE  ListTypes' /\ ListRefs'
<1>lower. ASSUME NEW L \in Seq(Versions), NEW v \in 1 .. Len(L)
      PROVE  /\ [L EXCEPT ![v].refs = @ - 1] \in Seq(Versions)
             /\ Len([L EXCEPT ![v].refs = @ - 1]) = Len(L)
             /\ \A u \in 1 .. Len(L) :
                  [L EXCEPT ![v].refs = @ - 1][u].refs = IF u = v THEN L[u].refs - 1 ELSE L[u].refs
  <2> USE <1>lower
  <2> DEFINE r == [L[v] EXCEPT !.refs = @ - 1]
  <2>1. L[v] \in Versions
    BY SeqTypes, Zenon
  <2>2. r \in Versions /\ r.refs = L[v].refs - 1
    BY <2>1 DEF Versions
  <2>3. [L EXCEPT ![v].refs = @ - 1] = [L EXCEPT ![v] = r]
    BY Zenon
  <2> HIDE DEF r
  <2>4. /\ [L EXCEPT ![v] = r] \in Seq(Versions) /\ Len([L EXCEPT ![v] = r]) = Len(L)
        /\ \A u \in 1 .. Len(L) : [L EXCEPT ![v] = r][u] = IF u = v THEN r ELSE L[u]
    BY <2>2, SeqExcept
  <2>5. \A u \in 1 .. Len(L) :
          [L EXCEPT ![v] = r][u].refs = IF u = v THEN L[u].refs - 1 ELSE L[u].refs
    BY <2>2, <2>4
  <2> QED BY <2>3, <2>4, <2>5, Zenon
<1>raise. ASSUME NEW L \in Seq(Versions), NEW v \in 1 .. Len(L)
      PROVE  /\ [L EXCEPT ![v].refs = @ + 1] \in Seq(Versions)
             /\ Len([L EXCEPT ![v].refs = @ + 1]) = Len(L)
             /\ \A u \in 1 .. Len(L) :
                  [L EXCEPT ![v].refs = @ + 1][u].refs = IF u = v THEN L[u].refs + 1 ELSE L[u].refs
  <2> USE <1>raise
  <2> DEFINE r == [L[v] EXCEPT !.refs = @ + 1]
  <2>1. L[v] \in Versions
    BY SeqTypes, Zenon
  <2>2. r \in Versions /\ r.refs = L[v].refs + 1
    BY <2>1 DEF Versions
  <2>3. [L EXCEPT ![v].refs = @ + 1] = [L EXCEPT ![v] = r]
    BY Zenon
  <2> HIDE DEF r
  <2>4. /\ [L EXCEPT ![v] = r] \in Seq(Versions) /\ Len([L EXCEPT ![v] = r]) = Len(L)
        /\ \A u \in 1 .. Len(L) : [L EXCEPT ![v] = r][u] = IF u = v THEN r ELSE L[u]
    BY <2>2, SeqExcept
  <2>5. \A u \in 1 .. Len(L) :
          [L EXCEPT ![v] = r][u].refs = IF u = v THEN L[u].refs + 1 ELSE L[u].refs
    BY <2>2, <2>4
  <2> QED BY <2>3, <2>4, <2>5, Zenon
<1>add. ASSUME NEW L \in Seq(Versions), NEW m \in SUBSET Subscribers
      PROVE  /\ Append(L, [subs |-> m, refs |-> 1]) \in Seq(Versions)
             /\ Len(Append(L, [subs |-> m, refs |-> 1])) = Len(L) + 1
             /\ \A u \in 1 .. Len(L) : Append(L, [subs |-> m, refs |-> 1])[u] = L[u]
             /\ Append(L, [subs |-> m, refs |-> 1])[Len(L) + 1].refs = 1
  <2> USE <1>add
  <2>1. [subs |-> m, refs |-> 1] \in Versions /\ [subs |-> m, refs |-> 1].refs = 1
    BY DEF Versions
  <2> DEFINE r == [subs |-> m, refs |-> 1]
  <2> HIDE DEF r
  <2>2. r \in Versions /\ r.refs = 1
    BY <2>1, Zenon DEF r
  <2>3. /\ Append(L, r) \in Seq(Versions) /\ Len(Append(L, r)) = Len(L) + 1
        /\ \A u \in 1 .. Len(L) : Append(L, r)[u] = L[u]
        /\ Append(L, r)[Len(L) + 1] = r
    BY <2>2, SeqAppend
  <2> QED BY <2>2, <2>3, Zenon DEF r
<1>new. ASSUME ListTypes
      PROVE  WaitFor(Len(lists) + 1) = {} /\ Using(Len(lists) + 1) = {} /\ WaitFor(Len(lists)) = {}
  <2> USE <1>new
  <2>1. /\ \A t \in BusThreads : list[t] # Len(lists) + 1
        /\ \A s \in Subscribers : prev[s] # Len(lists) + 1 /\ prev[s] # Len(lists)
    BY DEF ListTypes
  <2> QED BY <2>1, Zenon DEF WaitFor, Using
<1>subscribe. ASSUME NEW s \in Subscribers, Subscribe(s)
      PROVE  ListTypes' /\ ListRefs'
  <2> USE <1>subscribe
  <2> DEFINE n == Len(lists)
             old == [lists EXCEPT ![n].refs = @ - 1]
  <2>1. /\ lists' = Append(old, [subs |-> lists[n].subs \cup {s}, refs |-> 1])
        /\ owner[s] = "out" /\ owner' = [owner EXCEPT ![s] = "in"]
        /\ bus = "running" /\ UNCHANGED <<list, prev, bus>>
    BY Zenon DEF Subscribe, threadVars, Current
  <2>2. ListTypes /\ ListRefs
    BY Zenon DEF EbusInv
  <2>3. /\ lists \in Seq(Versions) /\ n \in Nat /\ n \in 1 .. n /\ n + 1 \in Nat \ {0}
        /\ lists[n].subs \cup {s} \in SUBSET Subscribers
        /\ \A v : v \in 1 .. n + 1 <=> v \in 1 .. n \/ v = n + 1
        /\ n + 1 \notin 1 .. n
    BY <2>2, VersionTypes, Zenon
  <2>4. /\ old \in Seq(Versions) /\ Len(old) = n
        /\ \A v \in 1 .. n : old[v].refs = IF v = n THEN lists[v].refs - 1 ELSE lists[v].refs
    BY <2>3, <1>lower, Zenon
  <2> HIDE DEF old
  <2>5. /\ lists' \in Seq(Versions) /\ Len(lists') = n + 1
        /\ \A v \in 1 .. n : lists'[v].refs = IF v = n THEN lists[v].refs - 1 ELSE lists[v].refs
        /\ lists'[n + 1].refs = 1
    <3> DEFINE m == lists[n].subs \cup {s}
    <3> HIDE DEF m
    <3>1. lists' = Append(old, [subs |-> m, refs |-> 1]) /\ m \in SUBSET Subscribers
      BY <2>1, <2>3, Zenon DEF m
    <3>2. /\ lists' \in Seq(Versions) /\ Len(lists') = n + 1 /\ lists'[n + 1].refs = 1
          /\ \A v \in 1 .. n : lists'[v] = old[v]
      BY <2>4, <3>1, <1>add
    <3> QED BY <2>4, <3>2, Zenon
  <2>6. \A v : WaitFor(v)' = WaitFor(v) /\ Using(v)' = Using(v)
    <3>1. \A x \in Subscribers : owner'[x] = "waiting" <=> owner[x] = "waiting"
      BY <2>1, <2>2, Zenon DEF ListTypes
    <3> QED BY <2>1, <3>1, Zenon DEF WaitFor, Using
  <2>7. ListTypes'
    <3>1. owner' \in [Subscribers -> {"out", "in", "waiting", "gone", "failed"}]
      BY <2>1, <2>2, Zenon DEF ListTypes
    <3>2. /\ \A t \in BusThreads : list[t] <= n + 1
          /\ \A x \in Subscribers : prev[x] < n + 1
      BY <2>2 DEF ListTypes
    <3> QED BY <2>1, <2>2, <2>3, <2>5, <3>1, <3>2, ZenonT(40) DEF ListTypes
  <2>8. ASSUME NEW v \in 1 .. n + 1
        PROVE  lists'[v].refs = BusHas(v)' + Cardinality(WaitFor(v)') + Cardinality(Using(v)')
    <3>0. BusHas(v)' = IF v = n + 1 THEN 1 ELSE 0
      BY <2>1, <2>5, Zenon DEF BusHas
    <3>1. CASE v = n + 1
      <4>1. Cardinality(WaitFor(v)') = 0 /\ Cardinality(Using(v)') = 0
        BY <2>2, <2>6, <3>1, <1>new, CountEmpty, Zenon
      <4> QED BY <2>5, <3>0, <3>1, <4>1
    <3>2. CASE v \in 1 .. n
      <4>1. PICK W \in Nat, U \in Nat : W = Cardinality(WaitFor(v)) /\ U = Cardinality(Using(v))
        BY ListCounts, Zenon
      <4>2. lists[v].refs = (IF v = n THEN 1 ELSE 0) + W + U
        BY <2>1, <2>2, <3>2, <4>1, Zenon DEF ListRefs, BusHas
      <4>3. v # n + 1
        BY <2>3, <3>2, Zenon
      <4>4. lists'[v].refs = 0 + W + U
        BY <2>5, <3>2, <4>2
      <4> QED BY <2>6, <3>0, <4>1, <4>3, <4>4, Zenon
    <3> QED BY <2>3, <3>1, <3>2, Zenon
  <2>9. \A x \in Subscribers : owner'[x] = owner[x] \/ owner'[x] = "in"
    BY <2>1, <2>2, Zenon DEF ListTypes
  <2> QED BY <2>1, <2>2, <2>5, <2>6, <2>7, <2>8, <2>9, Zenon DEF ListRefs
<1>unsubscribe. ASSUME NEW s \in Subscribers, Unsubscribe(s)
      PROVE  ListTypes' /\ ListRefs'
  <2> USE <1>unsubscribe
  <2>0. PICK n : n = Len(lists)
    BY Zenon
  <2>1. /\ lists' = Append(lists, [subs |-> lists[n].subs \ {s}, refs |-> 1])
        /\ owner[s] = "in" /\ owner' = [owner EXCEPT ![s] = "waiting"]
        /\ prev' = [prev EXCEPT ![s] = n] /\ UNCHANGED <<list, bus>>
    BY <2>0, Zenon DEF Unsubscribe, threadVars, Current
  <2>2. ListTypes /\ ListRefs /\ bus = "running"
    BY <2>1, Zenon DEF EbusInv, Steps
  <2>3. /\ lists \in Seq(Versions) /\ n \in Nat /\ n \in 1 .. n /\ n + 1 \in Nat \ {0}
        /\ lists[n].subs \ {s} \in SUBSET Subscribers
        /\ \A v : v \in 1 .. n + 1 <=> v \in 1 .. n \/ v = n + 1
        /\ n + 1 \notin 1 .. n
    BY <2>0, <2>2, VersionTypes, Zenon
  <2>4. /\ lists' \in Seq(Versions) /\ Len(lists') = n + 1 /\ lists'[n + 1].refs = 1
        /\ \A v \in 1 .. n : lists'[v] = lists[v]
    <3> DEFINE m == lists[n].subs \ {s}
    <3> HIDE DEF m
    <3>1. lists' = Append(lists, [subs |-> m, refs |-> 1]) /\ m \in SUBSET Subscribers
      BY <2>1, <2>3, Zenon DEF m
    <3> QED BY <2>0, <2>3, <3>1, <1>add
  <2>5. /\ owner' \in [Subscribers -> {"out", "in", "waiting", "gone", "failed"}]
        /\ prev' \in [Subscribers -> Nat] /\ prev'[s] = n /\ owner'[s] = "waiting"
        /\ \A x \in Subscribers : x # s => owner'[x] = owner[x] /\ prev'[x] = prev[x]
    BY <2>1, <2>2, <2>3, Zenon DEF ListTypes
  <2>6. /\ \A v : Using(v)' = Using(v)
        /\ \A v : v # n => WaitFor(v)' = WaitFor(v)
        /\ WaitFor(n)' = {s} /\ s \notin WaitFor(n)
    <3>1. WaitFor(n) = {}
      BY <2>0, <2>2, <1>new, Zenon
    <3> QED BY <2>1, <2>5, <3>1, Zenon DEF WaitFor, Using
  <2>7. ListTypes'
    <3>1. /\ \A t \in BusThreads : list[t] <= n + 1
          /\ \A x \in Subscribers : prev[x] < n + 1
          /\ n < n + 1
      BY <2>0, <2>2, <2>3 DEF ListTypes
    <3>2. /\ \A x \in Subscribers : prev'[x] < Len(lists')
          /\ \A t \in BusThreads : list'[t] <= Len(lists')
      BY <2>1, <2>4, <2>5, <3>1, ZenonT(40)
    <3> QED BY <2>1, <2>2, <2>3, <2>4, <2>5, <3>2, Zenon DEF ListTypes
  <2>8. ASSUME NEW v \in 1 .. n + 1
        PROVE  lists'[v].refs = BusHas(v)' + Cardinality(WaitFor(v)') + Cardinality(Using(v)')
    <3>0. BusHas(v)' = IF v = n + 1 THEN 1 ELSE 0
      BY <2>1, <2>2, <2>4, Zenon DEF BusHas
    <3>1. CASE v = n + 1
      <4>1. Cardinality(WaitFor(v)') = 0 /\ Cardinality(Using(v)') = 0
        <5>1. v # n
          BY <2>3, <3>1, Zenon
        <5> QED BY <2>2, <2>6, <3>1, <5>1, <2>0, <1>new, CountEmpty, Zenon
      <4> QED BY <2>4, <3>0, <3>1, <4>1
    <3>2. CASE v \in 1 .. n
      <4>1. PICK W \in Nat, U \in Nat : W = Cardinality(WaitFor(v)) /\ U = Cardinality(Using(v))
        BY ListCounts, Zenon
      <4>2. lists[v].refs = (IF v = n THEN 1 ELSE 0) + W + U
        BY <2>0, <2>1, <2>2, <3>2, <4>1, Zenon DEF ListRefs, BusHas
      <4>3. v # n + 1
        BY <2>3, <3>2, Zenon
      <4>4. CASE v # n
        <5>1. lists'[v].refs = 0 + W + U
          BY <2>4, <3>2, <4>2, <4>4, Zenon
        <5> QED BY <2>6, <3>0, <4>1, <4>3, <4>4, <5>1, Zenon
      <4>5. CASE v = n
        <5>1. W = 0 /\ Cardinality(WaitFor(v)') = 1
          BY <2>2, <2>6, <4>1, <4>5, <2>0, <1>new, CountEmpty, ZenonT(40)
             DEF Counting
        <5>2. lists'[v].refs = 1 + 0 + U
          BY <2>4, <3>2, <4>2, <4>5, <5>1, Zenon
        <5>3. lists'[v].refs = 0 + 1 + U
          BY <4>1, <5>2
        <5> QED BY <2>6, <3>0, <4>1, <4>3, <5>1, <5>3, Zenon
      <4> QED BY <4>4, <4>5, Zenon
    <3> QED BY <2>3, <3>1, <3>2, Zenon
  <2>9. n # 0
    BY <2>0, <2>2, Zenon DEF ListTypes
  <2>10. ASSUME NEW x \in Subscribers
         PROVE  /\ owner'[x] \in {"waiting", "gone"} => prev'[x] # 0
                /\ owner'[x] = "gone" => Using(prev[x])' = {}
    <3>1. CASE x = s
      BY <2>5, <2>9, <3>1, Zenon
    <3>2. CASE x # s
      BY <2>2, <2>5, <2>6, <3>2, Zenon DEF ListRefs
    <3> QED BY <3>1, <3>2, Zenon
  <2> QED BY <2>4, <2>7, <2>8, <2>10, Zenon DEF ListRefs
<1>fail. ASSUME NEW s \in Subscribers, UnsubscribeFail(s)
      PROVE  ListTypes' /\ ListRefs'
  <2> USE <1>fail
  <2>1. /\ owner[s] = "in" /\ owner' = [owner EXCEPT ![s] = "failed"]
        /\ UNCHANGED <<lists, list, prev, bus>>
    BY Zenon DEF UnsubscribeFail, threadVars
  <2>2. ListTypes /\ ListRefs
    BY Zenon DEF EbusInv
  <2>3. /\ owner' \in [Subscribers -> {"out", "in", "waiting", "gone", "failed"}]
        /\ \A x \in Subscribers : owner'[x] \in {"waiting", "gone"} => owner'[x] = owner[x]
        /\ \A x \in Subscribers : owner'[x] = "waiting" <=> owner[x] = "waiting"
    BY <2>1, <2>2, Zenon DEF ListTypes
  <2>4. \A v : WaitFor(v)' = WaitFor(v) /\ Using(v)' = Using(v) /\ BusHas(v)' = BusHas(v)
    BY <2>1, <2>3, Zenon DEF WaitFor, Using, BusHas
  <2>5. ListTypes'
    BY <2>1, <2>2, <2>3, Zenon DEF ListTypes
  <2> QED BY <2>1, <2>2, <2>3, <2>4, <2>5, Zenon DEF ListRefs
<1>wait. ASSUME NEW s \in Subscribers, Wait(s)
      PROVE  ListTypes' /\ ListRefs'
  <2> USE <1>wait
  <2>0. PICK n, p : n = Len(lists) /\ p = prev[s]
    BY Zenon
  <2>1. /\ owner[s] = "waiting" /\ lists[p].refs = 1
        /\ lists' = [lists EXCEPT ![p].refs = @ - 1]
        /\ owner' = [owner EXCEPT ![s] = "gone"] /\ UNCHANGED <<list, prev, bus>>
    BY <2>0, Zenon DEF Wait, threadVars
  <2>2. ListTypes /\ ListRefs
    BY Zenon DEF EbusInv
  <2>3. p \in 1 .. n /\ p # n /\ lists \in Seq(Versions) /\ p \in Nat
    BY <2>0, <2>1, <2>2 DEF ListTypes, ListRefs
  <2>4. /\ lists' \in Seq(Versions) /\ Len(lists') = n
        /\ \A v \in 1 .. n : lists'[v].refs = IF v = p THEN lists[v].refs - 1 ELSE lists[v].refs
    <3>1. p \in 1 .. Len(lists) /\ lists \in Seq(Versions)
      BY <2>0, <2>3, Zenon
    <3>2. LET L == [lists EXCEPT ![p].refs = @ - 1]
          IN  /\ L \in Seq(Versions) /\ Len(L) = Len(lists)
              /\ \A v \in 1 .. Len(lists) :
                   L[v].refs = IF v = p THEN lists[v].refs - 1 ELSE lists[v].refs
      BY <3>1, <1>lower, Zenon
    <3> QED BY <2>0, <2>1, <3>2, Zenon
  <2>5. /\ owner' \in [Subscribers -> {"out", "in", "waiting", "gone", "failed"}]
        /\ owner'[s] = "gone" /\ \A x \in Subscribers : x # s => owner'[x] = owner[x]
    BY <2>1, <2>2, Zenon DEF ListTypes
  <2>6. /\ \A v : Using(v)' = Using(v) /\ BusHas(v)' = BusHas(v)
        /\ \A v : v # p => WaitFor(v)' = WaitFor(v)
        /\ WaitFor(p)' = WaitFor(p) \ {s} /\ s \in WaitFor(p)
    BY <2>0, <2>1, <2>4, <2>5, ZenonT(40) DEF WaitFor, Using, BusHas
  <2>7. PICK W, W1, U \in Nat : /\ W = Cardinality(WaitFor(p)) /\ W1 = Cardinality(WaitFor(p)')
                               /\ W1 = W - 1 /\ U = Cardinality(Using(p)) /\ IsFiniteSet(WaitFor(p)')
    <3>1. IsFiniteSet(WaitFor(p)) /\ Cardinality(Using(p)) \in Nat /\ Cardinality(WaitFor(p)) \in Nat
      BY ListCounts, Zenon
    <3>2. /\ IsFiniteSet(WaitFor(p)') /\ Cardinality(WaitFor(p)') = Cardinality(WaitFor(p)) - 1
      BY <2>6, <3>1, CountRemove, Zenon
    <3>3. Cardinality(WaitFor(p)') \in Nat
      BY <3>2, CountIsNat, Zenon
    <3> QED BY <3>1, <3>2, <3>3, Zenon
  <2>8. W = 1 /\ W1 = 0 /\ U = 0
    <3>1. 1 = 0 + W + U
      BY <2>0, <2>1, <2>2, <2>3, <2>7, Zenon DEF ListRefs, BusHas
    <3> QED BY <2>7, <3>1
  <2>9. Using(p) = {} /\ lists'[p].refs = 0
    <3>1. lists'[p].refs = 1 - 1
      BY <2>1, <2>3, <2>4, Zenon
    <3> QED BY <2>7, <2>8, <3>1, ListCounts, CountEmpty, Zenon
  <2>10. ListTypes'
    BY <2>0, <2>1, <2>2, <2>4, <2>5, Zenon DEF ListTypes
  <2>11. ASSUME NEW v \in 1 .. n
         PROVE  lists'[v].refs = BusHas(v)' + Cardinality(WaitFor(v)') + Cardinality(Using(v)')
    <3>1. CASE v = p
      <4>1. BusHas(v)' = 0 /\ Cardinality(WaitFor(v)') = 0 /\ Cardinality(Using(v)') = 0
        BY <2>0, <2>3, <2>4, <2>6, <2>7, <2>8, <3>1, Zenon DEF BusHas
      <4> QED BY <2>9, <3>1, <4>1
    <3>2. CASE v # p
      BY <2>0, <2>2, <2>4, <2>6, <3>2, Zenon DEF ListRefs
    <3> QED BY <3>1, <3>2, Zenon
  <2>12. ASSUME NEW x \in Subscribers
         PROVE  /\ owner'[x] \in {"waiting", "gone"} => prev'[x] # 0
                /\ owner'[x] = "gone" => Using(prev[x])' = {}
    <3>1. CASE x = s
      <4>1. prev[s] # 0
        BY <2>1, <2>2, Zenon DEF ListRefs
      <4> QED BY <2>0, <2>1, <2>6, <2>9, <3>1, <4>1, Zenon
    <3>2. CASE x # s
      BY <2>1, <2>2, <2>5, <2>6, <3>2, Zenon DEF ListRefs
    <3> QED BY <3>1, <3>2, Zenon
  <2> QED BY <2>4, <2>10, <2>11, <2>12, Zenon DEF ListRefs
<1>take. ASSUME NEW t \in BusThreads, TakeList(t)
      PROVE  ListTypes' /\ ListRefs'
  <2> USE <1>take
  <2>0. PICK n : n = Len(lists)
    BY Zenon
  <2>1. /\ lists' = [lists EXCEPT ![n].refs = @ + 1]
        /\ list' = [list EXCEPT ![t] = n] /\ UNCHANGED <<owner, prev, bus>>
    BY <2>0, Zenon DEF TakeList, ownerVars, Current
  <2>2. ListTypes /\ ListRefs /\ list[t] = 0
    BY Zenon DEF EbusInv, Steps, TakeList
  <2>3. lists \in Seq(Versions) /\ n \in 1 .. n /\ n \in Nat /\ n # 0 /\ 0 \notin 1 .. n
    <3>1. n \in Nat /\ n # 0 /\ 0 \notin 1 .. n
      BY <2>0, <2>2 DEF ListTypes
    <3> QED BY <2>0, <2>2, <3>1, VersionTypes, Zenon
  <2>4. /\ lists' \in Seq(Versions) /\ Len(lists') = n
        /\ \A v \in 1 .. n : lists'[v].refs = IF v = n THEN lists[v].refs + 1 ELSE lists[v].refs
    <3>1. n \in 1 .. Len(lists) /\ lists \in Seq(Versions)
      BY <2>0, <2>3, Zenon
    <3>2. LET L == [lists EXCEPT ![n].refs = @ + 1]
          IN  /\ L \in Seq(Versions) /\ Len(L) = Len(lists)
              /\ \A v \in 1 .. Len(lists) :
                   L[v].refs = IF v = n THEN lists[v].refs + 1 ELSE lists[v].refs
      BY <3>1, <1>raise, Zenon
    <3> QED BY <2>0, <2>1, <3>2, Zenon
  <2>5. /\ list' \in [BusThreads -> Nat] /\ list'[t] = n
        /\ \A u \in BusThreads : u # t => list'[u] = list[u]
    BY <2>1, <2>2, <2>3, Zenon DEF ListTypes
  <2>6. /\ \A v : WaitFor(v)' = WaitFor(v) /\ BusHas(v)' = BusHas(v)
        /\ \A v \in 1 .. n : v # n => Using(v)' = Using(v)
        /\ Using(n)' = Using(n) \cup {t} /\ t \notin Using(n)
    BY <2>0, <2>1, <2>2, <2>3, <2>4, <2>5, Zenon DEF WaitFor, Using, BusHas
  <2>7. ListTypes'
    <3>1. \A u \in BusThreads : list'[u] <= n
      <4>1. n <= n
        BY <2>3
      <4> QED BY <2>0, <2>2, <2>5, <4>1, Zenon DEF ListTypes
    <3> QED BY <2>0, <2>1, <2>2, <2>4, <2>5, <3>1, Zenon DEF ListTypes
  <2>8. ASSUME NEW v \in 1 .. n
        PROVE  lists'[v].refs = BusHas(v)' + Cardinality(WaitFor(v)') + Cardinality(Using(v)')
    <3>1. CASE v = n
      <4>1. PICK W, U \in Nat : W = Cardinality(WaitFor(v)) /\ U = Cardinality(Using(v))
        BY ListCounts, Zenon
      <4>2. Cardinality(Using(v)') = U + 1
        BY <2>6, <3>1, <4>1, ListCounts, CountAdd, Zenon
      <4>3. PICK b \in {0, 1} : b = BusHas(v)
        BY Zenon DEF BusHas
      <4>4. lists[v].refs = b + W + U
        BY <2>0, <2>2, <4>1, <4>3, Zenon DEF ListRefs
      <4>5. lists'[v].refs = b + W + U + 1
        BY <2>4, <3>1, <4>4, Zenon
      <4>6. lists'[v].refs = b + W + (U + 1)
        BY <4>1, <4>3, <4>5
      <4> QED BY <2>6, <4>1, <4>2, <4>3, <4>6, Zenon
    <3>2. CASE v # n
      BY <2>0, <2>2, <2>4, <2>6, <3>2, Zenon DEF ListRefs
    <3> QED BY <3>1, <3>2, Zenon
  <2>9. ASSUME NEW x \in Subscribers
        PROVE  /\ owner'[x] \in {"waiting", "gone"} => prev'[x] # 0
               /\ owner'[x] = "gone" => Using(prev[x])' = {}
    <3>1. PICK v : v = prev[x]
      BY Zenon
    <3>2. owner[x] = "gone" => v \in 1 .. n /\ v # n
      BY <2>0, <2>2, <3>1 DEF ListTypes, ListRefs
    <3>3. owner[x] = "gone" => Using(v) = {} /\ Using(v)' = Using(v)
      BY <2>2, <2>6, <3>1, <3>2, Zenon DEF ListRefs
    <3> QED BY <2>1, <2>2, <3>1, <3>3, Zenon DEF ListRefs, Using
  <2> QED BY <2>4, <2>7, <2>8, <2>9, Zenon DEF ListRefs
<1>finish. ASSUME NEW t \in BusThreads, Finish(t)
      PROVE  ListTypes' /\ ListRefs'
  <2> USE <1>finish
  <2>0. PICK n, k : n = Len(lists) /\ k = list[t]
    BY Zenon
  <2>1. /\ lists' = [lists EXCEPT ![k].refs = @ - 1]
        /\ list' = [list EXCEPT ![t] = 0] /\ UNCHANGED <<owner, prev, bus>>
    BY <2>0, Zenon DEF Finish, ownerVars
  <2>2. ListTypes /\ ListRefs /\ k # 0
    BY <2>0, Zenon DEF EbusInv, Steps, Finish
  <2>3. lists \in Seq(Versions) /\ k \in 1 .. n /\ 0 \notin 1 .. n
    BY <2>0, <2>2 DEF ListTypes
  <2>4. /\ lists' \in Seq(Versions) /\ Len(lists') = n
        /\ \A v \in 1 .. n : lists'[v].refs = IF v = k THEN lists[v].refs - 1 ELSE lists[v].refs
    <3>1. k \in 1 .. Len(lists) /\ lists \in Seq(Versions)
      BY <2>0, <2>3, Zenon
    <3>2. LET L == [lists EXCEPT ![k].refs = @ - 1]
          IN  /\ L \in Seq(Versions) /\ Len(L) = Len(lists)
              /\ \A v \in 1 .. Len(lists) :
                   L[v].refs = IF v = k THEN lists[v].refs - 1 ELSE lists[v].refs
      BY <3>1, <1>lower, Zenon
    <3> QED BY <2>0, <2>1, <3>2, Zenon
  <2>5. /\ list' \in [BusThreads -> Nat] /\ list'[t] = 0
        /\ \A u \in BusThreads : u # t => list'[u] = list[u]
    <3>1. 0 \in Nat
      BY Zenon
    <3> QED BY <2>1, <2>2, <3>1, Zenon DEF ListTypes
  <2>6. /\ \A v : WaitFor(v)' = WaitFor(v) /\ BusHas(v)' = BusHas(v)
        /\ \A v \in 1 .. n : v # k => Using(v)' = Using(v)
        /\ Using(k)' = Using(k) \ {t} /\ t \in Using(k)
    BY <2>0, <2>1, <2>2, <2>3, <2>4, <2>5, Zenon DEF WaitFor, Using, BusHas
  <2>7. ListTypes'
    <3>1. \A u \in BusThreads : list'[u] <= n
      <4>1. 0 <= n
        BY <2>0, <2>2 DEF ListTypes
      <4> QED BY <2>0, <2>2, <2>5, <4>1, Zenon DEF ListTypes
    <3> QED BY <2>0, <2>1, <2>2, <2>4, <2>5, <3>1, Zenon DEF ListTypes
  <2>8. ASSUME NEW v \in 1 .. n
        PROVE  lists'[v].refs = BusHas(v)' + Cardinality(WaitFor(v)') + Cardinality(Using(v)')
    <3>1. CASE v = k
      <4>1. PICK W, U \in Nat : W = Cardinality(WaitFor(v)) /\ U = Cardinality(Using(v))
        BY ListCounts, Zenon
      <4>2. Cardinality(Using(v)') = U - 1
        BY <2>6, <3>1, <4>1, ListCounts, CountRemove, Zenon
      <4>3. PICK b \in {0, 1} : b = BusHas(v)
        BY Zenon DEF BusHas
      <4>4. lists[v].refs = b + W + U
        BY <2>0, <2>2, <4>1, <4>3, Zenon DEF ListRefs
      <4>5. lists'[v].refs = lists[v].refs - 1
        BY <2>4, <3>1, Zenon
      <4>6. lists'[v].refs = b + W + (U - 1)
        BY <4>1, <4>3, <4>4, <4>5
      <4> QED BY <2>6, <4>1, <4>2, <4>3, <4>6, Zenon
    <3>2. CASE v # k
      BY <2>0, <2>2, <2>4, <2>6, <3>2, Zenon DEF ListRefs
    <3> QED BY <3>1, <3>2, Zenon
  <2>9. ASSUME NEW x \in Subscribers
        PROVE  /\ owner'[x] \in {"waiting", "gone"} => prev'[x] # 0
               /\ owner'[x] = "gone" => Using(prev[x])' = {}
    <3>1. PICK v : v = prev[x]
      BY Zenon
    <3>2. owner[x] = "gone" => v \in 1 .. n
      BY <2>0, <2>2, <3>1 DEF ListTypes, ListRefs
    <3>3. owner[x] = "gone" => Using(v) = {} /\ v # k
      BY <2>2, <2>6, <3>1, Zenon DEF ListRefs
    <3>4. owner[x] = "gone" => Using(v)' = {}
      BY <2>6, <3>2, <3>3, Zenon
    <3> QED BY <2>1, <2>2, <3>1, <3>4, Zenon DEF ListRefs, Using
  <2> QED BY <2>4, <2>7, <2>8, <2>9, Zenon DEF ListRefs
<1>free. ASSUME Free
      PROVE  ListTypes' /\ ListRefs'
  <2> USE <1>free
  <2>0. PICK n : n = Len(lists)
    BY Zenon
  <2>1. /\ lists' = [lists EXCEPT ![n].refs = @ - 1] /\ bus' = "freed" /\ bus = "stopping"
        /\ UNCHANGED <<list, owner, prev>>
    BY <2>0, Zenon DEF Free, ownerVars, threadVars, Current
  <2>2. ListTypes /\ ListRefs
    BY Zenon DEF EbusInv
  <2>3. lists \in Seq(Versions) /\ n \in 1 .. n
    BY <2>0, <2>2, VersionTypes, Zenon
  <2>4. /\ lists' \in Seq(Versions) /\ Len(lists') = n
        /\ \A v \in 1 .. n : lists'[v].refs = IF v = n THEN lists[v].refs - 1 ELSE lists[v].refs
    <3>1. n \in 1 .. Len(lists) /\ lists \in Seq(Versions)
      BY <2>0, <2>3, Zenon
    <3>2. LET L == [lists EXCEPT ![n].refs = @ - 1]
          IN  /\ L \in Seq(Versions) /\ Len(L) = Len(lists)
              /\ \A v \in 1 .. Len(lists) :
                   L[v].refs = IF v = n THEN lists[v].refs - 1 ELSE lists[v].refs
      BY <3>1, <1>lower, Zenon
    <3> QED BY <2>0, <2>1, <3>2, Zenon
  <2>5. \A v : WaitFor(v)' = WaitFor(v) /\ Using(v)' = Using(v) /\ BusHas(v)' = 0
    BY <2>1, Zenon DEF WaitFor, Using, BusHas
  <2>6. ListTypes'
    BY <2>0, <2>1, <2>2, <2>4, Zenon DEF ListTypes
  <2>7. ASSUME NEW v \in 1 .. n
        PROVE  lists'[v].refs = BusHas(v)' + Cardinality(WaitFor(v)') + Cardinality(Using(v)')
    <3>1. PICK W, U \in Nat : W = Cardinality(WaitFor(v)) /\ U = Cardinality(Using(v))
      BY ListCounts, Zenon
    <3>2. lists[v].refs = (IF v = n THEN 1 ELSE 0) + W + U
      BY <2>0, <2>1, <2>2, <3>1, Zenon DEF ListRefs, BusHas
    <3>3. lists'[v].refs = 0 + W + U
      BY <2>4, <3>1, <3>2
    <3> QED BY <2>5, <3>1, <3>3, Zenon
  <2> QED BY <2>1, <2>2, <2>4, <2>5, <2>6, <2>7, Zenon DEF ListRefs, Using
<1> QED BY <1>subscribe, <1>unsubscribe, <1>fail, <1>wait, <1>take, <1>finish, <1>free,
               Zenon

-----------------------------------------------------------------------------
\* Events: what a queue holds after a push and after a pop.
LEMMA QueuedIs ==
  ASSUME NEW Q, NEW q \in Queues, Q \in [Queues -> Seq(Nat)]
  PROVE  DOMAIN Q[q] = 1 .. Len(Q[q]) /\ Q[q] \in Seq(Nat) /\ Len(Q[q]) \in Nat
<1>1. Q[q] \in Seq(Nat)
  BY Zenon
<1> QED BY <1>1, SeqTypes, Zenon

\* Two places that hold the same event are one place.
LEMMA DistinctAt ==
  ASSUME Distinct, NEW r \in Queues, NEW s \in Queues,
         NEW i \in 1 .. Len(queues[r]), NEW j \in 1 .. Len(queues[s]), queues[r][i] = queues[s][j]
  PROVE  r = s /\ i = j
BY Zenon DEF Distinct

\* A push adds one event, which is in no queue yet, at the end of a queue.
LEMMA PushedQueue ==
  ASSUME queues \in [Queues -> Seq(Nat)], NEW q \in Queues, NEW e \in Nat,
         Distinct, ~Queued(e), queues' = [queues EXCEPT ![q] = Append(@, e)]
  PROVE  /\ queues' \in [Queues -> Seq(Nat)] /\ Distinct'
         /\ \A x : Queued(x)' <=> Queued(x) \/ x = e
<1>1. /\ queues' \in [Queues -> Seq(Nat)] /\ queues'[q] = Append(queues[q], e)
      /\ \A r \in Queues : r # q => queues'[r] = queues[r]
  <2>1. Append(queues[q], e) \in Seq(Nat)
    BY SeqAppend, Zenon
  <2> QED BY <2>1, Zenon
<1>2. \A r \in Queues : /\ DOMAIN queues[r] = 1 .. Len(queues[r]) /\ Len(queues[r]) \in Nat
                        /\ DOMAIN queues'[r] = 1 .. Len(queues'[r])
  BY <1>1, QueuedIs, Zenon
<1>3. PICK m \in Nat : m = Len(queues[q])
  BY <1>2, Zenon
<1>4. /\ Len(queues'[q]) = m + 1 /\ queues'[q][m + 1] = e
      /\ \A i \in 1 .. m : queues'[q][i] = queues[q][i]
  <2>1. queues[q] \in Seq(Nat)
    BY Zenon
  <2>2. /\ Len(Append(queues[q], e)) = Len(queues[q]) + 1
        /\ Append(queues[q], e)[Len(queues[q]) + 1] = e
        /\ \A i \in 1 .. Len(queues[q]) : Append(queues[q], e)[i] = queues[q][i]
    BY <2>1, SeqAppend
  <2> QED BY <1>1, <1>3, <2>2, Zenon
<1>5. /\ \A i : i \in 1 .. m + 1 <=> i \in 1 .. m \/ i = m + 1
      /\ m + 1 \notin 1 .. m
  BY <1>3
<1>6. \A x : Queued(x)' <=> Queued(x) \/ x = e
  <2>1. ASSUME NEW x, Queued(x)' PROVE Queued(x) \/ x = e
    <3>p. PICK r \in Queues : \E i \in 1 .. Len(queues'[r]) : queues'[r][i] = x
      BY <1>2, <2>1, Zenon DEF Queued
    <3>1. PICK i \in 1 .. Len(queues'[r]) : queues'[r][i] = x
      BY <3>p, Zenon
    <3>2. CASE r # q
      BY <1>1, <1>2, <3>1, <3>2, Zenon DEF Queued
    <3>3. CASE r = q /\ i \in 1 .. m
      BY <1>2, <1>3, <1>4, <3>1, <3>3, Zenon DEF Queued
    <3>4. CASE r = q /\ i = m + 1
      BY <1>4, <3>1, <3>4, Zenon
    <3> QED BY <1>4, <1>5, <3>1, <3>2, <3>3, <3>4, Zenon
  <2>2. ASSUME NEW x, Queued(x) PROVE Queued(x)'
    <3>p. PICK r \in Queues : \E i \in 1 .. Len(queues[r]) : queues[r][i] = x
      BY <1>2, <2>2, Zenon DEF Queued
    <3>1. PICK i \in 1 .. Len(queues[r]) : queues[r][i] = x
      BY <3>p, Zenon
    <3>2. CASE r # q
      BY <1>1, <1>2, <3>1, <3>2, Zenon DEF Queued
    <3>3. CASE r = q
      BY <1>2, <1>3, <1>4, <1>5, <3>1, <3>3, Zenon DEF Queued
    <3> QED BY <3>2, <3>3, Zenon
  <2>3. Queued(e)'
    BY <1>2, <1>4, <1>5, Zenon DEF Queued
  <2> QED BY <2>1, <2>2, <2>3, Zenon
<1>7. \A r \in Queues : \A i \in 1 .. Len(queues'[r]) :
        \/ i \in 1 .. Len(queues[r]) /\ queues'[r][i] = queues[r][i] /\ queues[r][i] # e
        \/ r = q /\ i = m + 1 /\ queues'[r][i] = e
  <2> SUFFICES ASSUME NEW r \in Queues, NEW i \in 1 .. Len(queues'[r])
               PROVE  \/ /\ i \in 1 .. Len(queues[r]) /\ queues'[r][i] = queues[r][i]
                         /\ queues[r][i] # e
                      \/ r = q /\ i = m + 1 /\ queues'[r][i] = e
    BY Zenon
  <2>1. \A j \in 1 .. Len(queues[r]) : queues[r][j] # e
    BY <1>2, Zenon DEF Queued
  <2>2. CASE r # q
    BY <1>1, <2>1, <2>2, Zenon
  <2>3. CASE r = q
    BY <1>3, <1>4, <1>5, <2>1, <2>3, Zenon
  <2> QED BY <2>2, <2>3, Zenon
<1>8. Distinct'
  <2> SUFFICES ASSUME NEW r \in Queues, NEW s \in Queues, NEW i \in 1 .. Len(queues'[r]),
                      NEW j \in 1 .. Len(queues'[s]), queues'[r][i] = queues'[s][j]
               PROVE  r = s /\ i = j
    BY Zenon DEF Distinct
  <2>1. \/ i \in 1 .. Len(queues[r]) /\ queues'[r][i] = queues[r][i] /\ queues[r][i] # e
        \/ r = q /\ i = m + 1 /\ queues'[r][i] = e
    BY <1>7, Zenon
  <2>2. \/ j \in 1 .. Len(queues[s]) /\ queues'[s][j] = queues[s][j] /\ queues[s][j] # e
        \/ s = q /\ j = m + 1 /\ queues'[s][j] = e
    BY <1>7, Zenon
  <2>3. CASE /\ i \in 1 .. Len(queues[r]) /\ queues'[r][i] = queues[r][i]
             /\ j \in 1 .. Len(queues[s]) /\ queues'[s][j] = queues[s][j]
    <3>1. queues[r][i] = queues[s][j]
      BY <2>3, Zenon
    <3> QED BY <2>3, <3>1, DistinctAt, Zenon
  <2> QED BY <2>1, <2>2, <2>3, Zenon
<1> QED BY <1>1, <1>6, <1>8, Zenon

\* A pop takes the first event of a queue, which is then in no queue.
LEMMA PoppedQueue ==
  ASSUME queues \in [Queues -> Seq(Nat)], NEW q \in Queues, queues[q] # <<>>,
         Distinct, queues' = [queues EXCEPT ![q] = Tail(@)]
  PROVE  /\ queues' \in [Queues -> Seq(Nat)] /\ Distinct'
         /\ \A x : Queued(x)' <=> Queued(x) /\ x # Head(queues[q])
         /\ Queued(Head(queues[q])) /\ Head(queues[q]) = queues[q][1] /\ 1 \in 1 .. Len(queues[q])
<1>1. /\ queues' \in [Queues -> Seq(Nat)] /\ queues'[q] = Tail(queues[q])
      /\ \A r \in Queues : r # q => queues'[r] = queues[r]
  <2>1. Tail(queues[q]) \in Seq(Nat)
    BY SeqTail, Zenon
  <2> QED BY <2>1, Zenon
<1>2. \A r \in Queues : /\ DOMAIN queues[r] = 1 .. Len(queues[r]) /\ Len(queues[r]) \in Nat
                        /\ DOMAIN queues'[r] = 1 .. Len(queues'[r])
  BY <1>1, QueuedIs, Zenon
<1>3. PICK m \in Nat : m + 1 = Len(queues[q])
  <2>0. queues[q] \in Seq(Nat) /\ queues[q] # <<>>
    BY Zenon
  <2>1. Len(queues[q]) \in Nat \ {0}
    BY <2>0
  <2>2. Len(queues[q]) - 1 \in Nat /\ (Len(queues[q]) - 1) + 1 = Len(queues[q])
    BY <2>1
  <2> QED BY <2>2, Zenon
<1>4. /\ Len(queues'[q]) = m
      /\ \A i \in 1 .. m : queues'[q][i] = queues[q][i + 1]
      /\ Head(queues[q]) = queues[q][1]
  <2>1. queues[q] \in Seq(Nat)
    BY Zenon
  <2>2. /\ Len(Tail(queues[q])) = Len(queues[q]) - 1
        /\ \A i \in 1 .. Len(Tail(queues[q])) : Tail(queues[q])[i] = queues[q][i + 1]
    BY <2>1, SeqTail, Zenon
  <2>3. Len(Tail(queues[q])) = m
    BY <1>3, <2>2
  <2>4. Head(queues[q]) = queues[q][1]
    BY <2>1
  <2> QED BY <1>1, <2>2, <2>3, <2>4, Zenon
<1>5. /\ \A i \in 1 .. m : i + 1 \in 1 .. m + 1 /\ i + 1 # 1
      /\ \A i \in 1 .. m, j \in 1 .. m : i + 1 = j + 1 => i = j
      /\ \A i \in 1 .. m + 1 : i # 1 => i - 1 \in 1 .. m /\ (i - 1) + 1 = i
      /\ 1 \in 1 .. m + 1
  BY <1>3
<1>6. \A r \in Queues : \A i \in 1 .. Len(queues'[r]) :
        \/ r # q /\ i \in 1 .. Len(queues[r]) /\ queues'[r][i] = queues[r][i]
        \/ r = q /\ i \in 1 .. m /\ i + 1 \in 1 .. Len(queues[r]) /\ queues'[r][i] = queues[r][i + 1]
  <2> SUFFICES ASSUME NEW r \in Queues, NEW i \in 1 .. Len(queues'[r])
               PROVE  \/ r # q /\ i \in 1 .. Len(queues[r]) /\ queues'[r][i] = queues[r][i]
                      \/ /\ r = q /\ i \in 1 .. m /\ i + 1 \in 1 .. Len(queues[r])
                         /\ queues'[r][i] = queues[r][i + 1]
    BY Zenon
  <2>1. CASE r # q
    BY <1>1, <2>1, Zenon
  <2>2. CASE r = q
    <3>1. i \in 1 .. m
      BY <1>4, <2>2, Zenon
    <3> QED BY <1>3, <1>4, <1>5, <2>2, <3>1, Zenon
  <2> QED BY <2>1, <2>2, Zenon
<1>7. Distinct'
  <2> SUFFICES ASSUME NEW r \in Queues, NEW s \in Queues, NEW i \in 1 .. Len(queues'[r]),
                      NEW j \in 1 .. Len(queues'[s]), queues'[r][i] = queues'[s][j]
               PROVE  r = s /\ i = j
    BY Zenon DEF Distinct
  <2>1. CASE r # q /\ s # q
    <3>1. i \in 1 .. Len(queues[r]) /\ j \in 1 .. Len(queues[s]) /\ queues[r][i] = queues[s][j]
      BY <1>6, <2>1, Zenon
    <3> QED BY <3>1, ZenonT(40) DEF Distinct
  <2>2. CASE r = q /\ s # q
    <3>1. i + 1 \in 1 .. Len(queues[r]) /\ j \in 1 .. Len(queues[s]) /\ queues[r][i + 1] = queues[s][j]
      BY <1>6, <2>2, Zenon
    <3>2. r = s
      BY <3>1, Zenon DEF Distinct
    <3> QED BY <2>2, <3>2, Zenon
  <2>3. CASE r # q /\ s = q
    <3>1. i \in 1 .. Len(queues[r]) /\ j + 1 \in 1 .. Len(queues[s]) /\ queues[r][i] = queues[s][j + 1]
      BY <1>6, <2>3, Zenon
    <3>2. r = s
      BY <3>1, Zenon DEF Distinct
    <3> QED BY <2>3, <3>2, Zenon
  <2>4. CASE r = q /\ s = q
    <3>1. /\ i + 1 \in 1 .. Len(queues[r]) /\ j + 1 \in 1 .. Len(queues[s])
          /\ queues[r][i + 1] = queues[s][j + 1] /\ i \in 1 .. m /\ j \in 1 .. m
      BY <1>6, <2>4, Zenon
    <3>2. PICK a, b : a = i + 1 /\ b = j + 1
      BY Zenon
    <3>3. a \in 1 .. Len(queues[r]) /\ b \in 1 .. Len(queues[s]) /\ queues[r][a] = queues[s][b]
      BY <3>1, <3>2, Zenon
    <3>4. a = b
      BY <3>3, DistinctAt
    <3> QED BY <1>5, <2>4, <3>1, <3>2, <3>4, Zenon
  <2> QED BY <2>1, <2>2, <2>3, <2>4, Zenon
<1>8. Queued(Head(queues[q]))
  BY <1>2, <1>3, <1>4, <1>5, ZenonT(40) DEF Queued
<1>d. \A r \in Queues : \A j \in 1 .. Len(queues[r]) :
        queues[r][j] = queues[q][1] => r = q /\ j = 1
  <2>1. 1 \in 1 .. Len(queues[q])
    BY <1>3, <1>5, Zenon
  <2> QED BY <2>1, DistinctAt, Zenon
<1>9. ASSUME NEW x, Queued(x)' PROVE Queued(x) /\ x # Head(queues[q])
  <2>p. PICK r \in Queues : \E i \in 1 .. Len(queues'[r]) : queues'[r][i] = x
    BY <1>2, <1>9, Zenon DEF Queued
  <2>1. PICK i \in 1 .. Len(queues'[r]) : queues'[r][i] = x
    BY <2>p, Zenon
  <2>2. CASE r # q
    <3>1. i \in 1 .. Len(queues[r]) /\ queues[r][i] = x
      BY <1>6, <2>1, <2>2, Zenon
    <3>2. queues[r][i] # queues[q][1]
      BY <1>d, <2>2, <3>1, Zenon
    <3> QED BY <1>2, <1>4, <3>1, <3>2, Zenon DEF Queued
  <2>3. CASE r = q
    <3>1. i + 1 \in 1 .. Len(queues[q]) /\ queues[q][i + 1] = x /\ i + 1 # 1
      BY <1>5, <1>6, <2>1, <2>3, Zenon
    <3>2. queues[q][i + 1] # queues[q][1]
      BY <1>d, <3>1, Zenon
    <3> QED BY <1>2, <1>4, <3>1, <3>2, Zenon DEF Queued
  <2> QED BY <2>2, <2>3, Zenon
<1>10. ASSUME NEW x, Queued(x), x # Head(queues[q]) PROVE Queued(x)'
  <2>p. PICK r \in Queues : \E i \in 1 .. Len(queues[r]) : queues[r][i] = x
    BY <1>2, <1>10, Zenon DEF Queued
  <2>1. PICK i \in 1 .. Len(queues[r]) : queues[r][i] = x
    BY <2>p, Zenon
  <2>2. CASE r # q
    BY <1>1, <1>2, <2>1, <2>2, Zenon DEF Queued
  <2>3. CASE r = q
    <3>1. i # 1 /\ i \in 1 .. m + 1
      BY <1>3, <1>4, <1>10, <2>1, <2>3, Zenon
    <3>3. i - 1 \in 1 .. m /\ (i - 1) + 1 = i
      BY <1>5, <3>1, Zenon
    <3>4. queues'[q][i - 1] = queues[q][(i - 1) + 1]
      BY <1>4, <3>3, Zenon
    <3>2. i - 1 \in 1 .. m /\ queues'[q][i - 1] = x
      BY <2>1, <2>3, <3>3, <3>4, Zenon
    <3> QED BY <1>2, <1>4, <3>2, Zenon DEF Queued
  <2> QED BY <2>2, <2>3, Zenon
<1> QED BY <1>1, <1>3, <1>4, <1>5, <1>7, <1>8, <1>9, <1>10, Zenon

-----------------------------------------------------------------------------
\* The events that threads carry to a queue or from it.
Carried(e) == \E t \in BusThreads : evt[t] = e /\ epc[t] \in {"counted", "popped"}

\* What the types say of the events: their numbers, and which are still to be handled.
LEMMA EventFacts ==
  ASSUME Counting, EventTypes
  PROVE  /\ Len(refs) \in Nat /\ Events = 1 .. Len(refs)
         /\ ~Queued(0) /\ ~Queued(Len(refs) + 1)
         /\ \A t \in BusThreads : evt[t] # Len(refs) + 1
         /\ \A t \in BusThreads : evt[t] # 0 => evt[t] \in 1 .. Len(refs)
         /\ Pending = {e \in 1 .. Len(refs) : Queued(e) \/ Carried(e)}
         /\ IsFiniteSet(Pending) /\ Cardinality(Pending) \in Nat
<1>1. Len(refs) \in Nat /\ Events = 1 .. Len(refs)
  BY SeqTypes, Zenon DEF EventTypes, Events
<1>2. 0 \notin 1 .. Len(refs) /\ Len(refs) + 1 \notin 1 .. Len(refs)
  BY <1>1
<1>3. ~Queued(0) /\ ~Queued(Len(refs) + 1)
  BY <1>2, Zenon DEF EventTypes
<1>4. \A t \in BusThreads : /\ evt[t] # Len(refs) + 1
                            /\ evt[t] # 0 => evt[t] \in 1 .. Len(refs)
  <2> SUFFICES ASSUME NEW t \in BusThreads
               PROVE  evt[t] # Len(refs) + 1 /\ (evt[t] # 0 => evt[t] \in 1 .. Len(refs))
    BY Zenon
  <2>1. evt[t] \in Nat /\ evt[t] <= Len(refs)
    BY Zenon DEF EventTypes
  <2> QED BY <1>1, <2>1
<1>5. Pending = {e \in 1 .. Len(refs) : Queued(e) \/ Carried(e)}
  BY <1>1, Zenon DEF Pending, Carried
<1>6. IsFiniteSet(1 .. Len(refs)) /\ Pending \in SUBSET (1 .. Len(refs))
  BY <1>1, <1>5, Zenon DEF Counting
<1>7. IsFiniteSet(Pending) /\ Cardinality(Pending) \in Nat
  BY <1>6, CountSubset, CountIsNat, Zenon
<1> QED BY <1>1, <1>3, <1>4, <1>5, <1>7, Zenon

\* A step of thread t, which no other thread notices.
OnlyThread(t) == \A u \in BusThreads : u # t => evt'[u] = evt[u] /\ epc'[u] = epc[u]

\* Which events threads hold after a step of one thread.
LEMMA HeldAfter ==
  ASSUME OnePlace, NEW t \in BusThreads, OnlyThread(t), NEW x, x # 0
  PROVE  Held(x)' <=> x = evt'[t] \/ (Held(x) /\ x # evt[t])
<1>1. ASSUME Held(x)' PROVE x = evt'[t] \/ (Held(x) /\ x # evt[t])
  <2>1. PICK u \in BusThreads : evt'[u] = x
    BY <1>1, Zenon DEF Held
  <2>2. CASE u # t
    <3>1. evt[u] = x
      BY <2>1, <2>2, Zenon DEF OnlyThread
    <3> QED BY <2>2, <3>1, Zenon DEF OnePlace, Held
  <2> QED BY <2>1, <2>2, Zenon
<1>2. ASSUME Held(x), x # evt[t] PROVE Held(x)'
  BY <1>2, Zenon DEF Held, OnlyThread
<1>3. x = evt'[t] => Held(x)'
  BY Zenon DEF Held
<1> QED BY <1>1, <1>2, <1>3, Zenon

\* Which events threads carry after a step of one thread.
LEMMA CarriedAfter ==
  ASSUME OnePlace, NEW t \in BusThreads, OnlyThread(t), NEW x, x # 0
  PROVE  /\ Carried(x)' <=> \/ x = evt'[t] /\ epc'[t] \in {"counted", "popped"}
                            \/ Carried(x) /\ x # evt[t]
         /\ x = evt[t] => (Carried(x) <=> epc[t] \in {"counted", "popped"})
<1>1. ASSUME Carried(x)'
      PROVE  \/ x = evt'[t] /\ epc'[t] \in {"counted", "popped"}
             \/ Carried(x) /\ x # evt[t]
  <2>1. PICK u \in BusThreads : evt'[u] = x /\ epc'[u] \in {"counted", "popped"}
    BY <1>1, Zenon DEF Carried
  <2>2. CASE u # t
    <3>1. evt[u] = x /\ epc[u] \in {"counted", "popped"}
      BY <2>1, <2>2, Zenon DEF OnlyThread
    <3> QED BY <2>2, <3>1, Zenon DEF OnePlace, Carried
  <2> QED BY <2>1, <2>2, Zenon
<1>2. ASSUME Carried(x), x # evt[t] PROVE Carried(x)'
  BY <1>2, Zenon DEF Carried, OnlyThread
<1>3. x = evt'[t] /\ epc'[t] \in {"counted", "popped"} => Carried(x)'
  BY Zenon DEF Carried
<1>4. x = evt[t] => (Carried(x) <=> epc[t] \in {"counted", "popped"})
  BY Zenon DEF Carried, OnePlace
<1> QED BY <1>1, <1>2, <1>3, <1>4, Zenon

\* What is left to show of OnePlace when thread t has moved.
LEMMA PlacesAfter ==
  ASSUME OnePlace, NEW t \in BusThreads, OnlyThread(t), Distinct',
         evt'[t] # 0 => \A u \in BusThreads : u # t => evt[u] # evt'[t],
         \A u \in BusThreads : ~Queued(evt[u])',
         \A e \in 1 .. Len(refs') : refs'[e] = IF Queued(e)' \/ Held(e)' THEN 1 ELSE 0
  PROVE  OnePlace'
<1>1. \A u, v \in BusThreads : evt'[u] = evt'[v] /\ evt'[u] # 0 => u = v
  <2> SUFFICES ASSUME NEW u \in BusThreads, NEW v \in BusThreads, evt'[u] = evt'[v], evt'[u] # 0
               PROVE  u = v
    BY Zenon
  <2>1. CASE u # t /\ v # t
    BY <2>1, Zenon DEF OnlyThread, OnePlace
  <2>2. CASE u = t \/ v = t
    BY <2>2, Zenon DEF OnlyThread
  <2> QED BY <2>1, <2>2, Zenon
<1> QED BY <1>1, Zenon DEF OnePlace

\* The events that are to be handled after a step.
LEMMA PendingNext ==
  ASSUME refs' \in Seq(Int)
  PROVE  Pending' = {e \in 1 .. Len(refs') : Queued(e)' \/ Carried(e)'}
<1>1. Events' = 1 .. Len(refs')
  BY SeqTypes, Zenon DEF Events
<1> QED BY <1>1, Zenon DEF Pending, Carried

\* A thread that moves to event e and step y.
EventSteps == {"idle", "counted", "popped", "process", "call", "exited"}
Moves(t, e, y) == evt' = [evt EXCEPT ![t] = e] /\ epc' = [epc EXCEPT ![t] = y]

\* Its types after that.
LEMMA ThreadTypes ==
  ASSUME EventTypes, NEW t \in BusThreads, NEW e \in Nat, NEW y \in EventSteps, Moves(t, e, y),
         e <= Len(refs'), Len(refs) <= Len(refs'), Len(refs) \in Nat, Len(refs') \in Nat
  PROVE  /\ evt' \in [BusThreads -> Nat] /\ \A u \in BusThreads : evt'[u] <= Len(refs')
         /\ epc' \in [BusThreads -> EventSteps]
         /\ evt'[t] = e /\ epc'[t] = y /\ OnlyThread(t)
<1>1. /\ evt \in [BusThreads -> Nat] /\ \A u \in BusThreads : evt[u] <= Len(refs)
      /\ epc \in [BusThreads -> EventSteps]
  BY Zenon DEF EventTypes, EventSteps
<1>2. /\ evt' \in [BusThreads -> Nat] /\ evt'[t] = e /\ epc'[t] = y
      /\ epc' \in [BusThreads -> EventSteps] /\ OnlyThread(t)
  BY <1>1, Zenon DEF OnlyThread, Moves
<1>3. ASSUME NEW u \in BusThreads PROVE evt'[u] <= Len(refs')
  <2>1. CASE u = t
    BY <1>2, <2>1, Zenon
  <2>2. CASE u # t
    <3>1. evt'[u] = evt[u] /\ evt[u] \in Nat /\ evt[u] <= Len(refs)
      BY <1>1, <1>2, <2>2, Zenon DEF OnlyThread
    <3> QED BY <3>1
  <2> QED BY <2>1, <2>2, Zenon
<1> QED BY <1>2, <1>3, Zenon

\* A new event.
LEMMA NewEvent ==
  ASSUME EventTypes, NEW v \in {0, 1}, refs' = Append(refs, v)
  PROVE  /\ refs' \in Seq(Int) /\ Len(refs') = Len(refs) + 1 /\ Len(refs) + 1 \in Nat
         /\ Len(refs) \in Nat /\ Len(refs') \in Nat /\ Len(refs) <= Len(refs')
         /\ \A e \in 1 .. Len(refs) : refs'[e] = refs[e] /\ e \in 1 .. Len(refs')
         /\ refs'[Len(refs) + 1] = v
         /\ \A e : e \in 1 .. Len(refs') <=> e \in 1 .. Len(refs) \/ e = Len(refs) + 1
         /\ Len(refs) + 1 \notin 1 .. Len(refs) /\ Len(refs) + 1 # 0 /\ 0 \notin 1 .. Len(refs')
<1>1. refs \in Seq(Int) /\ Len(refs) \in Nat /\ v \in Int
  <2>1. refs \in Seq(Int)
    BY Zenon DEF EventTypes
  <2> QED BY <2>1
<1>2. /\ Append(refs, v) \in Seq(Int) /\ Len(Append(refs, v)) = Len(refs) + 1
      /\ \A e \in 1 .. Len(refs) : Append(refs, v)[e] = refs[e]
      /\ Append(refs, v)[Len(refs) + 1] = v
  BY <1>1, SeqAppend
<1>3. /\ refs' \in Seq(Int) /\ Len(refs') = Len(refs) + 1
      /\ \A e \in 1 .. Len(refs) : refs'[e] = refs[e]
      /\ refs'[Len(refs) + 1] = v
  BY <1>2, Zenon
<1>4. PICK n, m \in Nat : n = Len(refs) /\ m = Len(refs') /\ m = n + 1
  BY <1>1, <1>3
<1>5. /\ n + 1 \in Nat /\ n <= m /\ n + 1 \notin 1 .. n /\ n + 1 # 0 /\ 0 \notin 1 .. m
      /\ \A e : e \in 1 .. m <=> e \in 1 .. n \/ e = n + 1
  BY <1>4
<1> QED BY <1>3, <1>4, <1>5, Zenon

\* The queues are left alone.
LEMMA SameQueues ==
  ASSUME queues' = queues, Distinct
  PROVE  Distinct' /\ \A x : Queued(x)' <=> Queued(x)
<1>1. Distinct'
  BY DEF Distinct
<1>2. \A x : Queued(x)' <=> Queued(x)
  BY Zenon DEF Queued
<1> QED BY <1>1, <1>2, Zenon

\* An event is published: raised says whether the counter counts it.
LEMMA PublishEvents ==
  ASSUME Counting, EbusInv, NEW p \in BusThreads, epc[p] = "idle", bus = "running",
         refs' = Append(refs, 1), NEW y \in {"counted", "process"}, Moves(p, Len(refs) + 1, y),
         gen' = (IF y = "counted" THEN gen + 1 ELSE gen), UNCHANGED <<idx, queues, bus, drops>>
  PROVE  EventInv'
<1>0. PICK n : n = Len(refs)
  BY Zenon
<1>1. EventTypes /\ OnePlace /\ evt[p] = 0 /\ gen = Cardinality(Pending) + drops
  BY Zenon DEF EbusInv, EventInv, Steps, RefusalIsSafe
<1>2. /\ n \in Nat /\ ~Queued(0) /\ ~Queued(n + 1) /\ \A t \in BusThreads : evt[t] # n + 1
      /\ Pending = {e \in 1 .. n : Queued(e) \/ Carried(e)}
      /\ IsFiniteSet(Pending) /\ Cardinality(Pending) \in Nat
  BY <1>0, <1>1, EventFacts, Zenon
<1>3. /\ refs' \in Seq(Int) /\ Len(refs') = n + 1 /\ n + 1 \in Nat /\ n <= n + 1
      /\ \A e \in 1 .. n : refs'[e] = refs[e] /\ e \in 1 .. n + 1
      /\ refs'[n + 1] = 1 /\ \A e : e \in 1 .. n + 1 <=> e \in 1 .. n \/ e = n + 1
      /\ n + 1 \notin 1 .. n /\ n + 1 # 0 /\ 0 \notin 1 .. n + 1 /\ n + 1 <= n + 1
  <2>1. 1 \in {0, 1}
    BY Zenon
  <2>2. n + 1 <= n + 1
    BY <1>2
  <2> QED BY <1>0, <1>1, <2>1, <2>2, NewEvent, Zenon
<1> DEFINE raised == y = "counted"
<1>4. y \in EventSteps /\ (y \in {"counted", "popped"} <=> raised)
  BY Zenon DEF EventSteps
<1>5. /\ evt' \in [BusThreads -> Nat] /\ \A u \in BusThreads : evt'[u] <= Len(refs')
      /\ epc' \in [BusThreads -> EventSteps]
      /\ evt'[p] = n + 1 /\ epc'[p] = y /\ OnlyThread(p)
  <2>1. /\ Moves(p, n + 1, y) /\ n + 1 \in Nat /\ n + 1 <= Len(refs') /\ Len(refs) <= Len(refs')
        /\ Len(refs) \in Nat /\ Len(refs') \in Nat
    BY <1>0, <1>2, <1>3, Zenon
  <2> QED BY <1>1, <1>4, <2>1, ThreadTypes, Zenon
<1>6. Distinct' /\ \A x : Queued(x)' <=> Queued(x)
  BY <1>1, SameQueues, Zenon DEF OnePlace
<1>7. \A x : x # 0 => (Held(x)' <=> x = n + 1 \/ Held(x))
  BY <1>1, <1>5, HeldAfter, Zenon
<1>8. \A x : x # 0 => (Carried(x)' <=> (x = n + 1 /\ raised) \/ Carried(x))
  BY <1>1, <1>4, <1>5, CarriedAfter, Zenon
<1>9. EventTypes'
  <2>1. gen' \in Int
    <3>1. gen \in Int
      BY <1>1, Zenon DEF EventTypes
    <3> QED BY <3>1
  <2>2. \A x : Queued(x)' => x \in 1 .. Len(refs')
    BY <1>0, <1>1, <1>3, <1>6, Zenon DEF EventTypes
  <2> QED BY <1>1, <1>3, <1>5, <2>1, <2>2, Zenon DEF EventTypes, EventSteps
<1>10. OnePlace'
  <2>1. \A u \in BusThreads : ~Queued(evt[u])'
    <3> SUFFICES ASSUME NEW u \in BusThreads PROVE ~Queued(evt[u])'
      BY Zenon
    <3>1. PICK x : x = evt'[u]
      BY Zenon
    <3>2. ~Queued(x)
      BY <1>1, <1>2, <1>5, <3>1, ZenonT(40) DEF OnlyThread, OnePlace
    <3> QED BY <1>6, <3>1, <3>2, Zenon DEF Queued
  <2>2. ASSUME NEW e \in 1 .. Len(refs')
        PROVE  refs'[e] = IF Queued(e)' \/ Held(e)' THEN 1 ELSE 0
    <3>0. e # 0
      BY <1>3, Zenon
    <3>1. CASE e = n + 1
      BY <1>3, <1>7, <3>0, <3>1, Zenon
    <3>2. CASE e \in 1 .. n
      <4>1. refs[e] = IF Queued(e) \/ Held(e) THEN 1 ELSE 0
        BY <1>0, <1>1, <3>2, Zenon DEF OnePlace
      <4> QED BY <1>3, <1>6, <1>7, <3>0, <3>2, <4>1, Zenon
    <3> QED BY <1>3, <3>1, <3>2, Zenon
  <2>3. \A u \in BusThreads : u # p => evt[u] # evt'[p]
    BY <1>2, <1>5, Zenon
  <2> QED BY <1>1, <1>5, <1>6, <2>1, <2>2, <2>3, PlacesAfter, Zenon
<1>11. Pending' = IF raised THEN Pending \cup {n + 1} ELSE Pending
  <2>1. Pending' = {e \in 1 .. n + 1 : Queued(e)' \/ Carried(e)'}
    BY <1>3, PendingNext, Zenon
  <2>2. ~Carried(n + 1)
    BY <1>2, Zenon DEF Carried
  <2>3. \A e \in 1 .. n + 1 : e # 0
    BY <1>3, Zenon
  <2>4. ASSUME NEW e \in 1 .. n + 1
        PROVE  e \in Pending' <=> e \in Pending \/ (e = n + 1 /\ raised)
    BY <1>2, <1>3, <1>6, <1>8, <2>1, <2>2, <2>3, Zenon
  <2> QED BY <1>2, <1>3, <2>1, <2>4, Zenon
<1>12. gen' = Cardinality(Pending') + drops'
  <2>1. drops \in Nat
    BY <1>1, Zenon DEF EventTypes
  <2>2. CASE raised
    <3>1. Cardinality(Pending') = Cardinality(Pending) + 1
      BY <1>2, <1>3, <1>11, <2>2, CountAdd, Zenon
    <3>2. PICK c \in Nat : c = Cardinality(Pending)
      BY <1>2, Zenon
    <3>3. gen' = (c + drops) + 1
      BY <1>1, <2>2, <3>2, Zenon
    <3>4. gen' = (c + 1) + drops
      BY <2>1, <3>2, <3>3
    <3> QED BY <3>1, <3>2, <3>4, Zenon
  <2>3. CASE ~raised
    BY <1>1, <1>11, <2>3, Zenon
  <2> QED BY <2>2, <2>3, Zenon
<1> QED BY <1>9, <1>10, <1>12, Zenon DEF EventInv, RefusalIsSafe

\* Thread t goes on with the event it has, if any.
LEMMA StepEvents ==
  ASSUME Counting, EbusInv, NEW t \in BusThreads, NEW a, a = evt[t], NEW y \in {"process", "call", "exited"},
         Moves(t, a, y), epc[t] \in {"idle", "popped", "process"},
         gen' = (IF epc[t] = "popped" THEN gen - 1 ELSE gen), UNCHANGED <<idx, queues, refs, bus, drops>>
  PROVE  EventInv'
<1>0. PICK n : n = Len(refs)
  BY Zenon
<1>1. EventTypes /\ OnePlace /\ (a = 0 <=> epc[t] = "idle") /\ RefusalIsSafe
  BY Zenon DEF EbusInv, EventInv, Steps
<1>2. /\ n \in Nat /\ ~Queued(0) /\ (a # 0 => a \in 1 .. n)
      /\ Pending = {e \in 1 .. n : Queued(e) \/ Carried(e)}
      /\ IsFiniteSet(Pending) /\ Cardinality(Pending) \in Nat
  BY <1>0, <1>1, EventFacts, Zenon
<1>3. 0 \notin 1 .. n /\ n <= n
  BY <1>2
<1>4. /\ evt' \in [BusThreads -> Nat] /\ \A u \in BusThreads : evt'[u] <= Len(refs')
      /\ epc' \in [BusThreads -> EventSteps]
      /\ evt'[t] = a /\ epc'[t] = y /\ OnlyThread(t)
  <2>1. /\ a \in Nat /\ a <= Len(refs') /\ Len(refs) <= Len(refs')
        /\ Len(refs) \in Nat /\ Len(refs') \in Nat /\ y \in EventSteps
    BY <1>0, <1>1, <1>2, <1>3, Zenon DEF EventTypes, EventSteps
  <2> QED BY <1>1, <2>1, ThreadTypes, Zenon
<1>5. Distinct' /\ \A x : Queued(x)' <=> Queued(x)
  BY <1>1, SameQueues, Zenon DEF OnePlace
<1>6. \A x : x # 0 => (Held(x)' <=> Held(x))
  <2>1. \A x : x # 0 => (Held(x)' <=> x = a \/ (Held(x) /\ x # a))
    BY <1>0, <1>1, <1>4, HeldAfter, Zenon
  <2>2. Held(a)
    BY <1>0, Zenon DEF Held
  <2> QED BY <2>1, <2>2, Zenon
<1>7. \A x : x # 0 => /\ Carried(x)' <=> Carried(x) /\ x # a
                      /\ x = a => (Carried(x) <=> epc[t] = "popped")
  <2>1. /\ y \notin {"counted", "popped"}
        /\ epc[t] \in {"counted", "popped"} <=> epc[t] = "popped"
    BY Zenon
  <2> QED BY <1>1, <1>4, <2>1, CarriedAfter, Zenon
<1>8. EventTypes'
  <2>1. gen' \in Int
    <3>1. gen \in Int
      BY <1>1, Zenon DEF EventTypes
    <3> QED BY <3>1
  <2>2. \A x : Queued(x)' => x \in 1 .. Len(refs')
    BY <1>1, <1>5, Zenon DEF EventTypes
  <2> QED BY <1>1, <1>4, <2>1, <2>2, Zenon DEF EventTypes, EventSteps
<1>9. OnePlace'
  <2>1. \A u \in BusThreads : ~Queued(evt[u])'
    <3> SUFFICES ASSUME NEW u \in BusThreads PROVE ~Queued(evt[u])'
      BY Zenon
    <3>1. PICK x : x = evt'[u]
      BY Zenon
    <3>2. ~Queued(x)
      BY <1>1, <1>4, <3>1, Zenon DEF OnlyThread, OnePlace
    <3> QED BY <1>5, <3>1, <3>2, Zenon DEF Queued
  <2>2. ASSUME NEW e \in 1 .. Len(refs')
        PROVE  refs'[e] = IF Queued(e)' \/ Held(e)' THEN 1 ELSE 0
    <3>1. e # 0 /\ e \in 1 .. Len(refs)
      BY <1>0, <1>3, Zenon
    <3>2. refs[e] = IF Queued(e) \/ Held(e) THEN 1 ELSE 0
      BY <1>1, <3>1, Zenon DEF OnePlace
    <3> QED BY <1>5, <1>6, <3>1, <3>2, Zenon
  <2>3. evt'[t] # 0 => \A u \in BusThreads : u # t => evt[u] # evt'[t]
    BY <1>1, <1>4, Zenon DEF OnePlace
  <2> QED BY <1>1, <1>4, <1>5, <2>1, <2>2, <2>3, PlacesAfter, Zenon
<1>10. Pending' = IF epc[t] = "popped" THEN Pending \ {a} ELSE Pending
  <2>1. Pending' = {e \in 1 .. n : Queued(e)' \/ Carried(e)'}
    <3>1. refs' \in Seq(Int)
      BY <1>1, Zenon DEF EventTypes
    <3> QED BY <1>0, <3>1, PendingNext, Zenon
  <2>2. ~Queued(a)
    BY <1>1, Zenon DEF OnePlace
  <2>3. ASSUME NEW e \in 1 .. n
        PROVE  e \in Pending' <=> e \in Pending /\ ~(e = a /\ epc[t] = "popped")
    <3>1. e # 0
      BY <1>3, Zenon
    <3> QED BY <1>2, <1>5, <1>7, <2>1, <2>2, <3>1, Zenon
  <2> QED BY <1>2, <2>1, <2>3, Zenon
<1>11. RefusalIsSafe'
  <2> SUFFICES ASSUME bus # "freed" PROVE gen' = Cardinality(Pending') + drops'
    BY Zenon DEF RefusalIsSafe
  <2>1. drops \in Nat /\ gen = Cardinality(Pending) + drops
    BY <1>1, Zenon DEF EventTypes, RefusalIsSafe
  <2>2. CASE epc[t] = "popped"
    <3>1. a \in Pending
      BY <1>1, <1>2, <1>7, <2>2, Zenon
    <3>2. Cardinality(Pending') = Cardinality(Pending) - 1
      BY <1>2, <1>10, <2>2, <3>1, CountRemove, Zenon
    <3>3. PICK c \in Nat : c = Cardinality(Pending)
      BY <1>2, Zenon
    <3>4. gen' = (c + drops) - 1
      BY <2>1, <2>2, <3>3, Zenon
    <3>5. gen' = (c - 1) + drops
      BY <2>1, <3>3, <3>4
    <3> QED BY <3>2, <3>3, <3>5, Zenon
  <2>3. CASE epc[t] # "popped"
    BY <1>10, <2>1, <2>3, Zenon
  <2> QED BY <2>2, <2>3, Zenon
<1> QED BY <1>8, <1>9, <1>11, Zenon DEF EventInv

\* A refused event is dropped at once.
LEMMA RefuseEvents ==
  ASSUME Counting, EbusInv, NEW p \in Publishers, Refuse(p)
  PROVE  EventInv'
<1>0. PICK n : n = Len(refs)
  BY Zenon
<1>1. refs' = Append(refs, 0) /\ UNCHANGED <<gen, idx, queues, evt, epc, bus, drops>>
  BY Zenon DEF Refuse, threadVars
<1>2. EventTypes /\ OnePlace /\ RefusalIsSafe
  BY Zenon DEF EbusInv, EventInv
<1>3. /\ n \in Nat /\ ~Queued(n + 1) /\ \A t \in BusThreads : evt[t] # n + 1
      /\ \A t \in BusThreads : evt[t] # 0 => evt[t] \in 1 .. n
      /\ Pending = {e \in 1 .. n : Queued(e) \/ Carried(e)}
  BY <1>0, <1>2, EventFacts, Zenon
<1>4. /\ refs' \in Seq(Int) /\ Len(refs') = n + 1 /\ n + 1 \in Nat /\ n <= n + 1
      /\ \A e \in 1 .. n : refs'[e] = refs[e] /\ e \in 1 .. n + 1
      /\ refs'[n + 1] = 0 /\ \A e : e \in 1 .. n + 1 <=> e \in 1 .. n \/ e = n + 1
  <2>1. 0 \in {0, 1}
    BY Zenon
  <2> QED BY <1>0, <1>1, <1>2, <2>1, NewEvent, Zenon
<1>5. Distinct' /\ \A x : Queued(x)' <=> Queued(x)
  BY <1>1, <1>2, SameQueues, Zenon DEF OnePlace
<1>6. \A x : (Held(x)' <=> Held(x)) /\ (Carried(x)' <=> Carried(x))
  BY <1>1, Zenon DEF Held, Carried
<1>7. EventTypes'
  <2>1. \A u \in BusThreads : evt[u] <= n + 1
    <3>1. \A u \in BusThreads : evt[u] \in Nat /\ evt[u] <= n
      BY <1>0, <1>2, Zenon DEF EventTypes
    <3> QED BY <1>3, <3>1
  <2>2. \A x : Queued(x)' => x \in 1 .. Len(refs')
    BY <1>0, <1>2, <1>4, <1>5, Zenon DEF EventTypes
  <2> QED BY <1>1, <1>2, <1>4, <2>1, <2>2, Zenon DEF EventTypes
<1>8. OnePlace'
  <2>1. \A u \in BusThreads : ~Queued(evt[u])'
    BY <1>1, <1>2, ZenonT(40) DEF OnePlace, Queued
  <2>2. ASSUME NEW e \in 1 .. Len(refs')
        PROVE  refs'[e] = IF Queued(e)' \/ Held(e)' THEN 1 ELSE 0
    <3>1. CASE e = n + 1
      BY <1>3, <1>4, <1>5, <1>6, <3>1, Zenon DEF Held
    <3>2. CASE e \in 1 .. n
      <4>1. refs[e] = IF Queued(e) \/ Held(e) THEN 1 ELSE 0
        BY <1>0, <1>2, <3>2, Zenon DEF OnePlace
      <4> QED BY <1>4, <1>5, <1>6, <3>2, <4>1, Zenon
    <3> QED BY <1>4, <3>1, <3>2, Zenon
  <2>3. \A t, u \in BusThreads : evt'[t] = evt'[u] /\ evt'[t] # 0 => t = u
    BY <1>1, <1>2, Zenon DEF OnePlace
  <2> QED BY <1>5, <2>1, <2>2, <2>3, Zenon DEF OnePlace
<1>9. Pending' = Pending
  <2>1. Pending' = {e \in 1 .. n + 1 : Queued(e)' \/ Carried(e)'}
    BY <1>4, PendingNext, Zenon
  <2>2. ~Carried(n + 1)
    BY <1>3, Zenon DEF Carried
  <2> QED BY <1>3, <1>4, <1>5, <1>6, <2>1, <2>2, Zenon
<1> QED BY <1>1, <1>2, <1>7, <1>8, <1>9, Zenon DEF EventInv, RefusalIsSafe

\* Thread t is done with its event: nobody holds it any more.
LEMMA DropEvents ==
  ASSUME Counting, EbusInv, NEW t \in BusThreads, NEW a, a = evt[t], a # 0, Moves(t, 0, "idle"),
         epc[t] # "popped", refs' \in Seq(Int), Len(refs') = Len(refs), refs'[a] = 0,
         \A e \in 1 .. Len(refs) : e # a => refs'[e] = refs[e],
         drops' = (IF epc[t] = "counted" THEN drops + 1 ELSE drops),
         idx' \in Queues, UNCHANGED <<gen, queues, bus>>
  PROVE  EventInv'
<1>0. PICK n : n = Len(refs)
  BY Zenon
<1>1. EventTypes /\ OnePlace /\ RefusalIsSafe
  BY Zenon DEF EbusInv, EventInv
<1>2. /\ n \in Nat /\ ~Queued(0) /\ a \in 1 .. n
      /\ Pending = {e \in 1 .. n : Queued(e) \/ Carried(e)}
      /\ IsFiniteSet(Pending) /\ Cardinality(Pending) \in Nat
  BY <1>0, <1>1, EventFacts, Zenon
<1>3. 0 \notin 1 .. n /\ n <= n /\ 0 <= n /\ 0 \in Nat
  BY <1>2
<1>4. /\ evt' \in [BusThreads -> Nat] /\ \A u \in BusThreads : evt'[u] <= Len(refs')
      /\ epc' \in [BusThreads -> EventSteps]
      /\ evt'[t] = 0 /\ epc'[t] = "idle" /\ OnlyThread(t)
  <2>1. /\ 0 \in Nat /\ 0 <= Len(refs') /\ Len(refs) <= Len(refs')
        /\ Len(refs) \in Nat /\ Len(refs') \in Nat /\ "idle" \in EventSteps
    BY <1>0, <1>2, <1>3, Zenon DEF EventSteps
  <2> QED BY <1>1, <2>1, ThreadTypes, ZenonT(40)
<1>5. Distinct' /\ \A x : Queued(x)' <=> Queued(x)
  BY <1>1, SameQueues, Zenon DEF OnePlace
<1>6. \A x : x # 0 => (Held(x)' <=> Held(x) /\ x # a)
  BY <1>1, <1>4, HeldAfter, Zenon
<1>7. \A x : x # 0 => /\ Carried(x)' <=> Carried(x) /\ x # a
                      /\ x = a => (Carried(x) <=> epc[t] = "counted")
  <2>1. epc[t] \in {"counted", "popped"} <=> epc[t] = "counted"
    BY Zenon
  <2> QED BY <1>1, <1>4, <2>1, CarriedAfter, Zenon
<1>8. ~Queued(a)
  BY <1>1, Zenon DEF OnePlace
<1>9. EventTypes'
  <2>1. drops' \in Nat
    <3>1. drops \in Nat
      BY <1>1, Zenon DEF EventTypes
    <3> QED BY <3>1
  <2>2. \A x : Queued(x)' => x \in 1 .. Len(refs')
    BY <1>1, <1>5, Zenon DEF EventTypes
  <2> QED BY <1>1, <1>4, <2>1, <2>2, Zenon DEF EventTypes, EventSteps
<1>10. OnePlace'
  <2>1. \A u \in BusThreads : ~Queued(evt[u])'
    <3> SUFFICES ASSUME NEW u \in BusThreads PROVE ~Queued(evt[u])'
      BY Zenon
    <3>1. PICK x : x = evt'[u]
      BY Zenon
    <3>2. ~Queued(x)
      <4>1. CASE u = t
        BY <1>2, <1>4, <3>1, <4>1, Zenon
      <4>2. CASE u # t
        BY <1>1, <1>4, <3>1, <4>2, Zenon DEF OnlyThread, OnePlace
      <4> QED BY <4>1, <4>2, Zenon
    <3> QED BY <1>5, <3>1, <3>2, Zenon DEF Queued
  <2>2. ASSUME NEW e \in 1 .. Len(refs')
        PROVE  refs'[e] = IF Queued(e)' \/ Held(e)' THEN 1 ELSE 0
    <3>1. e # 0 /\ e \in 1 .. Len(refs)
      BY <1>0, <1>3, Zenon
    <3>2. refs[e] = IF Queued(e) \/ Held(e) THEN 1 ELSE 0
      BY <1>1, <3>1, Zenon DEF OnePlace
    <3>3. CASE e = a
      BY <1>5, <1>6, <1>8, <3>1, <3>3, Zenon
    <3>4. CASE e # a
      BY <1>5, <1>6, <3>1, <3>2, <3>4, Zenon
    <3> QED BY <3>3, <3>4, Zenon
  <2> QED BY <1>1, <1>4, <1>5, <2>1, <2>2, PlacesAfter, Zenon
<1>11. Pending' = IF epc[t] = "counted" THEN Pending \ {a} ELSE Pending
  <2>1. Pending' = {e \in 1 .. n : Queued(e)' \/ Carried(e)'}
    BY <1>0, PendingNext, Zenon
  <2>2. ASSUME NEW e \in 1 .. n
        PROVE  e \in Pending' <=> e \in Pending /\ ~(e = a /\ epc[t] = "counted")
    <3>1. e # 0
      BY <1>3, Zenon
    <3> QED BY <1>2, <1>5, <1>7, <1>8, <2>1, <3>1, Zenon
  <2> QED BY <1>2, <2>1, <2>2, Zenon
<1>12. RefusalIsSafe'
  <2> SUFFICES ASSUME bus # "freed" PROVE gen' = Cardinality(Pending') + drops'
    BY Zenon DEF RefusalIsSafe
  <2>1. drops \in Nat /\ gen = Cardinality(Pending) + drops
    BY <1>1, Zenon DEF EventTypes, RefusalIsSafe
  <2>2. CASE epc[t] = "counted"
    <3>1. a \in Pending
      BY <1>2, <1>7, <2>2, Zenon
    <3>2. Cardinality(Pending') = Cardinality(Pending) - 1
      BY <1>2, <1>11, <2>2, <3>1, CountRemove, Zenon
    <3>3. PICK c \in Nat, d \in Nat : c = Cardinality(Pending) /\ d = drops
      BY <1>2, <2>1, Zenon
    <3>4. gen' = c + d /\ drops' = d + 1
      BY <2>1, <2>2, <3>3, Zenon
    <3>6. c + d = (c - 1) + (d + 1)
      BY <3>3
    <3>5. gen' = (c - 1) + drops'
      BY <3>4, <3>6, Zenon
    <3> QED BY <3>2, <3>3, <3>5, Zenon
  <2>3. CASE epc[t] # "counted"
    BY <1>11, <2>1, <2>3, Zenon
  <2> QED BY <2>2, <2>3, Zenon
<1> QED BY <1>9, <1>10, <1>12, Zenon DEF EventInv

\* An event moves into a queue or out of it: q says how the queues change.
LEMMA MoveEvents ==
  ASSUME Counting, EbusInv, NEW t \in BusThreads, NEW a, a = evt[t], NEW b \in Nat, NEW y \in EventSteps,
         Moves(t, b, y), queues' \in [Queues -> Seq(Nat)], Distinct', idx' \in Queues,
         \/ /\ a # 0 /\ epc[t] = "counted" /\ b = 0 /\ y = "idle"
            /\ \A x : Queued(x)' <=> Queued(x) \/ x = a
         \/ /\ a = 0 /\ b # 0 /\ Queued(b) /\ y = "popped"
            /\ \A x : Queued(x)' <=> Queued(x) /\ x # b,
         UNCHANGED <<gen, refs, bus, drops>>
  PROVE  EventInv'
<1>0. PICK n : n = Len(refs)
  BY Zenon
<1>1. EventTypes /\ OnePlace /\ RefusalIsSafe
  BY Zenon DEF EbusInv, EventInv
<1>2. /\ n \in Nat /\ ~Queued(0) /\ (a # 0 => a \in 1 .. n) /\ ~Queued(a)
      /\ Pending = {e \in 1 .. n : Queued(e) \/ Carried(e)}
      /\ b # 0 => b \in 1 .. n
  BY <1>0, <1>1, EventFacts, Zenon DEF OnePlace, EventTypes
<1>3. 0 \notin 1 .. n /\ n <= n /\ b <= n
  BY <1>2
<1>4. /\ evt' \in [BusThreads -> Nat] /\ \A u \in BusThreads : evt'[u] <= Len(refs')
      /\ epc' \in [BusThreads -> EventSteps]
      /\ evt'[t] = b /\ epc'[t] = y /\ OnlyThread(t)
  <2>1. /\ b <= Len(refs') /\ Len(refs) <= Len(refs')
        /\ Len(refs) \in Nat /\ Len(refs') \in Nat
    BY <1>0, <1>2, <1>3, Zenon
  <2> QED BY <1>1, <2>1, ThreadTypes, Zenon
<1>5. \A x : x # 0 => (Held(x)' <=> x = b \/ (Held(x) /\ x # a))
  BY <1>1, <1>4, HeldAfter, Zenon
<1>6. \A x : x # 0 => /\ Carried(x)' <=> (x = b /\ y \in {"counted", "popped"}) \/ (Carried(x) /\ x # a)
                      /\ x = a => (Carried(x) <=> epc[t] \in {"counted", "popped"})
  BY <1>1, <1>4, CarriedAfter, Zenon
<1>7. Held(a)
  BY Zenon DEF Held
<1>8. ASSUME NEW x, x # 0
      PROVE  /\ Queued(x)' \/ Held(x)' <=> Queued(x) \/ Held(x)
             /\ Queued(x)' \/ Carried(x)' <=> Queued(x) \/ Carried(x)
  <2>1. CASE a # 0 /\ epc[t] = "counted" /\ b = 0 /\ y = "idle" /\ \A z : Queued(z)' <=> Queued(z) \/ z = a
    <3>1. Carried(x)' <=> Carried(x) /\ x # a
      BY <1>6, <1>8, <2>1, Zenon
    <3>2. x = a => Carried(x)
      BY <1>6, <1>8, <2>1, Zenon
    <3>3. Held(x)' <=> Held(x) /\ x # a
      BY <1>5, <1>8, <2>1, Zenon
    <3> QED BY <1>7, <2>1, <3>1, <3>2, <3>3, Zenon
  <2>2. CASE a = 0 /\ b # 0 /\ Queued(b) /\ y = "popped" /\ \A z : Queued(z)' <=> Queued(z) /\ z # b
    <3>1. Carried(x)' <=> x = b \/ Carried(x)
      BY <1>6, <1>8, <2>2, Zenon
    <3>2. Held(x)' <=> x = b \/ Held(x)
      BY <1>5, <1>8, <2>2, Zenon
    <3> QED BY <2>2, <3>1, <3>2, Zenon
  <2> QED BY <2>1, <2>2, Zenon
<1>9. EventTypes'
  <2>1. \A x : Queued(x)' => x \in 1 .. Len(refs')
    BY <1>0, <1>1, <1>2, Zenon DEF EventTypes
  <2> QED BY <1>1, <1>4, <2>1, Zenon DEF EventTypes, EventSteps
<1>10. OnePlace'
  <2>1. \A u \in BusThreads : ~Queued(evt[u])'
    <3> SUFFICES ASSUME NEW u \in BusThreads PROVE ~Queued(evt[u])'
      BY Zenon
    <3>1. PICK x : x = evt'[u]
      BY Zenon
    <3>2. ~Queued(x)'
      <4>1. CASE u = t
        BY <1>2, <1>4, <3>1, <4>1, Zenon
      <4>2. CASE u # t
        <5>1. x = evt[u] /\ ~Queued(x)
          BY <1>1, <1>4, <3>1, <4>2, Zenon DEF OnlyThread, OnePlace
        <5>2. a # 0 => x # a
          BY <1>1, <4>2, <5>1, Zenon DEF OnePlace
        <5> QED BY <5>1, <5>2, Zenon
      <4> QED BY <4>1, <4>2, Zenon
    <3> QED BY <3>1, <3>2, Zenon DEF Queued
  <2>2. ASSUME NEW e \in 1 .. Len(refs')
        PROVE  refs'[e] = IF Queued(e)' \/ Held(e)' THEN 1 ELSE 0
    <3>1. e # 0 /\ e \in 1 .. Len(refs)
      BY <1>0, <1>3, Zenon
    <3>2. refs[e] = IF Queued(e) \/ Held(e) THEN 1 ELSE 0
      BY <1>1, <3>1, Zenon DEF OnePlace
    <3> QED BY <1>8, <3>1, <3>2, Zenon
  <2>3. evt'[t] # 0 => \A u \in BusThreads : u # t => evt[u] # evt'[t]
    BY <1>1, <1>4, Zenon DEF OnePlace
  <2> QED BY <1>1, <1>4, <2>1, <2>2, <2>3, PlacesAfter, Zenon
<1>11. Pending' = Pending
  <2>1. Pending' = {e \in 1 .. n : Queued(e)' \/ Carried(e)'}
    <3>1. refs' \in Seq(Int)
      BY <1>1, Zenon DEF EventTypes
    <3> QED BY <1>0, <3>1, PendingNext, Zenon
  <2>2. ASSUME NEW e \in 1 .. n PROVE e \in Pending' <=> e \in Pending
    <3>1. e # 0
      BY <1>3, Zenon
    <3> QED BY <1>2, <1>8, <2>1, <3>1, Zenon
  <2> QED BY <1>2, <2>1, <2>2, Zenon
<1> QED BY <1>1, <1>9, <1>10, <1>11, Zenon DEF EventInv, RefusalIsSafe

\* The bus is freed: its threads have ended, and the queues lose their references.
LEMMA FreeEvents ==
  ASSUME Counting, EbusInv, Free
  PROVE  EventInv'
<1>0. PICK n : n = Len(refs)
  BY Zenon
<1>1. /\ bus = "stopping" /\ \A w \in Workers : epc[w] = "exited"
      /\ refs' = [e \in Events |-> refs[e] - IF Queued(e) THEN 1 ELSE 0]
      /\ queues' = [q \in Queues |-> <<>>] /\ bus' = "freed"
      /\ UNCHANGED <<gen, idx, epc, evt, drops>>
  BY Zenon DEF Free, threadVars
<1>2. EventTypes /\ OnePlace /\ Steps
  BY Zenon DEF EbusInv, EventInv
<1>3. n \in Nat /\ Events = 1 .. n
  BY <1>0, <1>2, EventFacts, Zenon
<1>4. \A t \in BusThreads : evt[t] = 0
  <2>1. \A p \in Publishers : epc[p] = "idle"
    BY <1>1, <1>2, Zenon DEF Steps
  <2> QED BY <1>1, <1>2, <2>1, Zenon DEF Steps, BusThreads
<1>5. \A e \in 1 .. n : refs[e] \in Int
  BY <1>0, <1>2, SeqTypes, Zenon DEF EventTypes
<1>6. /\ refs' \in [1 .. n -> Int]
      /\ \A e \in 1 .. n : refs'[e] = refs[e] - IF Queued(e) THEN 1 ELSE 0
  <2>1. \A e \in 1 .. n : refs[e] - (IF Queued(e) THEN 1 ELSE 0) \in Int
    BY <1>5
  <2> QED BY <1>1, <1>3, <2>1, Zenon
<1>7. refs' \in Seq(Int) /\ Len(refs') = n
  BY <1>3, <1>6
<1>8. 0 \notin 1 .. n
  BY <1>3
<1>9. queues' \in [Queues -> Seq(Nat)] /\ \A q \in Queues : queues'[q] = <<>>
  <2>1. <<>> \in Seq(Nat)
    OBVIOUS
  <2> QED BY <1>1, <2>1, Zenon
<1>10. Distinct' /\ \A x : ~Queued(x)'
  <2>1. \A q \in Queues : DOMAIN queues'[q] = {} /\ 1 .. Len(queues'[q]) = {}
    BY <1>9
  <2> QED BY <2>1, Zenon DEF Distinct, Queued
<1>11. EventTypes'
  BY <1>0, <1>1, <1>2, <1>7, <1>9, <1>10, Zenon DEF EventTypes
<1>12. ASSUME NEW e \in 1 .. n PROVE refs'[e] = 0 /\ ~Held(e)'
  <2>1. ~Held(e) /\ ~Held(e)'
    BY <1>1, <1>4, <1>8, Zenon DEF Held
  <2>2. refs[e] = IF Queued(e) THEN 1 ELSE 0
    BY <1>0, <1>2, <2>1, Zenon DEF OnePlace
  <2> QED BY <1>6, <2>1, <2>2
<1>13. OnePlace'
  <2>1. \A e \in 1 .. Len(refs') : refs'[e] = IF Queued(e)' \/ Held(e)' THEN 1 ELSE 0
    BY <1>7, <1>10, <1>12, Zenon
  <2>2. \A t, u \in BusThreads : evt'[t] = evt'[u] /\ evt'[t] # 0 => t = u
    BY <1>1, <1>4, Zenon
  <2>3. \A t \in BusThreads : ~Queued(evt[t])'
    <3>1. \A q \in Queues : DOMAIN queues'[q] = {}
      BY <1>9
    <3> QED BY <3>1, Zenon DEF Queued
  <2> QED BY <1>10, <2>1, <2>2, <2>3, Zenon DEF OnePlace
<1> QED BY <1>1, <1>11, <1>13, Zenon DEF EventInv, RefusalIsSafe

\* A step that leaves the events alone.
LEMMA EventsSame ==
  ASSUME EbusInv, UNCHANGED <<gen, idx, queues, refs, evt, epc, drops>>,
         bus' \in {"running", "stopping", "freed"}, bus' = "freed" <=> bus = "freed"
  PROVE  EventInv'
<1>1. EventTypes /\ OnePlace /\ RefusalIsSafe
  BY Zenon DEF EbusInv, EventInv
<1>2. Distinct' /\ \A x : Queued(x)' <=> Queued(x)
  BY <1>1, SameQueues, Zenon DEF OnePlace
<1>3. \A x : (Held(x)' <=> Held(x)) /\ (Carried(x)' <=> Carried(x))
  BY Zenon DEF Held, Carried
<1>4. EventTypes'
  BY <1>1, <1>2, Zenon DEF EventTypes
<1>5. OnePlace'
  <2>1. \A e \in 1 .. Len(refs') : refs'[e] = IF Queued(e)' \/ Held(e)' THEN 1 ELSE 0
    BY <1>1, <1>2, <1>3, Zenon DEF OnePlace
  <2>2. \A t \in BusThreads : ~Queued(evt[t])'
    BY <1>1, ZenonT(40) DEF OnePlace, Queued
  <2> QED BY <1>1, <1>2, <2>1, <2>2, Zenon DEF OnePlace
<1>6. Pending' = Pending
  BY Zenon DEF Pending, Events, Queued
<1> QED BY <1>1, <1>4, <1>5, <1>6, Zenon DEF EventInv, RefusalIsSafe

\* An owner's step.
LEMMA OwnerSteps ==
  ASSUME Steps, bus = "running", UNCHANGED <<queues, epc, evt, list, left, call, bus>>
  PROVE  Steps'
BY Zenon DEF Steps

\* A step of thread t, which is at step y after it.
LEMMA ThreadSteps ==
  ASSUME Steps, bus # "freed", UNCHANGED <<owner, bus>>, NEW t \in BusThreads, NEW y, y = epc'[t],
         OnlyThread(t),
         \A u \in BusThreads : u # t => list'[u] = list[u] /\ left'[u] = left[u] /\ call'[u] = call[u],
         left' \in [BusThreads -> SUBSET Subscribers], call' \in [BusThreads -> SUBSET Subscribers],
         t \in Workers => y # "counted" /\ (y = "exited" => bus # "running"),
         t \in Publishers => y \notin {"popped", "exited"} /\ (y # "idle" => bus = "running"),
         evt'[t] = 0 <=> y \in {"idle", "exited"}, list'[t] = 0 <=> y # "call",
         y # "call" => left'[t] = {} /\ call'[t] = {}
  PROVE  Steps'
<1>1. ASSUME NEW w \in Workers
      PROVE  epc'[w] # "counted" /\ (epc'[w] = "exited" => bus' # "running")
  <2>1. CASE w = t
    BY <2>1, Zenon
  <2>2. CASE w # t
    <3>1. epc'[w] = epc[w]
      BY <2>2, Zenon DEF OnlyThread, BusThreads
    <3> QED BY <3>1, ZenonT(40) DEF Steps
  <2> QED BY <2>1, <2>2, Zenon
<1>2. ASSUME NEW p \in Publishers
      PROVE  epc'[p] \notin {"popped", "exited"} /\ (epc'[p] # "idle" => bus' = "running")
  <2>1. CASE p = t
    BY <2>1, Zenon
  <2>2. CASE p # t
    <3>1. epc'[p] = epc[p]
      BY <2>2, Zenon DEF OnlyThread, BusThreads
    <3> QED BY <3>1, Zenon DEF Steps
  <2> QED BY <2>1, <2>2, Zenon
<1>3. ASSUME NEW u \in BusThreads
      PROVE  /\ evt'[u] = 0 <=> epc'[u] \in {"idle", "exited"}
             /\ list'[u] = 0 <=> epc'[u] # "call"
             /\ epc'[u] # "call" => left'[u] = {} /\ call'[u] = {}
  <2>1. CASE u = t
    BY <2>1, Zenon
  <2>2. CASE u # t
    <3>1. /\ evt'[u] = evt[u] /\ epc'[u] = epc[u]
          /\ list'[u] = list[u] /\ left'[u] = left[u] /\ call'[u] = call[u]
      BY <2>2, Zenon DEF OnlyThread
    <3> QED BY <3>1, Zenon DEF Steps
  <2> QED BY <2>1, <2>2, Zenon
<1> QED BY <1>1, <1>2, <1>3, Zenon DEF Steps

-----------------------------------------------------------------------------
\* The steps of the bus, one after the other.
LEMMA ThreadsOf == Workers \subseteq BusThreads /\ Publishers \subseteq BusThreads
BY Zenon DEF BusThreads

\* mdv_ebus_subscribe_all, mdv_ebus_unsubscribe_all and its wait keep the accounts.
LEMMA OwnerInv ==
  ASSUME Counting, EbusInv, NEW s \in Subscribers,
         Subscribe(s) \/ Unsubscribe(s) \/ UnsubscribeFail(s) \/ Wait(s)
  PROVE  EbusInv'
<1>1. UNCHANGED <<gen, idx, queues, refs, epc, evt, list, left, call, bus, drops>>
  BY Zenon DEF Subscribe, Unsubscribe, UnsubscribeFail, Wait, threadVars
<1>2. bus = "running" /\ bus \in {"running", "stopping", "freed"} /\ Steps
  BY Zenon DEF EbusInv, Steps, Subscribe, Unsubscribe, UnsubscribeFail, Wait
<1>3. ListTypes' /\ ListRefs'
  BY ListsAfter, Zenon
<1>4. EventInv'
  BY <1>1, <1>2, EventsSame, Zenon
<1>5. Steps'
  BY <1>1, <1>2, OwnerSteps, Zenon
<1> QED BY <1>3, <1>4, <1>5, Zenon DEF EbusInv

\* A publisher with a new event keeps the accounts: mdv_ebus_publish up to the count.
LEMMA PublishInv ==
  ASSUME Counting, EbusInv, NEW p \in Publishers, PublishSync(p) \/ \E unique \in BOOLEAN : Count(p, unique)
  PROVE  EbusInv'
<1>1. /\ bus = "running" /\ epc[p] = "idle" /\ refs' = Append(refs, 1)
      /\ evt' = [evt EXCEPT ![p] = Len(refs')]
      /\ UNCHANGED <<lists, idx, queues, list, left, call, owner, prev, bus, drops>>
      /\ \/ epc' = [epc EXCEPT ![p] = "counted"] /\ gen' = gen + 1
         \/ epc' = [epc EXCEPT ![p] = "process"] /\ gen' = gen
  BY Zenon DEF PublishSync, Count, ownerVars
<1>2. PICK y \in {"counted", "process"} : /\ epc' = [epc EXCEPT ![p] = y]
                                         /\ gen' = IF y = "counted" THEN gen + 1 ELSE gen
  BY <1>1, Zenon
<1>3. EventTypes /\ ListTypes /\ ListRefs /\ Steps /\ p \in BusThreads
  BY ThreadsOf, Zenon DEF EbusInv, EventInv
<1>4. /\ Len(refs') = Len(refs) + 1 /\ Len(refs) + 1 # 0 /\ Len(refs) + 1 \in Nat /\ Len(refs) \in Nat
      /\ Len(refs') \in Nat /\ Len(refs) <= Len(refs')
  <2>1. 1 \in {0, 1}
    BY Zenon
  <2> QED BY <1>1, <1>3, <2>1, NewEvent, Zenon
<1>5. Moves(p, Len(refs) + 1, y)
  BY <1>1, <1>2, <1>4, Zenon DEF Moves
<1>6. EventInv'
  BY <1>1, <1>2, <1>3, <1>5, PublishEvents, Zenon
<1>7. ListTypes' /\ ListRefs'
  BY <1>1, <1>3, ListsSame, Zenon
<1>8. evt'[p] # 0 /\ epc'[p] = y /\ OnlyThread(p)
  <2>1. Len(refs) + 1 <= Len(refs') /\ y \in EventSteps
    BY <1>4 DEF EventSteps
  <2>2. evt'[p] = Len(refs) + 1 /\ epc'[p] = y /\ OnlyThread(p)
    BY <1>3, <1>4, <1>5, <2>1, ThreadTypes, Zenon
  <2> QED BY <1>4, <2>2, Zenon
<1>9. Steps'
  <2>1. /\ left' \in [BusThreads -> SUBSET Subscribers] /\ call' \in [BusThreads -> SUBSET Subscribers]
        /\ list[p] = 0 /\ left[p] = {} /\ call[p] = {}
        /\ y \notin {"idle", "popped", "exited", "call"} /\ bus # "freed"
    BY <1>1, <1>2, <1>3, Zenon DEF Steps
  <2>2. p \notin Workers
    BY EbusAssumption, Zenon
  <2> QED BY <1>1, <1>3, <1>8, <2>1, <2>2, ThreadSteps, Zenon
<1> QED BY <1>6, <1>7, <1>9, Zenon DEF EbusInv

\* A refused unique event leaves the accounts as they were.
LEMMA RefuseInv ==
  ASSUME Counting, EbusInv, NEW p \in Publishers, Refuse(p)
  PROVE  EbusInv'
<1>1. /\ bus = "running"
      /\ UNCHANGED <<lists, queues, epc, evt, list, left, call, owner, prev, bus>>
  BY Zenon DEF Refuse, threadVars, ownerVars
<1>2. ListTypes /\ ListRefs /\ Steps
  BY Zenon DEF EbusInv
<1>3. ListTypes' /\ ListRefs'
  BY <1>1, <1>2, ListsSame, Zenon
<1>4. Steps'
  BY <1>1, <1>2, OwnerSteps, Zenon
<1> QED BY <1>3, <1>4, RefuseEvents, Zenon DEF EbusInv

\* The round-robin index stays within the queues.
LEMMA NextQueue ==
  ASSUME EventTypes
  PROVE  (idx + 1) % QueueCount \in Queues
<1>1. idx \in 0 .. QueueCount - 1 /\ QueueCount \in Nat \ {0}
  BY EbusAssumption, Zenon DEF EventTypes, Queues
<1> QED BY <1>1 DEF Queues

\* A push to the next queue keeps the accounts.
LEMMA PushInv ==
  ASSUME Counting, EbusInv, NEW p \in Publishers, Push(p)
  PROVE  EbusInv'
<1>0. PICK q, a : q = (idx + 1) % QueueCount /\ a = evt[p]
  BY Zenon
<1>1. /\ epc[p] = "counted" /\ idx' = q /\ queues' = [queues EXCEPT ![q] = Append(@, a)]
      /\ Moves(p, 0, "idle")
      /\ UNCHANGED <<lists, gen, refs, list, left, call, owner, prev, bus, drops>>
  BY <1>0, Zenon DEF Push, Moves, ownerVars
<1>2. EventTypes /\ OnePlace /\ ListTypes /\ ListRefs /\ Steps /\ p \in BusThreads
  BY ThreadsOf, Zenon DEF EbusInv, EventInv
<1>3. q \in Queues /\ a # 0 /\ a \in Nat /\ ~Queued(a)
  BY <1>0, <1>1, <1>2, NextQueue, Zenon DEF Steps, EventTypes, OnePlace
<1>4. /\ queues' \in [Queues -> Seq(Nat)] /\ Distinct'
      /\ \A x : Queued(x)' <=> Queued(x) \/ x = a
  BY <1>1, <1>2, <1>3, PushedQueue, Zenon DEF EventTypes, OnePlace
<1>5. 0 \in Nat /\ "idle" \in EventSteps
  BY Zenon DEF EventSteps
<1>6. EventInv'
  BY <1>0, <1>1, <1>2, <1>3, <1>4, <1>5, MoveEvents, Zenon
<1>7. ListTypes' /\ ListRefs'
  BY <1>1, <1>2, ListsSame, Zenon
<1>8. evt'[p] = 0 /\ epc'[p] = "idle" /\ OnlyThread(p)
  <2>1. Len(refs) \in Nat /\ 0 <= Len(refs) /\ Len(refs) <= Len(refs) /\ refs' = refs
    <3>1. Len(refs) \in Nat
      BY <1>2, EventFacts, Zenon
    <3>2. 0 <= Len(refs) /\ Len(refs) <= Len(refs)
      BY <3>1
    <3> QED BY <1>1, <3>1, <3>2, Zenon
  <2> QED BY <1>1, <1>2, <1>5, <2>1, ThreadTypes, Zenon
<1>9. Steps'
  <2>1. /\ left' \in [BusThreads -> SUBSET Subscribers] /\ call' \in [BusThreads -> SUBSET Subscribers]
        /\ list[p] = 0 /\ left[p] = {} /\ call[p] = {} /\ bus # "freed"
    BY <1>1, <1>2, Zenon DEF Steps
  <2>2. p \notin Workers
    BY EbusAssumption, Zenon
  <2> QED BY <1>1, <1>2, <1>8, <2>1, <2>2, ThreadSteps, Zenon
<1> QED BY <1>6, <1>7, <1>9, Zenon DEF EbusInv

\* Thread t is at step y with event b, and its list and calls are as they were.
LEMMA ThreadMoved ==
  ASSUME Counting, EbusInv, NEW t \in BusThreads, NEW b \in Nat, NEW y \in EventSteps, Moves(t, b, y),
         Len(refs') = Len(refs), b <= Len(refs)
  PROVE  evt'[t] = b /\ epc'[t] = y /\ OnlyThread(t)
<1>1. EventTypes /\ Len(refs) \in Nat
  BY EventFacts, Zenon DEF EbusInv, EventInv
<1>2. b <= Len(refs') /\ Len(refs) <= Len(refs') /\ Len(refs') \in Nat
  BY <1>1
<1> QED BY <1>1, <1>2, ThreadTypes, Zenon

\* A step of one thread that does not touch the list of handlers keeps Steps.
LEMMA QuietSteps ==
  ASSUME EbusInv, NEW t \in BusThreads, NEW b, NEW y, OnlyThread(t), evt'[t] = b, epc'[t] = y,
         epc[t] # "call", y # "call", bus # "freed", UNCHANGED <<list, left, call, owner, bus>>,
         t \in Workers => y # "counted" /\ (y = "exited" => bus # "running"),
         t \in Publishers => y \notin {"popped", "exited"} /\ (y # "idle" => bus = "running"),
         b = 0 <=> y \in {"idle", "exited"}
  PROVE  Steps'
<1>1. /\ left' \in [BusThreads -> SUBSET Subscribers] /\ call' \in [BusThreads -> SUBSET Subscribers]
      /\ list[t] = 0 /\ left[t] = {} /\ call[t] = {} /\ Steps
  BY Zenon DEF EbusInv, Steps
<1> QED BY <1>1, ThreadSteps, Zenon

\* A push to a full queue, which drops the event, keeps the accounts.
LEMMA PushFailInv ==
  ASSUME Counting, EbusInv, NEW p \in Publishers, PushFail(p)
  PROVE  EbusInv'
<1>0. PICK a : a = evt[p]
  BY Zenon
<1>1. /\ epc[p] = "counted" /\ idx' = (idx + 1) % QueueCount /\ refs' = [refs EXCEPT ![a] = 0]
      /\ drops' = drops + 1 /\ Moves(p, 0, "idle")
      /\ UNCHANGED <<lists, gen, queues, list, left, call, owner, prev, bus>>
  BY <1>0, Zenon DEF PushFail, Moves, ownerVars
<1>2. EventTypes /\ ListTypes /\ ListRefs /\ Steps /\ p \in BusThreads /\ p \notin Workers
  <2>1. p \notin Workers
    BY EbusAssumption
  <2> QED BY <2>1, ThreadsOf, Zenon DEF EbusInv, EventInv
<1>3. /\ a # 0 /\ a \in 1 .. Len(refs) /\ idx' \in Queues /\ refs \in Seq(Int)
      /\ bus = "running"
  BY <1>0, <1>1, <1>2, NextQueue, EventFacts, Zenon DEF Steps, EventTypes
<1>4. /\ refs' \in Seq(Int) /\ Len(refs') = Len(refs) /\ refs'[a] = 0
      /\ \A e \in 1 .. Len(refs) : e # a => refs'[e] = refs[e]
  BY <1>1, <1>3
<1>5. EventInv'
  BY <1>0, <1>1, <1>2, <1>3, <1>4, DropEvents, Zenon
<1>6. ListTypes' /\ ListRefs'
  BY <1>1, <1>2, ListsSame, Zenon
<1>7. evt'[p] = 0 /\ epc'[p] = "idle" /\ OnlyThread(p)
  <2>1. 0 \in Nat /\ 0 <= Len(refs) /\ "idle" \in EventSteps
    BY <1>3 DEF EventSteps
  <2> QED BY <1>1, <1>2, <1>4, <2>1, ThreadMoved, Zenon
<1>8. Steps'
  BY <1>1, <1>2, <1>3, <1>7, QuietSteps, Zenon
<1> QED BY <1>5, <1>6, <1>8, Zenon DEF EbusInv

\* A worker that takes an event keeps the accounts.
LEMMA PopInv ==
  ASSUME Counting, EbusInv, NEW w \in Workers, NEW q \in Queues, Pop(w, q)
  PROVE  EbusInv'
<1>0. PICK b : b = Head(queues[q])
  BY Zenon
<1>1. /\ epc[w] = "idle" /\ queues[q] # <<>> /\ queues' = [queues EXCEPT ![q] = Tail(@)]
      /\ Moves(w, b, "popped")
      /\ UNCHANGED <<lists, gen, idx, refs, list, left, call, owner, prev, bus, drops>>
  BY <1>0, Zenon DEF Pop, Moves, ownerVars
<1>2. /\ EventTypes /\ OnePlace /\ ListTypes /\ ListRefs /\ Steps /\ w \in BusThreads
      /\ w \notin Publishers
  <2>1. w \notin Publishers
    BY EbusAssumption, Zenon
  <2> QED BY <2>1, ThreadsOf, Zenon DEF EbusInv, EventInv
<1>3. evt[w] = 0 /\ bus # "freed"
  BY <1>1, <1>2, Zenon DEF Steps
<1>4. /\ queues' \in [Queues -> Seq(Nat)] /\ Distinct'
      /\ \A x : Queued(x)' <=> Queued(x) /\ x # b
      /\ Queued(b)
  BY <1>0, <1>1, <1>2, PoppedQueue, Zenon DEF EventTypes, OnePlace
<1>5. b \in 1 .. Len(refs) /\ Len(refs) \in Nat /\ idx \in Queues
  BY <1>2, <1>4, EventFacts, Zenon DEF EventTypes
<1>6. b \in Nat /\ b # 0 /\ b <= Len(refs) /\ "popped" \in EventSteps
  BY <1>5 DEF EventSteps
<1>7. EventInv'
  BY <1>1, <1>2, <1>3, <1>4, <1>5, <1>6, MoveEvents, Zenon
<1>8. ListTypes' /\ ListRefs'
  BY <1>1, <1>2, ListsSame, Zenon
<1>9. evt'[w] = b /\ epc'[w] = "popped" /\ OnlyThread(w)
  BY <1>1, <1>2, <1>6, ThreadMoved, Zenon
<1>10. Steps'
  BY <1>1, <1>2, <1>3, <1>6, <1>9, QuietSteps, Zenon
<1> QED BY <1>7, <1>8, <1>10, Zenon DEF EbusInv

\* A worker lowers the counter, or leaves.
LEMMA WorkerInv ==
  ASSUME Counting, EbusInv, NEW w \in Workers, Uncount(w) \/ Exit(w)
  PROVE  EbusInv'
<1>0. PICK a : a = evt[w]
  BY Zenon
<1>1. /\ UNCHANGED <<lists, idx, queues, refs, evt, list, left, call, owner, prev, bus, drops>>
      /\ \/ /\ epc[w] = "popped" /\ gen' = gen - 1 /\ epc' = [epc EXCEPT ![w] = "process"]
         \/ /\ epc[w] = "idle" /\ gen' = gen /\ epc' = [epc EXCEPT ![w] = "exited"]
            /\ bus = "stopping"
  BY Zenon DEF Uncount, Exit, ownerVars
<1>2. /\ EventTypes /\ ListTypes /\ ListRefs /\ Steps /\ w \in BusThreads
      /\ w \notin Publishers
  <2>1. w \notin Publishers
    BY EbusAssumption, Zenon
  <2> QED BY <2>1, ThreadsOf, Zenon DEF EbusInv, EventInv
<1>3. a \in Nat /\ a <= Len(refs) /\ evt' = [evt EXCEPT ![w] = a]
  BY <1>0, <1>1, <1>2, Zenon DEF EventTypes
<1>4. PICK y \in {"process", "exited"} :
        /\ epc' = [epc EXCEPT ![w] = y]
        /\ epc[w] = (IF y = "process" THEN "popped" ELSE "idle")
        /\ gen' = (IF epc[w] = "popped" THEN gen - 1 ELSE gen)
        /\ y = "exited" => bus = "stopping"
  BY <1>1, Zenon
<1>5. Moves(w, a, y) /\ y \in EventSteps
  BY <1>3, <1>4, Zenon DEF Moves, EventSteps
<1>6. EventInv'
  BY <1>0, <1>1, <1>2, <1>4, <1>5, StepEvents, Zenon
<1>7. ListTypes' /\ ListRefs'
  BY <1>1, <1>2, ListsSame, Zenon
<1>8. evt'[w] = a /\ epc'[w] = y /\ OnlyThread(w)
  BY <1>1, <1>2, <1>3, <1>5, ThreadMoved, Zenon
<1>9. Steps'
  <2>1. bus # "freed" /\ (a = 0 <=> y \in {"idle", "exited"}) /\ epc[w] # "call"
    BY <1>0, <1>2, <1>4, Zenon DEF Steps
  <2> QED BY <1>1, <1>2, <1>4, <1>8, <2>1, QuietSteps, Zenon
<1> QED BY <1>6, <1>7, <1>9, Zenon DEF EbusInv

\* A thread that takes the list of handlers keeps the accounts.
LEMMA TakeListInv ==
  ASSUME Counting, EbusInv, NEW t \in BusThreads, TakeList(t)
  PROVE  EbusInv'
<1>0. PICK a : a = evt[t]
  BY Zenon
<1>1. /\ epc[t] = "process" /\ epc' = [epc EXCEPT ![t] = "call"]
      /\ list' = [list EXCEPT ![t] = Len(lists)]
      /\ left' = [left EXCEPT ![t] = lists[Len(lists)].subs]
      /\ UNCHANGED <<gen, idx, queues, refs, evt, call, owner, bus, drops>>
  BY Zenon DEF TakeList, ownerVars, Current
<1>2. EventTypes /\ ListTypes /\ Steps
  BY Zenon DEF EbusInv, EventInv
<1>3. /\ a \in Nat /\ a <= Len(refs) /\ evt' = [evt EXCEPT ![t] = a] /\ a # 0
      /\ bus # "freed" /\ (t \in Publishers => bus = "running")
  BY <1>0, <1>1, <1>2, Zenon DEF EventTypes, Steps, BusThreads
<1>4. Moves(t, a, "call") /\ "call" \in EventSteps
  BY <1>1, <1>3, Zenon DEF Moves, EventSteps
<1>5. EventInv'
  BY <1>0, <1>1, <1>4, StepEvents, Zenon
<1>6. evt'[t] = a /\ epc'[t] = "call" /\ OnlyThread(t)
  BY <1>1, <1>3, <1>4, ThreadMoved, Zenon
<1>7. Len(lists) # 0 /\ lists[Len(lists)].subs \in SUBSET Subscribers
  <2>1. Len(lists) # 0
    BY <1>2, Zenon DEF ListTypes
  <2> QED BY <1>2, <2>1, VersionTypes, Zenon
<1>8. /\ left' \in [BusThreads -> SUBSET Subscribers] /\ call' \in [BusThreads -> SUBSET Subscribers]
      /\ list'[t] # 0
      /\ \A u \in BusThreads : u # t => list'[u] = list[u] /\ left'[u] = left[u] /\ call'[u] = call[u]
  BY <1>1, <1>2, <1>7, Zenon DEF ListTypes, Steps
<1>9. Steps'
  BY <1>1, <1>2, <1>3, <1>6, <1>8, ThreadSteps, Zenon
<1> QED BY <1>5, <1>9, ListsAfter, Zenon DEF EbusInv

\* A handler starts or returns.
LEMMA CallInv ==
  ASSUME EbusInv, NEW t \in BusThreads, Return(t) \/ \E s \in Subscribers : Call(t, s)
  PROVE  EbusInv'
<1>1. ListTypes /\ ListRefs /\ EventTypes /\ Steps
  BY Zenon DEF EbusInv, EventInv
<1>2. /\ epc[t] = "call"
      /\ UNCHANGED <<lists, gen, idx, queues, refs, epc, evt, list, owner, prev, bus, drops>>
      /\ \/ \E s \in Subscribers : /\ call' = [call EXCEPT ![t] = {s}]
                                   /\ left' = [left EXCEPT ![t] = @ \ {s}]
         \/ call' = [call EXCEPT ![t] = {}] /\ left' = left
  BY <1>1, Zenon DEF Return, Call, ownerVars, Steps
<1>3. /\ left' \in [BusThreads -> SUBSET Subscribers] /\ call' \in [BusThreads -> SUBSET Subscribers]
      /\ \A u \in BusThreads : u # t => left'[u] = left[u] /\ call'[u] = call[u]
  <2>1. left \in [BusThreads -> SUBSET Subscribers] /\ call \in [BusThreads -> SUBSET Subscribers]
    BY <1>1, Zenon DEF Steps
  <2>2. CASE \E s \in Subscribers : /\ call' = [call EXCEPT ![t] = {s}]
                                   /\ left' = [left EXCEPT ![t] = @ \ {s}]
    <3>1. PICK s \in Subscribers : /\ call' = [call EXCEPT ![t] = {s}]
                                   /\ left' = [left EXCEPT ![t] = @ \ {s}]
      BY <2>2, Zenon
    <3>2. {s} \in SUBSET Subscribers /\ left[t] \ {s} \in SUBSET Subscribers
      BY <2>1, Zenon
    <3> QED BY <2>1, <3>1, <3>2, Zenon
  <2>3. CASE call' = [call EXCEPT ![t] = {}] /\ left' = left
    <3>1. {} \in SUBSET Subscribers
      BY Zenon
    <3> QED BY <2>1, <2>3, <3>1, Zenon
  <2> QED BY <1>2, <2>2, <2>3, Zenon
<1>4. EventInv'
  BY <1>1, <1>2, EventsSame, Zenon DEF EventTypes
<1>5. ListTypes' /\ ListRefs'
  BY <1>1, <1>2, ListsSame, Zenon
<1>6. /\ OnlyThread(t) /\ bus # "freed" /\ evt'[t] # 0 /\ list'[t] # 0 /\ epc'[t] = "call"
      /\ t \in Publishers => bus = "running"
  BY <1>1, <1>2, Zenon DEF OnlyThread, Steps, BusThreads
<1>7. Steps'
  BY <1>1, <1>2, <1>3, <1>6, ThreadSteps, Zenon
<1> QED BY <1>4, <1>5, <1>7, Zenon DEF EbusInv

\* A thread that releases the list and its event keeps the accounts.
LEMMA FinishInv ==
  ASSUME Counting, EbusInv, NEW t \in BusThreads, Finish(t)
  PROVE  EbusInv'
<1>0. PICK a : a = evt[t]
  OBVIOUS
<1>1. /\ epc[t] = "call" /\ call[t] = {} /\ left[t] = {} /\ refs' = [refs EXCEPT ![a] = @ - 1]
      /\ Moves(t, 0, "idle") /\ list' = [list EXCEPT ![t] = 0]
      /\ UNCHANGED <<gen, idx, queues, left, call, owner, bus, drops>>
  BY <1>0, Zenon DEF Finish, Moves, ownerVars
<1>2. EventTypes /\ OnePlace /\ ListTypes /\ Steps
  BY Zenon DEF EbusInv, EventInv
<1>3. a # 0 /\ a \in 1 .. Len(refs) /\ idx \in Queues /\ refs \in Seq(Int) /\ refs[a] = 1
  <2>1. a # 0 /\ a \in 1 .. Len(refs) /\ idx \in Queues /\ refs \in Seq(Int)
    BY <1>0, <1>1, <1>2, EventFacts, Zenon DEF Steps, EventTypes
  <2> QED BY <1>0, <1>2, <2>1, Zenon DEF OnePlace, Held
<1>4. /\ refs' \in Seq(Int) /\ Len(refs') = Len(refs) /\ refs'[a] = 0
      /\ \A e \in 1 .. Len(refs) : e # a => refs'[e] = refs[e]
  BY <1>1, <1>3
<1>5. EventInv'
  BY <1>0, <1>1, <1>3, <1>4, DropEvents, Zenon
<1>6. evt'[t] = 0 /\ epc'[t] = "idle" /\ OnlyThread(t)
  <2>1. 0 \in Nat /\ 0 <= Len(refs) /\ "idle" \in EventSteps
    BY <1>3 DEF EventSteps
  <2> QED BY <1>1, <1>4, <2>1, ThreadMoved, Zenon
<1>7. /\ left' \in [BusThreads -> SUBSET Subscribers] /\ call' \in [BusThreads -> SUBSET Subscribers]
      /\ list'[t] = 0 /\ bus # "freed"
      /\ \A u \in BusThreads : u # t => list'[u] = list[u] /\ left'[u] = left[u] /\ call'[u] = call[u]
  BY <1>1, <1>2, Zenon DEF ListTypes, Steps, BusThreads
<1>8. Steps'
  BY <1>1, <1>2, <1>6, <1>7, ThreadSteps, Zenon
<1> QED BY <1>5, <1>8, ListsAfter, Zenon DEF EbusInv

\* Stopping the workers and freeing the bus keep the accounts.
LEMMA EndInv ==
  ASSUME Counting, EbusInv, Stop \/ Free
  PROVE  EbusInv'
<1>1. ListTypes /\ ListRefs /\ Steps
  BY Zenon DEF EbusInv
<1>2. CASE Stop
  <2>1. /\ bus = "running" /\ bus' = "stopping" /\ \A p \in Publishers : epc[p] = "idle"
        /\ \A s \in Subscribers : owner[s] \in {"out", "gone", "failed"}
        /\ UNCHANGED <<lists, gen, idx, queues, refs, epc, evt, list, left, call, owner, prev, drops>>
    BY <1>2, Zenon DEF Stop, threadVars, ownerVars
  <2>2. EventInv'
    BY <2>1, EventsSame, Zenon
  <2>3. ListTypes' /\ ListRefs'
    BY <1>1, <2>1, ListsSame, Zenon
  <2>4. Steps'
    BY <1>1, <2>1, Zenon DEF Steps
  <2> QED BY <2>2, <2>3, <2>4, Zenon DEF EbusInv
<1>3. CASE Free
  <2>1. /\ bus = "stopping" /\ bus' = "freed" /\ \A w \in Workers : epc[w] = "exited"
        /\ queues' = [q \in Queues |-> <<>>] /\ UNCHANGED <<epc, evt, list, left, call, owner>>
    BY <1>3, Zenon DEF Free, threadVars, ownerVars
  <2>2. Steps'
    BY <1>1, <2>1, Zenon DEF Steps
  <2> QED BY <1>3, <2>2, FreeEvents, ListsAfter, Zenon DEF EbusInv
<1> QED BY <1>2, <1>3, Zenon

\* The accounts of a new bus.
LEMMA InitEbusInv == ASSUME Counting, EbusInit PROVE EbusInv
<1>1. /\ lists \in Seq(Versions) /\ Len(lists) = 1 /\ lists[1].refs = 1
  BY DEF EbusInit, Versions
<1>2. ListTypes
  <2>1. /\ list \in [BusThreads -> Nat] /\ prev \in [Subscribers -> Nat]
        /\ \A t \in BusThreads : list[t] <= 1
        /\ \A s \in Subscribers : prev[s] < 1
    BY DEF EbusInit
  <2>2. owner \in [Subscribers -> {"out", "in", "waiting", "gone", "failed"}]
    BY Zenon DEF EbusInit
  <2> QED BY <1>1, <2>1, <2>2 DEF ListTypes
<1>3. ListRefs
  <2>1. \A s \in Subscribers : owner[s] = "out"
    BY Zenon DEF EbusInit
  <2>2. \A t \in BusThreads : list[t] = 0
    BY Zenon DEF EbusInit
  <2>3. WaitFor(1) = {} /\ Using(1) = {}
    BY <2>1, <2>2 DEF WaitFor, Using
  <2>4. Cardinality(WaitFor(1)) = 0 /\ Cardinality(Using(1)) = 0
    BY <2>3, CountEmpty, Zenon
  <2>5. BusHas(1) = 1
    BY <1>1, Zenon DEF BusHas, EbusInit
  <2>6. \A v \in 1 .. Len(lists) : v = 1
    BY <1>1
  <2>7. lists[1].refs = BusHas(1) + Cardinality(WaitFor(1)) + Cardinality(Using(1))
    BY <1>1, <2>4, <2>5
  <2> QED BY <2>1, <2>6, <2>7, Zenon DEF ListRefs
<1>4. \A x : ~Queued(x)
  BY DEF EbusInit, Queued
<1>5. EventTypes
  <2>1. gen \in Int /\ drops \in Nat /\ idx \in Queues
    BY EbusAssumption DEF EbusInit, Queues
  <2>2. refs \in Seq(Int) /\ Len(refs) = 0 /\ queues \in [Queues -> Seq(Nat)]
    BY DEF EbusInit
  <2>3. /\ evt \in [BusThreads -> Nat] /\ \A t \in BusThreads : evt[t] <= 0
        /\ epc \in [BusThreads -> EventSteps] /\ bus = "running"
    BY DEF EbusInit, EventSteps
  <2> QED BY <1>4, <2>1, <2>2, <2>3, Zenon DEF EventTypes, EventSteps
<1>6. OnePlace
  <2>1. \A q \in Queues : 1 .. Len(queues[q]) = {}
    BY DEF EbusInit
  <2>2. 1 .. Len(refs) = {} /\ \A t \in BusThreads : evt[t] = 0
    BY DEF EbusInit
  <2> QED BY <1>4, <2>1, <2>2, Zenon DEF OnePlace, Distinct
<1>7. RefusalIsSafe
  <2>1. Pending = {}
    BY DEF EbusInit, Pending, Events
  <2>2. Cardinality(Pending) = 0
    BY <2>1, CountEmpty, Zenon
  <2> QED BY <2>2 DEF EbusInit, RefusalIsSafe
<1>8. Steps
  <2>1. /\ left \in [BusThreads -> SUBSET Subscribers] /\ call \in [BusThreads -> SUBSET Subscribers]
        /\ \A t \in BusThreads : /\ epc[t] = "idle" /\ evt[t] = 0 /\ list[t] = 0
                                 /\ left[t] = {} /\ call[t] = {}
        /\ bus = "running"
    BY Zenon DEF EbusInit
  <2> QED BY <2>1, ThreadsOf, Zenon DEF Steps
<1> QED BY <1>2, <1>3, <1>5, <1>6, <1>7, <1>8, Zenon DEF EbusInv, EventInv


\* Every step keeps the accounts.
LEMMA NextEbusInv ==
  ASSUME Counting, EbusInv, [EbusNext]_ebusVars
  PROVE  EbusInv'
<1>1. CASE UNCHANGED ebusVars
  <2>1. /\ UNCHANGED <<lists, gen, idx, queues, refs, epc, evt, list, left, call, owner, prev>>
        /\ UNCHANGED <<bus, drops>>
    BY <1>1, Zenon DEF ebusVars, threadVars, ownerVars
  <2>2. ListTypes /\ ListRefs /\ Steps /\ EventTypes
    BY Zenon DEF EbusInv, EventInv
  <2>3. EventInv'
    BY <2>1, <2>2, EventsSame, Zenon DEF EventTypes
  <2>4. ListTypes' /\ ListRefs'
    BY <2>1, <2>2, ListsSame, Zenon
  <2>5. Steps'
    BY <2>1, <2>2, Zenon DEF Steps
  <2> QED BY <2>3, <2>4, <2>5, Zenon DEF EbusInv
<1>2. ASSUME NEW t \in BusThreads, Handle(t) PROVE EbusInv'
  BY <1>2, TakeListInv, CallInv, FinishInv, Zenon DEF Handle
<1>3. CASE EbusNext
  BY <1>2, <1>3, OwnerInv, PublishInv, RefuseInv, PushInv, PushFailInv, PopInv, WorkerInv,
     EndInv, ThreadsOf, Zenon DEF EbusNext, Work
<1> QED BY <1>1, <1>3, Zenon

\* The accounts say that nothing in use is freed, and that nothing is left at the end.
LEMMA AccountsFree ==
  ASSUME Counting, EbusInv
  PROVE  FreedWhenUnused
<1>1. ListTypes /\ ListRefs /\ EventTypes /\ OnePlace /\ Steps
  BY Zenon DEF EbusInv, EventInv
<1>2. Events = 1 .. Len(refs) /\ \A t \in BusThreads : evt[t] # 0 => evt[t] \in 1 .. Len(refs)
  BY <1>1, EventFacts, Zenon
<1>3. 1 > 0
  OBVIOUS
<1>4. \A e \in Events : Queued(e) => refs[e] > 0
  BY <1>1, <1>2, <1>3, Zenon DEF OnePlace
<1>5. \A t \in BusThreads : evt[t] # 0 => refs[evt[t]] > 0
  BY <1>1, <1>2, <1>3, Zenon DEF OnePlace, Held
<1>6. ASSUME NEW t \in BusThreads, list[t] # 0 PROVE lists[list[t]].refs > 0
  <2>1. PICK v : v = list[t]
    BY Zenon
  <2>2. v \in 1 .. Len(lists)
    BY <1>1, <1>6, <2>1 DEF ListTypes
  <2>3. PICK b \in {0, 1} : b = BusHas(v)
    BY Zenon DEF BusHas
  <2>4. PICK W, U \in Nat : W = Cardinality(WaitFor(v)) /\ U = Cardinality(Using(v)) /\ U # 0
    <3>1. t \in Using(v)
      BY <2>1, Zenon DEF Using
    <3>2. Cardinality(Using(v)) # 0
      <4>1. IsFiniteSet(Using(v)) /\ Using(v) # {}
        BY <3>1, ListCounts, Zenon
      <4> QED BY <4>1, CountEmpty, Zenon
    <3>3. Cardinality(WaitFor(v)) \in Nat /\ Cardinality(Using(v)) \in Nat
      BY ListCounts, Zenon
    <3> QED BY <3>2, <3>3, Zenon
  <2>5. lists[v].refs = b + W + U
    BY <1>1, <2>2, <2>3, <2>4, Zenon DEF ListRefs
  <2>6. b + W + U > 0
    BY <2>3, <2>4
  <2> QED BY <2>1, <2>5, <2>6, Zenon
<1>7. ASSUME bus = "freed"
      PROVE  /\ \A e \in Events : refs[e] = 0
             /\ \A v \in DOMAIN lists : lists[v].refs = 0
  <2>1. \A t \in BusThreads : epc[t] \in {"idle", "exited"}
    BY <1>1, <1>7, Zenon DEF Steps, BusThreads
  <2>2. \A t \in BusThreads : evt[t] = 0 /\ list[t] = 0
    BY <1>1, <2>1, Zenon DEF Steps
  <2>3. \A x : ~Queued(x)
    <3>1. \A q \in Queues : DOMAIN queues[q] = {}
      BY <1>1, <1>7 DEF Steps
    <3> QED BY <3>1, Zenon DEF Queued
  <2>4. 0 \notin Events
    BY <1>2
  <2>5. \A e \in Events : refs[e] = 0
    BY <1>1, <1>2, <2>2, <2>3, <2>4, Zenon DEF OnePlace, Held
  <2>6. DOMAIN lists = 1 .. Len(lists) /\ 0 \notin 1 .. Len(lists)
    BY <1>1 DEF ListTypes
  <2>7. ASSUME NEW v \in 1 .. Len(lists) PROVE lists[v].refs = 0
    <3>1. WaitFor(v) = {} /\ Using(v) = {}
      BY <1>1, <1>7, <2>2, <2>6, Zenon DEF WaitFor, Using, Steps
    <3>2. Cardinality(WaitFor(v)) = 0 /\ Cardinality(Using(v)) = 0 /\ BusHas(v) = 0
      BY <1>7, <3>1, CountEmpty, Zenon DEF BusHas
    <3>3. lists[v].refs = 0 + 0 + 0
      BY <1>1, <3>2, Zenon DEF ListRefs
    <3> QED BY <3>3
  <2> QED BY <2>5, <2>6, <2>7, Zenon
<1> QED BY <1>4, <1>5, <1>6, <1>7, Zenon DEF FreedWhenUnused

-----------------------------------------------------------------------------
INSTANCE FiniteSetTheorems

\* The library has the facts that the lemmas assume.
LEMMA LibraryCounts == Counting
<1>1. ASSUME NEW S, IsFiniteSet(S)
      PROVE  /\ Cardinality(S) \in Nat
             /\ \A T \in SUBSET S : IsFiniteSet(T)
             /\ \A T : IsFiniteSet(T) => IsFiniteSet(S \cup T)
             /\ \A x : /\ IsFiniteSet(S \cup {x}) /\ IsFiniteSet(S \ {x})
                       /\ x \notin S => Cardinality(S \cup {x}) = Cardinality(S) + 1
                       /\ x \in S => Cardinality(S \ {x}) = Cardinality(S) - 1
  BY <1>1, FS_CardinalityType, FS_Subset, FS_Union, FS_AddElement, FS_RemoveElement, Zenon
<1>2. \A n \in Nat : IsFiniteSet(1 .. n)
  BY FS_Interval
<1> QED BY <1>1, <1>2, FS_EmptySet, FS_Singleton, Zenon DEF Counting

\* The accounts of the event bus: of its events and of the versions of its list.
LEMMA EbusInvariant == EbusSpec => []EbusInv
<1>1. EbusInv /\ [EbusNext]_ebusVars => EbusInv'
  BY LibraryCounts, NextEbusInv, Zenon
<1>2. EbusInit => EbusInv
  BY LibraryCounts, InitEbusInv, Zenon
<1> QED BY <1>1, <1>2, PTL DEF EbusSpec

\* mdv_ebus_publish: a unique event is refused only while another one is still to be
\* handled, or after a full queue has dropped one that was counted.
THEOREM BusRefusalIsSafe == EbusSpec => []RefusalIsSafe
BY EbusInvariant, PTL DEF EbusInv, EventInv

\* mdv_ebus_unsubscribe: no thread uses the list it replaced when it returns.
THEOREM BusReplacedListIsIdle == EbusSpec => []ReplacedListIsIdle
<1>1. EbusInv => ReplacedListIsIdle
  BY Zenon DEF EbusInv, ListRefs, Using, ReplacedListIsIdle
<1> QED BY <1>1, EbusInvariant, PTL

\* The references of the event bus: nothing in use is freed, and mdv_ebus_free leaves
\* neither an event nor a list behind.
THEOREM BusFreedWhenUnused == EbusSpec => []FreedWhenUnused
<1>1. EbusInv => FreedWhenUnused
  BY LibraryCounts, AccountsFree, Zenon
<1> QED BY <1>1, EbusInvariant, PTL
=============================================================================
