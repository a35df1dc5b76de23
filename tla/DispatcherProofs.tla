-------------------------- MODULE DispatcherProofs --------------------------
(***************************************************************************)
(* Proofs about the requests of a client, for every number of threads,     *)
(* condition variables, connections and failures, and for any space of     *)
(* message numbers that is not used up (MaxCalls <= NumberSpace).          *)
(***************************************************************************)
EXTENDS Dispatcher, Integers, TLAPS

USE DispatcherAssumption

Numbers  == 0 .. NumberSpace - 1
Requests == [caller : Callers, cv : Slots, ready : BOOLEAN, resp : 0 .. MaxCalls]
Calls    == [step : Steps, sess : Sessions, num : Numbers,
             err : {"ok", "timeout"}, call : 0 .. MaxCalls]
Active(c) == thread[c].step \notin {"idle", "crashed"}

\* The types of the connections and of the calls.
TypeCalls ==
  /\ id \in [Sessions -> Numbers]
  /\ last \in Sessions /\ cur \in Sessions
  /\ thread \in [Callers -> Calls]
  /\ calls \in 0 .. MaxCalls
  /\ wire \subseteq [num : Numbers, call : 0 .. MaxCalls]
TypeFlags == open \in BOOLEAN /\ (~open => wire = {})

\* The types of the dispatchers' maps and pools.
TypeMaps ==
  /\ cvs \in [Sessions -> SUBSET Slots]
  /\ requests = [s \in Sessions |-> requests[s]]
  /\ \A s \in Sessions : DOMAIN requests[s] \subseteq Numbers
  /\ \A s \in Sessions : requests[s] \in [DOMAIN requests[s] -> Requests]

\* A number that is registered in a session or travels on the newest one has been
\* given out by that session's counter, which has not wrapped.
Unused ==
  calls < NumberSpace => \A s \in Sessions :
    /\ id[s] <= calls
    /\ \A n \in DOMAIN requests[s] : n < id[s]
WireUnused ==
  calls < NumberSpace /\ ~stale => \A a \in wire : a.num < id[last]

\* Calls and registered requests belong to each other, one to one.
MineAt(c) ==
  /\ thread[c].num \in DOMAIN requests[thread[c].sess]
  /\ requests[thread[c].sess][thread[c].num].caller = c
OwnerAt(s, n) ==
  /\ thread[requests[s][n].caller].sess = s
  /\ thread[requests[s][n].caller].num = n
  /\ thread[requests[s][n].caller].step # "idle"
Owned ==
  /\ \A c \in Callers : Active(c) => MineAt(c)
  /\ \A s \in Sessions : \A n \in DOMAIN requests[s] : OwnerAt(s, n)

\* A condition variable is in the pool or in one registered request.
PoolAt(s) ==
  /\ \A n \in DOMAIN requests[s] : requests[s][n].cv \notin cvs[s]
  /\ \A v \in Slots : v \in cvs[s] \/ \E n \in DOMAIN requests[s] : requests[s][n].cv = v
  /\ \A m, n \in DOMAIN requests[s] : requests[s][m].cv = requests[s][n].cv => m = n
Pool == \A s \in Sessions : PoolAt(s)

\* Unless a caller has written into a newer session's socket, answers on the wire
\* and answers that are stored go to the calls they are for.
AnswerAt(s, n) ==
  requests[s][n].ready => requests[s][n].resp = thread[requests[s][n].caller].call
Answers ==
  ~stale =>
    /\ \A a \in wire : a.num \in DOMAIN requests[last] =>
         a.call = thread[requests[last][a.num].caller].call
    /\ \A s \in Sessions : \A n \in DOMAIN requests[s] : AnswerAt(s, n)
    /\ ~mixed

\* The inductive invariant.
IInv ==
  /\ TypeCalls /\ TypeFlags /\ TypeMaps
  /\ Unused /\ WireUnused
  /\ Owned /\ Pool /\ Answers

-----------------------------------------------------------------------------
\* It holds initially.
LEMMA InitIInv == Init => IInv
<1> SUFFICES ASSUME Init PROVE IInv
  BY Zenon
<1> USE DEF Init, Sessions
<1>1. TypeCalls
  BY DEF TypeCalls, Numbers, Calls, Idle, Steps
<1>2. TypeFlags
  BY Zenon DEF TypeFlags
<1>3. \A s \in Sessions : requests[s] = <<>> /\ DOMAIN requests[s] = {}
  OBVIOUS
<1>4. TypeMaps
  BY <1>3 DEF TypeMaps
<1>5. Unused /\ WireUnused
  BY <1>3 DEF Unused, WireUnused
<1>6. Owned
  BY <1>3, Zenon DEF Owned, Active, Idle
<1>7. Pool /\ Answers
  BY <1>3, Zenon DEF Pool, PoolAt, Answers
<1> QED BY <1>1, <1>2, <1>4, <1>5, <1>6, <1>7, Zenon DEF IInv

-----------------------------------------------------------------------------
\* The counter of message numbers, as long as a number is left.
LEMMA NextNumberValue ==
  ASSUME NEW n \in Numbers
  PROVE  NextNumber(n) \in Numbers /\ (n + 1 < NumberSpace => NextNumber(n) = n + 1)
BY DEF NextNumber, Numbers

\* The parts of Owned, Pool and Answers, one request or caller at a time.
LEMMA OwnerOf ==
  ASSUME IInv, NEW s \in Sessions, NEW n \in DOMAIN requests[s]
  PROVE  /\ requests[s][n] \in Requests
         /\ requests[s][n].caller \in Callers /\ requests[s][n].cv \in Slots
         /\ OwnerAt(s, n)
         /\ requests[s][n].cv \notin cvs[s]
<1>1. requests[s][n] \in Requests
  BY Zenon DEF IInv, TypeMaps
<1>2. requests[s][n].caller \in Callers /\ requests[s][n].cv \in Slots
  BY <1>1, Zenon DEF Requests
<1>3. OwnerAt(s, n)
  BY Zenon DEF IInv, Owned
<1>4. requests[s][n].cv \notin cvs[s]
  BY Zenon DEF IInv, Pool, PoolAt
<1> QED BY <1>1, <1>2, <1>3, <1>4, Zenon

\* A caller that is under way has a session and its own request there.
LEMMA RequestOf ==
  ASSUME IInv, NEW d \in Callers, Active(d)
  PROVE  thread[d].sess \in Sessions /\ MineAt(d)
<1>1. thread[d].sess \in Sessions
  BY Zenon DEF IInv, TypeCalls, Calls
<1> QED BY <1>1, Zenon DEF IInv, Owned

\* The answer stored in a request is that of its call, unless a write was stale.
LEMMA AnswerOf ==
  ASSUME IInv, ~stale, NEW s \in Sessions, NEW n \in DOMAIN requests[s]
  PROVE  AnswerAt(s, n)
BY Zenon DEF IInv, Answers

\* A request keeps its owner, a stored answer its call, and a pool its condition
\* variables, when nothing that they depend on changes.
LEMMA OwnerKept ==
  ASSUME NEW s, NEW n, OwnerAt(s, n), requests'[s][n].caller = requests[s][n].caller,
         thread'[requests[s][n].caller].sess = thread[requests[s][n].caller].sess,
         thread'[requests[s][n].caller].num = thread[requests[s][n].caller].num,
         thread[requests[s][n].caller].step # "idle" => thread'[requests[s][n].caller].step # "idle"
  PROVE  OwnerAt(s, n)'
BY Zenon DEF OwnerAt

\* A stored answer stays that of its call ...
LEMMA AnswerKept ==
  ASSUME NEW s, NEW n, AnswerAt(s, n), requests'[s][n] = requests[s][n],
         thread'[requests[s][n].caller].call = thread[requests[s][n].caller].call
  PROVE  AnswerAt(s, n)'
BY Zenon DEF AnswerAt

\* ... and a pool keeps its condition variables.
LEMMA PoolKept ==
  ASSUME NEW s, PoolAt(s), cvs'[s] = cvs[s], DOMAIN requests'[s] = DOMAIN requests[s],
         \A n \in DOMAIN requests[s] : requests'[s][n].cv = requests[s][n].cv
  PROVE  PoolAt(s)'
BY DEF PoolAt

\* An idle caller has no request.
LEMMA IdleHasNone ==
  ASSUME IInv, NEW c \in Callers, At(c, "idle"),
         NEW s \in Sessions, NEW n \in DOMAIN requests[s]
  PROVE  requests[s][n].caller # c
BY OwnerOf DEF At, OwnerAt

\* Begin keeps it: the number is not in the map, and the condition variable is not
\* in another request.
LEMMA BeginIInv ==
  ASSUME IInv, NEW c \in Callers, Begin(c)
  PROVE  IInv'
<1> DEFINE k == id[cur]
           v == CHOOSE x \in cvs[cur] : TRUE
           r == [caller |-> c, cv |-> v, ready |-> FALSE, resp |-> 0]
           t == [step |-> "write", sess |-> cur, num |-> k, err |-> "ok", call |-> calls + 1]
<1>1. /\ At(c, "idle") /\ calls < MaxCalls /\ cvs[cur] # {}
      /\ id' = [id EXCEPT ![cur] = NextNumber(k)]
      /\ cvs' = [cvs EXCEPT ![cur] = cvs[cur] \ {v}]
      /\ requests' = [requests EXCEPT ![cur] = Put(requests[cur], k, r)]
      /\ calls' = calls + 1
      /\ thread' = [thread EXCEPT ![c] = t]
      /\ UNCHANGED <<last, open, cur, wire, mixed, stale>>
  BY Zenon DEF Begin, TakeSlot, conVars
<1>2. v \in cvs[cur]
  BY <1>1, Zenon
<1>3. r.caller = c /\ r.cv = v /\ r.ready = FALSE /\ r.resp = 0
  BY Zenon
<1>4. t.step = "write" /\ t.sess = cur /\ t.num = k /\ t.call = calls + 1
  BY Zenon
<1>5. cur \in Sessions /\ last \in Sessions /\ k \in Numbers /\ calls \in Nat
  BY DEF IInv, TypeCalls
<1>6. r \in Requests /\ t \in Calls
  BY <1>1, <1>2, <1>5 DEF IInv, TypeMaps, TypeCalls, Requests, Calls, Steps
<1> HIDE DEF k, v, r, t
<1>7. calls < NumberSpace /\ k <= calls /\ \A n \in DOMAIN requests[cur] : n < k
  BY <1>1, <1>5 DEF IInv, Unused, k
<1>8. k \notin DOMAIN requests[cur]
  BY <1>5, <1>7 DEF Numbers
<1>9. /\ DOMAIN requests'[cur] = DOMAIN requests[cur] \cup {k}
      /\ requests'[cur][k] = r
      /\ \A n \in DOMAIN requests[cur] : requests'[cur][n] = requests[cur][n]
      /\ requests'[cur] = [n \in DOMAIN requests'[cur] |-> requests'[cur][n]]
      /\ \A s \in Sessions : s # cur => requests'[s] = requests[s]
      /\ requests' = [s \in Sessions |-> requests'[s]]
  <2>1. DOMAIN requests = Sessions
    BY Zenon DEF IInv, TypeMaps
  <2>2. requests'[cur] = Put(requests[cur], k, r)
    BY <1>1, <1>5, <2>1, Zenon
  <2>3. /\ \A s \in Sessions : s # cur => requests'[s] = requests[s]
        /\ requests' = [s \in Sessions |-> requests'[s]]
    BY <1>1, <1>5, <2>1, Zenon
  <2>4. /\ DOMAIN requests'[cur] = DOMAIN requests[cur] \cup {k}
        /\ requests'[cur][k] = r
        /\ \A n \in DOMAIN requests[cur] : n # k => requests'[cur][n] = requests[cur][n]
        /\ requests'[cur] = [n \in DOMAIN requests[cur] \cup {k} |-> requests'[cur][n]]
    BY <2>2, Zenon DEF Put
  <2>5. \A n \in DOMAIN requests[cur] : n # k
    BY <1>8, Zenon
  <2> QED BY <2>3, <2>4, <2>5, Zenon
<1>10. thread'[c] = t /\ \A d \in Callers : d # c => thread'[d] = thread[d]
  BY <1>1, Zenon DEF IInv, TypeCalls
<1>11. \A s \in Sessions : \A n \in DOMAIN requests[s] :
         requests[s][n].caller \in Callers /\ requests[s][n].caller # c
  BY <1>1, IdleHasNone, Zenon DEF IInv, TypeMaps, Requests
<1>12. NextNumber(k) \in Numbers /\ (k + 1 < NumberSpace => NextNumber(k) = k + 1)
  BY <1>5, NextNumberValue, Zenon
<1>13. TypeCalls'
  BY <1>1, <1>5, <1>6, <1>12 DEF IInv, TypeCalls
<1>14. TypeFlags'
  BY <1>1, Zenon DEF IInv, TypeFlags
<1>15. TypeMaps'
  BY <1>1, <1>5, <1>6, <1>9 DEF IInv, TypeMaps
<1>16. Unused'
  <2> SUFFICES ASSUME calls' < NumberSpace, NEW s \in Sessions
               PROVE  id'[s] <= calls' /\ \A n \in DOMAIN requests'[s] : n < id'[s]
    BY Zenon DEF Unused
  <2>1. id[s] <= calls /\ id[s] \in Numbers /\ \A n \in DOMAIN requests[s] : n \in Numbers /\ n < id[s]
    BY <1>7, Zenon DEF IInv, Unused, TypeCalls, TypeMaps
  <2>2. CASE s = cur
    <3>1. id'[s] = k + 1 /\ k = id[s]
      BY <1>1, <1>5, <1>7, <1>12, <2>2 DEF IInv, TypeCalls, Numbers, k
    <3> QED BY <1>1, <1>5, <1>9, <2>1, <2>2, <3>1 DEF Numbers
  <2>3. CASE s # cur
    <3>1. id'[s] = id[s] /\ requests'[s] = requests[s]
      BY <1>1, <1>9, <2>3, Zenon DEF IInv, TypeCalls
    <3> QED BY <1>1, <1>5, <2>1, <3>1 DEF Numbers
  <2> QED BY <2>2, <2>3, Zenon
<1>17. WireUnused'
  <2> SUFFICES ASSUME calls' < NumberSpace, ~stale', NEW a \in wire'
               PROVE  a.num < id'[last']
    BY Zenon DEF WireUnused
  <2>1. a.num < id[last] /\ a.num \in Numbers /\ id[last] \in Numbers
    BY <1>1, <1>5, <1>7, Zenon DEF IInv, WireUnused, TypeCalls
  <2>2. id'[last] = id[last] \/ id'[last] = id[last] + 1
    BY <1>1, <1>5, <1>7, <1>12 DEF IInv, TypeCalls, Numbers, k
  <2> QED BY <1>1, <2>1, <2>2 DEF Numbers
<1>18. Owned'
  <2>1. ASSUME NEW d \in Callers, Active(d)'
        PROVE  MineAt(d)'
    <3>1. CASE d = c
      BY <1>3, <1>4, <1>9, <1>10, <3>1, Zenon DEF MineAt
    <3>2. CASE d # c
      <4>1. thread'[d] = thread[d] /\ Active(d)
        BY <1>10, <2>1, <3>2, Zenon DEF Active
      <4>2. /\ thread[d].sess \in Sessions
            /\ thread[d].num \in DOMAIN requests[thread[d].sess]
            /\ requests[thread[d].sess][thread[d].num].caller = d
        BY <4>1, RequestOf, Zenon DEF MineAt
      <4>3. CASE thread[d].sess = cur
        BY <1>9, <4>1, <4>2, <4>3 DEF MineAt
      <4>4. CASE thread[d].sess # cur
        BY <1>9, <4>1, <4>2, <4>4 DEF MineAt
      <4> QED BY <4>3, <4>4, Zenon
    <3> QED BY <3>1, <3>2, Zenon
  <2>2. ASSUME NEW s \in Sessions, NEW n \in DOMAIN requests'[s]
        PROVE  OwnerAt(s, n)'
    <3>1. CASE s = cur /\ n = k
      BY <1>3, <1>4, <1>9, <1>10, <3>1, Zenon DEF OwnerAt
    <3>2. CASE ~(s = cur /\ n = k)
      <4>1. n \in DOMAIN requests[s] /\ requests'[s][n] = requests[s][n]
        BY <1>9, <3>2
      <4>2. thread'[requests[s][n].caller] = thread[requests[s][n].caller]
        BY <1>10, <1>11, <4>1, Zenon
      <4>3. OwnerAt(s, n)
        BY <4>1, OwnerOf, Zenon
      <4> QED BY <4>1, <4>2, <4>3, OwnerKept, Zenon
    <3> QED BY <3>1, <3>2, Zenon
  <2> QED BY <2>1, <2>2, Zenon DEF Owned
<1>19. Pool'
  <2> SUFFICES ASSUME NEW s \in Sessions PROVE PoolAt(s)'
    BY Zenon DEF Pool
  <2>0. PoolAt(s)
    BY Zenon DEF IInv, Pool
  <2>1. CASE s = cur
    <3>1. cvs'[s] = cvs[s] \ {v}
      BY <1>1, <1>5, <2>1, Zenon DEF IInv, TypeMaps
    <3>2. /\ DOMAIN requests'[s] = DOMAIN requests[s] \cup {k}
          /\ \A n \in DOMAIN requests[s] : n # k /\ requests'[s][n] = requests[s][n]
          /\ requests'[s][k].cv = v /\ v \in cvs[s]
      BY <1>2, <1>3, <1>8, <1>9, <2>1, Zenon
    <3> QED BY <2>0, <3>1, <3>2 DEF PoolAt
  <2>2. CASE s # cur
    <3>1. cvs'[s] = cvs[s] /\ requests'[s] = requests[s]
      BY <1>1, <1>9, <2>2, Zenon DEF IInv, TypeMaps
    <3> QED BY <2>0, <3>1, PoolKept, Zenon
  <2> QED BY <2>1, <2>2, Zenon
<1>20. Answers'
  <2> SUFFICES ASSUME ~stale'
               PROVE  /\ \A a \in wire' : a.num \in DOMAIN requests'[last'] =>
                           a.call = thread'[requests'[last'][a.num].caller].call
                      /\ \A s \in Sessions : \A n \in DOMAIN requests'[s] : AnswerAt(s, n)'
                      /\ ~mixed'
    BY Zenon DEF Answers
  <2>1. ASSUME NEW a \in wire', a.num \in DOMAIN requests'[last']
        PROVE  a.call = thread'[requests'[last'][a.num].caller].call
    <3>1. a \in wire /\ a.num < id[last] /\ last' = last /\ ~stale
      BY <1>1, <1>7, Zenon DEF IInv, WireUnused
    <3>2. a.num \in DOMAIN requests[last] /\ requests'[last][a.num] = requests[last][a.num]
      <4>1. CASE last = cur
        <5>1. a.num # k
          BY <3>1, <4>1, <1>5 DEF k, Numbers
        <5> QED BY <1>9, <2>1, <3>1, <4>1, <5>1, Zenon
      <4>2. CASE last # cur
        BY <1>5, <1>9, <2>1, <3>1, <4>2, Zenon
      <4> QED BY <4>1, <4>2, Zenon
    <3>3. a.call = thread[requests[last][a.num].caller].call
      BY <3>1, <3>2, Zenon DEF IInv, Answers
    <3> QED BY <1>5, <1>10, <1>11, <3>1, <3>2, <3>3, Zenon
  <2>2. ASSUME NEW s \in Sessions, NEW n \in DOMAIN requests'[s]
        PROVE  AnswerAt(s, n)'
    <3>1. CASE s = cur /\ n = k
      BY <1>3, <1>9, <3>1, Zenon DEF AnswerAt
    <3>2. CASE ~(s = cur /\ n = k)
      <4>1. n \in DOMAIN requests[s] /\ requests'[s][n] = requests[s][n]
        BY <1>9, <3>2
      <4>2. thread'[requests[s][n].caller] = thread[requests[s][n].caller]
        BY <1>10, <1>11, <4>1, Zenon
      <4>3. AnswerAt(s, n)
        BY <1>1, <4>1, AnswerOf, Zenon
      <4> QED BY <4>1, <4>2, <4>3, AnswerKept, Zenon
    <3> QED BY <3>1, <3>2, Zenon
  <2>3. ~mixed'
    BY <1>1, Zenon DEF IInv, Answers
  <2> QED BY <2>1, <2>2, <2>3, Zenon
<1> QED BY <1>13, <1>14, <1>15, <1>16, <1>17, <1>18, <1>19, <1>20, Zenon DEF IInv

-----------------------------------------------------------------------------
\* A step that leaves the maps and the calls' numbers alone keeps the invariant, if
\* what is on the wire afterwards goes to the calls that it is for.
LEMMA MapsKept ==
  ASSUME IInv,
         UNCHANGED <<id, cvs, requests, calls, mixed>>,
         thread' \in [Callers -> Calls],
         \A d \in Callers :
           /\ thread'[d].sess = thread[d].sess /\ thread'[d].num = thread[d].num
           /\ thread'[d].call = thread[d].call
           /\ Active(d)' => Active(d)
           /\ thread[d].step # "idle" => thread'[d].step # "idle",
         last' \in Sessions, cur' \in Sessions, TypeFlags',
         wire' \subseteq [num : Numbers, call : 0 .. MaxCalls],
         ~stale' => /\ ~stale
                    /\ \A a \in wire' :
                         /\ calls < NumberSpace => a.num < id[last']
                         /\ a.num \in DOMAIN requests[last'] =>
                              a.call = thread[requests[last'][a.num].caller].call
  PROVE  IInv'
<1>1. TypeCalls'
  BY Zenon DEF IInv, TypeCalls
<1>2. TypeMaps' /\ Unused' /\ Pool'
  BY DEF IInv, TypeMaps, Unused, Pool, PoolAt
<1>3. WireUnused'
  BY Zenon DEF WireUnused
<1>4. \A s \in Sessions : \A n \in DOMAIN requests[s] : requests[s][n].caller \in Callers
  BY Zenon DEF IInv, TypeMaps, Requests
<1>5. Owned'
  <2>1. ASSUME NEW d \in Callers, Active(d)'
        PROVE  MineAt(d)'
    <3>1. Active(d) /\ MineAt(d)
      BY <2>1, RequestOf, Zenon
    <3> QED BY <3>1, Zenon DEF MineAt
  <2>2. ASSUME NEW s \in Sessions, NEW n \in DOMAIN requests'[s]
        PROVE  OwnerAt(s, n)'
    <3>1. n \in DOMAIN requests[s] /\ requests'[s][n] = requests[s][n]
      BY Zenon
    <3>2. OwnerAt(s, n)
      BY <3>1, OwnerOf, Zenon
    <3> QED BY <1>4, <3>1, <3>2, OwnerKept, Zenon
  <2> QED BY <2>1, <2>2, Zenon DEF Owned
<1>6. Answers'
  <2> SUFFICES ASSUME ~stale'
               PROVE  /\ \A a \in wire' : a.num \in DOMAIN requests[last'] =>
                           a.call = thread'[requests[last'][a.num].caller].call
                      /\ \A s \in Sessions : \A n \in DOMAIN requests[s] : AnswerAt(s, n)'
                      /\ ~mixed
    BY Zenon DEF Answers
  <2>1. ASSUME NEW a \in wire', a.num \in DOMAIN requests[last']
        PROVE  a.call = thread'[requests[last'][a.num].caller].call
    BY <1>4, <2>1, Zenon
  <2>2. ASSUME NEW s \in Sessions, NEW n \in DOMAIN requests[s]
        PROVE  AnswerAt(s, n)'
    <3>1. AnswerAt(s, n)
      BY AnswerOf, Zenon
    <3> QED BY <1>4, <3>1, AnswerKept, Zenon
  <2> QED BY <2>1, <2>2, Zenon DEF IInv, Answers
<1> QED BY <1>1, <1>2, <1>3, <1>5, <1>6, Zenon DEF IInv

\* The wire as it is meets the condition of MapsKept.
LEMMA WireKept ==
  ASSUME IInv, ~stale, NEW a \in wire
  PROVE  /\ calls < NumberSpace => a.num < id[last]
         /\ a.num \in DOMAIN requests[last] =>
              a.call = thread[requests[last][a.num].caller].call
BY Zenon DEF IInv, WireUnused, Answers

\* So does every step of a caller that keeps its call's session and numbers.
LEMMA StepKept ==
  ASSUME IInv, NEW c \in Callers, Active(c), NEW y \in Calls,
         y.step # "idle", y.sess = thread[c].sess, y.num = thread[c].num, y.call = thread[c].call,
         thread' = [thread EXCEPT ![c] = y]
  PROVE  /\ thread' \in [Callers -> Calls]
         /\ \A d \in Callers :
              /\ thread'[d].sess = thread[d].sess /\ thread'[d].num = thread[d].num
              /\ thread'[d].call = thread[d].call
              /\ Active(d)' => Active(d)
              /\ thread[d].step # "idle" => thread'[d].step # "idle"
<1>1. thread \in [Callers -> Calls]
  BY Zenon DEF IInv, TypeCalls
<1>2. thread'[c] = y /\ \A d \in Callers : d # c => thread'[d] = thread[d]
  BY <1>1, Zenon
<1>3. thread' \in [Callers -> Calls]
  BY <1>1, Zenon
<1> QED BY <1>2, <1>3, Zenon DEF Active

\* Goto changes the step only.
LEMMA GotoEffect ==
  ASSUME IInv, NEW c \in Callers, NEW p \in Steps, Goto(c, p)
  PROVE  \E y \in Calls :
           /\ y.step = p /\ y.sess = thread[c].sess /\ y.num = thread[c].num
           /\ y.call = thread[c].call
           /\ thread' = [thread EXCEPT ![c] = y]
<1>1. ASSUME NEW x \in Calls
      PROVE  LET y == [x EXCEPT !.step = p] IN
               /\ y \in Calls /\ y.step = p /\ y.sess = x.sess
               /\ y.num = x.num /\ y.call = x.call
  BY Zenon DEF Calls
<1>2. thread[c] \in Calls
  BY Zenon DEF IInv, TypeCalls
<1>3. thread' = [thread EXCEPT ![c] = [thread[c] EXCEPT !.step = p]]
  BY Zenon DEF Goto
<1> QED BY <1>1, <1>2, <1>3, Zenon

\* Write keeps it: what a caller writes on its own session is for its own call.
LEMMA WriteIInv ==
  ASSUME IInv, NEW c \in Callers, Write(c)
  PROVE  IInv'
<1> DEFINE b == [num |-> thread[c].num, call |-> thread[c].call]
<1>1. /\ At(c, "write") /\ open /\ Goto(c, "check")
      /\ wire' = wire \cup {b}
      /\ stale' = (stale \/ thread[c].sess # last)
      /\ UNCHANGED <<id, cvs, requests, last, open, cur, calls, mixed>>
  BY Zenon DEF Write, disVars, conVars
<1>2. Active(c) /\ "check" \in Steps
  BY <1>1, Zenon DEF At, Active, Steps
<1>3. /\ thread' \in [Callers -> Calls]
      /\ \A d \in Callers :
           /\ thread'[d].sess = thread[d].sess /\ thread'[d].num = thread[d].num
           /\ thread'[d].call = thread[d].call
           /\ Active(d)' => Active(d)
           /\ thread[d].step # "idle" => thread'[d].step # "idle"
  BY <1>1, <1>2, GotoEffect, StepKept
<1>4. b \in [num : Numbers, call : 0 .. MaxCalls] /\ b.num = thread[c].num /\ b.call = thread[c].call
  BY Zenon DEF IInv, TypeCalls, Calls
<1> HIDE DEF b
<1>5. /\ last' \in Sessions /\ cur' \in Sessions /\ TypeFlags'
      /\ wire' \subseteq [num : Numbers, call : 0 .. MaxCalls]
  BY <1>1, <1>4, Zenon DEF IInv, TypeCalls, TypeFlags
<1>6. ASSUME ~stale'
      PROVE  /\ ~stale
             /\ \A a \in wire' :
                  /\ calls < NumberSpace => a.num < id[last']
                  /\ a.num \in DOMAIN requests[last'] =>
                       a.call = thread[requests[last'][a.num].caller].call
  <2>1. ~stale /\ thread[c].sess = last /\ last' = last
    BY <1>1, <1>6, Zenon
  <2>2. b.num \in DOMAIN requests[last] /\ requests[last][b.num].caller = c
    BY <1>2, <1>4, <2>1, RequestOf, Zenon DEF MineAt
  <2>3. calls < NumberSpace => b.num < id[last]
    BY <2>2, Zenon DEF IInv, Unused, TypeCalls
  <2> QED BY <1>1, <1>4, <2>1, <2>2, <2>3, WireKept, Zenon
<1> QED BY <1>1, <1>3, <1>5, <1>6, MapsKept, Zenon

\* So do the steps of a caller that waits.
LEMMA WaitingIInv ==
  ASSUME IInv, NEW c \in Callers, Check(c) \/ Wait(c) \/ Timeout(c)
  PROVE  IInv'
<1>1. Active(c) /\ UNCHANGED <<id, cvs, requests, last, open, cur, wire, calls, mixed, stale>>
  BY Zenon DEF Check, Wait, Timeout, At, Active, disVars, conVars, histVars
<1>2. \E y \in Calls :
        /\ y.step # "idle" /\ y.sess = thread[c].sess /\ y.num = thread[c].num
        /\ y.call = thread[c].call
        /\ thread' = [thread EXCEPT ![c] = y]
  <2>1. CASE Check(c) \/ Wait(c)
    <3>1. PICK p \in {"finish", "enter", "wait"} : Goto(c, p)
      BY <2>1, Zenon DEF Check, Wait
    <3>2. p \in Steps /\ p # "idle"
      BY Zenon DEF Steps
    <3> QED BY <3>1, <3>2, GotoEffect, Zenon
  <2>2. CASE Timeout(c)
    <3>1. ASSUME NEW x \in Calls
          PROVE  LET y == [x EXCEPT !.step = "finish", !.err = "timeout"] IN
                   /\ y \in Calls /\ y.step = "finish" /\ y.sess = x.sess
                   /\ y.num = x.num /\ y.call = x.call
      BY Zenon DEF Calls, Steps
    <3>2. thread[c] \in Calls /\ thread \in [Callers -> Calls]
      BY Zenon DEF IInv, TypeCalls
    <3>3. thread' = [thread EXCEPT ![c] = [thread[c] EXCEPT !.step = "finish", !.err = "timeout"]]
      BY <2>2, <3>2, Zenon DEF Timeout
    <3>4. "finish" # "idle"
      BY Zenon
    <3> QED BY <3>1, <3>2, <3>3, <3>4, Zenon
  <2> QED BY <2>1, <2>2, Zenon
<1>3. /\ thread' \in [Callers -> Calls]
      /\ \A d \in Callers :
           /\ thread'[d].sess = thread[d].sess /\ thread'[d].num = thread[d].num
           /\ thread'[d].call = thread[d].call
           /\ Active(d)' => Active(d)
           /\ thread[d].step # "idle" => thread'[d].step # "idle"
  BY <1>1, <1>2, StepKept, Zenon
<1>4. /\ last' \in Sessions /\ cur' \in Sessions /\ TypeFlags'
      /\ wire' \subseteq [num : Numbers, call : 0 .. MaxCalls]
  BY <1>1, Zenon DEF IInv, TypeCalls, TypeFlags
<1> QED BY <1>1, <1>3, <1>4, WireKept, MapsKept, Zenon

-----------------------------------------------------------------------------
\* The connection's steps keep it: an old session's answers are gone before a new
\* session begins.
LEMMA ConnectionIInv ==
  ASSUME IInv, ReadLate \/ Disconnect \/ Dial \/ Establish
  PROVE  IInv'
<1>1. /\ UNCHANGED <<id, cvs, requests, calls, mixed, stale, thread>>
      /\ (wire' = {} /\ open' = FALSE /\ last' = last)
           \/ (~open /\ open' = TRUE /\ wire' = wire /\ last' = last + 1)
           \/ (open' = open /\ wire' = wire /\ last' = last)
      /\ cur' \in {cur, last}
      /\ last' # last => last < MaxSessions
  BY Zenon DEF ReadLate, Disconnect, Dial, Establish, Close, disVars, histVars
<1>2. last \in Sessions /\ cur \in Sessions /\ thread \in [Callers -> Calls]
  BY Zenon DEF IInv, TypeCalls
<1>3. last' \in Sessions /\ cur' \in Sessions
  BY <1>1, <1>2 DEF Sessions
<1>4. TypeFlags'
  <2>1. (wire' = {} /\ open' = FALSE) \/ open' = TRUE \/ (open' = open /\ wire' = wire)
    BY <1>1, Zenon
  <2> QED BY <2>1, Zenon DEF IInv, TypeFlags
<1>5. wire' \subseteq [num : Numbers, call : 0 .. MaxCalls]
  BY <1>1, Zenon DEF IInv, TypeCalls
<1>6. wire' = {} \/ (wire' = wire /\ last' = last)
  BY <1>1, Zenon DEF IInv, TypeFlags
<1>7. \A d \in Callers : Active(d)' <=> Active(d)
  BY <1>1, Zenon DEF Active
<1> QED BY <1>1, <1>2, <1>3, <1>4, <1>5, <1>6, <1>7, WireKept, MapsKept, Zenon

\* BeginEmpty keeps it.
LEMMA BeginEmptyIInv ==
  ASSUME IInv, NEW c \in Callers, BeginEmpty(c)
  PROVE  IInv'
<1>1. /\ UNCHANGED <<id, cvs, requests, calls, mixed, stale, last, cur>>
      /\ wire' = {} /\ open' = FALSE
      /\ thread' = [d \in Callers |-> [thread[d] EXCEPT !.step = "crashed"]]
  BY Zenon DEF BeginEmpty, Close, disVars
<1>2. ASSUME NEW x \in Calls
      PROVE  LET y == [x EXCEPT !.step = "crashed"] IN
               /\ y \in Calls /\ y.step = "crashed" /\ y.sess = x.sess
               /\ y.num = x.num /\ y.call = x.call
  BY Zenon DEF Calls, Steps
<1>3. \A d \in Callers : thread[d] \in Calls /\ thread'[d] = [thread[d] EXCEPT !.step = "crashed"]
  BY <1>1, Zenon DEF IInv, TypeCalls
<1>4. \A d \in Callers :
        /\ thread'[d] \in Calls
        /\ thread'[d].sess = thread[d].sess /\ thread'[d].num = thread[d].num
        /\ thread'[d].call = thread[d].call /\ thread'[d].step = "crashed"
  <2> SUFFICES ASSUME NEW d \in Callers
               PROVE  /\ thread'[d] \in Calls
                      /\ thread'[d].sess = thread[d].sess /\ thread'[d].num = thread[d].num
                      /\ thread'[d].call = thread[d].call /\ thread'[d].step = "crashed"
    BY Zenon
  <2>1. thread[d] \in Calls /\ thread'[d] = [thread[d] EXCEPT !.step = "crashed"]
    BY <1>3, Zenon
  <2> QED BY <1>2, <2>1, Zenon
<1>5. thread' \in [Callers -> Calls]
  BY <1>1, <1>4, Zenon
<1>6. \A d \in Callers : (Active(d)' => Active(d)) /\ thread'[d].step # "idle"
  BY <1>4, Zenon DEF Active
<1>7. TypeFlags' /\ last' \in Sessions /\ cur' \in Sessions
  BY <1>1, Zenon DEF TypeFlags, IInv, TypeCalls
<1> QED BY <1>1, <1>4, <1>5, <1>6, <1>7, MapsKept, Zenon

\* BeginFail keeps it: the number it took is not used.
LEMMA BeginFailIInv ==
  ASSUME IInv, NEW c \in Callers, BeginFail(c)
  PROVE  IInv'
<1>1. /\ calls < MaxCalls /\ calls' = calls + 1
      /\ id' = [id EXCEPT ![cur] = NextNumber(id[cur])]
      /\ UNCHANGED <<cvs, requests, last, open, cur, wire, thread, mixed, stale>>
  BY Zenon DEF BeginFail, conVars
<1>2. /\ cur \in Sessions /\ last \in Sessions /\ calls \in Nat
      /\ id \in [Sessions -> Numbers] /\ id[cur] \in Numbers
  BY DEF IInv, TypeCalls
<1>3. calls < NumberSpace /\ id[cur] <= calls
  BY <1>1, <1>2 DEF IInv, Unused
<1>4. /\ NextNumber(id[cur]) \in Numbers
      /\ id[cur] + 1 < NumberSpace => NextNumber(id[cur]) = id[cur] + 1
  BY <1>2, NextNumberValue, Zenon
<1>5. TypeCalls'
  BY <1>1, <1>2, <1>4 DEF IInv, TypeCalls
<1>6. ASSUME calls' < NumberSpace, NEW s \in Sessions
      PROVE  id[s] <= id'[s] /\ id'[s] <= calls' /\ id[s] \in Int /\ id'[s] \in Int
  <2>1. id[s] \in Numbers /\ id[s] <= calls
    BY <1>2, <1>3, Zenon DEF IInv, Unused
  <2>2. id'[s] = id[s] \/ (s = cur /\ id'[s] = id[s] + 1)
    BY <1>1, <1>2, <1>3, <1>4, <1>6 DEF Numbers
  <2> QED BY <1>1, <1>2, <1>3, <2>1, <2>2 DEF Numbers
<1>7. Unused'
  <2> SUFFICES ASSUME calls' < NumberSpace, NEW s \in Sessions
               PROVE  id'[s] <= calls' /\ \A n \in DOMAIN requests[s] : n < id'[s]
    BY <1>1, Zenon DEF Unused
  <2>1. \A n \in DOMAIN requests[s] : n \in Numbers /\ n < id[s]
    BY <1>3, Zenon DEF IInv, Unused, TypeMaps
  <2> QED BY <1>6, <2>1 DEF Numbers
<1>8. WireUnused'
  <2> SUFFICES ASSUME calls' < NumberSpace, ~stale, NEW a \in wire PROVE a.num < id'[last]
    BY <1>1, Zenon DEF WireUnused
  <2>1. a.num \in Numbers /\ a.num < id[last]
    BY <1>3, Zenon DEF IInv, WireUnused, TypeCalls
  <2> QED BY <1>2, <1>6, <2>1 DEF Numbers
<1>9. TypeFlags' /\ TypeMaps' /\ Pool'
  BY <1>1 DEF IInv, TypeFlags, TypeMaps, Pool, PoolAt
<1>10. Owned'
  <2>1. Owned
    BY Zenon DEF IInv
  <2>2. \A d \in Callers : (Active(d)' <=> Active(d)) /\ (MineAt(d)' <=> MineAt(d))
    BY <1>1, Zenon DEF Active, MineAt
  <2>3. \A s \in Sessions : \A n \in DOMAIN requests[s] : OwnerAt(s, n)' <=> OwnerAt(s, n)
    BY <1>1, Zenon DEF OwnerAt
  <2> QED BY <1>1, <2>1, <2>2, <2>3, Zenon DEF Owned
<1>11. Answers'
  <2>1. Answers
    BY Zenon DEF IInv
  <2>2. \A s \in Sessions : \A n \in DOMAIN requests[s] : AnswerAt(s, n)' <=> AnswerAt(s, n)
    BY <1>1, Zenon DEF AnswerAt
  <2> QED BY <1>1, <2>1, <2>2, Zenon DEF Answers
<1> QED BY <1>5, <1>7, <1>8, <1>9, <1>10, <1>11, Zenon DEF IInv

-----------------------------------------------------------------------------
\* A call that leaves mdv_dispatcher_send takes its request and its condition
\* variable with it, and nobody else's.
LEMMA ReturnIInv ==
  ASSUME IInv, NEW c \in Callers, Active(c), Unregister(c), Return(c),
         UNCHANGED <<id, last, open, cur, wire, calls, stale>>,
         ~stale => ~mixed'
  PROVE  IInv'
<1> DEFINE s0 == thread[c].sess
           k  == thread[c].num
           v  == requests[s0][k].cv
<1>1. /\ cvs' = [cvs EXCEPT ![s0] = cvs[s0] \cup {v}]
      /\ requests' = [requests EXCEPT ![s0] = Erase(requests[s0], k)]
      /\ thread' = [thread EXCEPT ![c] = Idle]
  BY Zenon DEF Unregister, Return, Entry
<1>2. /\ s0 \in Sessions /\ k \in DOMAIN requests[s0] /\ requests[s0][k].caller = c
  BY RequestOf, Zenon DEF MineAt
<1>3. v \in Slots /\ v \notin cvs[s0]
  BY <1>2, OwnerOf, Zenon
<1>4. \A s \in Sessions : \A n \in DOMAIN requests[s] :
        requests[s][n].caller = c <=> s = s0 /\ n = k
  <2> SUFFICES ASSUME NEW s \in Sessions, NEW n \in DOMAIN requests[s]
               PROVE  requests[s][n].caller = c <=> s = s0 /\ n = k
    BY Zenon
  <2>1. thread[requests[s][n].caller].sess = s /\ thread[requests[s][n].caller].num = n
    BY OwnerOf, Zenon DEF OwnerAt
  <2> QED BY <1>2, <2>1, Zenon
<1>5. DOMAIN requests = Sessions
  BY Zenon DEF IInv, TypeMaps
<1>6. v = requests[s0][k].cv
  BY Zenon
<1> HIDE DEF s0, k, v
<1>7. /\ requests'[s0] = Erase(requests[s0], k)
      /\ \A s \in Sessions : s # s0 => requests'[s] = requests[s]
      /\ requests' = [s \in Sessions |-> requests'[s]]
  BY <1>1, <1>2, <1>5, Zenon
<1>8. /\ DOMAIN requests'[s0] = DOMAIN requests[s0] \ {k}
      /\ \A n \in DOMAIN requests[s0] : n # k => requests'[s0][n] = requests[s0][n]
      /\ requests'[s0] = [n \in DOMAIN requests[s0] \ {k} |-> requests'[s0][n]]
  BY <1>7, Zenon DEF Erase
<1>9. \A s \in Sessions : \A n \in DOMAIN requests'[s] :
        /\ n \in DOMAIN requests[s] /\ requests'[s][n] = requests[s][n]
        /\ requests[s][n].caller \in Callers /\ requests[s][n].caller # c
  <2> SUFFICES ASSUME NEW s \in Sessions, NEW n \in DOMAIN requests'[s]
               PROVE  /\ n \in DOMAIN requests[s] /\ requests'[s][n] = requests[s][n]
                      /\ requests[s][n].caller \in Callers /\ requests[s][n].caller # c
    BY Zenon
  <2>1. n \in DOMAIN requests[s] /\ requests'[s][n] = requests[s][n] /\ ~(s = s0 /\ n = k)
    <3>1. CASE s = s0
      BY <1>8, <3>1, Zenon
    <3>2. CASE s # s0
      BY <1>7, <3>2, Zenon
    <3> QED BY <3>1, <3>2, Zenon
  <2>2. requests[s][n].caller # c
    BY <1>4, <2>1, Zenon
  <2> QED BY <2>1, <2>2, Zenon DEF IInv, TypeMaps, Requests
<1>10. thread'[c] = Idle /\ \A d \in Callers : d # c => thread'[d] = thread[d]
  BY <1>1, Zenon DEF IInv, TypeCalls
<1>11. TypeCalls'
  <2>1. Idle \in Calls
    BY DEF Idle, Calls, Steps, Sessions, Numbers
  <2> QED BY <1>1, <2>1, Zenon DEF IInv, TypeCalls
<1>12. TypeFlags' /\ WireUnused'
  BY Zenon DEF IInv, TypeFlags, WireUnused
<1>13. TypeMaps'
  <2>1. cvs' \in [Sessions -> SUBSET Slots]
    BY <1>1, <1>3, Zenon DEF IInv, TypeMaps
  <2>2. \A s \in Sessions : DOMAIN requests'[s] \subseteq Numbers
    BY <1>9, Zenon DEF IInv, TypeMaps
  <2>3. \A s \in Sessions : requests'[s] \in [DOMAIN requests'[s] -> Requests]
    <3> SUFFICES ASSUME NEW s \in Sessions
                 PROVE  requests'[s] \in [DOMAIN requests'[s] -> Requests]
      BY Zenon
    <3>1. \A n \in DOMAIN requests'[s] : requests'[s][n] \in Requests
      BY <1>9, Zenon DEF IInv, TypeMaps
    <3>2. requests'[s] = [n \in DOMAIN requests'[s] |-> requests'[s][n]]
      <4>1. CASE s = s0
        BY <1>8, <4>1, Zenon
      <4>2. CASE s # s0
        BY <1>7, <4>2, Zenon DEF IInv, TypeMaps
      <4> QED BY <4>1, <4>2, Zenon
    <3> QED BY <3>1, <3>2, Zenon
  <2> QED BY <1>7, <2>1, <2>2, <2>3, Zenon DEF TypeMaps
<1>14. Unused'
  BY <1>9, Zenon DEF IInv, Unused
<1>15. Owned'
  <2>1. ASSUME NEW d \in Callers, Active(d)'
        PROVE  MineAt(d)'
    <3>1. d # c
      BY <1>10, <2>1 DEF Active, Idle
    <3>2. thread'[d] = thread[d] /\ Active(d)
      BY <1>10, <2>1, <3>1, Zenon DEF Active
    <3>3. /\ thread[d].sess \in Sessions
          /\ thread[d].num \in DOMAIN requests[thread[d].sess]
          /\ requests[thread[d].sess][thread[d].num].caller = d
      BY <3>2, RequestOf, Zenon DEF MineAt
    <3>4. ~(thread[d].sess = s0 /\ thread[d].num = k)
      BY <1>2, <3>1, <3>3, Zenon DEF s0, k
    <3>5. CASE thread[d].sess = s0
      <4>1. thread[d].num \in DOMAIN requests[s0] /\ thread[d].num # k
        BY <3>3, <3>4, <3>5, Zenon
      <4>2. /\ thread[d].num \in DOMAIN requests'[s0]
            /\ requests'[s0][thread[d].num] = requests[s0][thread[d].num]
        BY <1>8, <4>1, Zenon
      <4> QED BY <3>2, <3>3, <3>5, <4>2, Zenon DEF MineAt
    <3>6. CASE thread[d].sess # s0
      BY <1>7, <3>2, <3>3, <3>6, Zenon DEF MineAt
    <3> QED BY <3>5, <3>6, Zenon
  <2>2. ASSUME NEW s \in Sessions, NEW n \in DOMAIN requests'[s]
        PROVE  OwnerAt(s, n)'
    <3>1. n \in DOMAIN requests[s] /\ requests'[s][n] = requests[s][n]
      BY <1>9, Zenon
    <3>2. thread'[requests[s][n].caller] = thread[requests[s][n].caller]
      BY <1>9, <1>10, Zenon
    <3>3. OwnerAt(s, n)
      BY <3>1, OwnerOf, Zenon
    <3> QED BY <3>1, <3>2, <3>3, OwnerKept, Zenon
  <2> QED BY <2>1, <2>2, Zenon DEF Owned
<1>16. Pool'
  <2> SUFFICES ASSUME NEW s \in Sessions PROVE PoolAt(s)'
    BY Zenon DEF Pool
  <2>0. PoolAt(s)
    BY Zenon DEF IInv, Pool
  <2>1. CASE s = s0
    <3>1. cvs'[s] = cvs[s] \cup {v}
      BY <1>1, <1>2, <2>1, Zenon DEF IInv, TypeMaps
    <3>3. /\ DOMAIN requests'[s] = DOMAIN requests[s] \ {k} /\ k \in DOMAIN requests[s]
          /\ \A n \in DOMAIN requests'[s] : requests'[s][n] = requests[s][n]
          /\ v = requests[s][k].cv
      BY <1>2, <1>6, <1>8, <2>1, Zenon
    <3> QED BY <2>0, <3>1, <3>3 DEF PoolAt
  <2>2. CASE s # s0
    <3>1. cvs'[s] = cvs[s] /\ requests'[s] = requests[s]
      BY <1>1, <1>7, <2>2, Zenon DEF IInv, TypeMaps
    <3> QED BY <2>0, <3>1, PoolKept, Zenon
  <2> QED BY <2>1, <2>2, Zenon
<1>17. Answers'
  <2> SUFFICES ASSUME ~stale
               PROVE  /\ \A a \in wire : a.num \in DOMAIN requests'[last] =>
                           a.call = thread'[requests'[last][a.num].caller].call
                      /\ \A s \in Sessions : \A n \in DOMAIN requests'[s] : AnswerAt(s, n)'
                      /\ ~mixed'
    BY Zenon DEF Answers
  <2>1. last \in Sessions
    BY Zenon DEF IInv, TypeCalls
  <2>2. ASSUME NEW a \in wire, a.num \in DOMAIN requests'[last]
        PROVE  a.call = thread'[requests'[last][a.num].caller].call
    <3>1. a.num \in DOMAIN requests[last] /\ requests'[last][a.num] = requests[last][a.num]
      BY <1>9, <2>1, <2>2, Zenon
    <3>2. thread'[requests[last][a.num].caller] = thread[requests[last][a.num].caller]
      BY <1>9, <1>10, <2>1, <2>2, Zenon
    <3> QED BY <3>1, <3>2, WireKept, Zenon
  <2>3. ASSUME NEW s \in Sessions, NEW n \in DOMAIN requests'[s]
        PROVE  AnswerAt(s, n)'
    <3>1. n \in DOMAIN requests[s] /\ requests'[s][n] = requests[s][n]
      BY <1>9, Zenon
    <3>2. thread'[requests[s][n].caller] = thread[requests[s][n].caller]
      BY <1>9, <1>10, Zenon
    <3>3. AnswerAt(s, n)
      BY <3>1, AnswerOf, Zenon
    <3> QED BY <3>1, <3>2, <3>3, AnswerKept, Zenon
  <2> QED BY <2>2, <2>3, Zenon
<1> QED BY <1>11, <1>12, <1>13, <1>14, <1>15, <1>16, <1>17, Zenon DEF IInv

\* WriteFail keeps it.
LEMMA WriteFailIInv ==
  ASSUME IInv, NEW c \in Callers, WriteFail(c)
  PROVE  IInv'
<1>1. /\ Active(c) /\ Unregister(c) /\ Return(c)
      /\ UNCHANGED <<id, last, open, cur, wire, calls, stale, mixed>>
  BY Zenon DEF WriteFail, At, Active, conVars, histVars
<1> QED BY <1>1, ReturnIInv, Zenon DEF IInv, Answers

\* Finish keeps it: an answer that is taken is the one to this call.
LEMMA FinishIInv ==
  ASSUME IInv, NEW c \in Callers, Finish(c)
  PROVE  IInv'
<1>1. /\ Active(c) /\ Unregister(c) /\ Return(c)
      /\ UNCHANGED <<id, last, open, cur, wire, calls, stale>>
      /\ mixed' = (mixed \/ (/\ thread[c].err = "ok" /\ Entry(c).ready
                             /\ Entry(c).resp # thread[c].call))
  BY Zenon DEF Finish, At, Active, conVars
<1>2. ASSUME ~stale PROVE ~mixed'
  <2>1. /\ thread[c].sess \in Sessions
        /\ thread[c].num \in DOMAIN requests[thread[c].sess]
        /\ Entry(c).caller = c
    BY <1>1, RequestOf, Zenon DEF MineAt, Entry
  <2>2. Entry(c).ready => Entry(c).resp = thread[c].call
    <3>1. AnswerAt(thread[c].sess, thread[c].num)
      BY <1>2, <2>1, AnswerOf, Zenon
    <3> QED BY <2>1, <3>1, Zenon DEF Entry, AnswerAt
  <2>3. ~mixed
    BY <1>2, Zenon DEF IInv, Answers
  <2> QED BY <1>1, <2>2, <2>3, Zenon
<1> QED BY <1>1, <1>2, ReturnIInv, Zenon

-----------------------------------------------------------------------------
\* Read keeps it: the answer is stored in the request with its number.
LEMMA ReadIInv == IInv /\ Read => IInv'
<1> SUFFICES ASSUME IInv, Read PROVE IInv'
  BY Zenon
<1>1. PICK a \in wire, k \in DOMAIN requests[last] :
        /\ k = a.num
        /\ wire' = wire \ {a}
        /\ requests' = [requests EXCEPT ![last][k] = [@ EXCEPT !.ready = TRUE, !.resp = a.call]]
        /\ LET c == requests[last][k].caller IN
             IF At(c, "wait") THEN Goto(c, "check") ELSE UNCHANGED thread
  BY Zenon DEF Read, Matches
<1>2. open /\ UNCHANGED <<id, cvs, last, open, cur, calls, mixed, stale>>
  BY Zenon DEF Read, conVars, histVars
<1>3. last \in Sessions /\ a.call \in 0 .. MaxCalls
  BY Zenon DEF IInv, TypeCalls
<1> DEFINE c == requests[last][k].caller
           q == [requests[last][k] EXCEPT !.ready = TRUE, !.resp = a.call]
<1>4. requests[last][k] \in Requests /\ c \in Callers
  BY <1>3, Zenon DEF IInv, TypeMaps, Requests
<1>5. /\ q \in Requests /\ q.caller = c /\ q.cv = requests[last][k].cv
      /\ q.ready = TRUE /\ q.resp = a.call
  <2>1. ASSUME NEW x \in Requests, NEW n \in 0 .. MaxCalls
        PROVE  LET y == [x EXCEPT !.ready = TRUE, !.resp = n] IN
                 /\ y \in Requests /\ y.caller = x.caller /\ y.cv = x.cv
                 /\ y.ready = TRUE /\ y.resp = n
    BY Zenon DEF Requests
  <2> QED BY <1>3, <1>4, <2>1, Zenon
<1>6. /\ requests'[last][k] = q
      /\ \A s \in Sessions : DOMAIN requests'[s] = DOMAIN requests[s]
      /\ \A s \in Sessions : \A n \in DOMAIN requests[s] :
           ~(s = last /\ n = k) => requests'[s][n] = requests[s][n]
      /\ requests' = [s \in Sessions |-> requests'[s]]
      /\ \A s \in Sessions : requests'[s] = [n \in DOMAIN requests[s] |-> requests'[s][n]]
  <2>1. DOMAIN requests = Sessions /\ requests = [s \in Sessions |-> requests[s]]
    BY Zenon DEF IInv, TypeMaps
  <2>2. \A s \in Sessions : requests[s] = [n \in DOMAIN requests[s] |-> requests[s][n]]
    BY Zenon DEF IInv, TypeMaps
  <2>3. requests' = [requests EXCEPT ![last] = [requests[last] EXCEPT ![k] = q]]
    BY <1>1, Zenon
  <2> HIDE DEF q
  <2>4. /\ requests'[last] = [requests[last] EXCEPT ![k] = q]
        /\ \A s \in Sessions : s # last => requests'[s] = requests[s]
        /\ requests' = [s \in Sessions |-> requests'[s]]
    BY <1>3, <2>1, <2>3, Zenon
  <2>5. /\ DOMAIN requests'[last] = DOMAIN requests[last]
        /\ requests'[last][k] = q
        /\ \A n \in DOMAIN requests[last] : n # k => requests'[last][n] = requests[last][n]
        /\ requests'[last] = [n \in DOMAIN requests[last] |-> requests'[last][n]]
    BY <2>4, Zenon
  <2>6. ASSUME NEW s \in Sessions
        PROVE  /\ DOMAIN requests'[s] = DOMAIN requests[s]
               /\ \A n \in DOMAIN requests[s] :
                    ~(s = last /\ n = k) => requests'[s][n] = requests[s][n]
               /\ requests'[s] = [n \in DOMAIN requests[s] |-> requests'[s][n]]
    <3>1. CASE s = last
      BY <2>5, <3>1, Zenon
    <3>2. CASE s # last
      <4>1. requests'[s] = requests[s]
        BY <2>4, <3>2, Zenon
      <4> QED BY <2>2, <4>1, Zenon
    <3> QED BY <3>1, <3>2, Zenon
  <2> QED BY <2>4, <2>5, <2>6, Zenon
<1>7. /\ thread' \in [Callers -> Calls]
      /\ \A d \in Callers :
           /\ thread'[d].sess = thread[d].sess /\ thread'[d].num = thread[d].num
           /\ thread'[d].call = thread[d].call
           /\ Active(d)' => Active(d)
           /\ thread[d].step # "idle" => thread'[d].step # "idle"
  <2>1. CASE At(c, "wait")
    <3>1. Active(c) /\ Goto(c, "check") /\ "check" \in Steps
      BY <1>1, <2>1, Zenon DEF At, Active, Steps
    <3>2. PICK y \in Calls :
            /\ y.step = "check" /\ y.sess = thread[c].sess /\ y.num = thread[c].num
            /\ y.call = thread[c].call
            /\ thread' = [thread EXCEPT ![c] = y]
      BY <1>4, <3>1, GotoEffect, Zenon
    <3>3. y.step # "idle"
      BY <3>2, Zenon
    <3> QED BY <1>4, <3>1, <3>2, <3>3, StepKept, Zenon
  <2>2. CASE ~At(c, "wait")
    <3>1. thread' = thread
      BY <1>1, <2>2, Zenon
    <3> QED BY <3>1, Zenon DEF IInv, TypeCalls, Active
  <2> QED BY <2>1, <2>2, Zenon
<1>8. \A s \in Sessions : \A n \in DOMAIN requests[s] :
        /\ requests'[s][n] \in Requests
        /\ requests'[s][n].caller = requests[s][n].caller
        /\ requests'[s][n].cv = requests[s][n].cv
        /\ requests[s][n].caller \in Callers
  <2> SUFFICES ASSUME NEW s \in Sessions, NEW n \in DOMAIN requests[s]
               PROVE  /\ requests'[s][n] \in Requests
                      /\ requests'[s][n].caller = requests[s][n].caller
                      /\ requests'[s][n].cv = requests[s][n].cv
                      /\ requests[s][n].caller \in Callers
    BY Zenon
  <2>1. CASE s = last /\ n = k
    <3> HIDE DEF q
    <3> QED BY <1>4, <1>5, <1>6, <2>1, Zenon
  <2>2. CASE ~(s = last /\ n = k)
    BY <1>6, <2>2 DEF IInv, TypeMaps, Requests
  <2> QED BY <2>1, <2>2, Zenon
<1> HIDE DEF c, q
<1>9. TypeCalls' /\ TypeFlags'
  BY <1>1, <1>2, <1>7, Zenon DEF IInv, TypeCalls, TypeFlags
<1>10. TypeMaps'
  BY <1>2, <1>6, <1>8, Zenon DEF IInv, TypeMaps
<1>11. Unused' /\ WireUnused'
  BY <1>1, <1>2, <1>6, Zenon DEF IInv, Unused, WireUnused
<1>12. Pool'
  <2> SUFFICES ASSUME NEW s \in Sessions PROVE PoolAt(s)'
    BY Zenon DEF Pool
  <2>1. /\ PoolAt(s) /\ cvs'[s] = cvs[s] /\ DOMAIN requests'[s] = DOMAIN requests[s]
        /\ \A n \in DOMAIN requests[s] : requests'[s][n].cv = requests[s][n].cv
    BY <1>2, <1>6, <1>8, Zenon DEF IInv, Pool
  <2> QED BY <2>1, PoolKept, Zenon
<1>13. Owned'
  <2>1. ASSUME NEW d \in Callers, Active(d)'
        PROVE  MineAt(d)'
    <3>1. /\ thread[d].sess \in Sessions
          /\ thread[d].num \in DOMAIN requests[thread[d].sess]
          /\ requests[thread[d].sess][thread[d].num].caller = d
      BY <1>7, <2>1, RequestOf, Zenon DEF MineAt
    <3>2. /\ DOMAIN requests'[thread[d].sess] = DOMAIN requests[thread[d].sess]
          /\ requests'[thread[d].sess][thread[d].num].caller = d
      BY <1>6, <1>8, <3>1
    <3> QED BY <1>7, <3>1, <3>2, Zenon DEF MineAt
  <2>2. ASSUME NEW s \in Sessions, NEW n \in DOMAIN requests'[s]
        PROVE  OwnerAt(s, n)'
    <3>1. n \in DOMAIN requests[s] /\ requests'[s][n].caller = requests[s][n].caller
      BY <1>6, <1>8, Zenon
    <3>2. requests[s][n].caller \in Callers /\ OwnerAt(s, n)
      BY <3>1, OwnerOf, Zenon
    <3> QED BY <1>7, <3>1, <3>2, OwnerKept, Zenon
  <2> QED BY <2>1, <2>2, Zenon DEF Owned
<1>14. Answers'
  <2> SUFFICES ASSUME ~stale
               PROVE  /\ \A b \in wire' : b.num \in DOMAIN requests'[last] =>
                           b.call = thread'[requests'[last][b.num].caller].call
                      /\ \A s \in Sessions : \A n \in DOMAIN requests'[s] : AnswerAt(s, n)'
                      /\ ~mixed
    BY <1>2, Zenon DEF Answers
  <2>1. ASSUME NEW b \in wire', b.num \in DOMAIN requests'[last]
        PROVE  b.call = thread'[requests'[last][b.num].caller].call
    <3>1. b \in wire /\ b.num \in DOMAIN requests[last]
      BY <1>1, <1>3, <1>6, <2>1, Zenon
    <3>2. b.call = thread[requests[last][b.num].caller].call
      BY <3>1, Zenon DEF IInv, Answers
    <3> QED BY <1>3, <1>7, <1>8, <3>1, <3>2
  <2>2. ASSUME NEW s \in Sessions, NEW n \in DOMAIN requests'[s]
        PROVE  AnswerAt(s, n)'
    <3>1. CASE s = last /\ n = k
      <4>1. a.call = thread[c].call
        BY <1>1, Zenon DEF IInv, Answers, c
      <4> QED BY <1>4, <1>5, <1>6, <1>7, <3>1, <4>1, Zenon DEF AnswerAt
    <3>2. CASE ~(s = last /\ n = k)
      <4>1. n \in DOMAIN requests[s] /\ requests'[s][n] = requests[s][n]
        BY <1>6, <3>2, Zenon
      <4>2. AnswerAt(s, n)
        BY <4>1, AnswerOf, Zenon
      <4> QED BY <1>7, <1>8, <4>1, <4>2, AnswerKept, Zenon
    <3> QED BY <3>1, <3>2, Zenon
  <2> QED BY <2>1, <2>2, Zenon DEF IInv, Answers
<1> QED BY <1>9, <1>10, <1>11, <1>12, <1>13, <1>14, Zenon DEF IInv

-----------------------------------------------------------------------------
\* Every step keeps it.
LEMMA NextIInv == IInv /\ [Next]_vars => IInv'
<1> SUFFICES ASSUME IInv, [Next]_vars PROVE IInv'
  BY Zenon
<1>1. CASE UNCHANGED vars
  <2>1. UNCHANGED <<id, cvs, requests, last, open, cur, wire, thread, calls, mixed, stale>>
    BY <1>1, Zenon DEF vars, disVars, conVars, histVars
  <2>2. /\ last' \in Sessions /\ cur' \in Sessions /\ TypeFlags'
        /\ thread' \in [Callers -> Calls]
        /\ wire' \subseteq [num : Numbers, call : 0 .. MaxCalls]
    BY <2>1, Zenon DEF IInv, TypeCalls, TypeFlags
  <2>3. \A d \in Callers : Active(d)' => Active(d)
    BY <2>1, Zenon DEF Active
  <2> QED BY <2>1, <2>2, <2>3, WireKept, MapsKept, Zenon
<1>2. CASE \E c \in Callers : Begin(c) \/ BeginFail(c) \/ BeginEmpty(c) \/ Proceed(c)
  BY <1>2, BeginIInv, BeginFailIInv, BeginEmptyIInv, WriteIInv, WriteFailIInv,
     WaitingIInv, FinishIInv, Zenon DEF Proceed
<1>3. CASE Read \/ ReadLate \/ Disconnect \/ Dial \/ Establish
  BY <1>3, ReadIInv, ConnectionIInv, Zenon
<1> QED BY <1>1, <1>2, <1>3, Zenon DEF Next

\* The inductive invariant holds in every reachable state.
THEOREM DispatcherInvariant == Spec => []IInv
<1> QED BY InitIInv, NextIInv, PTL DEF Spec

\* Type correctness: in particular the counter of message numbers wraps within its
\* width.
THEOREM DispatcherTypeOK == Spec => []TypeOK
<1>1. IInv => TypeOK
  <2> SUFFICES ASSUME IInv PROVE TypeOK
    BY Zenon
  <2>1. \A s \in Sessions : \A n \in DOMAIN requests[s] :
          n \in Numbers /\ requests[s][n] \in Requests
    BY Zenon DEF IInv, TypeMaps
  <2>2. open \in BOOLEAN
    BY Zenon DEF IInv, TypeFlags
  <2> QED BY <2>1, <2>2, Zenon
      DEF IInv, TypeCalls, TypeMaps, TypeOK, Numbers, Requests, Calls
<1> QED BY <1>1, DispatcherInvariant, PTL

\* The entry that mdv_dispatcher_send reads without the mutex is its own, whatever
\* other callers, answers, time-outs and lost connections do meanwhile.
THEOREM DispatcherEntryIsMine == Spec => []EntryIsMine
<1>1. IInv => EntryIsMine
  BY Zenon DEF IInv, Owned, EntryIsMine, Entry, Active, MineAt
<1> QED BY <1>1, DispatcherInvariant, PTL

\* A call that returns an answer returns the one to its own request, unless a caller
\* has written to the descriptor of a closed connection that a newer one has got.
THEOREM DispatcherOwnUnlessStale == Spec => []OwnUnlessStale
<1>1. IInv => OwnUnlessStale
  BY Zenon DEF IInv, Answers, OwnUnlessStale, AnswerIsOwn
<1> QED BY <1>1, DispatcherInvariant, PTL

-----------------------------------------------------------------------------
\* The facts about finite sets, for the count of condition variables.
INSTANCE FiniteSetTheorems

\* No condition variable of the pool is lost or shared on any path of
\* mdv_dispatcher_send.
THEOREM DispatcherSlotsKept == Spec => []SlotsKept
<1>1. IInv => SlotsKept
  <2> SUFFICES ASSUME IInv, NEW s \in Sessions
               PROVE  /\ cvs[s] = Slots \ {requests[s][n].cv : n \in DOMAIN requests[s]}
                      /\ Cardinality(Slots) = Cardinality(cvs[s]) + Cardinality(DOMAIN requests[s])
    BY Zenon DEF SlotsKept
  <2> DEFINE D == DOMAIN requests[s]
             T == {requests[s][n].cv : n \in D}
             f == [n \in D |-> requests[s][n].cv]
  <2>1. /\ \A n \in D : requests[s][n].cv \in Slots /\ requests[s][n].cv \notin cvs[s]
        /\ \A v \in Slots : v \in cvs[s] \/ \E n \in D : requests[s][n].cv = v
        /\ cvs[s] \subseteq Slots
    BY DEF IInv, Pool, PoolAt, TypeMaps, Requests
  <2>2. cvs[s] = Slots \ T /\ T \in SUBSET Slots
    BY <2>1
  <2>3. f \in Injection(D, T) /\ f \in Surjection(D, T)
    <3>1. f \in [D -> T]
      BY Zenon
    <3>2. \A m, n \in D : f[m] = f[n] => m = n
      BY Zenon DEF IInv, Pool, PoolAt
    <3>3. \A t \in T : \E n \in D : f[n] = t
      BY Zenon
    <3> HIDE DEF f, T, D
    <3>4. f \in Injection(D, T)
      BY <3>1, <3>2, Zenon DEF Injection, IsInjective
    <3>5. f \in Surjection(D, T)
      BY <3>1, <3>3, Zenon DEF Surjection
    <3> QED BY <3>4, <3>5, Zenon
  <2> HIDE DEF f, T, D
  <2>4. IsFiniteSet(T)
    BY <2>2, DispatcherAssumption, FS_Subset, Zenon
  <2>5. Cardinality(D) = Cardinality(T)
    BY <2>3, <2>4, FS_Injection, Zenon
  <2>6. Cardinality(Slots \ T) = Cardinality(Slots) - Cardinality(Slots \cap T)
    BY DispatcherAssumption, FS_Difference, Zenon
  <2>7. Slots \cap T = T
    BY <2>2, Zenon
  <2>8. Cardinality(Slots) \in Nat /\ Cardinality(T) \in Nat
    BY <2>4, DispatcherAssumption, FS_CardinalityType, Zenon
  <2>9. Cardinality(Slots) = Cardinality(cvs[s]) + Cardinality(D)
    <3>1. Cardinality(cvs[s]) = Cardinality(Slots) - Cardinality(D)
      BY <2>2, <2>5, <2>6, <2>7, Zenon
    <3> QED BY <2>5, <2>8, <3>1
  <2> QED BY <2>2, <2>9, Zenon DEF T, D
<1> QED BY <1>1, DispatcherInvariant, PTL
=============================================================================
