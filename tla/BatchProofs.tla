---------------------------- MODULE BatchProofs -----------------------------
(***************************************************************************)
(* Proofs about what is read in batches: the entries of one log by its     *)
(* replication, for every number of workers that handle STATE messages,    *)
(* batch size, log length and number of failures and reconnections; and the *)
(* rows of one view by its fetches, for every table, batch size, number of *)
(* workers, of fetches and of failures.                                    *)
(***************************************************************************)
EXTENDS Replication, Fetcher, MaxProofs, TLAPS

-----------------------------------------------------------------------------
(* The replication of one log. *)

USE ReplicationAssumption

\* TypeOK in five parts.
TypeChanged == changed \in BOOLEAN
TypeSender ==
  /\ top \in 0 .. MaxTop
  /\ requests \in Nat /\ synced \in 0 .. MaxTop
  /\ fails \in Nat /\ reconnects \in Nat
TypeWorkers ==
  /\ pc \in [Workers -> {"idle", "top", "claim", "reset"}]
  /\ wreq \in [Workers -> Nat]
  /\ wsynced \in [Workers -> 0 .. MaxTop] /\ wtop \in [Workers -> 0 .. MaxTop]
TypeTravel ==
  /\ sends \subseteq Ranges /\ datas \subseteq Ranges /\ saves \subseteq Ranges
  /\ syncs \in Nat /\ states \in [0 .. MaxTop -> Nat]
TypeCopy ==
  /\ entries \subseteq 0 .. MaxTop - 1 /\ done \subseteq 0 .. MaxTop - 1
  /\ rtop \in 0 .. MaxTop /\ applied \in 0 .. MaxTop

\* The parts make up TypeOK.
LEMMA TypeParts == TypeOK <=> TypeChanged /\ TypeSender /\ TypeWorkers /\ TypeTravel /\ TypeCopy
BY Zenon DEF TypeOK, TypeChanged, TypeSender, TypeWorkers, TypeTravel, TypeCopy

Travelling == sends \cup datas \cup saves

\* A worker that is about to claim has something to claim, and no worker has read
\* a top above the log's.
WorkersInv ==
  \A w \in Workers :
    /\ wtop[w] <= top
    /\ pc[w] = "claim" => wsynced[w] < wtop[w]

\* ClaimsDisjoint, by the ends of the ranges.
Disjoint ==
  \A r, s \in sends \cup datas :
    /\ r[2] <= synced
    /\ r # s => r[2] <= s[1] \/ s[2] <= r[1]

\* CopyOfLog, by the ends of the ranges.
Copies ==
  /\ synced <= top
  /\ \A r \in Travelling : r[2] <= top
  /\ \A p \in entries : p < rtop
  /\ rtop <= top

\* ClaimedIsCovered, one position at a time.
Covered ==
  fails = 0 => \A p \in 0 .. synced - 1 :
    p \in entries \/ \E r \in Travelling : r[1] <= p /\ p < r[2]

\* The inductive invariant.
IInv ==
  /\ TypeOK
  /\ WorkersInv
  /\ Disjoint
  /\ Copies
  /\ Covered
  /\ RequestsAreServed

-----------------------------------------------------------------------------
\* It holds initially.
LEMMA InitIInv == Init => IInv
<1> SUFFICES ASSUME Init PROVE IInv
  BY Zenon
<1> USE DEF Init
<1>0. TypeChanged
  BY Zenon DEF TypeChanged
<1>1. TypeSender /\ TypeWorkers
  BY DEF TypeSender, TypeWorkers
<1>2. TypeTravel /\ TypeCopy
  BY DEF TypeTravel, TypeCopy
<1>3. WorkersInv /\ RequestsAreServed
  BY DEF WorkersInv, RequestsAreServed
<1>4. Disjoint /\ Copies /\ Covered
  BY DEF Disjoint, Copies, Covered, Travelling
<1> QED BY <1>0, <1>1, <1>2, <1>3, <1>4, TypeParts, Zenon DEF IInv

\* The end of the range that a worker claims.
LEMMA RRangeBounds ==
  ASSUME IInv, NEW w \in Workers, pc[w] = "claim"
  PROVE  /\ RRange(w) \in 0 .. MaxTop
         /\ wsynced[w] < RRange(w) /\ RRange(w) <= wtop[w]
         /\ wsynced[w] \in 0 .. MaxTop /\ wtop[w] <= top /\ top \in 0 .. MaxTop
<1>1. /\ wtop[w] \in 0 .. MaxTop /\ wsynced[w] \in 0 .. MaxTop
      /\ wsynced[w] < wtop[w] /\ wtop[w] <= top /\ top \in 0 .. MaxTop
  BY Zenon DEF IInv, TypeOK, WorkersInv
<1>2. RRange(w) = IF wtop[w] <= wsynced[w] + BatchSize
                    THEN wtop[w] ELSE wsynced[w] + BatchSize
  BY <1>1, MinOfTwo DEF RRange
<1> QED BY <1>1, <1>2

\* Append keeps it.
LEMMA AppendIInv == IInv /\ Append => IInv'
<1> SUFFICES ASSUME IInv, Append PROVE IInv'
  BY Zenon
<1> USE DEF Append, senderVars, workerVars, messageVars, receiverVars, boundVars
<1>1. TypeOK'
  <2> TypeChanged /\ TypeSender /\ TypeWorkers /\ TypeTravel /\ TypeCopy
    BY TypeParts, Zenon DEF IInv
  <2>0. TypeChanged'
    BY Zenon DEF TypeChanged
  <2>1. TypeSender'
    BY DEF TypeSender
  <2>2. TypeWorkers'
    BY Zenon DEF TypeWorkers
  <2>3. TypeTravel'
    BY Zenon DEF TypeTravel
  <2>4. TypeCopy'
    BY Zenon DEF TypeCopy
  <2>5. (TypeOK <=> TypeChanged /\ TypeSender /\ TypeWorkers /\ TypeTravel /\ TypeCopy)'
    BY TypeParts, PTL
  <2> QED BY <2>0, <2>1, <2>2, <2>3, <2>4, <2>5, Zenon
<1>2. WorkersInv' /\ Copies'
  BY DEF IInv, TypeOK, WorkersInv, Copies, Travelling, Ranges
<1>3. Disjoint' /\ Covered' /\ RequestsAreServed'
  BY Zenon DEF IInv, Disjoint, Covered, Travelling, RequestsAreServed
<1> QED BY <1>1, <1>2, <1>3, Zenon DEF IInv

\* Start keeps it.
LEMMA StartIInv == IInv /\ Start => IInv'
<1> SUFFICES ASSUME IInv, Start PROVE IInv'
  OBVIOUS
<1> USE DEF Start, Failure, workerVars, receiverVars
<1>1. TypeOK'
  <2> TypeChanged /\ TypeSender /\ TypeWorkers /\ TypeTravel /\ TypeCopy
    BY TypeParts, Zenon DEF IInv
  <2>0. TypeChanged'
    BY Zenon DEF TypeChanged
  <2>1. TypeSender'
    BY DEF TypeSender
  <2>2. TypeWorkers'
    BY Zenon DEF TypeWorkers
  <2>3. TypeTravel'
    BY DEF TypeTravel
  <2>4. TypeCopy'
    BY Zenon DEF TypeCopy
  <2>5. (TypeOK <=> TypeChanged /\ TypeSender /\ TypeWorkers /\ TypeTravel /\ TypeCopy)'
    BY TypeParts, PTL
  <2> QED BY <2>0, <2>1, <2>2, <2>3, <2>4, <2>5, Zenon
<1>2. WorkersInv' /\ Disjoint' /\ Copies'
  BY Zenon DEF IInv, WorkersInv, Disjoint, Copies, Travelling
<1>3. Covered'
  BY DEF IInv, TypeOK, Covered, Travelling
<1>4. RequestsAreServed'
  BY DEF IInv, TypeOK, RequestsAreServed
<1> QED BY <1>1, <1>2, <1>3, <1>4, Zenon DEF IInv

\* Send keeps it.
LEMMA SendIInv == IInv /\ Send => IInv'
<1> SUFFICES ASSUME IInv, Send PROVE IInv'
  OBVIOUS
<1> USE DEF Send, Failure, senderVars, workerVars, receiverVars
<1>1. TypeOK'
  <2> TypeChanged /\ TypeSender /\ TypeWorkers /\ TypeTravel /\ TypeCopy
    BY TypeParts, Zenon DEF IInv
  <2>0. TypeChanged'
    BY Zenon DEF TypeChanged
  <2>1. TypeSender'
    BY DEF TypeSender
  <2>2. TypeWorkers'
    BY Zenon DEF TypeWorkers
  <2>3. TypeTravel'
    BY Zenon DEF TypeTravel
  <2>4. TypeCopy'
    BY Zenon DEF TypeCopy
  <2>5. (TypeOK <=> TypeChanged /\ TypeSender /\ TypeWorkers /\ TypeTravel /\ TypeCopy)'
    BY TypeParts, PTL
  <2> QED BY <2>0, <2>1, <2>2, <2>3, <2>4, <2>5, Zenon
<1>2. WorkersInv' /\ RequestsAreServed'
  BY DEF IInv, TypeOK, WorkersInv, RequestsAreServed
<1>3. Disjoint' /\ Copies'
  BY Zenon DEF IInv, Disjoint, Copies, Travelling
<1>4. Covered'
  BY DEF IInv, TypeOK, Covered, Travelling
<1> QED BY <1>1, <1>2, <1>3, <1>4, Zenon DEF IInv

-----------------------------------------------------------------------------
\* Schedule keeps it.
LEMMA ScheduleIInv ==
  ASSUME IInv, NEW w \in Workers, NEW pos \in 0 .. MaxTop, Schedule(w, pos)
  PROVE  IInv'
<1> USE DEF Schedule, receiverVars, boundVars
<1>0. synced \in 0 .. MaxTop
  BY Zenon DEF IInv, TypeOK
<1>1. Max({synced, pos}) \in 0 .. MaxTop
  BY <1>0, MaxOfTwo
<1>2. TypeOK'
  <2> TypeChanged /\ TypeSender /\ TypeWorkers /\ TypeTravel /\ TypeCopy
    BY TypeParts, Zenon DEF IInv
  <2>0. TypeChanged'
    BY <1>1, Zenon DEF TypeChanged
  <2>1. TypeSender'
    BY <1>1, Zenon DEF TypeSender
  <2>2. TypeWorkers'
    BY <1>1, Zenon DEF TypeWorkers, TypeSender
  <2>3. TypeTravel'
    <3>1. states[pos] - 1 \in Nat
      BY DEF TypeTravel
    <3> QED BY <3>1, Zenon DEF TypeTravel
  <2>4. TypeCopy'
    BY <1>1, Zenon DEF TypeCopy
  <2>5. (TypeOK <=> TypeChanged /\ TypeSender /\ TypeWorkers /\ TypeTravel /\ TypeCopy)'
    BY TypeParts, PTL
  <2> QED BY <2>0, <2>1, <2>2, <2>3, <2>4, <2>5, Zenon
<1>3. WorkersInv'
  BY Zenon DEF IInv, TypeOK, WorkersInv
<1>4. Disjoint' /\ Copies' /\ Covered'
  BY Zenon DEF IInv, Disjoint, Copies, Covered, Travelling
<1>5. RequestsAreServed'
  BY Zenon DEF IInv, TypeOK, RequestsAreServed
<1> QED BY <1>2, <1>3, <1>4, <1>5, Zenon DEF IInv

\* ReadTop keeps it.
LEMMA ReadTopIInv ==
  ASSUME IInv, NEW w \in Workers, ReadTop(w)
  PROVE  IInv'
<1> USE DEF ReadTop, messageVars, receiverVars, boundVars
<1>1. TypeOK'
  <2> TypeChanged /\ TypeSender /\ TypeWorkers /\ TypeTravel /\ TypeCopy
    BY TypeParts, Zenon DEF IInv
  <2>0. TypeChanged'
    BY Zenon DEF TypeChanged
  <2>1. TypeSender'
    BY Zenon DEF TypeSender
  <2>2. TypeWorkers'
    BY Zenon DEF TypeWorkers, TypeSender
  <2>3. TypeTravel'
    BY Zenon DEF TypeTravel
  <2>4. TypeCopy'
    BY Zenon DEF TypeCopy
  <2>5. (TypeOK <=> TypeChanged /\ TypeSender /\ TypeWorkers /\ TypeTravel /\ TypeCopy)'
    BY TypeParts, PTL
  <2> QED BY <2>0, <2>1, <2>2, <2>3, <2>4, <2>5, Zenon
<1>2. WorkersInv'
  BY DEF IInv, TypeOK, WorkersInv
<1>3. Disjoint' /\ Copies' /\ Covered'
  BY Zenon DEF IInv, Disjoint, Copies, Covered, Travelling
<1>4. RequestsAreServed'
  BY Zenon DEF IInv, TypeOK, RequestsAreServed
<1> QED BY <1>1, <1>2, <1>3, <1>4, Zenon DEF IInv

\* Claim keeps it.
LEMMA ClaimIInv ==
  ASSUME IInv, NEW w \in Workers, Claim(w)
  PROVE  IInv'
<1> DEFINE R == RRange(w)
           r0 == <<wsynced[w], R>>
<1>0. pc[w] = "claim"
  BY Zenon DEF Claim
<1>1. /\ R \in 0 .. MaxTop /\ wsynced[w] < R /\ R <= wtop[w]
      /\ wsynced[w] \in 0 .. MaxTop /\ wtop[w] <= top /\ top \in 0 .. MaxTop
  BY <1>0, RRangeBounds, Zenon
<1>2. r0 \in Ranges /\ r0[1] = wsynced[w] /\ r0[2] = R
  BY <1>1, Zenon DEF Ranges
<1>3. /\ synced' = IF synced = wsynced[w] THEN R ELSE synced
      /\ sends' = sends \/ (sends' = sends \cup {r0} /\ fails' = fails /\ synced = wsynced[w])
      /\ sends' = sends => synced' = synced \/ fails' = fails + 1 \/ r0 \in sends
      /\ fails' \in {fails, fails + 1}
      /\ wsynced' = [wsynced EXCEPT ![w] = IF synced = wsynced[w] THEN R ELSE synced]
      /\ pc' \in {[pc EXCEPT ![w] = "top"], [pc EXCEPT ![w] = "reset"]}
      /\ UNCHANGED <<top, changed, requests, wreq, wtop, syncs, states, datas, saves,
                     entries, rtop, applied, done, reconnects>>
  BY Zenon DEF Claim, Failure, messageVars, receiverVars
<1> HIDE DEF R, r0
<1>4. TypeOK'
  <2> TypeChanged /\ TypeSender /\ TypeWorkers /\ TypeTravel /\ TypeCopy
    BY TypeParts, Zenon DEF IInv
  <2>0. TypeChanged'
    BY <1>1, <1>2, <1>3, Zenon DEF TypeChanged
  <2>1. TypeSender'
    BY <1>1, <1>2, <1>3 DEF TypeSender
  <2>2. TypeWorkers'
    BY <1>1, <1>2, <1>3, Zenon DEF TypeWorkers, TypeSender
  <2>3. TypeTravel'
    BY <1>1, <1>2, <1>3, Zenon DEF TypeTravel
  <2>4. TypeCopy'
    BY <1>1, <1>2, <1>3, Zenon DEF TypeCopy
  <2>5. (TypeOK <=> TypeChanged /\ TypeSender /\ TypeWorkers /\ TypeTravel /\ TypeCopy)'
    BY TypeParts, PTL
  <2> QED BY <2>0, <2>1, <2>2, <2>3, <2>4, <2>5, Zenon
<1>5. WorkersInv'
  BY <1>1, <1>3, Zenon DEF IInv, TypeOK, WorkersInv
<1>6. Disjoint'
  <2> SUFFICES ASSUME NEW r \in (sends \cup datas)', NEW s \in (sends \cup datas)'
               PROVE  r[2] <= synced' /\ (r # s => r[2] <= s[1] \/ s[2] <= r[1])
    BY Zenon DEF Disjoint
  <2>1. synced \in Int /\ synced' \in Int /\ synced <= synced'
    BY <1>1, <1>3 DEF IInv, TypeOK
  <2>2. \A t \in sends \cup datas : t[1] \in Int /\ t[2] \in Int /\ t[2] <= synced
    BY DEF IInv, TypeOK, Disjoint, Ranges
  <2>3. CASE r \in sends \cup datas /\ s \in sends \cup datas
    BY <2>1, <2>2, <2>3 DEF IInv, Disjoint
  <2>4. CASE ~(r \in sends \cup datas /\ s \in sends \cup datas)
    <3>1. synced = wsynced[w] /\ synced' = R /\ sends' = sends \cup {r0} /\ datas' = datas
      BY <1>3, <2>4, Zenon
    <3>2. r \in sends \cup datas \cup {r0} /\ s \in sends \cup datas \cup {r0}
      BY <3>1, Zenon
    <3> QED BY <1>1, <1>2, <2>1, <2>2, <2>4, <3>1, <3>2
  <2> QED BY <2>3, <2>4, Zenon
<1>7. Copies'
  <2>1. R <= top /\ synced <= top /\ \A t \in Travelling : t[2] <= top
    BY <1>1 DEF IInv, TypeOK, Copies
  <2>2. synced' <= top'
    BY <1>3, <2>1, Zenon
  <2>3. \A t \in Travelling' : t[2] <= top'
    BY <1>2, <1>3, <2>1, Zenon DEF Travelling
  <2> QED BY <1>3, <2>2, <2>3, Zenon DEF IInv, Copies
<1>8. Covered'
  <2> SUFFICES ASSUME fails' = 0, NEW p \in 0 .. synced' - 1
               PROVE  p \in entries' \/ \E r \in Travelling' : r[1] <= p /\ p < r[2]
    BY Zenon DEF Covered
  <2>1. fails = 0 /\ fails' = fails
    BY <1>3 DEF IInv, TypeOK
  <2>2. CASE p < synced
    BY <1>3, <2>1, <2>2 DEF IInv, TypeOK, Covered, Travelling
  <2>3. CASE p >= synced
    <3>1. synced = wsynced[w] /\ synced' = R /\ r0 \in sends'
      BY <1>1, <1>3, <2>1, <2>3 DEF IInv, TypeOK
    <3> QED BY <1>1, <1>2, <2>3, <3>1 DEF Travelling
  <2> QED BY <2>2, <2>3 DEF IInv, TypeOK
<1>9. RequestsAreServed'
  BY <1>0, <1>3, Zenon DEF IInv, TypeOK, RequestsAreServed
<1> QED BY <1>4, <1>5, <1>6, <1>7, <1>8, <1>9, Zenon DEF IInv

\* Reset keeps it.
LEMMA ResetIInv ==
  ASSUME IInv, NEW w \in Workers, Reset(w)
  PROVE  IInv'
<1> USE DEF Reset, messageVars, receiverVars, boundVars
<1>1. TypeOK'
  <2> TypeChanged /\ TypeSender /\ TypeWorkers /\ TypeTravel /\ TypeCopy
    BY TypeParts, Zenon DEF IInv
  <2>0. TypeChanged'
    BY Zenon DEF TypeChanged
  <2>1. TypeSender'
    BY DEF TypeSender
  <2>2. TypeWorkers'
    BY DEF TypeWorkers, TypeSender
  <2>3. TypeTravel'
    BY Zenon DEF TypeTravel
  <2>4. TypeCopy'
    BY Zenon DEF TypeCopy
  <2>5. (TypeOK <=> TypeChanged /\ TypeSender /\ TypeWorkers /\ TypeTravel /\ TypeCopy)'
    BY TypeParts, PTL
  <2> QED BY <2>0, <2>1, <2>2, <2>3, <2>4, <2>5, Zenon
<1>2. WorkersInv'
  <2> SUFFICES ASSUME NEW v \in Workers
               PROVE  wtop'[v] <= top' /\ (pc'[v] = "claim" => wsynced'[v] < wtop'[v])
    BY Zenon DEF WorkersInv
  <2>1. wtop[v] <= top /\ (pc[v] = "claim" => wsynced[v] < wtop[v])
    BY Zenon DEF IInv, WorkersInv
  <2>2. CASE v = w
    BY <2>1, <2>2 DEF IInv, TypeOK
  <2>3. CASE v # w
    BY <2>1, <2>3, Zenon DEF IInv, TypeOK
  <2> QED BY <2>2, <2>3, Zenon
<1>3. Disjoint' /\ Copies' /\ Covered'
  BY Zenon DEF IInv, Disjoint, Copies, Covered, Travelling
<1>4. RequestsAreServed'
  BY DEF IInv, TypeOK, RequestsAreServed
<1> QED BY <1>1, <1>2, <1>3, <1>4, Zenon DEF IInv

-----------------------------------------------------------------------------
\* AnswerSync keeps it.
LEMMA AnswerSyncIInv == IInv /\ AnswerSync => IInv'
<1> SUFFICES ASSUME IInv, AnswerSync PROVE IInv'
  OBVIOUS
<1> USE DEF AnswerSync, Failure, senderVars, workerVars, receiverVars
<1>1. TypeOK'
  <2> TypeChanged /\ TypeSender /\ TypeWorkers /\ TypeTravel /\ TypeCopy
    BY TypeParts, Zenon DEF IInv
  <2>0. TypeChanged'
    BY Zenon DEF TypeChanged
  <2>1. TypeSender'
    BY DEF TypeSender
  <2>2. TypeWorkers'
    BY Zenon DEF TypeWorkers
  <2>3. TypeTravel'
    BY DEF TypeTravel, TypeCopy
  <2>4. TypeCopy'
    BY Zenon DEF TypeCopy
  <2>5. (TypeOK <=> TypeChanged /\ TypeSender /\ TypeWorkers /\ TypeTravel /\ TypeCopy)'
    BY TypeParts, PTL
  <2> QED BY <2>0, <2>1, <2>2, <2>3, <2>4, <2>5, Zenon
<1>2. WorkersInv' /\ Disjoint' /\ Copies'
  BY Zenon DEF IInv, WorkersInv, Disjoint, Copies, Travelling
<1>3. Covered'
  BY DEF IInv, TypeOK, Covered, Travelling
<1>4. RequestsAreServed'
  BY DEF IInv, TypeOK, RequestsAreServed
<1> QED BY <1>1, <1>2, <1>3, <1>4, Zenon DEF IInv

\* Receive keeps it.
LEMMA ReceiveIInv == IInv /\ Receive => IInv'
<1> SUFFICES ASSUME IInv, Receive PROVE IInv'
  OBVIOUS
<1> USE DEF Receive, Failure, senderVars, workerVars
<1>1. TypeOK'
  <2> TypeChanged /\ TypeSender /\ TypeWorkers /\ TypeTravel /\ TypeCopy
    BY TypeParts, Zenon DEF IInv
  <2>0. TypeChanged'
    BY Zenon DEF TypeChanged
  <2>1. TypeSender'
    BY DEF TypeSender
  <2>2. TypeWorkers'
    BY Zenon DEF TypeWorkers
  <2>3. TypeTravel'
    BY Zenon DEF TypeTravel
  <2>4. TypeCopy'
    BY Zenon DEF TypeCopy
  <2>5. (TypeOK <=> TypeChanged /\ TypeSender /\ TypeWorkers /\ TypeTravel /\ TypeCopy)'
    BY TypeParts, PTL
  <2> QED BY <2>0, <2>1, <2>2, <2>3, <2>4, <2>5, Zenon
<1>2. WorkersInv' /\ RequestsAreServed'
  BY DEF IInv, TypeOK, WorkersInv, RequestsAreServed
<1>3. Disjoint' /\ Copies'
  BY Zenon DEF IInv, Disjoint, Copies, Travelling
<1>4. Covered'
  BY DEF IInv, TypeOK, Covered, Travelling
<1> QED BY <1>1, <1>2, <1>3, <1>4, Zenon DEF IInv

\* Save keeps it.
LEMMA SaveIInv == IInv /\ Save => IInv'
<1> SUFFICES ASSUME IInv, Save PROVE IInv'
  OBVIOUS
<1>1. PICK r \in saves :
        /\ saves' = saves \ {r}
        /\ \/ /\ entries' = entries \cup Positions(r)
              /\ rtop' = Max({rtop, r[2]})
              /\ UNCHANGED fails
           \/ /\ fails' = fails + 1
              /\ rtop' \in {rtop, Max({rtop, r[2]})}
              /\ UNCHANGED entries
        /\ states' = [states EXCEPT ![rtop'] = @ + 1]
        /\ UNCHANGED <<top, changed, requests, synced, pc, wreq, wsynced, wtop, sends,
                       syncs, datas, applied, done, reconnects>>
  BY Zenon DEF Save, Failure, senderVars, workerVars
<1>2. r \in Ranges /\ r[1] \in 0 .. MaxTop /\ r[2] \in 0 .. MaxTop /\ r[1] < r[2]
  BY Zenon DEF IInv, TypeOK, Ranges
<1>3. /\ Max({rtop, r[2]}) \in 0 .. MaxTop
      /\ rtop <= Max({rtop, r[2]}) /\ r[2] <= Max({rtop, r[2]})
      /\ Max({rtop, r[2]}) \in {rtop, r[2]}
  <2>1. rtop \in 0 .. MaxTop
    BY Zenon DEF IInv, TypeOK
  <2>2. Max({rtop, r[2]}) = IF rtop >= r[2] THEN rtop ELSE r[2]
    BY <1>2, <2>1, MaxOfTwo
  <2> QED BY <1>2, <2>1, <2>2
<1>4. \A p : p \in Positions(r) <=> p \in Int /\ r[1] <= p /\ p < r[2]
  BY <1>2 DEF Positions
<1>5. TypeOK'
  <2> TypeChanged /\ TypeSender /\ TypeWorkers /\ TypeTravel /\ TypeCopy
    BY TypeParts, Zenon DEF IInv
  <2>0. TypeChanged'
    BY <1>1, <1>2, <1>3, <1>4, Zenon DEF TypeChanged
  <2>1. TypeSender'
    BY <1>1, <1>2, <1>3, <1>4 DEF TypeSender
  <2>2. TypeWorkers'
    BY <1>1, <1>2, <1>3, <1>4, Zenon DEF TypeWorkers
  <2>3. TypeTravel'
    <3>1. rtop' \in 0 .. MaxTop
      BY <1>1, <1>3, Zenon DEF TypeCopy
    <3>2. states' \in [0 .. MaxTop -> Nat]
      BY <1>1, <3>1 DEF TypeTravel
    <3> QED BY <1>1, <3>2, Zenon DEF TypeTravel
  <2>4. TypeCopy'
    <3>1. Positions(r) \subseteq 0 .. MaxTop - 1
      BY <1>2, <1>4
    <3>2. entries' \subseteq 0 .. MaxTop - 1
      BY <1>1, <3>1, Zenon DEF TypeCopy
    <3>3. rtop' \in 0 .. MaxTop
      BY <1>1, <1>3 DEF TypeCopy
    <3> QED BY <1>1, <3>2, <3>3, Zenon DEF TypeCopy
  <2>5. (TypeOK <=> TypeChanged /\ TypeSender /\ TypeWorkers /\ TypeTravel /\ TypeCopy)'
    BY TypeParts, PTL
  <2> QED BY <2>0, <2>1, <2>2, <2>3, <2>4, <2>5, Zenon
<1>6. WorkersInv' /\ Disjoint'
  BY <1>1, Zenon DEF IInv, WorkersInv, Disjoint
<1>7. Copies'
  <2> DEFINE m == Max({rtop, r[2]})
  <2>1. r[2] <= top /\ rtop <= top /\ top \in Nat /\ rtop \in Nat
    BY DEF IInv, TypeOK, Copies, Travelling
  <2>2. rtop' \in {rtop, m} /\ rtop' <= top'
    BY <1>1, <1>3, <2>1, Zenon
  <2>3. \A p \in entries' : p < rtop'
    <3>1. \A p \in entries : p \in Int /\ p < rtop
      BY DEF IInv, TypeOK, Copies
    <3> QED BY <1>1, <1>2, <1>3, <1>4, <2>1, <3>1
  <2>4. synced' <= top' /\ \A t \in Travelling' : t[2] <= top'
    BY <1>1, Zenon DEF IInv, Copies, Travelling
  <2> QED BY <2>2, <2>3, <2>4, Zenon DEF Copies
<1>8. Covered'
  <2> SUFFICES ASSUME fails' = 0, NEW p \in 0 .. synced' - 1
               PROVE  p \in entries' \/ \E t \in Travelling' : t[1] <= p /\ p < t[2]
    BY Zenon DEF Covered
  <2>1. fails \in Nat
    BY Zenon DEF IInv, TypeOK
  <2>2. fails = 0 /\ entries' = entries \cup Positions(r) /\ synced' = synced
    BY <1>1, <2>1
  <2>3. p \in entries \/ \E t \in Travelling : t[1] <= p /\ p < t[2]
    BY <2>2, Zenon DEF IInv, Covered
  <2>4. \A t \in Travelling : t = r \/ t \in Travelling'
    BY <1>1, Zenon DEF Travelling
  <2> QED BY <1>4, <2>2, <2>3, <2>4
<1>9. RequestsAreServed'
  <2>1. rtop' \in 0 .. MaxTop
    BY <1>5, Zenon DEF TypeOK
  <2>2. states \in [0 .. MaxTop -> Nat]
    BY Zenon DEF IInv, TypeOK
  <2>3. states'[rtop'] > 0
    BY <1>1, <2>1, <2>2
  <2> QED BY <2>1, <2>3, Zenon DEF RequestsAreServed
<1> QED BY <1>5, <1>6, <1>7, <1>8, <1>9, Zenon DEF IInv

\* Apply keeps it.
LEMMA ApplyIInv == IInv /\ Apply => IInv'
<1> SUFFICES ASSUME IInv, Apply PROVE IInv'
  OBVIOUS
<1> DEFINE batch == {p \in entries : p >= applied}
<1>1. /\ batch # {}
      /\ done' = done \cup batch
      /\ applied' = Max(batch) + 1
      /\ UNCHANGED <<top, changed, senderVars, sends, messageVars, saves, entries, rtop, boundVars>>
  BY Zenon DEF Apply
<1>2. batch \in SUBSET (0 .. MaxTop - 1)
  BY Zenon DEF IInv, TypeOK
<1> HIDE DEF batch
<1>3. Max(batch) \in batch
  BY <1>1, <1>2, MaxExists
<1> USE DEF senderVars, workerVars, messageVars, boundVars
<1>4. TypeOK'
  <2> TypeChanged /\ TypeSender /\ TypeWorkers /\ TypeTravel /\ TypeCopy
    BY TypeParts, Zenon DEF IInv
  <2>0. TypeChanged'
    BY <1>1, <1>2, <1>3, Zenon DEF TypeChanged
  <2>1. TypeSender'
    BY <1>1, <1>2, <1>3, Zenon DEF TypeSender
  <2>2. TypeWorkers'
    BY <1>1, <1>2, <1>3, Zenon DEF TypeWorkers
  <2>3. TypeTravel'
    BY <1>1, <1>2, <1>3, Zenon DEF TypeTravel
  <2>4. TypeCopy'
    <3>0. Max(batch) \in 0 .. MaxTop - 1
      BY <1>2, <1>3, Zenon
    <3>1. Max(batch) + 1 \in 0 .. MaxTop
      BY <3>0
    <3> QED BY <1>1, <1>2, <3>1, Zenon DEF TypeCopy
  <2>5. (TypeOK <=> TypeChanged /\ TypeSender /\ TypeWorkers /\ TypeTravel /\ TypeCopy)'
    BY TypeParts, PTL
  <2> QED BY <2>0, <2>1, <2>2, <2>3, <2>4, <2>5, Zenon
<1>5. WorkersInv' /\ RequestsAreServed'
  BY <1>1, Zenon DEF IInv, WorkersInv, RequestsAreServed
<1>6. Disjoint' /\ Copies' /\ Covered'
  BY <1>1, Zenon DEF IInv, Disjoint, Copies, Covered, Travelling
<1> QED BY <1>4, <1>5, <1>6, Zenon DEF IInv

\* Reconnect keeps it.
LEMMA ReconnectIInv == IInv /\ Reconnect => IInv'
<1> SUFFICES ASSUME IInv, Reconnect PROVE IInv'
  OBVIOUS
<1> USE DEF Reconnect, workerVars
<1>1. TypeOK'
  <2> TypeChanged /\ TypeSender /\ TypeWorkers /\ TypeTravel /\ TypeCopy
    BY TypeParts, Zenon DEF IInv
  <2>0. TypeChanged'
    BY Zenon DEF TypeChanged
  <2>1. TypeSender'
    BY DEF TypeSender
  <2>2. TypeWorkers'
    BY Zenon DEF TypeWorkers
  <2>3. TypeTravel'
    BY Zenon DEF TypeTravel
  <2>4. TypeCopy'
    BY Zenon DEF TypeCopy
  <2>5. (TypeOK <=> TypeChanged /\ TypeSender /\ TypeWorkers /\ TypeTravel /\ TypeCopy)'
    BY TypeParts, PTL
  <2> QED BY <2>0, <2>1, <2>2, <2>3, <2>4, <2>5, Zenon
<1>2. WorkersInv'
  BY Zenon DEF IInv, WorkersInv
<1>3. Disjoint' /\ Covered'
  BY DEF Disjoint, Covered
<1>4. Copies'
  BY DEF IInv, TypeOK, Copies, Travelling
<1>5. RequestsAreServed'
  BY Zenon DEF RequestsAreServed
<1> QED BY <1>1, <1>2, <1>3, <1>4, <1>5, Zenon DEF IInv

-----------------------------------------------------------------------------
\* Every step keeps it.
LEMMA NextIInv == IInv /\ [Next]_vars => IInv'
<1> SUFFICES ASSUME IInv, [Next]_vars PROVE IInv'
  BY Zenon
<1>1. CASE UNCHANGED vars
  <2> USE <1>1 DEF vars, senderVars, workerVars, messageVars, receiverVars, boundVars
  <2>1. TypeOK'
    BY Zenon DEF IInv, TypeOK
  <2>2. WorkersInv' /\ RequestsAreServed'
    BY Zenon DEF IInv, WorkersInv, RequestsAreServed
  <2>3. Disjoint' /\ Copies' /\ Covered'
    BY Zenon DEF IInv, Disjoint, Copies, Covered, Travelling
  <2> QED BY <2>1, <2>2, <2>3, Zenon DEF IInv
<1>2. CASE \E w \in Workers : WorkerStep(w)
  BY <1>2, ScheduleIInv, ReadTopIInv, ClaimIInv, ResetIInv, Zenon DEF WorkerStep
<1>3. CASE Append \/ Start \/ Send \/ AnswerSync \/ Receive \/ Save \/ Apply \/ Reconnect
  BY <1>3, AppendIInv, StartIInv, SendIInv, AnswerSyncIInv, ReceiveIInv, SaveIInv,
     ApplyIInv, ReconnectIInv, Zenon
<1> QED BY <1>1, <1>2, <1>3, Zenon DEF Next

\* The inductive invariant holds in every reachable state.
THEOREM ReplicationInvariant == Spec => []IInv
<1> QED BY InitIInv, NextIInv, PTL DEF Spec

\* Type correctness of the two synchronizers and of the messages between them.
THEOREM ReplicationTypeOK == Spec => []TypeOK
<1>1. IInv => TypeOK
  BY Zenon DEF IInv
<1> QED BY <1>1, ReplicationInvariant, PTL

\* Two workers in mdv_syncerlog_schedule never send an operation twice over one
\* connection: the compare-and-exchange of synced keeps their ranges apart.
THEOREM ReplicationClaimsDisjoint == Spec => []ClaimsDisjoint
<1>1. IInv => ClaimsDisjoint
  <2> SUFFICES ASSUME IInv, NEW r \in sends \cup datas, NEW s \in sends \cup datas
               PROVE  r[2] <= synced /\ (r # s => Positions(r) \cap Positions(s) = {})
    BY Zenon DEF ClaimsDisjoint
  <2>1. /\ r[1] \in Int /\ r[2] \in Int /\ s[1] \in Int /\ s[2] \in Int
    BY DEF IInv, TypeOK, Ranges
  <2>2. r[2] <= synced /\ (r # s => r[2] <= s[1] \/ s[2] <= r[1])
    BY Zenon DEF IInv, Disjoint
  <2> QED BY <2>1, <2>2 DEF Positions
<1> QED BY <1>1, ReplicationInvariant, PTL

\* A position is on its way when a range that holds it is.
LEMMA InFlightMembers ==
  ASSUME IInv
  PROVE  \A p : p \in InFlight <=>
           p \in Int /\ \E r \in Travelling : r[1] <= p /\ p < r[2]
<1>1. \A r \in Travelling : r[1] \in Int /\ r[2] \in Int
  BY DEF IInv, TypeOK, Ranges, Travelling
<1>2. \A r \in Travelling : \A p : p \in Positions(r) <=> p \in Int /\ r[1] <= p /\ p < r[2]
  BY <1>1 DEF Positions
<1>3. \A p : p \in InFlight <=> \E r \in Travelling : p \in Positions(r)
  BY Zenon DEF InFlight, Travelling
<1> QED BY <1>2, <1>3, Zenon

\* What mdv_syncerlog claims to have synchronized has reached the peer or is on
\* its way, unless a call failed.
THEOREM ReplicationClaimedIsCovered == Spec => []ClaimedIsCovered
<1>1. IInv => ClaimedIsCovered
  <2> SUFFICES ASSUME IInv, fails = 0, NEW p \in 0 .. synced - 1
               PROVE  p \in entries \cup InFlight
    BY Zenon DEF ClaimedIsCovered
  <2>1. p \in entries \/ \E r \in Travelling : r[1] <= p /\ p < r[2]
    BY Zenon DEF IInv, Covered
  <2> QED BY <2>1, InFlightMembers
<1> QED BY <1>1, ReplicationInvariant, PTL

\* The peer's copy holds operations of the log only.
THEOREM ReplicationCopyOfLog == Spec => []CopyOfLog
<1>1. IInv => CopyOfLog
  <2> SUFFICES ASSUME IInv PROVE CopyOfLog
    BY Zenon
  <2>1. entries \subseteq 0 .. top - 1
    BY DEF IInv, TypeOK, Copies
  <2>2. InFlight \subseteq 0 .. top - 1
    <3> SUFFICES ASSUME NEW p \in InFlight PROVE p \in 0 .. top - 1
      BY Zenon
    <3>1. PICK r \in Travelling : p \in Int /\ r[1] <= p /\ p < r[2]
      BY InFlightMembers, Zenon
    <3>2. r[1] \in 0 .. MaxTop /\ r[2] \in 0 .. MaxTop /\ r[2] <= top /\ top \in Nat
      BY DEF IInv, TypeOK, Ranges, Travelling, Copies
    <3> QED BY <3>1, <3>2
  <2> QED BY <2>1, <2>2, Zenon DEF IInv, Copies, CopyOfLog
<1> QED BY <1>1, ReplicationInvariant, PTL

\* A counted request of mdv_syncerlog_start always has a message or a worker that
\* will reset it, unless a call failed.
THEOREM ReplicationRequestsAreServed == Spec => []RequestsAreServed
<1>1. IInv => RequestsAreServed
  BY Zenon DEF IInv
<1> QED BY <1>1, ReplicationInvariant, PTL

-----------------------------------------------------------------------------
(* The fetches of one view, with the facts about finite sets. *)

INSTANCE FiniteSetTheorems

First(f) == fpc[f] \in {"flag", "begin"}

Types ==
  /\ table \subseteq Rows /\ fresh \subseteq Rows /\ old \subseteq table
  /\ view \in {"none", "open", "closed"}
  /\ fromBegin \in BOOLEAN
  /\ cursor \in Rows \cup {Unset}
  /\ fpc \in [Fetches -> Steps]
  /\ reads \in [Rows -> Nat]
  /\ overlap \in BOOLEAN

\* Before the select there is no fetch, and before the flag is cleared nothing has
\* been read.
Fresh ==
  /\ view = "none" => \A f \in Fetches : fpc[f] = "none"
  /\ view = "none" => fromBegin
  /\ fromBegin => /\ view # "closed"
                  /\ cursor = Unset
                  /\ \A r \in Rows : reads[r] = 0
                  /\ \A f \in Fetches : fpc[f] \notin {"begin", "next", "data", "end", "finalize"}

\* The first fetch runs alone.
Sole ==
  ~overlap => \A f \in Fetches : First(f) =>
    /\ view # "closed"
    /\ cursor = Unset
    /\ \A r \in Rows : reads[r] = 0
    /\ \A g \in Reading : g = f

\* After it, the rows that were read are behind the cursor, and the old rows behind
\* the cursor were read.
Started == ~fromBegin /\ \A f \in Fetches : ~First(f)
FetchCovered ==
  ~overlap /\ Started =>
    /\ \A r \in Rows : reads[r] <= 1
    /\ cursor = Unset => old = {} /\ \A r \in Rows : reads[r] = 0
    /\ cursor # Unset => /\ \A r \in Rows : reads[r] = 1 => r <= cursor
                         /\ \A r \in old : r <= cursor => reads[r] = 1

\* A fetch that found no row left knows that the old rows were read.
Ended ==
  ~overlap /\ (view = "closed" \/ \E f \in Fetches : fpc[f] = "end") =>
    \A r \in old : reads[r] = 1

FetchInv == Types /\ Fresh /\ Sole /\ FetchCovered /\ Ended /\ ViewUsable

-----------------------------------------------------------------------------
\* A batch is a prefix of the rows that are left, and is empty only if they are.
LEMMA BatchIsPrefix ==
  ASSUME NEW S \in SUBSET Rows
  PROVE  /\ Batch(S) \subseteq S
         /\ S # {} => Batch(S) # {}
         /\ Batch(S) # {} =>
              /\ Max(Batch(S)) \in Batch(S)
              /\ \A p \in Batch(S) : p <= Max(Batch(S))
              /\ \A p \in S : p <= Max(Batch(S)) => p \in Batch(S)
<1> DEFINE Below(r) == {q \in S : q < r}
           B == Batch(S)
<1>1. S \in SUBSET Nat /\ \A p \in S : p < LastRow + 1
  BY FetcherAssumption DEF Rows
<1>2. \A p \in S : p \in Nat
  BY <1>1, Zenon
<1>3. B = {r \in S : Cardinality(Below(r)) < FetchSize}
  BY Zenon DEF Batch
<1>4. IsFiniteSet(S)
  <2>1. IsFiniteSet(1 .. LastRow)
    BY FS_Interval, FetcherAssumption
  <2> QED BY <2>1, FS_Subset, Zenon DEF Rows
<1>5. S # {} => B # {}
  <2> SUFFICES ASSUME S # {} PROVE B # {}
    BY Zenon
  <2>1. PICK x \in S : \A y \in S : x <= y
    BY <1>1, LeastNatural, Zenon
  <2>2. Below(x) = {}
    BY <1>2, <2>1
  <2>3. Cardinality(Below(x)) = 0
    BY <2>2, FS_EmptySet, Zenon
  <2> QED BY <1>3, <2>3, FetcherAssumption
<1>6. ASSUME NEW p \in S, NEW b \in B, p <= b
      PROVE  p \in B
  <2>1. p \in Nat /\ b \in Nat /\ p <= b
    BY <1>2, <1>3, <1>6, Zenon
  <2>2. \A q \in S : q < p => q < b
    BY <1>2, <2>1
  <2>3. Below(p) \subseteq Below(b)
    BY <2>2, Zenon
  <2>4. IsFiniteSet(Below(b))
    BY <1>4, FS_Subset, Zenon
  <2> HIDE DEF Below
  <2>5. Cardinality(Below(p)) <= Cardinality(Below(b)) /\ IsFiniteSet(Below(p))
    BY <2>3, <2>4, FS_Subset, Zenon
  <2>6. Cardinality(Below(p)) \in Nat /\ Cardinality(Below(b)) \in Nat
    BY <2>4, <2>5, FS_CardinalityType, Zenon
  <2> QED BY <1>3, <2>5, <2>6, FetcherAssumption
<1>7. B # {} => Max(B) \in B /\ \A p \in B : p <= Max(B)
  <2>1. B \in SUBSET Nat /\ \A p \in B : p < LastRow + 1
    BY <1>1, <1>3, Zenon
  <2> HIDE DEF B
  <2> QED BY <2>1, MaxExists, FetcherAssumption
<1> HIDE DEF B, Below
<1>8. B \subseteq S
  BY <1>3, Zenon
<1> QED BY <1>5, <1>6, <1>7, <1>8, Zenon DEF B

-----------------------------------------------------------------------------
(* Steps of the fetches and references of the view.                        *)

Held == {"job", "flag", "begin", "next", "data", "end", "finalize"}

\* A step of a fetch changes nothing about the references of the others.
LEMMA HoldingMoves ==
  ASSUME Types, NEW f \in Fetches, NEW s \in Steps, Goto(f, s)
  PROVE  Holding' = IF s \in Held THEN Holding \cup {f} ELSE Holding \ {f}
<1>1. \A g \in Fetches : fpc'[g] = IF g = f THEN s ELSE fpc[g]
  BY Zenon DEF Types, Goto
<1>2. \A g \in Fetches : g \in Holding <=> fpc[g] \in Held
  BY Zenon DEF Holding, Reading, Held
<1>3. \A g \in Fetches : g \in Holding' <=> fpc'[g] \in Held
  BY Zenon DEF Holding, Reading, Held
<1>4. Holding \subseteq Fetches /\ Holding' \subseteq Fetches
  BY Zenon DEF Holding, Reading
<1> QED BY <1>1, <1>2, <1>3, <1>4, Zenon

\* The references are counted by a natural number.
LEMMA HoldingCounts ==
  IsFiniteSet(Holding) /\ Cardinality(Holding) \in Nat
<1>1. IsFiniteSet(1 .. MaxFetch)
  BY FS_Interval, FetcherAssumption
<1>2. Holding \subseteq 1 .. MaxFetch
  BY Zenon DEF Holding, Reading, Fetches
<1>3. IsFiniteSet(Holding)
  BY <1>1, <1>2, FS_Subset, Zenon
<1> QED BY <1>3, FS_CardinalityType, Zenon

\* A fetch that keeps what it holds leaves the references as they are.
LEMMA HoldingStays ==
  ASSUME Types, NEW f \in Fetches, NEW s \in Steps, Goto(f, s),
         fpc[f] \in Held <=> s \in Held
  PROVE  Holding' = Holding
<1>1. f \in Holding <=> fpc[f] \in Held
  BY Zenon DEF Holding, Reading, Held
<1>2. Holding' = IF s \in Held THEN Holding \cup {f} ELSE Holding \ {f}
  BY HoldingMoves, Zenon
<1>3. CASE s \in Held
  BY <1>1, <1>2, <1>3, Zenon
<1>4. CASE s \notin Held
  BY <1>1, <1>2, <1>4, Zenon
<1> QED BY <1>3, <1>4, Zenon

-----------------------------------------------------------------------------
(* What a batch does to the cursor and to the rows read.                   *)

\* A batch sets the cursor to a row and counts rows.
LEMMA ReadTypes ==
  ASSUME Types, NEW S \in SUBSET Rows, ReadRows(Batch(S))
  PROVE  /\ reads' \in [Rows -> Nat]
         /\ cursor' \in Rows \cup {Unset}
         /\ \A r \in Rows : reads'[r] = reads[r] + (IF r \in Batch(S) THEN 1 ELSE 0)
         /\ S = {} => cursor' = cursor /\ \A r \in Rows : reads'[r] = reads[r]
         /\ S # {} => /\ cursor' \in S
                      /\ \A r \in S : r \in Batch(S) <=> r <= cursor'
         /\ Batch(S) \subseteq S
<1>1. /\ Batch(S) \subseteq S
      /\ S # {} => Batch(S) # {}
      /\ Batch(S) # {} =>
           /\ Max(Batch(S)) \in Batch(S)
           /\ \A p \in Batch(S) : p <= Max(Batch(S))
           /\ \A p \in S : p <= Max(Batch(S)) => p \in Batch(S)
  BY BatchIsPrefix, Zenon
<1>2. /\ reads' = [r \in Rows |-> reads[r] + (IF r \in Batch(S) THEN 1 ELSE 0)]
      /\ cursor' = IF Batch(S) = {} THEN cursor ELSE Max(Batch(S))
  BY Zenon DEF ReadRows
<1>3. reads \in [Rows -> Nat] /\ cursor \in Rows \cup {Unset}
  BY Zenon DEF Types
<1>4. reads' \in [Rows -> Nat]
  BY <1>2, <1>3
<1>5. S # {} => /\ cursor' \in S
                /\ \A r \in S : r \in Batch(S) <=> r <= cursor'
  BY <1>1, <1>2, Zenon
<1>6. S = {} => Batch(S) = {}
  BY <1>1, Zenon
<1>7. S = {} => cursor' = cursor /\ \A r \in Rows : reads'[r] = reads[r]
  BY <1>2, <1>3, <1>6
<1>8. cursor' \in Rows \cup {Unset}
  BY <1>3, <1>5, <1>7, Zenon
<1> QED BY <1>1, <1>2, <1>4, <1>5, <1>7, <1>8, Zenon

\* A later batch reads only rows in front of the cursor, and leaves no row behind
\* the new one unread that was there all the time.
LEMMA SliceCovers ==
  ASSUME Types, FetchCovered, ~overlap, Started,
         NEW key \in IF cursor = Unset THEN Rows \cup {0} ELSE {cursor},
         ReadRows(Batch(RowsFrom(key)))
  PROVE  /\ \A r \in Rows : reads'[r] <= 1
         /\ cursor' = Unset => old = {} /\ \A r \in Rows : reads'[r] = 0
         /\ cursor' # Unset => /\ \A r \in Rows : reads'[r] = 1 => r <= cursor'
                               /\ \A r \in old : r <= cursor' => reads'[r] = 1
         /\ \A r \in old : reads[r] = 1 => reads'[r] = 1
         /\ RowsFrom(key) = {} => \A r \in old : reads'[r] = 1
<1> DEFINE S == RowsFrom(key)
<1>1. S \in SUBSET Rows /\ \A r \in S : r > key
  BY Zenon DEF Types, RowsFrom
<1>2. /\ \A r \in Rows : reads'[r] = reads[r] + (IF r \in Batch(S) THEN 1 ELSE 0)
      /\ S = {} => cursor' = cursor /\ \A r \in Rows : reads'[r] = reads[r]
      /\ S # {} => cursor' \in S /\ \A r \in S : r \in Batch(S) <=> r <= cursor'
      /\ Batch(S) \subseteq S
  <2> HIDE DEF S
  <2> QED BY <1>1, ReadTypes, Zenon DEF S
<1>3. /\ \A r \in old : r \in Rows /\ (r \in S <=> r > key)
      /\ \A r \in Rows : r \in Nat /\ r # Unset /\ reads[r] \in Nat
      /\ cursor # Unset => key = cursor /\ key \in Rows
      /\ key \in Nat
  BY FetcherAssumption DEF Types, RowsFrom, Rows, Unset
<1>4. /\ \A r \in Rows : reads[r] <= 1
      /\ cursor = Unset => old = {} /\ \A r \in Rows : reads[r] = 0
      /\ cursor # Unset => /\ \A r \in Rows : reads[r] = 1 => r <= cursor
                           /\ \A r \in old : r <= cursor => reads[r] = 1
  BY Zenon DEF FetchCovered
<1> HIDE DEF S
<1>5. \A r \in S : r \in Rows /\ reads[r] = 0
  BY <1>1, <1>3, <1>4
<1>6. \A r \in Rows : reads'[r] <= 1
  <2> SUFFICES ASSUME NEW r \in Rows PROVE reads'[r] <= 1
    OBVIOUS
  <2>1. reads[r] \in Nat /\ reads[r] <= 1
    BY <1>3, <1>4, Zenon
  <2>2. CASE r \in Batch(S)
    <3>1. reads[r] = 0 /\ reads'[r] = reads[r] + 1
      BY <1>2, <1>5, <2>2, Zenon
    <3> QED BY <3>1
  <2>3. CASE r \notin Batch(S)
    <3>1. reads'[r] = reads[r] + 0
      BY <1>2, <2>3, Zenon
    <3> QED BY <2>1, <3>1
  <2> QED BY <2>2, <2>3, Zenon
<1>7. ASSUME NEW r \in old, reads[r] = 1 PROVE reads'[r] = 1
  <2>1. r \in Rows /\ r \notin Batch(S)
    BY <1>2, <1>3, <1>5, <1>7
  <2> QED BY <1>2, <1>7, <2>1
<1>8. CASE S = {}
  <2>1. \A r \in old : reads'[r] = 1
    <3> SUFFICES ASSUME NEW r \in old PROVE reads'[r] = 1
      OBVIOUS
    <3>1. r \in Rows /\ reads'[r] = reads[r] /\ ~(r > key)
      BY <1>2, <1>3, <1>8, Zenon
    <3>2. cursor # Unset /\ key = cursor /\ r \in Nat /\ key \in Nat
      BY <1>3, <1>4, Zenon
    <3>3. r <= cursor
      BY <3>1, <3>2
    <3> QED BY <1>4, <3>1, <3>2, <3>3, Zenon
  <2>2. cursor' = cursor /\ \A r \in Rows : reads'[r] = reads[r]
    BY <1>2, <1>8, Zenon
  <2>3. cursor' = Unset => old = {} /\ \A r \in Rows : reads'[r] = 0
    BY <1>4, <2>2, Zenon
  <2>4. cursor' # Unset => /\ \A r \in Rows : reads'[r] = 1 => r <= cursor'
                           /\ \A r \in old : r <= cursor' => reads'[r] = 1
    BY <1>4, <2>1, <2>2, Zenon
  <2> QED BY <1>6, <1>7, <2>1, <2>3, <2>4, Zenon DEF S
<1>9. CASE S # {}
  <2>1. cursor' \in Rows /\ cursor' # Unset /\ cursor' > key
    BY <1>1, <1>2, <1>3, <1>9, Zenon
  <2>2. \A r \in Rows : reads'[r] = 1 => r <= cursor'
    BY <1>2, <1>3, <1>4, <1>9, <2>1
  <2>3. \A r \in old : r <= cursor' => reads'[r] = 1
    <3> SUFFICES ASSUME NEW r \in old, r <= cursor' PROVE reads'[r] = 1
      BY Zenon
    <3>1. CASE r \in S
      <4>1. r \in Batch(S) /\ r \in Rows /\ reads[r] = 0
        BY <1>2, <1>5, <1>9, <3>1, Zenon
      <4> QED BY <1>2, <4>1
    <3>2. CASE r \notin S
      <4>1. r \in Nat /\ ~(r > key) /\ cursor # Unset /\ key = cursor
        BY <1>3, <1>4, <3>2, Zenon
      <4>2. r <= cursor
        BY <1>3, <4>1
      <4> QED BY <1>4, <1>7, <4>1, <4>2, Zenon
    <3> QED BY <3>1, <3>2, Zenon
  <2> QED BY <1>6, <1>7, <1>9, <2>1, <2>2, <2>3, Zenon DEF S
<1> QED BY <1>8, <1>9, Zenon

-----------------------------------------------------------------------------
(* The inductive step.                                                     *)

\* Every step of a fetch, of the committer or of the client keeps FetchInv.
LEMMA FetcherStep ==
  ASSUME FetchInv, [FetcherNext]_fetcherVars
  PROVE  FetchInv'
<1> USE DEF FetchInv
<1>1. ASSUME NEW r \in Rows, InsertRow(r) PROVE FetchInv'
  <2>1. Types'
    BY <1>1, Zenon DEF Types, InsertRow, Goto, tableVars, viewVars
  <2>2. Fresh'
    BY <1>1, Zenon DEF Types, Fresh, InsertRow, Goto, tableVars, viewVars
  <2>3. Sole'
    BY <1>1, Zenon
       DEF Types, Fresh, Sole, First, Reading, InsertRow, Goto, tableVars, viewVars
  <2>4. FetchCovered'
    BY <1>1, Zenon
       DEF Types, Fresh, Sole, First, Reading, FetchCovered, Started, InsertRow, Goto,
           tableVars, viewVars
  <2>5. Ended'
    BY <1>1, Zenon
       DEF Types, Fresh, Sole, First, Reading, FetchCovered, Started, Ended, InsertRow, Goto,
           tableVars, viewVars
  <2>6. ViewUsable'
    <3>1. Holding' = Holding
      BY <1>1, Zenon DEF Holding, Reading, InsertRow, Goto, tableVars, viewVars
    <3> QED BY <1>1, <3>1, Zenon DEF ViewUsable, InsertRow, Goto, tableVars, viewVars
  <2> QED BY <2>1, <2>2, <2>3, <2>4, <2>5, <2>6, Zenon DEF FetchInv
<1>2. ASSUME NEW r \in Rows, DeleteRow(r) PROVE FetchInv'
  <2>1. Types'
    BY <1>2, Zenon DEF Types, DeleteRow, Goto, tableVars, viewVars
  <2>2. Fresh'
    BY <1>2, Zenon DEF Types, Fresh, DeleteRow, Goto, tableVars, viewVars
  <2>3. Sole'
    BY <1>2, Zenon
       DEF Types, Fresh, Sole, First, Reading, DeleteRow, Goto, tableVars, viewVars
  <2>4. FetchCovered'
    BY <1>2, Zenon
       DEF Types, Fresh, Sole, First, Reading, FetchCovered, Started, DeleteRow, Goto,
           tableVars, viewVars
  <2>5. Ended'
    BY <1>2, Zenon
       DEF Types, Fresh, Sole, First, Reading, FetchCovered, Started, Ended, DeleteRow, Goto,
           tableVars, viewVars
  <2>6. ViewUsable'
    <3>1. Holding' = Holding
      BY <1>2, Zenon DEF Holding, Reading, DeleteRow, Goto, tableVars, viewVars
    <3> QED BY <1>2, <3>1, Zenon DEF ViewUsable, DeleteRow, Goto, tableVars, viewVars
  <2> QED BY <2>1, <2>2, <2>3, <2>4, <2>5, <2>6 DEF FetchInv
<1>3. ASSUME NEW f \in Fetches, Fetch(f) PROVE FetchInv'
  <2>1. Types'
    BY <1>3, Zenon DEF Types, Steps, Fetch, Goto, tableVars, viewVars
  <2>2. Fresh'
    BY <1>3, Zenon DEF Types, Fresh, Fetch, Goto, tableVars, viewVars
  <2>3. Sole'
    BY <1>3 DEF Types, Fresh, Sole, First, Reading, Fetch, Goto, tableVars, viewVars
  <2>4. FetchCovered'
    BY <1>3, Zenon
       DEF Types, Fresh, Sole, First, Reading, FetchCovered, Started, Fetch, Goto, tableVars,
           viewVars
  <2>5. Ended'
    BY <1>3, Zenon
       DEF Types, Fresh, Sole, First, Reading, FetchCovered, Started, Ended, Fetch, Goto,
           tableVars, viewVars
  <2>6. ViewUsable'
    <3>1. Holding' = Holding
      BY <1>3, HoldingStays, Zenon DEF Held, Steps, Fetch, Goto, tableVars, viewVars
    <3> QED BY <1>3, <3>1, Zenon DEF ViewUsable, Fresh, Fetch, Goto, tableVars, viewVars
  <2> QED BY <2>1, <2>2, <2>3, <2>4, <2>5, <2>6 DEF FetchInv
<1>4. ASSUME NEW f \in Fetches, EmitFetchFail(f) PROVE FetchInv'
  <2>1. Types'
    BY <1>4, Zenon DEF Types, Steps, EmitFetchFail, Goto, tableVars, viewVars
  <2>2. Fresh'
    BY <1>4, Zenon DEF Types, Fresh, EmitFetchFail, Goto, tableVars, viewVars
  <2>3. Sole'
    BY <1>4
       DEF Types, Fresh, Sole, First, Reading, EmitFetchFail, Goto, tableVars, viewVars
  <2>4. FetchCovered'
    BY <1>4, Zenon
       DEF Types, Fresh, Sole, First, Reading, FetchCovered, Started, EmitFetchFail, Goto,
           tableVars, viewVars
  <2>5. Ended'
    BY <1>4, Zenon
       DEF Types, Fresh, Sole, First, Reading, FetchCovered, Started, Ended, EmitFetchFail,
           Goto, tableVars, viewVars
  <2>6. ViewUsable'
    <3>1. Holding' = Holding
      BY <1>4, HoldingStays, Zenon
         DEF Held, Steps, EmitFetchFail, Goto, tableVars, viewVars
    <3> QED BY <1>4, <3>1, Zenon DEF ViewUsable, EmitFetchFail, Goto, tableVars, viewVars
  <2> QED BY <2>1, <2>2, <2>3, <2>4, <2>5, <2>6 DEF FetchInv
<1>5. ASSUME NEW f \in Fetches, StartFetch(f) PROVE FetchInv'
  <2>1. Types'
    BY <1>5, Zenon DEF Types, Steps, StartFetch, Goto, tableVars, viewVars
  <2>2. Fresh'
    BY <1>5, Zenon DEF Types, Fresh, StartFetch, Goto, tableVars, viewVars
  <2>3. Sole'
    BY <1>5 DEF Types, Fresh, Sole, First, Reading, StartFetch, Goto, tableVars, viewVars
  <2>4. FetchCovered'
    BY <1>5, Zenon
       DEF Types, Fresh, Sole, First, Reading, FetchCovered, Started, StartFetch, Goto,
           tableVars, viewVars
  <2>5. Ended'
    BY <1>5, Zenon
       DEF Types, Fresh, Sole, First, Reading, FetchCovered, Started, Ended, StartFetch, Goto,
           tableVars, viewVars
  <2>6. ViewUsable'
    <3>1. Holding' = Holding
      BY <1>5, HoldingStays, Zenon DEF Held, Steps, StartFetch, Goto, tableVars, viewVars
    <3> QED BY <1>5, <3>1, Zenon DEF ViewUsable, StartFetch, Goto, tableVars, viewVars
  <2> QED BY <2>1, <2>2, <2>3, <2>4, <2>5, <2>6 DEF FetchInv
<1>6. ASSUME NEW f \in Fetches, ClearFlag(f) PROVE FetchInv'
  <2>1. Types'
    BY <1>6, Zenon DEF Types, Steps, ClearFlag, Goto, tableVars, viewVars
  <2>2. Fresh'
    BY <1>6, Zenon DEF Types, Fresh, ClearFlag, Goto, tableVars, viewVars
  <2>3. Sole'
    BY <1>6 DEF Types, Fresh, Sole, First, Reading, ClearFlag, Goto, tableVars, viewVars
  <2>4. FetchCovered'
    BY <1>6, Zenon
       DEF Types, Fresh, Sole, First, Reading, FetchCovered, Started, ClearFlag, Goto,
           tableVars, viewVars
  <2>5. Ended'
    BY <1>6, Zenon
       DEF Types, Fresh, Sole, First, Reading, FetchCovered, Started, Ended, ClearFlag, Goto,
           tableVars, viewVars
  <2>6. ViewUsable'
    <3>1. Holding' = Holding
      BY <1>6, HoldingStays, Zenon DEF Held, Steps, ClearFlag, Goto, tableVars, viewVars
    <3> QED BY <1>6, <3>1, Zenon DEF ViewUsable, ClearFlag, Goto, tableVars, viewVars
  <2> QED BY <2>1, <2>2, <2>3, <2>4, <2>5, <2>6 DEF FetchInv
<1>7. ASSUME NEW f \in Fetches, PublishRows(f) PROVE FetchInv'
  <2>1. Types'
    BY <1>7, Zenon DEF Types, Steps, PublishRows, Goto, tableVars, viewVars
  <2>2. Fresh'
    BY <1>7, Zenon DEF Types, Fresh, PublishRows, Goto, tableVars, viewVars
  <2>3. Sole'
    BY <1>7, Zenon
       DEF Types, Fresh, Sole, First, Reading, PublishRows, Goto, tableVars, viewVars
  <2>4. FetchCovered'
    BY <1>7, Zenon
       DEF Types, Fresh, Sole, First, Reading, FetchCovered, Started, PublishRows, Goto,
           tableVars, viewVars
  <2>5. Ended'
    BY <1>7, Zenon
       DEF Types, Fresh, Sole, First, Reading, FetchCovered, Started, Ended, PublishRows,
           Goto, tableVars, viewVars
  <2>6. ViewUsable'
    <3>1. Holding' = Holding
      BY <1>7, HoldingStays, Zenon DEF Held, Steps, PublishRows, Goto, tableVars, viewVars
    <3> QED BY <1>7, <3>1, Zenon DEF ViewUsable, PublishRows, Goto, tableVars, viewVars
  <2> QED BY <2>1, <2>2, <2>3, <2>4, <2>5, <2>6 DEF FetchInv
<1>8. ASSUME NEW f \in Fetches, PublishEnd(f) PROVE FetchInv'
  <2>1. Types'
    BY <1>8, Zenon DEF Types, Steps, PublishEnd, Goto, tableVars, viewVars
  <2>2. Fresh'
    BY <1>8, Zenon DEF Types, Fresh, PublishEnd, Goto, tableVars, viewVars
  <2>3. Sole'
    BY <1>8 DEF Types, Fresh, Sole, First, Reading, PublishEnd, Goto, tableVars, viewVars
  <2>4. FetchCovered'
    BY <1>8, Zenon
       DEF Types, Fresh, Sole, First, Reading, FetchCovered, Started, PublishEnd, Goto,
           tableVars, viewVars
  <2>5. Ended'
    BY <1>8, Zenon
       DEF Types, Fresh, Sole, First, Reading, FetchCovered, Started, Ended, PublishEnd, Goto,
           tableVars, viewVars
  <2>6. ViewUsable'
    <3>1. Holding' = Holding
      BY <1>8, HoldingStays, Zenon DEF Held, Steps, PublishEnd, Goto, tableVars, viewVars
    <3>2. Cardinality(Holding) \in Nat
      BY HoldingCounts, Zenon
    <3>3. view # "none"
      BY <1>8, Zenon DEF Fresh, PublishEnd, Goto, tableVars, viewVars
    <3> QED BY <1>8, <3>1, <3>2, <3>3
               DEF ViewUsable, PublishEnd, Goto, tableVars, viewVars
  <2> QED BY <2>1, <2>2, <2>3, <2>4, <2>5, <2>6 DEF FetchInv
<1>9. CASE Select
  <2>1. Types'
    BY <1>9, Zenon DEF Types, Select, Goto, tableVars, viewVars
  <2>2. Fresh'
    BY <1>9, Zenon DEF Types, Fresh, Select, Goto, tableVars, viewVars
  <2>3. Sole'
    BY <1>9, Zenon
       DEF Types, Fresh, Sole, First, Reading, Select, Goto, tableVars, viewVars
  <2>4. FetchCovered'
    BY <1>9, Zenon
       DEF Types, Fresh, Sole, First, Reading, FetchCovered, Started, Select, Goto, tableVars,
           viewVars
  <2>5. Ended'
    BY <1>9, Zenon
       DEF Types, Fresh, Sole, First, Reading, FetchCovered, Started, Ended, Select, Goto,
           tableVars, viewVars
  <2>6. ViewUsable'
    <3>1. Holding' = {}
      BY <1>9, Zenon DEF Holding, Reading, Fresh, Select, Goto, tableVars, viewVars
    <3>2. Cardinality(Holding') = 0
      BY <3>1, FS_EmptySet, Zenon
    <3> QED BY <1>9, <3>2 DEF ViewUsable, Select, Goto, tableVars, viewVars
  <2> QED BY <2>1, <2>2, <2>3, <2>4, <2>5, <2>6, Zenon DEF FetchInv
<1>10. ASSUME NEW f \in Fetches, EmitFetch(f) PROVE FetchInv'
  <2>1. Types'
    BY <1>10, Zenon DEF Types, Steps, EmitFetch, Goto, tableVars, viewVars
  <2>2. Fresh'
    BY <1>10, Zenon DEF Types, Fresh, EmitFetch, Goto, tableVars, viewVars
  <2>3. Sole'
    BY <1>10 DEF Types, Fresh, Sole, First, Reading, EmitFetch, Goto, tableVars, viewVars
  <2>4. FetchCovered'
    BY <1>10, Zenon
       DEF Types, Fresh, Sole, First, Reading, FetchCovered, Started, EmitFetch, Goto,
           tableVars, viewVars
  <2>5. Ended'
    BY <1>10, Zenon
       DEF Types, Fresh, Sole, First, Reading, FetchCovered, Started, Ended, EmitFetch, Goto,
           tableVars, viewVars
  <2>6. ViewUsable'
    <3>1. Holding' = Holding \cup {f}
      BY <1>10, HoldingMoves, Zenon DEF Held, Steps, EmitFetch, Goto, tableVars, viewVars
    <3>2. f \notin Holding
      BY <1>10, Zenon DEF Holding, Reading, EmitFetch, Goto, tableVars, viewVars
    <3>3. Cardinality(Holding') = Cardinality(Holding) + 1 /\ Cardinality(Holding) \in Nat
      BY <3>1, <3>2, HoldingCounts, FS_AddElement, Zenon
    <3> QED BY <1>10, <3>3, Zenon DEF ViewUsable, EmitFetch, Goto, tableVars, viewVars
  <2> QED BY <2>1, <2>2, <2>3, <2>4, <2>5, <2>6 DEF FetchInv
<1>11. ASSUME NEW f \in Fetches, Finalize(f) PROVE FetchInv'
  <2>1. Types'
    BY <1>11, Zenon DEF Types, Steps, Finalize, Goto, tableVars, viewVars
  <2>2. Fresh'
    BY <1>11, Zenon DEF Types, Fresh, Finalize, Goto, tableVars, viewVars
  <2>3. Sole'
    BY <1>11, Zenon
       DEF Types, Fresh, Sole, First, Reading, Finalize, Goto, tableVars, viewVars
  <2>4. FetchCovered'
    BY <1>11, Zenon
       DEF Types, Fresh, Sole, First, Reading, FetchCovered, Started, Finalize, Goto,
           tableVars, viewVars
  <2>5. Ended'
    BY <1>11, Zenon
       DEF Types, Fresh, Sole, First, Reading, FetchCovered, Started, Ended, Finalize, Goto,
           tableVars, viewVars
  <2>6. ViewUsable'
    <3>1. Holding' = Holding \ {f}
      BY <1>11, HoldingMoves, Zenon DEF Held, Steps, Finalize, Goto, tableVars, viewVars
    <3>2. f \in Holding
      BY <1>11, Zenon DEF Holding, Reading, Finalize, Goto, tableVars, viewVars
    <3>3. Cardinality(Holding') = Cardinality(Holding) - 1 /\ Cardinality(Holding) \in Nat
      BY <3>1, <3>2, HoldingCounts, FS_RemoveElement, Zenon
    <3> QED BY <1>11, <3>3 DEF ViewUsable, Finalize, Goto, tableVars, viewVars
  <2> QED BY <2>1, <2>2, <2>3, <2>4, <2>5, <2>6 DEF FetchInv
<1>12. ASSUME NEW f \in Fetches, SliceFromBegin(f) PROVE FetchInv'
  <2>1. /\ reads' \in [Rows -> Nat]
        /\ cursor' \in Rows \cup {Unset}
        /\ \A r \in Rows : reads'[r] = reads[r] + (IF r \in Batch(table) THEN 1 ELSE 0)
        /\ table = {} => cursor' = cursor /\ \A r \in Rows : reads'[r] = reads[r]
        /\ table # {} => /\ cursor' \in table
                         /\ \A r \in table : r \in Batch(table) <=> r <= cursor'
        /\ Batch(table) \subseteq table
    BY <1>12, ReadTypes, Zenon DEF Types, SliceFromBegin
  <2>2. Types'
    BY <1>12, <2>1, Zenon DEF Types, Steps, SliceFromBegin, Goto, tableVars, viewVars
  <2>3. Fresh'
    BY <1>12, Zenon DEF Types, Fresh, SliceFromBegin, Goto, tableVars, viewVars
  <2>4. Sole'
    BY <1>12
       DEF Types, Fresh, Sole, First, Reading, SliceFromBegin, Goto, tableVars, viewVars
  <2>5. FetchCovered'
    <3> SUFFICES ASSUME ~overlap PROVE FetchCovered'
      BY <1>12, Zenon DEF FetchCovered, SliceFromBegin
    <3>1. cursor = Unset /\ \A r \in Rows : reads[r] = 0
      BY <1>12, Zenon DEF Sole, First, SliceFromBegin
    <3>2. \A r \in Rows : reads'[r] = (IF r \in Batch(table) THEN 1 ELSE 0)
      BY <2>1, <3>1
    <3>3. old' = old /\ old \subseteq table /\ table \subseteq Rows
      BY <1>12, Zenon DEF Types, SliceFromBegin, tableVars
    <3>4. \A r \in Rows : r # Unset
      BY FetcherAssumption DEF Rows, Unset
    <3> QED BY <2>1, <3>1, <3>2, <3>3, <3>4 DEF FetchCovered
  <2>6. Ended'
    BY <1>12, Zenon
       DEF Types, Fresh, Sole, First, Reading, Ended, SliceFromBegin, Goto, tableVars,
           viewVars
  <2>7. ViewUsable'
    <3>1. Holding' = Holding
      BY <1>12, HoldingStays, Zenon DEF Held, Steps, SliceFromBegin
    <3> QED BY <1>12, <3>1, Zenon DEF ViewUsable, SliceFromBegin
  <2> QED BY <2>2, <2>3, <2>4, <2>5, <2>6, <2>7 DEF FetchInv
<1>13. ASSUME NEW f \in Fetches, Slice(f) PROVE FetchInv'
  <2>1. PICK key \in IF cursor = Unset THEN Rows \cup {0} ELSE {cursor} :
          /\ ReadRows(Batch(RowsFrom(key)))
          /\ Goto(f, IF RowsFrom(key) = {} THEN "end" ELSE "data")
    BY <1>13, Zenon DEF Slice
  <2>2. fpc[f] = "next" /\ UNCHANGED <<tableVars, view, refs, fromBegin, overlap>>
    BY <1>13, Zenon DEF Slice
  <2>3. reads' \in [Rows -> Nat] /\ cursor' \in Rows \cup {Unset}
    <3>1. RowsFrom(key) \in SUBSET Rows
      BY Zenon DEF RowsFrom, Types
    <3> QED BY <2>1, <3>1, ReadTypes, Zenon
  <2>4. ~overlap => Started
    BY <2>2, Zenon DEF Fresh, Sole, First, Reading, Started
  <2>5. Types'
    BY <2>1, <2>2, <2>3, Zenon DEF Types, Steps, Goto, tableVars, viewVars
  <2>6. Fresh'
    BY <2>1, <2>2, Zenon DEF Types, Fresh, Goto, tableVars, viewVars
  <2>7. Sole'
    BY <2>1, <2>2, Zenon DEF Types, Fresh, Sole, First, Reading, Goto, tableVars, viewVars
  <2>8. FetchCovered'
    <3> SUFFICES ASSUME ~overlap PROVE FetchCovered'
      BY <2>2, Zenon DEF FetchCovered
    <3>1. old' = old
      BY <2>2, Zenon DEF tableVars
    <3> QED BY <2>1, <2>4, <3>1, SliceCovers, Zenon DEF FetchCovered
  <2>9. Ended'
    <3> SUFFICES ASSUME ~overlap PROVE Ended'
      BY <2>2, Zenon DEF Ended
    <3>1. /\ \A r \in old : reads[r] = 1 => reads'[r] = 1
          /\ RowsFrom(key) = {} => \A r \in old : reads'[r] = 1
      BY <2>1, <2>4, SliceCovers, Zenon
    <3>2. old' = old /\ view' = view
      BY <2>2, Zenon DEF tableVars
    <3>3. \A g \in Fetches : fpc'[g] = "end" => fpc[g] = "end" \/ RowsFrom(key) = {}
      BY <2>1, Zenon DEF Types, Goto
    <3> QED BY <3>1, <3>2, <3>3, Zenon DEF Ended
  <2>10. ViewUsable'
    <3>1. Holding' = Holding
      BY <2>1, <2>2, HoldingStays, Zenon DEF Held, Steps
    <3> QED BY <2>2, <3>1, Zenon DEF ViewUsable
  <2> QED BY <2>5, <2>6, <2>7, <2>8, <2>9, <2>10, Zenon DEF FetchInv
<1>14. CASE UNCHANGED fetcherVars
  <2>1. Holding' = Holding
    BY <1>14, Zenon DEF Holding, Reading, fetcherVars
  <2> QED BY <1>14, <2>1, Zenon
             DEF Types, Fresh, Sole, First, Reading, FetchCovered, Started, Ended, ViewUsable,
                 fetcherVars, tableVars, viewVars
<1> QED BY <1>1, <1>2, <1>3, <1>4, <1>5, <1>6, <1>7, <1>8, <1>9, <1>10, <1>11, <1>12,
               <1>13, <1>14, Zenon DEF FetcherNext, Serve, Run

\* FetchInv is an invariant.
LEMMA FetcherInvariant ==
  FetcherSpec => []FetchInv
<1>1. FetcherInit => FetchInv
  <2> SUFFICES ASSUME FetcherInit PROVE FetchInv
    BY Zenon
  <2>1. Types
    BY Zenon DEF FetcherInit, Types, Steps
  <2> QED BY <2>1, Zenon
             DEF FetcherInit, FetchInv, Fresh, Sole, First, FetchCovered, Started, Ended,
                 ViewUsable
<1>2. FetchInv /\ [FetcherNext]_fetcherVars => FetchInv'
  BY FetcherStep, Zenon
<1> QED BY <1>1, <1>2, PTL DEF FetcherSpec

\* The view is released by its last user and not before, however the fetches, the
\* jobs and the unregistrations of the view interleave.
THEOREM FetcherViewUsable ==
  FetcherSpec => []ViewUsable
<1>1. FetchInv => ViewUsable
  BY Zenon DEF FetchInv
<1> QED BY <1>1, FetcherInvariant, PTL

\* For every table and batch size, and while rows come and go, no row is read twice
\* and the end of the table is reported only when every row that was there from the
\* select on has been read, unless a fetch begins beside the first one.
THEOREM FetcherEveryRowOnce ==
  FetcherSpec => []EveryRowOnce
<1>1. FetchInv => EveryRowOnce
  <2> SUFFICES ASSUME FetchInv, ~overlap
               PROVE  /\ \A r \in Rows : reads[r] <= 1
                      /\ view = "closed" => \A r \in old : reads[r] = 1
    BY Zenon DEF EveryRowOnce
  <2>1. CASE fromBegin
    BY <2>1 DEF FetchInv, Fresh
  <2>2. CASE \E f \in Fetches : First(f)
    BY <2>2 DEF FetchInv, Sole
  <2>3. CASE Started
    BY <2>3, Zenon DEF FetchInv, FetchCovered, Ended
  <2> QED BY <2>1, <2>2, <2>3, Zenon DEF Started
<1> QED BY <1>1, FetcherInvariant, PTL
=============================================================================
