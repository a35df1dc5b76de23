---------------------------- MODULE StorageProofs ----------------------------
(***************************************************************************)
(* Proofs about the storage of a node: the object storage (TwoPSet), the   *)
(* transaction log (TrLog) and the tablespace that joins them.  They hold  *)
(* for every set of clients, every length of the log, of the batches and   *)
(* of the reserved ranges, and every number of failures and restarts.      *)
(***************************************************************************)
EXTENDS Tablespace, MaxProofs, TLAPS

-----------------------------------------------------------------------------
(* The object storage.                                                     *)

\* While nobody holds the generator's mutex, memory and disk agree; while a
\* thread holds it, the disk is ahead by exactly the range being reserved.
GeneratorAgrees ==
  /\ mutex = {} => range = 0
  /\ idgenDisk = idgen + range

SetInv == SetTypeOK /\ Disjoint /\ GeneratorAgrees /\ HandedIsDurable

\* A storage that has just been created satisfies the invariant.
LEMMA InitSetInv == SetInit => SetInv
  BY DEF SetInit, SetInv, SetTypeOK, Disjoint, GeneratorAgrees, HandedIsDurable

\* Every operation of the storage keeps it.
LEMMA NextSetInv == SetInv /\ [SetNext]_setVars => SetInv'
<1> SUFFICES ASSUME SetInv, [SetNext]_setVars PROVE SetInv'
  BY Zenon
<1> USE TwoPSetAssumption DEF SetInv, SetTypeOK, Disjoint, GeneratorAgrees, HandedIsDurable
<1>1. ASSUME NEW id \in Ids, AddObject(id) PROVE SetInv'
  BY <1>1, Zenon DEF AddObject, ObjectsAfterAdd
<1>2. ASSUME NEW id \in Ids, DeleteObject(id) PROVE SetInv'
  BY <1>2, Zenon DEF DeleteObject, ObjectsAfterDelete, RemovedAfterDelete
<1>3. ASSUME NEW t \in Threads, NEW n \in Ranges, ReserveCommit(t, n) PROVE SetInv'
  <2>1. n \in Nat /\ range = 0
    BY <1>3, Zenon DEF ReserveCommit
  <2> QED BY <1>3, <2>1 DEF ReserveCommit
<1>4. ASSUME NEW t \in Threads, ReserveReturn(t) PROVE SetInv'
  <2>1. handed' \subseteq Nat /\ \A i \in handed' : i < idgenDisk
    BY <1>4 DEF ReserveReturn
  <2> QED BY <1>4, <2>1 DEF ReserveReturn
<1>5. ASSUME ReopenSet PROVE SetInv'
  BY <1>5 DEF ReopenSet
<1>6. CASE UNCHANGED setVars
  BY <1>6, Zenon DEF setVars
<1> QED BY <1>1, <1>2, <1>3, <1>4, <1>5, <1>6, Zenon DEF SetNext

\* The type invariant and the invariant behind the other theorems hold in every
\* state of mdv_2pset.c's storage.
THEOREM TwoPSetInvariant == SetSpec => []SetInv
<1> QED BY InitSetInv, NextSetInv, PTL DEF SetSpec

\* Type correctness of the storage of mdv_2pset.c.
THEOREM TwoPSetTypeOK == SetSpec => []SetTypeOK
<1>1. SetInv => SetTypeOK
  BY Zenon DEF SetInv
<1> QED BY <1>1, TwoPSetInvariant, PTL

\* No object is both live and removed.
THEOREM TwoPSetDisjoint == SetSpec => []Disjoint
<1>1. SetInv => Disjoint
  BY Zenon DEF SetInv
<1> QED BY <1>1, TwoPSetInvariant, PTL

\* mdv_2pset_reserve_ids_range never hands an identifier out twice: those handed
\* out are below the generator, in memory and on disk, in every state.
THEOREM TwoPSetHandedIsDurable == SetSpec => []HandedIsDurable
<1>1. SetInv => HandedIsDurable
  BY Zenon DEF SetInv
<1> QED BY <1>1, TwoPSetInvariant, PTL

\* "Delete op has priority": no step of the storage brings a removed object back
\* or drops its tombstone.
THEOREM TwoPSetNoResurrection == SetSpec => NoResurrection
<1>1. SetInv /\ [SetNext]_setVars => [removed \subseteq removed' /\ objects' \cap removed = {}]_setVars
  BY Zenon
     DEF SetInv, Disjoint, SetNext, AddObject, DeleteObject, ReserveCommit,
         ReserveReturn, ReopenSet,
         ObjectsAfterAdd, ObjectsAfterDelete, RemovedAfterDelete, setVars
<1> QED BY <1>1, TwoPSetInvariant, PTL DEF SetSpec, NoResurrection

\* mdv_2pset.c implements a two-phase set.
THEOREM TwoPSetImplements2P == SetSpec => Implements2P
<1>1. SetInit => Set2P!Init
  BY Zenon DEF SetInit, Set2P!Init
<1>2. SetInv /\ [SetNext]_setVars => [Set2P!Next]_(Set2P!vars)
  <2> SUFFICES ASSUME SetInv, [SetNext]_setVars
               PROVE Set2P!Next \/ UNCHANGED Set2P!vars
    BY Zenon
  <2> USE DEF Set2P!vars
  <2>1. ASSUME NEW id \in Ids, AddObject(id) PROVE Set2P!Next \/ UNCHANGED Set2P!vars
    <3>1. CASE id \in removed
      BY <2>1, <3>1, Zenon DEF AddObject, ObjectsAfterAdd
    <3>2. CASE id \notin removed
      <4>1. Set2P!Add(id)
        BY <2>1, <3>2, Zenon DEF AddObject, ObjectsAfterAdd, Set2P!Add
      <4> QED BY <4>1, Zenon DEF Set2P!Next
    <3> QED BY <3>1, <3>2, Zenon
  <2>2. ASSUME NEW id \in Ids, DeleteObject(id) PROVE Set2P!Next \/ UNCHANGED Set2P!vars
    <3>1. CASE id \in objects
      <4>1. Set2P!Remove(id)
        BY <2>2, <3>1, Zenon DEF DeleteObject, ObjectsAfterDelete, RemovedAfterDelete,
                          Set2P!Remove, Set2P!Members, SetInv, Disjoint
      <4> QED BY <4>1, Zenon DEF Set2P!Next
    <3>2. CASE id \notin objects
      BY <2>2, <3>2, Zenon DEF DeleteObject, ObjectsAfterDelete, RemovedAfterDelete
    <3> QED BY <3>1, <3>2, Zenon
  <2>3. ASSUME NEW t \in Threads, NEW n \in Ranges, ReserveCommit(t, n)
        PROVE UNCHANGED Set2P!vars
    BY <2>3, Zenon DEF ReserveCommit
  <2>4. ASSUME NEW t \in Threads, ReserveReturn(t) PROVE UNCHANGED Set2P!vars
    BY <2>4, Zenon DEF ReserveReturn
  <2>5. ASSUME ReopenSet \/ UNCHANGED setVars PROVE UNCHANGED Set2P!vars
    BY <2>5, Zenon DEF ReopenSet, setVars
  <2> QED BY <2>1, <2>2, <2>3, <2>4, <2>5, Zenon DEF SetNext
<1> QED BY <1>1, <1>2, TwoPSetInvariant, PTL DEF SetSpec, Implements2P, Set2P!Spec

-----------------------------------------------------------------------------
(* The transaction log.                                                    *)

\* x is a position that mdv_trlog_apply can have stored.
Reached(x) == x = 0 \/ x - 1 \in entries

\* What holds of mdv_trlog_apply's locals at each of its steps.
JobInv ==
  /\ job = "read" => from = applied
  /\ job = "ops" =>
       /\ from = applied /\ from <= newpos
       /\ Reached(newpos)
       /\ todo \subseteq entries
       /\ \A p \in todo : newpos <= p
  /\ job = "save" => newpos = applied

\* Positions behind which the log is complete.
Position ==
  /\ appliedDisk <= applied
  /\ Reached(applied) /\ Reached(appliedDisk)

\* In a node's own log positions are committed in order, so nothing can appear
\* behind a position or inside a batch that was read.
Ordered ==
  /\ \A p \in entries, q \in puts : p < q
  /\ NothingSkipped
  /\ job = "ops" =>
       /\ \A p \in entries : p < newpos => p \in done
       /\ \A p \in entries, q \in todo : newpos <= p /\ p < q => p \in todo

LogInv ==
  /\ LogTypeOK /\ TopIsFree /\ OnlyCommittedApplied
  /\ txn = {} => puts = {}
  /\ JobInv /\ Position
  /\ own => Ordered

\* The first position behind a bounded set of positions.
LEMMA LastPlusOneBound ==
  ASSUME NEW S \in SUBSET Nat, NEW n \in Nat, \A p \in S : p < n
  PROVE  /\ LastPlusOne(S) \in Nat /\ LastPlusOne(S) <= n
         /\ \A p \in S : p < LastPlusOne(S)
<1>1. CASE S = {}
  BY <1>1 DEF LastPlusOne
<1>2. CASE S # {}
  <2>1. Max(S) \in S /\ \A p \in S : p <= Max(S)
    BY <1>2, MaxExists, Zenon
  <2>2. LastPlusOne(S) = Max(S) + 1
    BY <1>2, Zenon DEF LastPlusOne
  <2>3. Max(S) \in Nat /\ Max(S) < n
    BY <2>1, Zenon
  <2> HIDE DEF LastPlusOne
  <2> QED BY <2>1, <2>2, <2>3
<1> QED BY <1>1, <1>2, Zenon

\* An empty log satisfies the invariant.
LEMMA InitLogInv == LogInit => LogInv
  BY DEF LogInit, LogInv, LogTypeOK, TopIsFree, OnlyCommittedApplied, JobInv, Position,
         Ordered,
         NothingSkipped, Reached, Steps

\* A put at the top, its commit and its failure keep the invariant.
LEMMA WritersLogInv ==
  ASSUME LogInv, NEW w \in Writers, AddOp(w) \/ Commit(w) \/ CommitFail(w), UNCHANGED own
  PROVE  LogInv'
<1> USE DEF LogInv, LogTypeOK, TopIsFree, OnlyCommittedApplied, JobInv, Position, Ordered,
            NothingSkipped, Reached, logVars, jobVars
<1>1. CASE AddOp(w)
  BY <1>1 DEF AddOp
<1>2. CASE Commit(w)
  <2>1. LogTypeOK' /\ TopIsFree' /\ OnlyCommittedApplied' /\ Position' /\ puts' = {}
    BY <1>2, Zenon DEF Commit
  <2>2. JobInv'
    BY <1>2, Zenon DEF Commit
  <2>3. ASSUME own PROVE Ordered'
    <3>1. \A x \in {applied, newpos} : Reached(x) => \A q \in puts : x <= q
      BY <2>3
    <3>2. NothingSkipped'
      BY <1>2, <2>3, <3>1 DEF Commit
    <3>3. ASSUME job' = "ops"
          PROVE /\ \A p \in entries' : p < newpos' => p \in done'
                /\ \A p \in entries', q \in todo' : newpos' <= p /\ p < q => p \in todo'
      BY <1>2, <2>3, <3>1, <3>3 DEF Commit
    <3> QED BY <2>1, <3>2, <3>3, Zenon
  <2> QED BY <2>1, <2>2, <2>3, Zenon
<1>3. CASE CommitFail(w)
  BY <1>3, Zenon DEF CommitFail
<1> QED BY <1>1, <1>2, <1>3, Zenon

\* So does storing a range of operations of another node.
LEMMA AddRangeLogInv ==
  ASSUME LogInv, NEW w \in Writers, NEW lo \in Nat, NEW hi \in Nat, AddRange(w, lo, hi), UNCHANGED own
  PROVE  LogInv'
<1> DEFINE T == {top} \cup {p + 1 : p \in puts'}
<1>1. puts' \subseteq Nat /\ (\A p \in puts' : p < hi) /\ top' = Max(T)
  BY DEF AddRange
<1>2. top \in Nat /\ top + hi + 1 \in Nat
  BY DEF LogInv, LogTypeOK
<1>3. T \in SUBSET Nat /\ T # {} /\ \A x \in T : x < top + hi + 1
  BY <1>1, <1>2
<1>4. top \in T /\ \A p \in puts' : p + 1 \in T
  BY Zenon
<1> HIDE DEF T
<1>5. Max(T) \in T /\ \A x \in T : x <= Max(T)
  BY <1>2, <1>3, MaxExists, Zenon
<1>6. top' \in T /\ \A x \in T : x <= top'
  BY <1>1, <1>5, Zenon
<1>7. top' \in Nat /\ top <= top' /\ \A p \in puts' : p < top'
  BY <1>1, <1>2, <1>3, <1>4, <1>6
<1>8. ~own /\ txn' = {w} /\ UNCHANGED <<entries, jobVars, appliedDisk, applied, done>>
  BY Zenon DEF AddRange
<1> QED BY <1>1, <1>7, <1>8
           DEF LogInv, LogTypeOK, TopIsFree, OnlyCommittedApplied, JobInv,
             Position, Reached, jobVars

\* So does every step of mdv_trlog_apply.
LEMMA ApplyLogInv ==
  ASSUME LogInv,
         ApplyLoad \/ ApplyRead \/ ApplyOp \/ ApplyOpFail \/ ApplyStore \/ ApplySave,
         UNCHANGED own
  PROVE  LogInv'
<1> USE DEF LogInv, LogTypeOK, TopIsFree, OnlyCommittedApplied, JobInv, Position, Ordered,
            NothingSkipped, Reached, logVars, Steps
<1>1. CASE ApplyLoad
  BY <1>1, Zenon DEF ApplyLoad
<1>2. CASE ApplyRead
  <2>1. PICK batch \in SUBSET entries :
          /\ IsBatch(batch, from)
          /\ todo' = batch
          /\ job' = IF batch = {} THEN "idle" ELSE "ops"
    BY <1>2, Zenon DEF ApplyRead
  <2>2. /\ \A p \in batch : from <= p
        /\ \A p \in batch, q \in entries : from <= q /\ q < p => q \in batch
    BY <2>1 DEF IsBatch
  <2> QED BY <1>2, <2>1, <2>2 DEF ApplyRead
<1>3. CASE ApplyOp
  <2>1. PICK p \in todo :
          /\ \A q \in todo : p <= q
          /\ done' = done \cup {p}
          /\ newpos' = p + 1
          /\ todo' = todo \ {p}
    BY <1>3, Zenon DEF ApplyOp
  <2>2. p \in Nat /\ p \in entries /\ job = "ops" /\ newpos <= p
    BY <1>3, <2>1, Zenon DEF ApplyOp
  <2>3. LogTypeOK' /\ TopIsFree' /\ OnlyCommittedApplied' /\ Position' /\ (txn = {} => puts = {})'
    BY <1>3, <2>1, <2>2 DEF ApplyOp
  <2>4. JobInv'
    BY <1>3, <2>1, <2>2 DEF ApplyOp
  <2>5. ASSUME own PROVE Ordered'
    BY <1>3, <2>1, <2>2, <2>5 DEF ApplyOp
  <2> QED BY <2>3, <2>4, <2>5, Zenon
<1>4. CASE ApplyOpFail
  BY <1>4, Zenon DEF ApplyOpFail
<1>5. CASE ApplyStore
  BY <1>5 DEF ApplyStore
<1>6. CASE ApplySave
  BY <1>6 DEF ApplySave
<1> QED BY <1>1, <1>2, <1>3, <1>4, <1>5, <1>6, Zenon

\* So does a restart, which reads the top and the position back from disk.
LEMMA ReopenLogInv == ASSUME LogInv, ReopenLog, UNCHANGED own PROVE LogInv'
<1>1. top' \in Nat /\ \A p \in entries : p < top'
  BY LastPlusOneBound, Zenon DEF LogInv, LogTypeOK, TopIsFree, ReopenLog
<1> QED BY <1>1
           DEF ReopenLog, LogInv, LogTypeOK, TopIsFree, OnlyCommittedApplied, JobInv,
               Position,
             Ordered, NothingSkipped, Reached, Steps

\* Every step of the log keeps the invariant.
LEMMA NextLogInv == LogInv /\ [LogNext]_trlogVars => LogInv'
<1> SUFFICES ASSUME LogInv, [LogNext]_trlogVars PROVE LogInv'
  BY Zenon
<1>1. ASSUME NEW w \in Writers, NEW lo \in 0 .. MaxTop, NEW hi \in 0 .. MaxTop, AddRange(w, lo, hi),
             UNCHANGED own
      PROVE LogInv'
  BY <1>1, AddRangeLogInv, TrLogAssumption
<1>2. CASE UNCHANGED trlogVars
  BY <1>2
     DEF trlogVars, logVars, jobVars, LogInv, LogTypeOK, TopIsFree, OnlyCommittedApplied,
         JobInv,
              Position, Ordered, NothingSkipped, Reached
<1> QED BY <1>1, <1>2, WritersLogInv, ApplyLogInv, ReopenLogInv, Zenon DEF LogNext

-----------------------------------------------------------------------------
\* The invariant behind the theorems below holds in every state of a log.
THEOREM TrLogInvariant == LogSpec => []LogInv
<1> QED BY InitLogInv, NextLogInv, PTL DEF LogSpec

\* Type correctness of the state of mdv_trlog.c.
THEOREM TrLogTypeOK == LogSpec => []LogTypeOK
<1>1. LogInv => LogTypeOK
  BY Zenon DEF LogInv
<1> QED BY <1>1, TrLogInvariant, PTL

\* mdv_trlog_add_op never takes the position of a stored operation.
THEOREM TrLogTopIsFree == LogSpec => []TopIsFree
<1>1. LogInv => TopIsFree
  BY Zenon DEF LogInv
<1> QED BY <1>1, TrLogInvariant, PTL

\* Only operations that a transaction of mdv_trlog_add or mdv_trlog_add_op
\* committed are ever applied.
THEOREM TrLogOnlyCommittedApplied == LogSpec => []OnlyCommittedApplied
<1>1. LogInv => OnlyCommittedApplied
  BY Zenon DEF LogInv
<1> QED BY <1>1, TrLogInvariant, PTL

\* The applied position never passes the last stored operation, on disk or in
\* memory, whatever commits fail and whenever the process restarts.
THEOREM TrLogAppliedIsStored == LogSpec => []AppliedIsStored
<1>1. ASSUME LogInv PROVE AppliedIsStored
  <2>1. LastPlusOne(entries) \in Nat /\ \A p \in entries : p < LastPlusOne(entries)
    BY <1>1, LastPlusOneBound, Zenon DEF LogInv, LogTypeOK, TopIsFree
  <2> QED BY <1>1, <2>1 DEF LogInv, LogTypeOK, Position, Reached, AppliedIsStored
<1> QED BY <1>1, TrLogInvariant, PTL

\* A node never steps over an operation of its own log: with any number of
\* writers, any batch size, failed commits, failed callbacks and restarts.
THEOREM TrLogNothingSkipped == LogSpec => []NothingSkipped
<1>1. LogInv => NothingSkipped
  BY Zenon DEF LogInv, Ordered, NothingSkipped
<1> QED BY <1>1, TrLogInvariant, PTL

\* The applied position on disk never moves back.
THEOREM TrLogAppliedDiskForward == LogSpec => AppliedDiskForward
<1>1. ASSUME LogInv, [LogNext]_trlogVars PROVE appliedDisk' >= appliedDisk
  <2>1. appliedDisk \in Nat
    BY <1>1, Zenon DEF LogInv, LogTypeOK
  <2>2. ASSUME NEW w \in Writers, NEW lo, NEW hi,
               AddOp(w) \/ Commit(w) \/ CommitFail(w) \/ AddRange(w, lo, hi)
        PROVE  UNCHANGED appliedDisk
    BY <2>2, Zenon DEF AddOp, Commit, CommitFail, AddRange
  <2>3. ASSUME ApplyLoad \/ ApplyRead \/ ApplyOp \/ ApplyOpFail \/ ApplyStore \/ ReopenLog
        PROVE  UNCHANGED appliedDisk
    BY <2>3, Zenon DEF ApplyLoad, ApplyRead, ApplyOp, ApplyOpFail, ApplyStore, ReopenLog
  <2>4. CASE ApplySave
    BY <1>1, <2>4 DEF ApplySave, LogInv, LogTypeOK, JobInv, Position
  <2>5. CASE UNCHANGED trlogVars
    BY <2>1, <2>5 DEF trlogVars
  <2> QED BY <1>1, <2>1, <2>2, <2>3, <2>4, <2>5 DEF LogNext
<1>2. LogInv /\ [LogNext]_trlogVars => [appliedDisk' >= appliedDisk]_trlogVars
  BY <1>1, Zenon
<1> QED BY <1>2, TrLogInvariant, PTL DEF LogSpec, AppliedDiskForward

-----------------------------------------------------------------------------
(* The tablespace.                                                         *)

\* The operations that a request can carry.
AnyOp ==
  {NoOp} \cup {CreateOp(t) : t \in Tables} \cup {DeleteOp(r) : r \in 0 .. MaxId - 1}
    \cup {InsertOp(r, n) : r \in Nat, n \in Nat}

SpaceTypes ==
  /\ ops \in [0 .. MaxTop - 1 -> AnyOp]
  /\ cpc \in [Clients -> {"idle", "reserve", "log", "commit", "register"}]
  /\ cop \in [Clients -> AnyOp]
  /\ next \in Nat /\ openFails \in Nat
  /\ entries \cup puts \subseteq 0 .. MaxTop - 1 /\ top <= MaxTop
  /\ idgenDisk <= MaxId

\* The operation of a request is in the log, on its way into it, or given up.
Pending(c) == cpc[c] \in {"log", "commit"}
IsInsert(c) == Pending(c) /\ cop[c].type = "insert"
RowsOf(op) == op.id .. op.id + op.n - 1

Requests ==
  /\ \A c \in Clients : txn = {c} =>
       cpc[c] = "commit" /\ \E p \in 0 .. MaxTop - 1 : p \notin entries /\ puts = {p} /\ ops[p] = cop[c]
  /\ \A c \in Clients : cpc[c] = "register" =>
       cop[c].type = "create" /\ \E p \in entries : ops[p] = cop[c]

\* Rowsets, logged or pending, are below the generator and disjoint.
Disjointness ==
  /\ \A p \in Inserts(entries) : \A r \in Rows(p) : r < idgen
  /\ \A c \in Clients : IsInsert(c) => \A r \in RowsOf(cop[c]) : r < idgen
  /\ UniqueRows
  /\ \A c \in Clients, p \in Inserts(entries) : IsInsert(c) => RowsOf(cop[c]) \cap Rows(p) = {}
  /\ \A c, d \in Clients :
       c # d /\ IsInsert(c) /\ IsInsert(d) => RowsOf(cop[c]) \cap RowsOf(cop[d]) = {}

\* A row that a delete names was stored before.
DeleteNames ==
  /\ \A p \in entries : ops[p].type = "delete" => ops[p].id \in objects \cup removed
  /\ \A c \in Clients : Pending(c) /\ cop[c].type = "delete" => cop[c].id \in objects \cup removed
  /\ \A p \in done : ops[p].type = "delete" => ops[p].id \in removed
  /\ removed \subseteq Deleted(entries)

\* What the transactions that were done for the operation at p have stored.
Stored(p, n) ==
  /\ ops[p].type = "insert" => \A i \in Nat : i < n => ops[p].id + i \in objects \cup removed
  /\ ops[p].type = "delete" /\ 0 < n => ops[p].id \in removed
  /\ ops[p].type = "create" /\ 0 < n => ops[p].table \in tables

Applying ==
  next # 0 => job = "ops" /\ \E p \in todo : (\A q \in todo : p <= q) /\ Stored(p, next)

Kept ==
  openFails = 0 => \A p \in done :
    /\ ops[p].type = "insert" => Rows(p) \subseteq objects \cup removed
    /\ ops[p].type = "create" => ops[p].table \in tables

SpaceInv == SpaceTypes /\ Requests /\ Disjointness /\ WriteAhead /\ DeleteNames /\ Applying /\ Kept

-----------------------------------------------------------------------------
(* The components inside the tablespace.                                   *)

\* What an operation of the log is made of.
LEMMA OpShape ==
  ASSUME NEW op \in AnyOp
  PROVE  /\ op.type = "insert" => op.id \in Nat /\ op.n \in Nat
         /\ op.type = "delete" => op = DeleteOp(op.id) /\ op.id \in 0 .. MaxId - 1
         /\ op.type = "create" => op = CreateOp(op.table)
BY DEF AnyOp, NoOp, CreateOp, InsertOp, DeleteOp

\* An operation is what the constructor of its type makes.
LEMMA OpMade ==
  /\ \A r \in Nat, n \in Nat :
       /\ InsertOp(r, n) \in AnyOp /\ InsertOp(r, n).type = "insert"
       /\ InsertOp(r, n).id = r /\ InsertOp(r, n).n = n
  /\ \A r \in 0 .. MaxId - 1 :
       DeleteOp(r) \in AnyOp /\ DeleteOp(r).type = "delete" /\ DeleteOp(r).id = r
  /\ \A t \in Tables :
       CreateOp(t) \in AnyOp /\ CreateOp(t).type = "create" /\ CreateOp(t).table = t
  /\ NoOp \in AnyOp
<1>1. \A r \in Nat, n \in Nat :
        /\ InsertOp(r, n) \in AnyOp /\ InsertOp(r, n).type = "insert"
        /\ InsertOp(r, n).id = r /\ InsertOp(r, n).n = n
  BY DEF AnyOp, InsertOp
<1>2. \A r \in 0 .. MaxId - 1 :
        DeleteOp(r) \in AnyOp /\ DeleteOp(r).type = "delete" /\ DeleteOp(r).id = r
  BY DEF AnyOp, DeleteOp
<1>3. \A t \in Tables :
        CreateOp(t) \in AnyOp /\ CreateOp(t).type = "create" /\ CreateOp(t).table = t
  BY DEF AnyOp, CreateOp
<1>4. NoOp \in AnyOp
  BY DEF AnyOp
<1> QED BY <1>1, <1>2, <1>3, <1>4, Zenon

\* A step of the tablespace is a step of its log, or leaves the log alone.
LEMMA LogStep == [Next]_vars => [LogNext]_trlogVars
<1> SUFFICES ASSUME [Next]_vars PROVE LogNext \/ UNCHANGED trlogVars
  BY Zenon DEF LogNext
<1>1. ASSUME NEW c \in Clients, UNCHANGED own,
             AppendOp(c) \/ AppendCommit(c) \/ AppendFail(c)
      PROVE  LogNext
  BY <1>1, TablespaceAssumption, Zenon DEF AppendOp, AppendCommit, AppendFail, LogNext
<1>2. ASSUME NEW c \in Clients, NEW n, NEW r, NEW t,
             \/ Reserve(c, n) \/ BeginDelete(c, r) \/ BeginCreate(c, t)
             \/ Reserved(c) \/ Register(c)
      PROVE  UNCHANGED trlogVars
  BY <1>2, Zenon DEF Reserve, BeginDelete, BeginCreate, Reserved, Register
<1>3. ASSUME UNCHANGED own,
             JobLoad \/ JobRead \/ JobDone \/ JobFail \/ JobOpenFail \/ JobStore \/ JobSave
             \/ Restart
      PROVE  LogNext
  BY <1>3, Zenon
     DEF JobLoad, JobRead, JobDone, JobFail, JobOpenFail, JobStore, JobSave, Restart,
         LogNext
<1>4. ASSUME JobEnd \/ JobTransaction PROVE UNCHANGED trlogVars
  BY <1>4, Zenon DEF JobEnd, JobTransaction
<1>5. CASE UNCHANGED vars
  BY <1>5, Zenon DEF vars
<1> QED BY <1>1, <1>2, <1>3, <1>4, <1>5, Zenon DEF Next, ClientStep, JobStep

\* A step of the tablespace is a step of the row storage, or leaves it alone.
LEMMA SetStep == SpaceInv /\ LogInv /\ SetInv /\ [Next]_vars => [SetNext]_setVars
<1> SUFFICES ASSUME SpaceInv, LogInv, SetInv, [Next]_vars PROVE SetNext \/ UNCHANGED setVars
  BY Zenon DEF SetNext
<1>1. ASSUME NEW c \in Clients, NEW n \in Ranges, Reserve(c, n)
      PROVE  SetNext
  BY <1>1, TablespaceAssumption, Zenon DEF Reserve, SetNext
<1>2. ASSUME NEW c \in Clients, Reserved(c)
      PROVE  SetNext
  BY <1>2, TablespaceAssumption, Zenon DEF Reserved, SetNext
<1>3. ASSUME NEW c \in Clients, NEW r, NEW t,
             \/ BeginDelete(c, r) \/ BeginCreate(c, t)
             \/ AppendOp(c) \/ AppendCommit(c) \/ AppendFail(c) \/ Register(c)
      PROVE  UNCHANGED setVars
  BY <1>3, Zenon
     DEF BeginDelete, BeginCreate, AppendOp, AppendCommit, AppendFail, Register
<1>4. ASSUME JobLoad \/ JobEnd \/ JobRead \/ JobDone \/ JobFail \/ JobOpenFail \/ JobStore \/ JobSave
      PROVE  UNCHANGED setVars
  BY <1>4, Zenon
     DEF JobLoad, JobEnd, JobRead, JobDone, JobFail, JobOpenFail, JobStore, JobSave
<1>5. CASE JobTransaction
  <2>1. PICK op \in Ops :
          /\ IsCurrent(op)
          /\ next < Transactions(op)
          /\ \/ op.type = "create" /\ UNCHANGED setVars
             \/ op.type = "insert" /\ AddObject(op.id + next)
             \/ op.type = "delete" /\ DeleteObject(op.id)
    BY <1>5, Zenon DEF JobTransaction
  <2>2. PICK p \in todo : op = ops[p] /\ job = "ops"
    BY <2>1, Zenon DEF IsCurrent
  <2>3. p \in entries /\ op \in AnyOp
    BY <2>2, Zenon DEF LogInv, JobInv, SpaceInv, SpaceTypes
  <2>4. CASE op.type = "insert"
    <3>1. op.id \in Nat /\ op.n \in Nat /\ next \in Nat /\ next < op.n
      BY <2>1, <2>3, <2>4, OpShape, Zenon DEF Transactions, SpaceInv, SpaceTypes
    <3>2. op.id + next \in Rows(p) /\ p \in Inserts(entries)
      BY <2>2, <2>3, <2>4, <3>1 DEF Rows, Inserts
    <3>3. op.id + next < idgen /\ idgen <= idgenDisk /\ idgenDisk <= MaxId
      BY <3>2 DEF SpaceInv, Disjointness, SpaceTypes, SetInv, GeneratorAgrees, SetTypeOK
    <3>4. op.id + next \in 0 .. MaxId - 1
      BY <3>1, <3>3, TwoPSetAssumption DEF SetInv, SetTypeOK
    <3> QED BY <2>1, <2>4, <3>4, TablespaceAssumption, Zenon DEF SetNext
  <2>5. CASE op.type = "delete"
    <3>1. op.id \in Ids
      BY <2>3, <2>5, OpShape, TablespaceAssumption, Zenon
    <3> QED BY <2>1, <2>5, <3>1, Zenon DEF SetNext
  <2> QED BY <2>1, <2>4, <2>5, Zenon
<1>6. CASE Restart
  BY <1>6, Zenon DEF Restart, SetNext
<1>7. CASE UNCHANGED vars
  BY <1>7, Zenon DEF vars
<1> QED BY <1>1, <1>2, <1>3, <1>4, <1>5, <1>6, <1>7, Zenon DEF Next, ClientStep, JobStep

-----------------------------------------------------------------------------
(* The invariant.                                                          *)

\* An empty tablespace satisfies the invariant.
LEMMA InitSpaceInv == Init => SpaceInv
<1> SUFFICES ASSUME Init PROVE SpaceInv
  BY Zenon
<1> USE DEF Init, LogInit, SetInit
<1>1. SpaceTypes
  BY OpMade, TrLogAssumption, TwoPSetAssumption DEF SpaceTypes
<1>2. Requests
  BY Zenon DEF Requests
<1>3. Disjointness
  BY Zenon DEF Disjointness, UniqueRows, Inserts, IsInsert, Pending
<1>4. WriteAhead
  BY Zenon DEF WriteAhead, Inserted
<1>5. DeleteNames
  BY Zenon DEF DeleteNames, Pending
<1>6. Applying /\ Kept
  BY Zenon DEF Applying, Kept
<1> QED BY <1>1, <1>2, <1>3, <1>4, <1>5, <1>6, Zenon DEF SpaceInv

\* What the proofs below use of the invariant of the log.
LEMMA LogFacts ==
  ASSUME LogInv
  PROVE  /\ top \in Nat /\ top \notin entries /\ entries \subseteq Nat /\ todo \subseteq Nat
         /\ done \subseteq entries /\ (job = "ops" => todo \subseteq entries)
BY DEF LogInv, LogTypeOK, TopIsFree, OnlyCommittedApplied, JobInv

\* What they use of the invariant of the row storage.
LEMMA SetFacts ==
  ASSUME SetInv
  PROVE  idgen \in Nat /\ range \in Nat /\ idgenDisk = idgen + range
BY Zenon DEF SetInv, SetTypeOK, GeneratorAgrees

\* WriteAhead is kept by a step that stores no row, and no table but logged ones.
LEMMA WriteAheadKept ==
  ASSUME WriteAhead, entries \subseteq entries', \A p \in entries : ops'[p] = ops[p],
         UNCHANGED <<objects, removed>>,
         \A t \in tables' : t \in tables \/ \E p \in entries : ops[p] = CreateOp(t)
  PROVE  WriteAhead'
<1>1. \A p \in entries : Rows(p)' = Rows(p)
  BY Zenon DEF Rows
<1>2. \A p \in Inserts(entries) : p \in entries /\ p \in Inserts(entries)'
  BY Zenon DEF Inserts
<1>3. Inserted(entries) \subseteq Inserted(entries)'
  BY <1>1, <1>2, Zenon DEF Inserted
<1>4. \A t \in tables' : \E p \in entries' : ops'[p] = CreateOp(t)
  BY Zenon DEF WriteAhead
<1> QED BY <1>3, <1>4, Zenon DEF WriteAhead

\* So are the rows and tables of applied operations.
LEMMA AppliedKept ==
  ASSUME Applying, Kept, LogInv, \A p \in entries : ops'[p] = ops[p],
         UNCHANGED <<done, objects, removed, openFails>>, tables \subseteq tables',
         next' = 0 \/ UNCHANGED <<next, job, todo>>
  PROVE  Applying' /\ Kept'
<1>1. done \subseteq entries /\ (job = "ops" => todo \subseteq entries)
  BY LogFacts, Zenon
<1>2. Applying'
  <2>1. \A p \in entries : Stored(p, next) => ops'[p] = ops[p]
    BY Zenon
  <2>2. ASSUME next' = next, NEW p \in entries, Stored(p, next) PROVE Stored(p, next)'
    BY <2>2, Zenon DEF Stored
  <2> QED BY <1>1, <2>2, Zenon DEF Applying
<1>3. \A p \in entries : Rows(p)' = Rows(p)
  BY Zenon DEF Rows
<1>4. Kept'
  BY <1>1, <1>3, Zenon DEF Kept
<1> QED BY <1>2, <1>4, Zenon

\* A request that goes on as it was, ends, or begins without a rowset.
QuietRequest(d) ==
  \/ cpc'[d] = cpc[d] /\ cop'[d] = cop[d]
  \/ cpc'[d] \in {"idle", "reserve"} /\ (cpc[d] = "commit" => txn' = {})
  \/ /\ cpc'[d] = "log" /\ cpc[d] = "idle"
     /\ \/ cop'[d].type = "create"
        \/ cop'[d].type = "delete" /\ cop'[d].id \in objects \cup removed

\* A step that leaves the log, the rows and the reserved rowsets alone.
LEMMA QuietSpaceInv ==
  ASSUME SpaceInv, LogInv, SpaceTypes',
         UNCHANGED <<entries, done, ops, objects, removed, openFails>>,
         UNCHANGED <<txn, puts>> \/ txn' = {},
         tables \subseteq tables',
         \A t \in tables' : t \in tables \/ \E p \in entries : ops[p] = CreateOp(t),
         next' = 0 \/ UNCHANGED <<next, job, todo>>,
         idgen \in Nat, idgen' \in Nat, idgen <= idgen',
         \A d \in Clients : QuietRequest(d)
  PROVE  SpaceInv'
<1>0. Requests /\ Disjointness /\ WriteAhead /\ DeleteNames /\ Applying /\ Kept
  BY Zenon DEF SpaceInv
<1>1. \A d \in Clients :
        /\ Pending(d)' /\ ~(cop'[d].type \in {"create", "delete"} /\ cpc[d] = "idle") =>
             Pending(d) /\ cop'[d] = cop[d]
        /\ IsInsert(d)' => IsInsert(d) /\ cop'[d] = cop[d]
        /\ Pending(d)' /\ cop'[d].type = "delete" =>
             (Pending(d) /\ cop'[d] = cop[d]) \/ cop'[d].id \in objects \cup removed
  BY Zenon DEF QuietRequest, Pending, IsInsert
<1>2. Requests'
  <2>1. ASSUME NEW d \in Clients, txn' = {d}
        PROVE  /\ cpc'[d] = "commit"
               /\ \E p \in 0 .. MaxTop - 1 : p \notin entries /\ puts' = {p} /\ ops[p] = cop'[d]
    <3>1. txn' # {} /\ UNCHANGED <<txn, puts>>
      BY <2>1, Zenon
    <3>2. cpc[d] = "commit"
      BY <1>0, <2>1, <3>1, Zenon DEF Requests
    <3>3. cpc'[d] = cpc[d] /\ cop'[d] = cop[d]
      BY <3>1, <3>2, Zenon DEF QuietRequest
    <3> QED BY <1>0, <2>1, <3>1, <3>3 DEF Requests
  <2>2. ASSUME NEW d \in Clients, cpc'[d] = "register"
        PROVE  cop'[d].type = "create" /\ \E p \in entries : ops[p] = cop'[d]
    <3>1. cpc'[d] = cpc[d] /\ cop'[d] = cop[d]
      BY <2>2, Zenon DEF QuietRequest
    <3> QED BY <1>0, <2>2, <3>1, Zenon DEF Requests
  <2> QED BY <2>1, <2>2, Zenon DEF Requests
<1>3. Disjointness'
  <2>1. Inserts(entries)' = Inserts(entries) /\ \A p : Rows(p)' = Rows(p)
    BY Zenon DEF Inserts, Rows
  <2>2. \A d \in Clients : IsInsert(d)' => RowsOf(cop[d])' = RowsOf(cop[d])
    BY <1>1, Zenon DEF RowsOf
  <2>3. \A p : \A r \in Rows(p) : r \in Int
    BY DEF Rows
  <2>4. \A d : \A r \in RowsOf(cop[d]) : r \in Int
    BY DEF RowsOf
  <2>5. \A r \in Int : r < idgen => r < idgen'
    OBVIOUS
  <2>6. \A p \in Inserts(entries) : \A r \in Rows(p) : r < idgen'
    BY <1>0, <2>3, <2>5, Zenon DEF Disjointness
  <2>7. \A d \in Clients : IsInsert(d) => \A r \in RowsOf(cop[d]) : r < idgen'
    BY <1>0, <2>4, <2>5, Zenon DEF Disjointness
  <2>8. UniqueRows'
    BY <1>0, <2>1 DEF Disjointness, UniqueRows
  <2> QED BY <1>0, <1>1, <2>1, <2>2, <2>6, <2>7, <2>8, Zenon DEF Disjointness
<1>4. WriteAhead'
  BY <1>0, WriteAheadKept, Zenon
<1>5. DeleteNames'
  <2>1. Deleted(entries)' = Deleted(entries)
    BY Zenon DEF Deleted
  <2>2. \A d \in Clients : Pending(d)' /\ cop'[d].type = "delete" => cop'[d].id \in objects \cup removed
    BY <1>0, <1>1, Zenon DEF DeleteNames
  <2> QED BY <1>0, <2>1, <2>2, Zenon DEF DeleteNames
<1>6. Applying' /\ Kept'
  BY <1>0, AppliedKept, Zenon
<1> QED BY <1>2, <1>3, <1>4, <1>5, <1>6, Zenon DEF SpaceInv

\* A client's step that leaves the log, the rows and the reserved rowsets alone.
LEMMA ClientSpaceInv ==
  ASSUME SpaceInv, LogInv, SetInv, NEW c \in Clients,
         \/ \E n \in Ranges : Reserve(c, n)
         \/ \E r \in 0 .. MaxId - 1 : BeginDelete(c, r)
         \/ \E t \in Tables : BeginCreate(c, t)
         \/ AppendFail(c) \/ Register(c)
  PROVE  SpaceInv'
<1>0. /\ idgen \in Nat
      /\ cpc \in [Clients -> {"idle", "reserve", "log", "commit", "register"}]
      /\ cop \in [Clients -> AnyOp]
  BY SetFacts, Zenon DEF SpaceInv, SpaceTypes
<1> USE DEF trlogVars, logVars, jobVars, boundVars, setVars
<1>1. ASSUME NEW n \in Ranges, Reserve(c, n) PROVE SpaceInv'
  <2>1. /\ UNCHANGED <<entries, done, ops, objects, removed, openFails, txn, puts, top,
                       tables, next, job, todo, idgen, cop>>
        /\ cpc' = [cpc EXCEPT ![c] = "reserve"] /\ cpc[c] = "idle" /\ idgenDisk' <= MaxId
    BY <1>1, Zenon DEF Reserve, ReserveCommit
  <2>2. SpaceTypes'
    BY <2>1, Zenon DEF SpaceInv, SpaceTypes
  <2>3. \A d \in Clients : QuietRequest(d)
    BY <1>0, <2>1, Zenon DEF QuietRequest
  <2> QED BY <1>0, <2>1, <2>2, <2>3, QuietSpaceInv
<1>2. ASSUME NEW r \in 0 .. MaxId - 1, BeginDelete(c, r) PROVE SpaceInv'
  <2>1. /\ UNCHANGED <<entries, done, ops, objects, removed, openFails, txn, puts, top,
                       tables, next, job, todo, idgen, idgenDisk>>
        /\ cpc' = [cpc EXCEPT ![c] = "log"] /\ cpc[c] = "idle"
        /\ cop' = [cop EXCEPT ![c] = DeleteOp(r)] /\ r \in objects \cup removed
    BY <1>2, Zenon DEF BeginDelete, Request
  <2>2. DeleteOp(r) \in AnyOp /\ DeleteOp(r).type = "delete" /\ DeleteOp(r).id = r
    BY OpMade, Zenon
  <2>3. SpaceTypes'
    BY <2>1, <2>2, Zenon DEF SpaceInv, SpaceTypes
  <2>4. \A d \in Clients : QuietRequest(d)
    BY <1>0, <2>1, <2>2, Zenon DEF QuietRequest
  <2> QED BY <1>0, <2>1, <2>3, <2>4, QuietSpaceInv
<1>3. ASSUME NEW t \in Tables, BeginCreate(c, t) PROVE SpaceInv'
  <2>1. /\ UNCHANGED <<entries, done, ops, objects, removed, openFails, txn, puts, top,
                       tables, next, job, todo, idgen, idgenDisk>>
        /\ cpc' = [cpc EXCEPT ![c] = "log"] /\ cpc[c] = "idle"
        /\ cop' = [cop EXCEPT ![c] = CreateOp(t)]
    BY <1>3, Zenon DEF BeginCreate, Request
  <2>2. CreateOp(t) \in AnyOp /\ CreateOp(t).type = "create"
    BY OpMade, Zenon
  <2>3. SpaceTypes'
    BY <2>1, <2>2, Zenon DEF SpaceInv, SpaceTypes
  <2>4. \A d \in Clients : QuietRequest(d)
    BY <1>0, <2>1, <2>2, Zenon DEF QuietRequest
  <2> QED BY <1>0, <2>1, <2>3, <2>4, QuietSpaceInv
<1>4. CASE AppendFail(c)
  <2>1. /\ UNCHANGED <<entries, done, ops, objects, removed, openFails, tables, next, job, todo,
                       idgen, idgenDisk, cop>>
        /\ txn' = {} /\ puts' = {} /\ top' = top
        /\ cpc' = [cpc EXCEPT ![c] = "idle"] /\ cpc[c] = "commit"
    BY <1>4, Zenon DEF AppendFail, CommitFail
  <2>2. SpaceTypes'
    BY <2>1, Zenon DEF SpaceInv, SpaceTypes
  <2>3. \A d \in Clients : QuietRequest(d)
    BY <1>0, <2>1, Zenon DEF QuietRequest
  <2> QED BY <1>0, <2>1, <2>2, <2>3, QuietSpaceInv
<1>5. CASE Register(c)
  <2>1. /\ UNCHANGED <<entries, done, ops, objects, removed, openFails, txn, puts, top,
                       next, job, todo, idgen, idgenDisk, cop>>
        /\ tables' \subseteq tables \cup {cop[c].table} /\ tables \subseteq tables'
        /\ cpc' = [cpc EXCEPT ![c] = "idle"] /\ cpc[c] = "register"
    BY <1>5, Zenon DEF Register, ObjectsAfterAdd
  <2>2. \E p \in entries : ops[p] = CreateOp(cop[c].table)
    <3>1. cop[c].type = "create" /\ \E p \in entries : ops[p] = cop[c]
      BY <2>1, Zenon DEF SpaceInv, Requests
    <3> QED BY <1>0, <3>1, OpShape, Zenon
  <2>3. SpaceTypes'
    BY <2>1, Zenon DEF SpaceInv, SpaceTypes
  <2>4. \A d \in Clients : QuietRequest(d)
    BY <1>0, <2>1, Zenon DEF QuietRequest
  <2>5. \A t \in tables' : t \in tables \/ \E p \in entries : ops[p] = CreateOp(t)
    BY <2>1, <2>2, Zenon
  <2> QED BY <1>0, <2>1, <2>3, <2>4, <2>5, QuietSpaceInv
<1> QED BY <1>1, <1>2, <1>3, <1>4, <1>5, Zenon

\* The committer job reads a batch, gives one up or stores its position; the process
\* restarts; nothing happens.
LEMMA JobSpaceInv ==
  ASSUME SpaceInv, LogInv, SetInv,
         \/ JobLoad \/ JobEnd \/ JobRead \/ JobFail \/ JobStore \/ JobSave
         \/ Restart \/ UNCHANGED vars
  PROVE  SpaceInv'
<1>0. idgen \in Nat /\ idgenDisk \in Nat /\ idgen <= idgenDisk
  BY SetFacts
<1> USE DEF trlogVars, logVars, jobVars, boundVars, setVars, clientVars
<1>1. CASE JobLoad \/ JobEnd \/ JobRead \/ JobFail \/ JobStore \/ JobSave \/ UNCHANGED vars
  <2>1. /\ UNCHANGED <<entries, done, ops, objects, removed, openFails, txn, puts, top,
                       tables, idgen, idgenDisk, cpc, cop>>
        /\ next' = 0 \/ UNCHANGED <<next, job, todo>>
    <3>1. CASE JobLoad \/ JobEnd \/ JobRead \/ JobFail
      BY <3>1, Zenon
         DEF JobLoad, JobEnd, JobRead, JobFail, ApplyLoad, ApplyRead, ApplyOpFail,
                  SpaceInv, Applying
    <3>2. CASE JobStore \/ JobSave \/ UNCHANGED vars
      BY <3>2, Zenon
         DEF JobStore, JobSave, ApplyStore, ApplySave, vars, SpaceInv, Applying
    <3> QED BY <1>1, <3>1, <3>2, Zenon
  <2>2. SpaceTypes'
    BY <2>1 DEF SpaceInv, SpaceTypes
  <2>3. \A d \in Clients : QuietRequest(d)
    BY <2>1, Zenon DEF QuietRequest
  <2> QED BY <1>0, <2>1, <2>2, <2>3, QuietSpaceInv
<1>2. CASE Restart
  <2>1. /\ UNCHANGED <<entries, done, ops, objects, removed, openFails, tables, idgenDisk>>
        /\ txn' = {} /\ puts' = {} /\ next' = 0 /\ idgen' = idgenDisk
        /\ top' = LastPlusOne(entries)
        /\ cpc' = [d \in Clients |-> "idle"] /\ cop' = [d \in Clients |-> NoOp]
    BY <1>2, Zenon DEF Restart, ReopenLog, ReopenSet
  <2>2. MaxTop \in Nat /\ entries \in SUBSET Nat /\ \A p \in entries : p < MaxTop
    BY TrLogAssumption, LogFacts DEF SpaceInv, SpaceTypes
  <2>3. LastPlusOne(entries) <= MaxTop
    BY <2>2, LastPlusOneBound, Zenon
  <2>4. NoOp \in AnyOp
    BY OpMade, Zenon
  <2>5. SpaceTypes'
    BY <2>1, <2>3, <2>4, Zenon DEF SpaceInv, SpaceTypes
  <2>6. \A d \in Clients : QuietRequest(d)
    BY <2>1, Zenon DEF QuietRequest
  <2> QED BY <1>0, <2>1, <2>5, <2>6, QuietSpaceInv, Zenon
<1> QED BY <1>1, <1>2, Zenon

\* A client gets the rows that it reserved.
LEMMA ReservedSpaceInv ==
  ASSUME SpaceInv, LogInv, SetInv, NEW c \in Clients, Reserved(c)
  PROVE  SpaceInv'
<1> DEFINE op == InsertOp(idgen, range)
<1>0. /\ Requests /\ Disjointness /\ WriteAhead /\ DeleteNames /\ Applying /\ Kept
      /\ cpc \in [Clients -> {"idle", "reserve", "log", "commit", "register"}]
      /\ cop \in [Clients -> AnyOp]
  BY Zenon DEF SpaceInv, SpaceTypes
<1>1. /\ UNCHANGED <<entries, done, ops, objects, removed, openFails, txn, puts, top,
                     tables, next, job, todo, idgenDisk>>
      /\ cpc' = [cpc EXCEPT ![c] = "log"] /\ cpc[c] = "reserve"
      /\ cop' = [cop EXCEPT ![c] = op] /\ idgen' = idgen + range
  BY Zenon DEF Reserved, ReserveReturn, Request, trlogVars, logVars, jobVars, boundVars
<1>2. /\ idgen \in Nat /\ range \in Nat
      /\ op \in AnyOp /\ op.type = "insert" /\ op.id = idgen /\ op.n = range
  BY SetFacts, OpMade
<1> HIDE DEF op
<1>3. SpaceTypes'
  BY <1>1, <1>2, Zenon DEF SpaceInv, SpaceTypes
<1>4. /\ cpc'[c] = "log" /\ cop'[c] = op
      /\ \A d \in Clients : d # c => cpc'[d] = cpc[d] /\ cop'[d] = cop[d]
  BY <1>0, <1>1, Zenon
<1>5. Requests'
  BY <1>0, <1>1, <1>4 DEF Requests
<1>6. Disjointness'
  <2>1. /\ \A p : Rows(p)' = Rows(p)
        /\ Inserts(entries)' = Inserts(entries)
    BY <1>1, Zenon DEF Rows, Inserts
  <2>2. \A d \in Clients : d # c => IsInsert(d)' = IsInsert(d) /\ RowsOf(cop[d])' = RowsOf(cop[d])
    BY <1>4, Zenon DEF IsInsert, Pending, RowsOf
  <2>3. \A r \in RowsOf(cop[c])' : r \in Int /\ idgen <= r /\ r < idgen'
    BY <1>1, <1>2, <1>4 DEF RowsOf
  <2>4. /\ \A p \in Inserts(entries) : \A r \in Rows(p) : r \in Int /\ r < idgen
        /\ \A d \in Clients : IsInsert(d) => \A r \in RowsOf(cop[d]) : r \in Int /\ r < idgen
    BY <1>0 DEF Disjointness, Rows, RowsOf
  <2>5. \A r \in Int : r < idgen => r < idgen' /\ r \notin RowsOf(cop[c])'
    BY <1>1, <1>2, <2>3
  <2>6. \A p \in Inserts(entries)' : \A r \in Rows(p)' : r < idgen'
    BY <2>1, <2>4, <2>5, Zenon
  <2>7. \A d \in Clients : IsInsert(d)' => \A r \in RowsOf(cop[d])' : r < idgen'
    BY <2>2, <2>3, <2>4, <2>5, Zenon
  <2>8. UniqueRows'
    BY <1>0, <2>1, Zenon DEF Disjointness, UniqueRows
  <2>9. \A d \in Clients, p \in Inserts(entries)' :
          IsInsert(d)' => RowsOf(cop[d])' \cap Rows(p)' = {}
    <3>1. \A p \in Inserts(entries) : RowsOf(cop[c])' \cap Rows(p) = {}
      BY <2>4, <2>5, Zenon
    <3> QED BY <1>0, <2>1, <2>2, <3>1, Zenon DEF Disjointness
  <2>10. \A d, e \in Clients : d # e /\ IsInsert(d)' /\ IsInsert(e)' =>
           RowsOf(cop[d])' \cap RowsOf(cop[e])' = {}
    <3>1. \A d \in Clients : d # c /\ IsInsert(d) => RowsOf(cop[c])' \cap RowsOf(cop[d]) = {}
      BY <2>4, <2>5, Zenon
    <3> QED BY <1>0, <2>2, <3>1, Zenon DEF Disjointness
  <2> QED BY <2>6, <2>7, <2>8, <2>9, <2>10, Zenon DEF Disjointness
<1>7. WriteAhead'
  BY <1>0, <1>1, WriteAheadKept, Zenon
<1>8. DeleteNames'
  <2>1. \A d \in Clients : Pending(d)' /\ cop'[d].type = "delete" => Pending(d) /\ cop'[d] = cop[d]
    BY <1>2, <1>4, Zenon DEF Pending
  <2>2. Deleted(entries)' = Deleted(entries)
    BY <1>1, Zenon DEF Deleted
  <2> QED BY <1>0, <1>1, <2>1, <2>2, Zenon DEF DeleteNames
<1>9. Applying' /\ Kept'
  BY <1>0, <1>1, AppliedKept, Zenon
<1> QED BY <1>3, <1>5, <1>6, <1>7, <1>8, <1>9, Zenon DEF SpaceInv

\* A client puts its operation at the end of the log.
LEMMA AppendSpaceInv ==
  ASSUME SpaceInv, LogInv, NEW c \in Clients, AppendOp(c)
  PROVE  SpaceInv'
<1>0. /\ Requests /\ Disjointness /\ WriteAhead /\ DeleteNames /\ Applying /\ Kept
      /\ cpc \in [Clients -> {"idle", "reserve", "log", "commit", "register"}]
      /\ ops \in [0 .. MaxTop - 1 -> AnyOp] /\ cop \in [Clients -> AnyOp]
      /\ entries \subseteq 0 .. MaxTop - 1
  BY Zenon DEF SpaceInv, SpaceTypes
<1>1. /\ UNCHANGED <<entries, done, objects, removed, openFails, tables, next, job, todo,
                     idgen, idgenDisk, cop>>
      /\ txn = {} /\ txn' = {c} /\ puts' = {top} \ entries /\ top < MaxTop /\ top' = top + 1
      /\ cpc' = [cpc EXCEPT ![c] = "commit"] /\ cpc[c] = "log"
      /\ ops' = [ops EXCEPT ![top] = cop[c]]
  BY Zenon DEF AppendOp, AddOp, jobVars, boundVars, setVars
<1>2. /\ top \in 0 .. MaxTop - 1 /\ top + 1 <= MaxTop /\ top \notin entries
      /\ puts' = {top} /\ done \subseteq entries
  BY <1>1, LogFacts, TrLogAssumption
<1>3. /\ \A p \in entries : ops'[p] = ops[p]
      /\ ops'[top] = cop[c] /\ ops' \in [0 .. MaxTop - 1 -> AnyOp]
  BY <1>0, <1>1, <1>2, Zenon
<1>4. SpaceTypes'
  BY <1>1, <1>2, <1>3, Zenon DEF SpaceInv, SpaceTypes
<1>5. Requests'
  BY <1>0, <1>1, <1>2, <1>3 DEF Requests
<1>6. \A d \in Clients : Pending(d)' = Pending(d) /\ IsInsert(d)' = IsInsert(d)
  BY <1>0, <1>1 DEF IsInsert, Pending
<1>7. Disjointness'
  <2>1. Inserts(entries)' = Inserts(entries)
    BY <1>1, <1>3, Zenon DEF Inserts
  <2>2. \A p \in Inserts(entries) : Rows(p)' = Rows(p)
    BY <1>3, Zenon DEF Inserts, Rows
  <2>3. \A d : RowsOf(cop[d])' = RowsOf(cop[d])
    BY <1>1, Zenon DEF RowsOf
  <2>4. UniqueRows'
    BY <1>0, <2>1, <2>2 DEF Disjointness, UniqueRows
  <2> QED BY <1>0, <1>1, <1>6, <2>1, <2>2, <2>3, <2>4 DEF Disjointness
<1>8. WriteAhead'
  BY <1>0, <1>1, <1>3, WriteAheadKept, Zenon
<1>9. DeleteNames'
  <2>1. Deleted(entries)' = Deleted(entries)
    BY <1>1, <1>3, Zenon DEF Deleted
  <2> QED BY <1>0, <1>1, <1>2, <1>3, <1>6, <2>1 DEF DeleteNames
<1>10. Applying' /\ Kept'
  BY <1>0, <1>1, <1>3, AppliedKept, Zenon
<1> QED BY <1>4, <1>5, <1>7, <1>8, <1>9, <1>10, Zenon DEF SpaceInv

\* Its commit makes the operation durable.
LEMMA CommitSpaceInv ==
  ASSUME SpaceInv, LogInv, NEW c \in Clients, AppendCommit(c)
  PROVE  SpaceInv'
<1>0. /\ Requests /\ Disjointness /\ WriteAhead /\ DeleteNames /\ Applying /\ Kept
      /\ cpc \in [Clients -> {"idle", "reserve", "log", "commit", "register"}]
  BY Zenon DEF SpaceInv, SpaceTypes
<1>1. /\ UNCHANGED <<done, ops, objects, removed, openFails, tables, next, job, todo, top,
                     idgen, idgenDisk, cop>>
      /\ txn = {c} /\ txn' = {} /\ puts' = {} /\ entries' = entries \cup puts
      /\ cpc[c] = "commit"
      /\ cpc' = [cpc EXCEPT ![c] = IF cop[c].type = "create" THEN "register" ELSE "idle"]
  BY Zenon DEF AppendCommit, Commit, jobVars, boundVars, setVars
<1>2. PICK p \in 0 .. MaxTop - 1 : p \notin entries /\ puts = {p} /\ ops[p] = cop[c]
  BY <1>0, <1>1, Zenon DEF Requests
<1>3. SpaceTypes'
  BY <1>1, <1>2, Zenon DEF SpaceInv, SpaceTypes
<1>4. Requests'
  <2>1. \A d \in Clients : cpc'[d] = "register" =>
          \/ cpc[d] = "register"
          \/ d = c /\ cop[c].type = "create"
    BY <1>0, <1>1, Zenon
  <2> QED BY <1>0, <1>1, <1>2, <2>1 DEF Requests
<1>5. /\ \A d \in Clients : Pending(d)' => Pending(d) /\ d # c
      /\ \A d \in Clients : IsInsert(d)' => IsInsert(d) /\ d # c
      /\ Pending(c)
  BY <1>0, <1>1, Zenon DEF IsInsert, Pending
<1>6. /\ \A q : Rows(q)' = Rows(q)
      /\ \A d : RowsOf(cop[d])' = RowsOf(cop[d])
      /\ Rows(p) = RowsOf(cop[c])
      /\ \A q \in Inserts(entries)' : q \in Inserts(entries) \/ (q = p /\ IsInsert(c))
  BY <1>1, <1>2, <1>5, Zenon DEF Rows, RowsOf, Inserts, IsInsert
<1>7. Disjointness'
  <2>1. \A q \in Inserts(entries)' : \A r \in Rows(q)' : r < idgen'
    BY <1>0, <1>1, <1>6 DEF Disjointness
  <2>2. \A d \in Clients : IsInsert(d)' => \A r \in RowsOf(cop[d])' : r < idgen'
    BY <1>0, <1>1, <1>5, <1>6, Zenon DEF Disjointness
  <2>3. UniqueRows'
    BY <1>0, <1>6 DEF Disjointness, UniqueRows
  <2>4. \A d \in Clients, q \in Inserts(entries)' :
          IsInsert(d)' => RowsOf(cop[d])' \cap Rows(q)' = {}
    BY <1>0, <1>5, <1>6, Zenon DEF Disjointness
  <2>5. \A d, e \in Clients :
          d # e /\ IsInsert(d)' /\ IsInsert(e)' => RowsOf(cop[d])' \cap RowsOf(cop[e])' = {}
    BY <1>0, <1>5, <1>6, Zenon DEF Disjointness
  <2> QED BY <2>1, <2>2, <2>3, <2>4, <2>5, Zenon DEF Disjointness
<1>8. WriteAhead'
  BY <1>0, <1>1, WriteAheadKept, Zenon
<1>9. DeleteNames'
  <2>1. Deleted(entries) \subseteq Deleted(entries)'
    BY <1>1, Zenon DEF Deleted
  <2> QED BY <1>0, <1>1, <1>2, <1>5, <2>1, Zenon DEF DeleteNames
<1>10. Applying' /\ Kept'
  BY <1>0, <1>1, AppliedKept, Zenon
<1> QED BY <1>3, <1>4, <1>7, <1>8, <1>9, <1>10, Zenon DEF SpaceInv

\* One storage transaction of an operation.
LEMMA TransactionSpaceInv ==
  ASSUME SpaceInv, LogInv, JobTransaction
  PROVE  SpaceInv'
<1> USE DEF trlogVars, logVars, jobVars, boundVars, clientVars
<1>1. PICK op \in Ops :
        /\ IsCurrent(op)
        /\ next < Transactions(op)
        /\ \/ /\ op.type = "create"
              /\ tables' = ObjectsAfterAdd(tables, {}, op.table)
              /\ UNCHANGED setVars
           \/ op.type = "insert" /\ AddObject(op.id + next) /\ UNCHANGED tables
           \/ op.type = "delete" /\ DeleteObject(op.id) /\ UNCHANGED tables
  BY Zenon DEF JobTransaction
<1>2. PICK p \in todo : (\A q \in todo : p <= q) /\ op = ops[p] /\ job = "ops"
  BY <1>1, Zenon DEF IsCurrent
<1>3. p \in entries /\ ops[p] \in AnyOp /\ todo \subseteq entries /\ p \in Nat /\ next \in Nat
  BY <1>2, Zenon DEF LogInv, LogTypeOK, JobInv, SpaceInv, SpaceTypes
<1>4. /\ next' = next + 1
      /\ UNCHANGED <<entries, puts, txn, top, done, job, todo, ops, cpc, cop, openFails, idgen, idgenDisk>>
  BY <1>1, Zenon DEF JobTransaction, AddObject, DeleteObject, setVars
<1>5. /\ objects \cup removed \subseteq objects' \cup removed'
      /\ removed \subseteq removed'
      /\ tables \subseteq tables'
      /\ ops[p].type = "insert" => /\ objects' \cup removed' = objects \cup removed \cup {ops[p].id + next}
                                   /\ removed' = removed /\ tables' = tables /\ next < ops[p].n
      /\ ops[p].type = "delete" => /\ objects' \cup removed' = objects \cup removed
                                   /\ removed' = removed \cup ({ops[p].id} \cap objects)
                                   /\ tables' = tables
      /\ ops[p].type = "create" => /\ objects' = objects /\ removed' = removed
                                   /\ tables' = tables \cup {ops[p].table}
      /\ ops[p].type \in {"create", "insert", "delete"}
  BY <1>1, <1>2, Zenon DEF AddObject, DeleteObject, ObjectsAfterAdd, ObjectsAfterDelete,
                    RemovedAfterDelete, setVars, Transactions
<1>6. SpaceTypes'
  BY <1>3, <1>4 DEF SpaceInv, SpaceTypes
<1>7. Requests'
  BY <1>4, Zenon DEF SpaceInv, Requests
<1>8. Disjointness'
  BY <1>4 DEF SpaceInv, Disjointness, UniqueRows, Inserts, Rows, RowsOf, IsInsert, Pending
<1>9. WriteAhead'
  <2>1. Inserted(entries)' = Inserted(entries) /\ \A q : ops'[q] = ops[q]
    BY <1>4, Zenon DEF Inserted, Inserts, Rows
  <2>2. ops[p].type = "insert" => ops[p].id + next \in Inserted(entries)
    <3>1. ops[p].type = "insert" => ops[p].id + next \in Rows(p)
      BY <1>3, <1>5, OpShape DEF Rows
    <3> QED BY <1>3, <3>1, Zenon DEF Inserted, Inserts
  <2>3. objects' \cup removed' \subseteq Inserted(entries)
    BY <1>5, <2>2, Zenon DEF SpaceInv, WriteAhead
  <2>4. ops[p].type = "create" => ops[p] = CreateOp(ops[p].table)
    BY <1>3, OpShape, Zenon
  <2>5. \A t \in tables' : \E q \in entries : ops[q] = CreateOp(t)
    BY <1>3, <1>5, <2>4, Zenon DEF SpaceInv, WriteAhead
  <2> QED BY <1>4, <2>1, <2>3, <2>5, Zenon DEF WriteAhead
<1>10. DeleteNames'
  <2>1. Deleted(entries)' = Deleted(entries)
    BY <1>4, Zenon DEF Deleted
  <2>2. ops[p].type = "delete" => ops[p].id \in Deleted(entries)
    BY <1>3, OpShape, Zenon DEF Deleted
  <2>3. removed' \subseteq Deleted(entries)
    BY <1>5, <2>2, Zenon DEF SpaceInv, DeleteNames
  <2> QED BY <1>4, <1>5, <2>1, <2>3, Zenon DEF SpaceInv, DeleteNames, Pending
<1>11. Applying'
  <2>1. Stored(p, next)
    <3>1. CASE next = 0
      BY <3>1 DEF Stored
    <3>2. CASE next # 0
      <4>1. PICK q \in todo : (\A r \in todo : q <= r) /\ Stored(q, next)
        BY <3>2, Zenon DEF SpaceInv, Applying
      <4>2. q = p
        BY <1>2, <1>3, <4>1 DEF LogInv, LogTypeOK
      <4> QED BY <4>1, <4>2, Zenon
    <3> QED BY <3>1, <3>2, Zenon
  <2>2. Stored(p, next)'
    <3>1. ops[p].type = "insert" =>
            \A i \in Nat : i < next + 1 => ops[p].id + i \in objects' \cup removed'
      BY <1>3, <1>5, <2>1 DEF Stored
    <3>2. ops[p].type = "delete" => ops[p].id \in removed'
      BY <1>3, <1>5, Zenon DEF SpaceInv, DeleteNames
    <3>3. ops[p].type = "create" => ops[p].table \in tables'
      BY <1>5, Zenon
    <3> QED BY <1>4, <3>1, <3>2, <3>3, Zenon DEF Stored
  <2> QED BY <1>2, <1>4, <2>2, Zenon DEF Applying
<1>12. Kept'
  BY <1>4, <1>5, Zenon DEF SpaceInv, Kept, Rows
<1> QED BY <1>6, <1>7, <1>8, <1>9, <1>10, <1>11, <1>12, Zenon DEF SpaceInv

\* An operation is counted as applied: after its last transaction, or by an insert
\* whose row storage did not open.
LEMMA DoneSpaceInv ==
  ASSUME SpaceInv, LogInv, JobDone \/ JobOpenFail
  PROVE  SpaceInv'
<1> USE DEF trlogVars, logVars, jobVars, boundVars, clientVars
<1>1. /\ UNCHANGED <<entries, puts, txn, top, ops, cpc, cop, tables, setVars>>
      /\ next' = 0 /\ openFails' \in Nat
  BY DEF JobDone, JobOpenFail, ApplyOp, ApplyOpFail, SpaceInv, SpaceTypes
<1>2. PICK p \in todo : /\ \A q \in todo : p <= q
                        /\ done' = done \/ done' = done \cup {p}
                        /\ done' # done =>
                             \/ next = Transactions(ops[p]) /\ openFails' = openFails
                             \/ openFails' # 0 /\ ops[p].type = "insert"
  <2>1. CASE JobDone
    <3>1. PICK op \in Ops : IsCurrent(op) /\ next = Transactions(op)
      BY <2>1, Zenon DEF JobDone
    <3>2. PICK p \in todo : (\A q \in todo : p <= q) /\ op = ops[p]
      BY <3>1, Zenon DEF IsCurrent
    <3>3. PICK r \in todo : (\A q \in todo : r <= q) /\ done' = done \cup {r}
      BY <2>1, Zenon DEF JobDone, ApplyOp
    <3>4. p = r
      BY <3>2, <3>3 DEF LogInv, LogTypeOK
    <3> QED BY <2>1, <3>1, <3>2, <3>3, <3>4, Zenon DEF JobDone
  <2>2. CASE JobOpenFail
    <3>1. PICK op \in Ops : /\ IsCurrent(op)
                            /\ \/ op.type = "insert" /\ ApplyOp
                               \/ op.type = "delete" /\ ApplyOpFail
      BY <2>2, Zenon DEF JobOpenFail
    <3>2. PICK p \in todo : (\A q \in todo : p <= q) /\ op = ops[p]
      BY <3>1, Zenon DEF IsCurrent
    <3>3. openFails' # 0
      BY <2>2 DEF JobOpenFail, SpaceInv, SpaceTypes
    <3>4. CASE op.type = "delete" /\ ApplyOpFail
      BY <3>2, <3>4, Zenon DEF ApplyOpFail
    <3>5. CASE op.type = "insert" /\ ApplyOp
      <4>1. PICK r \in todo : (\A q \in todo : r <= q) /\ done' = done \cup {r}
        BY <3>5, Zenon DEF ApplyOp
      <4>2. p = r
        BY <3>2, <4>1 DEF LogInv, LogTypeOK
      <4> QED BY <3>2, <3>3, <3>5, <4>1, <4>2, Zenon
    <3> QED BY <3>1, <3>4, <3>5, Zenon
  <2> QED BY <2>1, <2>2, Zenon
<1>3. p \in entries /\ ops[p] \in AnyOp /\ todo \subseteq Nat
  <2>1. job = "ops"
    BY Zenon DEF JobDone, JobOpenFail, IsCurrent
  <2> QED BY <1>2, <2>1, Zenon DEF LogInv, LogTypeOK, JobInv, SpaceInv, SpaceTypes
<1>4. SpaceTypes'
  BY <1>1, Zenon DEF SpaceInv, SpaceTypes, setVars
<1>5. Requests'
  BY <1>1, Zenon DEF SpaceInv, Requests
<1>6. Disjointness'
  BY <1>1, Zenon
     DEF SpaceInv, Disjointness, UniqueRows, Inserts, Rows, RowsOf, IsInsert, Pending,
         setVars
<1>7. WriteAhead'
  BY <1>1 DEF SpaceInv, WriteAhead, Inserted, Inserts, Rows, setVars
<1>8. next = Transactions(ops[p]) => Stored(p, next)
  <2>1. CASE next = 0
    BY <2>1 DEF Stored
  <2>2. CASE next # 0
    <3>1. PICK q \in todo : (\A r \in todo : q <= r) /\ Stored(q, next)
      BY <2>2, Zenon DEF SpaceInv, Applying
    <3>2. q \in Nat /\ p \in Nat /\ q <= p /\ p <= q
      BY <1>2, <1>3, <3>1, Zenon
    <3>3. q = p
      BY <3>2
    <3> QED BY <3>1, <3>3, Zenon
  <2> QED BY <2>1, <2>2, Zenon
<1>9. DeleteNames'
  <2>1. next = Transactions(ops[p]) /\ ops[p].type = "delete" => ops[p].id \in removed
    BY <1>8 DEF Stored, Transactions
  <2> QED BY <1>1, <1>2, <2>1, Zenon DEF SpaceInv, DeleteNames, Pending, Deleted, setVars
<1>10. Kept'
  <2>1. next = Transactions(ops[p]) /\ ops[p].type = "insert" => Rows(p) \subseteq objects \cup removed
    <3> SUFFICES ASSUME next = Transactions(ops[p]), ops[p].type = "insert", NEW r \in Rows(p)
                 PROVE  r \in objects \cup removed
      BY Zenon
    <3>1. ops[p].id \in Nat /\ ops[p].n \in Nat /\ next = ops[p].n
      BY <1>3, OpShape, Zenon DEF Transactions
    <3>2. r - ops[p].id \in Nat /\ r - ops[p].id < next /\ ops[p].id + (r - ops[p].id) = r
      BY <3>1 DEF Rows
    <3> QED BY <1>8, <3>2, Zenon DEF Stored
  <2>2. next = Transactions(ops[p]) /\ ops[p].type = "create" => ops[p].table \in tables
    BY <1>8 DEF Stored, Transactions
  <2>3. openFails' = 0 => openFails = 0
    BY DEF JobDone, JobOpenFail, SpaceInv, SpaceTypes
  <2> QED BY <1>1, <1>2, <2>1, <2>2, <2>3, Zenon DEF SpaceInv, Kept, Rows, setVars
<1>11. Applying'
  BY <1>1, Zenon DEF Applying
<1> QED BY <1>4, <1>5, <1>6, <1>7, <1>9, <1>10, <1>11, Zenon DEF SpaceInv

-----------------------------------------------------------------------------
\* Every step of the tablespace keeps its invariant.
LEMMA NextSpaceInv ==
  SpaceInv /\ LogInv /\ SetInv /\ [Next]_vars => SpaceInv'
<1> SUFFICES ASSUME SpaceInv, LogInv, SetInv, [Next]_vars PROVE SpaceInv'
  BY Zenon
<1>1. ASSUME NEW c \in Clients,
             \/ \E n \in Ranges : Reserve(c, n)
             \/ \E r \in 0 .. MaxId - 1 : BeginDelete(c, r)
             \/ \E t \in Tables : BeginCreate(c, t)
             \/ ClientStep(c) \/ AppendFail(c)
      PROVE  SpaceInv'
  BY <1>1, ClientSpaceInv, ReservedSpaceInv, AppendSpaceInv, CommitSpaceInv, Zenon
     DEF ClientStep
<1>2. CASE JobStep \/ JobFail \/ JobOpenFail \/ Restart \/ UNCHANGED vars
  BY <1>2, JobSpaceInv, TransactionSpaceInv, DoneSpaceInv, Zenon DEF JobStep
<1> QED BY <1>1, <1>2, Zenon DEF Next

\* The invariants of the log, of the row storage and of their composition.
LEMMA NodeInvariant == Spec => [](LogInv /\ SetInv /\ SpaceInv)
<1>1. Init => LogInv /\ SetInv /\ SpaceInv
  BY InitLogInv, InitSetInv, InitSpaceInv, Zenon DEF Init
<1>2. LogInv /\ SetInv /\ SpaceInv /\ [Next]_vars => LogInv' /\ SetInv' /\ SpaceInv'
  <2>1. LogInv /\ [LogNext]_trlogVars => LogInv'
    BY NextLogInv, Zenon
  <2>2. SetInv /\ [SetNext]_setVars => SetInv'
    BY NextSetInv, Zenon
  <2> QED BY <2>1, <2>2, LogStep, SetStep, NextSpaceInv, Zenon
<1> QED BY <1>1, <1>2, PTL DEF Spec

\* The log inside the tablespace behaves as the component TrLog: clients and the
\* committer's job use it by its operations only (mdv_tablespace.c).
THEOREM NodeImplementsLog == Spec => LogSpec
<1>1. Init => LogInit
  BY Zenon DEF Init
<1> QED BY <1>1, LogStep, PTL DEF Spec, LogSpec

\* The rows inside the tablespace behave as the component TwoPSet: clients hold
\* its generator and the job adds and deletes its objects by its operations only.
THEOREM NodeImplementsRows == Spec => SetSpec
<1>1. Init => SetInit
  BY Zenon DEF Init
<1> QED BY <1>1, SetStep, NodeInvariant, PTL DEF Spec, SetSpec

\* No row and no table is stored before the operation that creates it is durable
\* in the log (mdv_tablespace_log_rowset, mdv_tablespace_log_create_table).
THEOREM NodeWriteAhead == Spec => []WriteAhead
<1>1. SpaceInv => WriteAhead
  BY Zenon DEF SpaceInv
<1> QED BY <1>1, NodeInvariant, PTL

\* No two rowsets of the log share a row identifier (mdv_2pset_reserve_ids_range
\* under racing inserts, failed commits and restarts).
THEOREM NodeUniqueRows == Spec => []UniqueRows
<1>1. SpaceInv => UniqueRows
  BY Zenon DEF SpaceInv, Disjointness
<1> QED BY <1>1, NodeInvariant, PTL

\* A row whose delete was applied is never visible again, whatever a restart
\* replays (mdv_2pset_add and mdv_2pset_delete under mdv_trlog_apply).
THEOREM NodeDeletesStick == Spec => []DeletesStick
<1>1. ASSUME SpaceInv, SetInv PROVE DeletesStick
  <2>1. Deleted(done) \subseteq removed
    BY <1>1, OpMade DEF Deleted, SpaceInv, DeleteNames
  <2> QED BY <1>1, <2>1, Zenon DEF DeletesStick, SetInv, Disjoint
<1> QED BY <1>1, NodeInvariant, PTL

\* No restart and no failed transaction drops a row or a table that was applied, as
\* long as row storages open (mdv_tablespace_trlog_apply, mdv_trlog_apply).
THEOREM NodeInsertsStick == Spec => []InsertsStick
<1>1. ASSUME SpaceInv PROVE InsertsStick
  <2> SUFFICES ASSUME openFails = 0 PROVE AppliedIsVisible
    BY Zenon DEF InsertsStick
  <2>1. Inserted(done) \subseteq objects \cup removed
    BY <1>1, Zenon DEF Inserted, Inserts, SpaceInv, Kept
  <2>2. removed \subseteq Deleted(entries)
    BY <1>1, Zenon DEF SpaceInv, DeleteNames
  <2>3. \A p \in done : ops[p].type = "create" => ops[p].table \in tables
    BY <1>1, Zenon DEF SpaceInv, Kept
  <2> QED BY <2>1, <2>2, <2>3, Zenon DEF AppliedIsVisible
<1> QED BY <1>1, NodeInvariant, PTL
=============================================================================
