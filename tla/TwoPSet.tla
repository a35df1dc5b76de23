------------------------------ MODULE TwoPSet ------------------------------
(***************************************************************************)
(* One object storage of a node (mdv_storage/mdv_2pset.c): the LMDB maps   *)
(* OBJECTS, REMOVED and IDGEN, and the identifiers generator in memory.    *)
(* Every operation on the maps runs in one LMDB write transaction.  LMDB   *)
(* admits one write transaction at a time, so an operation that commits is *)
(* one step; one that fails aborts and changes nothing, which is a         *)
(* stuttering step.  The reservation of identifiers is two steps, because  *)
(* the generator in memory is advanced after the commit.                   *)
(***************************************************************************)
EXTENDS Integers, TwoPMaps

CONSTANTS Ids,       \* object identifiers
          Threads,   \* threads that reserve identifiers
          Ranges,    \* lengths of the reserved ranges
          MaxId      \* bound on the generator, for model checking

ASSUME TwoPSetAssumption == /\ Ranges \subseteq Nat \ {0}
                            /\ MaxId \in Nat

VARIABLES
  objects,    \* keys of the OBJECTS map
  removed,    \* keys of the REMOVED map: the tombstones
  idgenDisk,  \* value stored in the IDGEN map
  idgen,      \* objs->idgen, first free identifier in memory
  mutex,      \* holder of idgen_mutex: a set with at most one thread
  range,      \* length of the range that the holder reserves
  handed      \* history: identifiers returned to callers

setVars == <<objects, removed, idgenDisk, idgen, mutex, range, handed>>

-----------------------------------------------------------------------------
SetInit ==
  /\ objects = {}
  /\ removed = {}
  /\ idgenDisk = 0
  /\ idgen = 0
  /\ mutex = {}
  /\ range = 0
  /\ handed = {}

AddObject(id) ==
  /\ objects' = ObjectsAfterAdd(objects, removed, id)
  /\ UNCHANGED <<removed, idgenDisk, idgen, mutex, range, handed>>

DeleteObject(id) ==
  /\ objects' = ObjectsAfterDelete(objects, id)
  /\ removed' = RemovedAfterDelete(objects, removed, id)
  /\ UNCHANGED <<idgenDisk, idgen, mutex, range, handed>>

\* Mutant: the old value of the generator is stored.
ReserveCommitMut(t, n) ==
  /\ mutex = {}
  /\ idgen + n <= MaxId
  /\ mutex' = {t}
  /\ range' = n
  /\ idgenDisk' = idgen
  /\ UNCHANGED <<objects, removed, idgen, handed>>

\* mdv_2pset_reserve_ids_range up to the commit of the new generator value.
ReserveCommit(t, n) ==
  /\ mutex = {}
  /\ idgen + n <= MaxId
  /\ mutex' = {t}
  /\ range' = n
  /\ idgenDisk' = idgen + n
  /\ UNCHANGED <<objects, removed, idgen, handed>>

\* The rest of it: the caller gets the old value, the generator moves on.
ReserveReturn(t) ==
  /\ mutex = {t}
  /\ handed' = handed \cup (idgen .. idgen + range - 1)
  /\ idgen' = idgen + range
  /\ mutex' = {}
  /\ range' = 0
  /\ UNCHANGED <<objects, removed, idgenDisk>>

\* The process stops and reopens the storage: mdv_objects_idgen_init.
ReopenSet ==
  /\ idgen' = idgenDisk
  /\ mutex' = {}
  /\ range' = 0
  /\ UNCHANGED <<objects, removed, idgenDisk, handed>>

SetNext ==
  \/ \E id \in Ids : AddObject(id) \/ DeleteObject(id)
  \/ \E t \in Threads : ReserveReturn(t) \/ \E n \in Ranges : ReserveCommit(t, n)
  \/ ReopenSet

SetSpec == SetInit /\ [][SetNext]_setVars

-----------------------------------------------------------------------------
SetTypeOK ==
  /\ objects \subseteq Ids
  /\ removed \subseteq Ids
  /\ idgenDisk \in Nat
  /\ idgen \in Nat
  /\ range \in Nat
  /\ handed \subseteq Nat
  /\ mutex = {} \/ \E t \in Threads : mutex = {t}

\* An object is never both live and removed: mdv_2pset_delete moves it from
\* OBJECTS to REMOVED in one transaction, and mdv_2pset_add looks at REMOVED.
Disjoint == objects \cap removed = {}

\* Every identifier handed to a caller of mdv_2pset_reserve_ids_range is below
\* the value a restarted process would begin with, whatever it was doing when
\* it stopped.  The next range starts at idgen, so no identifier is handed out
\* twice, across threads and restarts.
HandedIsDurable == \A i \in handed : i < idgenDisk /\ i < idgen

\* "Delete op has priority" (mdv_2pset.c:279): a removed object never becomes
\* live again and its tombstone is never dropped, whatever is added later.
NoResurrection ==
  [][removed \subseteq removed' /\ objects' \cap removed = {}]_setVars

\* The storage implements a two-phase set; the objects ever added are the live
\* ones and the tombstones.
Set2P == INSTANCE TwoPhaseSet WITH added <- objects \cup removed, gone <- removed

\* Every operation of the storage is a step of a two-phase set or no step.
Implements2P == Set2P!Spec
=============================================================================
