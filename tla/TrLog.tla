------------------------------- MODULE TrLog -------------------------------
(***************************************************************************)
(* One transaction log of a node (mdv_core/storage/mdv_trlog.c): the LMDB  *)
(* maps TRLOG and APPLIED, and the positions top and applied in memory.    *)
(* An operation is identified by its position, because a position is given *)
(* to one operation only and mdv_map_put_unique never overwrites.          *)
(*                                                                         *)
(* A node's own log grows with mdv_trlog_add_op, called by the threads that *)
(* serve clients.  The log of another node grows with mdv_trlog_add, called *)
(* with the ranges that peers send.  One committer job at a time applies a *)
(* log (see Committer), in steps that interleave with the writers and with *)
(* a restart of the process.                                               *)
(***************************************************************************)
EXTENDS Integers, FiniteSets, FiniteSetsExt

CONSTANTS Writers,    \* threads that append
          BatchSize,  \* MDV_CONFIG.committer.batch_size
          MaxTop      \* bound on positions, for model checking

ASSUME TrLogAssumption == BatchSize \in Nat \ {0} /\ MaxTop \in Nat

VARIABLES
  own,          \* whether it is the node's own log or that of another node
  entries,      \* keys of the TRLOG map
  appliedDisk,  \* position stored in the APPLIED map
  top,          \* trlog->top, read by others without a transaction
  applied,      \* trlog->applied
  txn,          \* holder of the write transaction: a set of at most one writer
  puts,         \* keys put by that transaction, not committed yet
  job,          \* the step at which mdv_trlog_apply is
  from,         \* its applied_pos
  todo,         \* keys of the batch that it has not applied yet
  newpos,       \* its new_applied_pos
  done          \* history: positions whose operation the callback applied

logVars == <<entries, top, txn, puts>>
jobVars == <<job, from, todo, newpos>>
trlogVars    == <<own, logVars, jobVars, appliedDisk, applied, done>>

Steps == {"idle", "read", "ops", "save"}

\* mdv_trlog_read: the BatchSize smallest keys from position pos on.
IsBatch(batch, pos) ==
  LET rest == {p \in entries : p >= pos} IN
  /\ batch \subseteq rest
  /\ \A p \in batch, q \in rest \ batch : p < q
  /\ Cardinality(batch) <= BatchSize
  /\ batch # rest => Cardinality(batch) = BatchSize

\* Mutant: top is the last key, not the position after it.
LastPlusOneMut(keys) == IF keys = {} THEN 0 ELSE Max(keys)

\* The top that mdv_trlog_init reads from the last key.
LastPlusOne(keys) == IF keys = {} THEN 0 ELSE Max(keys) + 1

-----------------------------------------------------------------------------
LogInit ==
  /\ own \in BOOLEAN
  /\ entries = {} /\ appliedDisk = 0
  /\ top = 0 /\ applied = 0
  /\ txn = {} /\ puts = {}
  /\ job = "idle" /\ from = 0 /\ todo = {} /\ newpos = 0
  /\ done = {}

\* mdv_trlog_add_op up to the commit: the position is taken inside the
\* transaction, and a key that exists would abort it.
AddOp(w) ==
  /\ own
  /\ txn = {}
  /\ top < MaxTop
  /\ txn' = {w}
  /\ puts' = {top} \ entries
  /\ top' = top + 1
  /\ UNCHANGED <<entries, jobVars, appliedDisk, applied, done>>

\* mdv_trlog_add up to the commit, for the operations lo .. hi - 1: the keys that
\* are new are put and top is maximized.
AddRange(w, lo, hi) ==
  /\ ~own
  /\ txn = {}
  /\ txn' = {w}
  /\ puts' = (lo .. hi - 1) \ entries
  /\ top' = Max({top} \cup {p + 1 : p \in puts'})
  /\ UNCHANGED <<entries, jobVars, appliedDisk, applied, done>>

Commit(w) ==
  /\ txn = {w}
  /\ entries' = entries \cup puts
  /\ txn' = {} /\ puts' = {}
  /\ UNCHANGED <<top, jobVars, appliedDisk, applied, done>>

\* mdv_transaction_commit fails: nothing is stored, but top has moved.
CommitFail(w) ==
  /\ txn = {w}
  /\ txn' = {} /\ puts' = {}
  /\ UNCHANGED <<entries, top, jobVars, appliedDisk, applied, done>>

-----------------------------------------------------------------------------
\* mdv_trlog_apply: the positions are loaded, and nothing is done if applied
\* has reached top.
ApplyLoad ==
  /\ job = "idle"
  /\ applied < top
  /\ job' = "read"
  /\ from' = applied
  /\ UNCHANGED <<logVars, todo, newpos, appliedDisk, applied, done>>

\* The batch is read in a transaction of its own.
ApplyRead ==
  /\ job = "read"
  /\ txn = {}
  /\ \E batch \in SUBSET entries :
       /\ IsBatch(batch, from)
       /\ todo' = batch
       /\ job' = IF batch = {} THEN "idle" ELSE "ops"
  /\ newpos' = from
  /\ UNCHANGED <<logVars, from, appliedDisk, applied, done>>

\* The callback applies the next operation of the batch.
ApplyOp ==
  /\ job = "ops"
  /\ \E p \in todo :
       /\ \A q \in todo : p <= q
       /\ done' = done \cup {p}
       /\ newpos' = p + 1
       /\ todo' = todo \ {p}
  /\ UNCHANGED <<logVars, job, from, appliedDisk, applied>>

\* Mutant: the failed operation is skipped and the batch goes on.
ApplyOpFailMut ==
  /\ job = "ops"
  /\ \E p \in todo :
       /\ \A q \in todo : p <= q
       /\ newpos' = p + 1
       /\ todo' = todo \ {p}
  /\ UNCHANGED <<logVars, job, from, appliedDisk, applied, done>>

\* The callback fails: the rest of the batch is dropped.
ApplyOpFail ==
  /\ job = "ops"
  /\ todo # {}
  /\ todo' = {}
  /\ UNCHANGED <<logVars, job, from, newpos, appliedDisk, applied, done>>

\* mdv_trlog_applied_pos_set, first part: the position in memory, if any
\* operation was applied.
ApplyStore ==
  /\ job = "ops"
  /\ todo = {}
  /\ job' = IF newpos > from THEN "save" ELSE "idle"
  /\ applied' = newpos
  /\ UNCHANGED <<logVars, from, todo, newpos, appliedDisk, done>>

\* Second part: the position on disk, in a transaction that may fail.
ApplySave ==
  /\ job = "save"
  /\ txn = {}
  /\ job' = "idle"
  /\ appliedDisk' \in {appliedDisk, newpos}
  /\ UNCHANGED <<logVars, from, todo, newpos, applied, done>>

-----------------------------------------------------------------------------
\* The process stops at any point and opens the log again: mdv_trlog_init.
ReopenLog ==
  /\ top' = LastPlusOne(entries)
  /\ applied' = appliedDisk
  /\ txn' = {} /\ puts' = {}
  /\ job' = "idle" /\ from' = 0 /\ todo' = {} /\ newpos' = 0
  /\ UNCHANGED <<entries, appliedDisk, done>>

LogNext ==
  /\ \/ \E w \in Writers :
          \/ AddOp(w) \/ Commit(w) \/ CommitFail(w)
          \/ \E lo, hi \in 0 .. MaxTop : lo < hi /\ AddRange(w, lo, hi)
     \/ ApplyLoad \/ ApplyRead \/ ApplyOp \/ ApplyOpFail \/ ApplyStore \/ ApplySave
     \/ ReopenLog
  /\ UNCHANGED own

LogSpec == LogInit /\ [][LogNext]_trlogVars

-----------------------------------------------------------------------------
LogTypeOK ==
  /\ own \in BOOLEAN
  /\ entries \subseteq Nat /\ puts \subseteq Nat /\ todo \subseteq Nat /\ done \subseteq Nat
  /\ top \in Nat /\ applied \in Nat /\ appliedDisk \in Nat
  /\ from \in Nat /\ newpos \in Nat
  /\ job \in Steps
  /\ txn = {} \/ \E w \in Writers : txn = {w}

\* mdv_map_put_unique in mdv_trlog_add_op never meets an existing key: every key,
\* stored or about to be, is below top, also after failed commits and restarts.
TopIsFree == \A p \in entries \cup puts : p < top

\* The applied position never passes the last stored operation, in memory or on
\* disk: a top that moved for a commit that failed is never applied over, and a
\* restart, which lowers top to the last key, never leaves it below applied.
AppliedIsStored ==
  /\ appliedDisk <= applied
  /\ applied <= LastPlusOne(entries)

\* Every operation of a node's own log below the applied position has been applied: the
\* committer never steps over an operation that another thread is still writing.
\* mdv_trlog_add_op is what makes it hold: the position is taken inside the
\* exclusive transaction, so positions are committed in their order.
NothingSkipped == own => \A p \in entries : p < applied => p \in done

\* Only operations that were committed are ever applied.
OnlyCommittedApplied == done \subseteq entries

\* The position on disk never moves back, so a restart never re-applies more
\* than what follows the last position that was saved.
AppliedDiskForward == [][appliedDisk' >= appliedDisk]_trlogVars
=============================================================================
