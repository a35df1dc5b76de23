----------------------------- MODULE Tablespace -----------------------------
(***************************************************************************)
(* The storage of one node (mdv_core/storage/mdv_tablespace.c): its own    *)
(* transaction log, the rows of a table and the table descriptions.        *)
(* Clients create tables, insert rowsets and delete rows.  Each request    *)
(* appends one operation to the log and is answered; a committer job       *)
(* applies the operations later, one storage transaction at a time.  The   *)
(* process may stop between any two steps.                                 *)
(*                                                                         *)
(* The log is the component TrLog, the rows are the component TwoPSet: the *)
(* actions below are theirs, joined.  When a job runs is reduced to a flag *)
(* here; Committer models it.                                              *)
(***************************************************************************)
EXTENDS TrLog, TwoPSet

CONSTANTS Clients,      \* threads that serve clients
          Tables,       \* table identifiers
          MaxFail,      \* bound on storage transactions that fail
          MaxOpenFail,  \* bound on row storages that do not open
          MaxRestart    \* bound on restarts

\* The clients' threads use both components, and the rows are keyed by the
\* identifiers that the storage reserves.
ASSUME TablespaceAssumption ==
  /\ Clients \subseteq Writers
  /\ Clients \subseteq Threads
  /\ 0 .. MaxId - 1 \subseteq Ids

VARIABLES
  ops,       \* the operation put at each log position
  tables,    \* descriptions in mdv_tables
  cpc, cop,  \* per client: step of its request, operation of its request
  next,      \* storage transactions done for the operation being applied
  wake,      \* a TRLOG_CHANGED event or a committer job is under way
  fails, openFails, restarts

clientVars == <<cpc, cop>>
boundVars  == <<fails, openFails, restarts>>
vars       == <<trlogVars, setVars, ops, tables, clientVars, next, wake, boundVars>>

\* The payloads of MDV_OP_TABLE_CREATE, MDV_OP_ROW_INSERT and MDV_OP_ROW_DELETE.
NoOp          == [type |-> "none"]
CreateOp(t)   == [type |-> "create", table |-> t]
InsertOp(r,n) == [type |-> "insert", id |-> r, n |-> n]
DeleteOp(r)   == [type |-> "delete", id |-> r]

Ops ==
  {CreateOp(t) : t \in Tables} \cup {DeleteOp(r) : r \in 0 .. MaxId - 1}
    \cup {InsertOp(r, n) : r \in 0 .. MaxId - 1, n \in Ranges}

Init ==
  /\ LogInit /\ own
  /\ SetInit
  /\ ops = [p \in 0 .. MaxTop - 1 |-> NoOp]
  /\ tables = {}
  /\ cpc = [c \in Clients |-> "idle"]
  /\ cop = [c \in Clients |-> NoOp]
  /\ next = 0
  /\ wake = FALSE
  /\ fails = 0 /\ openFails = 0 /\ restarts = 0

-----------------------------------------------------------------------------
(* Requests.                                                               *)

Request(c, op) ==
  /\ cop' = [cop EXCEPT ![c] = op]
  /\ cpc' = [cpc EXCEPT ![c] = "log"]

\* mdv_tablespace_log_rowset: row identifiers are reserved ...
Reserve(c, n) ==
  /\ cpc[c] = "idle"
  /\ ReserveCommit(c, n)
  /\ cpc' = [cpc EXCEPT ![c] = "reserve"]
  /\ UNCHANGED <<trlogVars, ops, tables, cop, next, wake, boundVars>>

\* ... and returned.
Reserved(c) ==
  /\ cpc[c] = "reserve"
  /\ ReserveReturn(c)
  /\ Request(c, InsertOp(idgen, range))
  /\ UNCHANGED <<trlogVars, ops, tables, next, wake, boundVars>>

\* mdv_tablespace_log_delete.  A client names a row that it has read, maybe long
\* ago: a row that is stored, or was.
BeginDelete(c, r) ==
  /\ cpc[c] = "idle"
  /\ r \in objects \cup removed
  /\ Request(c, DeleteOp(r))
  /\ UNCHANGED <<trlogVars, setVars, ops, tables, next, wake, boundVars>>

\* Mutant: the table is registered before it is logged.
BeginCreateMut(c, t) ==
  /\ cpc[c] = "idle"
  /\ \A p \in DOMAIN ops : ops[p] # CreateOp(t)
  /\ \A d \in Clients : cop[d] # CreateOp(t)
  /\ tables' = tables \cup {t}
  /\ Request(c, CreateOp(t))
  /\ UNCHANGED <<trlogVars, setVars, ops, next, wake, boundVars>>

\* mdv_tablespace_log_create_table, with a new identifier.
BeginCreate(c, t) ==
  /\ cpc[c] = "idle"
  /\ \A p \in DOMAIN ops : ops[p] # CreateOp(t)
  /\ \A d \in Clients : cop[d] # CreateOp(t)
  /\ Request(c, CreateOp(t))
  /\ UNCHANGED <<trlogVars, setVars, ops, tables, next, wake, boundVars>>

\* mdv_trlog_add_op puts the operation ...
AppendOp(c) ==
  /\ cpc[c] = "log"
  /\ AddOp(c)
  /\ ops' = [ops EXCEPT ![top] = cop[c]]
  /\ cpc' = [cpc EXCEPT ![c] = "commit"]
  /\ UNCHANGED <<setVars, tables, cop, next, wake, boundVars>>

\* ... commits it and announces the change.  The client is answered, unless the
\* table is still to be registered.
AppendCommit(c) ==
  /\ cpc[c] = "commit"
  /\ Commit(c)
  /\ wake' = TRUE
  /\ cpc' = [cpc EXCEPT ![c] = IF cop[c].type = "create" THEN "register" ELSE "idle"]
  /\ UNCHANGED <<setVars, ops, tables, cop, next, boundVars>>

\* The commit fails and so does the request.
AppendFail(c) ==
  /\ cpc[c] = "commit"
  /\ fails < MaxFail
  /\ CommitFail(c)
  /\ fails' = fails + 1
  /\ cpc' = [cpc EXCEPT ![c] = "idle"]
  /\ UNCHANGED <<setVars, ops, tables, cop, next, wake, openFails, restarts>>

\* The new table is registered at once, beside the committer; a failure is ignored.
Register(c) ==
  /\ cpc[c] = "register"
  /\ \/ /\ tables' = ObjectsAfterAdd(tables, {}, cop[c].table)
        /\ UNCHANGED fails
     \/ /\ fails < MaxFail
        /\ fails' = fails + 1
        /\ UNCHANGED tables
  /\ cpc' = [cpc EXCEPT ![c] = "idle"]
  /\ UNCHANGED <<trlogVars, setVars, ops, cop, next, wake, openFails, restarts>>

-----------------------------------------------------------------------------
(* The committer job: mdv_tablespace_log_apply.                            *)

\* A job calls mdv_trlog_apply if an operation may be left to apply, or ends.
JobLoad ==
  /\ wake
  /\ ApplyLoad
  /\ UNCHANGED <<setVars, ops, tables, clientVars, next, wake, boundVars>>

JobEnd ==
  /\ wake
  /\ job = "idle"
  /\ applied >= top
  /\ wake' = FALSE
  /\ UNCHANGED <<trlogVars, setVars, ops, tables, clientVars, next, boundVars>>

\* A batch is read; the job ends if there is none.
JobRead ==
  /\ ApplyRead
  /\ wake' = (todo' # {} /\ wake)
  /\ UNCHANGED <<setVars, ops, tables, clientVars, next, boundVars>>

\* The operation that mdv_tablespace_trlog_apply is called with.
IsCurrent(op) ==
  /\ job = "ops"
  /\ \E p \in todo : (\A q \in todo : p <= q) /\ op = ops[p]

\* Mutant: the first row only.
TransactionsMut(op) == 1

\* Storage transactions of an operation: mdv_rowdata_add_raw_rowset adds each row
\* in a transaction of its own.
Transactions(op) == IF op.type = "insert" THEN op.n ELSE 1

JobTransaction ==
  /\ \E op \in Ops :
       /\ IsCurrent(op)
       /\ next < Transactions(op)
       /\ \/ /\ op.type = "create"
             /\ tables' = ObjectsAfterAdd(tables, {}, op.table)
             /\ UNCHANGED setVars
          \/ op.type = "insert" /\ AddObject(op.id + next) /\ UNCHANGED tables
          \/ op.type = "delete" /\ DeleteObject(op.id) /\ UNCHANGED tables
  /\ next' = next + 1
  /\ UNCHANGED <<trlogVars, ops, clientVars, wake, boundVars>>

\* The callback returns true.
JobDone ==
  /\ \E op \in Ops : IsCurrent(op) /\ next = Transactions(op)
  /\ ApplyOp
  /\ next' = 0
  /\ UNCHANGED <<setVars, ops, tables, clientVars, wake, boundVars>>

\* A transaction fails and the callback returns false: the rest of the batch is
\* dropped.  The job ends after it, unless another request came in meanwhile.
JobFail ==
  /\ \E op \in Ops : IsCurrent(op) /\ next < Transactions(op)
  /\ fails < MaxFail
  /\ fails' = fails + 1
  /\ ApplyOpFail
  /\ next' = 0
  /\ wake' \in BOOLEAN
  /\ UNCHANGED <<setVars, ops, tables, clientVars, openFails, restarts>>

\* The row storage does not open: an insert still returns true, a delete false.
JobOpenFail ==
  /\ next = 0
  /\ openFails < MaxOpenFail
  /\ openFails' = openFails + 1
  /\ \E op \in Ops :
       /\ IsCurrent(op)
       /\ \/ op.type = "insert" /\ ApplyOp /\ UNCHANGED wake
          \/ op.type = "delete" /\ ApplyOpFail /\ wake' \in BOOLEAN
  /\ UNCHANGED <<setVars, ops, tables, clientVars, next, fails, restarts>>

JobStore ==
  /\ ApplyStore
  /\ UNCHANGED <<setVars, ops, tables, clientVars, next, wake, boundVars>>

JobSave ==
  /\ ApplySave
  /\ UNCHANGED <<setVars, ops, tables, clientVars, next, wake, boundVars>>

-----------------------------------------------------------------------------
\* The process stops and mdv_tablespace_open opens the storages again.  The logs
\* are opened by the first request that needs them, and no event is published.
Restart ==
  /\ restarts < MaxRestart
  /\ restarts' = restarts + 1
  /\ ReopenLog
  /\ ReopenSet
  /\ cpc' = [c \in Clients |-> "idle"]
  /\ cop' = [c \in Clients |-> NoOp]
  /\ next' = 0
  /\ wake' = FALSE
  /\ UNCHANGED <<ops, tables, fails, openFails>>

ClientStep(c) == Reserved(c) \/ AppendOp(c) \/ AppendCommit(c) \/ Register(c)
JobStep ==
  \/ JobLoad \/ JobEnd \/ JobRead \/ JobTransaction \/ JobDone
  \/ JobStore \/ JobSave

Next ==
  /\ \/ \E c \in Clients :
          \/ \E n \in Ranges : Reserve(c, n)
          \/ \E r \in 0 .. MaxId - 1 : BeginDelete(c, r)
          \/ \E t \in Tables : BeginCreate(c, t)
          \/ ClientStep(c) \/ AppendFail(c)
     \/ JobStep \/ JobFail \/ JobOpenFail
     \/ Restart
  /\ UNCHANGED own

\* The threads that serve requests finish them, and the committer's job, once
\* requested, runs: see Committer.
Fairness ==
  /\ \A c \in Clients : WF_vars(ClientStep(c) /\ UNCHANGED own)
  /\ WF_vars(JobStep /\ UNCHANGED own)

Spec     == Init /\ [][Next]_vars
FairSpec == Spec /\ Fairness

-----------------------------------------------------------------------------
\* The types of the state.
TypeOK ==
  /\ LogTypeOK
  /\ SetTypeOK
  /\ ops \in [0 .. MaxTop - 1 -> Ops \cup {NoOp}]
  /\ tables \subseteq Tables
  /\ cpc \in [Clients -> {"idle", "reserve", "log", "commit", "register"}]
  /\ cop \in [Clients -> Ops \cup {NoOp}]
  /\ next \in Nat
  /\ wake \in BOOLEAN

\* Rows that the operations at positions P insert, and rows that they delete.
Inserts(P)  == {p \in P : ops[p].type = "insert"}
Rows(p)     == ops[p].id .. ops[p].id + ops[p].n - 1
Inserted(P) == UNION {Rows(p) : p \in Inserts(P)}
Deleted(P)  == {r \in 0 .. MaxId - 1 : \E p \in P : ops[p] = DeleteOp(r)}

\* No row and no table is stored before the operation that creates it is durable
\* in the log, although tables are registered by two threads.
WriteAhead ==
  /\ objects \cup removed \subseteq Inserted(entries)
  /\ \A t \in tables : \E p \in entries : ops[p] = CreateOp(t)

\* No two rowsets of the log share a row identifier: reservations that race, that
\* are followed by failed commits or by a restart, never give one out twice.
UniqueRows ==
  \A p, q \in Inserts(entries) : p # q => Rows(p) \cap Rows(q) = {}

\* A row whose delete was applied is never visible again, although a restart
\* replays the operations since the last saved position, its insert included.
DeletesStick == Deleted(done) \cap objects = {}

\* The rows of an applied insert are visible unless a client deleted them, and an
\* applied table exists.
AppliedIsVisible ==
  /\ Inserted(done) \subseteq objects \cup Deleted(entries)
  /\ \A p \in done : ops[p].type = "create" => ops[p].table \in tables

\* No restart and no failed transaction drops a row or a table that was applied, as
\* long as row storages open.
InsertsStick == openFails = 0 => AppliedIsVisible

\* An operation that is durable in the log is eventually applied.
EventuallyApplied == \A p \in 0 .. MaxTop - 1 : p \in entries ~> p \in done
=============================================================================
