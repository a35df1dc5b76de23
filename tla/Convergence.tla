---------------------------- MODULE Convergence ----------------------------
(***************************************************************************)
(* The rows of one table on several servers.  Every server logs its        *)
(* clients' inserts and deletes in its own log and applies the logs of all *)
(* the servers it knows (mdv_core/storage/mdv_tablespace.c).  A row is     *)
(* keyed by {node, id}: the number of its server and the identifier that   *)
(* its server reserved.  The number is the one that the applying server    *)
(* gave to the owner of the log, and 0 is always the server itself.        *)
(*                                                                         *)
(* Each log is applied in order here: Replication and TrLog say when that  *)
(* holds.  A rowset has one row, and an operation is one step: Tablespace  *)
(* has the transactions.                                                   *)
(***************************************************************************)
EXTENDS Integers, Sequences, FiniteSetsExt, TwoPMaps

CONSTANTS Servers,
          MaxOps      \* bound on the operations of all logs

VARIABLES
  met,       \* per server: the other servers it knows, by number
  logs,      \* per server: the operations of its own log
  position,  \* per server and log: operations applied
  rows,      \* per server: OBJECTS of the table's row storage
  graves     \* per server: REMOVED of the table's row storage

serverVars == <<met, logs, position, rows, graves>>

\* mdv_tablespace_storage_id: the number of n on server s, MDV_LOCAL_ID for itself.
Knows(s, n)  == n = s \/ n \in Range(met[s])
Number(s, n) == IF n = s THEN 0 ELSE CHOOSE i \in DOMAIN met[s] : met[s][i] = n

Key(node, id) == [node |-> node, id |-> id]
RowInsert(id)  == [type |-> "insert", row |-> Key(0, id)]
RowDelete(key) == [type |-> "delete", row |-> key]

ServersInit ==
  /\ met = [s \in Servers |-> << >>]
  /\ logs = [s \in Servers |-> << >>]
  /\ position = [s \in Servers |-> [n \in Servers |-> 0]]
  /\ rows = [s \in Servers |-> {}]
  /\ graves = [s \in Servers |-> {}]

-----------------------------------------------------------------------------
\* A server gets its number and mdv_tablespace_evt_topology stores it.
Meet(s, n) ==
  /\ ~Knows(s, n)
  /\ met' = [met EXCEPT ![s] = Append(@, n)]
  /\ UNCHANGED <<logs, position, rows, graves>>

LogRow(s, op) ==
  /\ MapThenSumSet(LAMBDA n : Len(logs[n]), Servers) < MaxOps
  /\ logs' = [logs EXCEPT ![s] = Append(@, op)]
  /\ UNCHANGED <<met, position, rows, graves>>

InsertsOf(s, k) == {i \in 1 .. k : logs[s][i].type = "insert"}

\* mdv_tablespace_log_rowset: the next row identifier of the server.
InsertRow(s) == LogRow(s, RowInsert(Cardinality(InsertsOf(s, Len(logs[s])))))

\* mdv_tablespace_log_delete: a client of s names a row that it read on s.
DeleteRow(s, key) ==
  /\ key \in rows[s] \cup graves[s]
  /\ LogRow(s, RowDelete(key))

\* Mutant: every row is stored as one of the applying server.
RowKeyMut(s, n, op) == op.row

\* mdv_tablespace_trlog_apply: an insert is stored under the number of the log's
\* owner; a delete carries the key as its server wrote it.
RowKey(s, n, op) ==
  IF op.type = "insert" THEN Key(Number(s, n), op.row.id) ELSE op.row

ApplyRow(s, n) ==
  /\ Knows(s, n)
  /\ position[s][n] < Len(logs[n])
  /\ LET op  == logs[n][position[s][n] + 1]
         key == RowKey(s, n, op)
     IN  \/ /\ op.type = "insert"
            /\ rows' = [rows EXCEPT ![s] = ObjectsAfterAdd(@, graves[s], key)]
            /\ UNCHANGED graves
         \/ /\ op.type = "delete"
            /\ rows' = [rows EXCEPT ![s] = ObjectsAfterDelete(@, key)]
            /\ graves' = [graves EXCEPT ![s] = RemovedAfterDelete(rows[s], @, key)]
  /\ position' = [position EXCEPT ![s][n] = @ + 1]
  /\ UNCHANGED <<met, logs>>

ServersNext ==
  \E s \in Servers :
    \/ InsertRow(s)
    \/ \E key \in rows[s] \cup graves[s] : DeleteRow(s, key)
    \/ \E n \in Servers : Meet(s, n) \/ ApplyRow(s, n)

ServersSpec == ServersInit /\ [][ServersNext]_serverVars

-----------------------------------------------------------------------------
(* A row is named for a reader by its server and its identifier.           *)

Owner(s, number) == IF number = 0 THEN s ELSE met[s][number]
Name(s, key)     == <<Owner(s, key.node), key.id>>

Visible(s) == {Name(s, key) : key \in rows[s]}

\* Rows inserted by the operations that s has applied.
Arrived(s) ==
  UNION {{<<n, logs[n][i].row.id>> : i \in InsertsOf(n, position[s][n])} : n \in Servers}

\* Keys that the deletes applied by s carry, and the rows that they name on s.
DeletedKeys(s) ==
  UNION {{logs[n][i].row : i \in (1 .. position[s][n]) \ InsertsOf(n, position[s][n])} :
           n \in Servers}
Named(s) == {Name(s, key) : key \in {k \in DeletedKeys(s) : k.node <= Len(met[s])}}

\* A server shows the rows whose inserts reached it, whatever the order in which it
\* met the servers and applied their logs: rows of two servers never take each
\* other's place, no row is lost unless a delete that it applied carries its key.
\* Servers that applied the same inserts and no delete therefore show the same rows.
OnlyNamedRowsGo ==
  \A s \in Servers : Arrived(s) \ Named(s) \subseteq Visible(s) /\ Visible(s) \subseteq Arrived(s)

\* "Eventual consistency" (README.md:12): servers that have applied the whole of
\* every log show the same rows.
Converged ==
  (\A s, n \in Servers : position[s][n] = Len(logs[n]))
    => \A s, t \in Servers : Visible(s) = Visible(t)
=============================================================================
