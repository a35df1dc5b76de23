----------------------------- MODULE ApplyProofs -----------------------------
(***************************************************************************)
(* Proofs about the application of the transaction logs: which thread      *)
(* applies which log (Committer), for every set of logs, every number of   *)
(* workers of the bus and of the jobber and every batch size; and what the *)
(* rows of a table become on the servers that apply them (Convergence),    *)
(* for every set of servers, every order in which they meet and every      *)
(* number of operations.                                                   *)
(***************************************************************************)
EXTENDS Committer, Convergence, TLAPS

-----------------------------------------------------------------------------
(* The rows of a table on several servers.                                 *)

ServerTypes ==
  /\ met \in [Servers -> Seq(Servers)]
  /\ \E S : logs \in [Servers -> Seq(S)]
  /\ position \in [Servers -> [Servers -> Nat]]
  /\ \A s, n \in Servers : position[s][n] <= Len(logs[n])
  /\ DOMAIN rows = Servers /\ DOMAIN graves = Servers

\* A number stands for one server, and logs are applied of known servers only.
Numbers ==
  \A s \in Servers :
    /\ \A i, j \in 1 .. Len(met[s]) : met[s][i] = met[s][j] => i = j
    /\ \A n \in Servers : position[s][n] # 0 => Knows(s, n)

\* The key under which s stores the row that entry i of n's log inserts.
IsInserted(s, n, i) == i \in 1 .. position[s][n] /\ logs[n][i].type = "insert"
StoredKey(s, n, i)  == Key(Number(s, n), logs[n][i].row.id)

\* A row that reached a server is there or has a tombstone.
AllStored ==
  \A s, n \in Servers, i \in Nat :
    IsInserted(s, n, i) => StoredKey(s, n, i) \in rows[s] \cup graves[s]

\* Nothing but rows that reached a server is there or has a tombstone.
NothingElse ==
  \A s \in Servers : \A k \in rows[s] \cup graves[s] :
    \E n \in Servers, i \in Nat : IsInserted(s, n, i) /\ k = StoredKey(s, n, i)

\* Every tombstone is the key of a delete that the server applied.
IsDeleted(s, n, i) == i \in 1 .. position[s][n] /\ logs[n][i].type # "insert"
GravesNamed ==
  \A s \in Servers : \A k \in graves[s] :
    \E n \in Servers, i \in Nat : IsDeleted(s, n, i) /\ k = logs[n][i].row

ServersInv == ServerTypes /\ Numbers /\ AllStored /\ NothingElse /\ GravesNamed

\* The number of a known server points at it.
LEMMA NumberPoints ==
  ASSUME NEW s \in Servers, NEW n \in Servers, met \in [Servers -> Seq(Servers)], Knows(s, n), n # s
  PROVE  Number(s, n) \in 1 .. Len(met[s]) /\ met[s][Number(s, n)] = n
<1>1. met[s] \in Seq(Servers)
  BY Zenon
<1>2. \E i \in DOMAIN met[s] : met[s][i] = n
  BY <1>1, Zenon DEF Knows, Range
<1> QED BY <1>1, <1>2 DEF Number

\* A server has been named by its number, or is the reader itself.
LEMMA OwnerOfNumber ==
  ASSUME NEW s \in Servers, NEW n \in Servers, met \in [Servers -> Seq(Servers)], Knows(s, n)
  PROVE  /\ Owner(s, Number(s, n)) = n
         /\ Number(s, n) \in Nat /\ Number(s, n) <= Len(met[s])
<1>1. CASE n = s
  <2>1. Len(met[s]) \in Nat /\ Number(s, n) = 0
    BY <1>1 DEF Number
  <2> QED BY <1>1, <2>1 DEF Owner
<1>2. CASE n # s
  <2>1. Number(s, n) \in 1 .. Len(met[s]) /\ met[s][Number(s, n)] = n /\ Len(met[s]) \in Nat
    BY <1>2, NumberPoints
  <2> QED BY <2>1 DEF Owner
<1> QED BY <1>1, <1>2, Zenon

\* The invariant holds of servers that have just been started.
LEMMA InitServersInv == ServersInit => ServersInv
<1> SUFFICES ASSUME ServersInit PROVE ServersInv
  BY Zenon
<1>1. logs \in [Servers -> Seq({})]
  BY DEF ServersInit
<1>2. ServerTypes
  BY <1>1 DEF ServersInit, ServerTypes
<1> QED BY <1>2
           DEF ServersInit, ServersInv, Numbers, AllStored, NothingElse, GravesNamed,
               IsInserted, IsDeleted

\* A server that gets its number leaves the numbers of the others alone.
LEMMA MeetServersInv ==
  ASSUME ServersInv, NEW s \in Servers, NEW n \in Servers, Meet(s, n)
  PROVE  ServersInv'
<1> USE DEF Meet
<1>1. /\ met \in [Servers -> Seq(Servers)] /\ met[s] \in Seq(Servers)
      /\ met' = [met EXCEPT ![s] = Append(met[s], n)]
      /\ UNCHANGED <<logs, position, rows, graves>>
  BY Zenon DEF ServersInv, ServerTypes
<1>2. /\ met' \in [Servers -> Seq(Servers)]
      /\ \A t \in Servers : t # s => met'[t] = met[t]
      /\ Len(met'[s]) = Len(met[s]) + 1 /\ Len(met[s]) \in Nat
      /\ met'[s][Len(met[s]) + 1] = n
      /\ \A i \in 1 .. Len(met[s]) : met'[s][i] = met[s][i]
  BY <1>1
<1>3. ServerTypes'
  BY <1>1, <1>2 DEF ServersInv, ServerTypes
<1>4. \A i \in 1 .. Len(met[s]) : met[s][i] # n
  BY <1>1 DEF Knows, Range
<1>5. ASSUME NEW t \in Servers, NEW i \in 1 .. Len(met'[t]), NEW j \in 1 .. Len(met'[t]),
             met'[t][i] = met'[t][j]
      PROVE  i = j
  <2>1. CASE t # s
    BY <1>2, <1>5, <2>1, Zenon DEF ServersInv, Numbers
  <2>2. CASE t = s
    <3>1. i \in 1 .. Len(met[s]) \/ i = Len(met[s]) + 1
      BY <1>2, <2>2
    <3>2. j \in 1 .. Len(met[s]) \/ j = Len(met[s]) + 1
      BY <1>2, <2>2
    <3> QED BY <1>2, <1>4, <1>5, <2>2, <3>1, <3>2 DEF ServersInv, Numbers
  <2> QED BY <2>1, <2>2, Zenon
<1>6. ASSUME NEW t \in Servers, NEW m \in Servers, Knows(t, m)
      PROVE  Knows(t, m)' /\ Number(t, m)' = Number(t, m)
  <2>1. CASE m = t
    BY <2>1, Zenon DEF Knows, Number
  <2>2. CASE m # t
    <3>1. Number(t, m) \in 1 .. Len(met[t]) /\ met[t][Number(t, m)] = m
      BY <1>1, <1>6, <2>2, NumberPoints, Zenon
    <3>2. Number(t, m) \in 1 .. Len(met'[t]) /\ met'[t][Number(t, m)] = m
      BY <1>2, <3>1
    <3>3. Knows(t, m)'
      BY <1>2, <3>2 DEF Knows, Range
    <3>4. \E i \in DOMAIN met'[t] : met'[t][i] = m
      BY <1>2, <3>2
    <3>5. Number(t, m)' \in 1 .. Len(met'[t]) /\ met'[t][Number(t, m)'] = m
      BY <1>2, <2>2, <3>4 DEF Number
    <3> QED BY <1>5, <3>2, <3>3, <3>5, Zenon
  <2> QED BY <2>1, <2>2, Zenon
<1>7. Numbers'
  BY <1>1, <1>5, <1>6, Zenon DEF ServersInv, Numbers
<1>8. ASSUME NEW t \in Servers, NEW m \in Servers, NEW i, IsInserted(t, m, i)
      PROVE  StoredKey(t, m, i)' = StoredKey(t, m, i)
  <2>1. position[t][m] # 0
    BY <1>8 DEF IsInserted
  <2>2. Knows(t, m)
    BY <2>1, Zenon DEF ServersInv, Numbers
  <2> QED BY <1>1, <1>6, <2>2, Zenon DEF StoredKey
<1>9. \A t, m, i : IsInserted(t, m, i)' <=> IsInserted(t, m, i)
  BY <1>1, Zenon DEF IsInserted
<1>10. AllStored'
  BY <1>1, <1>8, <1>9 DEF ServersInv, AllStored
<1>11. NothingElse'
  <2>1. ASSUME NEW t \in Servers, NEW k \in rows[t] \cup graves[t]
        PROVE  \E m \in Servers, i \in Nat : IsInserted(t, m, i)' /\ k = StoredKey(t, m, i)'
    <3>1. PICK m \in Servers, i \in Nat : IsInserted(t, m, i) /\ k = StoredKey(t, m, i)
      BY <2>1, Zenon DEF ServersInv, NothingElse
    <3> QED BY <1>8, <1>9, <3>1, Zenon
  <2> QED BY <1>1, <2>1, Zenon DEF NothingElse
<1>12. GravesNamed'
  <2>1. \A t, m \in Servers, i \in Nat : IsDeleted(t, m, i)' <=> IsDeleted(t, m, i)
    BY <1>1, Zenon DEF IsDeleted
  <2>2. ASSUME NEW t \in Servers, NEW k \in graves'[t]
        PROVE  \E m \in Servers, i \in Nat : IsDeleted(t, m, i)' /\ k = logs'[m][i].row
    <3>0. k \in graves[t] /\ logs' = logs
      BY <1>1, <2>2, Zenon
    <3>1. PICK m \in Servers, i \in Nat : IsDeleted(t, m, i) /\ k = logs[m][i].row
      BY <3>0, Zenon DEF ServersInv, GravesNamed
    <3> QED BY <2>1, <3>0, <3>1, Zenon
  <2> QED BY <2>2, Zenon DEF GravesNamed
<1> QED BY <1>3, <1>7, <1>10, <1>11, <1>12, Zenon DEF ServersInv

\* An entry is appended to a log: no entry that was applied changes.
LEMMA LogServersInv ==
  ASSUME ServersInv, NEW s \in Servers, NEW op, LogRow(s, op)
  PROVE  ServersInv'
<1>1. PICK S : logs \in [Servers -> Seq(S)]
  BY Zenon DEF ServersInv, ServerTypes
<1>2. logs' = [logs EXCEPT ![s] = Append(logs[s], op)] /\ UNCHANGED <<met, position, rows, graves>>
  BY <1>1, Zenon DEF LogRow
<1>3. ASSUME NEW n \in Servers
      PROVE  /\ logs'[n] \in Seq(S \cup {op})
             /\ Len(logs[n]) \in Nat /\ Len(logs[n]) <= Len(logs'[n])
             /\ \A i \in 1 .. Len(logs[n]) : logs'[n][i] = logs[n][i]
  <2>1. logs[n] \in Seq(S) /\ logs[n] \in Seq(S \cup {op})
    BY <1>1
  <2>2. Append(logs[n], op) \in Seq(S \cup {op})
    BY <2>1
  <2> QED BY <1>1, <1>2, <2>1, <2>2
<1>4. logs' \in [Servers -> Seq(S \cup {op})]
  BY <1>1, <1>2, <1>3, Zenon
<1>5. ServerTypes'
  <2>1. \A t, n \in Servers : position[t][n] \in Nat /\ position[t][n] <= Len(logs[n]) /\ Len(logs'[n]) \in Nat
    BY <1>3, SMTT(40) DEF ServersInv, ServerTypes
  <2>2. \A t, n \in Servers : position'[t][n] <= Len(logs'[n])
    BY <1>2, <1>3, <2>1
  <2> QED BY <1>2, <1>4, <2>2, Zenon DEF ServersInv, ServerTypes
<1>6. Numbers'
  BY <1>2, Zenon DEF ServersInv, Numbers, Knows
<1>7. \A t, n \in Servers : \A i \in 1 .. position[t][n] : logs'[n][i] = logs[n][i]
  <2>1. ASSUME NEW t \in Servers, NEW n \in Servers, NEW i \in 1 .. position[t][n]
        PROVE  logs'[n][i] = logs[n][i]
    <3>1. position[t][n] \in Nat /\ position[t][n] <= Len(logs[n]) /\ Len(logs[n]) \in Nat
      BY <1>3, Zenon DEF ServersInv, ServerTypes
    <3>2. i \in 1 .. Len(logs[n])
      BY <3>1
    <3> QED BY <1>3, <3>2, Zenon
  <2> QED BY <2>1, Zenon
<1>8. \A t, n \in Servers : Number(t, n)' = Number(t, n)
  BY <1>2 DEF Number
<1>9. \A t, n \in Servers, i \in Nat :
        /\ IsInserted(t, n, i)' <=> IsInserted(t, n, i)
        /\ IsInserted(t, n, i) => StoredKey(t, n, i)' = StoredKey(t, n, i)
  <2>1. ASSUME NEW t \in Servers, NEW n \in Servers, NEW i \in 1 .. position[t][n]
        PROVE  /\ logs'[n][i].type = logs[n][i].type
               /\ StoredKey(t, n, i)' = StoredKey(t, n, i)
    BY <1>7, <1>8, <2>1, Zenon DEF StoredKey
  <2> QED BY <1>2, <2>1, ZenonT(40) DEF IsInserted
<1>10. AllStored'
  BY <1>2, <1>9 DEF ServersInv, AllStored
<1>11. NothingElse'
  <2>1. ASSUME NEW t \in Servers, NEW k \in rows[t] \cup graves[t]
        PROVE  \E n \in Servers, i \in Nat : IsInserted(t, n, i)' /\ k = StoredKey(t, n, i)'
    <3>1. PICK n \in Servers, i \in Nat : IsInserted(t, n, i) /\ k = StoredKey(t, n, i)
      BY <2>1, Zenon DEF ServersInv, NothingElse
    <3> QED BY <1>9, <3>1, Zenon
  <2> QED BY <1>2, <2>1, Zenon DEF NothingElse
<1>12. GravesNamed'
  <2>1. ASSUME NEW t \in Servers, NEW k \in graves[t]
        PROVE  \E n \in Servers, i \in Nat : IsDeleted(t, n, i)' /\ k = logs'[n][i].row
    <3>1. PICK n \in Servers, i \in Nat : IsDeleted(t, n, i) /\ k = logs[n][i].row
      BY <2>1, Zenon DEF ServersInv, GravesNamed
    <3>2. logs'[n][i] = logs[n][i] /\ IsDeleted(t, n, i)'
      BY <1>2, <1>7, <3>1, Zenon DEF IsDeleted
    <3> QED BY <3>1, <3>2, Zenon
  <2> QED BY <1>2, <2>1, Zenon DEF GravesNamed
<1> QED BY <1>5, <1>6, <1>10, <1>11, <1>12, Zenon DEF ServersInv

\* The next entry of a log that a server knows is applied.
LEMMA ApplyServersInv ==
  ASSUME ServersInv, NEW s \in Servers, NEW n \in Servers, ApplyRow(s, n)
  PROVE  ServersInv'
<1>0. PICK p : p = position[s][n] + 1
  BY Zenon
<1> DEFINE op == logs[n][p]
           k  == RowKey(s, n, op)
<1>1. /\ position \in [Servers -> [Servers -> Nat]] /\ position[s][n] \in Nat
      /\ position[s][n] < Len(logs[n]) /\ Len(logs[n]) \in Nat
      /\ DOMAIN rows = Servers /\ DOMAIN graves = Servers
  BY DEF ServersInv, ServerTypes, ApplyRow
<1>2. /\ position'[s][n] = p
      /\ \A t, m \in Servers : t # s \/ m # n => position'[t][m] = position[t][m]
      /\ position' \in [Servers -> [Servers -> Nat]]
      /\ UNCHANGED <<met, logs>>
  BY <1>0, <1>1 DEF ApplyRow
<1>3. /\ \A t \in Servers : t # s => rows'[t] = rows[t] /\ graves'[t] = graves[t]
      /\ DOMAIN rows' = Servers /\ DOMAIN graves' = Servers
      /\ \/ /\ op.type = "insert"
            /\ rows'[s] \cup graves'[s] = rows[s] \cup graves[s] \cup {k}
            /\ graves'[s] = graves[s]
         \/ /\ op.type = "delete"
            /\ rows'[s] \cup graves'[s] = rows[s] \cup graves[s]
            /\ graves'[s] \subseteq graves[s] \cup {k}
  <2>1. CASE /\ op.type = "insert"
             /\ rows' = [rows EXCEPT ![s] = ObjectsAfterAdd(rows[s], graves[s], k)]
             /\ graves' = graves
    BY <1>1, <2>1, Zenon DEF ObjectsAfterAdd
  <2>2. CASE /\ op.type = "delete"
             /\ rows' = [rows EXCEPT ![s] = ObjectsAfterDelete(rows[s], k)]
             /\ graves' = [graves EXCEPT ![s] = RemovedAfterDelete(rows[s], graves[s], k)]
    BY <1>1, <2>2, Zenon DEF ObjectsAfterDelete, RemovedAfterDelete
  <2>3. \/ /\ op.type = "insert"
           /\ rows' = [rows EXCEPT ![s] = ObjectsAfterAdd(@, graves[s], k)]
           /\ graves' = graves
        \/ /\ op.type = "delete"
           /\ rows' = [rows EXCEPT ![s] = ObjectsAfterDelete(@, k)]
           /\ graves' = [graves EXCEPT ![s] = RemovedAfterDelete(rows[s], @, k)]
    BY <1>0, Zenon DEF ApplyRow
  <2> HIDE DEF op, k
  <2> QED BY <1>1, <2>1, <2>2, <2>3, Zenon
<1>4. ServerTypes'
  <2>1. \A t, m \in Servers : position'[t][m] <= Len(logs'[m])
    <3>1. position'[s][n] <= Len(logs[n])
      BY <1>0, <1>1, <1>2
    <3>2. \A t, m \in Servers : position[t][m] <= Len(logs[m])
      BY Zenon DEF ServersInv, ServerTypes
    <3> QED BY <1>2, <3>1, <3>2, Zenon
  <2> QED BY <1>2, <1>3, <2>1, Zenon DEF ServersInv, ServerTypes
<1>5. Numbers'
  <2>1. Knows(s, n) /\ \A t, m \in Servers : Knows(t, m)' <=> Knows(t, m)
    BY <1>2, Zenon DEF Knows, ApplyRow
  <2>2. \A t, m \in Servers : position'[t][m] # 0 => Knows(t, m)
    BY <1>2, <2>1, Zenon DEF ServersInv, Numbers
  <2> QED BY <1>2, <2>1, <2>2, Zenon DEF ServersInv, Numbers
<1>6. \A t, m \in Servers, i \in Nat :
        /\ StoredKey(t, m, i)' = StoredKey(t, m, i)
        /\ IsInserted(t, m, i) => IsInserted(t, m, i)'
        /\ IsDeleted(t, m, i) => IsDeleted(t, m, i)'
        /\ IsInserted(t, m, i)' =>
             IsInserted(t, m, i) \/ (t = s /\ m = n /\ i = p /\ op.type = "insert")
  <2>1. \A t, m \in Servers, i \in Nat :
          /\ i \in 1 .. position[t][m] => i \in 1 .. position'[t][m]
          /\ i \in 1 .. position'[t][m] => i \in 1 .. position[t][m] \/ (t = s /\ m = n /\ i = p)
    <3>1. ASSUME NEW t \in Servers, NEW m \in Servers, NEW i \in Nat
          PROVE  /\ i \in 1 .. position[t][m] => i \in 1 .. position'[t][m]
                 /\ i \in 1 .. position'[t][m] =>
                      i \in 1 .. position[t][m] \/ (t = s /\ m = n /\ i = p)
      <4>1. CASE t = s /\ m = n
        BY <1>0, <1>1, <1>2, <4>1
      <4>2. CASE t # s \/ m # n
        BY <1>2, <4>2, Zenon
      <4> QED BY <4>1, <4>2, Zenon
    <3> QED BY <3>1, Zenon
  <2>2. \A t, m \in Servers, i \in Nat : StoredKey(t, m, i)' = StoredKey(t, m, i)
    BY <1>2 DEF StoredKey, Number
  <2>3. ASSUME NEW t \in Servers, NEW m \in Servers, NEW i \in Nat
        PROVE  /\ IsInserted(t, m, i) => IsInserted(t, m, i)'
               /\ IsDeleted(t, m, i) => IsDeleted(t, m, i)'
               /\ IsInserted(t, m, i)' =>
                    IsInserted(t, m, i) \/ (t = s /\ m = n /\ i = p /\ op.type = "insert")
    <3>1. logs' = logs
      BY <1>2, Zenon
    <3> QED BY <2>1, <3>1, Zenon DEF IsInserted, IsDeleted
  <2> QED BY <2>2, <2>3, Zenon
<1>7. p \in Nat /\ p \in 1 .. position'[s][n]
  BY <1>0, <1>1, <1>2
<1>8. op.type = "insert" => k = StoredKey(s, n, p) /\ IsInserted(s, n, p)'
  BY <1>2, <1>7, Zenon DEF StoredKey, RowKey, IsInserted
<1>9. op.type = "delete" => k = logs[n][p].row /\ IsDeleted(s, n, p)'
  BY <1>2, <1>7, Zenon DEF RowKey, IsDeleted
<1> HIDE DEF op, k
<1>10. AllStored'
  <2>1. ASSUME NEW t \in Servers, NEW m \in Servers, NEW i \in Nat, IsInserted(t, m, i)'
        PROVE  StoredKey(t, m, i) \in rows'[t] \cup graves'[t]
    <3>1. CASE IsInserted(t, m, i)
      <4>1. StoredKey(t, m, i) \in rows[t] \cup graves[t]
        BY <3>1, Zenon DEF ServersInv, AllStored
      <4> QED BY <1>3, <4>1, Zenon
    <3>2. CASE t = s /\ m = n /\ i = p /\ op.type = "insert"
      BY <1>3, <1>8, <3>2, Zenon
    <3> QED BY <1>6, <2>1, <3>1, <3>2, Zenon
  <2> QED BY <1>6, <2>1 DEF AllStored
<1>11. NothingElse'
  <2>1. ASSUME NEW t \in Servers, NEW j \in rows'[t] \cup graves'[t]
        PROVE  \E m \in Servers, i \in Nat : IsInserted(t, m, i)' /\ j = StoredKey(t, m, i)'
    <3>1. CASE j \in rows[t] \cup graves[t]
      <4>1. PICK m \in Servers, i \in Nat : IsInserted(t, m, i) /\ j = StoredKey(t, m, i)
        BY <3>1, Zenon DEF ServersInv, NothingElse
      <4> QED BY <1>6, <4>1, Zenon
    <3>2. CASE t = s /\ j = k /\ op.type = "insert"
      BY <1>6, <1>7, <1>8, <3>2
    <3> QED BY <1>3, <2>1, <3>1, <3>2, Zenon
  <2> QED BY <2>1, Zenon DEF NothingElse
<1>12. GravesNamed'
  <2>1. ASSUME NEW t \in Servers, NEW j \in graves'[t]
        PROVE  \E m \in Servers, i \in Nat : IsDeleted(t, m, i)' /\ j = logs'[m][i].row
    <3>1. CASE j \in graves[t]
      <4>1. PICK m \in Servers, i \in Nat : IsDeleted(t, m, i) /\ j = logs[m][i].row
        BY <3>1, Zenon DEF ServersInv, GravesNamed
      <4> QED BY <1>2, <1>6, <4>1, Zenon
    <3>2. CASE t = s /\ j = k /\ op.type = "delete"
      <4>1. IsDeleted(t, n, p)' /\ j = logs'[n][p].row
        BY <1>2, <1>9, <3>2, Zenon
      <4> QED BY <1>7, <4>1, Zenon
    <3> QED BY <1>3, <2>1, <3>1, <3>2, Zenon
  <2> QED BY <2>1, Zenon DEF GravesNamed
<1> QED BY <1>4, <1>5, <1>10, <1>11, <1>12, Zenon DEF ServersInv

\* The invariant holds whatever the servers do.
LEMMA ServersInvariant == ServersSpec => []ServersInv
<1>1. ServersInv /\ [ServersNext]_serverVars => ServersInv'
  <2> SUFFICES ASSUME ServersInv, [ServersNext]_serverVars PROVE ServersInv'
    BY Zenon
  <2>1. CASE UNCHANGED serverVars
    <3> USE <2>1 DEF serverVars, ServersInv
    <3>1. ServerTypes' /\ Numbers'
      BY Zenon DEF ServerTypes, Numbers, Knows
    <3>2. /\ \A s, n, i : IsInserted(s, n, i)' <=> IsInserted(s, n, i)
          /\ \A s, n, i : IsDeleted(s, n, i)' <=> IsDeleted(s, n, i)
          /\ \A s, n, i : StoredKey(s, n, i)' = StoredKey(s, n, i)
      BY DEF IsInserted, IsDeleted, StoredKey, Number
    <3>3. AllStored'
      BY <3>2, Zenon DEF AllStored
    <3>4. NothingElse'
      BY <3>2 DEF NothingElse
    <3>5. GravesNamed'
      BY <3>2 DEF GravesNamed
    <3> QED BY <3>1, <3>3, <3>4, <3>5, Zenon
  <2>2. CASE ServersNext
    BY <2>2, MeetServersInv, LogServersInv, ApplyServersInv, Zenon
       DEF ServersNext, InsertRow, DeleteRow
  <2> QED BY <2>1, <2>2, Zenon
<1> QED BY <1>1, InitServersInv, PTL DEF ServersSpec

\* A server shows the rows whose inserts reached it, but for rows whose key a delete
\* that it applied carries (mdv_tablespace_trlog_apply).
THEOREM ServersOnlyNamedRowsGo == ServersSpec => []OnlyNamedRowsGo
<1>1. ASSUME ServersInv PROVE OnlyNamedRowsGo
  <2>1. ASSUME NEW s \in Servers, NEW n \in Servers, NEW i \in Nat, IsInserted(s, n, i)
        PROVE  /\ Name(s, StoredKey(s, n, i)) = <<n, logs[n][i].row.id>>
               /\ StoredKey(s, n, i).node <= Len(met[s])
    <3>1. position[s][n] # 0
      BY <2>1 DEF IsInserted
    <3>2. Knows(s, n) /\ met \in [Servers -> Seq(Servers)]
      BY <1>1, <3>1, Zenon DEF ServersInv, Numbers, ServerTypes
    <3>3. Owner(s, Number(s, n)) = n /\ Number(s, n) <= Len(met[s])
      BY <3>2, OwnerOfNumber, Zenon
    <3> QED BY <3>3, Zenon DEF Name, StoredKey, Key
  <2>2. ASSUME NEW s \in Servers, NEW x \in Visible(s) PROVE x \in Arrived(s)
    <3>1. PICK k \in rows[s] : x = Name(s, k)
      BY <2>2, Zenon DEF Visible
    <3>2. PICK n \in Servers, i \in Nat : IsInserted(s, n, i) /\ k = StoredKey(s, n, i)
      BY <1>1, Zenon DEF ServersInv, NothingElse
    <3>3. x = <<n, logs[n][i].row.id>> /\ i \in InsertsOf(n, position[s][n])
      BY <2>1, <3>1, <3>2, Zenon DEF IsInserted, InsertsOf
    <3> QED BY <3>3 DEF Arrived
  <2>3. ASSUME NEW s \in Servers, NEW x \in Arrived(s), x \notin Named(s) PROVE x \in Visible(s)
    <3>1. PICK n \in Servers : x \in {<<n, logs[n][i].row.id>> : i \in InsertsOf(n, position[s][n])}
      BY <2>3, Zenon DEF Arrived
    <3>2. PICK i \in InsertsOf(n, position[s][n]) : x = <<n, logs[n][i].row.id>>
      BY <3>1, Zenon
    <3>3. i \in Nat /\ IsInserted(s, n, i)
      BY <1>1, <3>2 DEF InsertsOf, IsInserted, ServersInv, ServerTypes
    <3>4. /\ StoredKey(s, n, i) \in rows[s] \cup graves[s]
          /\ x = Name(s, StoredKey(s, n, i)) /\ StoredKey(s, n, i).node <= Len(met[s])
      BY <1>1, <2>1, <3>2, <3>3, Zenon DEF ServersInv, AllStored
    <3>5. CASE StoredKey(s, n, i) \in rows[s]
      BY <3>4, <3>5, Zenon DEF Visible
    <3>6. CASE StoredKey(s, n, i) \in graves[s]
      <4>1. PICK m \in Servers, j \in Nat : IsDeleted(s, m, j) /\ StoredKey(s, n, i) = logs[m][j].row
        BY <1>1, <3>6, Zenon DEF ServersInv, GravesNamed
      <4>2. j \in (1 .. position[s][m]) \ InsertsOf(m, position[s][m])
        BY <4>1, Zenon DEF IsDeleted, InsertsOf
      <4>3. StoredKey(s, n, i) \in DeletedKeys(s)
        BY <4>1, <4>2 DEF DeletedKeys
      <4>4. x \in Named(s)
        BY <3>4, <4>3, Zenon DEF Named
      <4> QED BY <2>3, <4>4, Zenon
    <3> QED BY <3>4, <3>5, <3>6, Zenon
  <2> QED BY <2>2, <2>3, Zenon DEF OnlyNamedRowsGo
<1> QED BY <1>1, ServersInvariant, PTL

-----------------------------------------------------------------------------
(* The committer.                                                          *)

\* The count of requests locks a log: while it is zero nobody works on the log.
CountIsLock ==
  \A l \in Logs : requests[l] = 0 =>
    /\ jobs[l] = 0
    /\ \A j \in JobWorkers : ~Running(j, l)
    /\ \A e \in EbusWorkers : ~Emitting(e, l)

\* The job that is about to store a position read it from the current one.
Positions ==
  /\ \A l \in Logs : applied[l] <= top[l]
  /\ \A j \in JobWorkers : jpc[j] = "store" =>
       /\ jfrom[j] = applied[jlog[j]]
       /\ jfrom[j] <= jto[j]
       /\ jto[j] <= top[jlog[j]]

IInv == TypeOK /\ SingleApplier /\ CountIsLock /\ Positions

\* A committer that has just started satisfies the invariant.
LEMMA InitIInv == Init => IInv
<1>1. (CHOOSE l \in Logs : TRUE) \in Logs
  BY CommitterAssumption, Zenon
<1> DEFINE any == CHOOSE l \in Logs : TRUE
<1>2. any \in Logs
  BY <1>1, Zenon
<1> HIDE DEF any
<1> SUFFICES ASSUME Init PROVE IInv
  OBVIOUS
<1>3. hlog = [e \in EbusWorkers |-> any] /\ jlog = [j \in JobWorkers |-> any]
  BY Zenon DEF Init, any
<1>4. TypeOK
  BY <1>2, <1>3, Zenon DEF Init, TypeOK, HandlerSteps, JobSteps
<1> QED BY <1>4 DEF Init, IInv, SingleApplier, CountIsLock, Positions, Running, Emitting

-----------------------------------------------------------------------------
(* Each action is summarized by what it does to the type invariant, to who  *)
(* runs and who emits, and to the positions; the lock follows from that.    *)

\* Nobody new works on a log and no count is reset.
LEMMA SameWorkers ==
  ASSUME IInv, TypeOK',
         \A l \in Logs : jobs'[l] = jobs[l] /\ (requests'[l] = 0 => requests[l] = 0),
         \A j \in JobWorkers, l \in Logs : Running(j, l)' => Running(j, l),
         \A e \in EbusWorkers, l \in Logs : Emitting(e, l)' => Emitting(e, l)
  PROVE  SingleApplier' /\ CountIsLock'
<1>1. SingleApplier'
  BY Zenon DEF IInv, SingleApplier
<1>2. CountIsLock'
  BY Zenon DEF IInv, CountIsLock
<1> QED BY <1>1, <1>2, Zenon

\* A bus worker that takes a log-changed event keeps the invariant.
LEMMA PopIInv == ASSUME IInv, NEW e \in EbusWorkers, Pop(e) PROVE IInv'
<1>1. TypeOK'
  BY Zenon DEF Pop, IInv, TypeOK, HandlerSteps, logVars, jobVars
<1>2. \A f \in EbusWorkers, l \in Logs : Emitting(f, l)' => Emitting(f, l)
  BY Zenon DEF Pop, IInv, TypeOK, Emitting
<1>3. SingleApplier' /\ CountIsLock'
  BY <1>1, <1>2, SameWorkers, Zenon DEF Pop, jobVars, Running
<1>4. Positions'
  BY Zenon DEF Pop, IInv, Positions, logVars, jobVars
<1> QED BY <1>1, <1>3, <1>4, Zenon DEF IInv

\* mdv_committer_start keeps it: only the first request of a log goes on to emit.
LEMMA StartIInv == ASSUME IInv, NEW e \in EbusWorkers, Start(e) PROVE IInv'
<1> DEFINE m == hlog[e]
<1>1. m \in Logs /\ hpc[e] = "start"
  BY Zenon DEF Start, IInv, TypeOK
<1>2. TypeOK'
  BY <1>1 DEF Start, IInv, TypeOK, HandlerSteps, logVars, jobVars
<1>3. Positions'
  BY Zenon DEF Start, IInv, Positions, logVars, jobVars
<1>4. \A l \in Logs : requests'[l] = IF l = m THEN requests[l] + 1 ELSE requests[l]
  BY <1>1, Zenon DEF Start, IInv, TypeOK
<1>5. jobs' = jobs /\ \A j \in JobWorkers, l \in Logs : Running(j, l)' <=> Running(j, l)
  BY Zenon DEF Start, jobVars, Running
<1>6. CASE requests[m] # 0
  <2>1. \A f \in EbusWorkers, l \in Logs : Emitting(f, l)' => Emitting(f, l)
    BY <1>6, Zenon DEF Start, IInv, TypeOK, Emitting
  <2>2. \A l \in Logs : requests'[l] = 0 => requests[l] = 0
    BY <1>4, <1>6 DEF IInv, TypeOK
  <2>3. SingleApplier' /\ CountIsLock'
    BY <1>2, <1>5, <2>1, <2>2, SameWorkers, Zenon
  <2> QED BY <1>2, <1>3, <2>3, Zenon DEF IInv
<1>7. CASE requests[m] = 0
  <2>1. /\ \A f \in EbusWorkers, l \in Logs : Emitting(f, l)' => Emitting(f, l) \/ (f = e /\ l = m)
        /\ ~\E l \in Logs : Emitting(e, l)
    BY <1>1, <1>7, Zenon DEF Start, IInv, TypeOK, Emitting
  <2>2. /\ jobs[m] = 0
        /\ \A j \in JobWorkers : ~Running(j, m)
        /\ \A f \in EbusWorkers : ~Emitting(f, m)
    BY <1>1, <1>7, Zenon DEF IInv, CountIsLock
  <2>3. SingleApplier'
    BY <1>1, <1>5, <2>1, <2>2 DEF IInv, SingleApplier
  <2>4. requests'[m] # 0
    BY <1>1, <1>4, <1>7
  <2>5. CountIsLock'
    BY <1>1, <1>4, <1>5, <2>1, <2>4, Zenon DEF IInv, CountIsLock
  <2> QED BY <1>2, <1>3, <2>3, <2>5, Zenon DEF IInv
<1> QED BY <1>6, <1>7, Zenon

\* A job pushed to the jobber keeps it.
LEMMA EmitIInv == ASSUME IInv, NEW e \in EbusWorkers, Emit(e) PROVE IInv'
<1> DEFINE m == hlog[e]
<1>1. m \in Logs /\ Emitting(e, m)
  BY Zenon DEF Emit, IInv, TypeOK, Emitting
<1>2. TypeOK'
  BY <1>1 DEF Emit, IInv, TypeOK, HandlerSteps, logVars
<1>3. Positions'
  BY Zenon DEF Emit, IInv, Positions, logVars
<1>4. /\ jobs[m] = 0 /\ requests[m] # 0
      /\ \A j \in JobWorkers : ~Running(j, m)
      /\ \A f \in EbusWorkers : Emitting(f, m) => f = e
  <2>1. jobs[m] \in Nat
    BY <1>1, Zenon DEF IInv, TypeOK
  <2>2. jobs[m] <= 1 /\ jobs[m] # 1
    BY <1>1, Zenon DEF IInv, SingleApplier
  <2>3. requests[m] # 0
    BY <1>1, Zenon DEF IInv, CountIsLock
  <2> QED BY <1>1, <2>1, <2>2, <2>3 DEF IInv, SingleApplier
<1>5. /\ \A f \in EbusWorkers, l \in Logs : Emitting(f, l)' => Emitting(f, l) /\ f # e
      /\ \A j \in JobWorkers, l \in Logs : Running(j, l)' <=> Running(j, l)
      /\ requests' = requests
  BY Zenon DEF Emit, IInv, TypeOK, Emitting, Running
<1>6. \A l \in Logs : jobs'[l] = IF l = m THEN 1 ELSE jobs[l]
  BY <1>1, <1>4 DEF Emit, IInv, TypeOK
<1>7. SingleApplier'
  BY <1>1, <1>4, <1>5, <1>6 DEF IInv, SingleApplier
<1>8. CountIsLock'
  BY <1>1, <1>4, <1>5, <1>6, Zenon DEF IInv, CountIsLock
<1> QED BY <1>2, <1>3, <1>7, <1>8 DEF IInv

\* A job that could not be emitted keeps it: the count is reset.
LEMMA EmitFailIInv == ASSUME IInv, NEW e \in EbusWorkers, EmitFail(e) PROVE IInv'
<1>1. TypeOK'
  BY DEF EmitFail, IInv, TypeOK, HandlerSteps, logVars, jobVars
<1>2. \A f \in EbusWorkers, l \in Logs : Emitting(f, l)' => Emitting(f, l)
  BY Zenon DEF EmitFail, IInv, TypeOK, Emitting
<1>3. SingleApplier' /\ CountIsLock'
  BY <1>1, <1>2, SameWorkers, Zenon DEF EmitFail, jobVars, Running
<1>4. Positions'
  BY Zenon DEF EmitFail, IInv, Positions, logVars, jobVars
<1> QED BY <1>1, <1>3, <1>4 DEF IInv

\* A job worker that takes a job keeps it.
LEMMA TakeIInv == ASSUME IInv, NEW j \in JobWorkers, Take(j) PROVE IInv'
<1>1. PICK m \in Logs : /\ jobs[m] > 0
                        /\ jobs' = [jobs EXCEPT ![m] = @ - 1]
                        /\ jlog' = [jlog EXCEPT ![j] = m]
  BY Zenon DEF Take
<1>2. TypeOK'
  BY <1>1 DEF Take, IInv, TypeOK, JobSteps, logVars, handlerVars
<1>3. Positions'
  BY <1>1 DEF Take, IInv, TypeOK, Positions, logVars
<1>4. /\ jobs[m] = 1 /\ requests[m] # 0
      /\ \A k \in JobWorkers : ~Running(k, m)
      /\ \A f \in EbusWorkers : ~Emitting(f, m)
  <2>1. jobs[m] \in Nat /\ jobs[m] <= 1
    BY Zenon DEF IInv, TypeOK, SingleApplier
  <2>2. requests[m] # 0
    BY <1>1, <2>1 DEF IInv, CountIsLock
  <2> QED BY <1>1, <2>1, <2>2 DEF IInv, SingleApplier
<1>5. /\ \A k \in JobWorkers, l \in Logs : Running(k, l)' => Running(k, l) \/ (k = j /\ l = m)
      /\ \A l \in Logs : ~Running(j, l)
      /\ \A f \in EbusWorkers, l \in Logs : Emitting(f, l)' <=> Emitting(f, l)
      /\ requests' = requests
  BY <1>1, Zenon DEF Take, IInv, TypeOK, Emitting, Running, handlerVars
<1>6. \A l \in Logs : jobs'[l] = IF l = m THEN 0 ELSE jobs[l]
  BY <1>1, <1>4 DEF IInv, TypeOK
<1>7. SingleApplier'
  <2>1. 0 <= 1 /\ 0 # 1
    OBVIOUS
  <2> QED BY <1>4, <1>5, <1>6, <2>1, ZenonT(40) DEF IInv, SingleApplier
<1>8. CountIsLock'
  BY <1>4, <1>5, <1>6, Zenon DEF IInv, CountIsLock
<1> QED BY <1>2, <1>3, <1>7, <1>8, Zenon DEF IInv

\* Reading the count of requests, or failing to, keeps it.
LEMMA LoadIInv == ASSUME IInv, NEW j \in JobWorkers, Load(j) \/ NoMemory(j) PROVE IInv'
<1>1. TypeOK'
  BY DEF Load, NoMemory, IInv, TypeOK, JobSteps, logVars, handlerVars
<1>2. \A k \in JobWorkers, l \in Logs : Running(k, l)' => Running(k, l)
  BY Zenon DEF Load, NoMemory, IInv, TypeOK, Running
<1>3. SingleApplier' /\ CountIsLock'
  BY <1>1, <1>2, SameWorkers, Zenon DEF Load, NoMemory, handlerVars, Emitting
<1>4. Positions'
  BY DEF Load, NoMemory, IInv, TypeOK, Positions, logVars
<1> QED BY <1>1, <1>3, <1>4, Zenon DEF IInv

\* Applying a batch keeps it.
LEMMA ApplyBatchIInv == ASSUME IInv, NEW j \in JobWorkers, ApplyBatch(j) PROVE IInv'
<1> DEFINE m == jlog[j]
<1>1. m \in Logs /\ applied[m] \in Nat /\ top[m] \in Nat /\ jpc[j] = "apply"
  BY Zenon DEF ApplyBatch, IInv, TypeOK
<1>2. PICK end \in applied[m] .. top[m] :
        /\ jto' = [jto EXCEPT ![j] = end]
        /\ fails' \in {fails, fails + 1}
  BY Zenon DEF ApplyBatch
<1>3. /\ jfrom' = [jfrom EXCEPT ![j] = applied[m]]
      /\ jpc' = [jpc EXCEPT ![j] = "store"]
      /\ UNCHANGED <<logVars, handlerVars, requests, jobs, jlog, jreq>>
  BY Zenon DEF ApplyBatch
<1>4. TypeOK'
  BY <1>1, <1>2, <1>3 DEF IInv, TypeOK, JobSteps, logVars, handlerVars
<1>5. \A k \in JobWorkers, l \in Logs : Running(k, l)' => Running(k, l)
  BY <1>1, <1>3, Zenon DEF IInv, TypeOK, Running
<1>6. SingleApplier' /\ CountIsLock'
  BY <1>3, <1>4, <1>5, SameWorkers, Zenon DEF handlerVars, Emitting
<1>7. Positions'
  BY <1>1, <1>2, <1>3 DEF IInv, TypeOK, Positions, logVars
<1> QED BY <1>4, <1>6, <1>7, Zenon DEF IInv

\* Saving the applied position keeps it.
LEMMA ApplyStoreIInv == ASSUME IInv, NEW j \in JobWorkers, ApplyStore(j) PROVE IInv'
<1> DEFINE m == jlog[j]
<1>1. m \in Logs /\ jpc[j] = "store" /\ jto[j] \in Nat
  BY Zenon DEF ApplyStore, IInv, TypeOK
<1>2. PICK next \in {"apply", "cas"} : jpc' = [jpc EXCEPT ![j] = next]
  BY Zenon DEF ApplyStore
<1>3. /\ applied' = [applied EXCEPT ![m] = jto[j]]
      /\ UNCHANGED <<top, handlerVars, requests, jobs, jlog, jreq, jfrom, jto, fails>>
  BY Zenon DEF ApplyStore
<1>4. TypeOK'
  BY <1>1, <1>2, <1>3, Zenon DEF IInv, TypeOK, JobSteps, handlerVars
<1>5. \A k \in JobWorkers, l \in Logs : Running(k, l)' => Running(k, l)
  BY <1>1, <1>2, <1>3, Zenon DEF IInv, TypeOK, Running
<1>6. SingleApplier' /\ CountIsLock'
  BY <1>3, <1>4, <1>5, SameWorkers, Zenon DEF handlerVars, Emitting
<1>7. ASSUME NEW k \in JobWorkers, jpc'[k] = "store"
      PROVE  k # j /\ jpc[k] = "store" /\ jlog[k] # m /\ jlog[k] \in Logs
  <2>1. k # j /\ jpc[k] = "store" /\ jlog[k] \in Logs
    BY <1>2, <1>7, Zenon DEF IInv, TypeOK
  <2>2. jlog[k] = m => k = j
    BY <1>1, <2>1, Zenon DEF IInv, SingleApplier, Running
  <2> QED BY <2>1, <2>2, Zenon
<1>8. Positions'
  BY <1>1, <1>3, <1>7, Zenon DEF IInv, TypeOK, Positions
<1> QED BY <1>4, <1>6, <1>8, Zenon DEF IInv

\* The compare-and-swap that ends a job, or makes it go round again, keeps it.
LEMMA ResetIInv == ASSUME IInv, NEW j \in JobWorkers, Reset(j) PROVE IInv'
<1> DEFINE m == jlog[j]
<1>1. m \in Logs /\ Running(j, m) /\ jpc[j] = "cas"
  BY Zenon DEF Reset, IInv, TypeOK, Running
<1>2. TypeOK'
  BY <1>1 DEF Reset, IInv, TypeOK, JobSteps, logVars, handlerVars
<1>3. Positions'
  BY <1>1 DEF Reset, IInv, TypeOK, Positions, logVars
<1>4. jobs' = jobs /\ \A f \in EbusWorkers, l \in Logs : Emitting(f, l)' <=> Emitting(f, l)
  BY Zenon DEF Reset, handlerVars, Emitting
<1>5. CASE requests[m] = jreq[j]
  <2>1. \A k \in JobWorkers, l \in Logs : Running(k, l)' => Running(k, l) /\ k # j
    BY <1>5, Zenon DEF Reset, IInv, TypeOK, Running
  <2>2. \A l \in Logs : requests'[l] = IF l = m THEN 0 ELSE requests[l]
    BY <1>1, <1>5, Zenon DEF Reset, IInv, TypeOK
  <2>3. /\ jobs[m] = 0
        /\ \A f \in EbusWorkers : ~Emitting(f, m)
        /\ \A k \in JobWorkers : Running(k, m) => k = j
    <3>1. jobs[m] \in Nat
      BY <1>1, Zenon DEF IInv, TypeOK
    <3>2. jobs[m] <= 1 /\ jobs[m] # 1
      BY <1>1, Zenon DEF IInv, SingleApplier
    <3>3. jobs[m] = 0
      BY <3>1, <3>2
    <3> QED BY <1>1, <3>3, Zenon DEF IInv, SingleApplier
  <2>4. SingleApplier'
    BY <1>4, <2>1, Zenon DEF IInv, SingleApplier
  <2>5. CountIsLock'
    BY <1>1, <1>4, <2>1, <2>2, <2>3, SMTT(40) DEF IInv, CountIsLock
  <2> QED BY <1>2, <1>3, <2>4, <2>5 DEF IInv
<1>6. CASE requests[m] # jreq[j]
  <2>1. \A k \in JobWorkers, l \in Logs : Running(k, l)' => Running(k, l)
    BY <1>1, <1>6, Zenon DEF Reset, IInv, TypeOK, Running
  <2>2. requests' = requests
    BY <1>6, Zenon DEF Reset
  <2>3. SingleApplier' /\ CountIsLock'
    BY <1>2, <1>4, <2>1, <2>2, SameWorkers, Zenon
  <2> QED BY <1>2, <1>3, <2>3 DEF IInv
<1> QED BY <1>5, <1>6, Zenon

\* A thread that writes to a log or publishes its event keeps it.
LEMMA WriterIInv == ASSUME IInv, NEW l \in Logs, AddOp(l) \/ Notify(l) PROVE IInv'
<1>1. TypeOK'
  BY DEF AddOp, Notify, IInv, TypeOK, logVars, jobVars
<1>2. SingleApplier' /\ CountIsLock'
  BY <1>1, SameWorkers, Zenon DEF AddOp, Notify, jobVars, Running, Emitting
<1>3. \A m \in Logs : /\ applied'[m] = applied[m]
                      /\ top[m] \in Nat /\ applied[m] \in Nat
                      /\ top'[m] = top[m] \/ top'[m] = top[m] + 1
  BY Zenon DEF AddOp, Notify, IInv, TypeOK, logVars
<1>4. Positions'
  BY <1>3 DEF AddOp, Notify, IInv, TypeOK, Positions, jobVars
<1> QED BY <1>1, <1>2, <1>4 DEF IInv

\* Every step keeps it.
LEMMA NextIInv == IInv /\ [Next]_vars => IInv'
<1>1. ASSUME IInv, UNCHANGED vars PROVE IInv'
  BY <1>1, SMTT(40)
     DEF IInv, TypeOK, SingleApplier, CountIsLock, Positions, Running, Emitting,
              vars, logVars, handlerVars, jobVars
<1> QED BY <1>1, WriterIInv, PopIInv, StartIInv, EmitIInv, EmitFailIInv, TakeIInv,
               LoadIInv,
          ApplyBatchIInv, ApplyStoreIInv, ResetIInv, Zenon DEF Next, BusStep, JobStep

\* The invariant behind the theorems below holds in every state of the committer.
THEOREM CommitterInvariant == Spec => []IInv
<1> QED BY InitIInv, NextIInv, PTL DEF Spec

\* Type correctness: the counts of requests, jobs and announcements never drop
\* below zero.
THEOREM CommitterTypeOK == Spec => []TypeOK
<1>1. IInv => TypeOK
  BY Zenon DEF IInv
<1> QED BY <1>1, CommitterInvariant, PTL

\* At most one job applies a log at a time, for any number of logs and workers,
\* also when jobs cannot be emitted.
THEOREM CommitterSingleApplier == Spec => []SingleApplier
<1>1. IInv => SingleApplier
  BY Zenon DEF IInv
<1> QED BY <1>1, CommitterInvariant, PTL

\* The applied position of every log moves forward only and stays within the log.
THEOREM CommitterAppliedForward == Spec => AppliedForward
<1> DEFINE Forward == \A l \in Logs : applied[l] <= applied'[l] /\ applied'[l] <= top'[l]
<1>1. ASSUME IInv, IInv', [Next]_vars PROVE Forward
  <2>1. \A l \in Logs : applied[l] \in Nat /\ applied'[l] <= top'[l]
    BY <1>1, Zenon DEF IInv, TypeOK, Positions
  <2>2. ASSUME NEW j \in JobWorkers, ApplyStore(j) PROVE \A l \in Logs : applied[l] <= applied'[l]
    <3>1. applied[jlog[j]] <= jto[j]
      BY <1>1, <2>2, Zenon DEF ApplyStore, IInv, Positions
    <3>2. \A l \in Logs : applied'[l] = IF l = jlog[j] THEN jto[j] ELSE applied[l]
      BY <1>1, <2>2, Zenon DEF ApplyStore, IInv, TypeOK
    <3> QED BY <2>1, <3>1, <3>2
  <2>3. ASSUME UNCHANGED applied PROVE \A l \in Logs : applied[l] <= applied'[l]
    BY <2>1, <2>3
  <2>4. UNCHANGED applied \/ \E j \in JobWorkers : ApplyStore(j)
    BY <1>1, Zenon
       DEF Next, BusStep, JobStep, AddOp, Notify, Pop, Start, Emit, EmitFail, Take, Load,
                NoMemory, ApplyBatch, Reset, vars, logVars
  <2> QED BY <2>1, <2>2, <2>3, <2>4, Zenon
<1>2. IInv /\ IInv' /\ [Next]_vars => [Forward]_vars
  BY <1>1, Zenon
<1> QED BY <1>2, CommitterInvariant, PTL DEF Spec, AppliedForward

-----------------------------------------------------------------------------
(* No lost wake-up, for a node with one log.                                *)

\* Worker j applies log l once more before it can reset the count, or stores
\* the top of the log.
WillSee(j, l) ==
  /\ Running(j, l)
  /\ \/ jpc[j] \in {"load", "apply"}
     \/ jreq[j] # requests[l]
     \/ jpc[j] = "store" /\ (jto[j] = top[l] \/ jto[j] - jfrom[j] >= BatchSize)

\* Somebody will bring log l to its top.
Pending(l) ==
  \/ applied[l] = top[l]
  \/ notifying[l] > 0
  \/ l \in queued
  \/ \E e \in EbusWorkers : hlog[e] = l /\ hpc[e] \in {"start", "emit"}
  \/ jobs[l] = 1
  \/ \E j \in JobWorkers : WillSee(j, l)

\* A count that is not zero has somebody who will reset it.
Carried(l) ==
  requests[l] # 0 => \/ jobs[l] = 1
                     \/ \E e \in EbusWorkers : Emitting(e, l)
                     \/ \E j \in JobWorkers : Running(j, l)

\* A count that a job has loaded does not decrease under it.
LoadedCount ==
  \A j \in JobWorkers :
    jpc[j] \in {"apply", "store", "cas"} => jreq[j] <= requests[jlog[j]]

Wake ==
  /\ LoadedCount
  /\ fails = 0 => \A l \in Logs : Carried(l) /\ Pending(l)

\* Every step keeps the count that a job has read at or below the count of requests.
LEMMA LoadedCountStep == ASSUME IInv, LoadedCount, [Next]_vars PROVE LoadedCount'
<1>1. ASSUME NEW e \in EbusWorkers, BusStep(e) \/ EmitFail(e) PROVE LoadedCount'
  BY <1>1 DEF BusStep, Pop, Start, Emit, EmitFail, IInv, TypeOK, LoadedCount, jobVars
<1>2. ASSUME NEW l \in Logs, AddOp(l) \/ Notify(l) PROVE LoadedCount'
  BY <1>2, Zenon DEF AddOp, Notify, LoadedCount, jobVars
<1>3. CASE UNCHANGED vars
  BY <1>3, Zenon DEF vars, LoadedCount, jobVars
<1>4. ASSUME NEW j \in JobWorkers, Take(j) \/ Load(j) \/ ApplyBatch(j) \/ ApplyStore(j) \/ NoMemory(j)
      PROVE LoadedCount'
  <2>1. CASE Take(j)
    BY <2>1, Zenon DEF Take, IInv, TypeOK, LoadedCount
  <2>2. CASE Load(j)
    <3>1. \A n \in Nat : n <= n
      OBVIOUS
    <3> QED BY <2>2, <3>1, Zenon DEF Load, IInv, TypeOK, LoadedCount
  <2>3. CASE ApplyBatch(j)
    BY <2>3, Zenon DEF ApplyBatch, IInv, TypeOK, LoadedCount
  <2>4. CASE ApplyStore(j)
    BY <2>4, Zenon DEF ApplyStore, IInv, TypeOK, LoadedCount
  <2>5. CASE NoMemory(j)
    BY <2>5, Zenon DEF NoMemory, IInv, TypeOK, LoadedCount
  <2> QED BY <1>4, <2>1, <2>2, <2>3, <2>4, <2>5, Zenon
<1>5. ASSUME NEW j \in JobWorkers, Reset(j) PROVE LoadedCount'
  <2>1. ASSUME NEW k \in JobWorkers, k # j, jpc[k] # "idle" PROVE jlog[k] # jlog[j]
    BY <1>5, <2>1, Zenon DEF Reset, IInv, TypeOK, SingleApplier, Running
  <2> QED BY <1>5, <2>1 DEF Reset, IInv, TypeOK, LoadedCount
<1> QED BY <1>1, <1>2, <1>3, <1>4, <1>5, Zenon DEF Next, JobStep

\* While nothing fails, a step of a bus worker loses no log that has entries to apply.
LEMMA WakeBus ==
  ASSUME IInv, Wake, NEW e \in EbusWorkers, BusStep(e), fails = 0, NEW l \in Logs
  PROVE  Carried(l)' /\ Pending(l)'
<1>1. Carried(l) /\ Pending(l) /\ LoadedCount
  BY Zenon DEF Wake
<1>2. CASE Pop(e)
  <2>1. Carried(l)'
    BY <1>1, <1>2, Zenon DEF Pop, Carried, Emitting, Running, IInv, TypeOK, jobVars
  <2>2. Pending(l)'
    BY <1>1, <1>2 DEF Pop, Pending, WillSee, Running, IInv, TypeOK, jobVars, logVars
  <2> QED BY <2>1, <2>2, Zenon
<1>3. CASE Start(e)
  <2>1. CASE hlog[e] # l
    <3>1. Carried(l)'
      BY <1>1, <1>3, <2>1, Zenon
         DEF Start, Carried, Emitting, Running, IInv, TypeOK, jobVars
    <3>2. Pending(l)'
      BY <1>1, <1>3, <2>1, Zenon
         DEF Start, Pending, WillSee, Running, IInv, TypeOK, jobVars, logVars
    <3> QED BY <3>1, <3>2
  <2>2. CASE hlog[e] = l /\ requests[l] = 0
    <3>1. hlog'[e] = l /\ hpc'[e] = "emit"
      BY <1>3, <2>2, Zenon DEF Start, IInv, TypeOK
    <3> QED BY <3>1, Zenon DEF Carried, Pending, Emitting
  <2>3. CASE hlog[e] = l /\ requests[l] # 0
    <3>1. /\ requests'[l] = requests[l] + 1
          /\ hpc' = [hpc EXCEPT ![e] = "idle"] /\ hlog' = hlog
          /\ UNCHANGED jobVars
      BY <1>3, <2>3, Zenon DEF Start, IInv, TypeOK
    <3>2. CASE jobs[l] = 1
      BY <3>1, <3>2, Zenon DEF Carried, Pending, jobVars
    <3>3. CASE \E f \in EbusWorkers : Emitting(f, l)
      <4>1. PICK f \in EbusWorkers : Emitting(f, l)
        BY <3>3, Zenon
      <4>2. hlog'[f] = l /\ hpc'[f] = "emit"
        BY <1>3, <3>1, <4>1, Zenon DEF Start, Emitting, IInv, TypeOK
      <4> QED BY <4>2, Zenon DEF Carried, Pending, Emitting
    <3>4. CASE \E j \in JobWorkers : Running(j, l)
      <4>1. PICK j \in JobWorkers : Running(j, l)
        BY <3>4, Zenon
      <4>2. Running(j, l)'
        BY <3>1, <4>1, Zenon DEF Running, jobVars
      <4>3. jpc'[j] \in {"load", "apply"} \/ jreq'[j] # requests'[l]
        BY <1>1, <3>1, <4>1 DEF LoadedCount, Running, IInv, TypeOK, JobSteps, jobVars
      <4> QED BY <4>2, <4>3, Zenon DEF Carried, Pending, WillSee
    <3> QED BY <1>1, <2>3, <3>2, <3>3, <3>4, Zenon DEF Carried
  <2> QED BY <2>1, <2>2, <2>3, Zenon
<1>4. CASE Emit(e)
  <2>1. CASE hlog[e] = l
    <3>1. jobs'[l] = 1
      <4>1. jobs[l] = 0
        <5>1. jobs[l] \in Nat /\ Emitting(e, l)
          BY <1>4, <2>1, Zenon DEF Emit, Emitting, IInv, TypeOK
        <5>2. jobs[l] <= 1 /\ jobs[l] # 1
          BY <5>1, Zenon DEF IInv, SingleApplier
        <5> QED BY <5>1, <5>2
      <4> QED BY <1>4, <2>1, <4>1 DEF Emit, IInv, TypeOK
    <3> QED BY <3>1, Zenon DEF Carried, Pending
  <2>2. CASE hlog[e] # l
    <3>1. Carried(l)'
      BY <1>1, <1>4, <2>2, Zenon DEF Emit, Carried, Emitting, Running, IInv, TypeOK
    <3>2. Pending(l)'
      BY <1>1, <1>4, <2>2, Zenon
         DEF Emit, Pending, WillSee, Running, IInv, TypeOK, logVars
    <3> QED BY <3>1, <3>2
  <2> QED BY <2>1, <2>2, Zenon
<1> QED BY <1>2, <1>3, <1>4, Zenon DEF BusStep

\* Nor does a step of a job worker ...
LEMMA WakeJob ==
  ASSUME IInv, Wake, NEW j \in JobWorkers, JobStep(j), fails' = 0, fails = 0, NEW l \in Logs
  PROVE  Carried(l)' /\ Pending(l)'
<1>1. Carried(l) /\ Pending(l) /\ LoadedCount
  BY Zenon DEF Wake
<1>2. CASE Take(j)
  <2>1. PICK m \in Logs : /\ jobs[m] > 0
                          /\ jobs' = [jobs EXCEPT ![m] = @ - 1]
                          /\ jlog' = [jlog EXCEPT ![j] = m]
    BY <1>2, Zenon DEF Take
  <2>2. CASE m = l
    <3>1. Running(j, l)' /\ jpc'[j] = "load"
      BY <1>2, <2>1, <2>2 DEF Take, Running, IInv, TypeOK
    <3> QED BY <3>1, Zenon DEF Carried, Pending, WillSee
  <2>3. CASE m # l
    <3>1. Carried(l)'
      BY <1>1, <1>2, <2>1, <2>3
         DEF Take, Carried, Emitting, Running, IInv, TypeOK, handlerVars
    <3>2. Pending(l)'
      BY <1>1, <1>2, <2>1, <2>3
         DEF Take, Pending, WillSee, Running, IInv, TypeOK, handlerVars, logVars
    <3> QED BY <3>1, <3>2, Zenon
  <2> QED BY <2>2, <2>3, Zenon
<1>3. CASE Load(j)
  <2>1. Carried(l)'
    BY <1>1, <1>3, Zenon DEF Load, Carried, Emitting, Running, IInv, TypeOK, handlerVars
  <2>2. Pending(l)'
    BY <1>1, <1>3, Zenon
       DEF Load, Pending, WillSee, Running, IInv, TypeOK, handlerVars, logVars
  <2> QED BY <2>1, <2>2, Zenon
<1>4. CASE ApplyBatch(j)
  <2>1. Carried(l)'
    BY <1>1, <1>4, Zenon
       DEF ApplyBatch, Carried, Emitting, Running, IInv, TypeOK, handlerVars
  <2>2. CASE jlog[j] = l
    <3>1. PICK end \in applied[l] .. top[l] :
            /\ jto' = [jto EXCEPT ![j] = end]
            /\ end = top[l] \/ end = applied[l] + BatchSize
      <4>1. applied[l] \in Nat /\ top[l] \in Nat /\ BatchSize \in Nat
        BY CommitterAssumption, Zenon DEF IInv, TypeOK
      <4>2. fails' # fails + 1
        OBVIOUS
      <4> QED BY <1>4, <2>2, <4>1, <4>2, Zenon DEF ApplyBatch
    <3>a. /\ jto'[j] = end /\ jfrom'[j] = applied[l] /\ top'[l] = top[l]
          /\ applied[l] \in Nat /\ BatchSize \in Nat
      <4>1. applied[l] \in Nat /\ BatchSize \in Nat
        BY CommitterAssumption, Zenon DEF IInv, TypeOK
      <4>2. jto \in [JobWorkers -> Nat] /\ jfrom \in [JobWorkers -> Nat]
        BY Zenon DEF IInv, TypeOK
      <4>3. jfrom' = [jfrom EXCEPT ![j] = applied[l]] /\ top' = top
        BY <1>4, <2>2, Zenon DEF ApplyBatch, logVars
      <4> QED BY <3>1, <4>1, <4>2, <4>3, Zenon
    <3>2. jto'[j] = top'[l] \/ jto'[j] - jfrom'[j] >= BatchSize
      <4>1. CASE end = top[l]
        BY <3>a, <4>1, Zenon
      <4>2. CASE end = applied[l] + BatchSize
        BY <3>a, <4>2
      <4> QED BY <3>1, <4>1, <4>2, Zenon
    <3>3. Running(j, l)' /\ jpc'[j] = "store"
      BY <1>4, <2>2, Zenon DEF ApplyBatch, Running, IInv, TypeOK
    <3>4. WillSee(j, l)'
      BY <3>2, <3>3, Zenon DEF WillSee
    <3> QED BY <2>1, <3>4, Zenon DEF Pending
  <2>3. CASE jlog[j] # l
    <3>1. \A k \in JobWorkers : WillSee(k, l) => WillSee(k, l)'
      BY <1>4, <2>3 DEF ApplyBatch, WillSee, Running, IInv, TypeOK, handlerVars, logVars
    <3>2. Pending(l)'
      BY <1>1, <1>4, <3>1, Zenon DEF ApplyBatch, Pending, handlerVars, logVars
    <3> QED BY <2>1, <3>2
  <2> QED BY <2>2, <2>3, Zenon
<1>5. CASE ApplyStore(j)
  <2>1. Carried(l)'
    BY <1>1, <1>5, Zenon
       DEF ApplyStore, Carried, Emitting, Running, IInv, TypeOK, handlerVars
  <2>2. CASE jlog[j] # l
    <3>1. \A k \in JobWorkers : WillSee(k, l) => WillSee(k, l)'
      BY <1>5, <2>2, Zenon DEF ApplyStore, WillSee, Running, IInv, TypeOK, handlerVars
    <3>2. applied'[l] = applied[l]
      BY <1>5, <2>2, Zenon DEF ApplyStore, IInv, TypeOK
    <3>3. Pending(l)'
      BY <1>1, <1>5, <3>1, <3>2, Zenon DEF ApplyStore, Pending, handlerVars
    <3> QED BY <2>1, <3>3
  <2>3. CASE jlog[j] = l
    <3>1. /\ Running(j, l) /\ jpc[j] = "store" /\ Running(j, l)'
          /\ applied'[l] = jto[j]
          /\ jpc'[j] = IF jto[j] - jfrom[j] >= BatchSize THEN "apply" ELSE "cas"
          /\ UNCHANGED <<top, handlerVars, requests, jobs, jreq, jto, jfrom>>
      BY <1>5, <2>3, Zenon DEF ApplyStore, Running, IInv, TypeOK
    <3>2. \A k \in JobWorkers : WillSee(k, l) => k = j
      BY <3>1, Zenon DEF WillSee, IInv, SingleApplier
    <3>3. CASE jto[j] = top[l]
      BY <2>1, <3>1, <3>3, Zenon DEF Pending
    <3>4. CASE jto[j] - jfrom[j] >= BatchSize
      BY <2>1, <3>1, <3>4, Zenon DEF Pending, WillSee
    <3>5. CASE jreq[j] # requests[l]
      BY <2>1, <3>1, <3>5, Zenon DEF Pending, WillSee
    <3>6. CASE /\ jto[j] # top[l] /\ ~(jto[j] - jfrom[j] >= BatchSize)
               /\ jreq[j] = requests[l]
      <4>1. ~\E k \in JobWorkers : WillSee(k, l)
        BY <3>1, <3>2, <3>6, Zenon DEF WillSee
      <4>2. applied[l] # top[l]
        BY <2>3, <3>1, <3>6 DEF IInv, TypeOK, Positions
      <4> QED BY <1>1, <2>1, <3>1, <4>1, <4>2, Zenon DEF Pending, handlerVars
    <3> QED BY <3>3, <3>4, <3>5, <3>6, Zenon
  <2> QED BY <2>2, <2>3, Zenon
<1>6. CASE Reset(j)
  <2>1. CASE jlog[j] # l
    <3>1. Carried(l)'
      BY <1>1, <1>6, <2>1, Zenon
         DEF Reset, Carried, Emitting, Running, IInv, TypeOK, handlerVars
    <3>2. \A k \in JobWorkers : WillSee(k, l) => WillSee(k, l)'
      BY <1>6, <2>1 DEF Reset, WillSee, Running, IInv, TypeOK, handlerVars, logVars
    <3>3. Pending(l)'
      BY <1>1, <1>6, <3>2, Zenon DEF Reset, Pending, handlerVars, logVars
    <3> QED BY <3>1, <3>3
  <2>2. CASE jlog[j] = l /\ requests[l] # jreq[j]
    <3>1. Running(j, l)' /\ jpc'[j] = "apply"
      BY <1>6, <2>2, Zenon DEF Reset, Running, IInv, TypeOK
    <3> QED BY <3>1, Zenon DEF Carried, Pending, WillSee
  <2>3. CASE jlog[j] = l /\ requests[l] = jreq[j]
    <3>1. Running(j, l) /\ jpc[j] = "cas" /\ requests'[l] = 0
      BY <1>6, <2>3, Zenon DEF Reset, Running, IInv, TypeOK
    <3>2. Carried(l)'
      BY <3>1, Zenon DEF Carried
    <3>3. ~\E k \in JobWorkers : WillSee(k, l)
      <4>1. \A k \in JobWorkers : WillSee(k, l) => k = j
        BY <3>1, Zenon DEF WillSee, IInv, SingleApplier
      <4> QED BY <2>3, <3>1, <4>1, Zenon DEF WillSee
    <3>4. Pending(l)'
      BY <1>1, <1>6, <3>3, Zenon DEF Reset, Pending, handlerVars, logVars
    <3> QED BY <3>2, <3>4
  <2> QED BY <2>1, <2>2, <2>3, Zenon
<1> QED BY <1>2, <1>3, <1>4, <1>5, <1>6, Zenon DEF JobStep

\* ... nor one of a writer, with one log: its event is not taken for that of another.
LEMMA WakeWriter ==
  ASSUME IInv, Wake, fails = 0, \A l, m \in Logs : l = m,
         NEW w \in Logs, AddOp(w) \/ Notify(w), NEW l \in Logs
  PROVE  Carried(l)' /\ Pending(l)'
<1>1. Carried(l) /\ Pending(l) /\ w = l
  BY Zenon DEF Wake
<1>2. Carried(l)'
  BY <1>1, Zenon DEF AddOp, Notify, Carried, Emitting, Running, jobVars
<1>3. CASE AddOp(w)
  <2>1. notifying'[l] > 0
    BY <1>1, <1>3 DEF AddOp, IInv, TypeOK
  <2> QED BY <1>2, <2>1, Zenon DEF Pending
<1>4. CASE Notify(w)
  <2>1. l \in queued'
    BY <1>1, <1>4 DEF Notify, IInv, TypeOK
  <2> QED BY <1>2, <2>1, Zenon DEF Pending
<1> QED BY <1>3, <1>4, Zenon

\* Every step keeps Wake.
LEMMA WakeStep ==
  ASSUME \A l, m \in Logs : l = m, IInv, Wake, [Next]_vars
  PROVE  Wake'
<1>1. LoadedCount'
  BY LoadedCountStep, Zenon DEF Wake
<1>2. ASSUME fails' = 0, NEW l \in Logs PROVE Carried(l)' /\ Pending(l)'
  <2>1. fails = 0 /\ ~(\E e \in EbusWorkers : EmitFail(e)) /\ ~(\E j \in JobWorkers : NoMemory(j))
    <3>1. fails \in Nat
      BY Zenon DEF IInv, TypeOK
    <3>2. ASSUME NEW k \in Logs, AddOp(k) \/ Notify(k) PROVE fails' = fails
      BY <3>2, Zenon DEF AddOp, Notify
    <3>3. ASSUME NEW e \in EbusWorkers, BusStep(e) PROVE fails' = fails
      BY <3>3, Zenon DEF BusStep, Pop, Start, Emit
    <3>4. ASSUME NEW e \in EbusWorkers, EmitFail(e) PROVE fails' = fails + 1
      BY <3>4, Zenon DEF EmitFail
    <3>5. ASSUME NEW j \in JobWorkers, Take(j) \/ Load(j) \/ ApplyStore(j) \/ Reset(j)
          PROVE  fails' = fails
      BY <3>5, Zenon DEF Take, Load, ApplyStore, Reset
    <3>6. ASSUME NEW j \in JobWorkers, ApplyBatch(j) PROVE fails' \in {fails, fails + 1}
      BY <3>6, Zenon DEF ApplyBatch
    <3>7. ASSUME NEW j \in JobWorkers, NoMemory(j) PROVE fails' = fails + 1
      BY <3>7, Zenon DEF NoMemory
    <3>8. fails' # fails + 1
      BY <1>2, <3>1
    <3>9. fails' \in {fails, fails + 1}
      BY <3>2, <3>3, <3>4, <3>5, <3>6, <3>7, Zenon DEF Next, JobStep, vars
    <3> QED BY <1>2, <3>4, <3>7, <3>8, <3>9, Zenon
  <2>2. CASE UNCHANGED vars
    <3>1. Carried(l) /\ Pending(l)
      BY <2>1, Zenon DEF Wake
    <3> QED BY <2>2, <3>1, Zenon
               DEF vars, logVars, handlerVars, jobVars, Carried, Pending, Emitting,
                              Running, WillSee
  <2> QED BY <1>2, <2>1, <2>2, WakeBus, WakeJob, WakeWriter, Zenon DEF Next
<1> QED BY <1>1, <1>2, Zenon DEF Wake

\* Nothing waits to be applied at the start.
LEMMA WakeInit == Init => Wake
  BY DEF Init, Wake, LoadedCount, Carried, Pending

\* When all is quiet the log has been applied: mdv_committer_fn cannot miss a request
\* that arrives while it finishes.  The theorem is about a node with one log, because
\* with two the unique event of one log suppresses that of the other (see the
\* run committer_unique).
THEOREM CommitterNoLostWakeup ==
  ASSUME \A l, m \in Logs : l = m
  PROVE  Spec => []NoLostWakeup
<1>1. ASSUME IInv, Wake PROVE NoLostWakeup
  <2>1. ASSUME NEW l \in Logs, Quiet(l), fails = 0 PROVE applied[l] = top[l]
    <3>1. Pending(l) /\ requests[l] = 0
      BY <1>1, <2>1, Zenon DEF Wake, Quiet
    <3>2. jobs[l] = 0 /\ \A j \in JobWorkers : ~Running(j, l)
      BY <1>1, <3>1, Zenon DEF IInv, CountIsLock
    <3> QED BY <2>1, <3>1, <3>2 DEF Pending, Quiet, WillSee
  <2> QED BY <2>1, Zenon DEF NoLostWakeup
<1>2. IInv /\ Wake /\ [Next]_vars => Wake'
  BY WakeStep, Zenon
<1> QED BY <1>1, <1>2, WakeInit, CommitterInvariant, PTL DEF Spec
=============================================================================
