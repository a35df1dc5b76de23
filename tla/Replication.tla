---------------------------- MODULE Replication ----------------------------
(***************************************************************************)
(* How the log of one node reaches a peer (mdv_core/mdv_syncerlog.c on the *)
(* sending node, mdv_core/mdv_syncer.c on the receiving one):              *)
(*                                                                         *)
(*   sender    TRLOG_CHANGED -> SYNC                                       *)
(*   receiver  SYNC -> STATE (top of its copy)                             *)
(*   sender    STATE -> ranges of the log claimed for send jobs -> DATA    *)
(*   receiver  DATA -> save job -> STATE                                   *)
(*                                                                         *)
(* A message is published on the event bus of the node that receives it,   *)
(* which spreads its events over several queues and worker threads, and    *)
(* jobs are spread the same way: messages and jobs are taken in any order. *)
(* The receiver's copy is a TrLog reduced to its committed steps.          *)
(***************************************************************************)
EXTENDS Integers, FiniteSetsExt

CONSTANTS Workers,      \* workers of the sender's bus that handle STATE
          BatchSize,    \* MDV_CONFIG.datasync.batch_size
          MaxTop,       \* bound on the operations of the log
          MaxFault      \* bound on lost connections and on messages, jobs and
                        \* transactions that fail, taken together

ASSUME ReplicationAssumption == /\ BatchSize \in Nat \ {0}
                                /\ MaxTop \in Nat
                                /\ MaxFault \in Nat

VARIABLES
  top,             \* sender: top of the log
  changed,         \* sender: a TRLOG_CHANGED event is queued
  requests,        \* sender: syncerlog->requests
  synced,          \* sender: syncerlog->synced
  pc,              \* per worker: step of mdv_syncerlog_schedule
  wreq, wsynced,   \* per worker: its requests and synced
  wtop,            \* per worker: its trlog_top
  sends,           \* sender: ranges of the queued send jobs
  syncs, states,   \* SYNC messages, and STATE messages per top, on their way
  datas,           \* ranges of the DATA messages on their way
  saves,           \* receiver: ranges of the queued save jobs
  entries, rtop,   \* receiver: keys and top of its copy
  applied, done,   \* receiver: applied position and operations applied
  fails, reconnects

workerVars   == <<pc, wreq, wsynced, wtop>>
senderVars   == <<requests, synced, workerVars>>
messageVars  == <<syncs, states, datas>>
receiverVars == <<saves, entries, rtop, applied, done>>
boundVars    == <<fails, reconnects>>
vars == <<top, changed, senderVars, sends, messageVars, receiverVars, boundVars>>

Positions(r) == r[1] .. r[2] - 1
Ranges   == {r \in (0 .. MaxTop) \X (0 .. MaxTop) : r[1] < r[2]}

Init ==
  /\ top = 0 /\ changed = FALSE
  /\ requests = 0 /\ synced = 0
  /\ pc = [w \in Workers |-> "idle"]
  /\ wreq = [w \in Workers |-> 0]
  /\ wsynced = [w \in Workers |-> 0]
  /\ wtop = [w \in Workers |-> 0]
  /\ sends = {}
  /\ syncs = 0 /\ states = [p \in 0 .. MaxTop |-> 0] /\ datas = {}
  /\ saves = {} /\ entries = {} /\ rtop = 0
  /\ applied = 0 /\ done = {}
  /\ fails = 0 /\ reconnects = 0

Failure == fails + reconnects < MaxFault /\ fails' = fails + 1

-----------------------------------------------------------------------------
(* The sender.                                                             *)

\* An operation is committed and announced.
Append ==
  /\ top < MaxTop
  /\ top' = top + 1
  /\ changed' = TRUE
  /\ UNCHANGED <<senderVars, sends, messageVars, receiverVars, boundVars>>

\* mdv_syncerlog_start, called by the handler of TRLOG_CHANGED: the request is
\* counted, and the first one sends SYNC; if that fails the count is reset.
Start ==
  /\ changed
  /\ changed' = FALSE
  /\ \/ /\ requests' = requests + 1
        /\ syncs' = IF requests = 0 THEN syncs + 1 ELSE syncs
        /\ UNCHANGED fails
     \/ /\ requests = 0
        /\ Failure
        /\ UNCHANGED <<requests, syncs>>
  /\ UNCHANGED <<top, synced, workerVars, sends, states, datas, receiverVars, reconnects>>

\* mdv_syncerlog_schedule is called with the top that a STATE message reports.
Schedule(w, pos) ==
  /\ pc[w] = "idle"
  /\ states[pos] > 0
  /\ states' = [states EXCEPT ![pos] = @ - 1]
  /\ wreq' = [wreq EXCEPT ![w] = requests]
  /\ wsynced' = [wsynced EXCEPT ![w] = Max({synced, pos})]
  /\ pc' = [pc EXCEPT ![w] = "top"]
  /\ UNCHANGED <<top, changed, requests, synced, wtop, sends, syncs, datas, receiverVars, boundVars>>

\* The top is read; there may be nothing to send.
ReadTop(w) ==
  /\ pc[w] = "top"
  /\ wtop' = [wtop EXCEPT ![w] = top]
  /\ pc' = [pc EXCEPT ![w] = IF wsynced[w] >= top THEN "reset" ELSE "claim"]
  /\ UNCHANGED <<top, changed, requests, synced, wreq, wsynced, sends, messageVars, receiverVars, boundVars>>

RRange(w) == Min({wtop[w], wsynced[w] + BatchSize})

\* Mutant: synced moves to the top although only a batch is sent.
ClaimAllMut(w) ==
  /\ pc[w] = "claim"
  /\ IF synced = wsynced[w]
       THEN /\ synced' = wtop[w]
            /\ wsynced' = [wsynced EXCEPT ![w] = RRange(w)]
            /\ sends' = sends \cup {<<wsynced[w], RRange(w)>>}
            /\ pc' = [pc EXCEPT ![w] = IF RRange(w) < wtop[w] THEN "top" ELSE "reset"]
       ELSE /\ wsynced' = [wsynced EXCEPT ![w] = synced]
            /\ pc' = [pc EXCEPT ![w] = "top"]
            /\ UNCHANGED <<synced, sends>>
  /\ UNCHANGED <<top, changed, requests, wreq, wtop, messageVars, receiverVars, boundVars>>

\* The range is claimed by a compare-and-exchange of synced and a job is queued
\* for it.  If the exchange fails, the worker goes on from the value it found.
Claim(w) ==
  /\ pc[w] = "claim"
  /\ IF synced = wsynced[w]
       THEN /\ synced' = RRange(w)
            /\ wsynced' = [wsynced EXCEPT ![w] = RRange(w)]
            /\ \/ /\ sends' = sends \cup {<<wsynced[w], RRange(w)>>}
                  /\ UNCHANGED fails
               \/ Failure /\ UNCHANGED sends
            /\ pc' = [pc EXCEPT ![w] = IF RRange(w) < wtop[w] THEN "top" ELSE "reset"]
       ELSE /\ wsynced' = [wsynced EXCEPT ![w] = synced]
            /\ pc' = [pc EXCEPT ![w] = "top"]
            /\ UNCHANGED <<synced, sends, fails>>
  /\ UNCHANGED <<top, changed, requests, wreq, wtop, messageVars, receiverVars, reconnects>>

\* Mutant: the count is not reset.
ResetMut(w) ==
  /\ pc[w] = "reset"
  /\ pc' = [pc EXCEPT ![w] = "idle"]
  /\ UNCHANGED <<top, changed, requests, synced, wreq, wsynced, wtop, sends, messageVars, receiverVars, boundVars>>

\* The count of requests is reset if it did not change, and the function returns;
\* otherwise all over again.
Reset(w) ==
  /\ pc[w] = "reset"
  /\ IF requests = wreq[w]
       THEN /\ requests' = 0
            /\ pc' = [pc EXCEPT ![w] = "idle"]
            /\ wreq' = [wreq EXCEPT ![w] = 0]
            /\ wsynced' = [wsynced EXCEPT ![w] = 0]
            /\ wtop' = [wtop EXCEPT ![w] = 0]
       ELSE /\ wreq' = [wreq EXCEPT ![w] = requests]
            /\ pc' = [pc EXCEPT ![w] = "top"]
            /\ UNCHANGED <<requests, wsynced, wtop>>
  /\ UNCHANGED <<top, changed, synced, sends, messageVars, receiverVars, boundVars>>

\* A job reads its range of the log and posts it.  A failure is only logged.
Send ==
  /\ \E r \in sends :
       /\ sends' = sends \ {r}
       /\ \/ datas' = datas \cup {r} /\ UNCHANGED fails
          \/ Failure /\ UNCHANGED datas
  /\ UNCHANGED <<top, changed, senderVars, syncs, states, receiverVars, reconnects>>

-----------------------------------------------------------------------------
(* The receiver.                                                           *)

\* mdv_syncer_evt_trlog_sync answers with STATE, unless the bus does not take it.
AnswerSync ==
  /\ syncs > 0
  /\ syncs' = syncs - 1
  /\ \/ states' = [states EXCEPT ![rtop] = @ + 1] /\ UNCHANGED fails
     \/ Failure /\ UNCHANGED states
  /\ UNCHANGED <<top, changed, senderVars, sends, datas, receiverVars, reconnects>>

\* mdv_syncer_evt_trlog_data queues a save job, or drops the data.
Receive ==
  /\ \E r \in datas :
       /\ datas' = datas \ {r}
       /\ \/ saves' = saves \cup {r} /\ UNCHANGED fails
          \/ Failure /\ UNCHANGED saves
  /\ UNCHANGED <<top, changed, senderVars, sends, syncs, states, entries, rtop, applied, done, reconnects>>

\* Mutant: top is maximized with the position after the last one, plus one.
SaveMut ==
  /\ \E r \in saves :
       /\ saves' = saves \ {r}
       /\ entries' = entries \cup Positions(r)
       /\ rtop' = Max({rtop, r[2] + 1})
  /\ states' = [states EXCEPT ![rtop] = @ + 1]
  /\ UNCHANGED <<top, changed, senderVars, sends, syncs, datas, applied, done, boundVars>>

\* mdv_syncer_data_save_fn: mdv_trlog_add, then STATE with the top it has left.  If
\* the transaction fails, top may have been moved up already.
Save ==
  /\ \E r \in saves :
       /\ saves' = saves \ {r}
       /\ \/ /\ entries' = entries \cup Positions(r)
             /\ rtop' = Max({rtop, r[2]})
             /\ UNCHANGED fails
          \/ /\ Failure
             /\ rtop' \in {rtop, Max({rtop, r[2]})}
             /\ UNCHANGED entries
  /\ states' = [states EXCEPT ![rtop'] = @ + 1]
  /\ UNCHANGED <<top, changed, senderVars, sends, syncs, datas, applied, done, reconnects>>

\* mdv_trlog_apply on the copy: what is stored from the applied position on.
Apply ==
  /\ applied < rtop
  /\ LET batch == {p \in entries : p >= applied} IN
       /\ batch # {}
       /\ done' = done \cup batch
       /\ applied' = Max(batch) + 1
  /\ UNCHANGED <<top, changed, senderVars, sends, messageVars, saves, entries, rtop, boundVars>>

-----------------------------------------------------------------------------
\* The connection is lost and established again.  mdv_syncer_topology_changed
\* frees the synchronizer of the peer, which waits for its handlers and jobs, and
\* creates a new one, which starts at once unless the log is empty.  Messages are
\* lost; the receiver may lose its queued jobs with its process.
Reconnect ==
  /\ fails + reconnects < MaxFault
  /\ reconnects' = reconnects + 1
  /\ \A w \in Workers : pc[w] = "idle"
  /\ synced' = 0
  /\ requests' = IF top = 0 THEN 0 ELSE 1
  /\ syncs' = IF top = 0 THEN 0 ELSE 1
  /\ sends' = {} /\ datas' = {}
  /\ states' = [p \in 0 .. MaxTop |-> 0]
  /\ saves' \in {saves, {}}
  /\ UNCHANGED <<top, changed, workerVars, entries, rtop, applied, done, fails>>

WorkerStep(w) ==
  (\E pos \in 0 .. MaxTop : Schedule(w, pos)) \/ ReadTop(w) \/ Claim(w) \/ Reset(w)

Next ==
  \/ Append \/ Start \/ Send
  \/ \E w \in Workers : WorkerStep(w)
  \/ AnswerSync \/ Receive \/ Save \/ Apply
  \/ Reconnect

\* Threads poll their queues and the connection delivers what is sent on it; a job
\* that is taken in any order is taken some time.
Fairness ==
  /\ WF_vars(Start) /\ WF_vars(Send)
  /\ \A w \in Workers : WF_vars(WorkerStep(w))
  /\ WF_vars(AnswerSync) /\ WF_vars(Receive) /\ WF_vars(Save) /\ WF_vars(Apply)

Spec     == Init /\ [][Next]_vars
FairSpec == Spec /\ Fairness

-----------------------------------------------------------------------------
\* The types of the state.
TypeOK ==
  /\ top \in 0 .. MaxTop /\ changed \in BOOLEAN
  /\ requests \in Nat /\ synced \in 0 .. MaxTop
  /\ pc \in [Workers -> {"idle", "top", "claim", "reset"}]
  /\ wreq \in [Workers -> Nat]
  /\ wsynced \in [Workers -> 0 .. MaxTop] /\ wtop \in [Workers -> 0 .. MaxTop]
  /\ sends \subseteq Ranges /\ datas \subseteq Ranges /\ saves \subseteq Ranges
  /\ syncs \in Nat /\ states \in [0 .. MaxTop -> Nat]
  /\ entries \subseteq 0 .. MaxTop - 1 /\ done \subseteq 0 .. MaxTop - 1
  /\ rtop \in 0 .. MaxTop /\ applied \in 0 .. MaxTop
  /\ fails \in Nat /\ reconnects \in Nat

InFlight == UNION {Positions(r) : r \in sends \cup datas \cup saves}

\* Every operation below synced has reached the peer or is on its way, although
\* several STATE messages are handled at once and synced moves before a job is
\* queued: nothing falls between two claims.
ClaimedIsCovered ==
  fails = 0 => 0 .. synced - 1 \subseteq entries \cup InFlight

\* No operation is sent twice over one connection: the ranges on their way do not
\* overlap and all end at or below synced, where the next claim starts.
ClaimsDisjoint ==
  \A r, s \in sends \cup datas :
    /\ r[2] <= synced
    /\ r # s => Positions(r) \cap Positions(s) = {}

\* The copy holds operations of the log only, and its top is never above the log's.
CopyOfLog ==
  /\ entries \cup InFlight \subseteq 0 .. top - 1
  /\ \A p \in entries : p < rtop
  /\ rtop <= top

\* A request is never left without the answer that would reset it: later changes
\* of the log would not be announced any more.
RequestsAreServed ==
  fails = 0 /\ requests > 0 =>
    \/ syncs > 0
    \/ \E p \in 0 .. MaxTop : states[p] > 0
    \/ \E w \in Workers : pc[w] # "idle"

\* Every operation of the log is eventually stored by the peer, unless a failure
\* happens or the connection is lost.
EventuallyReplicated ==
  \A p \in 0 .. MaxTop - 1 :
    top > p ~> p \in entries \/ fails > 0 \/ reconnects > 0

\* Every operation of the log is eventually applied by the peer.
EventuallyApplied == \A p \in 0 .. MaxTop - 1 : top > p ~> p \in done
=============================================================================
