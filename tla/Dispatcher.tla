----------------------------- MODULE Dispatcher -----------------------------
(***************************************************************************)
(* The requests of a client (mdv_api/mdv_client.c, mdv_connection.c) over  *)
(* the messages dispatcher (mdv_net/mdv_dispatcher.c).  Threads of the     *)
(* application send requests and wait for the answers; a thread of the     *)
(* channel manager reads the answers.  Every connection has a dispatcher   *)
(* of its own, with its own numbers, requests and condition variables.     *)
(*                                                                         *)
(* A dispatcher keeps the descriptor of its socket after the channel       *)
(* manager has closed it.  The system gives the lowest free number to a    *)
(* new socket, so the connection that replaces a lost one is taken to have *)
(* the same descriptor.                                                    *)
(*                                                                         *)
(* Wake-ups of a condition variable without a signal are left out.         *)
(***************************************************************************)
EXTENDS Naturals, FiniteSets

CONSTANTS Callers,      \* threads of the application
          Slots,        \* the MDV_DISP_REQS condition variables of a dispatcher
          NumberSpace,  \* 2^16: message numbers are counted modulo it
          MaxCalls,     \* bound on requests, at most NumberSpace
          MaxSessions,  \* bound on connections
          MaxFail       \* bound on failing writes, allocations and lost connections

ASSUME DispatcherAssumption ==
  /\ IsFiniteSet(Slots)
  /\ NumberSpace \in Nat \ {0}
  /\ MaxCalls \in 0 .. NumberSpace
  /\ MaxSessions \in Nat \ {0}

VARIABLES
  id,        \* pd->id of the dispatcher of each session
  cvs,       \* pd->cvs: its unused condition variables
  requests,  \* pd->requests: number -> registered request
  last,      \* the newest session
  open,      \* its socket is open
  cur,       \* client->connection: the session that new requests use
  wire,      \* requests the server has got whose answers have not been read
  thread,    \* the call of each caller: its step, session, number and err
  calls,     \* history: number of calls so far
  mixed,     \* history: a call returned the answer to another one
  stale,     \* history: a caller wrote into a newer session's socket
  crashed,   \* a null pointer was dereferenced
  fails      \* failures so far

disVars    == <<id, cvs, requests>>
conVars    == <<last, open, cur>>
histVars   == <<calls, mixed, stale, crashed>>
vars       == <<disVars, conVars, wire, thread, histVars, fails>>

Sessions == 1 .. MaxSessions
Steps    == {"idle", "write", "check", "enter", "wait", "finish", "crashed"}

\* A thread that is not inside mdv_dispatcher_send.  "call" is a history field:
\* calls are counted over all callers, from 1.
Idle == [step |-> "idle", sess |-> 1, num |-> 0, err |-> "ok", call |-> 0]

Put(f, k, v) == [x \in DOMAIN f \cup {k} |-> IF x = k THEN v ELSE f[x]]
Erase(f, k)  == [x \in DOMAIN f \ {k} |-> f[x]]

\* The request that caller c registered: its variable "entry".
Entry(c) == requests[thread[c].sess][thread[c].num]

At(c, step)     == thread[c].step = step
Goto(c, step)   == thread' = [thread EXCEPT ![c].step = step]
Return(c)       == thread' = [thread EXCEPT ![c] = Idle]

\* The condition variable returns to the pool and the request leaves the map.
Unregister(c) ==
  /\ cvs' = [cvs EXCEPT ![thread[c].sess] = @ \cup {Entry(c).cv}]
  /\ requests' = [requests EXCEPT ![thread[c].sess] = Erase(@, thread[c].num)]

-----------------------------------------------------------------------------
\* mdv_dispatcher_create, and the first connection of mdv_client_connect.
Init ==
  /\ id = [s \in Sessions |-> 0]
  /\ cvs = [s \in Sessions |-> Slots]
  /\ requests = [s \in Sessions |-> <<>>]
  /\ last = 1 /\ open = TRUE /\ cur = 1
  /\ wire = {}
  /\ thread = [c \in Callers |-> Idle]
  /\ calls = 0 /\ mixed = FALSE /\ stale = FALSE /\ crashed = FALSE /\ fails = 0

\* Mutant: the counter is not advanced.
NextNumberMut(n) == n

\* The 16-bit counter of message numbers.
NextNumber(n) == (n + 1) % NumberSpace

\* Mutant: the condition variable stays in the pool.
TakeSlotMut(free, v) == free

\* mdv_stack_pop.
TakeSlot(free, v) == free \ {v}

\* mdv_client_send retains the current connection, and mdv_dispatcher_send takes
\* the next number of its dispatcher and registers the request with a condition
\* variable of the pool.
Begin(c) ==
  LET v == CHOOSE v \in cvs[cur] : TRUE IN
  /\ At(c, "idle") /\ calls < MaxCalls
  /\ cvs[cur] # {}
  /\ id' = [id EXCEPT ![cur] = NextNumber(@)]
  /\ cvs' = [cvs EXCEPT ![cur] = TakeSlot(@, v)]
  /\ requests' = [requests EXCEPT ![cur] =
       Put(@, id[cur], [caller |-> c, cv |-> v, ready |-> FALSE, resp |-> 0])]
  /\ calls' = calls + 1
  /\ thread' = [thread EXCEPT ![c] = [step |-> "write", sess |-> cur, num |-> id[cur],
                                      err |-> "ok", call |-> calls + 1]]
  /\ UNCHANGED <<conVars, wire, mixed, stale, crashed, fails>>

\* The allocation of the request fails: the condition variable returns to the
\* pool and the call returns MDV_NO_MEM.
BeginFail(c) ==
  /\ At(c, "idle") /\ calls < MaxCalls
  /\ cvs[cur] # {} /\ fails < MaxFail
  /\ id' = [id EXCEPT ![cur] = NextNumber(@)]
  /\ calls' = calls + 1
  /\ fails' = fails + 1
  /\ UNCHANGED <<cvs, requests, conVars, wire, thread, mixed, stale, crashed>>

\* The connection ends: what was under way on it is lost.
Close ==
  /\ open' = FALSE
  /\ wire' = {}

\* The pool is empty: mdv_stack_pop returns a null pointer, which is read
\* before it is compared, and the process ends.
BeginEmpty(c) ==
  /\ At(c, "idle") /\ calls < MaxCalls
  /\ cvs[cur] = {}
  /\ crashed' = TRUE
  /\ thread' = [d \in Callers |-> [thread[d] EXCEPT !.step = "crashed"]]
  /\ Close
  /\ UNCHANGED <<disVars, last, cur, calls, mixed, stale, fails>>

\* mdv_write_msg succeeds on the descriptor, whichever session's socket it is.
Write(c) ==
  /\ At(c, "write") /\ open
  /\ wire' = wire \cup {[num |-> thread[c].num, call |-> thread[c].call]}
  /\ stale' = (stale \/ thread[c].sess # last)
  /\ Goto(c, "check")
  /\ UNCHANGED <<disVars, conVars, calls, mixed, crashed, fails>>

\* It fails: the request is unregistered and the call returns the error.
WriteFail(c) ==
  /\ At(c, "write")
  /\ open => fails < MaxFail
  /\ fails' = IF open THEN fails + 1 ELSE fails
  /\ Unregister(c)
  /\ Return(c)
  /\ UNCHANGED <<id, conVars, wire, histVars>>

\* while(!entry->ready): read without the mutex.
Check(c) ==
  /\ At(c, "check")
  /\ Goto(c, IF Entry(c).ready THEN "finish" ELSE "enter")
  /\ UNCHANGED <<disVars, conVars, wire, histVars, fails>>

\* mdv_condvar_timedwait begins to wait; a signal before this step is lost.
Wait(c) ==
  /\ At(c, "enter")
  /\ Goto(c, "wait")
  /\ UNCHANGED <<disVars, conVars, wire, histVars, fails>>

\* Mutant: a wait that timed out is repeated while there is no answer.
TimeoutMut(c) ==
  /\ At(c, "wait")
  /\ Goto(c, "check")
  /\ UNCHANGED <<disVars, conVars, wire, histVars, fails>>

\* The wait ends with MDV_ETIMEDOUT, which leaves the loop.
Timeout(c) ==
  /\ At(c, "wait")
  /\ thread' = [thread EXCEPT ![c].step = "finish", ![c].err = "timeout"]
  /\ UNCHANGED <<disVars, conVars, wire, histVars, fails>>

\* The answer is taken if it is there and the wait did not time out; the
\* request is unregistered.
Finish(c) ==
  /\ At(c, "finish")
  /\ mixed' = (mixed \/ /\ thread[c].err = "ok" /\ Entry(c).ready
                        /\ Entry(c).resp # thread[c].call)
  /\ Unregister(c)
  /\ Return(c)
  /\ UNCHANGED <<id, conVars, wire, calls, stale, crashed, fails>>

-----------------------------------------------------------------------------
\* Mutant: any request that waits gets the answer.
MatchesMut(n, a) == TRUE

\* The lookup of mdv_dispatcher_read.
Matches(n, a) == n = a.num

\* mdv_dispatcher_read for an answer to a registered request: it is stored and
\* the condition variable is signalled, which wakes the thread that waits on it.
\* The server answers requests in any order, each with the request's number.
Read ==
  /\ open /\ cur = last
  /\ \E a \in wire : \E n \in DOMAIN requests[last] :
       /\ Matches(n, a)
       /\ wire' = wire \ {a}
       /\ requests' = [requests EXCEPT ![last][n] = [@ EXCEPT !.ready = TRUE, !.resp = a.call]]
       /\ LET c == requests[last][n].caller IN
          IF At(c, "wait") THEN Goto(c, "check") ELSE UNCHANGED thread
  /\ UNCHANGED <<id, cvs, conVars, histVars, fails>>

\* An answer to a request that is gone has no handler: mdv_dispatcher_read
\* returns MDV_NO_IMPL, and mdv_chaman_recv_handler closes the connection.
ReadLate ==
  /\ open /\ cur = last
  /\ \E a \in wire : a.num \notin DOMAIN requests[last]
  /\ Close
  /\ UNCHANGED <<disVars, last, cur, thread, histVars, fails>>

\* The network or the server ends the connection.
Disconnect ==
  /\ open /\ fails < MaxFail
  /\ fails' = fails + 1
  /\ Close
  /\ UNCHANGED <<disVars, last, cur, thread, histVars>>

\* The retry of the channel manager opens a new socket, with the descriptor of
\* the one that was closed, and shakes hands.
Dial ==
  /\ ~open /\ ~crashed /\ last < MaxSessions
  /\ last' = last + 1
  /\ open' = TRUE
  /\ UNCHANGED <<disVars, cur, wire, thread, histVars, fails>>

\* mdv_client_channel_create_impl makes it the connection of the client.
Establish ==
  /\ open /\ cur # last
  /\ cur' = last
  /\ UNCHANGED <<disVars, last, open, wire, thread, histVars, fails>>

\* The steps of mdv_dispatcher_send after its beginning.
Proceed(c) ==
  \/ Write(c) \/ WriteFail(c)
  \/ Check(c) \/ Wait(c) \/ Timeout(c) \/ Finish(c)

Next ==
  \/ \E c \in Callers : Begin(c) \/ BeginFail(c) \/ BeginEmpty(c) \/ Proceed(c)
  \/ Read \/ ReadLate \/ Disconnect \/ Dial \/ Establish

Spec == Init /\ [][Next]_vars

\* Threads are scheduled, and a timed wait ends.  Nothing is assumed of the
\* server and of the network.
Fairness == WF_vars(\E c \in Callers : Proceed(c))
LiveSpec == Spec /\ Fairness

-----------------------------------------------------------------------------
\* The type invariant.
TypeOK ==
  /\ id \in [Sessions -> 0 .. NumberSpace - 1]
  /\ cvs \in [Sessions -> SUBSET Slots]
  /\ \A s \in Sessions : \A n \in DOMAIN requests[s] :
       /\ n \in 0 .. NumberSpace - 1
       /\ requests[s][n] \in [caller : Callers, cv : Slots, ready : BOOLEAN, resp : 0 .. MaxCalls]
  /\ last \in Sessions /\ cur \in Sessions /\ open \in BOOLEAN
  /\ thread \in [Callers -> [step : Steps, sess : Sessions, num : 0 .. NumberSpace - 1,
                             err : {"ok", "timeout"}, call : 0 .. MaxCalls]]

\* The entry that a caller of mdv_dispatcher_send reads without the mutex stays
\* in the map until the caller itself erases it: no other request, answer or
\* failure frees it or takes its place.
EntryIsMine ==
  \A c \in Callers : thread[c].step \notin {"idle", "crashed"} =>
    /\ thread[c].num \in DOMAIN requests[thread[c].sess]
    /\ Entry(c).caller = c

\* Every condition variable of a dispatcher is in the pool or belongs to one
\* registered request, on every path of mdv_dispatcher_send: none is lost, and
\* no answer wakes the caller of another request.
SlotsKept ==
  \A s \in Sessions :
    /\ cvs[s] = Slots \ {requests[s][n].cv : n \in DOMAIN requests[s]}
    /\ Cardinality(Slots) = Cardinality(cvs[s]) + Cardinality(DOMAIN requests[s])

\* A call that returns MDV_OK returns the answer to its own request: the message
\* number is "used to associate requests and responses" (mdv_msg.h:13).
AnswerIsOwn == ~mixed

\* AnswerIsOwn holds as long as no caller writes to the descriptor of a
\* connection that was closed and that a newer connection has got.
OwnUnlessStale == stale \/ AnswerIsOwn

\* A caller that finds all condition variables in use gets MDV_BUSY
\* (mdv_dispatcher.h:85) and does not read a null pointer.
NoCrash == ~crashed

\* Every call returns, whether the answer comes, comes late, is lost with the
\* connection, or its signal is sent before the caller waits.  Calls are bounded, so
\* that all callers are idle in the end.
EveryCallReturns == []<>(crashed \/ \A c \in Callers : thread[c].step = "idle")
=============================================================================
