-------------------------------- MODULE Ebus --------------------------------
(***************************************************************************)
(* The event bus (mdv_platform/mdv_ebus.c) for one type of event: the list  *)
(* of subscribers, replaced by a new version at every change and kept alive *)
(* by its users; the counter of generated events, which unique publication *)
(* tests; the queues, which Queuefd shows to be bounded queues; and the     *)
(* release of the bus.  A handler is a call that starts and returns.        *)
(***************************************************************************)
EXTENDS Integers, Sequences, FiniteSets

CONSTANTS Workers, Publishers, Subscribers,
          QueueCount, QueueSize,
          MaxEvents,  \* bound on publications
          MaxFail     \* bound on failed allocations

ASSUME EbusAssumption ==
  /\ IsFiniteSet(Workers) /\ IsFiniteSet(Publishers) /\ IsFiniteSet(Subscribers)
  /\ Workers \cap Publishers = {}
  /\ QueueCount \in Nat \ {0} /\ QueueSize \in Nat
  /\ MaxEvents \in Nat /\ MaxFail \in Nat

VARIABLES
  lists,   \* the versions of the subscriber list: members and references
  gen,     \* events_gen of the type
  idx,     \* counter that selects a queue
  queues,  \* events in each queue
  refs,    \* references to each event published so far
  epc,     \* where each worker and publisher is
  evt,     \* the event each one has, 0 for none
  list,    \* the version each one has retained, 0 for none
  left,    \* subscribers of it not called yet
  call,    \* the handler that runs: a set of at most one subscriber
  owner,   \* where the owner of each subscription is
  prev,    \* the version that the owner replaced
  bus,     \* "running", "stopping" or "freed"
  fails,   \* failed allocations
  drops    \* history: pushes that found their queue full

threadVars == <<epc, evt, list, left, call>>
ownerVars  == <<owner, prev, fails>>
ebusVars == <<lists, gen, idx, queues, refs, threadVars, ownerVars, bus, drops>>

BusThreads == Workers \cup Publishers
Queues  == 0 .. QueueCount - 1
Current == Len(lists)
Events  == DOMAIN refs

EbusInit ==
  /\ lists = <<[subs |-> {}, refs |-> 1]>>
  /\ gen = 0 /\ idx = 0 /\ queues = [q \in Queues |-> <<>>] /\ refs = <<>>
  /\ epc = [t \in BusThreads |-> "idle"] /\ evt = [t \in BusThreads |-> 0]
  /\ list = [t \in BusThreads |-> 0]
  /\ left = [t \in BusThreads |-> {}] /\ call = [t \in BusThreads |-> {}]
  /\ owner = [s \in Subscribers |-> "out"] /\ prev = [s \in Subscribers |-> 0]
  /\ bus = "running" /\ fails = 0 /\ drops = 0

-----------------------------------------------------------------------------
\* mdv_ebus_subscribe: a clone with one member more; the bus drops the old version,
\* which lives as long as a thread uses it.
Subscribe(s) ==
  /\ bus = "running" /\ owner[s] = "out"
  /\ lists' = Append([lists EXCEPT ![Current].refs = @ - 1],
                     [subs |-> lists[Current].subs \cup {s}, refs |-> 1])
  /\ owner' = [owner EXCEPT ![s] = "in"]
  /\ UNCHANGED <<gen, idx, queues, refs, threadVars, prev, fails, bus, drops>>

\* mdv_ebus_unsubscribe up to the unlock: the bus's reference to the old version
\* passes to the caller.
Unsubscribe(s) ==
  /\ owner[s] = "in"
  /\ lists' = Append(lists, [subs |-> lists[Current].subs \ {s}, refs |-> 1])
  /\ owner' = [owner EXCEPT ![s] = "waiting"]
  /\ prev' = [prev EXCEPT ![s] = Current]
  /\ UNCHANGED <<gen, idx, queues, refs, threadVars, fails, bus, drops>>

\* ... the clone is not allocated: an error is logged and the call returns.
UnsubscribeFail(s) ==
  /\ owner[s] = "in" /\ fails < MaxFail
  /\ owner' = [owner EXCEPT ![s] = "failed"]
  /\ fails' = fails + 1
  /\ UNCHANGED <<lists, gen, idx, queues, refs, threadVars, prev, bus, drops>>

\* Mutant: the caller does not wait for the threads that use the version.
WaitMut(s) ==
  /\ owner[s] = "waiting"
  /\ lists' = [lists EXCEPT ![prev[s]].refs = @ - 1]
  /\ owner' = [owner EXCEPT ![s] = "gone"]
  /\ UNCHANGED <<gen, idx, queues, refs, threadVars, prev, fails, bus, drops>>

\* mdv_ebus_subscribers_wait_and_release: only the caller's reference is left.
Wait(s) ==
  /\ owner[s] = "waiting"
  /\ lists[prev[s]].refs = 1
  /\ lists' = [lists EXCEPT ![prev[s]].refs = @ - 1]
  /\ owner' = [owner EXCEPT ![s] = "gone"]
  /\ UNCHANGED <<gen, idx, queues, refs, threadVars, prev, fails, bus, drops>>

-----------------------------------------------------------------------------
\* A publisher creates an event and publishes it: the counter is raised, for a
\* unique event only from zero.
Count(p, unique) ==
  /\ bus = "running" /\ epc[p] = "idle" /\ Len(refs) < MaxEvents
  /\ unique => gen = 0
  /\ gen' = gen + 1
  /\ refs' = Append(refs, 1)
  /\ evt' = [evt EXCEPT ![p] = Len(refs')]
  /\ epc' = [epc EXCEPT ![p] = "counted"]
  /\ UNCHANGED <<lists, idx, queues, list, left, call, ownerVars, bus, drops>>

\* A unique event is refused, and its publisher drops it.
Refuse(p) ==
  /\ bus = "running" /\ epc[p] = "idle" /\ Len(refs) < MaxEvents
  /\ gen # 0
  /\ refs' = Append(refs, 0)
  /\ UNCHANGED <<lists, gen, idx, queues, threadVars, ownerVars, bus, drops>>

\* Mutant: the event is not retained for the queue.
PushMut(p) ==
  LET q == (idx + 1) % QueueCount IN
  /\ epc[p] = "counted"
  /\ Len(queues[q]) < QueueSize
  /\ idx' = q
  /\ queues' = [queues EXCEPT ![q] = Append(@, evt[p])]
  /\ refs' = [refs EXCEPT ![evt[p]] = @ - 1]
  /\ epc' = [epc EXCEPT ![p] = "idle"]
  /\ evt' = [evt EXCEPT ![p] = 0]
  /\ UNCHANGED <<lists, gen, list, left, call, ownerVars, bus, drops>>

\* The next queue takes the event, retained for it; the publisher drops its own
\* reference: one in, one out.
Push(p) ==
  LET q == (idx + 1) % QueueCount IN
  /\ epc[p] = "counted"
  /\ Len(queues[q]) < QueueSize
  /\ idx' = q
  /\ queues' = [queues EXCEPT ![q] = Append(@, evt[p])]
  /\ epc' = [epc EXCEPT ![p] = "idle"]
  /\ evt' = [evt EXCEPT ![p] = 0]
  /\ UNCHANGED <<lists, gen, refs, list, left, call, ownerVars, bus, drops>>

\* The next queue is full at every attempt: both references are dropped, and the
\* counter stays as it is.
PushFail(p) ==
  LET q == (idx + 1) % QueueCount IN
  /\ epc[p] = "counted"
  /\ Len(queues[q]) = QueueSize
  /\ idx' = q
  /\ refs' = [refs EXCEPT ![evt[p]] = 0]
  /\ drops' = drops + 1
  /\ epc' = [epc EXCEPT ![p] = "idle"]
  /\ evt' = [evt EXCEPT ![p] = 0]
  /\ UNCHANGED <<lists, gen, queues, list, left, call, ownerVars, bus>>

\* MDV_EVT_SYNC: the publisher calls the handlers itself.
PublishSync(p) ==
  /\ bus = "running" /\ epc[p] = "idle" /\ Len(refs) < MaxEvents
  /\ refs' = Append(refs, 1)
  /\ evt' = [evt EXCEPT ![p] = Len(refs')]
  /\ epc' = [epc EXCEPT ![p] = "process"]
  /\ UNCHANGED <<lists, gen, idx, queues, list, left, call, ownerVars, bus, drops>>

-----------------------------------------------------------------------------
\* mdv_ebus_evt_handler: a worker pops an event ...
Pop(w, q) ==
  /\ epc[w] = "idle" /\ queues[q] # <<>>
  /\ evt' = [evt EXCEPT ![w] = Head(queues[q])]
  /\ queues' = [queues EXCEPT ![q] = Tail(@)]
  /\ epc' = [epc EXCEPT ![w] = "popped"]
  /\ UNCHANGED <<lists, gen, idx, refs, list, left, call, ownerVars, bus, drops>>

\* Mutant: the counter is reset when the event has been handled.
UncountMut(w) ==
  /\ epc[w] = "popped"
  /\ epc' = [epc EXCEPT ![w] = "process"]
  /\ UNCHANGED <<lists, gen, idx, queues, refs, evt, list, left, call, ownerVars, bus, drops>>

\* ... and lowers the counter before it calls the handlers.
Uncount(w) ==
  /\ epc[w] = "popped"
  /\ gen' = gen - 1
  /\ epc' = [epc EXCEPT ![w] = "process"]
  /\ UNCHANGED <<lists, idx, queues, refs, evt, list, left, call, ownerVars, bus, drops>>

\* mdv_ebus_event_process retains the current version of the list ...
TakeList(t) ==
  /\ epc[t] = "process"
  /\ lists' = [lists EXCEPT ![Current].refs = @ + 1]
  /\ list' = [list EXCEPT ![t] = Current]
  /\ left' = [left EXCEPT ![t] = lists[Current].subs]
  /\ epc' = [epc EXCEPT ![t] = "call"]
  /\ UNCHANGED <<gen, idx, queues, refs, evt, call, ownerVars, bus, drops>>

\* ... calls its members one after the other ...
Call(t, s) ==
  /\ epc[t] = "call" /\ call[t] = {} /\ s \in left[t]
  /\ call' = [call EXCEPT ![t] = {s}]
  /\ left' = [left EXCEPT ![t] = @ \ {s}]
  /\ UNCHANGED <<lists, gen, idx, queues, refs, epc, evt, list, ownerVars, bus, drops>>

Return(t) ==
  /\ call[t] # {}
  /\ call' = [call EXCEPT ![t] = {}]
  /\ UNCHANGED <<lists, gen, idx, queues, refs, epc, evt, list, left, ownerVars, bus, drops>>

\* Mutant: the version is not released.
FinishMut(t) ==
  /\ epc[t] = "call" /\ call[t] = {} /\ left[t] = {}
  /\ refs' = [refs EXCEPT ![evt[t]] = @ - 1]
  /\ epc' = [epc EXCEPT ![t] = "idle"]
  /\ evt' = [evt EXCEPT ![t] = 0] /\ list' = [list EXCEPT ![t] = 0]
  /\ UNCHANGED <<lists, gen, idx, queues, left, call, ownerVars, bus, drops>>

\* ... and releases the version and the event.
Finish(t) ==
  /\ epc[t] = "call" /\ call[t] = {} /\ left[t] = {}
  /\ lists' = [lists EXCEPT ![list[t]].refs = @ - 1]
  /\ refs' = [refs EXCEPT ![evt[t]] = @ - 1]
  /\ epc' = [epc EXCEPT ![t] = "idle"]
  /\ evt' = [evt EXCEPT ![t] = 0] /\ list' = [list EXCEPT ![t] = 0]
  /\ UNCHANGED <<gen, idx, queues, left, call, ownerVars, bus, drops>>

-----------------------------------------------------------------------------
\* The last reference to the bus is dropped: mdv_ebus_free stops the pool.  Publishers
\* and owners hold a reference, so that they have ended before.
Stop ==
  /\ bus = "running"
  /\ \A p \in Publishers : epc[p] = "idle"
  /\ \A s \in Subscribers : owner[s] \in {"out", "gone", "failed"}
  /\ bus' = "stopping"
  /\ UNCHANGED <<lists, gen, idx, queues, refs, threadVars, ownerVars, drops>>

\* A worker that finds the stop event among its events leaves.
Exit(w) ==
  /\ bus = "stopping" /\ epc[w] = "idle"
  /\ epc' = [epc EXCEPT ![w] = "exited"]
  /\ UNCHANGED <<lists, gen, idx, queues, refs, evt, list, left, call, ownerVars, bus, drops>>

Queued(e) == \E q \in Queues : \E i \in DOMAIN queues[q] : queues[q][i] = e

\* All workers are joined; what is left in the queues is released, and the list.
Free ==
  /\ bus = "stopping" /\ \A w \in Workers : epc[w] = "exited"
  /\ refs' = [e \in Events |-> refs[e] - IF Queued(e) THEN 1 ELSE 0]
  /\ queues' = [q \in Queues |-> <<>>]
  /\ lists' = [lists EXCEPT ![Current].refs = @ - 1]
  /\ bus' = "freed"
  /\ UNCHANGED <<gen, idx, threadVars, ownerVars, drops>>

Handle(t) == TakeList(t) \/ Return(t) \/ Finish(t) \/ \E s \in Subscribers : Call(t, s)
Work(w)   == Uncount(w) \/ Handle(w) \/ Exit(w) \/ \E q \in Queues : Pop(w, q)

EbusNext ==
  \/ \E s \in Subscribers : Subscribe(s) \/ Unsubscribe(s) \/ UnsubscribeFail(s) \/ Wait(s)
  \/ \E p \in Publishers : \/ Refuse(p) \/ Push(p) \/ PushFail(p) \/ PublishSync(p) \/ Handle(p)
                           \/ \E unique \in BOOLEAN : Count(p, unique)
  \/ \E w \in Workers : Work(w)
  \/ Stop \/ Free

EbusSpec == EbusInit /\ [][EbusNext]_ebusVars

\* Workers poll, handlers return, and a thread inside a call of the bus goes on.
EbusFairness ==
  /\ \A w \in Workers : WF_ebusVars(Work(w))
  /\ \A p \in Publishers : WF_ebusVars(Push(p) \/ PushFail(p) \/ Handle(p))
  /\ \A s \in Subscribers : WF_ebusVars(Wait(s))
  /\ WF_ebusVars(Free)

EbusLiveSpec == EbusSpec /\ EbusFairness

-----------------------------------------------------------------------------
\* The type invariant.
EbusTypeOK ==
  /\ \A v \in DOMAIN lists : lists[v].subs \subseteq Subscribers /\ lists[v].refs \in Nat
  /\ gen \in Nat /\ idx \in Queues /\ fails \in 0 .. MaxFail /\ drops \in Nat
  /\ \A q \in Queues : Len(queues[q]) <= QueueSize /\ queues[q] \in Seq(Events)
  /\ \A e \in Events : refs[e] \in Nat
  /\ epc \in [BusThreads -> {"idle", "counted", "popped", "process", "call", "exited"}]
  /\ \A t \in BusThreads : /\ evt[t] \in Events \cup {0} /\ list[t] \in 0 .. Current
                        /\ left[t] \cup call[t] \subseteq Subscribers
  /\ owner \in [Subscribers -> {"out", "in", "waiting", "gone", "failed"}]
  /\ bus \in {"running", "stopping", "freed"}

\* The events of which no handler has started: in a queue, or on their way into
\* one or out of one.
Pending == {e \in Events : Queued(e) \/ \E t \in BusThreads : evt[t] = e /\ epc[t] \in {"counted", "popped"}}

\* A unique event is refused only while handlers are still to be called for another
\* one, so that the change it announces is seen by them: MDV_EVT_UNIQUE loses no
\* wake-up, unless a full queue has dropped an event that was counted.
RefusalIsSafe == bus # "freed" => gen = Cardinality(Pending) + drops

\* When an unsubscribe has returned, the handler is not called from the list that
\* it replaced.
ReplacedListIsIdle ==
  \A s \in Subscribers, t \in BusThreads :
    owner[s] = "gone" /\ s \in left[t] \cup call[t] => list[t] # prev[s]

\* When an unsubscribe has returned, the handler neither runs nor will be called:
\* its owner may be freed.
NoLateHandler ==
  \A s \in Subscribers, t \in BusThreads : owner[s] = "gone" => s \notin left[t] \cup call[t]

\* No thread uses an event or a list that has been freed, and when the bus is freed
\* every event and every version of the list is: full queues, refused events and
\* events nobody handled included.
FreedWhenUnused ==
  /\ \A e \in Events : Queued(e) => refs[e] > 0
  /\ \A t \in BusThreads : /\ evt[t] # 0 => refs[evt[t]] > 0
                        /\ list[t] # 0 => lists[list[t]].refs > 0
  /\ bus = "freed" => /\ \A e \in Events : refs[e] = 0
                      /\ \A v \in DOMAIN lists : lists[v].refs = 0

\* Every event that is in a queue leaves it, whatever other threads publish and
\* subscribe, and every unsubscribe returns, because the list it waits for gets no
\* new users.  Publications are bounded, so the queues become empty.
EventuallyServed ==
  []<>(/\ \A q \in Queues : queues[q] = <<>>
       /\ \A s \in Subscribers : owner[s] # "waiting")
=============================================================================
