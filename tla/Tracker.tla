------------------------------ MODULE Tracker ------------------------------
(***************************************************************************)
(* The topology of the cluster: the trackers of the nodes                  *)
(* (mdv_core/mdv_tracker.c), the peers between which they talk             *)
(* (mdv_core/mdv_peer.c) and the message bus of every node, on which the   *)
(* events of a node wait for the tracker.                                  *)
(*                                                                         *)
(* A node tells its tracker when a peer says hello and when the peer is    *)
(* gone.  The tracker of the dialling node sends its topology to a new     *)
(* peer, which spreads the difference; a lost link is spread to all peers. *)
(* What a handler posts reaches the peer of the channel at once, and is    *)
(* lost when there is no channel.                                          *)
(***************************************************************************)
EXTENDS Topology, Functions, Sequences, SequencesExt

CONSTANTS Nodes,        \* uuids: a set of numbers
          Starts,       \* the clusters to start with: records of the links they
                        \* have, of who dials whom (the peers that the servers are
                        \* configured with) and of whether their buses have one
                        \* worker and one queue (the default is four of each)
          MaxChanges,   \* bound on new channels, broken channels and restarts
          MayRestart    \* the nodes whose server may restart

VARIABLES
  ids,       \* tracker->nodes of each node, and their storage: uuid -> number
  maxId,     \* tracker->max_id
  links,     \* tracker->links: sets of numbers
  side,      \* the channel to each peer: "none", "in" or "out"
  greeted,   \* the peer has said hello (peer->peer_addr)
  wire,      \* wire[n][m]: messages from n that m has not received
  bus,       \* events of each node that its tracker has not handled
  real,      \* history: the links that there have been
  merged,    \* history: a node with peers dialled a node of another segment
  again,     \* history: a link came back
  restarted, \* history: the nodes whose server has restarted
  start,     \* the cluster that this behaviour starts with
  joins,     \* history: number of channels made
  losses     \* history: number of channels broken and of restarts

trackerVars == <<ids, maxId, links>>
peerVars    == <<side, greeted>>
history     == <<real, merged, again, restarted, start>>
changes     == <<joins, losses>>
vars        == <<trackerVars, peerVars, wire, bus, history, changes>>

Put(f, k, v) == [x \in DOMAIN f \cup {k} |-> IF x = k THEN v ELSE f[x]]

\* Numbers that a tracker gives to nodes, in the order of their uuids.
Numbering(n, us) == [u \in us |-> IF u = n THEN 0 ELSE Cardinality({v \in us \ {n} : v <= u})]

-----------------------------------------------------------------------------
\* A cluster whose trackers know all of its links.
Init ==
  LET Segment(n) == Reach[start.links, {n}]
      Known(n)   == {l \in start.links : l \subseteq Segment(n)} IN
  /\ start \in Starts
  /\ ids = [n \in Nodes |-> Numbering(n, Segment(n))]
  /\ maxId = [n \in Nodes |-> Cardinality(Segment(n)) - 1]
  /\ links = [n \in Nodes |-> {{ids[n][u] : u \in l} : l \in Known(n)}]
  /\ side = [n \in Nodes |-> [m \in Nodes |->
               IF n = m \/ {n, m} \notin start.links THEN "none" ELSE IF n < m THEN "out" ELSE "in"]]
  /\ greeted = [n \in Nodes |-> {m \in Nodes : side[n][m] # "none"}]
  /\ wire = [n \in Nodes |-> [m \in Nodes |-> <<>>]]
  /\ bus = [n \in Nodes |-> <<>>]
  /\ real = start.links /\ merged = FALSE /\ again = FALSE /\ restarted = {}
  /\ joins = 0 /\ losses = 0

\* The nodes of a sequence that tracker n does not know.
NewNodes(n, us) == SelectSeq(us, LAMBDA u : u \notin DOMAIN ids[n])

\* Mutant: the counter of numbers is not saved.
RegisterNodesMut(n, us) ==
  /\ ids' = [ids EXCEPT ![n] = [u \in DOMAIN @ \cup ToSet(us) |->
                                  IF u \in DOMAIN @ THEN @[u] ELSE maxId[n] + 1]]
  /\ UNCHANGED maxId

\* mdv_tracker_register, for a sequence of nodes: numbers are given to the nodes
\* that are not known.
RegisterNodes(n, us) ==
  LET new == NewNodes(n, us) IN
  /\ ids' = [ids EXCEPT ![n] =
               [u \in DOMAIN @ \cup ToSet(new) |->
                  IF u \in DOMAIN @ THEN @[u]
                  ELSE maxId[n] + (CHOOSE i \in DOMAIN new : new[i] = u)]]
  /\ maxId' = [maxId EXCEPT ![n] = @ + Len(new)]

\* mdv_tracker_node_identifiers: the key of a link between known nodes.
Key(n, l) == {ids'[n][u] : u \in l}

\* mdv_tracker_linkstate_add, for links between known nodes.
SetLinks(n, ls, connected) ==
  LET keys == {Key(n, l) : l \in ls} IN
  links' = [links EXCEPT ![n] = IF connected THEN @ \cup keys ELSE @ \ keys]

\* mdv_tracker_topodiff_add: the nodes of a topology, which are sorted by uuid,
\* and then its links.
TopodiffAdd(n, t) ==
  /\ RegisterNodes(n, SetToSortSeq({x.uuid : x \in t.nodes}, <))
  /\ SetLinks(n, t.links, TRUE)

\* mdv_tracker_topology, after the handler has changed the tracker.
Snapshot(n) ==
  LET numbers  == {ids'[n][u] : u \in DOMAIN ids'[n]}
      Owner(i) == Max({u \in DOMAIN ids'[n] : ids'[n][u] = i})
  IN [nodes |-> {[uuid |-> Owner(i), id |-> i] : i \in numbers},
      links |-> {{Owner(i) : i \in l} : l \in links'[n]}]

\* mdv_peer_evt_broadcast_post and mdv_peer_evt_topology_sync: a message for
\* those of the nodes to that n has a channel to; it is lost when the other side
\* of the channel is gone.
PostAll(n, w, to, msg) ==
  [w EXCEPT ![n] = [m \in Nodes |-> IF m \in to /\ side[n][m] # "none" /\ side[m][n] # "none"
                                    THEN Append(@[m], msg) ELSE @[m]]]

\* mdv_tracker_topology_broadcast: nothing is sent when there is no difference.
Broadcast(n, w, t, notified, to) ==
  IF t.links = {} THEN w
  ELSE PostAll(n, w, to, [kind |-> "topodiff", topology |-> t, notified |-> notified])

\* mdv_tracker_linkstate_broadcast: all peers that are left hear of a lost link, and
\* count as notified.
LinkstateBroadcast(n, w, t, l) ==
  PostAll(n, w, Peers(t, n), [kind |-> "linklost", link |-> l, notified |-> Peers(t, n)])

-----------------------------------------------------------------------------
\* The links that have a channel.
Channels == UNION {{{n, m} : m \in {k \in Nodes : side[n][k] # "none"}} : n \in Nodes}

\* mdv_chaman_new_connection and mdv_peer_create on both sides; each says hello.
Connect(n, m) ==
  /\ <<n, m>> \in start.dials /\ joins + losses < MaxChanges
  /\ side[n][m] = "none" /\ side[m][n] = "none"
  /\ joins' = joins + 1
  /\ side' = [side EXCEPT ![n][m] = "out", ![m][n] = "in"]
  /\ wire' = [wire EXCEPT ![n][m] = <<[kind |-> "hello"]>>, ![m][n] = <<[kind |-> "hello"]>>]
  /\ real' = real \cup {{n, m}}
  /\ merged' = (merged \/ (Reach[Channels, {n}] # {n} /\ m \notin Reach[Channels, {n}]))
  /\ again' = (again \/ {n, m} \in real)
  /\ UNCHANGED <<trackerVars, greeted, bus, restarted, start, losses>>

\* mdv_peer_connected: the link is up; its source is the node that dialled.
HelloEvent(n, m) ==
  IF side[n][m] = "in" THEN [kind |-> "linkstate", src |-> m, dst |-> n, connected |-> TRUE]
  ELSE [kind |-> "linkstate", src |-> n, dst |-> m, connected |-> TRUE]

\* mdv_peer_disconnected: the link is down, and each side is the source for itself.
LostEvent(n, m) == [kind |-> "linkstate", src |-> n, dst |-> m, connected |-> FALSE]

\* mdv_peer_recv_impl: node n receives a message of its peer m and publishes it.
Receive(n, m) ==
  /\ side[n][m] # "none" /\ wire[m][n] # <<>>
  /\ LET msg == Head(wire[m][n]) IN
     /\ greeted' = IF msg.kind = "hello" THEN [greeted EXCEPT ![n] = @ \cup {m}] ELSE greeted
     /\ bus' = [bus EXCEPT ![n] = Append(@,
                  IF msg.kind = "hello" THEN HelloEvent(n, m) ELSE Put(msg, "from", m))]
  /\ wire' = [wire EXCEPT ![m][n] = Tail(@)]
  /\ UNCHANGED <<trackerVars, side, history, changes>>

\* mdv_peer_free on the side of n: what it has not received is lost, and the
\* tracker hears of it when the peer had said hello.
Drop(n, m) ==
  /\ side' = [side EXCEPT ![n][m] = "none"]
  /\ greeted' = [greeted EXCEPT ![n] = @ \ {m}]
  /\ wire' = [wire EXCEPT ![m][n] = <<>>]
  /\ bus' = IF m \in greeted[n]
            THEN [bus EXCEPT ![n] = Append(@, LostEvent(n, m))]
            ELSE bus

\* A side finds the connection broken,
Break(n, m) ==
  /\ side[n][m] # "none" /\ side[m][n] # "none"
  /\ joins + losses < MaxChanges
  /\ losses' = losses + 1
  /\ Drop(n, m)
  /\ UNCHANGED <<trackerVars, history, joins>>

\* and then the other side.
BreakOther(n, m) ==
  /\ side[n][m] # "none" /\ side[m][n] = "none"
  /\ Drop(n, m)
  /\ UNCHANGED <<trackerVars, history, changes>>

\* Mutant: the stored nodes are not loaded.
RestartMut(n) ==
  /\ n \in MayRestart /\ joins + losses < MaxChanges
  /\ losses' = losses + 1
  /\ restarted' = restarted \cup {n}
  /\ ids' = [ids EXCEPT ![n] = [u \in {n} |-> 0]]
  /\ maxId' = [maxId EXCEPT ![n] = 0]
  /\ links' = [links EXCEPT ![n] = {}]
  /\ bus' = [bus EXCEPT ![n] = <<>>]
  /\ side' = [side EXCEPT ![n] = [m \in Nodes |-> "none"]]
  /\ greeted' = [greeted EXCEPT ![n] = {}]
  /\ wire' = [m \in Nodes |-> [wire[m] EXCEPT ![n] = <<>>]]
  /\ UNCHANGED <<real, merged, again, start, joins>>

\* The server stops and starts again: the nodes are loaded from the storage with
\* their numbers, the counter of numbers starts at the number of the server
\* itself, and the peers find their connections broken.
Restart(n) ==
  /\ n \in MayRestart /\ joins + losses < MaxChanges
  /\ losses' = losses + 1
  /\ restarted' = restarted \cup {n}
  /\ maxId' = [maxId EXCEPT ![n] = 0]
  /\ links' = [links EXCEPT ![n] = {}]
  /\ bus' = [bus EXCEPT ![n] = <<>>]
  /\ side' = [side EXCEPT ![n] = [m \in Nodes |-> "none"]]
  /\ greeted' = [greeted EXCEPT ![n] = {}]
  /\ wire' = [m \in Nodes |-> [wire[m] EXCEPT ![n] = <<>>]]
  /\ UNCHANGED <<ids, real, merged, again, start, joins>>

-----------------------------------------------------------------------------
\* The event that a worker takes from the bus.
Taken(n) == IF start.ordered THEN {1} \cap DOMAIN bus[n] ELSE DOMAIN bus[n]
Take(n, i) == bus' = [bus EXCEPT ![n] = RemoveAt(@, i)]

\* mdv_tracker_evt_link_state: the dialling node sends its topology to a new
\* peer; the loss of a link is broadcast to the remaining peers.
EvtLinkState(n, i) ==
  LET e == bus[n][i] IN
  /\ e.kind = "linkstate" /\ Take(n, i)
  /\ RegisterNodes(n, <<e.src, e.dst>>)
  /\ SetLinks(n, {{e.src, e.dst}}, e.connected)
  /\ LET t == Snapshot(n) IN
     wire' = CASE e.src # n   -> wire
               [] e.src = n /\ e.connected ->
                    PostAll(n, wire, {e.dst}, [kind |-> "toposync", topology |-> t])
               [] e.src = n /\ ~e.connected ->
                    LinkstateBroadcast(n, wire, t, {e.src, e.dst})
  /\ UNCHANGED <<peerVars, history, changes>>

\* mdv_tracker_evt_topology_sync: what the new peer knows is broadcast to the
\* other peers, what it does not know is sent to it.
EvtTopologySync(n, i) ==
  LET e == bus[n][i] IN
  /\ e.kind = "toposync" /\ Take(n, i)
  /\ UNCHANGED <<trackerVars, peerVars, history, changes>>
  /\ LET t == Snapshot(n)
         peers == Peers(t, n) \cup {n}
         theirs == Broadcast(n, wire, Diff(e.topology, e.from, t, n), peers, peers \ {e.from})
     IN wire' = Broadcast(n, theirs, Diff(t, n, e.topology, e.from), peers, {e.from})

\* Mutant: only the sender is left out.
PassOnMut(e, peers) == peers \ {e.from}

\* Mutant: a change is not passed on.
PassOnNothingMut(e, peers) == {}

\* The peers to which a received change is passed on.
PassOn(e, peers) == peers \ e.notified

\* mdv_tracker_evt_broadcast: the change is applied and passed on to the peers
\* that were not notified.
EvtBroadcast(n, i) ==
  LET e == bus[n][i] IN
  /\ e.kind \in {"topodiff", "linklost"} /\ Take(n, i)
  /\ IF e.kind = "topodiff"
     THEN TopodiffAdd(n, e.topology)
     ELSE /\ UNCHANGED <<ids, maxId>>
          /\ IF e.link \subseteq DOMAIN ids[n] THEN SetLinks(n, {e.link}, FALSE)
             ELSE UNCHANGED links
  /\ LET to == PassOn(e, Peers(Snapshot(n), n)) IN
     wire' = PostAll(n, wire, to, [x \in DOMAIN e \ {"from"} |->
                                     IF x = "notified" THEN e.notified \cup to ELSE e[x]])
  /\ UNCHANGED <<peerVars, history, changes>>

Handle(n) == \E i \in Taken(n) : EvtLinkState(n, i) \/ EvtTopologySync(n, i) \/ EvtBroadcast(n, i)

Next ==
  \/ \E n, m \in Nodes : Connect(n, m) \/ Receive(n, m) \/ Break(n, m) \/ BreakOther(n, m)
  \/ \E n \in Nodes : Handle(n) \/ Restart(n)

Spec == Init /\ [][Next]_vars

\* The receiving threads and the workers of the buses do not stop, and a broken
\* connection is found out by both sides.
Progress ==
  \/ \E n, m \in Nodes : Receive(n, m) \/ BreakOther(n, m)
  \/ \E n \in Nodes : Handle(n)
Fairness == WF_vars(Progress)
LiveSpec == Spec /\ Fairness

-----------------------------------------------------------------------------
Numbers(n) == {ids[n][u] : u \in DOMAIN ids[n]}

\* The links that the tracker of n knows, by uuid.
View(n) ==
  LET Owner(i) == Max({u \in DOMAIN ids[n] : ids[n][u] = i})
  IN {{Owner(i) : i \in l} : l \in links[n]}

\* Nothing is under way.
Quiet ==
  /\ \A n, m \in Nodes : wire[n][m] = <<>> /\ (side[n][m] = "none" <=> side[m][n] = "none")
  /\ \A n \in Nodes : bus[n] = <<>>

\* Events are handled in their order, no link came back and no server restarted.
Calm == start.ordered /\ ~again /\ restarted = {}

\* The type invariant: a tracker knows itself under the number 0, links join
\* numbers of known nodes (mdv_tracker_topology looks them up and uses the
\* result unchecked), and the peers that said hello have a channel.
TypeOK ==
  \A n \in Nodes :
    /\ DOMAIN ids[n] \subseteq Nodes /\ n \in DOMAIN ids[n] /\ ids[n][n] = 0
    /\ Numbers(n) \subseteq 0 .. Cardinality(Nodes) /\ maxId[n] \in 0 .. Cardinality(Nodes)
    /\ links[n] \subseteq SUBSET Numbers(n)
    /\ side[n] \in [Nodes -> {"none", "in", "out"}]
    /\ greeted[n] \subseteq {m \in Nodes : side[n][m] # "none"}

\* "Unique identifier inside current server" (mdv_node.h): a tracker gives
\* no two nodes the same number.
NumbersUnique == \A n \in Nodes : IsInjective(ids[n])

\* A node keeps its number on a server, restarts included, because logs and row
\* identifiers are stored under it; and until the server restarts no other node is
\* given it, in whatever order the workers handle concurrent joins and losses.
NumbersKept ==
  [][\A n \in Nodes :
       /\ \A u \in DOMAIN ids[n] : u \in DOMAIN ids'[n] /\ ids'[n][u] = ids[n][u]
       /\ n \notin restarted' => IsInjective(ids'[n])]_vars

\* Gossip makes up no links: what a tracker knows, by way of the numbers of the
\* sender and its own, are links that have been there.  Once nothing is under way,
\* it knows of the links of its own node exactly those that have a channel.
LinksAreReal ==
  Calm => \A n \in Nodes :
    /\ View(n) \subseteq real
    /\ Quiet => \A m \in Nodes \ {n} : {n, m} \in View(n) <=> side[n][m] # "none"

\* Nodes without peers joined a cluster and links closed rings in it, or links of
\* it broke: once nothing is under way all members of a segment know all of its links and no others that
\* touch it.
ViewsAgree ==
  Quiet /\ Calm /\ ~merged /\ (joins = 0 \/ losses = 0) =>
    \A n \in Nodes :
      LET Touches(l) == l \cap Reach[Channels, {n}] # {}
      IN {l \in View(n) : Touches(l)} = {l \in Channels : Touches(l)}

\* The routes that the servers of a segment find for themselves, each in its own
\* view, are the two ends of the links of one spanning tree of the segment: data
\* that is sent along the routes reaches every server on one way.  There are no
\* routes at all where a server still knows links of a segment that is cut off.
RoutesSpan ==
  Quiet /\ Calm /\ ~merged /\ (joins = 0 \/ losses = 0) =>
    \A n \in Nodes :
      LET segment  == Reach[Channels, {n}]
          Route(m) == Routes(View(m), m)
          used     == UNION {{{m, k} : k \in Route(m)} : m \in segment}
      IN \/ Isolated(View(n))
         \/ /\ \A m, k \in segment : k \in Route(m) <=> m \in Route(k)
            /\ Reach[used, {n}] = segment
            /\ Cardinality(used) = Cardinality(segment) - 1

\* The spreading of a change ends, in rings and out of order too: no message is
\* passed on for ever.
GossipEnds == []<>Quiet
=============================================================================
