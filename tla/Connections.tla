---------------------------- MODULE Connections ----------------------------
(***************************************************************************)
(* The connections between the servers of a cluster: the channels manager  *)
(* (mdv_net/mdv_chaman.c) of every node with the handshake and the channel *)
(* creation of the connections manager (mdv_core/mdv_conman.c).  A node    *)
(* dials the nodes of its configuration and of its topology; it keeps one  *)
(* channel for every node it is connected with, whichever side dialled, and *)
(* retries dialers that are disconnected when its timer fires.             *)
(*                                                                         *)
(* A socket has two ends.  The end that was dialled out is known by the    *)
(* address of its dialer, the accepted end by an ephemeral address, which  *)
(* no dialer has.  A node is identified with the address it listens on.    *)
(***************************************************************************)
EXTENDS Naturals, FiniteSets

CONSTANTS Nodes,    \* the servers
          DialPlans,\* the sets of pairs <<n, a>>: which nodes dial which
          MaxSocks, \* bound on sockets that exist at a time
          MaxFaults \* bound on failures

VARIABLES
  plan,      \* the pairs that are dialled: a member of DialPlans
  dialers,   \* chaman->dialers of each node: address -> state
  channels,  \* chaman->channels of each node: node -> end of a socket
  sock,      \* the sockets and the handlers of their ends
  lost,      \* history: an attempt ended without its dialer being told
  faults     \* failures so far

linkVars == <<plan, dialers, channels, sock, lost, faults>>

Socks == 1 .. MaxSocks
Dirs  == {"out", "in"}
Other(d) == IF d = "out" THEN "in" ELSE "out"

\* The handler that an end is registered with: "dial" mdv_chaman_dialer_handler,
\* "select" mdv_chaman_select_handler, "recv" mdv_chaman_recv_handler.  An end
\* is "none" before it is accepted, "created" when its channel exists but does
\* not receive yet, "ending" when its channel is gone but its socket is open.
EndStates == {"none", "dial", "select", "created", "recv", "ending", "closed"}

Unused == [from |-> {}, to |-> {}, out |-> "closed", in |-> "closed", broken |-> FALSE]
Live   == {k \in Socks : sock[k] # Unused}

NodeOf(k, d) == IF d = "out" THEN sock[k].from ELSE sock[k].to
PeerOf(k, d) == NodeOf(k, Other(d))

\* The address of a dialed end is the peer's; an accepted end has no dialer.
HasDialer(k, d) == d = "out" /\ PeerOf(k, d) \in DOMAIN dialers[NodeOf(k, d)]

PutEntry(f, x, v) == [y \in DOMAIN f \cup {x} |-> IF y = x THEN v ELSE f[y]]
EraseEntry(f, x)  == [y \in DOMAIN f \ {x} |-> f[y]]

SetDialer(k, d, s) ==
  dialers' = IF HasDialer(k, d)
             THEN [dialers EXCEPT ![NodeOf(k, d)] = PutEntry(@, PeerOf(k, d), s)]
             ELSE dialers

\* A socket whose ends are both closed is gone; a socket that is closed before
\* its handshake was sent is never accepted.
CloseEnd(k, d) ==
  LET s == [sock[k] EXCEPT ![d] = "closed"] IN
  sock' = [sock EXCEPT ![k] =
             IF s[Other(d)] = "closed" \/ sock[k].out = "dial" THEN Unused ELSE s]

\* mdv_chaman_connect: a socket that is being connected.
Connect(n, a) ==
  \E k \in Socks \ Live :
    /\ \A j \in Socks \ Live : k <= j
    /\ sock' = [sock EXCEPT ![k] = [from |-> n, to |-> a, out |-> "dial", in |-> "none",
                                    broken |-> FALSE]]

-----------------------------------------------------------------------------
LinkInit ==
  /\ plan \in DialPlans
  /\ dialers = [n \in Nodes |-> <<>>]
  /\ channels = [n \in Nodes |-> <<>>]
  /\ sock = [k \in Socks |-> Unused]
  /\ lost = FALSE
  /\ faults = 0

\* mdv_conman_connect and mdv_chaman_dial, for an address that is not known; a
\* connect that fails at once unregisters the dialer again.
DialPeer(n, a) ==
  /\ <<n, a>> \in plan
  /\ a \notin DOMAIN dialers[n]
  /\ dialers' = [dialers EXCEPT ![n] = PutEntry(@, a, "connecting")]
  /\ Connect(n, a)
  /\ UNCHANGED <<plan, channels, faults, lost>>

\* Mutant: the dialer stays disconnected.
RetryStateMut == "disconnected"

\* The state of a dialer while it connects.
RetryState == "connecting"

\* mdv_chaman_timer_handler for a dialer whose last attempt is old enough.
Retry(n, a) ==
  /\ a \in DOMAIN dialers[n]
  /\ dialers[n][a] = "disconnected"
  /\ dialers' = [dialers EXCEPT ![n][a] = RetryState]
  /\ Connect(n, a)
  /\ UNCHANGED <<plan, channels, faults, lost>>

\* Its mdv_chaman_connect fails, which the timer handler does not look at.
RetryFail(n, a) ==
  /\ a \in DOMAIN dialers[n]
  /\ dialers[n][a] = "disconnected"
  /\ faults < MaxFaults
  /\ faults' = faults + 1
  /\ dialers' = [dialers EXCEPT ![n][a] = RetryState]
  /\ lost' = TRUE
  /\ UNCHANGED <<plan, channels, sock>>

\* mdv_chaman_dialer_handler: the socket is connected, the handshake is sent.
Connected(k) ==
  /\ k \in Live /\ sock[k].out = "dial"
  /\ sock' = [sock EXCEPT ![k].out = "select"]
  /\ UNCHANGED <<plan, dialers, channels, faults, lost>>

\* The socket is not connected, or the handshake is not sent.
NotConnected(k) ==
  /\ k \in Live /\ sock[k].out = "dial"
  /\ faults < MaxFaults
  /\ faults' = faults + 1
  /\ SetDialer(k, "out", "disconnected")
  /\ CloseEnd(k, "out")
  /\ UNCHANGED <<plan, channels, lost>>

\* mdv_chaman_accept_handler: accepting is deferred until the handshake of the
\* other side has arrived.
Accept(k) ==
  /\ k \in Live /\ sock[k].in = "none" /\ sock[k].out # "dial"
  /\ sock' = [sock EXCEPT ![k].in = "select"]
  /\ UNCHANGED <<plan, dialers, channels, faults, lost>>

\* The handshake of the accepting side is not sent.
AcceptFail(k) ==
  /\ k \in Live /\ sock[k].in = "none" /\ sock[k].out # "dial"
  /\ faults < MaxFaults
  /\ faults' = faults + 1
  /\ sock' = [sock EXCEPT ![k] = IF sock[k].out = "closed" THEN Unused
                                 ELSE [@ EXCEPT !.in = "closed", !.broken = TRUE]]
  /\ UNCHANGED <<plan, dialers, channels, lost>>

\* The handshake of the other side can be read, also when it has closed its end.
Readable(k, d) ==
  /\ k \in Live /\ sock[k][d] = "select"
  /\ sock[k][Other(d)] \notin {"none", "dial"}
  /\ ~sock[k].broken

\* Mutant: a second channel to a node replaces the first one.
IsDuplicateMut(k, d) == FALSE

\* mdv_chaman_new_connection looks the peer up by the identifier it sent.
IsDuplicate(k, d) == PeerOf(k, d) \in DOMAIN channels[NodeOf(k, d)]

\* mdv_chaman_select_handler and mdv_chaman_new_connection, first channel of the
\* peer: it is created and registered, and its dialer is connected.
NewChannel(k, d) ==
  /\ Readable(k, d) /\ ~IsDuplicate(k, d)
  /\ channels' = [channels EXCEPT ![NodeOf(k, d)] = PutEntry(@, PeerOf(k, d), <<k, d>>)]
  /\ SetDialer(k, d, "connected")
  /\ sock' = [sock EXCEPT ![k][d] = "created"]
  /\ UNCHANGED <<plan, faults, lost>>

\* After the mutex was released the end is registered with the pool,
Register(k, d) ==
  /\ k \in Live /\ sock[k][d] = "created"
  /\ sock' = [sock EXCEPT ![k][d] = "recv"]
  /\ UNCHANGED <<plan, dialers, channels, faults, lost>>

\* or, when it cannot be, its channel is erased again.
RegisterFail(k, d) ==
  /\ k \in Live /\ sock[k][d] = "created"
  /\ faults < MaxFaults
  /\ faults' = faults + 1
  /\ channels' = [channels EXCEPT ![NodeOf(k, d)] = EraseEntry(@, PeerOf(k, d))]
  /\ SetDialer(k, d, "disconnected")
  /\ CloseEnd(k, d)
  /\ UNCHANGED <<plan, lost>>

\* A channel to the peer exists: the new socket is closed, and the dialer
\* counts as connected.
Duplicate(k, d) ==
  /\ Readable(k, d) /\ IsDuplicate(k, d)
  /\ SetDialer(k, d, "connected")
  /\ CloseEnd(k, d)
  /\ UNCHANGED <<plan, channels, faults, lost>>

\* The channel cannot be created: the socket is closed.
CreateFail(k, d) ==
  /\ Readable(k, d) /\ ~IsDuplicate(k, d)
  /\ faults < MaxFaults
  /\ faults' = faults + 1
  /\ CloseEnd(k, d)
  /\ lost' = (lost \/ d = "out")
  /\ UNCHANGED <<plan, dialers, channels>>

\* The handshake cannot be read: the socket is closed.
SelectFail(k, d) ==
  /\ k \in Live /\ sock[k][d] = "select" /\ sock[k].broken
  /\ CloseEnd(k, d)
  /\ lost' = (lost \/ d = "out")
  /\ UNCHANGED <<plan, dialers, channels, faults>>

\* The receive handler finds the end of the connection.
AtEnd(k, d) ==
  /\ k \in Live /\ sock[k][d] = "recv"
  /\ sock[k].broken \/ sock[k][Other(d)] = "closed"

\* Mutant: the dialer is not told.
RecvEndDialerMut(k, d) ==
  /\ AtEnd(k, d)
  /\ channels' = [channels EXCEPT ![NodeOf(k, d)] = EraseEntry(@, PeerOf(k, d))]
  /\ sock' = [sock EXCEPT ![k][d] = "ending"]
  /\ UNCHANGED <<plan, dialers, faults, lost>>

\* mdv_chaman_recv_handler, end of the connection: under the mutex the channel
\* is erased by its identifier, and the dialer is looked up by the address of
\* the end;
RecvEnd(k, d) ==
  /\ AtEnd(k, d)
  /\ channels' = [channels EXCEPT ![NodeOf(k, d)] = EraseEntry(@, PeerOf(k, d))]
  /\ SetDialer(k, d, "disconnected")
  /\ sock' = [sock EXCEPT ![k][d] = "ending"]
  /\ UNCHANGED <<plan, faults, lost>>

\* after it, the socket is closed.
CloseRecv(k, d) ==
  /\ k \in Live /\ sock[k][d] = "ending"
  /\ CloseEnd(k, d)
  /\ UNCHANGED <<plan, dialers, channels, faults, lost>>

\* The network breaks a connection; each end finds out by itself.
Break(k) ==
  /\ k \in Live /\ sock[k].out # "dial" /\ ~sock[k].broken
  /\ faults < MaxFaults
  /\ faults' = faults + 1
  /\ sock' = [sock EXCEPT ![k].broken = TRUE]
  /\ UNCHANGED <<plan, dialers, channels, lost>>

\* The handler of an end runs.
Handle(k, d) ==
  \/ d = "out" /\ Connected(k)
  \/ d = "in" /\ Accept(k)
  \/ NewChannel(k, d) \/ Duplicate(k, d) \/ SelectFail(k, d)
  \/ Register(k, d) \/ RecvEnd(k, d) \/ CloseRecv(k, d)

LinkNext ==
  \/ \E n, a \in Nodes : DialPeer(n, a) \/ Retry(n, a) \/ RetryFail(n, a)
  \/ \E k \in Socks : NotConnected(k) \/ AcceptFail(k) \/ Break(k)
  \/ \E k \in Socks, d \in Dirs : Handle(k, d) \/ CreateFail(k, d) \/ RegisterFail(k, d)

LinkSpec == LinkInit /\ [][LinkNext]_linkVars

\* The threads of the pool serve every socket that is ready, and the timer fires
\* again and again.
LinkFairness ==
  /\ WF_linkVars(\E n, a \in Nodes : DialPeer(n, a) \/ Retry(n, a))
  /\ \A k \in Socks : WF_linkVars(\E d \in Dirs : Handle(k, d))

LinkLiveSpec == LinkSpec /\ LinkFairness

-----------------------------------------------------------------------------
\* The type invariant.
LinkTypeOK ==
  /\ plan \in DialPlans
  /\ \A n \in Nodes :
       /\ DOMAIN dialers[n] \subseteq Nodes /\ DOMAIN channels[n] \subseteq Nodes
       /\ \A a \in DOMAIN dialers[n] : dialers[n][a] \in {"disconnected", "connecting", "connected"}
       /\ \A m \in DOMAIN channels[n] : channels[n][m] \in Socks \X Dirs
  /\ \A k \in Socks : sock[k].out \in EndStates /\ sock[k].in \in EndStates
  /\ lost \in BOOLEAN /\ faults \in 0 .. MaxFaults

Receives(k, d) == sock[k][d] \in {"created", "recv"}

Dialed(n, a) ==
  {k \in Live : sock[k].from = n /\ sock[k].to = a /\ sock[k].out \notin {"ending", "closed"}}

\* The channels of a node are exactly the ends that its pool receives on, one
\* for every peer: no end is read without a registered channel, no channel stays
\* registered without its end, however the dials of the two sides cross.  And the
\* timer, a disconnection and a duplicate never make a node dial an address twice.
ChannelPerEnd ==
  \A n \in Nodes :
    /\ \A a \in Nodes : Cardinality(Dialed(n, a)) <= 1
    /\ \A m \in DOMAIN channels[n] :
         LET k == channels[n][m][1]
             d == channels[n][m][2] IN
         k \in Live /\ Receives(k, d) /\ NodeOf(k, d) = n /\ PeerOf(k, d) = m
    /\ \A k \in Live, d \in Dirs :
         Receives(k, d) /\ NodeOf(k, d) = n => channels[n][PeerOf(k, d)] = <<k, d>>

\* A dialer that was left behind: it is not disconnected, so that the timer
\* passes it over, but has neither a socket nor a channel.
Orphan(n, a) ==
  /\ a \in DOMAIN dialers[n] /\ dialers[n][a] # "disconnected"
  /\ a \notin DOMAIN channels[n]
  /\ Dialed(n, a) = {}

Linked(n, m) ==
  /\ m \in DOMAIN channels[n] /\ n \in DOMAIN channels[m]
  /\ channels[n][m][1] = channels[m][n][1]
  /\ ~sock[channels[n][m][1]].broken

\* One node dials another that does not dial back: whatever breaks, the nodes
\* are linked in the end, unless the dialer was left behind by a failure whose
\* handler does not tell it.
LinkedOrOrphan ==
  <>[](\A n, a \in Nodes :
         n # a /\ plan = {<<n, a>>} => Linked(n, a) \/ Orphan(n, a))

\* A dialer is left behind only by an attempt that was lost between connect and
\* the handshake, or where the nodes dial each other: a channel that breaks, a
\* dial that is refused and a pool that is full never leave one behind.
OrphanNeedsCause == \A n, a \in Nodes : Orphan(n, a) => lost \/ <<a, n>> \in plan

\* "Channels manager periodically tries to connect to this peer."
\* (mdv_chaman.h:88): when two nodes that dial each other have no socket left,
\* one of their dialers is disconnected, so that the timer retries it.
SomebodyRetries ==
  \A n, a \in Nodes :
    /\ <<n, a>> \in plan /\ n # a
    /\ a \in DOMAIN dialers[n]
    /\ n \in DOMAIN dialers[a]
    /\ Live = {}
    => dialers[n][a] = "disconnected" \/ dialers[a][n] = "disconnected"
=============================================================================
