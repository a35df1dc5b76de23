------------------------- MODULE ConnectionsProofs --------------------------
(***************************************************************************)
(* Proofs about the connections between the servers, for every set of      *)
(* servers, plan of who dials whom, number of sockets and of failures.     *)
(***************************************************************************)
EXTENDS Connections, TLAPS

\* The sockets, in use or not.
SockRecords ==
  [from : Nodes \cup {{}}, to : Nodes \cup {{}}, out : EndStates, in : EndStates, broken : BOOLEAN]

\* The dialed end of a socket is still of use to its dialer.
Active(k) == sock[k].out \notin {"ending", "closed"}

\* Every node has its dialers and channels, and dials only what is planned.
LinkTypes ==
  /\ sock \in [Socks -> SockRecords]
  /\ DOMAIN dialers = Nodes /\ DOMAIN channels = Nodes
  /\ \A n \in Nodes : \A a \in DOMAIN dialers[n] : <<n, a>> \in plan

\* A socket in use has an open end, it is accepted after it was connected, and it has a
\* dialer, which is not disconnected as long as the dialed end is of use.
SocksUsed ==
  \A k \in Live :
    /\ sock[k].from \in Nodes /\ sock[k].to \in Nodes
    /\ sock[k].out # "closed" \/ sock[k].in # "closed"
    /\ sock[k].out = "dial" => sock[k].in = "none"
    /\ sock[k].to \in DOMAIN dialers[sock[k].from]
    /\ Active(k) => dialers[sock[k].from][sock[k].to] # "disconnected"

\* A node has one socket of use to an address.
OneDial ==
  \A j, k \in Live :
    Active(j) /\ Active(k) /\ sock[j].from = sock[k].from /\ sock[j].to = sock[k].to => j = k

\* A channel has its end, and an end that receives has its channel.
ChannelEnds ==
  \A n \in Nodes : \A m \in DOMAIN channels[n] : \E k \in Live, d \in Dirs :
    channels[n][m] = <<k, d>> /\ Receives(k, d) /\ NodeOf(k, d) = n /\ PeerOf(k, d) = m
EndChannels ==
  \A k \in Live, d \in Dirs : Receives(k, d) =>
    /\ PeerOf(k, d) \in DOMAIN channels[NodeOf(k, d)]
    /\ channels[NodeOf(k, d)][PeerOf(k, d)] = <<k, d>>

\* A dialer that is not disconnected has a socket of use.
Attempts ==
  ~lost => \A n \in Nodes : \A a \in DOMAIN dialers[n] :
    dialers[n][a] # "disconnected" /\ <<a, n>> \notin plan =>
      \E k \in Live : Active(k) /\ sock[k].from = n /\ sock[k].to = a

\* The inductive invariant of the connections.
LinkInv == LinkTypes /\ SocksUsed /\ OneDial /\ ChannelEnds /\ EndChannels /\ Attempts

\* The two ends of a socket.
LEMMA EndsOf ==
  ASSUME NEW r \in SockRecords
  PROVE  r["out"] = r.out /\ r["in"] = r.in
BY Zenon

\* One end of one socket changes to v, or the socket is closed for good.
EndStep(k, d, v) ==
  /\ sock' \in [Socks -> SockRecords]
  /\ \A j \in Socks \ {k} : sock'[j] = sock[j]
  /\ \/ /\ sock'[k] = Unused /\ v = "closed"
        /\ sock[k][Other(d)] = "closed" \/ (d = "out" /\ sock[k].out = "dial")
     \/ /\ sock'[k].from = sock[k].from /\ sock'[k].to = sock[k].to
        /\ sock'[k][d] = v /\ sock'[k][Other(d)] = sock[k][Other(d)]
        /\ v = "closed" => sock[k][Other(d)] # "closed"

\* A handler that registers an end with the next handler changes that end only.
LEMMA SetEnd ==
  ASSUME LinkTypes, NEW k \in Socks, NEW d \in Dirs, NEW v \in EndStates \ {"closed"},
         sock' = [sock EXCEPT ![k][d] = v]
  PROVE  EndStep(k, d, v)
<1>1. sock[k] \in SockRecords
  BY Zenon DEF LinkTypes
<1>2. CASE d = "out"
  <2>1. sock' = [sock EXCEPT ![k] = [sock[k] EXCEPT !.out = v]]
    BY <1>2, Zenon
  <2> QED BY <1>1, <1>2, <2>1 DEF EndStep, SockRecords, LinkTypes, Other
<1>3. CASE d = "in"
  <2>1. sock' = [sock EXCEPT ![k] = [sock[k] EXCEPT !.in = v]]
    BY <1>3, Zenon
  <2> QED BY <1>1, <1>3, <2>1 DEF EndStep, SockRecords, LinkTypes, Other
<1> QED BY <1>2, <1>3, Zenon DEF Dirs

\* A handler that closes an end (mdv_socket_close): with the second end the socket goes.
LEMMA CloseEndStep ==
  ASSUME LinkTypes, NEW k \in Socks, NEW d \in Dirs, CloseEnd(k, d), d = "in" => sock[k].out # "dial"
  PROVE  EndStep(k, d, "closed")
<1>1. sock[k] \in SockRecords
  BY Zenon DEF LinkTypes
<1>2. Unused \in SockRecords
  BY Zenon DEF Unused, SockRecords, EndStates
<1>3. CASE d = "out"
  <2>1. sock' = [sock EXCEPT ![k] = IF sock[k].in = "closed" \/ sock[k].out = "dial" THEN Unused
                                    ELSE [sock[k] EXCEPT !.out = "closed"]]
    BY <1>1, <1>3, Zenon DEF CloseEnd, Other, SockRecords
  <2> QED BY <1>1, <1>2, <1>3, <2>1, Zenon
             DEF EndStep, SockRecords, LinkTypes, Other, EndStates
<1>4. CASE d = "in"
  <2>1. sock' = [sock EXCEPT ![k] = IF sock[k].out = "closed" THEN Unused
                                    ELSE [sock[k] EXCEPT !.in = "closed"]]
    BY <1>1, <1>4, Zenon DEF CloseEnd, Other, SockRecords
  <2> QED BY <1>1, <1>2, <1>4, <2>1, Zenon
             DEF EndStep, SockRecords, LinkTypes, Other, EndStates
<1> QED BY <1>3, <1>4, Zenon DEF Dirs

\* What is left of the sockets and their ends.
LEMMA EndMoved ==
  ASSUME LinkTypes, SocksUsed, NEW k \in Live, NEW d \in Dirs, NEW v \in EndStates, EndStep(k, d, v)
  PROVE  /\ Live' \subseteq Live /\ \A j \in Live : j \notin Live' => j = k
         /\ \A j \in Live', e \in Dirs :
              /\ NodeOf(j, e)' = NodeOf(j, e) /\ PeerOf(j, e)' = PeerOf(j, e)
              /\ sock'[j][e] = IF j = k /\ e = d THEN v ELSE sock[j][e]
         /\ \A j \in Live' : sock'[j].from = sock[j].from /\ sock'[j].to = sock[j].to
         /\ k \notin Live' => /\ v = "closed" /\ ~Receives(k, Other(d))
                              /\ d = "in" => ~Active(k)
         /\ k \in Live' /\ v = "closed" => sock[k][Other(d)] # "closed"
<1>1. /\ k \in Socks /\ sock[k] \in SockRecords /\ sock'[k] \in SockRecords
      /\ Unused.out = "closed" /\ Unused.in = "closed"
  BY Zenon DEF Live, LinkTypes, EndStep, Unused
<1>2. /\ sock[k].out # "closed" \/ sock[k].in # "closed"
      /\ sock[k].out = "dial" => sock[k].in = "none"
  BY Zenon DEF SocksUsed
<1>3. \A j \in Socks : j # k => (j \in Live' <=> j \in Live) /\ sock'[j] = sock[j]
  BY Zenon DEF EndStep, Live, Unused
<1>4. Live' \subseteq Live /\ \A j \in Live : j \notin Live' => j = k
  BY <1>3, Zenon DEF Live
<1>5. k \notin Live' => v = "closed" /\ ~Receives(k, Other(d)) /\ (d = "in" => ~Active(k))
  <2>1. ASSUME sock'[k] = Unused
        PROVE  /\ v = "closed" /\ sock[k][Other(d)] \in {"closed", "none"}
               /\ d = "in" => sock[k].out = "closed"
    BY <1>1, <1>2, <2>1, Zenon DEF EndStep, Other, Dirs
  <2>2. ASSUME k \notin Live' PROVE sock'[k] = Unused
    BY <1>1, <2>2, Zenon DEF Live, Unused, Socks
  <2> QED BY <2>1, <2>2, Zenon DEF Receives, Active
<1>6. ASSUME k \in Live'
      PROVE  /\ sock'[k].from = sock[k].from /\ sock'[k].to = sock[k].to
             /\ sock'[k][d] = v /\ sock'[k][Other(d)] = sock[k][Other(d)]
             /\ v = "closed" => sock[k][Other(d)] # "closed"
  <2>1. sock'[k] # Unused
    BY <1>6, Zenon DEF Live, Unused
  <2> QED BY <2>1, Zenon DEF EndStep
<1>7. \A e \in Dirs : e = d \/ e = Other(d)
  BY DEF Dirs, Other
<1>8. ASSUME NEW j \in Live', NEW e \in Dirs
      PROVE  sock'[j][e] = IF j = k /\ e = d THEN v ELSE sock[j][e]
  BY <1>3, <1>6, <1>7, Zenon DEF Live
<1>9. ASSUME NEW j \in Live' PROVE sock'[j].from = sock[j].from /\ sock'[j].to = sock[j].to
  BY <1>3, <1>6, Zenon DEF Live
<1>10. ASSUME NEW j \in Live', NEW e \in Dirs
       PROVE  NodeOf(j, e)' = NodeOf(j, e) /\ PeerOf(j, e)' = PeerOf(j, e)
  BY <1>9, Zenon DEF NodeOf, PeerOf
<1> QED BY <1>4, <1>5, <1>6, <1>8, <1>9, <1>10, Zenon

\* The dialer of a dialed end gets state s; no dialer comes or goes.
DialerStep(k, d, s) ==
  /\ DOMAIN dialers' = Nodes
  /\ \A n \in Nodes :
       /\ DOMAIN dialers'[n] = DOMAIN dialers[n]
       /\ \A a \in DOMAIN dialers[n] :
            dialers'[n][a] = IF d = "out" /\ n = sock[k].from /\ a = sock[k].to THEN s
                             ELSE dialers[n][a]

\* A handler that tells the dialer of its end, which an accepted end does not have.
LEMMA SetDialerStep ==
  ASSUME LinkTypes, SocksUsed, NEW k \in Live, NEW d \in Dirs, NEW s, SetDialer(k, d, s)
  PROVE  DialerStep(k, d, s)
<1>1. /\ sock[k].from \in Nodes /\ sock[k].to \in DOMAIN dialers[sock[k].from]
      /\ DOMAIN dialers = Nodes
  BY Zenon DEF SocksUsed, LinkTypes
<1>2. CASE d = "out"
  <2>1. dialers' = [dialers EXCEPT ![sock[k].from] = PutEntry(@, sock[k].to, s)]
    BY <1>1, <1>2, Zenon DEF SetDialer, HasDialer, NodeOf, PeerOf, Other
  <2> QED BY <1>1, <1>2, <2>1, Zenon DEF DialerStep, PutEntry
<1>3. CASE d = "in"
  BY <1>1, <1>3, Zenon DEF SetDialer, HasDialer, DialerStep
<1> QED BY <1>2, <1>3, Zenon DEF Dirs

\* Where the dialers stay as they are.
LEMMA SameDialers ==
  ASSUME LinkTypes, NEW k \in Live, NEW d \in Dirs, dialers' = dialers
  PROVE  DialerStep(k, d, dialers[sock[k].from][sock[k].to])
BY Zenon DEF LinkTypes, DialerStep

\* The sockets and their dialers after an end has changed: a dialer is not disconnected
\* while its end is of use.
LEMMA UsedAfter ==
  ASSUME LinkInv, NEW k \in Live, NEW d \in Dirs, NEW v \in EndStates, NEW s,
         EndStep(k, d, v), DialerStep(k, d, s), plan' = plan, DOMAIN channels' = Nodes,
         d = "in" => sock[k].out # "dial",
         d = "out" => /\ v # "dial"
                      /\ Active(k) \/ s = dialers[sock[k].from][sock[k].to]
                      /\ v \in {"ending", "closed"} \/ (Active(k) /\ s # "disconnected")
  PROVE  LinkTypes' /\ SocksUsed' /\ OneDial'
<1>0. LinkTypes /\ SocksUsed /\ OneDial
  BY Zenon DEF LinkInv
<1>1. /\ Live' \subseteq Live
      /\ \A j \in Live' :
           /\ sock'[j].from = sock[j].from /\ sock'[j].to = sock[j].to
           /\ sock'[j]["out"] = IF j = k /\ "out" = d THEN v ELSE sock[j]["out"]
           /\ sock'[j]["in"] = IF j = k /\ "in" = d THEN v ELSE sock[j]["in"]
      /\ k \in Live' /\ v = "closed" => sock[k][Other(d)] # "closed"
  <2>1. "out" \in Dirs /\ "in" \in Dirs
    BY Zenon DEF Dirs
  <2>2. ASSUME NEW j \in Live'
        PROVE  /\ sock'[j].from = sock[j].from /\ sock'[j].to = sock[j].to
               /\ sock'[j]["out"] = IF j = k /\ "out" = d THEN v ELSE sock[j]["out"]
               /\ sock'[j]["in"] = IF j = k /\ "in" = d THEN v ELSE sock[j]["in"]
    BY <1>0, <2>1, EndMoved
  <2> QED BY <1>0, <2>2, EndMoved
<1>2. LinkTypes'
  BY <1>0, Zenon DEF LinkTypes, EndStep, DialerStep, Socks
<1>3. \A j \in Live' : j \in Socks
  BY <1>1, Zenon DEF Live
<1>4. ASSUME NEW j \in Live'
      PROVE  /\ sock'[j].out = IF j = k /\ "out" = d THEN v ELSE sock[j].out
             /\ sock'[j].in = IF j = k /\ "in" = d THEN v ELSE sock[j].in
  <2>1. sock[j] \in SockRecords /\ sock'[j] \in SockRecords
    BY <1>0, <1>2, <1>3, Zenon DEF LinkTypes, Socks
  <2> QED BY <1>1, <2>1, EndsOf, Zenon
<1>5. ASSUME NEW j \in Live' PROVE Active(j)' => Active(j)
  BY <1>4, <1>5, Zenon DEF Active
<1>6. SocksUsed'
  <2> SUFFICES ASSUME NEW j \in Live'
               PROVE  /\ sock'[j].from \in Nodes /\ sock'[j].to \in Nodes
                      /\ sock'[j].out # "closed" \/ sock'[j].in # "closed"
                      /\ sock'[j].out = "dial" => sock'[j].in = "none"
                      /\ sock'[j].to \in DOMAIN dialers'[sock'[j].from]
                      /\ Active(j)' => dialers'[sock'[j].from][sock'[j].to] # "disconnected"
    BY Zenon DEF SocksUsed
  <2>1. /\ j \in Live /\ sock[j].from \in Nodes /\ sock[j].to \in Nodes
        /\ sock[j].out # "closed" \/ sock[j].in # "closed"
        /\ sock[j].out = "dial" => sock[j].in = "none"
        /\ sock[j].to \in DOMAIN dialers[sock[j].from]
        /\ Active(j) => dialers[sock[j].from][sock[j].to] # "disconnected"
    BY <1>0, <1>1, Zenon DEF SocksUsed
  <2>2. sock'[j].out # "closed" \/ sock'[j].in # "closed"
    BY <1>1, <1>4, <2>1, EndsOf, <1>0, Zenon DEF Other, Dirs, LinkTypes, Live
  <2>3. sock'[j].out = "dial" => sock'[j].in = "none"
    BY <1>4, <2>1, Zenon DEF Dirs
  <2>4. sock'[j].to \in DOMAIN dialers'[sock'[j].from]
    BY <1>1, <2>1, Zenon DEF DialerStep
  <2>5. ASSUME Active(j)' PROVE dialers'[sock'[j].from][sock'[j].to] # "disconnected"
    <3>1. Active(j) /\ (j = k /\ d = "out" => s # "disconnected")
      BY <1>4, <1>5, <2>5, Zenon DEF Active
    <3>2. CASE d = "out" /\ sock[j].from = sock[k].from /\ sock[j].to = sock[k].to
      <4>1. dialers'[sock[j].from][sock[j].to] = s
        BY <2>1, <3>2, Zenon DEF DialerStep
      <4>2. Active(k) => j = k
        BY <1>0, <2>1, <3>1, <3>2, Zenon DEF OneDial
      <4>3. s # "disconnected"
        BY <2>1, <3>1, <3>2, <4>2, Zenon
      <4> QED BY <1>1, <4>1, <4>3, Zenon
    <3>3. CASE ~(d = "out" /\ sock[j].from = sock[k].from /\ sock[j].to = sock[k].to)
      <4>1. dialers'[sock[j].from][sock[j].to] = dialers[sock[j].from][sock[j].to]
        BY <2>1, <3>3, Zenon DEF DialerStep
      <4> QED BY <1>1, <2>1, <3>1, <4>1, Zenon
    <3> QED BY <3>2, <3>3, Zenon
  <2> QED BY <1>1, <2>1, <2>2, <2>3, <2>4, <2>5, Zenon
<1>7. OneDial'
  BY <1>0, <1>1, <1>5, ZenonT(40) DEF OneDial
<1> QED BY <1>2, <1>6, <1>7, Zenon

\* A dialer is told when its end is not of use any more.
LEMMA AttemptsAfter ==
  ASSUME LinkInv, NEW k \in Live, NEW d \in Dirs, NEW v \in EndStates, NEW s,
         EndStep(k, d, v), DialerStep(k, d, s), plan' = plan, lost => lost',
         LinkTypes', SocksUsed',
         d = "out" /\ v \in {"ending", "closed"} =>
           \/ lost' \/ s = "disconnected" \/ <<sock[k].to, sock[k].from>> \in plan
           \/ ~Active(k) /\ s = dialers[sock[k].from][sock[k].to]
  PROVE  Attempts'
<1>0. LinkTypes /\ SocksUsed /\ OneDial /\ Attempts
  BY Zenon DEF LinkInv
<1> SUFFICES ASSUME ~lost', NEW n \in Nodes, NEW a \in DOMAIN dialers'[n],
                    dialers'[n][a] # "disconnected", <<a, n>> \notin plan
             PROVE  \E j \in Live' : Active(j)' /\ sock'[j].from = n /\ sock'[j].to = a
  BY DEF Attempts
<1>1. a \in DOMAIN dialers[n] /\ ~lost
  BY Zenon DEF DialerStep
<1>2. ASSUME NEW j \in Live, Active(j), sock[j].from = n, sock[j].to = a, j # k \/ d = "in"
      PROVE  \E i \in Live' : Active(i)' /\ sock'[i].from = n /\ sock'[i].to = a
  <2>1. j \in Live'
    BY <1>0, <1>2, EndMoved
  <2>2. "out" \in Dirs /\ "out" # "in"
    BY Zenon DEF Dirs
  <2>3. sock'[j].from = n /\ sock'[j].to = a /\ sock'[j]["out"] = sock[j]["out"]
    BY <1>0, <1>2, <2>1, <2>2, EndMoved
  <2>4. sock[j] \in SockRecords /\ sock'[j] \in SockRecords
    BY <2>1, <1>0, Zenon DEF LinkTypes, Live, Socks
  <2>5. Active(j)'
    BY <1>2, <2>3, <2>4, EndsOf, Zenon DEF Active
  <2> QED BY <2>1, <2>3, <2>5, Zenon
<1>3. CASE d = "out" /\ n = sock[k].from /\ a = sock[k].to
  <2>1. dialers'[n][a] = s
    BY <1>1, <1>3, Zenon DEF DialerStep
  <2>2. CASE v \in {"ending", "closed"}
    <3>1. ~Active(k) /\ s = dialers[n][a]
      BY <1>3, <2>1, <2>2, Zenon
    <3>2. PICK j \in Live : Active(j) /\ sock[j].from = n /\ sock[j].to = a
      BY <1>0, <1>1, <2>1, <3>1 DEF Attempts
    <3> QED BY <1>2, <3>1, <3>2, Zenon
  <2>3. CASE v \notin {"ending", "closed"}
    <3>1. k \in Live' /\ "out" \in Dirs
      BY <1>0, <2>3, EndMoved DEF Dirs
    <3>2. sock'[k].from = n /\ sock'[k].to = a /\ sock'[k]["out"] = v
      BY <1>0, <1>3, <3>1, EndMoved
    <3>3. sock'[k] \in SockRecords
      BY <3>1, Zenon DEF LinkTypes, Live, Socks
    <3>4. Active(k)'
      BY <2>3, <3>2, <3>3, EndsOf, Zenon DEF Active
    <3> QED BY <3>1, <3>2, <3>4, Zenon
  <2> QED BY <2>2, <2>3, Zenon
<1>4. CASE ~(d = "out" /\ n = sock[k].from /\ a = sock[k].to)
  <2>1. dialers'[n][a] = dialers[n][a]
    BY <1>1, <1>4, Zenon DEF DialerStep
  <2>2. PICK j \in Live : Active(j) /\ sock[j].from = n /\ sock[j].to = a
    BY <1>0, <1>1, <2>1 DEF Attempts
  <2>3. j # k \/ d = "in"
    BY <1>4, <2>2, Zenon DEF Dirs
  <2> QED BY <1>2, <2>2, <2>3, Zenon
<1> QED BY <1>3, <1>4, Zenon

\* The ends that receive after one end has changed.
LEMMA ReceivesAfter ==
  ASSUME LinkTypes, SocksUsed, NEW k \in Live, NEW d \in Dirs, NEW v \in EndStates, EndStep(k, d, v),
         NEW j \in Live, NEW e \in Dirs
  PROVE  /\ j \in Live' /\ Receives(j, e)' <=>
              IF j = k /\ e = d THEN v \in {"created", "recv"} ELSE Receives(j, e)
         /\ j \in Live' => NodeOf(j, e)' = NodeOf(j, e) /\ PeerOf(j, e)' = PeerOf(j, e)
<1>1. CASE j \in Live'
  BY <1>1, EndMoved DEF Receives
<1>2. CASE j \notin Live'
  <2>1. j = k /\ v = "closed" /\ ~Receives(k, Other(d))
    BY <1>2, EndMoved
  <2>2. e = d \/ e = Other(d)
    BY DEF Dirs, Other
  <2> QED BY <1>2, <2>1, <2>2, Zenon
<1> QED BY <1>1, <1>2, Zenon

\* The node of an end is a node.
LEMMA NodeOfEnd ==
  ASSUME SocksUsed, NEW k \in Live, NEW d \in Dirs
  PROVE  NodeOf(k, d) \in Nodes /\ PeerOf(k, d) \in Nodes
BY Zenon DEF SocksUsed, NodeOf, PeerOf, Dirs, Other

\* No channel comes or goes, and no end begins or ends to receive.
LEMMA ChannelsSame ==
  ASSUME LinkInv, NEW k \in Live, NEW d \in Dirs, NEW v \in EndStates, EndStep(k, d, v),
         channels' = channels, Receives(k, d) <=> v \in {"created", "recv"}
  PROVE  ChannelEnds' /\ EndChannels'
<1>0. LinkTypes /\ SocksUsed /\ ChannelEnds /\ EndChannels
  BY Zenon DEF LinkInv
<1>1. \A j \in Live, e \in Dirs : j \in Live' /\ Receives(j, e)' <=> Receives(j, e)
  BY <1>0, ReceivesAfter, Zenon
<1>2. \A j \in Live, e \in Dirs :
        j \in Live' => NodeOf(j, e)' = NodeOf(j, e) /\ PeerOf(j, e)' = PeerOf(j, e)
  BY <1>0, ReceivesAfter, Zenon
<1>3. Live' \subseteq Live
  BY <1>0, EndMoved, Zenon
<1>4. ASSUME NEW n \in Nodes, NEW m \in DOMAIN channels[n]
      PROVE  \E j \in Live', e \in Dirs : /\ channels[n][m] = <<j, e>> /\ Receives(j, e)'
                                          /\ NodeOf(j, e)' = n /\ PeerOf(j, e)' = m
  <2>1. PICK j \in Live, e \in Dirs : /\ channels[n][m] = <<j, e>> /\ Receives(j, e)
                                      /\ NodeOf(j, e) = n /\ PeerOf(j, e) = m
    BY <1>0, Zenon DEF ChannelEnds
  <2> QED BY <1>1, <1>2, <2>1, Zenon
<1>5. ChannelEnds'
  BY <1>4 DEF ChannelEnds
<1>6. ASSUME NEW j \in Live', NEW e \in Dirs, Receives(j, e)'
      PROVE  /\ PeerOf(j, e)' \in DOMAIN channels[NodeOf(j, e)']
             /\ channels[NodeOf(j, e)'][PeerOf(j, e)'] = <<j, e>>
  <2>1. j \in Live /\ Receives(j, e)
    BY <1>1, <1>3, <1>6, Zenon
  <2> QED BY <1>0, <1>2, <2>1, Zenon DEF EndChannels
<1>7. EndChannels'
  BY <1>6, Zenon DEF EndChannels
<1> QED BY <1>5, <1>7, Zenon

\* The end begins to receive and gets its channel.
LEMMA ChannelAdded ==
  ASSUME LinkInv, NEW k \in Live, NEW d \in Dirs, NEW v \in {"created", "recv"}, EndStep(k, d, v),
         ~Receives(k, d), PeerOf(k, d) \notin DOMAIN channels[NodeOf(k, d)],
         channels' = [channels EXCEPT ![NodeOf(k, d)] = PutEntry(@, PeerOf(k, d), <<k, d>>)]
  PROVE  ChannelEnds' /\ EndChannels' /\ DOMAIN channels' = Nodes
<1>0. LinkTypes /\ SocksUsed /\ ChannelEnds /\ EndChannels /\ v \in EndStates
  BY Zenon DEF LinkInv, EndStates
<1>1. \A j \in Live, e \in Dirs : j \in Live' /\ Receives(j, e)' <=> Receives(j, e) \/ (j = k /\ e = d)
  BY <1>0, ReceivesAfter, Zenon
<1>2. \A j \in Live, e \in Dirs :
        j \in Live' => NodeOf(j, e)' = NodeOf(j, e) /\ PeerOf(j, e)' = PeerOf(j, e)
  BY <1>0, ReceivesAfter, Zenon
<1>3. Live' \subseteq Live
  BY <1>0, EndMoved, Zenon
<1>4. PICK x, y : x = NodeOf(k, d) /\ y = PeerOf(k, d) /\ x \in Nodes
  BY <1>0, NodeOfEnd, Zenon
<1>5. /\ DOMAIN channels' = Nodes
      /\ \A n \in Nodes : \A m : m \in DOMAIN channels'[n] <=> m \in DOMAIN channels[n] \/ (n = x /\ m = y)
      /\ channels'[x][y] = <<k, d>>
      /\ \A n \in Nodes : \A m \in DOMAIN channels[n] : n # x \/ m # y => channels'[n][m] = channels[n][m]
  BY <1>0, <1>4, Zenon DEF LinkTypes, PutEntry
<1>6. ASSUME NEW n \in Nodes, NEW m \in DOMAIN channels'[n]
      PROVE  \E j \in Live', e \in Dirs : /\ channels'[n][m] = <<j, e>> /\ Receives(j, e)'
                                          /\ NodeOf(j, e)' = n /\ PeerOf(j, e)' = m
  <2>1. CASE n = x /\ m = y
    BY <1>1, <1>2, <1>4, <1>5, <2>1
  <2>2. CASE ~(n = x /\ m = y)
    <3>1. m \in DOMAIN channels[n] /\ channels'[n][m] = channels[n][m]
      BY <1>5, <2>2
    <3>2. PICK j \in Live, e \in Dirs : /\ channels[n][m] = <<j, e>> /\ Receives(j, e)
                                        /\ NodeOf(j, e) = n /\ PeerOf(j, e) = m
      BY <1>0, <3>1 DEF ChannelEnds
    <3> QED BY <1>1, <1>2, <3>1, <3>2, Zenon
  <2> QED BY <2>1, <2>2, Zenon
<1>7. ChannelEnds'
  BY <1>6 DEF ChannelEnds
<1>8. ASSUME NEW j \in Live', NEW e \in Dirs, Receives(j, e)'
      PROVE  /\ PeerOf(j, e)' \in DOMAIN channels'[NodeOf(j, e)']
             /\ channels'[NodeOf(j, e)'][PeerOf(j, e)'] = <<j, e>>
  <2>1. j \in Live /\ NodeOf(j, e)' = NodeOf(j, e) /\ PeerOf(j, e)' = PeerOf(j, e)
    BY <1>2, <1>3, Zenon
  <2>2. CASE j = k /\ e = d
    BY <1>4, <1>5, <2>1, <2>2, Zenon
  <2>3. CASE ~(j = k /\ e = d)
    <3>1. Receives(j, e) /\ NodeOf(j, e) \in Nodes
      BY <1>0, <1>1, <1>8, <2>1, <2>3, NodeOfEnd, Zenon
    <3>2. /\ PeerOf(j, e) \in DOMAIN channels[NodeOf(j, e)]
          /\ channels[NodeOf(j, e)][PeerOf(j, e)] = <<j, e>>
      BY <1>0, <2>1, <3>1, Zenon DEF EndChannels
    <3>3. NodeOf(j, e) # x \/ PeerOf(j, e) # y
      BY <1>4, <3>2, Zenon
    <3> QED BY <1>5, <2>1, <3>1, <3>2, <3>3
  <2> QED BY <2>2, <2>3, Zenon
<1>9. EndChannels'
  BY <1>8, Zenon DEF EndChannels
<1> QED BY <1>5, <1>7, <1>9, Zenon

\* The end ends to receive, and its channel goes.
LEMMA ChannelErased ==
  ASSUME LinkInv, NEW k \in Live, NEW d \in Dirs, NEW v \in EndStates \ {"created", "recv"},
         EndStep(k, d, v), Receives(k, d),
         channels' = [channels EXCEPT ![NodeOf(k, d)] = EraseEntry(@, PeerOf(k, d))]
  PROVE  ChannelEnds' /\ EndChannels' /\ DOMAIN channels' = Nodes
<1>0. LinkTypes /\ SocksUsed /\ ChannelEnds /\ EndChannels /\ v \in EndStates
  BY Zenon DEF LinkInv
<1>1. \A j \in Live, e \in Dirs : j \in Live' /\ Receives(j, e)' <=> Receives(j, e) /\ ~(j = k /\ e = d)
  BY <1>0, ReceivesAfter, Zenon
<1>2. \A j \in Live, e \in Dirs :
        j \in Live' => NodeOf(j, e)' = NodeOf(j, e) /\ PeerOf(j, e)' = PeerOf(j, e)
  BY <1>0, ReceivesAfter, Zenon
<1>3. Live' \subseteq Live
  BY <1>0, EndMoved, Zenon
<1>4. PICK x, y : x = NodeOf(k, d) /\ y = PeerOf(k, d) /\ x \in Nodes
  BY <1>0, NodeOfEnd, Zenon
<1>5. /\ DOMAIN channels' = Nodes
      /\ \A n \in Nodes : \A m : m \in DOMAIN channels'[n] <=> m \in DOMAIN channels[n] /\ (n # x \/ m # y)
      /\ \A n \in Nodes : \A m \in DOMAIN channels[n] : n # x \/ m # y => channels'[n][m] = channels[n][m]
  BY <1>0, <1>4, Zenon DEF LinkTypes, EraseEntry
<1>6. y \in DOMAIN channels[x] /\ channels[x][y] = <<k, d>>
  BY <1>0, <1>4, Zenon DEF EndChannels
<1>7. ASSUME NEW n \in Nodes, NEW m \in DOMAIN channels'[n]
      PROVE  \E j \in Live', e \in Dirs : /\ channels'[n][m] = <<j, e>> /\ Receives(j, e)'
                                          /\ NodeOf(j, e)' = n /\ PeerOf(j, e)' = m
  <2>1. m \in DOMAIN channels[n] /\ channels'[n][m] = channels[n][m] /\ (n # x \/ m # y)
    BY <1>5, <1>7
  <2>2. PICK j \in Live, e \in Dirs : /\ channels[n][m] = <<j, e>> /\ Receives(j, e)
                                      /\ NodeOf(j, e) = n /\ PeerOf(j, e) = m
    BY <1>0, <2>1 DEF ChannelEnds
  <2>3. ~(j = k /\ e = d)
    BY <1>4, <2>1, <2>2, Zenon
  <2> QED BY <1>1, <1>2, <2>1, <2>2, <2>3, Zenon
<1>8. ChannelEnds'
  BY <1>7 DEF ChannelEnds
<1>9. ASSUME NEW j \in Live', NEW e \in Dirs, Receives(j, e)'
      PROVE  /\ PeerOf(j, e)' \in DOMAIN channels'[NodeOf(j, e)']
             /\ channels'[NodeOf(j, e)'][PeerOf(j, e)'] = <<j, e>>
  <2>1. /\ j \in Live /\ NodeOf(j, e)' = NodeOf(j, e) /\ PeerOf(j, e)' = PeerOf(j, e)
        /\ Receives(j, e) /\ ~(j = k /\ e = d) /\ NodeOf(j, e) \in Nodes
    BY <1>0, <1>1, <1>2, <1>3, <1>9, NodeOfEnd, Zenon
  <2>2. /\ PeerOf(j, e) \in DOMAIN channels[NodeOf(j, e)]
        /\ channels[NodeOf(j, e)][PeerOf(j, e)] = <<j, e>>
    BY <1>0, <2>1, Zenon DEF EndChannels
  <2>3. NodeOf(j, e) # x \/ PeerOf(j, e) # y
    BY <1>6, <2>1, <2>2
  <2> QED BY <1>5, <2>1, <2>2, <2>3
<1>10. EndChannels'
  BY <1>9, Zenon DEF EndChannels
<1> QED BY <1>5, <1>8, <1>10, Zenon

\* What a handler owes to the dialer of its socket.
Told(k, d, v, s) ==
  /\ d = "in" => sock[k].out # "dial"
  /\ d = "out" => /\ v # "dial"
                  /\ Active(k) \/ s = dialers[sock[k].from][sock[k].to]
                  /\ v \in {"ending", "closed"} \/ (Active(k) /\ s # "disconnected")
  /\ d = "out" /\ v \in {"ending", "closed"} =>
       \/ lost' \/ s = "disconnected" \/ <<sock[k].to, sock[k].from>> \in plan \/ ~Active(k)

\* A handler that tells the dialer what it owes, and keeps channels and ends together.
LEMMA HandlerInv ==
  ASSUME LinkInv, NEW k \in Live, NEW d \in Dirs, NEW v \in EndStates, NEW s,
         EndStep(k, d, v), DialerStep(k, d, s), Told(k, d, v, s), plan' = plan, lost => lost',
         ChannelEnds', EndChannels', DOMAIN channels' = Nodes
  PROVE  LinkInv'
<1>1. LinkTypes' /\ SocksUsed' /\ OneDial'
  BY UsedAfter, Zenon DEF Told
<1>2. Attempts'
  BY <1>1, AttemptsAfter, Zenon DEF Told
<1> QED BY <1>1, <1>2, Zenon DEF LinkInv

\* A handler that leaves the channels and the dialers alone.
LEMMA QuietHandlerInv ==
  ASSUME LinkInv, NEW k \in Live, NEW d \in Dirs, NEW v \in EndStates, EndStep(k, d, v),
         Told(k, d, v, dialers[sock[k].from][sock[k].to]), lost => lost',
         UNCHANGED <<plan, dialers, channels>>, Receives(k, d) <=> v \in {"created", "recv"}
  PROVE  LinkInv'
<1>0. LinkTypes
  BY Zenon DEF LinkInv
<1>1. ChannelEnds' /\ EndChannels'
  BY ChannelsSame, Zenon
<1>2. DialerStep(k, d, dialers[sock[k].from][sock[k].to])
  BY <1>0, SameDialers, Zenon
<1>3. DOMAIN channels' = Nodes
  BY <1>0, Zenon DEF LinkTypes
<1> QED BY <1>1, <1>2, <1>3, HandlerInv, Zenon

\* What is known of a socket and its ends.
LEMMA SockFacts ==
  ASSUME LinkInv, NEW k \in Live
  PROVE  /\ k \in Socks /\ sock[k] \in SockRecords /\ sock[k]["out"] = sock[k].out /\ sock[k]["in"] = sock[k].in
         /\ sock[k].out # "closed" \/ sock[k].in # "closed"
         /\ sock[k].out = "dial" => sock[k].in = "none"
         /\ Active(k) => dialers[sock[k].from][sock[k].to] # "disconnected"
         /\ LinkTypes /\ SocksUsed
<1>1. k \in Socks /\ sock[k] \in SockRecords /\ LinkTypes /\ SocksUsed
  BY Zenon DEF LinkInv, LinkTypes, Live
<1> QED BY <1>1, EndsOf, Zenon DEF SocksUsed

\* mdv_chaman_dialer_handler.
LEMMA ConnectedInv ==
  ASSUME LinkInv, NEW k \in Socks, Connected(k) \/ NotConnected(k)
  PROVE  LinkInv'
<1>1. k \in Live /\ sock[k].out = "dial" /\ "out" \in Dirs
  BY Zenon DEF Connected, NotConnected, Dirs
<1>2. Active(k) /\ ~Receives(k, "out")
  BY <1>1, SockFacts, Zenon DEF Active, Receives
<1>3. CASE Connected(k)
  <2>1. "select" \in EndStates \ {"closed"}
    BY Zenon DEF EndStates
  <2>2. EndStep(k, "out", "select")
    BY <1>1, <1>3, <2>1, SockFacts, SetEnd, Zenon DEF Connected
  <2>3. Told(k, "out", "select", dialers[sock[k].from][sock[k].to])
    BY <1>1, <1>2, SockFacts, Zenon DEF Told
  <2> QED BY <1>1, <1>2, <1>3, <2>1, <2>2, <2>3, QuietHandlerInv, Zenon DEF Connected
<1>4. CASE NotConnected(k)
  <2>1. "closed" \in EndStates
    BY Zenon DEF EndStates
  <2>2. EndStep(k, "out", "closed")
    BY <1>1, <1>4, SockFacts, CloseEndStep, Zenon DEF NotConnected
  <2>3. Told(k, "out", "closed", "disconnected")
    BY <1>1, <1>2, Zenon DEF Told
  <2>4. DialerStep(k, "out", "disconnected")
    BY <1>1, <1>4, SockFacts, SetDialerStep, Zenon DEF NotConnected
  <2>5. ChannelEnds' /\ EndChannels'
    BY <1>1, <1>2, <1>4, <2>1, <2>2, ChannelsSame, Zenon DEF NotConnected
  <2>6. DOMAIN channels' = Nodes /\ plan' = plan /\ lost' = lost
    BY <1>1, <1>4, SockFacts, Zenon DEF NotConnected, LinkTypes
  <2> QED BY <1>1, <2>1, <2>2, <2>3, <2>4, <2>5, <2>6, HandlerInv, Zenon
<1> QED BY <1>3, <1>4, Zenon

\* mdv_chaman_accept_handler, and a connection that breaks.
LEMMA AcceptInv ==
  ASSUME LinkInv, NEW k \in Socks, Accept(k) \/ AcceptFail(k) \/ Break(k)
  PROVE  LinkInv'
<1>1. k \in Live /\ sock[k].out # "dial" /\ "in" \in Dirs
  BY Zenon DEF Accept, AcceptFail, Break, Dirs
<1>2. \A v, s : Told(k, "in", v, s)
  BY <1>1, Zenon DEF Told
<1>3. UNCHANGED <<plan, dialers, channels, lost>>
  BY Zenon DEF Accept, AcceptFail, Break
<1>4. CASE Accept(k)
  <2>1. "select" \in EndStates \ {"closed"} /\ ~Receives(k, "in")
    BY <1>1, <1>4, SockFacts, Zenon DEF EndStates, Accept, Receives
  <2>2. EndStep(k, "in", "select")
    BY <1>1, <1>4, <2>1, SockFacts, SetEnd, Zenon DEF Accept
  <2> QED BY <1>1, <1>2, <1>3, <2>1, <2>2, QuietHandlerInv, Zenon
<1>5. CASE AcceptFail(k)
  <2>1. "closed" \in EndStates /\ ~Receives(k, "in")
    BY <1>1, <1>5, SockFacts, Zenon DEF EndStates, AcceptFail, Receives
  <2>2. EndStep(k, "in", "closed")
    <3>1. /\ sock' = [sock EXCEPT ![k] = IF sock[k].out = "closed" THEN Unused
                                         ELSE [sock[k] EXCEPT !.in = "closed", !.broken = TRUE]]
          /\ Unused \in SockRecords
      BY <1>5, Zenon DEF AcceptFail, Unused, SockRecords, EndStates
    <3> QED BY <1>1, <2>1, <3>1, SockFacts, Zenon
               DEF EndStep, SockRecords, LinkTypes, Other
  <2> QED BY <1>1, <1>2, <1>3, <2>1, <2>2, QuietHandlerInv, Zenon
<1>6. CASE Break(k)
  <2>1. sock[k].in \in EndStates /\ (Receives(k, "in") <=> sock[k].in \in {"created", "recv"})
    BY <1>1, SockFacts, Zenon DEF SockRecords, Receives
  <2>2. EndStep(k, "in", sock[k].in)
    BY <1>1, <1>6, SockFacts DEF EndStep, SockRecords, LinkTypes, Other, Break
  <2> QED BY <1>1, <1>2, <1>3, <2>1, <2>2, QuietHandlerInv, Zenon
<1> QED BY <1>4, <1>5, <1>6, Zenon

\* An end that is past the connecting of its socket.
LEMMA PastDial ==
  ASSUME LinkInv, NEW k \in Live, NEW d \in Dirs, sock[k][d] \notin {"none", "dial"}
  PROVE  sock[k].out # "dial" /\ (d = "out" => (Active(k) <=> sock[k][d] \notin {"ending", "closed"}))
BY SockFacts, Zenon DEF Dirs, Active

\* mdv_chaman_select_handler: the first channel of a peer,
LEMMA NewChannelInv ==
  ASSUME LinkInv, NEW k \in Socks, NEW d \in Dirs, NewChannel(k, d)
  PROVE  LinkInv'
<1>1. k \in Live /\ sock[k][d] = "select" /\ ~Receives(k, d) /\ "created" \in EndStates \ {"closed"}
  BY Zenon DEF NewChannel, Readable, Receives, EndStates
<1>2. EndStep(k, d, "created")
  BY <1>1, SockFacts, SetEnd, Zenon DEF NewChannel
<1>3. Told(k, d, "created", "connected")
  BY <1>1, PastDial, Zenon DEF Told
<1>4. DialerStep(k, d, "connected")
  BY <1>1, SockFacts, SetDialerStep, Zenon DEF NewChannel
<1>5. ChannelEnds' /\ EndChannels' /\ DOMAIN channels' = Nodes
  BY <1>1, <1>2, ChannelAdded, Zenon DEF NewChannel, IsDuplicate
<1>6. plan' = plan /\ lost' = lost
  BY Zenon DEF NewChannel
<1> QED BY <1>1, <1>2, <1>3, <1>4, <1>5, <1>6, HandlerInv, Zenon

\* its registration with the pool, and that an end is closed that received no more,
LEMMA RegisterInv ==
  ASSUME LinkInv, NEW k \in Socks, NEW d \in Dirs, Register(k, d) \/ CloseRecv(k, d)
  PROVE  LinkInv'
<1>0. UNCHANGED <<plan, dialers, channels, lost>>
  BY Zenon DEF Register, CloseRecv
<1>1. CASE Register(k, d)
  <2>1. k \in Live /\ sock[k][d] = "created" /\ Receives(k, d) /\ "recv" \in EndStates \ {"closed"}
    BY <1>1, Zenon DEF Register, Receives, EndStates
  <2>2. EndStep(k, d, "recv")
    BY <1>1, <2>1, SockFacts, SetEnd, Zenon DEF Register
  <2>3. Told(k, d, "recv", dialers[sock[k].from][sock[k].to])
    BY <2>1, PastDial, SockFacts, Zenon DEF Told
  <2> QED BY <1>0, <2>1, <2>2, <2>3, QuietHandlerInv, Zenon
<1>2. CASE CloseRecv(k, d)
  <2>1. k \in Live /\ sock[k][d] = "ending" /\ ~Receives(k, d) /\ "closed" \in EndStates
    BY <1>2, Zenon DEF CloseRecv, Receives, EndStates
  <2>2. EndStep(k, d, "closed")
    BY <1>2, <2>1, SockFacts, PastDial, CloseEndStep, Zenon DEF CloseRecv
  <2>3. Told(k, d, "closed", dialers[sock[k].from][sock[k].to])
    BY <2>1, PastDial, SockFacts, Zenon DEF Told
  <2> QED BY <1>0, <2>1, <2>2, <2>3, QuietHandlerInv, Zenon
<1> QED BY <1>1, <1>2, Zenon

\* the handshakes that fail,
LEMMA SelectFailInv ==
  ASSUME LinkInv, NEW k \in Socks, NEW d \in Dirs, CreateFail(k, d) \/ SelectFail(k, d)
  PROVE  LinkInv'
<1>1. /\ k \in Live /\ sock[k][d] = "select" /\ ~Receives(k, d) /\ "closed" \in EndStates
      /\ UNCHANGED <<plan, dialers, channels>> /\ lost' = (lost \/ d = "out") /\ CloseEnd(k, d)
  BY Zenon DEF CreateFail, SelectFail, Readable, Receives, EndStates
<1>2. EndStep(k, d, "closed")
  BY <1>1, SockFacts, PastDial, CloseEndStep, Zenon
<1>3. Told(k, d, "closed", dialers[sock[k].from][sock[k].to])
  BY <1>1, PastDial, Zenon DEF Told
<1> QED BY <1>1, <1>2, <1>3, QuietHandlerInv, Zenon

\* and a second connection with a peer, which is closed: the dialer of its dialed end has
\* the channel that the peer dialled.
LEMMA DuplicateInv ==
  ASSUME LinkInv, NEW k \in Socks, NEW d \in Dirs, Duplicate(k, d)
  PROVE  LinkInv'
<1>1. /\ k \in Live /\ sock[k][d] = "select" /\ ~Receives(k, d) /\ "closed" \in EndStates
      /\ UNCHANGED <<plan, channels, lost>>
  BY Zenon DEF Duplicate, Readable, Receives, EndStates
<1>2. EndStep(k, d, "closed")
  BY <1>1, SockFacts, PastDial, CloseEndStep, Zenon DEF Duplicate
<1>3. ASSUME d = "out" PROVE <<sock[k].to, sock[k].from>> \in plan
  <2>1. sock[k].from \in Nodes /\ sock[k].to \in DOMAIN channels[sock[k].from]
    BY <1>1, <1>3, SockFacts, Zenon
       DEF Duplicate, IsDuplicate, PeerOf, NodeOf, Other, SocksUsed
  <2>2. PICK j \in Live, e \in Dirs : /\ Receives(j, e)
                                      /\ NodeOf(j, e) = sock[k].from /\ PeerOf(j, e) = sock[k].to
    BY <2>1, Zenon DEF LinkInv, ChannelEnds
  <2>3. Active(k)
    BY <1>1, <1>3, PastDial, Zenon
  <2>4. CASE e = "out"
    <3>1. sock[j].from = sock[k].from /\ sock[j].to = sock[k].to /\ Active(j)
      BY <2>2, <2>4, PastDial, Zenon DEF NodeOf, PeerOf, Other, Receives
    <3>2. j = k
      BY <1>1, <2>3, <3>1, Zenon DEF LinkInv, OneDial
    <3> QED BY <1>1, <1>3, <2>2, <2>4, <3>2, Zenon
  <2>5. CASE e = "in"
    <3>1. sock[j].to = sock[k].from /\ sock[j].from = sock[k].to
      BY <2>2, <2>5, Zenon DEF NodeOf, PeerOf, Other
    <3>2. sock[j].from \in Nodes /\ sock[j].to \in DOMAIN dialers[sock[j].from]
      BY SockFacts, Zenon DEF SocksUsed
    <3> QED BY <3>1, <3>2, Zenon DEF LinkInv, LinkTypes
  <2> QED BY <2>4, <2>5, Zenon DEF Dirs
<1>4. Told(k, d, "closed", "connected")
  BY <1>1, <1>3, PastDial, Zenon DEF Told
<1>5. DialerStep(k, d, "connected")
  BY <1>1, SockFacts, SetDialerStep, Zenon DEF Duplicate
<1>6. ChannelEnds' /\ EndChannels'
  BY <1>1, <1>2, ChannelsSame, Zenon
<1>7. DOMAIN channels' = Nodes
  BY <1>1, SockFacts, Zenon DEF LinkTypes
<1> QED BY <1>1, <1>2, <1>4, <1>5, <1>6, <1>7, HandlerInv, Zenon

\* mdv_chaman_recv_handler at the end of a connection, and a channel that cannot be
\* registered with the pool.
LEMMA EraseInv ==
  ASSUME LinkInv, NEW k \in Socks, NEW d \in Dirs, RegisterFail(k, d) \/ RecvEnd(k, d)
  PROVE  LinkInv'
<1>1. /\ k \in Live /\ sock[k][d] \in {"created", "recv"} /\ Receives(k, d)
      /\ SetDialer(k, d, "disconnected") /\ plan' = plan /\ lost' = lost
      /\ channels' = [channels EXCEPT ![NodeOf(k, d)] = EraseEntry(@, PeerOf(k, d))]
  BY Zenon DEF RegisterFail, RecvEnd, AtEnd, Receives
<1>2. PICK v \in {"closed", "ending"} : EndStep(k, d, v)
  <2>1. CASE RegisterFail(k, d)
    <3>1. EndStep(k, d, "closed")
      BY <1>1, <2>1, SockFacts, PastDial, CloseEndStep, Zenon DEF RegisterFail
    <3> QED BY <3>1, Zenon
  <2>2. CASE RecvEnd(k, d)
    <3>1. "ending" \in EndStates \ {"closed"}
      BY Zenon DEF EndStates
    <3>2. EndStep(k, d, "ending")
      BY <1>1, <2>2, <3>1, SockFacts, SetEnd, Zenon DEF RecvEnd
    <3> QED BY <3>2, Zenon
  <2> QED BY <2>1, <2>2, Zenon
<1>3. v \in EndStates \ {"created", "recv"} /\ v \in EndStates
  BY Zenon DEF EndStates
<1>4. Told(k, d, v, "disconnected")
  BY <1>1, PastDial, Zenon DEF Told
<1>5. DialerStep(k, d, "disconnected")
  BY <1>1, SockFacts, SetDialerStep, Zenon
<1>6. ChannelEnds' /\ EndChannels' /\ DOMAIN channels' = Nodes
  BY <1>1, <1>2, <1>3, ChannelErased, Zenon
<1> QED BY <1>1, <1>2, <1>3, <1>4, <1>5, <1>6, HandlerInv, Zenon

\* A new socket of node n to address a, whose dialer is connecting from now on.
LEMMA ConnectInv ==
  ASSUME LinkInv, NEW n \in Nodes, NEW a \in Nodes, Connect(n, a),
         DOMAIN dialers' = Nodes, <<n, a>> \in plan, UNCHANGED <<plan, channels, lost>>,
         a \in DOMAIN dialers[n] => dialers[n][a] = "disconnected",
         \A m \in Nodes : m # n => dialers'[m] = dialers[m],
         DOMAIN dialers'[n] = DOMAIN dialers[n] \cup {a}, dialers'[n][a] # "disconnected",
         \A b \in DOMAIN dialers[n] : b # a => dialers'[n][b] = dialers[n][b]
  PROVE  LinkInv'
<1> DEFINE new == [from |-> n, to |-> a, out |-> "dial", in |-> "none", broken |-> FALSE]
<1>1. PICK k \in Socks \ Live : sock' = [sock EXCEPT ![k] = new]
  BY Zenon DEF Connect
<1>2. new \in SockRecords /\ new # Unused
  <2>1. new \in SockRecords
    BY Zenon DEF SockRecords, EndStates
  <2>2. new.out = "dial" /\ Unused.out = "closed"
    BY Zenon DEF Unused
  <2> QED BY <2>1, <2>2, Zenon
<1>3. sock \in [Socks -> SockRecords] /\ sock' \in [Socks -> SockRecords] /\ sock'[k] = new
  BY <1>1, <1>2, Zenon DEF LinkInv, LinkTypes
<1>4. \A j \in Socks : j # k => sock'[j] = sock[j]
  BY <1>1, <1>3, Zenon
<1>5. Live' = Live \cup {k} /\ k \notin Live /\ Live \subseteq Socks
  <2>1. ASSUME NEW j \in Socks PROVE j \in Live' <=> (j \in Live \/ j = k)
    BY <1>1, <1>2, <1>3, <1>4, <2>1, Zenon DEF Live, Unused, Socks
  <2> QED BY <1>1, <2>1, Zenon DEF Live, Socks
<1>6. ASSUME NEW j \in Live, NEW d \in Dirs
      PROVE  /\ j # k /\ j \in Socks /\ sock'[j] = sock[j] /\ (Active(j)' <=> Active(j))
             /\ NodeOf(j, d)' = NodeOf(j, d) /\ PeerOf(j, d)' = PeerOf(j, d)
             /\ (Receives(j, d)' <=> Receives(j, d))
  BY <1>4, <1>5, Zenon DEF Active, NodeOf, PeerOf, Receives
<1>7. \A d \in Dirs : ~Receives(k, d)'
  BY <1>3 DEF Receives, Dirs
<1>8. Active(k)' /\ sock'[k].from = n /\ sock'[k].to = a
  BY <1>3 DEF Active
<1>9. ASSUME NEW j \in Live, sock[j].from = n, sock[j].to = a PROVE ~Active(j)
  BY <1>9, Zenon DEF LinkInv, SocksUsed
<1>10. LinkTypes'
  BY <1>3 DEF LinkInv, LinkTypes
<1>11. SocksUsed'
  <2>1. ASSUME NEW j \in Live
        PROVE  /\ sock'[j].from \in Nodes /\ sock'[j].to \in Nodes
               /\ sock'[j].out # "closed" \/ sock'[j].in # "closed"
               /\ sock'[j].out = "dial" => sock'[j].in = "none"
               /\ sock'[j].to \in DOMAIN dialers'[sock'[j].from]
               /\ Active(j)' => dialers'[sock'[j].from][sock'[j].to] # "disconnected"
    BY <1>6, <1>9 DEF LinkInv, SocksUsed, Dirs
  <2> QED BY <1>3, <1>5, <1>8, <2>1 DEF SocksUsed
<1>12. OneDial'
  BY <1>5, <1>6, <1>8, <1>9 DEF LinkInv, OneDial, Dirs
<1>13. ChannelEnds'
  BY <1>5, <1>6 DEF LinkInv, ChannelEnds
<1>14. EndChannels'
  BY <1>5, <1>6, <1>7 DEF LinkInv, EndChannels
<1>15. Attempts'
  <2> SUFFICES ASSUME ~lost, NEW m \in Nodes, NEW b \in DOMAIN dialers'[m],
                      dialers'[m][b] # "disconnected", <<b, m>> \notin plan
               PROVE  \E j \in Live' : Active(j)' /\ sock'[j].from = m /\ sock'[j].to = b
    BY DEF Attempts
  <2>1. CASE m = n /\ b = a
    BY <1>5, <1>8, <2>1, Zenon
  <2>2. CASE ~(m = n /\ b = a)
    <3>1. b \in DOMAIN dialers[m] /\ dialers[m][b] # "disconnected"
      BY <2>2
    <3>2. PICK j \in Live : Active(j) /\ sock[j].from = m /\ sock[j].to = b
      BY <3>1 DEF LinkInv, Attempts
    <3> QED BY <1>5, <1>6, <3>2, Zenon DEF Dirs
  <2> QED BY <2>1, <2>2, Zenon
<1> QED BY <1>10, <1>11, <1>12, <1>13, <1>14, <1>15, Zenon DEF LinkInv

\* mdv_chaman_dial and mdv_chaman_timer_handler.
LEMMA DialInv ==
  ASSUME LinkInv, NEW n \in Nodes, NEW a \in Nodes, DialPeer(n, a) \/ Retry(n, a)
  PROVE  LinkInv'
<1>1. DOMAIN dialers = Nodes /\ UNCHANGED <<plan, channels, lost>> /\ Connect(n, a)
  BY Zenon DEF LinkInv, LinkTypes, DialPeer, Retry
<1>2. CASE DialPeer(n, a)
  <2>1. a \notin DOMAIN dialers[n] /\ <<n, a>> \in plan
        /\ dialers' = [dialers EXCEPT ![n] = PutEntry(dialers[n], a, "connecting")]
    BY <1>2, Zenon DEF DialPeer
  <2>2. /\ DOMAIN dialers' = Nodes /\ \A m \in Nodes : m # n => dialers'[m] = dialers[m]
        /\ dialers'[n] = PutEntry(dialers[n], a, "connecting")
    BY <1>1, <2>1, Zenon
  <2>3. /\ DOMAIN dialers'[n] = DOMAIN dialers[n] \cup {a} /\ dialers'[n][a] # "disconnected"
        /\ \A b \in DOMAIN dialers[n] : b # a => dialers'[n][b] = dialers[n][b]
    BY <2>2, Zenon DEF PutEntry
  <2> QED BY <1>1, <2>1, <2>2, <2>3, ConnectInv, Zenon
<1>3. CASE Retry(n, a)
  <2>1. /\ a \in DOMAIN dialers[n] /\ dialers[n][a] = "disconnected"
        /\ dialers' = [dialers EXCEPT ![n] = [dialers[n] EXCEPT ![a] = RetryState]]
    BY <1>3, Zenon DEF Retry
  <2>2. /\ DOMAIN dialers' = Nodes /\ \A m \in Nodes : m # n => dialers'[m] = dialers[m]
        /\ dialers'[n] = [dialers[n] EXCEPT ![a] = RetryState]
    BY <1>1, <2>1, Zenon
  <2>3. /\ DOMAIN dialers'[n] = DOMAIN dialers[n] \cup {a} /\ dialers'[n][a] # "disconnected"
        /\ \A b \in DOMAIN dialers[n] : b # a => dialers'[n][b] = dialers[n][b]
    BY <2>1, <2>2, Zenon DEF RetryState
  <2>4. <<n, a>> \in plan
    BY <2>1, Zenon DEF LinkInv, LinkTypes
  <2> QED BY <1>1, <2>1, <2>2, <2>3, <2>4, ConnectInv, Zenon
<1> QED BY <1>2, <1>3, Zenon

\* Where the sockets and the channels stay as they are.
LEMMA SameSockets ==
  ASSUME UNCHANGED <<sock, channels>>
  PROVE  /\ Live' = Live /\ \A k : Active(k)' <=> Active(k)
         /\ OneDial => OneDial'
         /\ ChannelEnds => ChannelEnds'
         /\ EndChannels => EndChannels'
<1>1. Live' = Live
  BY Zenon DEF Live, Socks, Unused
<1>2. \A k : Active(k)' <=> Active(k)
  BY Zenon DEF Active
<1>3. \A k, d : /\ (Receives(k, d)' <=> Receives(k, d))
               /\ NodeOf(k, d)' = NodeOf(k, d) /\ PeerOf(k, d)' = PeerOf(k, d)
  BY Zenon DEF Receives, NodeOf, PeerOf, Other
<1>4. OneDial => OneDial'
  BY <1>1, <1>2, Zenon DEF OneDial
<1>5. ChannelEnds => ChannelEnds'
  <2> SUFFICES ASSUME ChannelEnds, NEW n \in Nodes, NEW m \in DOMAIN channels[n]
               PROVE  \E k \in Live, d \in Dirs :
                        /\ channels[n][m] = <<k, d>> /\ Receives(k, d)'
                        /\ NodeOf(k, d)' = n /\ PeerOf(k, d)' = m
    BY <1>1 DEF ChannelEnds
  <2>1. PICK k \in Live, d \in Dirs : /\ channels[n][m] = <<k, d>> /\ Receives(k, d)
                                      /\ NodeOf(k, d) = n /\ PeerOf(k, d) = m
    BY Zenon DEF ChannelEnds
  <2> QED BY <1>3, <2>1, Zenon
<1>6. EndChannels => EndChannels'
  BY <1>1, <1>3, Zenon DEF EndChannels, Dirs
<1> QED BY <1>1, <1>2, <1>4, <1>5, <1>6, Zenon

\* An attempt of the timer that fails at once.
LEMMA RetryFailInv ==
  ASSUME LinkInv, NEW n \in Nodes, NEW a \in Nodes, RetryFail(n, a)
  PROVE  LinkInv'
<1>1. DOMAIN dialers = Nodes /\ UNCHANGED <<plan, channels, sock>> /\ lost'
  BY Zenon DEF LinkInv, LinkTypes, RetryFail
<1>2. /\ a \in DOMAIN dialers[n]
      /\ dialers' = [dialers EXCEPT ![n] = [dialers[n] EXCEPT ![a] = RetryState]]
  BY Zenon DEF RetryFail
<1>3. /\ DOMAIN dialers' = Nodes /\ \A m \in Nodes : m # n => dialers'[m] = dialers[m]
      /\ dialers'[n] = [dialers[n] EXCEPT ![a] = RetryState]
  BY <1>1, <1>2, Zenon
<1>4. /\ DOMAIN dialers'[n] = DOMAIN dialers[n] /\ dialers'[n][a] # "disconnected"
      /\ \A b \in DOMAIN dialers[n] : b # a => dialers'[n][b] = dialers[n][b]
  BY <1>2, <1>3, Zenon DEF RetryState
<1>5. LinkTypes'
  BY <1>1, <1>3, <1>4, Zenon DEF LinkInv, LinkTypes
<1>6. SocksUsed'
  BY <1>1, <1>3, <1>4 DEF LinkInv, SocksUsed, Live, Active
<1>7. OneDial' /\ ChannelEnds' /\ EndChannels'
  BY <1>1, SameSockets, Zenon DEF LinkInv
<1>8. Attempts'
  BY <1>1, Zenon DEF Attempts
<1> QED BY <1>5, <1>6, <1>7, <1>8, Zenon DEF LinkInv

\* A handler of an end,
LEMMA HandleInv ==
  ASSUME LinkInv, NEW k \in Socks, NEW d \in Dirs,
         Handle(k, d) \/ CreateFail(k, d) \/ RegisterFail(k, d)
  PROVE  LinkInv'
BY ConnectedInv, AcceptInv, NewChannelInv, RegisterInv, SelectFailInv, DuplicateInv,
       EraseInv, Zenon DEF Handle

\* every step,
LEMMA LinkNextInv ==
  ASSUME LinkInv, [LinkNext]_linkVars
  PROVE  LinkInv'
<1>1. CASE \E n, a \in Nodes : DialPeer(n, a) \/ Retry(n, a) \/ RetryFail(n, a)
  BY <1>1, DialInv, RetryFailInv, Zenon
<1>2. CASE \E k \in Socks : NotConnected(k) \/ AcceptFail(k) \/ Break(k)
  BY <1>2, ConnectedInv, AcceptInv, Zenon
<1>3. CASE \E k \in Socks, d \in Dirs : Handle(k, d) \/ CreateFail(k, d) \/ RegisterFail(k, d)
  BY <1>3, HandleInv, Zenon
<1>4. CASE UNCHANGED linkVars
  <2>1. UNCHANGED <<sock, channels>> /\ UNCHANGED <<plan, dialers, lost>>
    BY <1>4, Zenon DEF linkVars
  <2>2. LinkTypes'
    BY <2>1, Zenon DEF LinkInv, LinkTypes, Socks
  <2>3. SocksUsed'
    BY <2>1, SameSockets, Zenon DEF LinkInv, SocksUsed
  <2>4. Attempts'
    <3> SUFFICES ASSUME ~lost, NEW n \in Nodes, NEW a \in DOMAIN dialers[n],
                        dialers[n][a] # "disconnected", <<a, n>> \notin plan
                 PROVE  \E k \in Live : Active(k)' /\ sock[k].from = n /\ sock[k].to = a
      BY <2>1, SameSockets DEF Attempts
    <3>1. PICK k \in Live : Active(k) /\ sock[k].from = n /\ sock[k].to = a
      BY Zenon DEF LinkInv, Attempts
    <3> QED BY <2>1, <3>1, SameSockets, Zenon
  <2> QED BY <2>1, <2>2, <2>3, <2>4, SameSockets, Zenon DEF LinkInv
<1> QED BY <1>1, <1>2, <1>3, <1>4, Zenon DEF LinkNext

\* and the start of the nodes.
LEMMA LinkInitInv ==
  ASSUME LinkInit
  PROVE  LinkInv
<1>1. Unused \in SockRecords
  BY Zenon DEF Unused, SockRecords, EndStates
<1>2. Live = {} /\ sock \in [Socks -> SockRecords]
  BY <1>1, Zenon DEF LinkInit, Live
<1>3. /\ DOMAIN dialers = Nodes /\ DOMAIN channels = Nodes
      /\ \A n \in Nodes : DOMAIN dialers[n] = {} /\ DOMAIN channels[n] = {}
  BY DEF LinkInit
<1> QED BY <1>2, <1>3, Zenon
           DEF LinkInv, LinkTypes, SocksUsed, OneDial, ChannelEnds, EndChannels, Attempts

\* What holds of the sockets, the dialers and the channels of all nodes at any time, for
\* any set of nodes and any plan of who dials whom (mdv_chaman.c).
THEOREM LinkInvariant == LinkSpec => []LinkInv
BY LinkInitInv, LinkNextInv, PTL DEF LinkSpec

\* A dialer is left behind, neither disconnected nor with a socket or channel, only by a
\* failure whose handler does not tell it, or where the peer dials back
\* (mdv_chaman_select_handler, mdv_chaman_timer_handler).
THEOREM LinkOrphanNeedsCause == LinkSpec => []OrphanNeedsCause
<1>1. LinkInv => OrphanNeedsCause
  <2> SUFFICES ASSUME LinkInv, NEW n \in Nodes, NEW a \in Nodes, Orphan(n, a), ~lost, <<a, n>> \notin plan
               PROVE  FALSE
    BY Zenon DEF OrphanNeedsCause
  <2>1. PICK k \in Live : Active(k) /\ sock[k].from = n /\ sock[k].to = a
    BY DEF LinkInv, Attempts, Orphan
  <2>2. k \in Dialed(n, a)
    BY <2>1, Zenon DEF Dialed, Active
  <2> QED BY <2>2, Zenon DEF Orphan
<1> QED BY <1>1, LinkInvariant, PTL

-----------------------------------------------------------------------------
\* The facts about finite sets, for the count of the sockets of a dialer.
INSTANCE FiniteSetTheorems

\* The channels of a node are exactly the ends it receives on, one for every peer, and
\* no address is dialled twice at a time (mdv_chaman_new_connection,
\* mdv_chaman_recv_handler, mdv_chaman_timer_handler).
THEOREM LinkChannelPerEnd == LinkSpec => []ChannelPerEnd
<1>1. ASSUME LinkInv PROVE ChannelPerEnd
  <2> SUFFICES ASSUME NEW n \in Nodes
               PROVE  /\ \A a \in Nodes : Cardinality(Dialed(n, a)) <= 1
                      /\ \A m \in DOMAIN channels[n] :
                           /\ channels[n][m][1] \in Live
                           /\ Receives(channels[n][m][1], channels[n][m][2])
                           /\ NodeOf(channels[n][m][1], channels[n][m][2]) = n
                           /\ PeerOf(channels[n][m][1], channels[n][m][2]) = m
                      /\ \A k \in Live, d \in Dirs :
                           Receives(k, d) /\ NodeOf(k, d) = n => channels[n][PeerOf(k, d)] = <<k, d>>
    BY Zenon DEF ChannelPerEnd
  <2>1. ASSUME NEW a \in Nodes PROVE Cardinality(Dialed(n, a)) <= 1
    <3>1. CASE Dialed(n, a) = {}
      BY <3>1, FS_EmptySet
    <3>2. CASE Dialed(n, a) # {}
      <4>1. PICK k : k \in Dialed(n, a)
        BY <3>2, Zenon
      <4>2. \A j \in Dialed(n, a) : j = k
        BY <1>1, <4>1, Zenon DEF Dialed, LinkInv, OneDial, Active
      <4>3. Dialed(n, a) = {k}
        BY <4>1, <4>2, Zenon
      <4> QED BY <4>3, FS_Singleton
    <3> QED BY <3>1, <3>2, Zenon
  <2>2. ASSUME NEW m \in DOMAIN channels[n]
        PROVE  /\ channels[n][m][1] \in Live
               /\ Receives(channels[n][m][1], channels[n][m][2])
               /\ NodeOf(channels[n][m][1], channels[n][m][2]) = n
               /\ PeerOf(channels[n][m][1], channels[n][m][2]) = m
    <3>1. PICK k \in Live, d \in Dirs : /\ channels[n][m] = <<k, d>> /\ Receives(k, d)
                                        /\ NodeOf(k, d) = n /\ PeerOf(k, d) = m
      BY <1>1, Zenon DEF LinkInv, ChannelEnds
    <3>2. channels[n][m][1] = k /\ channels[n][m][2] = d
      BY <3>1
    <3> QED BY <3>1, <3>2, Zenon
  <2>3. ASSUME NEW k \in Live, NEW d \in Dirs, Receives(k, d), NodeOf(k, d) = n
        PROVE  channels[n][PeerOf(k, d)] = <<k, d>>
    BY <1>1, <2>3, Zenon DEF LinkInv, EndChannels
  <2> QED BY <2>1, <2>2, <2>3, Zenon
<1> QED BY <1>1, LinkInvariant, PTL
=============================================================================
