------------------------------ MODULE Topology ------------------------------
(***************************************************************************)
(* The network topology (mdv_platform/mdv_topology.c) and the routes that  *)
(* are found in it (mdv_platform/mdv_router.c).  A node has a uuid, which  *)
(* is global and ordered, and a number, which is its identifier inside the *)
(* server that made the topology.  A topology is a set of nodes and a set  *)
(* of links; a link is the set of the uuids it joins.  All links have the  *)
(* same weight.                                                            *)
(***************************************************************************)
EXTENDS Naturals, FiniteSets, FiniteSetsExt

EmptyTopology == [nodes |-> {}, links |-> {}]

\* mdv_topology_create: the ends of the links are replaced by the numbers of the
\* nodes, the nodes are sorted by uuid, and the numbers are replaced by indices
\* again: the last node with a number gets all the links of the number.
Create(nodes, links) ==
  LET Number(u) == (CHOOSE x \in nodes : x.uuid = u).id
      Owner(i)  == Max({x.uuid : x \in {y \in nodes : y.id = i}})
  IN [nodes |-> nodes, links |-> {{Owner(Number(u)) : u \in l} : l \in links}]

\* mdv_topology_linked_nodes: the nodes that the links join.
LinkedNodes(nodes, links) == {x \in nodes : x.uuid \in UNION links}

\* mdv_topology_linked_node_append: a link of another topology is added, with its
\* ends as they are there, unless they are known.
LinkedNodeAppend(nodes, link, others) ==
  nodes \cup {x \in others : x.uuid \in link /\ \A y \in nodes : y.uuid # x.uuid}

\* mdv_topology_diff: the links of a that b does not have and the link between
\* the two nodes, with the nodes that they join.
Diff(a, nodea, b, nodeb) ==
  LET ab     == {nodea, nodeb}
      rest   == {l \in a.links : l = ab \/ l \notin b.links}
      linked == LinkedNodes(a.nodes, rest)
  IN CASE a.links = {} -> EmptyTopology
       [] a.links # {} /\ b.links = {} -> a
       [] a.links # {} /\ b.links # {} /\ ab \in a.links -> Create(linked, rest)
       [] a.links # {} /\ ab \notin a.links /\ ab \in b.links ->
            Create(LinkedNodeAppend(linked, ab, b.nodes), rest \cup {ab})
       [] OTHER -> EmptyTopology

\* mdv_topology_peers: the neighbours of a node.
Peers(t, u) == UNION {IF l = {u} THEN l ELSE l \ {u} : l \in {k \in t.links : u \in k}}

-----------------------------------------------------------------------------
\* The nodes that can be reached from the set us over the links.
Reach[links \in SUBSET SUBSET Nat, us \in SUBSET Nat] ==
  LET next == us \cup UNION {l \in links : l \cap us # {}}
  IN IF next = us THEN us ELSE Reach[links, next]

\* Mutant: links with the same second end are not told apart.
BeforeMut(k, l) == Max(k) < Max(l)

\* mdv_mstlink_cmp for links of the same weight.
Before(k, l) == Min(k) < Min(l) \/ (Min(k) = Min(l) /\ Max(k) < Max(l))

\* mdv_mst_find, as Mst shows: the links whose ends the links before them do not
\* connect,
Tree(links) ==
  {l \in links : ~(l \subseteq Reach[{k \in links : Before(k, l)}, {Min(l)}])}

\* unless some linked node cannot be reached from another.
Isolated(links) == \E u \in UNION links : Reach[links, {u}] # UNION links

\* mdv_routes_find: the neighbours of u in the tree.
Routes(links, u) ==
  IF Isolated(links) THEN {}
  ELSE {v \in UNION links \ {u} : {u, v} \in Tree(links)}
=============================================================================
