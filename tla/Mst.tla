-------------------------------- MODULE Mst --------------------------------
(***************************************************************************)
(* The minimum spanning tree of the router (mdv_platform/generic/mdv_mst.c *)
(* called by mdv_platform/mdv_router.c): Boruvka's algorithm on subsets of *)
(* nodes.  A subset is named by the index of its first node and is kept as *)
(* a ring of indices.  A behaviour is one call of mdv_mst_find for one     *)
(* array of links.                                                         *)
(***************************************************************************)
EXTENDS Topology, Sequences, SequencesExt

CONSTANTS LastNode,  \* nodes_count - 1
          Inputs     \* arrays of links: sets of [src, dst, weight], one per pair of nodes

VARIABLES
  pc,       \* "search", "merge" or "done"
  links,    \* the links of the call
  mst,      \* those whose flag mst is set
  setId,    \* subsets[i].set_id
  next,     \* subsets[i].next
  closest,  \* subsets[i].link: a set with the link, or empty
  i,        \* the subset of the second loop
  trees, prevTrees, size

vars == <<pc, links, mst, setId, next, closest, i, trees, prevTrees, size>>

Index == 0 .. LastNode
None  == LastNode + 1

Init ==
  /\ links \in Inputs
  /\ pc = "search" /\ mst = {}
  /\ setId = [j \in Index |-> j]
  /\ next = [j \in Index |-> None]
  /\ closest = [j \in Index |-> {}]
  /\ i = 0 /\ trees = LastNode + 1 /\ prevTrees = LastNode + 1 /\ size = 0

Ends(l) == {l.src, l.dst}

\* mdv_mstlink_cmp
LinkBefore(k, l) ==
  \/ k.weight < l.weight
  \/ k.weight = l.weight /\ Before(Ends(k), Ends(l))

\* The links from subset s to another one.
Leaving(s) == {l \in links : setId[l.src] # setId[l.dst] /\ s \in {setId[l.src], setId[l.dst]}}

\* The first loop: the closest link of each subset.
Search ==
  /\ pc = "search" /\ trees > 1
  /\ closest' = [s \in Index |-> {l \in Leaving(s) : \A k \in Leaving(s) : ~LinkBefore(k, l)}]
  /\ prevTrees' = trees /\ i' = 0 /\ pc' = "merge"
  /\ UNCHANGED <<links, mst, setId, next, trees, size>>

\* mdv_union_subsets: the ring of id2 is walked from its first node and put
\* behind the first node of id1.
UnionSubsets(id1, id2) ==
  LET Ring[s \in Seq(Index)] ==
        LET p == next[Last(s)] IN
        IF p = None \/ p \in ToSet(s) \/ setId[p] = id1 THEN s ELSE Ring[Append(s, p)]
      ring == Ring[<<id2>>]
  IN /\ setId' = [j \in Index |-> IF j \in ToSet(ring) THEN id1 ELSE setId[j]]
     /\ next' = [next EXCEPT ![id1] = id2,
                             ![Last(ring)] = IF next[id1] # None THEN next[id1] ELSE id1]

\* Mutant: the subsets are not compared again after earlier unions of the round.
JoinsMut(l) == TRUE

\* The link still joins two subsets.
Joins(l) == setId[l.src] # setId[l.dst]

\* One pass of the second loop.
Merge ==
  /\ pc = "merge" /\ i \in Index
  /\ i' = i + 1
  /\ IF \E l \in closest[i] : Joins(l)
     THEN \E l \in closest[i] :
            /\ mst' = mst \cup {l} /\ size' = size + 1 /\ trees' = trees - 1
            /\ UnionSubsets(setId[l.src], setId[l.dst])
     ELSE UNCHANGED <<mst, size, trees, setId, next>>
  /\ UNCHANGED <<pc, links, closest, prevTrees>>

\* The end of the second loop: no union means that segments are isolated.
EndOfRound ==
  /\ pc = "merge" /\ i \notin Index
  /\ IF trees = prevTrees THEN size' = 0 /\ pc' = "done"
                          ELSE UNCHANGED size /\ pc' = "search"
  /\ UNCHANGED <<links, mst, setId, next, closest, i, trees, prevTrees>>

\* The end of the outer loop.
Finish ==
  /\ pc = "search" /\ trees <= 1
  /\ pc' = "done"
  /\ UNCHANGED <<links, mst, setId, next, closest, i, trees, prevTrees, size>>

Next == Search \/ Merge \/ EndOfRound \/ Finish

\* The caller waits for the result.
Fairness == WF_vars(Next)
Spec == Init /\ [][Next]_vars /\ Fairness

-----------------------------------------------------------------------------
\* The type invariant.
TypeOK ==
  /\ pc \in {"search", "merge", "done"} /\ mst \subseteq links
  /\ setId \in [Index -> Index] /\ next \in [Index -> Index \cup {None}]
  /\ trees \in 1 .. LastNode + 1 /\ size \in 0 .. LastNode /\ i \in 0 .. LastNode + 1

\* A call returns, because every round joins subsets or is the last, and its result
\* is the links that a greedy choice in their order would take, with a size of zero
\* exactly when some node cannot be reached from another: however the unions of a
\* round rename subsets whose closest links are still to be used.
ReturnsTree ==
  <>(/\ pc = "done"
     /\ IF Reach[{Ends(l) : l \in links}, {0}] = Index THEN size = LastNode ELSE size = 0
     /\ mst = {l \in links :
                 ~(Ends(l) \subseteq Reach[{Ends(k) : k \in {j \in links : LinkBefore(j, l)}}, {l.src}])})
=============================================================================
