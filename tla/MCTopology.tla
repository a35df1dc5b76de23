----------------------------- MODULE MCTopology -----------------------------
(***************************************************************************)
(* The trackers of a small cluster (Tracker) and the spanning tree that    *)
(* the routes are taken from (Mst).  A behaviour is one of the trackers or *)
(* one call of mdv_mst_find: part says which, and the variables of the     *)
(* other part never change.                                                *)
(***************************************************************************)
EXTENDS Tracker

CONSTANT LastNode   \* the greatest node index of the spanning trees

VARIABLES part,
          pc, arcs, mst, setId, next, closest, i, trees, prevTrees, size

treeVars == <<pc, arcs, mst, setId, next, closest, i, trees, prevTrees, size>>

\* A chain that a node can join at either end and that can be closed to a ring,
\* with one worker per bus; a pair that a node can join, with several; and no
\* links, for the behaviours of the tree.
Clusters ==
  {[links |-> {}, ordered |-> TRUE, dials |-> {}],
   [links |-> {{2, 3}, {3, 4}}, ordered |-> TRUE,
    dials |-> {<<1, 2>>, <<4, 1>>, <<4, 2>>, <<2, 3>>}],
   [links |-> {{2, 3}}, ordered |-> FALSE,
    dials |-> {<<1, 2>>, <<3, 1>>, <<1, 3>>, <<2, 3>>}]}

\* All graphs on the nodes, with links of two weights, or of one weight and either
\* direction.
Graphs ==
  LET Pairs == {p \in (0 .. LastNode) \X (0 .. LastNode) : p[1] < p[2]}
      Arc(p, o) == CASE o = "none"  -> {}
                     [] o = "light" -> {[src |-> p[1], dst |-> p[2], weight |-> 1]}
                     [] o = "heavy" -> {[src |-> p[1], dst |-> p[2], weight |-> 2]}
                     [] o = "back"  -> {[src |-> p[2], dst |-> p[1], weight |-> 1]}
  IN {UNION {Arc(p, f[p]) : p \in Pairs} :
        f \in [Pairs -> {"none", "light", "heavy"}] \cup [Pairs -> {"none", "light", "back"}]}

M == INSTANCE Mst WITH links <- arcs, Inputs <- Graphs

\* The idle part has one initial state.
MCInit ==
  /\ Init /\ M!Init
  /\ \/ part = "tracker" /\ arcs = {}
     \/ part = "tree" /\ start.links = {}

MCNext ==
  \/ part = "tracker" /\ Next /\ UNCHANGED <<part, treeVars>>
  \/ part = "tree" /\ M!Next /\ UNCHANGED <<part, vars>>

\* part never changes, so this is the fairness of the part that moves.
MCSpec ==
  /\ MCInit /\ [][MCNext]_<<part, vars, treeVars>>
  /\ WF_<<part, vars, treeVars>>(\/ part = "tracker" /\ Progress /\ UNCHANGED <<part, treeVars>>
                                 \/ part = "tree" /\ M!Next /\ UNCHANGED <<part, vars>>)

-----------------------------------------------------------------------------
\* A call of mdv_mst_find returns with the tree of a greedy choice, or with zero for
\* isolated segments.
ReturnsTree == part = "tree" => M!ReturnsTree
=============================================================================
