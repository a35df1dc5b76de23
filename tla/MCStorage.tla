----------------------------- MODULE MCStorage -----------------------------
(***************************************************************************)
(* The storage of a node (Tablespace) and the rows of several servers      *)
(* (Convergence).  A behaviour is one of either: part says which, and the  *)
(* variables of the other never change.                                    *)
(***************************************************************************)
EXTENDS Tablespace, Convergence, TLC

VARIABLE part

MCInit == part \in {"node", "servers"} /\ Init /\ ServersInit

MCNext ==
  \/ part = "node" /\ Next /\ UNCHANGED <<part, serverVars>>
  \/ part = "servers" /\ ServersNext /\ UNCHANGED <<part, vars>>

\* The threads have no order.
Symmetry == Permutations(Clients)

MCSpec == MCInit /\ [][MCNext]_<<part, vars, serverVars>>
=============================================================================
