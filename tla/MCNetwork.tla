----------------------------- MODULE MCNetwork -----------------------------
(***************************************************************************)
(* The requests of a client (Dispatcher) and the connections between two   *)
(* servers (Connections).  A behaviour is one of the former, where no      *)
(* server dials, or one of the latter, where no request is sent.           *)
(***************************************************************************)
EXTENDS Dispatcher, Connections

CONSTANTS n1, n2   \* the servers

\* Nobody dials; one node dials the other; both dial; a node dials itself.
Plans == {{}, {<<n1, n2>>}, {<<n1, n2>>, <<n2, n1>>}, {<<n1, n1>>}}

MCInit == Init /\ LinkInit

MCNext ==
  \/ plan = {} /\ Next /\ UNCHANGED linkVars
  \/ plan # {} /\ LinkNext /\ UNCHANGED vars

\* The fair actions of the part that does not run are never enabled.
MCSpec ==
  /\ MCInit /\ [][MCNext]_<<vars, linkVars>>
  /\ Fairness /\ LinkFairness
=============================================================================
