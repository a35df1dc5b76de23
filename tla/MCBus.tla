------------------------------- MODULE MCBus -------------------------------
(***************************************************************************)
(* The queue of Queuefd, the event bus of Ebus, whose queues it shows to   *)
(* be bounded queues, and an object that lives between the bus and its own *)
(* jobs (JobOwner).  A behaviour is one of the queue, of the bus or of the *)
(* object: part says which, and the variables of the other parts never     *)
(* change.                                                                 *)
(***************************************************************************)
EXTENDS Queuefd, Ebus, JobOwner

VARIABLE part

MCInit == part \in {"queue", "bus", "object"} /\ Init /\ EbusInit /\ ObjectInit

MCNext ==
  \/ part = "queue" /\ Next /\ UNCHANGED <<part, ebusVars, objectVars>>
  \/ part = "bus" /\ EbusNext /\ UNCHANGED <<part, vars, objectVars>>
  \/ part = "object" /\ ObjectNext /\ UNCHANGED <<part, vars, ebusVars>>

\* The fair actions of the parts that do not run are never enabled.
MCSpec ==
  /\ MCInit /\ [][MCNext]_<<part, vars, ebusVars, objectVars>>
  /\ Fairness /\ EbusFairness /\ ObjectFairness
=============================================================================
