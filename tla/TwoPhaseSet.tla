---------------------------- MODULE TwoPhaseSet ----------------------------
(***************************************************************************)
(* What an object storage promises: a two-phase set.  An object is added   *)
(* at any time, removed at most once and only after it was added, and once *)
(* removed it is never a member again.  mdv_storage/mdv_2pset.h keeps this *)
(* for the tables of a node and for the rows of every table.               *)
(***************************************************************************)
CONSTANT Ids

VARIABLES added, gone

vars == <<added, gone>>

Members == added \ gone

Init == added = {} /\ gone = {}

Add(id) == /\ added' = added \cup {id}
           /\ UNCHANGED gone

Remove(id) == /\ id \in Members
              /\ gone' = gone \cup {id}
              /\ UNCHANGED added

Next == \E id \in Ids : Add(id) \/ Remove(id)

Spec == Init /\ [][Next]_vars
=============================================================================
