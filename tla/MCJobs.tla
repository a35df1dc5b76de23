------------------------------ MODULE MCJobs -------------------------------
(***************************************************************************)
(* The jobs of the committer (Committer) and of the fetcher (Fetcher),     *)
(* which are the two users of a jobber that answer to the event bus.  They *)
(* share no state but the tables, so a behaviour is one of either: part    *)
(* says which, and the variables of the other never change.                *)
(***************************************************************************)
EXTENDS Committer, Fetcher

VARIABLE part

\* The idle part has one initial state.  The view is of a table into which a row can
\* still be inserted before the others.
MCInit ==
  /\ Init /\ FetcherInit
  /\ \/ part = "committer" /\ table = {}
     \/ part = "fetcher" /\ table = 2 .. LastRow

MCNext ==
  \/ part = "committer" /\ Next /\ UNCHANGED <<part, fetcherVars>>
  \/ part = "fetcher" /\ FetcherNext /\ UNCHANGED <<part, vars>>

\* Nothing of the idle part is enabled in its initial state, so its fairness asks
\* for nothing.
MCSpec ==
  /\ MCInit /\ [][MCNext]_<<part, vars, fetcherVars>>
  /\ Fairness /\ FetcherFairness
=============================================================================
