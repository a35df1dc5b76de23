------------------------------ MODULE Fetcher ------------------------------
(***************************************************************************)
(* A client reads a table (mdv_core/mdv_fetcher.c).  A select creates and  *)
(* registers a view; every fetch is an event on the bus whose handler      *)
(* emits a job, and the job reads the next batch of rows into an answer.   *)
(* The view keeps the key of the last row read and a flag for the first    *)
(* batch (storage/mdv_rowdata_view.c, storage/mdv_tables_view.c), and it   *)
(* is shared: the enumerators of one rowset, and a fetch sent after the    *)
(* one before it timed out, read the same view at the same time.  The      *)
(* batch itself is read within one LMDB write transaction.                 *)
(*                                                                         *)
(* There is one view.  Rows come and go meanwhile; a removed row is never  *)
(* added again (TwoPSet).                                                  *)
(***************************************************************************)
EXTENDS Integers, FiniteSetsExt

CONSTANTS LastRow,    \* rows are keyed 1 .. LastRow, in the order of LMDB
          FetchSize,  \* MDV_CONFIG.fetcher.batch_size
          Readers,    \* number of workers of the fetcher's jobber
          MaxFetch,   \* bound on fetches
          MaxRefused  \* bound on refused events and jobs, and on lost rowsets

ASSUME FetcherAssumption ==
  /\ LastRow \in Nat
  /\ FetchSize \in Nat \ {0}
  /\ MaxFetch \in Nat

Rows    == 1 .. LastRow
Fetches == 1 .. MaxFetch
Unset   == LastRow + 1   \* rowid of a view that has read no row

VARIABLES
  table, fresh,  \* rows of the table; rows that were never in it
  view,          \* the view: not created, registered, or unregistered
  refs,          \* view->rc
  fromBegin,     \* view->fetch_from_begin
  cursor,        \* view->rowid
  fpc,           \* per fetch: its step
  answers,       \* per fetch: answers sent
  reads,         \* history, per row: fetches that read it
  old,           \* history: rows of the table all the time since the select
  overlap,       \* history: a fetch began beside the unfinished first one
  refused        \* failures so far

tableVars   == <<table, fresh, old>>
viewVars    == <<view, refs, fromBegin, cursor>>
fetcherVars == <<tableVars, viewVars, fpc, answers, reads, overlap, refused>>

Steps == {"none", "event", "job", "flag", "begin", "next", "data", "end", "finalize", "done"}

\* Fetches whose job runs, and fetches that own a reference to the view.
Reading == {f \in Fetches : fpc[f] \in {"flag", "begin", "next", "data", "end", "finalize"}}
Holding == {f \in Fetches : fpc[f] = "job"} \cup Reading

FetcherInit ==
  /\ table \in SUBSET Rows
  /\ fresh = Rows \ table
  /\ old = {}
  /\ view = "none"
  /\ refs = 0
  /\ fromBegin = TRUE
  /\ cursor = Unset
  /\ fpc = [f \in Fetches |-> "none"]
  /\ answers = [f \in Fetches |-> 0]
  /\ reads = [r \in Rows |-> 0]
  /\ overlap = FALSE
  /\ refused = 0

Goto(f, step) == fpc' = [fpc EXCEPT ![f] = step]
Answer(f)     == answers' = [answers EXCEPT ![f] = @ + 1]

-----------------------------------------------------------------------------
(* Committer jobs change the table.                                        *)

InsertRow(r) ==
  /\ r \in fresh
  /\ fresh' = fresh \ {r}
  /\ table' = table \cup {r}
  /\ UNCHANGED <<old, viewVars, fpc, answers, reads, overlap, refused>>

DeleteRow(r) ==
  /\ r \in table
  /\ table' = table \ {r}
  /\ old' = old \ {r}
  /\ UNCHANGED <<fresh, viewVars, fpc, answers, reads, overlap, refused>>

-----------------------------------------------------------------------------
(* Requests.                                                               *)

\* mdv_fetcher_evt_select: the view is created, and its only reference is the one
\* of the map.
Select ==
  /\ view = "none"
  /\ view' = "open"
  /\ refs' = 1
  /\ old' = table
  /\ UNCHANGED <<table, fresh, fromBegin, cursor, fpc, answers, reads, overlap, refused>>

\* mdv_user_fetch_handler publishes the event, or answers with the error.
Fetch(f) ==
  /\ view # "none"
  /\ fpc[f] = "none"
  /\ \A g \in 1 .. f - 1 : fpc[g] # "none"
  /\ \/ Goto(f, "event") /\ UNCHANGED <<answers, refused>>
     \/ /\ refused < MaxRefused
        /\ refused' = refused + 1
        /\ Goto(f, "done") /\ Answer(f)
  /\ UNCHANGED <<tableVars, viewVars, reads, overlap>>

\* Mutant: the view is not retained.
EmitFetchMut(f) ==
  /\ fpc[f] = "event"
  /\ view = "open"
  /\ Goto(f, "job")
  /\ UNCHANGED <<tableVars, viewVars, answers, reads, overlap, refused>>

\* mdv_fetcher_job_emit: the view is found and retained, and the job is queued.
EmitFetch(f) ==
  /\ fpc[f] = "event"
  /\ view = "open"
  /\ Goto(f, "job")
  /\ refs' = refs + 1
  /\ UNCHANGED <<tableVars, view, fromBegin, cursor, answers, reads, overlap, refused>>

\* There is no view any more, or no room for the job: the fetch is answered with a
\* status.
EmitFetchFail(f) ==
  /\ fpc[f] = "event"
  /\ \/ view # "open" /\ UNCHANGED refused
     \/ refused < MaxRefused /\ refused' = refused + 1
  /\ Goto(f, "done") /\ Answer(f)
  /\ UNCHANGED <<tableVars, viewVars, reads, overlap>>

-----------------------------------------------------------------------------
(* The job: mdv_fetcher_fn.                                                *)

\* A worker takes the job and mdv_rowdata_view_fetch reads the flag ...
StartFetch(f) ==
  /\ fpc[f] = "job"
  /\ Cardinality(Reading) < Readers
  /\ Goto(f, IF fromBegin THEN "flag" ELSE "next")
  /\ overlap' = (overlap \/ \E g \in Fetches : fpc[g] \in {"flag", "begin"})
  /\ UNCHANGED <<tableVars, viewVars, answers, reads, refused>>

\* ... and clears it: the two are not atomic.
ClearFlag(f) ==
  /\ fpc[f] = "flag"
  /\ fromBegin' = FALSE
  /\ Goto(f, "begin")
  /\ UNCHANGED <<tableVars, view, refs, cursor, answers, reads, overlap, refused>>

\* The first FetchSize rows of a set, in the order of the keys.
Batch(S) == {r \in S : Cardinality({q \in S : q < r}) < FetchSize}

\* mdv_rowdata_slice_impl: the rows are read and the key of the last is kept.
ReadRows(batch) ==
  /\ reads' = [r \in Rows |-> reads[r] + (IF r \in batch THEN 1 ELSE 0)]
  /\ cursor' = IF batch = {} THEN cursor ELSE Max(batch)

\* mdv_rowdata_slice_from_begin.  A table without rows gives a rowset without rows.
SliceFromBegin(f) ==
  /\ fpc[f] = "begin"
  /\ ReadRows(Batch(table))
  /\ Goto(f, "data")
  /\ UNCHANGED <<tableVars, view, refs, fromBegin, answers, overlap, refused>>

\* Mutant: the row at the key is not skipped.
RowsFromMut(key) == {r \in table : r >= key}

\* MDV_CURSOR_SET_RANGE finds the first row from the key on, and the row that was
\* read last is skipped if it is still there.
RowsFrom(key) == {r \in table : r > key}

\* mdv_rowdata_slice.  A key that was never set may have any value.  If no row is
\* left there is no rowset.
Slice(f) ==
  /\ fpc[f] = "next"
  /\ \E key \in IF cursor = Unset THEN Rows \cup {0} ELSE {cursor} :
       LET left == RowsFrom(key)
       IN  /\ ReadRows(Batch(left))
           /\ Goto(f, IF left = {} THEN "end" ELSE "data")
  /\ UNCHANGED <<tableVars, view, refs, fromBegin, answers, overlap, refused>>

\* The rowset is published, synchronously.  A rowset that cannot be serialized is
\* dropped and a status is published.
PublishRows(f) ==
  /\ fpc[f] = "data"
  /\ Goto(f, "finalize") /\ Answer(f)
  /\ \/ UNCHANGED refused
     \/ refused < MaxRefused /\ refused' = refused + 1
  /\ UNCHANGED <<tableVars, viewVars, reads, overlap>>

\* Mutant: nothing is sent at the end of the table.
PublishEndMut(f) ==
  /\ fpc[f] = "end"
  /\ Goto(f, "finalize")
  /\ view' = "closed"
  /\ refs' = IF view = "open" THEN refs - 1 ELSE refs
  /\ UNCHANGED <<tableVars, fromBegin, cursor, answers, reads, overlap, refused>>

\* The view is unregistered, unless another fetch did so, and a status published.
PublishEnd(f) ==
  /\ fpc[f] = "end"
  /\ Goto(f, "finalize") /\ Answer(f)
  /\ view' = "closed"
  /\ refs' = IF view = "open" THEN refs - 1 ELSE refs
  /\ UNCHANGED <<tableVars, fromBegin, cursor, reads, overlap, refused>>

\* mdv_fetcher_finalize releases the view.
Finalize(f) ==
  /\ fpc[f] = "finalize"
  /\ Goto(f, "done")
  /\ refs' = refs - 1
  /\ UNCHANGED <<tableVars, view, fromBegin, cursor, answers, reads, overlap, refused>>

Serve(f) == EmitFetch(f) \/ EmitFetchFail(f)
Run(f) ==
  \/ StartFetch(f) \/ ClearFlag(f) \/ SliceFromBegin(f) \/ Slice(f)
  \/ PublishRows(f) \/ PublishEnd(f) \/ Finalize(f)

FetcherNext ==
  \/ Select
  \/ \E r \in Rows : InsertRow(r) \/ DeleteRow(r)
  \/ \E f \in Fetches : Fetch(f) \/ Serve(f) \/ Run(f)

\* The workers of the bus and of the jobber serve what is queued.
Progress == \E f \in Fetches : Serve(f) \/ Run(f)

FetcherFairness == WF_fetcherVars(Progress)

FetcherSpec     == FetcherInit /\ [][FetcherNext]_fetcherVars
FetcherFairSpec == FetcherSpec /\ FetcherFairness

-----------------------------------------------------------------------------
\* The view is there as long as the map or a job uses it, although the map drops it
\* while jobs run and two jobs may both reach the end; and it is freed after them.
ViewUsable ==
  view # "none" => refs = Cardinality(Holding) + (IF view = "open" THEN 1 ELSE 0)

\* No row is read twice, and when the end is reported every row that was there all
\* the time has been read, although rows are inserted and deleted on both sides of
\* the cursor, the row at the cursor included, and fetches overlap.  The exception
\* is a fetch that begins beside the first one, while the flag is changed and the
\* cursor is not set yet.  The rows of a rowset that is not sent count as read: the
\* cursor has passed them and no later fetch returns them.
EveryRowOnce ==
  ~overlap => /\ \A r \in Rows : reads[r] <= 1
              /\ view = "closed" => \A r \in old : reads[r] = 1

\* Every fetch is answered once, with rows or with a status, whatever happens to the
\* view meanwhile.
EveryFetchAnswered ==
  \A f \in Fetches : fpc[f] # "none" ~> answers[f] = 1
=============================================================================
