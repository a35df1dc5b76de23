------------------------------ MODULE TwoPMaps ------------------------------
(***************************************************************************)
(* The transactions of mdv_storage/mdv_2pset.c on the maps OBJECTS and     *)
(* REMOVED of an object storage, as functions of their contents.           *)
(***************************************************************************)

\* Mutant: the tombstone is not looked up.
ObjectsAfterAddMut(objs, rem, id) == objs \cup {id}

\* mdv_2pset_add: a tombstone wins, and an existing object is kept.
ObjectsAfterAdd(objs, rem, id) == IF id \in rem THEN objs ELSE objs \cup {id}

\* Mutant: no tombstone is written.
RemovedAfterDeleteMut(objs, rem, id) == rem

\* mdv_2pset_delete: MDV_NOT_FOUND leaves no tombstone behind.
ObjectsAfterDelete(objs, id) == objs \ {id}
RemovedAfterDelete(objs, rem, id) == IF id \in objs THEN rem \cup {id} ELSE rem
=============================================================================
