---------------------------- MODULE MCFindByIds -----------------------------
(* An instance of FindByIds for TLC. *)
EXTENDS FindByIds

CONSTANTS r1, r2, x1, x2, x3, c1, v1

Of(kind, lists) == [kind : {kind}, ids : lists]

\* Chunks of one and of two ids and an id given twice, beside a single query.
MCRequests ==
    r1 :> Of("find_by_ids_concurrent", {<<x1, x2>>, <<x1, x2, x3>>, <<x2, x1, x2>>})
    @@ r2 :> Of("find_by_id", {<<x1>>}) \cup Of("find_by_ids", {<<>>, <<x1, x2>>})
=============================================================================
