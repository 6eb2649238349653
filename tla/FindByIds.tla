----------------------------- MODULE FindByIds ------------------------------
(****************************************************************************)
(* The reads of src/db.rs by primary key: find_by_id, find_by_ids and       *)
(* find_by_ids_concurrent, which splits its ids into chunks, spawns a tokio *)
(* task with a clone of Db for each and awaits them in their order.         *)
(*                                                                          *)
(* Every query takes a connection of the pool and keeps it until its rows   *)
(* are converted.  A concurrent call that returns early leaves its other    *)
(* tasks running: a JoinHandle that is dropped detaches its task.  The      *)
(* future of a call may be dropped, too, say by a timeout of its caller.    *)
(*                                                                          *)
(* Each element of Reads is one call.  The rows are written by others at    *)
(* any time.  Bounds: the calls of Reads, the arguments of Requests, and     *)
(* Workers, which is 16 in the code.                                        *)
(****************************************************************************)
EXTENDS Integers, Sequences, SequencesExt

CONSTANTS
    Reads,      \* calls
    Ids,        \* primary keys
    Contents,   \* what a row may hold
    None,
    Conns,      \* the connections of the pool
    Workers,    \* the number of chunks a concurrent call aims at
    Requests,   \* what each call may be asked: [kind, ids]
    Errors      \* may connections, queries and conversions fail

Kinds == {"find_by_id", "find_by_ids", "find_by_ids_concurrent"}

ASSUME ReadsAssumption ==
    /\ Workers \in Nat \ {0} /\ None \notin Contents \cup Conns
    /\ Requests \in [Reads -> SUBSET [kind : Kinds, ids : Seq(Ids)]]
    /\ \A c \in Reads : \A r \in Requests[c] :
          r.kind = "find_by_id" => Len(r.ids) = 1

VARIABLES
    table,  \* the content of each row, None if there is none
    idle,   \* the connections in the pool
    call,   \* what each call is doing
    task,   \* the queries of each call, one for each chunk
    seen    \* history: what the queries of a call that goes on saw

vars == <<table, idle, call, task, seen>>

\* next is the task whose handle is awaited; found has the rows of those before.
NoRead == [pc |-> "new", kind |-> "find_by_ids", ids |-> <<>>, size |-> 0,
           next |-> 1, found |-> <<>>]
NewTask == [pc |-> "conn", conn |-> None, rows |-> {}]

Init ==
    /\ table \in [Ids -> Contents \cup {None}]
    /\ idle = Conns
    /\ call = [c \in Reads |-> NoRead]
    /\ task = [c \in Reads |-> <<>>]
    /\ seen = [c \in Reads |-> <<>>]

-----------------------------------------------------------------------------
(* The chunks of n ids.  Chunk k has the positions from (k-1) size + 1 on.  *)

DivCeil(n, d) == (n + d - 1) \div d

ChunkSize(kind, n) ==
    IF kind = "find_by_ids_concurrent" THEN DivCeil(n, Workers) ELSE n

\* Mutant: the chunks overlap by one id.
ChunkOverlapping(n, size, k) == {p \in 1..n : (k - 1) * size <= p /\ p <= k * size}

Chunk(n, size, k) == {p \in 1..n : (k - 1) * size < p /\ p <= k * size}

-----------------------------------------------------------------------------
(* The calls *)

\* No ids: the answer is empty at once.
BeginEmpty(c, r) ==
    /\ call[c].pc = "new" /\ r.ids = <<>>
    /\ call' = [call EXCEPT ![c].kind = r.kind, ![c].pc = "ok"]
    /\ UNCHANGED <<table, idle, task, seen>>

\* A task for each chunk; the one query of the others is like a task.
Begin(c, r) ==
    /\ call[c].pc = "new" /\ r.ids # <<>>
    /\ LET n == Len(r.ids)
           size == ChunkSize(r.kind, n)
       IN  /\ call' = [call EXCEPT ![c] =
                         [NoRead EXCEPT !.pc = "await", !.kind = r.kind,
                                        !.ids = r.ids, !.size = size]]
           /\ task' = [task EXCEPT ![c] = [k \in 1..DivCeil(n, size) |-> NewTask]]
    /\ UNCHANGED <<table, idle, seen>>

Awaited(c) == task[c][call[c].next]
Finish(c, how) ==
    /\ call' = [call EXCEPT ![c].pc = how]
    /\ seen' = [seen EXCEPT ![c] = <<>>]

\* Mutant: a chunk that failed is taken for an empty one.
AwaitNextBlind(c) ==
    /\ call[c].pc = "await" /\ Awaited(c).pc \in {"ok", "failed"}
    /\ call[c].next < Len(task[c])
    /\ call' = [call EXCEPT ![c].found = Append(@, Awaited(c).rows), ![c].next = @ + 1]
    /\ UNCHANGED <<table, idle, task, seen>>

\* Mutant: the call goes on after its last task.
AwaitNextPast(c) ==
    /\ call[c].pc = "await" /\ Awaited(c).pc = "ok"
    /\ call' = [call EXCEPT ![c].found = Append(@, Awaited(c).rows), ![c].next = @ + 1]
    /\ UNCHANGED <<table, idle, task, seen>>

\* The handle of a task gives its rows, and the next one is awaited.
AwaitNext(c) ==
    /\ call[c].pc = "await" /\ Awaited(c).pc = "ok"
    /\ call[c].next < Len(task[c])
    /\ call' = [call EXCEPT ![c].found = Append(@, Awaited(c).rows), ![c].next = @ + 1]
    /\ UNCHANGED <<table, idle, task, seen>>

\* The last one has its rows, too.  find_by_id wants one.
AwaitLast(c) ==
    /\ call[c].pc = "await" /\ Awaited(c).pc = "ok"
    /\ call[c].next = Len(task[c])
    /\ call' = [call EXCEPT
          ![c].found = Append(@, Awaited(c).rows),
          ![c].pc = IF call[c].kind = "find_by_id" /\ Awaited(c).rows = {}
                    THEN "not_found" ELSE "ok"]
    /\ seen' = [seen EXCEPT ![c] = <<>>]
    /\ UNCHANGED <<table, idle, task>>

\* The first task that failed, in the order of the chunks, ends the call.
AwaitFailed(c) ==
    /\ call[c].pc = "await" /\ Awaited(c).pc = "failed"
    /\ Finish(c, "failed")
    /\ UNCHANGED <<table, idle, task>>

\* Mutant: the connection of the dropped query is lost.
LeaveHeld(c) ==
    /\ call[c].pc = "await"
    /\ Finish(c, "left")
    /\ IF call[c].kind = "find_by_ids_concurrent" THEN UNCHANGED task
       ELSE task' = [task EXCEPT ![c][1] = [NewTask EXCEPT !.pc = "dropped"]]
    /\ UNCHANGED <<table, idle>>

\* The caller drops the future of the call.  A query of its own goes with it.
Leave(c) ==
    /\ call[c].pc = "await"
    /\ Finish(c, "left")
    /\ IF call[c].kind = "find_by_ids_concurrent" THEN UNCHANGED <<idle, task>>
       ELSE /\ task' = [task EXCEPT ![c][1] = [NewTask EXCEPT !.pc = "dropped"]]
            /\ idle' = idle \cup ({task[c][1].conn} \ {None})
    /\ UNCHANGED table

-----------------------------------------------------------------------------
(* The queries *)

Acquire(c, k) ==
    /\ task[c][k].pc = "conn"
    /\ \E x \in idle :
         /\ idle' = idle \ {x}
         /\ task' = [task EXCEPT ![c][k].pc = "query", ![c][k].conn = x]
    /\ UNCHANGED <<table, call, seen>>

AcquireFail(c, k) ==
    /\ Errors /\ task[c][k].pc = "conn"
    /\ task' = [task EXCEPT ![c][k].pc = "failed"]
    /\ UNCHANGED <<table, idle, call, seen>>

RowsAt(c, P) ==
    {<<call[c].ids[p], table[call[c].ids[p]]>> :
        p \in {q \in P : table[call[c].ids[q]] # None}}

\* SELECT .. WHERE pk IN (..) sees one moment of the table.
Query(c, k) ==
    /\ task[c][k].pc = "query"
    /\ LET P == Chunk(Len(call[c].ids), call[c].size, k)
       IN  /\ task' = [task EXCEPT ![c][k].pc = "map", ![c][k].rows = RowsAt(c, P)]
           /\ seen' = [seen EXCEPT ![c] =
                         IF call[c].pc # "await" THEN <<>>
                         ELSE [p \in P \cup DOMAIN @ |->
                                 IF p \in P THEN table[call[c].ids[p]] ELSE @[p]]]
    /\ UNCHANGED <<table, idle, call>>

\* Mutants: a task keeps its connection with its rows; a failed one loses it.
EndQueryKept(c, k, how) ==
    /\ task' = [task EXCEPT ![c][k].pc = how]
    /\ idle' = idle
EndQueryLost(c, k, how) ==
    /\ task' = [task EXCEPT ![c][k].pc = how, ![c][k].conn = None]
    /\ idle' = idle \cup (IF how = "ok" THEN {task[c][k].conn} ELSE {})

\* The DbConnection is dropped when query returns.
EndQuery(c, k, how) ==
    /\ task' = [task EXCEPT ![c][k].pc = how, ![c][k].conn = None]
    /\ idle' = idle \cup {task[c][k].conn}

QueryFail(c, k) ==
    /\ Errors /\ task[c][k].pc = "query"
    /\ EndQuery(c, k, "failed")
    /\ UNCHANGED <<table, call, seen>>

\* The rows are converted to entities.
Convert(c, k) ==
    /\ task[c][k].pc = "map"
    /\ EndQuery(c, k, "ok")
    /\ UNCHANGED <<table, call, seen>>

\* A row does not fit the entity, or its conversion panics.
ConvertFail(c, k) ==
    /\ Errors /\ task[c][k].pc = "map" /\ task[c][k].rows # {}
    /\ EndQuery(c, k, "failed")
    /\ UNCHANGED <<table, call, seen>>

\* Others insert, change and delete rows.
Write(i, v) ==
    /\ table[i] # v
    /\ table' = [table EXCEPT ![i] = v]
    /\ UNCHANGED <<idle, call, task, seen>>

-----------------------------------------------------------------------------

Progress(c, k) == Acquire(c, k) \/ Query(c, k) \/ Convert(c, k)
Failure(c, k) == AcquireFail(c, k) \/ QueryFail(c, k) \/ ConvertFail(c, k)
CallStep(c) == AwaitNext(c) \/ AwaitLast(c) \/ AwaitFailed(c)

Next ==
    \/ \E c \in Reads :
         \/ \E r \in Requests[c] : BeginEmpty(c, r) \/ Begin(c, r)
         \/ CallStep(c) \/ Leave(c)
         \/ \E k \in DOMAIN task[c] : Progress(c, k) \/ Failure(c, k)
    \/ \E i \in Ids, v \in Contents \cup {None} : Write(i, v)

Spec == Init /\ [][Next]_vars

\* tokio polls every task, and a call whose handle is ready; nothing has to
\* fail and nobody has to write.  A query asks for a connection once, so that
\* no other can take the connections from it for ever.
FairSpec ==
    /\ Spec
    /\ \A c \in Reads : WF_vars(CallStep(c))
    /\ \A c \in Reads : \A k \in 1..Workers :
          WF_vars(k \in DOMAIN task[c] /\ Progress(c, k))

-----------------------------------------------------------------------------
(* Properties *)

TaskState == [pc : {"conn", "query", "map", "ok", "failed", "dropped"},
              conn : Conns \cup {None}, rows : SUBSET (Ids \X Contents)]
CallState ==
    [pc : {"new", "await", "ok", "not_found", "failed", "left"}, kind : Kinds,
     ids : Seq(Ids), size : Nat, next : Nat \ {0},
     found : Seq(SUBSET (Ids \X Contents))]

(* Every variable keeps its shape; a call awaits a task it has, and has     *)
(* taken the rows of those before it.                                       *)
TypeOK ==
    /\ table \in [Ids -> Contents \cup {None}]
    /\ idle \subseteq Conns
    /\ call \in [Reads -> CallState]
    /\ task \in [Reads -> Seq(TaskState)]
    /\ \A c \in Reads :
         /\ DOMAIN seen[c] \subseteq DOMAIN call[c].ids
         /\ \A p \in DOMAIN seen[c] : seen[c][p] \in Contents \cup {None}
         /\ call[c].pc = "await" =>
              /\ call[c].next \in DOMAIN task[c]
              /\ Len(call[c].found) = call[c].next - 1

(* No connection is lost or used by two queries, be it the query of a call  *)
(* that has returned early, was dropped, or whose conversion has failed.    *)
Queries == UNION {{c} \X DOMAIN task[c] : c \in Reads}
ConnOf(q) == task[q[1]][q[2]].conn
PoolOK ==
    /\ idle = Conns \ {ConnOf(q) : q \in Queries}
    /\ \A q, r \in Queries : q # r /\ ConnOf(q) = ConnOf(r) => ConnOf(q) = None

(* The chunks do not overlap: a concurrent call that asks for different ids *)
(* returns no row twice.                                                    *)
AnswerOnce ==
    \A c \in Reads :
       IsInjective(call[c].ids) =>
          \A j, k \in DOMAIN call[c].found :
             j # k => \A r \in call[c].found[j], s \in call[c].found[k] :
                         r[1] # s[1]

(* An answer is complete and true: every id was looked up exactly once,     *)
(* after the call began and before it returned, and the answer has the rows *)
(* that were found.  All three functions are a RowReads.                    *)
StatusOf(pc) ==
    CASE pc = "new" -> "new"
      [] pc = "await" -> "reading"
      [] pc \in {"ok", "not_found"} -> "answered"
      [] pc \in {"failed", "left"} -> "ended"
AnswerOf(c) ==
    IF call[c].pc \in {"ok", "not_found"} THEN UNION Range(call[c].found) ELSE {}

Lookup == INSTANCE RowReads WITH
             Lists <- {r.ids : r \in UNION Range(Requests)},
             status <- [c \in Reads |-> StatusOf(call[c].pc)],
             ids <- [c \in Reads |-> call[c].ids],
             answer <- [c \in Reads |-> AnswerOf(c)]

ImplementsRowReads == Lookup!Spec

(* Every call returns, even with a pool of one connection: it holds none    *)
(* itself while it waits for its tasks, and no task waits for another.      *)
CallsReturn == \A c \in Reads : call[c].pc = "await" ~> call[c].pc # "await"

(* Tasks that a failed or dropped call leaves behind end as well: in the    *)
(* end all connections are back in the pool.                                *)
ConnsComeBack == (\A c \in Reads : call[c].pc # "new") ~> idle = Conns
=============================================================================
