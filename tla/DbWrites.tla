------------------------------- MODULE DbWrites -------------------------------
(****************************************************************************)
(* The write path of src/db.rs: tasks that save, update and delete the rows *)
(* of one table through the connection pool, and the journal that a Db with *)
(* enable_wal records its writes in after they are made.                    *)
(*                                                                          *)
(* The content of a row is the number of the call that wrote it.  The       *)
(* journal's own steps are those of LocalWriteJournal; here a call of       *)
(* record_write is its test of the running flag and the section it holds    *)
(* the mutex for.                                                           *)
(*                                                                          *)
(* Bounds: MaxCalls calls are made, the program crashes at most MaxCrashes  *)
(* times, and the application makes up no other id than those of Ids.       *)
(****************************************************************************)
EXTENDS Integers, Sequences, FiniteSets, SequencesExt

CONSTANTS
    Tasks,
    Journaled,      \* the tasks that use the Db with the journal, not a clone
    Conns,          \* the connections of the pool
    None,
    Ids,            \* primary keys the application knows
    ExecErrors,     \* may a statement or a connection fail
    JournalErrors,  \* may writing to the journal file fail
    PoolResets,     \* may the pool reset a connection that is returned
    MaxCalls, MaxCrashes

ASSUME DbAssumption ==
    Journaled \subseteq Tasks /\ Ids \subseteq Nat \ {0} /\ None \notin Conns

VARIABLES
    rows,      \* the table: rows[id] is the call that last wrote the row
    nextId,    \* its AUTO_INCREMENT counter
    lastId,    \* LAST_INSERT_ID() of each connection
    idle,      \* the connections in the pool
    frame,     \* what each task is doing
    open,      \* LocalWriteJournal.running
    buffered,  \* the calls whose lines failed flushes left in the BufWriter
    log,       \* the calls in the journal file
    made,      \* history: the calls made
    outcome,   \* history: how each of them has ended
    assigned,  \* history: the id a save has set on its new entity
    generated, \* history: the id the database generated for a call's first row
    executed,  \* history: the calls the database has executed
    crashes

vars == <<rows, nextId, lastId, idle, frame, open, buffered, log, made,
          outcome, assigned, generated, executed, crashes>>
table == <<rows, nextId>>
journal == <<open, buffered, log>>
history == <<made, outcome, assigned, generated, executed, crashes>>
ran == <<generated, executed>>

Ops == {"save", "batch", "update", "delete", "multi"}
Calls == DOMAIN made
ReturnedCalls == {n \in Calls : outcome[n] # "none"}

\* pc names a call's next step; left holds the ids it still has to write and
\* conn the connection it executes on.
Labels == {"idle", "conn", "exec", "id_conn", "id", "journal", "record", "done"}
Frame == [pc : Labels, n : Nat, left : Seq(Ids \cup {0}), conn : Conns \cup {None}]

CallMade == [by : Tasks, op : Ops, ids : Seq(Ids \cup {0}), after : SUBSET Nat]

NoCall == [pc |-> "idle", n |-> 0, left |-> <<>>, conn |-> None]

Init ==
    /\ rows = <<>> /\ nextId = 1
    /\ lastId = [c \in Conns |-> 0] /\ idle = Conns
    /\ frame = [t \in Tasks |-> NoCall]
    /\ open = TRUE /\ buffered = <<>> /\ log = <<>>
    /\ made = <<>> /\ outcome = <<>> /\ assigned = <<>> /\ generated = <<>>
    /\ executed = <<>> /\ crashes = 0

At(t, label) == frame[t].pc = label
Goto(t, label) == frame' = [frame EXCEPT ![t].pc = label]
Return(t, how) ==
    /\ frame' = [frame EXCEPT ![t] = NoCall]
    /\ outcome' = [outcome EXCEPT ![frame[t].n] = how]

-----------------------------------------------------------------------------
(* What MySQL does with the statements of OrmHandler. *)

\* INSERT .. ON DUPLICATE KEY UPDATE of one row; id 0 asks for a new one.  In
\* s are the table, the call that writes it and the first id generated for it.
UpsertRow(s, id) ==
    LET i == IF id = 0 THEN s.next ELSE id
    IN  [rows |-> [j \in DOMAIN s.rows \cup {i} |->
                     IF j = i THEN s.by ELSE s.rows[j]],
         next |-> IF i >= s.next THEN i + 1 ELSE s.next,
         first |-> IF id = 0 /\ s.first = 0 THEN i ELSE s.first,
         by |-> s.by]

\* The columns of a batch are those of its first entity, which has no id
\* column if its id is 0; an id of 0 in the column asks for a new id, too.
ColumnIds(ids) ==
    IF Head(ids) = 0 THEN [i \in DOMAIN ids |-> 0] ELSE ids

Effect(op, ids, n, rs, next) ==
    LET unchanged == [rows |-> rs, next |-> next, first |-> 0, by |-> n]
        i == Head(ids)
    IN  CASE op \in {"save", "batch"} ->
               FoldLeft(UpsertRow, unchanged, ColumnIds(ids))
          [] op \in {"update", "multi"} ->
               IF i \in DOMAIN rs THEN [unchanged EXCEPT !.rows[i] = n]
               ELSE unchanged
          [] op = "delete" ->
               [unchanged EXCEPT !.rows = [j \in DOMAIN rs \ {i} |-> rs[j]]]

-----------------------------------------------------------------------------
(* The calls *)

\* save_batch_upsert of no entities returns at once and is left out.
Arguments(op) ==
    CASE op = "save" -> {<<id>> : id \in Ids \cup {0}}
      [] op = "batch" -> {<<i, j>> : i, j \in Ids \cup {0}}
      [] op \in {"update", "delete"} -> {<<id>> : id \in Ids}
      [] op = "multi" -> {<<i, j>> : i, j \in Ids}

Call(t, op, ids) ==
    /\ At(t, "idle") /\ Len(made) < MaxCalls
    /\ made' = Append(made, [by |-> t, op |-> op, ids |-> ids,
                             after |-> ReturnedCalls])
    /\ outcome' = Append(outcome, "none")
    /\ assigned' = Append(assigned, 0) /\ generated' = Append(generated, 0)
    /\ frame' = [frame EXCEPT ![t] = [NoCall EXCEPT !.pc = "conn",
                                        !.n = Len(made) + 1, !.left = ids]]
    /\ UNCHANGED <<table, lastId, idle, journal, executed, crashes>>

\* Mutant: the pool gives a connection out that is in use.
AcquireShared(t, from, to) ==
    /\ At(t, from)
    /\ \E c \in idle : frame' = [frame EXCEPT ![t].pc = to, ![t].conn = c]
    /\ UNCHANGED <<table, lastId, idle, journal, history>>

\* DbPool::get_conn
Acquire(t, from, to) ==
    /\ At(t, from)
    /\ \E c \in idle :
         /\ idle' = idle \ {c}
         /\ frame' = [frame EXCEPT ![t].pc = to, ![t].conn = c]
    /\ UNCHANGED <<table, lastId, journal, history>>

\* Mutant: the connection is not returned to the pool.
ReleaseNone(t, last) == idle' = idle /\ lastId' = lastId

\* The DbConnection is dropped; last is its LAST_INSERT_ID().
Release(t, last) ==
    /\ idle' = idle \cup {frame[t].conn}
    /\ \E l \in {last} \cup (IF PoolResets THEN {0} ELSE {}) :
         lastId' = [lastId EXCEPT ![frame[t].conn] = l]

\* Mutant: one statement too many.
AfterExecAgain(t, left) ==
    LET m == made[frame[t].n]
    IN  IF m.op = "multi" THEN "conn"
        ELSE IF m.op = "delete" THEN "done"
        ELSE IF m.op = "save" /\ Head(m.ids) = 0 THEN "id_conn"
        ELSE IF t \in Journaled THEN "journal"
        ELSE "done"

\* Where a call goes when its statement has been executed.
AfterExec(t, left) ==
    LET m == made[frame[t].n]
    IN  IF m.op = "multi" THEN IF left = <<>> THEN "done" ELSE "conn"
        ELSE IF m.op = "delete" THEN "done"
        ELSE IF m.op = "save" /\ Head(m.ids) = 0 THEN "id_conn"
        ELSE IF t \in Journaled THEN "journal"
        ELSE "done"

\* The database executes the statement of t's call: a row at a time if multi.
Executes(t) ==
    LET n == frame[t].n
        e == Effect(made[n].op, frame[t].left, n, rows, nextId)
    IN  /\ rows' = e.rows /\ nextId' = e.next
        /\ executed' = Append(executed, n)
        /\ generated' = [generated EXCEPT ![n] = e.first]

\* DbConnection::exec answers 1, whatever the statement changed.
Exec(t) ==
    /\ At(t, "exec")
    /\ Executes(t)
    /\ LET id == generated'[frame[t].n]
       IN  Release(t, IF id = 0 THEN lastId[frame[t].conn] ELSE id)
    /\ LET left == IF made[frame[t].n].op = "multi" THEN Tail(frame[t].left)
                   ELSE <<>>
       IN  frame' = [frame EXCEPT ![t].left = left, ![t].conn = None,
                                  ![t].pc = AfterExec(t, left)]
    /\ UNCHANGED <<journal, made, outcome, assigned, crashes>>

\* Mutant: a statement whose answer was lost is made again.
ExecFailRetried(t) ==
    /\ ExecErrors /\ At(t, "exec")
    /\ Executes(t)
    /\ frame' = [frame EXCEPT ![t].pc = "conn", ![t].conn = None]
    /\ Release(t, 0)
    /\ UNCHANGED <<journal, made, outcome, assigned, crashes>>

\* The statement fails, or its answer is lost after it was executed.
ExecFail(t) ==
    /\ ExecErrors /\ At(t, "exec")
    /\ Executes(t) \/ UNCHANGED <<table, ran>>
    /\ Return(t, "err")
    /\ Release(t, 0)
    /\ UNCHANGED <<journal, made, assigned, crashes>>

\* No connection can be made.
AcquireFail(t) ==
    /\ ExecErrors /\ frame[t].pc \in {"conn", "id_conn"}
    /\ Return(t, "err")
    /\ UNCHANGED <<table, lastId, idle, journal, made, assigned, ran,
                   crashes>>

\* SELECT LAST_INSERT_ID(), on whichever connection the pool gave.
ReadId(t) ==
    /\ At(t, "id")
    /\ assigned' = [assigned EXCEPT ![frame[t].n] = lastId[frame[t].conn]]
    /\ frame' = [frame EXCEPT ![t].conn = None,
                   ![t].pc = IF t \in Journaled THEN "journal" ELSE "done"]
    /\ Release(t, lastId[frame[t].conn])
    /\ UNCHANGED <<table, journal, made, outcome, ran, crashes>>

ReadIdFail(t) ==
    /\ ExecErrors /\ At(t, "id")
    /\ Return(t, "err")
    /\ Release(t, 0)
    /\ UNCHANGED <<table, journal, made, assigned, ran, crashes>>

Done(t) ==
    /\ At(t, "done")
    /\ Return(t, "ok")
    /\ UNCHANGED <<table, lastId, idle, journal, made, assigned, ran,
                   crashes>>

-----------------------------------------------------------------------------
(* record_write *)

\* A journal that has been stopped answers Ok: the caller cannot tell.
JournalCheck(t) ==
    /\ At(t, "journal")
    /\ IF open THEN Goto(t, "record") /\ UNCHANGED outcome
       ELSE Return(t, "unlogged")
    /\ UNCHANGED <<table, lastId, idle, journal, made, assigned, ran,
                   crashes>>

\* Mutants: an update is not recorded; leftovers come after the new line.
LineOfUpserts(t) ==
    buffered \o (IF made[frame[t].n].op = "update" THEN <<>> ELSE <<frame[t].n>>)
LineFirst(t) == <<frame[t].n>> \o buffered

\* What the writer has to write: leftovers of failed flushes and the line.
ToWrite(t) == Append(buffered, frame[t].n)

JournalWrite(t) ==
    /\ At(t, "record")
    /\ log' = log \o ToWrite(t) /\ buffered' = <<>>
    /\ Return(t, "ok")
    /\ UNCHANGED <<table, lastId, idle, open, made, assigned, ran, crashes>>

\* Mutant: what was written stays in the buffer as well.
JournalFailKept(t) ==
    /\ JournalErrors /\ At(t, "record")
    /\ \E k \in 0..Len(ToWrite(t)) - 1 : log' = log \o SubSeq(ToWrite(t), 1, k)
    /\ buffered' = ToWrite(t)
    /\ Return(t, "err")
    /\ UNCHANGED <<table, lastId, idle, open, made, assigned, ran, crashes>>

\* A part is written; the rest stays in the buffer, or all but the new line.
JournalFail(t) ==
    /\ JournalErrors /\ At(t, "record")
    /\ LET all == ToWrite(t)
       IN  \E k \in 0..Len(all) - 1, last \in {Len(all) - 1, Len(all)} :
             /\ log' = log \o SubSeq(all, 1, k)
             /\ buffered' = SubSeq(all, k + 1, last)
    /\ Return(t, "err")
    /\ UNCHANGED <<table, lastId, idle, open, made, assigned, ran, crashes>>

\* Db::close: the sessions' flush writes nothing, the pool stays open, and
\* the journal is stopped and its buffer flushed, which may fail.
Close ==
    /\ open' = FALSE
    /\ \E k \in 0..Len(buffered) :
         /\ k < Len(buffered) => JournalErrors
         /\ log' = log \o SubSeq(buffered, 1, k)
         /\ buffered' = SubSeq(buffered, k + 1, Len(buffered))
    /\ UNCHANGED <<table, lastId, idle, frame, history>>

\* The program goes down and comes up again; calls end without an answer.
Crash ==
    /\ crashes < MaxCrashes
    /\ crashes' = crashes + 1
    /\ frame' = [t \in Tasks |-> NoCall]
    /\ idle' = Conns /\ lastId' = [c \in Conns |-> 0]
    /\ open' = TRUE /\ buffered' = <<>>
    /\ outcome' = [n \in Calls |-> IF outcome[n] = "none" THEN "crashed"
                                   ELSE outcome[n]]
    /\ UNCHANGED <<table, log, made, assigned, ran>>

-----------------------------------------------------------------------------

Progress(t) ==
    \/ Acquire(t, "conn", "exec") \/ Acquire(t, "id_conn", "id")
    \/ Exec(t) \/ ReadId(t) \/ Done(t)
    \/ JournalCheck(t) \/ JournalWrite(t)

Failure(t) == ExecFail(t) \/ AcquireFail(t) \/ ReadIdFail(t) \/ JournalFail(t)

Next ==
    \/ \E t \in Tasks :
         \/ Progress(t) \/ Failure(t)
         \/ \E op \in Ops : \E ids \in Arguments(op) : Call(t, op, ids)
    \/ Close \/ Crash

Spec == Init /\ [][Next]_vars

\* tokio polls a task again, and a connection is given to a task that waits
\* for one; nothing has to fail.  With finitely many calls no task can take
\* the connection from another for ever, so that weak fairness suffices.
FairSpec == Spec /\ \A t \in Tasks : WF_vars(Progress(t))

-----------------------------------------------------------------------------
(* Properties *)

(* Every variable keeps its shape; a call that asks for a connection to     *)
(* execute on has a row left to write, and the table's counter is ahead of  *)
(* its ids.                                                                 *)
TypeOK ==
    /\ nextId \in Nat \ {0} /\ DOMAIN rows \subseteq Nat \ {0}
    /\ lastId \in [Conns -> Nat] /\ idle \subseteq Conns
    /\ open \in BOOLEAN /\ crashes \in Nat
    /\ \A i \in DOMAIN rows : rows[i] \in Calls
    /\ \A s \in {log, buffered, executed} : s \in Seq(Calls)
    /\ made \in Seq(CallMade) /\ Len(outcome) = Len(made)
    /\ assigned \in Seq(Nat) /\ Len(assigned) = Len(made)
    /\ generated \in Seq(Nat) /\ Len(generated) = Len(made)
    /\ frame \in [Tasks -> Frame]
    /\ \A t \in Tasks :
         /\ frame[t].n \in Calls \cup {0}
         /\ frame[t].pc \in {"conn", "exec"} => frame[t].left # <<>>
    /\ \A i \in DOMAIN rows : i < nextId

(* No connection is lost and none is used by two tasks: each is in the pool *)
(* or held by the one task that is executing on it, on every error path.    *)
PoolOK ==
    /\ \A t \in Tasks : frame[t].conn # None <=> frame[t].pc \in {"exec", "id"}
    /\ \A t, u \in Tasks : frame[t].conn = frame[u].conn /\ t # u =>
          frame[t].conn = None
    /\ idle = Conns \ {frame[t].conn : t \in Tasks}

(* Lines are in the order of calls that do not overlap: a write that began  *)
(* after another one had returned, even with an error, comes after it in    *)
(* the journal.                                                             *)
JournalInCallOrder ==
    \A i, j \in DOMAIN log : i < j => log[j] \notin made[log[i]].after

(* The journal has each write once, whatever flushes have failed on the way *)
(* to it, and it has every save, batch and update of the journaled Db that  *)
(* returned Ok before the journal was stopped.                              *)
IsJournaled(n) ==
    made[n].by \in Journaled /\ made[n].op \in {"save", "batch", "update"}
JournaledOnce ==
    /\ IsInjective(log \o buffered)
    /\ \A n \in Calls : outcome[n] = "ok" /\ IsJournaled(n) => n \in Range(log)

(* A statement is executed at most once, however its call ends; a call that *)
(* returns Ok has executed all of its statements.  One that fails has       *)
(* executed some, and its caller does not learn which.                      *)
Statements(n) == IF made[n].op = "multi" THEN Len(made[n].ids) ELSE 1
ExecutedOnce ==
    \A n \in Calls :
       LET times == Cardinality({i \in DOMAIN executed : executed[i] = n})
       IN  /\ times <= Statements(n)
           /\ outcome[n] \in {"ok", "unlogged"} => times = Statements(n)

(* LocalWriteJournal::replay, its entries executed in order on a new table. *)
LineOf(n) == [op |-> made[n].op, ids |-> made[n].ids, by |-> n]
Redo(s, line) == Effect(line.op, line.ids, line.by, s.rows, s.next)
EmptyTable == [rows |-> <<>>, next |-> 1, first |-> 0, by |-> 0]
Replay(lines) == FoldLeft(Redo, EmptyTable, lines)
Replayed == Replay([i \in DOMAIN log |-> LineOf(log[i])])

(* What the journal is good for: when the program's calls never overlapped, *)
(* none has failed or crashed, all went through the journaled Db and its    *)
(* save, batch and update before it was closed, replaying the journal on an *)
(* empty table gives the table.                                             *)
ReplayRestores ==
    (\A n \in Calls : /\ outcome[n] = "ok" /\ made[n].after = 1..(n - 1)
                      /\ IsJournaled(n)) =>
       Replayed.rows = rows /\ Replayed.next = nextId

(* Every call returns although it may need two connections, one after the   *)
(* other, and the pool may have fewer than there are tasks.                 *)
CallsReturn == \A t \in Tasks : ~At(t, "idle") ~> At(t, "idle")

(* save says that after insertion the auto-generated id is set on the       *)
(* entity: a save that returns Ok has set the id of the row it inserted.    *)
SaveSetsOwnId ==
    \A n \in Calls :
       outcome[n] = "ok" /\ made[n].op = "save" /\ Head(made[n].ids) = 0 =>
          assigned[n] = generated[n]

(* The journal is there so that writes "can be replayed to maintain data    *)
(* integrity": when all calls of the program, also ones that overlapped,    *)
(* have been recorded and have returned Ok, a replay gives the table.       *)
JournalRestores ==
    (\A n \in Calls : outcome[n] = "ok" /\ IsJournaled(n)) =>
       Replayed.rows = rows
=============================================================================
