--------------------------- MODULE FindByIdsProofs ---------------------------
(****************************************************************************)
(* Theorems about FindByIds, for any calls, ids, connections and number of  *)
(* workers.                                                                 *)
(****************************************************************************)
EXTENDS FindByIds, SequenceTheorems, TLAPS

-----------------------------------------------------------------------------
(* Arithmetic of the chunks *)

LEMMA Times ==
    ASSUME NEW i \in Nat, NEW j \in Nat, i <= j, NEW d \in Nat
    PROVE  i * d <= j * d /\ i * d \in Nat /\ j * d \in Nat
  OBVIOUS

LEMMA DivCeilIs ==
    ASSUME NEW n \in Nat, NEW d \in Nat \ {0}
    PROVE  /\ DivCeil(n, d) \in Nat
           /\ n <= DivCeil(n, d) * d
           /\ n # 0 => (DivCeil(n, d) - 1) * d < n
           /\ n # 0 => DivCeil(n, d) # 0
  BY DEF DivCeil

LEMMA DivCeilGrows ==
    ASSUME NEW n \in Nat, NEW m \in Nat, n <= m, NEW d \in Nat \ {0}
    PROVE  DivCeil(n, d) <= DivCeil(m, d)
  BY DEF DivCeil

\* The chunks of a call do not overlap, and they have every position.
LEMMA ChunksApart ==
    ASSUME NEW n \in Nat, NEW d \in Nat \ {0}, NEW j \in Nat \ {0},
           NEW k \in Nat \ {0}, j # k
    PROVE  Chunk(n, d, j) \cap Chunk(n, d, k) = {}
  <1>1. ASSUME NEW i \in Nat \ {0}, NEW l \in Nat \ {0}, i < l
        PROVE  Chunk(n, d, i) \cap Chunk(n, d, l) = {}
    <2>1. i <= l - 1 /\ l - 1 \in Nat
      BY <1>1
    <2>2. i * d <= (l - 1) * d /\ i * d \in Nat /\ (l - 1) * d \in Nat
      BY <2>1, Times
    <2>3. QED
      BY <2>2 DEF Chunk
  <1>2. j < k \/ k < j
    OBVIOUS
  <1>3. QED
    BY <1>1, <1>2

LEMMA ChunksCover ==
    ASSUME NEW n \in Nat, NEW d \in Nat \ {0}, NEW p \in 1..n
    PROVE  \E k \in 1..DivCeil(n, d) : p \in Chunk(n, d, k)
  <1> DEFINE k == DivCeil(p, d)
  <1>1. k \in Nat /\ p <= k * d /\ (k - 1) * d < p /\ k # 0
    BY DivCeilIs
  <1>2. k <= DivCeil(n, d) /\ DivCeil(n, d) \in Nat
    BY DivCeilIs, DivCeilGrows
  <1> HIDE DEF k
  <1>3. p \in Chunk(n, d, k)
    BY <1>1 DEF Chunk
  <1>4. QED
    BY <1>1, <1>2, <1>3

LEMMA ChunkIn ==
    ASSUME NEW n \in Nat, NEW d, NEW k
    PROVE  Chunk(n, d, k) \subseteq 1..n
  BY DEF Chunk

-----------------------------------------------------------------------------
(* One query of one call changes. *)

Tasks == [Reads -> Seq(TaskState)]
IsTask(T, c, k) == c \in Reads /\ k \in DOMAIN T[c]
With(T, c, k, s) == [T EXCEPT ![c] = [T[c] EXCEPT ![k] = s]]

LEMMA WithOK ==
    ASSUME NEW T \in Tasks, NEW c \in Reads, NEW k \in DOMAIN T[c],
           NEW s \in TaskState
    PROVE  /\ With(T, c, k, s) \in Tasks
           /\ With(T, c, k, s)[c][k] = s
           /\ \A d \in Reads : DOMAIN With(T, c, k, s)[d] = DOMAIN T[d]
           /\ \A d \in Reads : Len(With(T, c, k, s)[d]) = Len(T[d])
           /\ \A d \in Reads : d # c => With(T, c, k, s)[d] = T[d]
           /\ \A d \in Reads : \A l \in DOMAIN T[d] :
                 d # c \/ l # k => With(T, c, k, s)[d][l] = T[d][l]
  <1> DEFINE U == With(T, c, k, s)
             S == [T[c] EXCEPT ![k] = s]
  <1>1. T[c] \in Seq(TaskState)
    BY DEF Tasks
  <1>2. S \in Seq(TaskState) /\ Len(S) = Len(T[c]) /\ DOMAIN S = DOMAIN T[c]
        /\ S[k] = s /\ \A l \in DOMAIN T[c] : l # k => S[l] = T[c][l]
    BY <1>1, ExceptSeq
  <1> HIDE DEF S
  <1>3. U[c] = S /\ U \in Tasks /\ \A d \in Reads : d # c => U[d] = T[d]
    BY <1>2 DEF Tasks, With, S
  <1> HIDE DEF U
  <1>4. \A d \in Reads : DOMAIN U[d] = DOMAIN T[d] /\ Len(U[d]) = Len(T[d])
    BY <1>2, <1>3
  <1>5. \A d \in Reads : \A l \in DOMAIN T[d] : d # c \/ l # k => U[d][l] = T[d][l]
    BY <1>2, <1>3
  <1>6. QED
    BY <1>2, <1>3, <1>4, <1>5 DEF U

TaskPcs == {"conn", "query", "map", "ok", "failed", "dropped"}

Moved(r, x, y) == [r EXCEPT !.pc = x, !.conn = y]
Mapped(r, rows) == [r EXCEPT !.pc = "map", !.rows = rows]
Failed(r) == [r EXCEPT !.pc = "failed"]

LEMMA TaskFields ==
    ASSUME NEW r \in TaskState
    PROVE  /\ \A x \in TaskPcs, y \in Conns \cup {None} :
                /\ Moved(r, x, y) \in TaskState /\ Moved(r, x, y).pc = x
                /\ Moved(r, x, y).conn = y /\ Moved(r, x, y).rows = r.rows
           /\ \A z \in SUBSET (Ids \X Contents) :
                /\ Mapped(r, z) \in TaskState /\ Mapped(r, z).pc = "map"
                /\ Mapped(r, z).conn = r.conn /\ Mapped(r, z).rows = z
           /\ Failed(r) \in TaskState /\ Failed(r).pc = "failed"
           /\ Failed(r).conn = r.conn /\ Failed(r).rows = r.rows
  BY DEF TaskState, TaskPcs, Moved, Mapped, Failed

LEMMA NewTaskOK ==
    /\ NewTask \in TaskState /\ NewTask.pc = "conn" /\ NewTask.conn = None
    /\ NewTask.rows = {}
    /\ [NewTask EXCEPT !.pc = "dropped"] \in TaskState
    /\ [NewTask EXCEPT !.pc = "dropped"].pc = "dropped"
    /\ [NewTask EXCEPT !.pc = "dropped"].conn = None
    /\ [NewTask EXCEPT !.pc = "dropped"].rows = {}
  BY DEF NewTask, TaskState

-----------------------------------------------------------------------------
(* The inductive invariant. *)

TypesOK ==
    /\ table \in [Ids -> Contents \cup {None}]
    /\ idle \subseteq Conns
    /\ call \in [Reads -> CallState]
    /\ task \in Tasks
    /\ \A c \in Reads :
         /\ DOMAIN seen[c] \subseteq DOMAIN call[c].ids
         /\ \A p \in DOMAIN seen[c] : seen[c][p] \in Contents \cup {None}
    /\ seen = [c \in Reads |-> seen[c]]

\* Where a call is: its tasks are those of the chunks of its ids.
CallOK(r, T, sn) ==
    /\ r.pc = "new" => r = NoRead /\ T = <<>>
    /\ r.pc # "await" => sn = <<>>
    /\ T # <<>> => /\ r.size \in Nat \ {0}
                   /\ Len(T) = DivCeil(Len(r.ids), r.size)
    /\ r.pc = "await" => r.next \in DOMAIN T
    /\ r.found # <<>> => T # <<>>

CallsOK == \A c \in Reads : CallOK(call[c], task[c], seen[c])

\* A connection belongs to one query, from when it is acquired until it ends.
ConnsOK ==
    /\ \A c \in Reads : \A k \in DOMAIN task[c] :
          /\ task[c][k].conn # None => task[c][k].conn \notin idle
          /\ task[c][k].conn # None <=> task[c][k].pc \in {"query", "map"}
          /\ \A d \in Reads : \A l \in DOMAIN task[d] :
                task[c][k].conn = task[d][l].conn /\ task[c][k].conn # None =>
                   c = d /\ k = l
    /\ \A x \in Conns \ idle :
          \E c \in Reads : \E k \in DOMAIN task[c] : task[c][k].conn = x

ChunkOf(r, k) == Chunk(Len(r.ids), r.size, k)
FromChunk(rows, r, k) ==
    \A row \in rows : \E p \in ChunkOf(r, k) : row[1] = r.ids[p]
SeenRows(r, sn, k) ==
    {<<r.ids[p], sn[p]>> : p \in {q \in ChunkOf(r, k) : sn[q] # None}}

\* The rows of a chunk are of its ids; while the call waits, they are what
\* was seen, and a chunk that was not queried has not been seen.
TaskRowsOK(r, s, sn, k) ==
    /\ FromChunk(s.rows, r, k)
    /\ r.pc = "await" /\ s.pc \in {"map", "ok"} =>
          ChunkOf(r, k) \subseteq DOMAIN sn /\ s.rows = SeenRows(r, sn, k)
    /\ r.pc = "await" /\ s.pc \in {"conn", "query"} =>
          ChunkOf(r, k) \cap DOMAIN sn = {}
FoundOK(r, T) ==
    /\ \A j \in DOMAIN r.found : FromChunk(r.found[j], r, j)
    /\ r.pc = "await" =>
         /\ Len(r.found) = r.next - 1
         /\ \A j \in DOMAIN r.found : T[j].pc = "ok" /\ r.found[j] = T[j].rows

RowsOK ==
    \A c \in Reads :
       /\ FoundOK(call[c], task[c])
       /\ \A k \in DOMAIN task[c] : TaskRowsOK(call[c], task[c][k], seen[c], k)

IInv == TypesOK /\ CallsOK /\ ConnsOK /\ RowsOK

LEMMA NoReadOK ==
    /\ NoRead \in CallState /\ NoRead.pc = "new" /\ NoRead.found = <<>>
    /\ NoRead.ids = <<>> /\ NoRead.next = 1
  BY DEF NoRead, CallState, Kinds

LEMMA InitOK == Init => IInv
  <1> SUFFICES ASSUME Init PROVE IInv
    OBVIOUS
  <1>1. \A c \in Reads : /\ call[c] = NoRead /\ task[c] = <<>> /\ seen[c] = <<>>
                         /\ DOMAIN task[c] = {} /\ DOMAIN seen[c] = {}
                         /\ call[c].pc = "new" /\ call[c].found = <<>>
                         /\ DOMAIN call[c].found = {}
    BY NoReadOK DEF Init
  <1>2. TypesOK
    BY <1>1, NoReadOK DEF Init, TypesOK, Tasks
  <1>3. CallsOK
    BY <1>1 DEF CallsOK, CallOK
  <1>4. ConnsOK
    BY <1>1 DEF ConnsOK, Init
  <1>5. RowsOK
    BY <1>1 DEF RowsOK, FoundOK
  <1>6. QED
    BY <1>2, <1>3, <1>4, <1>5 DEF IInv

-----------------------------------------------------------------------------
(* The connections: a query takes one, gives it back, or keeps what it has. *)

LEMMA ConnsTake ==
    ASSUME ReadsAssumption, TypesOK, ConnsOK, NEW c \in Reads, NEW k \in DOMAIN task[c],
           NEW s \in TaskState, NEW x \in idle, task[c][k].conn = None,
           s.conn = x, s.pc \in {"query", "map"},
           task' = With(task, c, k, s), idle' = idle \ {x}
    PROVE  ConnsOK'
  <1>1. x # None
    BY DEF ReadsAssumption, TypesOK
  <1>2. /\ task'[c][k] = s
        /\ \A d \in Reads : DOMAIN task'[d] = DOMAIN task[d]
        /\ \A d \in Reads : \A l \in DOMAIN task[d] :
              d # c \/ l # k => task'[d][l] = task[d][l]
    BY WithOK DEF TypesOK
  <1>3. ASSUME NEW d \in Reads, NEW l \in DOMAIN task[d]
        PROVE  /\ task'[d][l].conn # None => task'[d][l].conn \notin idle'
               /\ task'[d][l].conn # None <=> task'[d][l].pc \in {"query", "map"}
               /\ d # c \/ l # k => task'[d][l].conn # x
    BY <1>1, <1>2 DEF ConnsOK
  <1>4. ASSUME NEW d \in Reads, NEW l \in DOMAIN task[d], NEW e \in Reads,
               NEW m \in DOMAIN task[e],
               task'[d][l].conn = task'[e][m].conn, task'[d][l].conn # None
        PROVE  d = e /\ l = m
    <2>1. CASE (d = c /\ l = k) \/ (e = c /\ m = k)
      BY <1>2, <1>3, <1>4, <2>1
    <2>2. CASE (d # c \/ l # k) /\ (e # c \/ m # k)
      <3>1. task'[d][l] = task[d][l] /\ task'[e][m] = task[e][m]
        BY <1>2, <2>2
      <3>2. QED
        BY <1>4, <3>1 DEF ConnsOK
    <2>3. QED
      BY <2>1, <2>2
  <1>5. ASSUME NEW y \in Conns \ idle'
        PROVE  \E d \in Reads : \E l \in DOMAIN task[d] : task'[d][l].conn = y
    <2>1. CASE y = x
      BY <1>2, <2>1
    <2>2. CASE y # x
      <3>1. y \in Conns \ idle
        BY <2>2
      <3>2. PICK d \in Reads : \E l \in DOMAIN task[d] : task[d][l].conn = y
        BY <3>1 DEF ConnsOK
      <3>3. PICK l \in DOMAIN task[d] : task[d][l].conn = y
        BY <3>2
      <3>4. y # None
        BY <3>1 DEF ReadsAssumption
      <3>5. task'[d][l] = task[d][l]
        BY <1>2, <3>3, <3>4
      <3>6. QED
        BY <3>3, <3>5
    <2>3. QED
      BY <2>1, <2>2
  <1>6. QED
    BY <1>2, <1>3, <1>4, <1>5 DEF ConnsOK

LEMMA ConnsGive ==
    ASSUME ReadsAssumption, TypesOK, ConnsOK, NEW c \in Reads, NEW k \in DOMAIN task[c],
           NEW s \in TaskState, s.conn = None, s.pc \notin {"query", "map"},
           task' = With(task, c, k, s),
           idle' = idle \cup ({task[c][k].conn} \ {None})
    PROVE  ConnsOK'
  <1>2. /\ task'[c][k] = s
        /\ \A d \in Reads : DOMAIN task'[d] = DOMAIN task[d]
        /\ \A d \in Reads : \A l \in DOMAIN task[d] :
              d # c \/ l # k => task'[d][l] = task[d][l]
    BY WithOK DEF TypesOK
  <1>3. ASSUME NEW d \in Reads, NEW l \in DOMAIN task[d]
        PROVE  /\ task'[d][l].conn # None => task'[d][l].conn \notin idle'
               /\ task'[d][l].conn # None <=> task'[d][l].pc \in {"query", "map"}
    <2>1. CASE d = c /\ l = k
      BY <1>2, <2>1
    <2>2. CASE d # c \/ l # k
      <3>1. task'[d][l] = task[d][l]
        BY <1>2, <2>2
      <3>2. task[d][l].conn # None => task[d][l].conn # task[c][k].conn
        BY <2>2 DEF ConnsOK
      <3>3. QED
        BY <3>1, <3>2 DEF ConnsOK
    <2>3. QED
      BY <2>1, <2>2
  <1>4. ASSUME NEW d \in Reads, NEW l \in DOMAIN task[d], NEW e \in Reads,
               NEW m \in DOMAIN task[e],
               task'[d][l].conn = task'[e][m].conn, task'[d][l].conn # None
        PROVE  d = e /\ l = m
    <2>1. (d # c \/ l # k) /\ (e # c \/ m # k)
      BY <1>2, <1>4
    <2>2. task'[d][l] = task[d][l] /\ task'[e][m] = task[e][m]
      BY <1>2, <2>1
    <2>3. QED
      BY <1>4, <2>2 DEF ConnsOK
  <1>5. ASSUME NEW y \in Conns \ idle'
        PROVE  \E d \in Reads : \E l \in DOMAIN task[d] : task'[d][l].conn = y
    <2>1. y \in Conns \ idle /\ y # None /\ y # task[c][k].conn
      BY DEF ReadsAssumption
    <2>2. PICK d \in Reads : \E l \in DOMAIN task[d] : task[d][l].conn = y
      BY <2>1 DEF ConnsOK
    <2>3. PICK l \in DOMAIN task[d] : task[d][l].conn = y
      BY <2>2
    <2>4. task'[d][l] = task[d][l]
      BY <1>2, <2>1, <2>3
    <2>5. QED
      BY <2>3, <2>4
  <1>6. QED
    BY <1>2, <1>3, <1>4, <1>5 DEF ConnsOK

LEMMA ConnsKeep ==
    ASSUME TypesOK, ConnsOK, NEW c \in Reads, NEW k \in DOMAIN task[c],
           NEW s \in TaskState, s.conn = task[c][k].conn,
           s.pc \in {"query", "map"}, task[c][k].pc \in {"query", "map"},
           task' = With(task, c, k, s), idle' = idle
    PROVE  ConnsOK'
  <1>1. /\ \A d \in Reads : DOMAIN task'[d] = DOMAIN task[d]
        /\ \A d \in Reads : \A l \in DOMAIN task[d] :
              /\ task'[d][l].conn = task[d][l].conn
              /\ task'[d][l].pc \in {"query", "map"} <=> task[d][l].pc \in {"query", "map"}
    BY WithOK DEF TypesOK
  <1>2. QED
    BY <1>1 DEF ConnsOK

-----------------------------------------------------------------------------
(* The rows: a query that moves on, but does not look anything up. *)

LEMMA RowsMoved ==
    ASSUME TypesOK, RowsOK, NEW c \in Reads, NEW k \in DOMAIN task[c],
           NEW s \in TaskState, s.rows = task[c][k].rows, task[c][k].pc # "ok",
           s.pc \in {"map", "ok"} => task[c][k].pc = "map",
           s.pc \in {"conn", "query"} => task[c][k].pc \in {"conn", "query"},
           task' = With(task, c, k, s), UNCHANGED <<call, seen>>
    PROVE  RowsOK'
  <1>1. /\ task'[c][k] = s
        /\ \A d \in Reads : DOMAIN task'[d] = DOMAIN task[d]
        /\ \A d \in Reads : \A l \in DOMAIN task[d] :
              d # c \/ l # k => task'[d][l] = task[d][l]
    BY WithOK DEF TypesOK
  <1>2. TaskRowsOK(call[c], task[c][k], seen[c], k) => TaskRowsOK(call[c], s, seen[c], k)
    BY DEF TaskRowsOK
  <1>3. ASSUME NEW d \in Reads, NEW l \in DOMAIN task[d]
        PROVE  TaskRowsOK(call[d], task'[d][l], seen[d], l)
    BY <1>1, <1>2 DEF RowsOK
  <1>4. ASSUME NEW d \in Reads, FoundOK(call[d], task[d])
        PROVE  FoundOK(call[d], task'[d])
    <2>1. \A j \in DOMAIN call[d].found : call[d].pc = "await" /\ task[d][j].pc = "ok" =>
             task'[d][j] = task[d][j]
      <3>1. CASE d # c
        BY <3>1, WithOK DEF TypesOK
      <3>2. CASE d = c
        BY <3>2 DEF With, TypesOK, Tasks
      <3>3. QED
        BY <3>1, <3>2
    <2>2. QED
      BY <1>4, <2>1 DEF FoundOK
  <1>5. QED
    BY <1>1, <1>3, <1>4 DEF RowsOK

LEMMA CallsMoved ==
    ASSUME TypesOK, CallsOK, NEW c \in Reads, NEW k \in DOMAIN task[c],
           NEW s \in TaskState, task' = With(task, c, k, s), call' = call,
           \A d \in Reads : seen'[d] = seen[d] \/ call[d].pc = "await"
    PROVE  CallsOK'
  <1> SUFFICES ASSUME NEW d \in Reads
               PROVE  CallOK(call[d], task'[d], seen'[d])
    BY DEF CallsOK
  <1>1. CallOK(call[d], task[d], seen[d])
    BY DEF CallsOK
  <1>2. DOMAIN task'[d] = DOMAIN task[d] /\ Len(task'[d]) = Len(task[d])
        /\ task \in Tasks /\ task' \in Tasks
    BY WithOK DEF TypesOK
  <1>3. task[d] = <<>> <=> task'[d] = <<>>
    <2>1. task[d] \in Seq(TaskState) /\ task'[d] \in Seq(TaskState)
      BY <1>2 DEF Tasks
    <2>2. QED
      BY <1>2, <2>1, EmptySeq
  <1>4. c # d => task'[d] = task[d]
    BY WithOK DEF TypesOK
  <1>5. c = d => task[d] # <<>>
    OBVIOUS
  <1>6. QED
    BY <1>1, <1>2, <1>3, <1>4, <1>5 DEF CallOK

-----------------------------------------------------------------------------
(* The query itself *)

LEMMA QueryRows ==
    ASSUME TypesOK, CallsOK, RowsOK, NEW c \in Reads, NEW k \in DOMAIN task[c], Query(c, k)
    PROVE  /\ RowsOK' /\ CallsOK' /\ TypesOK'
           /\ \E s \in TaskState : /\ task' = With(task, c, k, s)
                                   /\ s.pc = "map" /\ s.conn = task[c][k].conn
           /\ call[c].pc = "await" => ChunkOf(call[c], k) \cap DOMAIN seen[c] = {}
  <1> DEFINE r == call[c]
             P == ChunkOf(r, k)
             found == RowsAt(c, P)
             s == Mapped(task[c][k], found)
             sn == IF r.pc # "await" THEN <<>>
                   ELSE [p \in P \cup DOMAIN seen[c] |->
                           IF p \in P THEN table[r.ids[p]] ELSE seen[c][p]]
  <1>1. /\ task[c][k].pc = "query" /\ task' = With(task, c, k, s)
        /\ seen' = [seen EXCEPT ![c] = sn] /\ UNCHANGED <<table, idle, call>>
    BY DEF Query, With, ChunkOf, Mapped
  <1>2. r \in CallState /\ r.ids \in Seq(Ids) /\ Len(r.ids) \in Nat
        /\ DOMAIN r.ids = 1..Len(r.ids)
    BY DEF TypesOK, CallState
  <1>3. P \subseteq 1..Len(r.ids)
    BY <1>2, ChunkIn DEF ChunkOf
  <1>4. found \in SUBSET (Ids \X Contents)
    <2>1. \A p \in P : r.ids[p] \in Ids
      BY <1>2, <1>3
    <2>2. \A p \in P : table[r.ids[p]] # None => table[r.ids[p]] \in Contents
      BY <2>1 DEF TypesOK
    <2>3. QED
      BY <2>1, <2>2 DEF RowsAt
  <1>5. s \in TaskState /\ s.pc = "map" /\ s.conn = task[c][k].conn /\ s.rows = found
    <2>1. task[c][k] \in TaskState
      BY DEF TypesOK, Tasks
    <2> HIDE DEF found
    <2>2. QED
      BY <1>4, <2>1, TaskFields
  <1>6. found = {<<r.ids[p], table[r.ids[p]]>> : p \in {q \in P : table[r.ids[q]] # None}}
    BY DEF RowsAt
  <1>7. /\ r.size \in Nat \ {0} /\ Len(task[c]) \in Nat /\ DOMAIN task[c] = 1..Len(task[c])
        /\ \A l \in DOMAIN task[c] : l \in Nat \ {0}
    <2>1. task[c] \in Seq(TaskState) /\ task[c] # <<>>
      BY DEF TypesOK, Tasks
    <2>2. QED
      BY <2>1 DEF CallsOK, CallOK
  <1>8. \A l \in DOMAIN task[c] : l # k => ChunkOf(r, l) \cap P = {}
    BY <1>2, <1>7, ChunksApart DEF ChunkOf
  <1>9. r.pc = "await" => P \cap DOMAIN seen[c] = {}
    BY <1>1 DEF RowsOK, TaskRowsOK
  <1>10. DOMAIN seen = Reads /\ seen'[c] = sn /\ \A d \in Reads : d # c => seen'[d] = seen[d]
    BY <1>1 DEF TypesOK
  <1> HIDE DEF s
  <1>11. /\ task'[c][k] = s /\ task' \in Tasks
         /\ \A d \in Reads : DOMAIN task'[d] = DOMAIN task[d]
         /\ \A d \in Reads : d # c => task'[d] = task[d]
         /\ \A l \in DOMAIN task[c] : l # k => task'[c][l] = task[c][l]
    BY <1>1, <1>5, WithOK DEF TypesOK
  <1>12. TypesOK'
    <2>1. DOMAIN sn \subseteq DOMAIN r.ids
      BY <1>2, <1>3 DEF TypesOK
    <2>2. \A p \in P : table[r.ids[p]] \in Contents \cup {None}
      <3>1. \A p \in P : r.ids[p] \in Ids
        BY <1>2, <1>3
      <3>2. QED
        BY <3>1 DEF TypesOK
    <2>3. \A p \in DOMAIN sn : sn[p] \in Contents \cup {None}
      <3>1. \A p \in DOMAIN seen[c] : seen[c][p] \in Contents \cup {None}
        BY DEF TypesOK
      <3>2. QED
        BY <2>2, <3>1
    <2> HIDE DEF sn
    <2>4. seen' = [d \in Reads |-> seen'[d]]
      <3>1. seen = [d \in Reads |-> seen[d]]
        BY DEF TypesOK
      <3>2. QED
        BY <1>1, <3>1
    <2>5. ASSUME NEW d \in Reads
          PROVE  /\ DOMAIN seen'[d] \subseteq DOMAIN call[d].ids
                 /\ \A p \in DOMAIN seen'[d] : seen'[d][p] \in Contents \cup {None}
      <3>1. CASE d = c
        BY <1>10, <2>1, <2>3, <3>1
      <3>2. CASE d # c
        BY <1>10, <3>2 DEF TypesOK
      <3>3. QED
        BY <3>1, <3>2
    <2>6. QED
      BY <1>1, <1>11, <2>4, <2>5 DEF TypesOK
  <1>13. CallsOK'
    <2>1. r.pc = "await" \/ seen'[c] = seen[c]
      BY <1>10 DEF CallsOK, CallOK
    <2>2. \A d \in Reads : seen'[d] = seen[d] \/ call[d].pc = "await"
      BY <1>10, <2>1
    <2>3. QED
      BY <1>1, <1>5, <2>2, CallsMoved
  <1>14. TaskRowsOK(r, s, sn, k)
    <2>1. FromChunk(found, r, k)
      BY <1>6 DEF FromChunk
    <2>2. CASE r.pc # "await"
      BY <1>5, <2>1, <2>2 DEF TaskRowsOK
    <2>3. CASE r.pc = "await"
      <3>1. P \subseteq DOMAIN sn /\ \A p \in P : sn[p] = table[r.ids[p]]
        BY <2>3
      <3> HIDE DEF sn, found, P
      <3>2. SeenRows(r, sn, k) = {<<r.ids[p], sn[p]>> : p \in {q \in P : sn[q] # None}}
        BY DEF SeenRows, P
      <3>3. SeenRows(r, sn, k) = found
        BY <1>6, <3>1, <3>2
      <3>4. QED
        BY <1>5, <2>1, <3>1, <3>3 DEF TaskRowsOK, P
    <2>4. QED
      BY <2>2, <2>3
  <1>15. ASSUME NEW l \in DOMAIN task[c], l # k
         PROVE  TaskRowsOK(r, task[c][l], sn, l)
    <2> DEFINE Q == ChunkOf(r, l)
               u == task[c][l]
    <2>1. TaskRowsOK(r, u, seen[c], l)
      BY DEF RowsOK
    <2>2. CASE r.pc # "await"
      BY <2>1, <2>2 DEF TaskRowsOK
    <2>3. CASE r.pc = "await"
      <3>1. Q \cap P = {}
        BY <1>8, <1>15
      <3>2. DOMAIN sn = P \cup DOMAIN seen[c]
        BY <2>3
      <3>3. \A p \in Q : p \in DOMAIN seen[c] => sn[p] = seen[c][p]
        BY <2>3, <3>1
      <3>4. Q \subseteq DOMAIN seen[c] => SeenRows(r, sn, l) = SeenRows(r, seen[c], l)
        BY <3>3 DEF SeenRows
      <3>5. QED
        BY <2>1, <3>1, <3>2, <3>4 DEF TaskRowsOK
    <2>4. QED
      BY <2>2, <2>3
  <1>16. FoundOK(r, task'[c])
    <2>1. FoundOK(r, task[c])
      BY DEF RowsOK
    <2>2. \A j \in DOMAIN r.found : r.pc = "await" => task'[c][j] = task[c][j]
      BY <1>1, <2>1 DEF FoundOK, With, TypesOK, Tasks
    <2>3. QED
      BY <2>1, <2>2 DEF FoundOK
  <1>17. RowsOK'
    <2> SUFFICES ASSUME NEW d \in Reads
                 PROVE  /\ FoundOK(call[d], task'[d])
                        /\ \A l \in DOMAIN task[d] :
                              TaskRowsOK(call[d], task'[d][l], seen'[d], l)
      BY <1>1, <1>11 DEF RowsOK
    <2>1. CASE d # c
      BY <1>10, <1>11, <2>1 DEF RowsOK
    <2> HIDE DEF sn
    <2>2. CASE d = c
      BY <1>10, <1>11, <1>14, <1>15, <1>16, <2>2
    <2>3. QED
      BY <2>1, <2>2
  <1>18. QED
    BY <1>1, <1>5, <1>9, <1>12, <1>13, <1>17

-----------------------------------------------------------------------------
(* The other steps of a query *)

LEMMA MovedOK ==
    ASSUME IInv, NEW c \in Reads, NEW k \in DOMAIN task[c], NEW s \in TaskState,
           s.rows = task[c][k].rows, task[c][k].pc # "ok",
           s.pc \in {"map", "ok"} => task[c][k].pc = "map",
           s.pc \in {"conn", "query"} => task[c][k].pc \in {"conn", "query"},
           task' = With(task, c, k, s), UNCHANGED <<table, call, seen>>,
           ConnsOK', idle' \subseteq Conns
    PROVE  IInv'
  <1>1. TypesOK /\ CallsOK /\ RowsOK
    BY DEF IInv
  <1>2. task' \in Tasks
    BY <1>1, WithOK DEF TypesOK
  <1>3. TypesOK'
    BY <1>1, <1>2 DEF TypesOK
  <1>4. CallsOK'
    BY <1>1, CallsMoved
  <1>5. RowsOK'
    BY <1>1, RowsMoved
  <1>6. QED
    BY <1>3, <1>4, <1>5 DEF IInv

LEMMA QueryStep ==
    ASSUME ReadsAssumption, IInv, NEW c \in Reads, NEW k \in DOMAIN task[c],
           Progress(c, k) \/ Failure(c, k)
    PROVE  IInv'
  <1> DEFINE r == task[c][k]
  <1>1. r \in TaskState /\ r.conn \in Conns \cup {None} /\ idle \subseteq Conns
    <2>1. r \in TaskState /\ idle \subseteq Conns
      BY DEF IInv, TypesOK, Tasks
    <2>2. QED
      BY <2>1 DEF TaskState
  <1>2. TypesOK /\ ConnsOK /\ (r.conn # None <=> r.pc \in {"query", "map"})
    BY DEF IInv, ConnsOK
  <1>3. CASE Acquire(c, k)
    <2>1. PICK x \in idle :
             /\ idle' = idle \ {x}
             /\ task' = [task EXCEPT ![c][k].pc = "query", ![c][k].conn = x]
      BY <1>3 DEF Acquire
    <2> DEFINE s == Moved(r, "query", x)
    <2>2. r.pc = "conn" /\ r.conn = None /\ UNCHANGED <<table, call, seen>>
      BY <1>2, <1>3 DEF Acquire
    <2>3. task' = With(task, c, k, s)
      BY <1>2, <2>1 DEF With, Moved, TypesOK, Tasks
    <2>4. s \in TaskState /\ s.pc = "query" /\ s.conn = x /\ s.rows = r.rows
      <3>1. "query" \in TaskPcs /\ x \in Conns \cup {None}
        BY <1>1 DEF TaskPcs
      <3>2. QED
        BY <1>1, <3>1, TaskFields
    <2> HIDE DEF s
    <2>5. ConnsOK'
      BY <1>2, <2>1, <2>2, <2>3, <2>4, ConnsTake
    <2>6. idle' \subseteq Conns
      BY <1>1, <2>1
    <2>7. QED
      BY <2>2, <2>3, <2>4, <2>5, <2>6, MovedOK
  <1>4. CASE AcquireFail(c, k)
    <2> DEFINE s == Failed(r)
    <2>1. /\ r.pc = "conn" /\ r.conn = None /\ UNCHANGED <<table, idle, call, seen>>
          /\ task' = With(task, c, k, s)
      BY <1>2, <1>4 DEF AcquireFail, With, Failed
    <2>2. s \in TaskState /\ s.pc = "failed" /\ s.conn = None /\ s.rows = r.rows
      BY <1>1, <2>1, TaskFields
    <2>3. idle' = idle \cup ({task[c][k].conn} \ {None})
      BY <2>1
    <2> HIDE DEF s
    <2>4. ConnsOK'
      BY <1>2, <2>1, <2>2, <2>3, ConnsGive
    <2>5. idle' \subseteq Conns
      BY <1>1, <2>1
    <2>6. QED
      BY <2>1, <2>2, <2>4, <2>5, MovedOK
  <1>5. ASSUME NEW how \in {"ok", "failed"}, EndQuery(c, k, how),
               UNCHANGED <<table, call, seen>>, r.pc \in {"query", "map"},
               how = "ok" => r.pc = "map"
        PROVE  IInv'
    <2> DEFINE s == Moved(r, how, None)
    <2>1. task' = With(task, c, k, s)
      BY <1>2, <1>5 DEF EndQuery, With, Moved, TypesOK, Tasks
    <2>2. s \in TaskState /\ s.pc = how /\ s.conn = None /\ s.rows = r.rows
      BY <1>1, TaskFields DEF TaskPcs
    <2>3. r.conn # None /\ idle' = idle \cup ({task[c][k].conn} \ {None})
      BY <1>2, <1>5 DEF EndQuery
    <2> HIDE DEF s
    <2>4. ConnsOK'
      BY <1>2, <1>5, <2>1, <2>2, <2>3, ConnsGive
    <2>5. idle' \subseteq Conns
      BY <1>1, <2>3
    <2>6. QED
      BY <1>5, <2>1, <2>2, <2>4, <2>5, MovedOK
  <1>6. CASE Query(c, k)
    <2>1. /\ RowsOK' /\ CallsOK' /\ TypesOK'
          /\ \E s \in TaskState : /\ task' = With(task, c, k, s)
                                  /\ s.pc = "map" /\ s.conn = task[c][k].conn
      BY <1>6, QueryRows DEF IInv
    <2>2. r.pc = "query" /\ UNCHANGED idle
      BY <1>6 DEF Query
    <2>3. ConnsOK'
      BY <1>2, <2>1, <2>2, ConnsKeep
    <2>4. QED
      BY <2>1, <2>3 DEF IInv
  <1>7. CASE Convert(c, k)
    BY <1>5, <1>7 DEF Convert
  <1>8. CASE QueryFail(c, k)
    BY <1>5, <1>8 DEF QueryFail
  <1>9. CASE ConvertFail(c, k)
    BY <1>5, <1>9 DEF ConvertFail
  <1>10. QED
    BY <1>3, <1>4, <1>6, <1>7, <1>8, <1>9 DEF Progress, Failure

-----------------------------------------------------------------------------
(* The steps of a call *)

\* In one step only the call c sees anything new.
SeenAt(c, sn) == seen' = [d \in Reads |-> IF d = c THEN sn ELSE seen[d]]

LEMMA SeenKept ==
    ASSUME TypesOK, NEW c \in Reads
    PROVE  /\ UNCHANGED seen => SeenAt(c, seen[c])
           /\ \A sn : seen' = [seen EXCEPT ![c] = sn] => SeenAt(c, sn)
  <1>1. seen = [d \in Reads |-> seen[d]]
    BY DEF TypesOK
  <1> DEFINE seen0(d) == seen[d]
  <1>2. seen = [d \in Reads |-> seen0(d)]
    BY <1>1
  <1> HIDE DEF seen0
  <1>3. UNCHANGED seen => SeenAt(c, seen[c])
    BY <1>2 DEF SeenAt, seen0
  <1>4. \A sn : seen' = [seen EXCEPT ![c] = sn] => SeenAt(c, sn)
    BY <1>2 DEF SeenAt, seen0
  <1>5. QED
    BY <1>3, <1>4

LEMMA OneCall ==
    ASSUME IInv, NEW c \in Reads, NEW r \in CallState, NEW T \in Seq(TaskState), NEW sn,
           DOMAIN sn \subseteq DOMAIN r.ids,
           \A p \in DOMAIN sn : sn[p] \in Contents \cup {None},
           CallOK(r, T, sn), FoundOK(r, T),
           \A k \in DOMAIN T : TaskRowsOK(r, T[k], sn, k),
           call' = [call EXCEPT ![c] = r], task' = [task EXCEPT ![c] = T],
           SeenAt(c, sn), UNCHANGED table,
           idle' \subseteq Conns, ConnsOK'
    PROVE  IInv'
  <1>1. TypesOK /\ CallsOK /\ RowsOK
    BY DEF IInv
  <1>2. /\ call' \in [Reads -> CallState] /\ task' \in Tasks
        /\ seen' = [d \in Reads |-> seen'[d]]
        /\ call'[c] = r /\ task'[c] = T /\ seen'[c] = sn
        /\ \A d \in Reads : d # c => /\ call'[d] = call[d] /\ task'[d] = task[d]
                                     /\ seen'[d] = seen[d]
    BY <1>1 DEF TypesOK, Tasks, SeenAt
  <1>3. TypesOK'
    BY <1>1, <1>2 DEF TypesOK
  <1>4. CallsOK'
    BY <1>1, <1>2 DEF CallsOK
  <1>5. RowsOK'
    BY <1>1, <1>2 DEF RowsOK
  <1>6. QED
    BY <1>3, <1>4, <1>5 DEF IInv

CallPcs == {"new", "await", "ok", "not_found", "failed", "left"}
Ended(r, how) == [r EXCEPT !.pc = how]
Started(r, kind, list, n) == [r EXCEPT !.pc = "await", !.kind = kind, !.ids = list, !.size = n]
NoIds(r, kind) == [r EXCEPT !.kind = kind, !.pc = "ok"]
Gained(r, rows, n, how) ==
    [r EXCEPT !.found = Append(r.found, rows), !.next = n, !.pc = how]

LEMMA CallFields ==
    ASSUME NEW r \in CallState, NEW how \in CallPcs
    PROVE  /\ Ended(r, how) \in CallState /\ Ended(r, how).pc = how
           /\ Ended(r, how).ids = r.ids /\ Ended(r, how).size = r.size
           /\ Ended(r, how).found = r.found /\ Ended(r, how).kind = r.kind
           /\ r.found \in Seq(SUBSET (Ids \X Contents)) /\ r.next \in Nat
           /\ r.ids \in Seq(Ids)
  BY DEF CallState, CallPcs, Ended

LEMMA StartFields ==
    ASSUME NEW r \in CallState, NEW kind \in Kinds, NEW list \in Seq(Ids), NEW n \in Nat
    PROVE  LET s == Started(r, kind, list, n)
           IN  /\ s \in CallState /\ s.pc = "await" /\ s.kind = kind /\ s.ids = list
               /\ s.size = n /\ s.next = r.next /\ s.found = r.found
  BY DEF CallState, Started

LEMMA NoIdsFields ==
    ASSUME NEW r \in CallState, NEW kind \in Kinds
    PROVE  LET s == NoIds(r, kind)
           IN  /\ s \in CallState /\ s.pc = "ok" /\ s.found = r.found /\ s.ids = r.ids
  BY DEF CallState, NoIds

\* A call ends without an answer: nothing is said of what was seen any more.
LEMMA EndedOK ==
    ASSUME IInv, NEW c \in Reads, call[c].pc = "await", NEW how \in {"failed", "left"},
           NEW T \in Seq(TaskState), Len(T) = Len(task[c]),
           \A k \in DOMAIN T : T[k].rows \subseteq task[c][k].rows,
           call' = [call EXCEPT ![c] = Ended(call[c], how)],
           task' = [task EXCEPT ![c] = T], SeenAt(c, <<>>),
           UNCHANGED table, idle' \subseteq Conns, ConnsOK'
    PROVE  IInv'
  <1> DEFINE q == call[c]
             r == Ended(q, how)
  <1>1. /\ q \in CallState /\ CallOK(q, task[c], seen[c]) /\ FoundOK(q, task[c])
        /\ \A k \in DOMAIN task[c] : TaskRowsOK(q, task[c][k], seen[c], k)
        /\ task[c] \in Seq(TaskState)
    BY DEF IInv, TypesOK, CallsOK, RowsOK, Tasks
  <1>2. /\ r \in CallState /\ r.pc = how /\ r.ids = q.ids /\ r.size = q.size
        /\ r.found = q.found
    <2>1. how \in CallPcs
      BY DEF CallPcs
    <2>2. QED
      BY <1>1, <2>1, CallFields
  <1>3. DOMAIN T = DOMAIN task[c] /\ (T = <<>> <=> task[c] = <<>>)
    BY <1>1, EmptySeq
  <1> HIDE DEF r, q
  <1>4. how # "await" /\ how # "new"
    OBVIOUS
  <1>5. CallOK(r, T, <<>>)
    BY <1>1, <1>2, <1>3, <1>4 DEF CallOK
  <1>6. FoundOK(r, T)
    BY <1>1, <1>2, <1>4 DEF FoundOK, FromChunk, ChunkOf
  <1>7. \A k \in DOMAIN T : TaskRowsOK(r, T[k], <<>>, k)
    BY <1>1, <1>2, <1>3, <1>4 DEF TaskRowsOK, FromChunk, ChunkOf
  <1>8. DOMAIN <<>> \subseteq DOMAIN r.ids /\ \A p \in DOMAIN <<>> : <<>>[p] \in Contents \cup {None}
    OBVIOUS
  <1>9. call' = [call EXCEPT ![c] = r]
    BY DEF r, q
  <1>10. QED
    BY <1>2, <1>5, <1>6, <1>7, <1>8, <1>9, OneCall

LEMMA GainedFields ==
    ASSUME NEW r \in CallState, NEW how \in CallPcs, NEW n \in Nat \ {0},
           NEW rows \in SUBSET (Ids \X Contents)
    PROVE  LET g == Gained(r, rows, n, how)
           IN  /\ g \in CallState /\ g.pc = how /\ g.ids = r.ids /\ g.size = r.size
               /\ g.next = n /\ g.kind = r.kind
               /\ g.found = Append(r.found, rows)
               /\ g.found # <<>> /\ Len(g.found) = Len(r.found) + 1
               /\ Len(r.found) \in Nat /\ DOMAIN g.found = 1..Len(r.found) + 1
               /\ DOMAIN r.found = 1..Len(r.found)
               /\ g.found[Len(r.found) + 1] = rows
               /\ \A j \in DOMAIN r.found : g.found[j] = r.found[j]
  <1> DEFINE g == Gained(r, rows, n, how)
             f == Append(r.found, rows)
  <1>1. r.found \in Seq(SUBSET (Ids \X Contents))
    BY DEF CallState
  <1>2. /\ f \in Seq(SUBSET (Ids \X Contents)) /\ f # <<>>
        /\ Len(f) = Len(r.found) + 1
        /\ Len(r.found) \in Nat /\ DOMAIN f = 1..Len(r.found) + 1
        /\ DOMAIN r.found = 1..Len(r.found)
        /\ f[Len(r.found) + 1] = rows
        /\ \A j \in DOMAIN r.found : f[j] = r.found[j]
    BY <1>1
  <1>3. g = [r EXCEPT !.found = f, !.next = n, !.pc = how]
    BY DEF Gained
  <1> HIDE DEF f, g
  <1>4. /\ g \in CallState /\ g.pc = how /\ g.ids = r.ids /\ g.size = r.size
        /\ g.next = n /\ g.kind = r.kind /\ g.found = f
    BY <1>2, <1>3 DEF CallState, CallPcs
  <1>5. QED
    BY <1>2, <1>4 DEF f, g

LEMMA GainedAwait ==
    ASSUME NEW r \in CallState, r.pc = "await", NEW rows, NEW n
    PROVE  [r EXCEPT !.found = Append(r.found, rows), !.next = n] =
              Gained(r, rows, n, "await")
  BY DEF CallState, Gained

\* The rows of the task that is awaited are those of the next chunk.
LEMMA GainedOK ==
    ASSUME IInv, NEW c \in Reads, call[c].pc = "await", Awaited(c).pc = "ok",
           NEW n \in Nat \ {0}, NEW how \in {"await", "ok", "not_found"}, NEW sn,
           \/ how = "await" /\ n = call[c].next + 1 /\ n \in DOMAIN task[c] /\ sn = seen[c]
           \/ how # "await" /\ sn = <<>>,
           call' = [call EXCEPT ![c] = Gained(call[c], Awaited(c).rows, n, how)],
           SeenAt(c, sn), UNCHANGED <<table, idle, task>>
    PROVE  IInv'
  <1> DEFINE q == call[c]
             T == task[c]
             k == q.next
             rows == T[k].rows
             g == Gained(q, rows, n, how)
  <1>1. /\ q \in CallState /\ CallOK(q, T, seen[c]) /\ FoundOK(q, T)
        /\ \A l \in DOMAIN T : TaskRowsOK(q, T[l], seen[c], l)
        /\ T \in Seq(TaskState)
        /\ DOMAIN seen[c] \subseteq DOMAIN q.ids
        /\ \A p \in DOMAIN seen[c] : seen[c][p] \in Contents \cup {None}
    BY DEF IInv, TypesOK, CallsOK, RowsOK, Tasks
  <1>2. k \in DOMAIN T /\ Len(q.found) = k - 1 /\ T[k].pc = "ok"
    BY <1>1 DEF CallOK, FoundOK, Awaited
  <1>3. T[k] \in TaskState
    BY <1>1, <1>2
  <1>4. rows \in SUBSET (Ids \X Contents)
    BY <1>3 DEF TaskState
  <1>5. how \in CallPcs /\ how # "new"
    BY DEF CallPcs
  <1> HIDE DEF rows
  <1>6. /\ g \in CallState /\ g.pc = how /\ g.ids = q.ids /\ g.size = q.size
        /\ g.next = n /\ g.found # <<>> /\ Len(g.found) = Len(q.found) + 1
        /\ Len(q.found) \in Nat /\ DOMAIN g.found = 1..Len(q.found) + 1
        /\ DOMAIN q.found = 1..Len(q.found)
        /\ g.found[Len(q.found) + 1] = rows
        /\ \A j \in DOMAIN q.found : g.found[j] = q.found[j]
    <2>1. q \in CallState
      BY <1>1
    <2> HIDE DEF q
    <2>2. QED
      BY <1>4, <1>5, <2>1, GainedFields
  <1> HIDE DEF g
  <1>7. Len(q.found) + 1 = k
    <2>1. k \in Nat
      BY <1>1 DEF CallState
    <2>2. QED
      BY <1>2, <1>6, <2>1
  <1>8. T # <<>>
    BY <1>2
  <1>9. CallOK(g, T, sn)
    BY <1>1, <1>5, <1>6, <1>8 DEF CallOK
  <1>10. FoundOK(g, T)
    <2>1. FromChunk(rows, q, k)
      BY <1>1, <1>2 DEF TaskRowsOK, rows
    <2>2. ASSUME NEW j \in DOMAIN g.found
          PROVE  FromChunk(g.found[j], g, j)
      <3>1. CASE j = k
        BY <1>6, <1>7, <2>1, <3>1 DEF FromChunk, ChunkOf
      <3>2. CASE j # k
        <4>1. j \in DOMAIN q.found
          BY <1>6, <1>7, <3>2
        <4>2. QED
          BY <1>1, <1>6, <4>1 DEF FoundOK, FromChunk, ChunkOf
      <3>3. QED
        BY <3>1, <3>2
    <2>3. ASSUME how = "await"
          PROVE  /\ Len(g.found) = g.next - 1
                 /\ \A j \in DOMAIN g.found : T[j].pc = "ok" /\ g.found[j] = T[j].rows
      <3>1. Len(g.found) = g.next - 1
        BY <1>6, <1>7, <2>3
      <3>2. ASSUME NEW j \in DOMAIN g.found
            PROVE  T[j].pc = "ok" /\ g.found[j] = T[j].rows
        <4>1. CASE j = k
          BY <1>2, <1>6, <1>7, <4>1 DEF rows
        <4>2. CASE j # k
          <5>1. j \in DOMAIN q.found
            BY <1>6, <1>7, <4>2
          <5>2. QED
            BY <1>1, <1>6, <5>1 DEF FoundOK
        <4>3. QED
          BY <4>1, <4>2
      <3>3. QED
        BY <3>1, <3>2
    <2>4. QED
      BY <1>6, <2>2, <2>3 DEF FoundOK
  <1>11. ASSUME NEW l \in DOMAIN T
         PROVE  TaskRowsOK(g, T[l], sn, l)
    <2>1. CASE how = "await"
      BY <1>1, <1>6, <2>1 DEF TaskRowsOK, FromChunk, ChunkOf, SeenRows
    <2>2. CASE how # "await"
      BY <1>1, <1>6, <2>2 DEF TaskRowsOK, FromChunk, ChunkOf
    <2>3. QED
      BY <2>1, <2>2
  <1>12. DOMAIN sn \subseteq DOMAIN g.ids /\ \A p \in DOMAIN sn : sn[p] \in Contents \cup {None}
    BY <1>1, <1>6
  <1>13. /\ call' = [call EXCEPT ![c] = g] /\ task' = [task EXCEPT ![c] = T]
         /\ idle' \subseteq Conns
    BY DEF g, rows, Awaited, IInv, TypesOK, Tasks
  <1>14. ConnsOK'
    BY DEF IInv, ConnsOK
  <1>15. UNCHANGED table
    OBVIOUS
  <1> HIDE DEF q, T
  <1>16. QED
    BY <1>1, <1>6, <1>9, <1>10, <1>11, <1>12, <1>13, <1>14, <1>15, OneCall

LEMMA BeginOK ==
    ASSUME ReadsAssumption, IInv, NEW c \in Reads, NEW rq \in Requests[c], Begin(c, rq)
    PROVE  IInv'
  <1> DEFINE n == Len(rq.ids)
             size == ChunkSize(rq.kind, n)
             r == Started(NoRead, rq.kind, rq.ids, size)
             T == [k \in 1..DivCeil(n, size) |-> NewTask]
  <1>1. rq.ids \in Seq(Ids) /\ rq.kind \in Kinds /\ rq.ids # <<>> /\ Workers \in Nat \ {0}
    BY DEF ReadsAssumption, Begin
  <1>2. n \in Nat \ {0} /\ DOMAIN rq.ids = 1..n
    BY <1>1, EmptySeq, LenProperties
  <1> HIDE DEF n
  <1>3. size \in Nat \ {0}
    BY <1>1, <1>2, DivCeilIs DEF ChunkSize
  <1> HIDE DEF size
  <1>4. DivCeil(n, size) \in Nat \ {0}
    BY <1>2, <1>3, DivCeilIs
  <1>5. /\ T \in Seq(TaskState) /\ Len(T) = DivCeil(n, size) /\ DOMAIN T = 1..DivCeil(n, size)
        /\ T # <<>> /\ \A k \in DOMAIN T : T[k] = NewTask
    <2>1. T \in [1..DivCeil(n, size) -> TaskState]
      BY NewTaskOK
    <2>2. T \in Seq(TaskState) /\ Len(T) = DivCeil(n, size) /\ DOMAIN T = 1..DivCeil(n, size)
      BY <1>4, <2>1, SeqDef, LenProperties
    <2> HIDE DEF T
    <2>3. T # <<>>
      BY <1>4, <2>2
    <2>4. QED
      BY <2>2, <2>3 DEF T
  <1>6. /\ r \in CallState /\ r.pc = "await" /\ r.ids = rq.ids /\ r.size = size
        /\ r.next = 1 /\ r.found = <<>>
    BY <1>1, <1>3, NoReadOK, StartFields
  <1>7. /\ call' = [call EXCEPT ![c] = r] /\ task' = [task EXCEPT ![c] = T]
        /\ UNCHANGED <<table, idle, seen>> /\ call[c].pc = "new"
    BY DEF Begin, n, size, Started
  <1> HIDE DEF r, T
  <1>8. task[c] = <<>> /\ seen[c] = <<>>
    BY <1>7 DEF IInv, CallsOK, CallOK
  <1>9. CallOK(r, T, <<>>)
    BY <1>3, <1>4, <1>5, <1>6 DEF CallOK, n
  <1>10. FoundOK(r, T)
    BY <1>6 DEF FoundOK
  <1>11. \A k \in DOMAIN T : TaskRowsOK(r, T[k], <<>>, k)
    BY <1>5, NewTaskOK DEF TaskRowsOK, FromChunk
  <1>12. ConnsOK'
    <2>1. /\ task'[c] = T /\ \A d \in Reads : d # c => task'[d] = task[d]
          /\ DOMAIN task[c] = {} /\ idle' = idle
      BY <1>7, <1>8 DEF IInv, TypesOK, Tasks
    <2>2. \A k \in DOMAIN T : T[k].conn = None /\ T[k].pc = "conn"
      BY <1>5, NewTaskOK
    <2>3. ASSUME NEW d \in Reads, NEW l \in DOMAIN task'[d], task'[d][l].conn # None
          PROVE  d # c /\ l \in DOMAIN task[d] /\ task'[d][l] = task[d][l]
      BY <2>1, <2>2, <2>3
    <2>4. ASSUME NEW d \in Reads, NEW l \in DOMAIN task'[d]
          PROVE  /\ task'[d][l].conn # None => task'[d][l].conn \notin idle'
                 /\ task'[d][l].conn # None <=> task'[d][l].pc \in {"query", "map"}
                 /\ \A e \in Reads : \A m \in DOMAIN task'[e] :
                       task'[d][l].conn = task'[e][m].conn /\ task'[d][l].conn # None =>
                          d = e /\ l = m
      <3>1. CASE d = c
        BY <2>1, <2>2, <3>1
      <3>2. CASE d # c
        BY <2>1, <2>3, <3>2 DEF IInv, ConnsOK
      <3>3. QED
        BY <3>1, <3>2
    <2>5. \A x \in Conns \ idle' :
             \E d \in Reads : \E l \in DOMAIN task'[d] : task'[d][l].conn = x
      BY <2>1 DEF IInv, ConnsOK
    <2>6. QED
      BY <2>4, <2>5 DEF ConnsOK
  <1>13. DOMAIN <<>> \subseteq DOMAIN r.ids /\ \A p \in DOMAIN <<>> : <<>>[p] \in Contents \cup {None}
    OBVIOUS
  <1>14. SeenAt(c, <<>>) /\ idle' \subseteq Conns
    BY <1>7, <1>8, SeenKept DEF IInv, TypesOK
  <1>15. QED
    BY <1>5, <1>6, <1>7, <1>9, <1>10, <1>11, <1>12, <1>13, <1>14, OneCall

LEMMA BeginEmptyOK ==
    ASSUME ReadsAssumption, IInv, NEW c \in Reads, NEW rq \in Requests[c], BeginEmpty(c, rq)
    PROVE  IInv'
  <1> DEFINE r == NoIds(NoRead, rq.kind)
  <1>1. call[c] = NoRead /\ task[c] = <<>> /\ seen[c] = <<>>
    BY DEF IInv, CallsOK, CallOK, BeginEmpty
  <1>2. rq.kind \in Kinds
    BY DEF ReadsAssumption
  <1>3. r \in CallState /\ r.pc = "ok" /\ r.found = <<>>
    BY <1>2, NoReadOK, NoIdsFields
  <1>4. call' = [call EXCEPT ![c] = r] /\ UNCHANGED <<table, idle, task, seen>>
    BY <1>1 DEF BeginEmpty, IInv, TypesOK, NoIds
  <1> HIDE DEF r
  <1>5. /\ CallOK(r, <<>>, <<>>) /\ FoundOK(r, <<>>)
        /\ \A k \in DOMAIN <<>> : TaskRowsOK(r, <<>>[k], <<>>, k)
    BY <1>3 DEF CallOK, FoundOK
  <1>6. task' = [task EXCEPT ![c] = <<>>] /\ SeenAt(c, <<>>) /\ idle' \subseteq Conns
    BY <1>1, <1>4, SeenKept DEF IInv, TypesOK, Tasks
  <1>7. ConnsOK'
    BY <1>4 DEF IInv, ConnsOK
  <1>8. DOMAIN <<>> \subseteq DOMAIN r.ids /\ \A p \in DOMAIN <<>> : <<>>[p] \in Contents \cup {None}
    OBVIOUS
  <1>9. <<>> \in Seq(TaskState) /\ UNCHANGED table
    BY <1>4
  <1>10. QED
    BY <1>3, <1>4, <1>5, <1>6, <1>7, <1>8, <1>9, OneCall

LEMMA CallStepOK ==
    ASSUME ReadsAssumption, IInv, NEW c \in Reads, CallStep(c) \/ Leave(c)
    PROVE  IInv'
  <1> DEFINE q == call[c]
  <1>1. /\ q.pc = "await" /\ q \in CallState /\ task[c] \in Seq(TaskState)
        /\ q.next \in DOMAIN task[c]
    <2>1. q.pc = "await"
      BY DEF CallStep, AwaitNext, AwaitLast, AwaitFailed, Leave
    <2>2. QED
      BY <2>1 DEF IInv, TypesOK, Tasks, CallsOK, CallOK
  <1>2. /\ DOMAIN task[c] = 1..Len(task[c]) /\ Len(task[c]) \in Nat
        /\ q.next \in Nat \ {0} /\ 1 \in DOMAIN task[c]
    BY <1>1
  <1>3. /\ UNCHANGED task => task' = [task EXCEPT ![c] = task[c]]
        /\ idle \subseteq Conns
        /\ UNCHANGED <<task, idle>> => ConnsOK'
    BY DEF IInv, TypesOK, Tasks, ConnsOK
  <1>4. CASE AwaitNext(c)
    <2>1. q.next + 1 \in DOMAIN task[c] /\ q.next + 1 \in Nat \ {0}
      BY <1>2, <1>4 DEF AwaitNext
    <2>2. call' = [call EXCEPT ![c] = Gained(q, Awaited(c).rows, q.next + 1, "await")]
      <3>1. call' = [call EXCEPT ![c] = [q EXCEPT !.found = Append(q.found, Awaited(c).rows),
                                                  !.next = q.next + 1]]
        BY <1>4 DEF AwaitNext
      <3>2. QED
        BY <1>1, <3>1, GainedAwait
    <2>3. /\ Awaited(c).pc = "ok" /\ UNCHANGED <<table, idle, task>>
          /\ SeenAt(c, seen[c])
      BY <1>4, SeenKept DEF AwaitNext, IInv
    <2>4. QED
      BY <1>1, <2>1, <2>2, <2>3, GainedOK
  <1>5. CASE AwaitLast(c)
    <2> DEFINE how == IF q.kind = "find_by_id" /\ Awaited(c).rows = {} THEN "not_found"
                      ELSE "ok"
    <2>1. how \in {"await", "ok", "not_found"} /\ how # "await"
      OBVIOUS
    <2>2. call' = [call EXCEPT ![c] = Gained(q, Awaited(c).rows, q.next, how)]
      BY <1>1, <1>5 DEF AwaitLast, Gained, IInv, TypesOK, CallState
    <2>3. /\ Awaited(c).pc = "ok" /\ UNCHANGED <<table, idle, task>>
          /\ SeenAt(c, <<>>)
      BY <1>5, SeenKept DEF AwaitLast, IInv
    <2> HIDE DEF how
    <2>4. QED
      BY <1>1, <1>2, <2>1, <2>2, <2>3, GainedOK
  <1>6. CASE AwaitFailed(c)
    <2>1. /\ call' = [call EXCEPT ![c] = Ended(q, "failed")]
          /\ SeenAt(c, <<>>) /\ UNCHANGED <<table, idle, task>>
      BY <1>6, SeenKept DEF AwaitFailed, Finish, Ended, IInv
    <2>2. QED
      BY <1>1, <1>3, <2>1, EndedOK
  <1>7. CASE Leave(c)
    <2>1. /\ call' = [call EXCEPT ![c] = Ended(q, "left")]
          /\ SeenAt(c, <<>>) /\ UNCHANGED table
      BY <1>7, SeenKept DEF Leave, Finish, Ended, IInv
    <2>2. CASE q.kind = "find_by_ids_concurrent"
      <3>1. UNCHANGED <<idle, task>>
        BY <1>7, <2>2 DEF Leave
      <3>2. QED
        BY <1>1, <1>3, <2>1, <3>1, EndedOK
    <2>3. CASE q.kind # "find_by_ids_concurrent"
      <3> DEFINE s == [NewTask EXCEPT !.pc = "dropped"]
                 T == [task[c] EXCEPT ![1] = s]
      <3>1. /\ task' = [task EXCEPT ![c] = T] /\ task' = With(task, c, 1, s)
            /\ idle' = idle \cup ({task[c][1].conn} \ {None})
        BY <1>7, <2>3 DEF Leave, With
      <3>2. s \in TaskState /\ s.pc = "dropped" /\ s.conn = None /\ s.rows = {}
        BY NewTaskOK
      <3> HIDE DEF s
      <3>3. T \in Seq(TaskState) /\ Len(T) = Len(task[c]) /\ DOMAIN T = DOMAIN task[c]
            /\ T[1] = s /\ \A k \in DOMAIN T : k # 1 => T[k] = task[c][k]
        BY <1>1, <1>2, <3>2, ExceptSeq
      <3> HIDE DEF T
      <3>4. \A k \in DOMAIN T : T[k].rows \subseteq task[c][k].rows
        BY <3>2, <3>3
      <3>5. ConnsOK'
        BY <1>2, <3>1, <3>2, ConnsGive DEF IInv
      <3>6. idle' \subseteq Conns
        <4>1. task[c][1] \in TaskState
          BY <1>1, <1>2
        <4>2. QED
          BY <1>3, <3>1, <4>1 DEF TaskState
      <3>7. QED
        BY <1>1, <2>1, <3>1, <3>3, <3>4, <3>5, <3>6, EndedOK
    <2>4. QED
      BY <2>2, <2>3
  <1>8. QED
    BY <1>4, <1>5, <1>6, <1>7 DEF CallStep

LEMMA WriteOK ==
    ASSUME IInv, NEW i \in Ids, NEW v \in Contents \cup {None}, Write(i, v)
    PROVE  IInv'
  <1>1. TypesOK'
    BY DEF IInv, TypesOK, Write
  <1>2. UNCHANGED <<idle, call, task, seen>>
    BY DEF Write
  <1>3. CallsOK' /\ ConnsOK' /\ RowsOK'
    BY <1>2 DEF IInv, CallsOK, ConnsOK, RowsOK
  <1>4. QED
    BY <1>1, <1>3 DEF IInv

LEMMA NextOK == ReadsAssumption /\ IInv /\ [Next]_vars => IInv'
  <1> SUFFICES ASSUME ReadsAssumption, IInv, [Next]_vars PROVE IInv'
    OBVIOUS
  <1>1. ASSUME NEW c \in Reads, NEW r \in Requests[c], BeginEmpty(c, r) \/ Begin(c, r)
        PROVE  IInv'
    BY <1>1, BeginOK, BeginEmptyOK
  <1>2. ASSUME NEW c \in Reads, CallStep(c) \/ Leave(c)
        PROVE  IInv'
    BY <1>2, CallStepOK
  <1>3. ASSUME NEW c \in Reads, NEW k \in DOMAIN task[c], Progress(c, k) \/ Failure(c, k)
        PROVE  IInv'
    BY <1>3, QueryStep
  <1>4. ASSUME NEW i \in Ids, NEW v \in Contents \cup {None}, Write(i, v)
        PROVE  IInv'
    BY <1>4, WriteOK
  <1>5. CASE UNCHANGED vars
    <2>1. UNCHANGED table /\ UNCHANGED idle /\ UNCHANGED call /\ UNCHANGED task /\ UNCHANGED seen
      BY <1>5 DEF vars
    <2>2. TypesOK' /\ CallsOK' /\ ConnsOK' /\ RowsOK'
      BY <2>1 DEF IInv, TypesOK, CallsOK, ConnsOK, RowsOK
    <2>3. QED
      BY <2>2 DEF IInv
  <1>6. QED
    BY <1>1, <1>2, <1>3, <1>4, <1>5 DEF Next

THEOREM Invariance == Spec => []IInv
  <1>1. Init => IInv
    BY InitOK
  <1>2. IInv /\ [Next]_vars => IInv'
    BY NextOK, ReadsAssumption
  <1>3. QED
    BY <1>1, <1>2, PTL DEF Spec

(* Type correctness of the reads, for any calls, ids and pool.              *)
THEOREM TypeCorrect == Spec => []TypeOK
  <1>1. IInv => TypeOK
    BY DEF IInv, TypesOK, Tasks, CallsOK, CallOK, RowsOK, FoundOK, TypeOK
  <1>2. QED
    BY <1>1, Invariance, PTL

(* No connection of the pool of src/connection.rs is lost or shared by two  *)
(* queries, whichever of them fail, panic, are left behind or dropped.      *)
THEOREM PoolSafe == Spec => []PoolOK
  <1>1. IInv => PoolOK
    <2> SUFFICES ASSUME IInv PROVE PoolOK
      OBVIOUS
    <2>1. ASSUME NEW q \in Queries
          PROVE  q[1] \in Reads /\ q[2] \in DOMAIN task[q[1]] /\ q = <<q[1], q[2]>>
      BY DEF Queries
    <2>2. ASSUME NEW c \in Reads, NEW k \in DOMAIN task[c]
          PROVE  <<c, k>> \in Queries /\ ConnOf(<<c, k>>) = task[c][k].conn
      BY DEF Queries, ConnOf
    <2>3. \A q \in Queries : ConnOf(q) \in Conns => ConnOf(q) \notin idle
      <3>1. None \notin Conns
        BY ReadsAssumption DEF ReadsAssumption
      <3>2. QED
        BY <2>1, <3>1 DEF IInv, ConnsOK, ConnOf
    <2>4. \A x \in Conns \ idle : \E q \in Queries : ConnOf(q) = x
      <3>1. ASSUME NEW x \in Conns \ idle PROVE \E q \in Queries : ConnOf(q) = x
        <4>1. PICK c \in Reads : \E k \in DOMAIN task[c] : task[c][k].conn = x
          BY DEF IInv, ConnsOK
        <4>2. PICK k \in DOMAIN task[c] : task[c][k].conn = x
          BY <4>1
        <4>3. QED
          BY <2>2, <4>2
      <3>2. QED
        BY <3>1
    <2>5. idle = Conns \ {ConnOf(q) : q \in Queries}
      BY <2>3, <2>4 DEF IInv, TypesOK
    <2>6. \A q, r \in Queries : q # r /\ ConnOf(q) = ConnOf(r) => ConnOf(q) = None
      BY <2>1 DEF IInv, ConnsOK, ConnOf
    <2>7. QED
      BY <2>5, <2>6 DEF PoolOK
  <1>2. QED
    BY <1>1, Invariance, PTL

(* A call that asks for different ids gets no row twice: the chunks that    *)
(* find_by_ids_concurrent hands to its tasks do not overlap, whatever the   *)
(* number of ids and of workers.                                            *)
THEOREM AnswersOnce == Spec => []AnswerOnce
  <1>1. IInv => AnswerOnce
    <2> SUFFICES ASSUME IInv, NEW c \in Reads, IsInjective(call[c].ids),
                        NEW j \in DOMAIN call[c].found, NEW k \in DOMAIN call[c].found,
                        j # k,
                        NEW a \in call[c].found[j], NEW b \in call[c].found[k]
                 PROVE  a[1] # b[1]
      BY DEF AnswerOnce
    <2> DEFINE r == call[c]
    <2>1. r \in CallState /\ CallOK(r, task[c], seen[c]) /\ FoundOK(r, task[c])
      BY DEF IInv, TypesOK, CallsOK, RowsOK
    <2>2. /\ Len(r.ids) \in Nat /\ DOMAIN r.ids = 1..Len(r.ids)
          /\ DOMAIN r.found \subseteq Nat \ {0}
      BY <2>1 DEF CallState
    <2>3. r.found # <<>>
      OBVIOUS
    <2>4. r.size \in Nat \ {0}
      BY <2>1, <2>3 DEF CallOK
    <2>5. ChunkOf(r, j) \cap ChunkOf(r, k) = {}
      BY <2>2, <2>4, ChunksApart DEF ChunkOf
    <2>6. PICK p \in ChunkOf(r, j) : a[1] = r.ids[p]
      BY <2>1 DEF FoundOK, FromChunk
    <2>7. PICK q \in ChunkOf(r, k) : b[1] = r.ids[q]
      BY <2>1 DEF FoundOK, FromChunk
    <2>8. p \in DOMAIN r.ids /\ q \in DOMAIN r.ids
      BY <2>2, ChunkIn DEF ChunkOf
    <2>9. p # q
      BY <2>5
    <2>10. QED
      BY <2>6, <2>7, <2>8, <2>9 DEF IsInjective
  <1>2. QED
    BY <1>1, Invariance, PTL

-----------------------------------------------------------------------------
(* The refinement.  A query of a call that waits is a LookUp of its chunk,  *)
(* the last handle is the Answer; the other steps of the queries stutter.   *)

StatusMap == [c \in Reads |-> StatusOf(call[c].pc)]
IdsMap == [c \in Reads |-> call[c].ids]
AnswerMap == [c \in Reads |-> AnswerOf(c)]

Answers(r) == IF r.pc \in {"ok", "not_found"} THEN UNION Range(r.found) ELSE {}

LEMMA AnswerIs == \A c \in Reads : AnswerOf(c) = Answers(call[c])
  BY DEF AnswerOf, Answers

LEMMA MapsKept ==
    ASSUME UNCHANGED call
    PROVE  UNCHANGED <<StatusMap, IdsMap, AnswerMap>>
  BY DEF StatusMap, IdsMap, AnswerMap, AnswerOf

\* One call changes.
LEMMA MapsMoved ==
    ASSUME TypesOK, NEW c \in Reads, NEW r, call' = [call EXCEPT ![c] = r]
    PROVE  /\ StatusMap' = [StatusMap EXCEPT ![c] = StatusOf(r.pc)]
           /\ IdsMap' = [IdsMap EXCEPT ![c] = r.ids]
           /\ AnswerMap' = [AnswerMap EXCEPT ![c] = Answers(r)]
  <1>1. call'[c] = r /\ \A d \in Reads : d # c => call'[d] = call[d]
    BY DEF TypesOK
  <1>2. /\ StatusMap' = [d \in Reads |-> StatusOf(call'[d].pc)]
        /\ IdsMap' = [d \in Reads |-> call'[d].ids]
    BY DEF StatusMap, IdsMap
  <1>3. AnswerMap' = [d \in Reads |-> Answers(call'[d])]
    BY DEF AnswerMap, AnswerOf, Answers
  <1>4. AnswerMap = [d \in Reads |-> Answers(call[d])]
    BY AnswerIs DEF AnswerMap
  <1>5. StatusMap' = [StatusMap EXCEPT ![c] = StatusOf(r.pc)]
    <2>1. StatusMap = [d \in Reads |-> StatusOf(call[d].pc)]
      BY DEF StatusMap
    <2>2. /\ StatusOf(call'[c].pc) = StatusOf(r.pc)
          /\ \A d \in Reads : d # c => StatusOf(call'[d].pc) = StatusOf(call[d].pc)
      BY <1>1
    <2>3. QED
      BY <1>2, <2>1, <2>2
  <1>6. IdsMap' = [IdsMap EXCEPT ![c] = r.ids]
    <2>1. IdsMap = [d \in Reads |-> call[d].ids]
      BY DEF IdsMap
    <2>2. call'[c].ids = r.ids /\ \A d \in Reads : d # c => call'[d].ids = call[d].ids
      BY <1>1
    <2>3. QED
      BY <1>2, <2>1, <2>2
  <1>7. AnswerMap' = [AnswerMap EXCEPT ![c] = Answers(r)]
    <2>1. /\ Answers(call'[c]) = Answers(r)
          /\ \A d \in Reads : d # c => Answers(call'[d]) = Answers(call[d])
      BY <1>1
    <2>2. QED
      BY <1>3, <1>4, <2>1
  <1>8. QED
    BY <1>5, <1>6, <1>7

\* What does not change in the call does not change in its image.
LEMMA MapsSame ==
    ASSUME NEW c \in Reads
    PROVE  /\ [IdsMap EXCEPT ![c] = call[c].ids] = IdsMap
           /\ [StatusMap EXCEPT ![c] = StatusOf(call[c].pc)] = StatusMap
           /\ [AnswerMap EXCEPT ![c] = Answers(call[c])] = AnswerMap
           /\ StatusMap[c] = StatusOf(call[c].pc) /\ IdsMap[c] = call[c].ids
  <1>1. AnswerMap = [d \in Reads |-> Answers(call[d])]
    BY AnswerIs DEF AnswerMap
  <1>2. [AnswerMap EXCEPT ![c] = Answers(call[c])] = AnswerMap
    BY <1>1
  <1>3. QED
    BY <1>2 DEF IdsMap, StatusMap

LEMMA StatusIs ==
    /\ StatusOf("new") = "new" /\ StatusOf("await") = "reading"
    /\ StatusOf("ok") = "answered" /\ StatusOf("not_found") = "answered"
    /\ StatusOf("failed") = "ended" /\ StatusOf("left") = "ended"
  BY DEF StatusOf

\* When all tasks have their rows, every position has been looked up.
LEMMA AllSeen ==
    ASSUME IInv, NEW c \in Reads, call[c].pc = "await", call[c].next = Len(task[c]),
           Awaited(c).pc = "ok"
    PROVE  /\ DOMAIN seen[c] = DOMAIN call[c].ids
           /\ UNION Range(Append(call[c].found, Awaited(c).rows)) =
                 {<<call[c].ids[p], seen[c][p]>> :
                     p \in {q \in DOMAIN seen[c] : seen[c][q] # None}}
  <1> DEFINE r == call[c]
             T == task[c]
             sn == seen[c]
             rows == Awaited(c).rows
             f == Append(r.found, rows)
  <1>1. /\ r \in CallState /\ CallOK(r, T, sn) /\ FoundOK(r, T)
        /\ \A l \in DOMAIN T : TaskRowsOK(r, T[l], sn, l)
        /\ T \in Seq(TaskState) /\ DOMAIN sn \subseteq DOMAIN r.ids
    BY DEF IInv, TypesOK, CallsOK, RowsOK, Tasks
  <1>2. /\ r.next \in DOMAIN T /\ Len(T) \in Nat \ {0} /\ DOMAIN T = 1..Len(T)
        /\ r.size \in Nat \ {0} /\ Len(T) = DivCeil(Len(r.ids), r.size)
    <2>1. r.next \in DOMAIN T /\ T # <<>>
      BY <1>1 DEF CallOK
    <2>2. QED
      BY <1>1, <2>1 DEF CallOK
  <1>3. /\ r.ids \in Seq(Ids) /\ Len(r.ids) \in Nat /\ DOMAIN r.ids = 1..Len(r.ids)
        /\ r.found \in Seq(SUBSET (Ids \X Contents))
    BY <1>1 DEF CallState
  <1>4. T[Len(T)].pc = "ok" /\ rows = T[Len(T)].rows
    BY DEF Awaited
  <1>5. rows \in SUBSET (Ids \X Contents)
    <2>1. T[Len(T)] \in TaskState
      BY <1>1, <1>2
    <2>2. QED
      BY <1>4, <2>1 DEF TaskState
  <1> HIDE DEF rows
  <1>6. Len(r.found) = Len(T) - 1
    BY <1>1 DEF FoundOK
  <1>7. /\ DOMAIN f = 1..Len(T) /\ f[Len(T)] = rows
        /\ \A j \in DOMAIN r.found : f[j] = r.found[j]
        /\ DOMAIN r.found = 1..(Len(T) - 1)
    BY <1>2, <1>3, <1>5, <1>6
  <1> HIDE DEF f
  <1>8. ASSUME NEW j \in DOMAIN T
        PROVE  T[j].pc = "ok" /\ f[j] = T[j].rows
    <2>1. CASE j = Len(T)
      BY <1>4, <1>7, <2>1
    <2>2. CASE j # Len(T)
      <3>1. j \in DOMAIN r.found
        BY <1>2, <1>7, <2>2
      <3>2. QED
        BY <1>1, <1>7, <3>1 DEF FoundOK
    <2>3. QED
      BY <2>1, <2>2
  <1> HIDE DEF T, sn, r
  <1>9. \A j \in DOMAIN T : ChunkOf(r, j) \subseteq DOMAIN sn /\ f[j] = SeenRows(r, sn, j)
    <2>1. r.pc = "await"
      BY DEF r
    <2>2. QED
      BY <1>1, <1>8, <2>1 DEF TaskRowsOK
  <1>10. \A p \in DOMAIN r.ids : \E j \in DOMAIN T : p \in ChunkOf(r, j)
    BY <1>2, <1>3, ChunksCover DEF ChunkOf
  <1>11. DOMAIN sn = DOMAIN r.ids
    BY <1>1, <1>9, <1>10
  <1>12. UNION Range(f) = UNION {f[j] : j \in DOMAIN T}
    BY <1>2, <1>7 DEF Range
  <1> DEFINE all == {<<r.ids[p], sn[p]>> : p \in {q \in DOMAIN sn : sn[q] # None}}
  <1>13. ASSUME NEW j \in DOMAIN T
         PROVE  f[j] \subseteq all
    BY <1>9 DEF SeenRows
  <1>14. ASSUME NEW p \in DOMAIN sn, sn[p] # None
         PROVE  \E j \in DOMAIN T : <<r.ids[p], sn[p]>> \in f[j]
    <2>1. PICK j \in DOMAIN T : p \in ChunkOf(r, j)
      BY <1>10, <1>11
    <2>2. <<r.ids[p], sn[p]>> \in SeenRows(r, sn, j)
      BY <1>14, <2>1 DEF SeenRows
    <2>3. QED
      BY <1>9, <2>2
  <1>15. UNION {f[j] : j \in DOMAIN T} = all
    <2>1. UNION {f[j] : j \in DOMAIN T} \subseteq all
      BY <1>13
    <2>2. all \subseteq UNION {f[j] : j \in DOMAIN T}
      BY <1>14
    <2>3. QED
      BY <2>1, <2>2
  <1>16. QED
    BY <1>11, <1>12, <1>15 DEF r, T, sn, f, rows

LEMMA CallRefines ==
    ASSUME ReadsAssumption, IInv, NEW c \in Reads, CallStep(c) \/ Leave(c)
    PROVE  [Lookup!Next]_(Lookup!vars)
  <1> DEFINE q == call[c]
  <1>1. q.pc = "await" /\ q \in CallState /\ TypesOK
    BY DEF IInv, TypesOK, CallStep, AwaitNext, AwaitLast, AwaitFailed, Leave
  <1>2. Answers(q) = {}
    BY <1>1 DEF Answers
  <1>3. UNCHANGED table
    BY DEF CallStep, AwaitNext, AwaitLast, AwaitFailed, Leave
  <1>4. CASE AwaitNext(c)
    <2> DEFINE g == [q EXCEPT !.found = Append(q.found, Awaited(c).rows),
                              !.next = q.next + 1]
    <2>1. call' = [call EXCEPT ![c] = g] /\ UNCHANGED seen
      BY <1>4 DEF AwaitNext
    <2>2. g.pc = "await" /\ g.ids = q.ids
      BY <1>1 DEF CallState
    <2> HIDE DEF g
    <2>3. Answers(g) = {}
      BY <2>2 DEF Answers
    <2>4. UNCHANGED <<StatusMap, IdsMap, AnswerMap>>
      <3>1. /\ StatusMap' = [StatusMap EXCEPT ![c] = StatusOf(g.pc)]
            /\ IdsMap' = [IdsMap EXCEPT ![c] = g.ids]
            /\ AnswerMap' = [AnswerMap EXCEPT ![c] = Answers(g)]
        BY <1>1, <2>1, MapsMoved
      <3>2. /\ [IdsMap EXCEPT ![c] = q.ids] = IdsMap
            /\ [AnswerMap EXCEPT ![c] = Answers(q)] = AnswerMap
            /\ [StatusMap EXCEPT ![c] = StatusOf(q.pc)] = StatusMap
        BY MapsSame
      <3>3. QED
        BY <1>1, <1>2, <2>2, <2>3, <3>1, <3>2
    <2>5. QED
      BY <1>3, <2>1, <2>4 DEF Lookup!vars, StatusMap, IdsMap, AnswerMap
  <1>5. CASE AwaitLast(c)
    <2> DEFINE how == IF q.kind = "find_by_id" /\ Awaited(c).rows = {} THEN "not_found"
                      ELSE "ok"
               f == Append(q.found, Awaited(c).rows)
               g == [q EXCEPT !.found = f, !.pc = how]
    <2>1. /\ call' = [call EXCEPT ![c] = g] /\ seen' = [seen EXCEPT ![c] = <<>>]
          /\ Awaited(c).pc = "ok" /\ q.next = Len(task[c])
      BY <1>5 DEF AwaitLast
    <2>2. g.pc = how /\ g.ids = q.ids /\ g.found = f
      BY <1>1 DEF CallState
    <2>3. how \in {"ok", "not_found"}
      OBVIOUS
    <2> HIDE DEF g, how
    <2>4. Answers(g) = UNION Range(f) /\ StatusOf(g.pc) = "answered"
      BY <2>2, <2>3, StatusIs DEF Answers
    <2>5. DOMAIN seen[c] = DOMAIN IdsMap[c] /\ Answers(g) = Lookup!Found(c)
      BY <1>1, <2>1, <2>4, AllSeen, MapsSame DEF Lookup!Found, IdsMap
    <2>6. StatusMap[c] = "reading"
      BY <1>1, MapsSame, StatusIs
    <2>7. /\ StatusMap' = [StatusMap EXCEPT ![c] = "answered"]
          /\ AnswerMap' = [AnswerMap EXCEPT ![c] = Lookup!Found(c)] /\ IdsMap' = IdsMap
      <3>1. /\ StatusMap' = [StatusMap EXCEPT ![c] = StatusOf(g.pc)]
            /\ IdsMap' = [IdsMap EXCEPT ![c] = g.ids]
            /\ AnswerMap' = [AnswerMap EXCEPT ![c] = Answers(g)]
        BY <1>1, <2>1, MapsMoved
      <3>2. [IdsMap EXCEPT ![c] = q.ids] = IdsMap
        BY MapsSame
      <3>3. QED
        BY <2>2, <2>4, <2>5, <3>1, <3>2
    <2>8. Lookup!Answer(c)
      BY <1>3, <2>1, <2>5, <2>6, <2>7 DEF Lookup!Answer, StatusMap, IdsMap, AnswerMap
    <2>9. QED
      BY <2>8 DEF Lookup!Next
  <1>6. CASE AwaitFailed(c) \/ Leave(c)
    <2>1. PICK how \in {"failed", "left"} :
             /\ call' = [call EXCEPT ![c] = Ended(q, how)]
             /\ seen' = [seen EXCEPT ![c] = <<>>]
      BY <1>6 DEF AwaitFailed, Leave, Finish, Ended
    <2>2. Ended(q, how).pc = how /\ Ended(q, how).ids = q.ids
      <3>1. how \in CallPcs
        BY DEF CallPcs
      <3>2. QED
        BY <1>1, <3>1, CallFields
    <2>3. Answers(Ended(q, how)) = {} /\ StatusOf(how) = "ended"
      BY <2>2, StatusIs DEF Answers
    <2>4. /\ StatusMap' = [StatusMap EXCEPT ![c] = "ended"]
          /\ AnswerMap' = AnswerMap /\ IdsMap' = IdsMap
      <3>1. /\ StatusMap' = [StatusMap EXCEPT ![c] = StatusOf(Ended(q, how).pc)]
            /\ IdsMap' = [IdsMap EXCEPT ![c] = Ended(q, how).ids]
            /\ AnswerMap' = [AnswerMap EXCEPT ![c] = Answers(Ended(q, how))]
        BY <1>1, <2>1, MapsMoved
      <3>2. [IdsMap EXCEPT ![c] = q.ids] = IdsMap /\ [AnswerMap EXCEPT ![c] = Answers(q)] = AnswerMap
        BY MapsSame
      <3>3. QED
        BY <1>2, <2>2, <2>3, <3>1, <3>2
    <2>5. StatusMap[c] = "reading"
      BY <1>1, MapsSame, StatusIs
    <2>6. Lookup!End(c)
      BY <1>3, <2>1, <2>4, <2>5 DEF Lookup!End, StatusMap, IdsMap, AnswerMap
    <2>7. QED
      BY <2>6 DEF Lookup!Next
  <1>7. QED
    BY <1>4, <1>5, <1>6 DEF CallStep

LEMMA BeginRefines ==
    ASSUME ReadsAssumption, IInv, NEW c \in Reads, NEW rq \in Requests[c],
           BeginEmpty(c, rq) \/ Begin(c, rq)
    PROVE  Lookup!Next
  <1> DEFINE q == call[c]
  <1>1. /\ q = NoRead /\ q \in CallState /\ q.pc = "new" /\ TypesOK
        /\ UNCHANGED <<table, seen>>
    BY NoReadOK DEF IInv, TypesOK, CallsOK, CallOK, BeginEmpty, Begin
  <1>2. StatusMap[c] = "new" /\ Answers(q) = {} /\ Range(<<>>) = {}
    BY <1>1, MapsSame, StatusIs DEF Answers, Range
  <1>3. /\ [IdsMap EXCEPT ![c] = q.ids] = IdsMap
        /\ [AnswerMap EXCEPT ![c] = Answers(q)] = AnswerMap
    BY MapsSame
  <1>4. rq.kind \in Kinds /\ rq.ids \in Seq(Ids)
    BY DEF ReadsAssumption
  <1>5. CASE BeginEmpty(c, rq)
    <2> DEFINE g == NoIds(q, rq.kind)
    <2>1. call' = [call EXCEPT ![c] = g]
      BY <1>5 DEF BeginEmpty, NoIds
    <2>2. g.pc = "ok" /\ g.found = <<>> /\ g.ids = q.ids
      BY <1>1, <1>4, NoIdsFields, NoReadOK
    <2> HIDE DEF g
    <2>3. Answers(g) = {} /\ StatusOf(g.pc) = "answered"
      BY <1>2, <2>2, StatusIs DEF Answers
    <2>4. /\ StatusMap' = [StatusMap EXCEPT ![c] = StatusOf(g.pc)]
          /\ IdsMap' = [IdsMap EXCEPT ![c] = g.ids]
          /\ AnswerMap' = [AnswerMap EXCEPT ![c] = Answers(g)]
      BY <1>1, <2>1, MapsMoved
    <2>5. /\ StatusMap' = [StatusMap EXCEPT ![c] = "answered"]
          /\ IdsMap' = IdsMap /\ AnswerMap' = AnswerMap
      BY <1>2, <1>3, <2>2, <2>3, <2>4
    <2>6. Lookup!BeginEmpty(c)
      BY <1>1, <1>2, <2>5 DEF Lookup!BeginEmpty, StatusMap, IdsMap, AnswerMap
    <2>7. QED
      BY <2>6 DEF Lookup!Next
  <1>6. CASE Begin(c, rq)
    <2> DEFINE size == ChunkSize(rq.kind, Len(rq.ids))
               g == Started(NoRead, rq.kind, rq.ids, size)
    <2>1. call' = [call EXCEPT ![c] = g] /\ rq.ids # <<>>
      BY <1>6 DEF Begin, Started
    <2>2. size \in Nat
      <3>1. Len(rq.ids) \in Nat /\ Workers \in Nat \ {0}
        BY <1>4 DEF ReadsAssumption
      <3>2. QED
        BY <3>1, DivCeilIs DEF ChunkSize
    <2> HIDE DEF size
    <2>3. g.pc = "await" /\ g.ids = rq.ids
      BY <1>4, <2>2, NoReadOK, StartFields
    <2> HIDE DEF g
    <2>4. Answers(g) = {} /\ StatusOf(g.pc) = "reading"
      BY <2>3, StatusIs DEF Answers
    <2>5. /\ StatusMap' = [StatusMap EXCEPT ![c] = StatusOf(g.pc)]
          /\ IdsMap' = [IdsMap EXCEPT ![c] = g.ids]
          /\ AnswerMap' = [AnswerMap EXCEPT ![c] = Answers(g)]
      BY <1>1, <2>1, MapsMoved
    <2>6. /\ StatusMap' = [StatusMap EXCEPT ![c] = "reading"]
          /\ IdsMap' = [IdsMap EXCEPT ![c] = rq.ids] /\ AnswerMap' = AnswerMap
      BY <1>2, <1>3, <2>3, <2>4, <2>5
    <2>7. rq.ids \in {r.ids : r \in UNION Range(Requests)}
      <3>1. Requests[c] \in Range(Requests)
        BY DEF ReadsAssumption, Range
      <3>2. QED
        BY <3>1
    <2>8. Lookup!Begin(c)
      BY <1>1, <1>2, <2>6, <2>7 DEF Lookup!Begin, StatusMap, IdsMap, AnswerMap
    <2>9. QED
      BY <2>8 DEF Lookup!Next
  <1>7. QED
    BY <1>5, <1>6

LEMMA QueryRefines ==
    ASSUME ReadsAssumption, IInv, NEW c \in Reads, NEW k \in DOMAIN task[c],
           Progress(c, k) \/ Failure(c, k)
    PROVE  [Lookup!Next]_(Lookup!vars)
  <1>1. UNCHANGED <<table, call>>
    BY DEF Progress, Failure, Acquire, Query, Convert, AcquireFail, QueryFail, ConvertFail
  <1>2. UNCHANGED <<StatusMap, IdsMap, AnswerMap>>
    BY <1>1, MapsKept
  <1>3. CASE UNCHANGED seen
    BY <1>1, <1>2, <1>3 DEF Lookup!vars, StatusMap, IdsMap, AnswerMap
  <1>4. CASE Query(c, k)
    <2> DEFINE P == ChunkOf(call[c], k)
    <2>1. TypesOK /\ call[c].pc = "await" => P \cap DOMAIN seen[c] = {}
      BY <1>4, QueryRows DEF IInv
    <2>2. call[c].pc # "await" => seen[c] = <<>>
      BY DEF IInv, CallsOK, CallOK
    <2>3. seen' = [seen EXCEPT ![c] =
                     IF call[c].pc # "await" THEN <<>>
                     ELSE [p \in P \cup DOMAIN seen[c] |->
                             IF p \in P THEN table[call[c].ids[p]] ELSE seen[c][p]]]
      BY <1>4 DEF Query, ChunkOf
    <2>4. CASE call[c].pc # "await"
      <3>1. seen = [d \in Reads |-> seen[d]]
        BY DEF IInv, TypesOK
      <3>2. seen' = [seen EXCEPT ![c] = seen[c]]
        BY <2>2, <2>3, <2>4
      <3>3. seen' = seen
        BY <3>1, <3>2
      <3>4. QED
        BY <1>3, <3>3
    <2>5. CASE call[c].pc = "await"
      <3>1. StatusMap[c] = "reading" /\ IdsMap[c] = call[c].ids
        BY <2>5, MapsSame, StatusIs
      <3>2. P \subseteq DOMAIN call[c].ids
        <4>1. call[c].ids \in Seq(Ids)
          BY DEF IInv, TypesOK, CallState
        <4>2. Len(call[c].ids) \in Nat /\ DOMAIN call[c].ids = 1..Len(call[c].ids)
          BY <4>1
        <4>3. QED
          BY <4>2, ChunkIn DEF ChunkOf
      <3> HIDE DEF P
      <3>3. P \cap DOMAIN seen[c] = {}
        BY <2>1, <2>5 DEF IInv
      <3>4. seen' = [seen EXCEPT ![c] =
                       [p \in P \cup DOMAIN seen[c] |->
                          IF p \in P THEN table[IdsMap[c][p]] ELSE seen[c][p]]]
        BY <2>3, <2>5, <3>1
      <3>5. Lookup!LookUp(c, P)
        BY <1>1, <1>2, <3>1, <3>3, <3>4 DEF Lookup!LookUp, StatusMap, IdsMap, AnswerMap
      <3>6. P \in SUBSET DOMAIN IdsMap[c]
        BY <3>1, <3>2
      <3>7. QED
        BY <3>5, <3>6 DEF Lookup!Next, IdsMap
    <2>6. QED
      BY <2>4, <2>5
  <1>5. QED
    BY <1>3, <1>4
       DEF Progress, Failure, Acquire, Convert, AcquireFail, QueryFail, ConvertFail

LEMMA NextRefines == ReadsAssumption /\ IInv /\ [Next]_vars => [Lookup!Next]_(Lookup!vars)
  <1> SUFFICES ASSUME ReadsAssumption, IInv, [Next]_vars
               PROVE  [Lookup!Next]_(Lookup!vars)
    OBVIOUS
  <1>1. ASSUME NEW c \in Reads, NEW r \in Requests[c], BeginEmpty(c, r) \/ Begin(c, r)
        PROVE  [Lookup!Next]_(Lookup!vars)
    BY <1>1, BeginRefines
  <1>2. ASSUME NEW c \in Reads, CallStep(c) \/ Leave(c)
        PROVE  [Lookup!Next]_(Lookup!vars)
    BY <1>2, CallRefines
  <1>3. ASSUME NEW c \in Reads, NEW k \in DOMAIN task[c], Progress(c, k) \/ Failure(c, k)
        PROVE  [Lookup!Next]_(Lookup!vars)
    BY <1>3, QueryRefines
  <1>4. ASSUME NEW i \in Ids, NEW v \in Contents \cup {None}, Write(i, v)
        PROVE  [Lookup!Next]_(Lookup!vars)
    <2>1. /\ table' = [table EXCEPT ![i] = v]
          /\ UNCHANGED seen /\ UNCHANGED <<StatusMap, IdsMap, AnswerMap>>
      BY <1>4, MapsKept DEF Write
    <2>2. Lookup!Write(i, v)
      BY <2>1 DEF Lookup!Write, StatusMap, IdsMap, AnswerMap
    <2>3. QED
      BY <2>2 DEF Lookup!Next
  <1>5. CASE UNCHANGED vars
    <2>1. UNCHANGED <<StatusMap, IdsMap, AnswerMap>> /\ UNCHANGED table /\ UNCHANGED seen
      BY <1>5, MapsKept DEF vars
    <2>2. QED
      BY <2>1 DEF Lookup!vars, StatusMap, IdsMap, AnswerMap
  <1>6. QED
    BY <1>1, <1>2, <1>3, <1>4, <1>5 DEF Next

(* The three functions that read by primary key keep the promise of         *)
(* RowReads: a call that answers has looked up every id once, between its   *)
(* begin and its end, and returns what was there, however its chunks run.   *)
THEOREM Refinement == Spec => ImplementsRowReads
  <1>1. Init => Lookup!Init
    <2> SUFFICES ASSUME Init PROVE Lookup!Init
      OBVIOUS
    <2>1. \A c \in Reads : call[c] = NoRead
      BY DEF Init
    <2>2. /\ StatusMap = [c \in Reads |-> "new"] /\ IdsMap = [c \in Reads |-> <<>>]
          /\ AnswerMap = [c \in Reads |-> {}]
      <3>1. \A c \in Reads : StatusOf(call[c].pc) = "new" /\ call[c].ids = <<>>
        BY <2>1, NoReadOK, StatusIs
      <3>2. \A c \in Reads : AnswerOf(c) = {}
        BY <2>1, NoReadOK DEF AnswerOf
      <3>3. QED
        BY <3>1, <3>2 DEF StatusMap, IdsMap, AnswerMap
    <2>3. table \in [Ids -> Contents \cup {None}] /\ seen = [c \in Reads |-> <<>>]
      BY DEF Init
    <2>4. QED
      BY <2>2, <2>3 DEF Lookup!Init, StatusMap, IdsMap, AnswerMap
  <1>2. IInv /\ [Next]_vars => [Lookup!Next]_(Lookup!vars)
    BY NextRefines, ReadsAssumption
  <1>3. QED
    BY <1>1, <1>2, Invariance, PTL DEF Spec, ImplementsRowReads, Lookup!Spec
=============================================================================
