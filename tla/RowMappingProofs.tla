-------------------------- MODULE RowMappingProofs ---------------------------
(****************************************************************************)
(* Theorems about RowMapping: any number of calls and ids, batches of any   *)
(* length in the lemmas, every type of field and every shape of entity.     *)
(****************************************************************************)
EXTENDS RowMapping, TLAPS

-----------------------------------------------------------------------------
(* Values *)

\* What a SELECT reads of the field x of an entity that was saved.
Stored(x) == Column(type, convert_json_value(Serialize(x)))

\* Values that a statement can carry: no infinite float.
Finite == Samples(type) \ {"huge"}

\* find_by_id gives a stored value back unless it is one of those that change.
LEMMA StoredReadBack ==
    ASSUME type \in AllTypes, NEW x \in Finite
    PROVE  LET j == convert_mysql_value(Stored(x))
           IN  (Accepted(j) /\ j.v = x) <=> Portable(x)
  <1> USE DEF Stored, Finite, Samples, Column, convert_json_value, Serialize,
              convert_mysql_value, Accepted, Portable, AsF32, Typed, NULL, NullJson
  <1>1. CASE type = "i64"
    BY <1>1
  <1>2. CASE type = "u64"
    BY <1>2
  <1>3. CASE type = "f64"
    BY <1>3
  <1>4. CASE type = "bool"
    BY <1>4
  <1>5. CASE type = "Option"
    BY <1>5
  <1>6. CASE type = "String"
    BY <1>6
  <1>7. CASE type = "DateTime"
    BY <1>7
  <1>8. CASE type = "Vec"
    BY <1>8
  <1>9. QED
    BY <1>1, <1>2, <1>3, <1>4, <1>5, <1>6, <1>7, <1>8 DEF AllTypes

\* The column of x has one of the types a SELECT gives.
LEMMA StoredOK ==
    ASSUME type \in AllTypes, NEW x \in Finite
    PROVE  Stored(x).t \in {"NULL", "Int", "UInt", "Double", "Date", "Bytes"}
  <1> USE DEF Stored, Finite, Samples, Column, convert_json_value, Serialize,
              AsF32, Typed, NULL, NullJson
  <1>1. CASE type = "i64"
    BY <1>1
  <1>2. CASE type = "u64"
    BY <1>2
  <1>3. CASE type = "f64"
    BY <1>3
  <1>4. CASE type = "bool"
    BY <1>4
  <1>5. CASE type = "Option"
    BY <1>5
  <1>6. CASE type = "String"
    BY <1>6
  <1>7. CASE type = "DateTime"
    BY <1>7
  <1>8. CASE type = "Vec"
    BY <1>8
  <1>9. QED
    BY <1>1, <1>2, <1>3, <1>4, <1>5, <1>6, <1>7, <1>8 DEF AllTypes

\* What a statement can carry of x, and what the journal makes of it.
LEMMA ParamOK ==
    ASSUME type \in AllTypes, NEW x \in Samples(type)
    PROVE  LET p == convert_json_value(Serialize(x))
           IN  /\ FromSerde(ToSerde(p)) = p
               /\ (p.t = "Float" => p.v # "inf") => x \in Finite
  <1> USE DEF Finite, Samples, convert_json_value, Serialize, ToSerde, FromSerde,
              AsF32, Typed, NULL, NullJson
  <1>1. CASE type = "i64"
    BY <1>1
  <1>2. CASE type = "u64"
    BY <1>2
  <1>3. CASE type = "f64"
    BY <1>3
  <1>4. CASE type = "bool"
    BY <1>4
  <1>5. CASE type = "Option"
    BY <1>5
  <1>6. CASE type = "String"
    BY <1>6
  <1>7. CASE type = "DateTime"
    BY <1>7
  <1>8. CASE type = "Vec"
    BY <1>8
  <1>9. QED
    BY <1>1, <1>2, <1>3, <1>4, <1>5, <1>6, <1>7, <1>8 DEF AllTypes

\* The journal gives every parameter of a statement back as it was.
LEMMA ValueKept ==
    ASSUME type \in AllTypes, NEW e, e.x \in Samples(type),
           NEW c \in {"base", "created_at", "id", "x"}
    PROVE  FromSerde(ToSerde(ValueOf(e, c))) = ValueOf(e, c)
  <1>1. CASE c = "x"
    BY <1>1, ParamOK DEF ValueOf
  <1>2. CASE c # "x"
    BY <1>2 DEF ValueOf, ToSerde, FromSerde, Typed
  <1>3. QED
    BY <1>1, <1>2

-----------------------------------------------------------------------------
(* Statements *)

\* The entities an application may save, at any time.
Contents == [id : Ids \cup {0}, created_at : Nat, x : Samples(type)]
Carried == {e \in Contents : e.x \in Finite}

\* An upsert that MySQL accepts has columns for created_at and x.
LEMMA UpsertAccepted ==
    ASSUME type \in AllTypes, shape \in AllShapes,
           NEW es \in Seq(Contents), es # <<>>, Accepts(Upsert(es))
    PROVE  /\ Columns(Head(es)) \subseteq {"created_at", "id", "x"}
           /\ {"created_at", "x"} \subseteq Columns(Head(es))
           /\ "id" \in Columns(Head(es)) <=> es[1].id # 0
           /\ SetClause(Columns(Head(es))) = {"x"}
           /\ es \in Seq(Carried)
  <1> DEFINE cols == Columns(Head(es))
             vs == [n \in DOMAIN es |-> RowValues(es[n], cols)]
  <1>1. DOMAIN es = 1..Len(es) /\ Len(es) \in Nat \ {0} /\ 1 \in DOMAIN es
        /\ Head(es) = es[1] /\ \A n \in DOMAIN es : es[n] \in Contents
    OBVIOUS
  <1>2. Upsert(es).values = vs
    BY DEF Upsert
  <1>3. \A n \in DOMAIN es : DOMAIN vs[n] = cols /\ \A c \in cols : vs[n][c] = ValueOf(es[n], c)
    BY DEF RowValues
  <1> HIDE DEF cols, vs
  <1>4. /\ cols \subseteq TableColumns
        /\ \A n \in DOMAIN es : "x" \in cols =>
              LET p == ValueOf(es[n], "x") IN p.t = "Float" => p.v # "inf"
    <2>1. DOMAIN vs = DOMAIN es
      BY DEF vs
    <2>2. \A n \in DOMAIN es : DOMAIN vs[n] \subseteq TableColumns /\
             \A c \in DOMAIN vs[n] : vs[n][c].t = "Float" => vs[n][c].v # "inf"
      BY <1>2, <2>1 DEF Accepts
    <2>3. QED
      BY <1>1, <1>3, <2>2
  <1>5. cols = Fields \ (IF es[1].id = 0 THEN {"id"} ELSE {})
    BY <1>1 DEF cols, Columns
  <1>6. shape # "base" /\ Fields = {"created_at", "id", "x"}
    BY <1>4, <1>5 DEF Fields, TableColumns
  <1>7. /\ cols \subseteq {"created_at", "id", "x"}
        /\ {"created_at", "x"} \subseteq cols
        /\ "id" \in cols <=> es[1].id # 0
    BY <1>5, <1>6
  <1>8. SetClause(cols) = {"x"}
    BY <1>7 DEF SetClause
  <1>9. es \in Seq(Carried)
    <2>1. ASSUME NEW n \in DOMAIN es PROVE es[n] \in Carried
      <3>1. LET p == convert_json_value(Serialize(es[n].x))
            IN  p.t = "Float" => p.v # "inf"
        BY <1>4, <1>7 DEF ValueOf
      <3>2. es[n].x \in Samples(type)
        BY <1>1 DEF Contents
      <3>3. es[n].x \in Finite
        BY <3>1, <3>2, ParamOK
      <3>4. QED
        BY <1>1, <3>3 DEF Carried
    <2>2. QED
      BY <1>1, <2>1
  <1>10. QED
    BY <1>7, <1>8, <1>9 DEF cols

\* An update that MySQL accepts sets x.
LEMMA UpdateAccepted ==
    ASSUME type \in AllTypes, shape \in AllShapes,
           NEW e \in Contents, Accepts(Update(e))
    PROVE  Fields \ {"id", "created_at"} = {"x"} /\ e \in Carried
  <1> DEFINE cols == Fields \ {"id", "created_at"}
             row == RowValues(e, cols)
  <1>1. Update(e).values = <<row>>
    BY DEF Update
  <1>2. DOMAIN row = cols /\ \A c \in cols : row[c] = ValueOf(e, c)
    BY DEF RowValues
  <1> HIDE DEF row
  <1>3. cols \subseteq TableColumns
        /\ \A c \in cols : row[c].t = "Float" => row[c].v # "inf"
    <2>1. 1 \in DOMAIN <<row>> /\ <<row>>[1] = row
      OBVIOUS
    <2>2. QED
      BY <1>1, <1>2, <2>1 DEF Accepts
  <1>4. cols = {"x"}
    BY <1>3 DEF Fields, TableColumns
  <1>5. LET p == convert_json_value(Serialize(e.x)) IN p.t = "Float" => p.v # "inf"
    BY <1>2, <1>3, <1>4 DEF ValueOf
  <1>6. e.x \in Samples(type)
    BY DEF Contents
  <1>7. e \in Carried
    BY <1>5, <1>6, ParamOK DEF Carried
  <1>8. QED
    BY <1>4, <1>7

\* n rows of parameters that the journal gives back.
KeptRows(vs, n) ==
    /\ vs = [k \in 1..n |-> vs[k]]
    /\ \A k \in 1..n : /\ vs[k] = [c \in DOMAIN vs[k] |-> vs[k][c]]
                       /\ \A c \in DOMAIN vs[k] : FromSerde(ToSerde(vs[k][c])) = vs[k][c]

\* Reading what was recorded gives the statement.
LEMMA RecordKept ==
    ASSUME NEW verb, NEW set, NEW pk, NEW n \in Nat, NEW vs, KeptRows(vs, n)
    PROVE  LET st == [verb |-> verb, set |-> set, pk |-> pk, values |-> vs]
           IN  ReadAgain(Recorded(st)) = st
  <1> DEFINE st == [verb |-> verb, set |-> set, pk |-> pk, values |-> vs]
             us == [k \in DOMAIN vs |-> [c \in DOMAIN vs[k] |-> ToSerde(vs[k][c])]]
             ws == [k \in DOMAIN us |-> [c \in DOMAIN us[k] |-> FromSerde(us[k][c])]]
  <1>1. Recorded(st) = [verb |-> verb, set |-> set, pk |-> pk, values |-> us]
    <2>1. st.values = vs
      OBVIOUS
    <2>2. Recorded(st) = [st EXCEPT !.values = us]
      <3> HIDE DEF st
      <3> QED BY <2>1 DEF Recorded
    <2> HIDE DEF us
    <2> QED BY <2>2
  <1>2. DOMAIN vs = 1..n
    BY DEF KeptRows
  <1>3. ws = vs
    <2>1. DOMAIN us = 1..n /\ \A k \in 1..n : us[k] = [c \in DOMAIN vs[k] |-> ToSerde(vs[k][c])]
      BY <1>2
    <2> HIDE DEF us
    <2>2. \A k \in 1..n : /\ DOMAIN us[k] = DOMAIN vs[k]
                          /\ \A c \in DOMAIN vs[k] : us[k][c] = ToSerde(vs[k][c])
      BY <2>1
    <2>3. \A k \in 1..n : [c \in DOMAIN us[k] |-> FromSerde(us[k][c])] = vs[k]
      <3>1. SUFFICES ASSUME NEW k \in 1..n
                     PROVE  [c \in DOMAIN us[k] |-> FromSerde(us[k][c])] = vs[k]
        OBVIOUS
      <3>2. [c \in DOMAIN us[k] |-> FromSerde(us[k][c])]
               = [c \in DOMAIN vs[k] |-> vs[k][c]]
        BY <2>2 DEF KeptRows
      <3>3. QED
        BY <3>2 DEF KeptRows
    <2>4. ws = [k \in 1..n |-> vs[k]]
      BY <2>1, <2>3
    <2>5. QED
      BY <2>4 DEF KeptRows
  <1>4. ReadAgain([verb |-> verb, set |-> set, pk |-> pk, values |-> us])
           = [verb |-> verb, set |-> set, pk |-> pk, values |-> ws]
    <2> DEFINE r == [verb |-> verb, set |-> set, pk |-> pk, values |-> us]
    <2> HIDE DEF us
    <2>1. r.values = us
      OBVIOUS
    <2>2. ReadAgain(r) = [r EXCEPT !.values = ws]
      <3> HIDE DEF r
      <3> QED BY <2>1 DEF ReadAgain
    <2> HIDE DEF ws
    <2> QED BY <2>2
  <1>5. QED
    BY <1>1, <1>3, <1>4

LEMMA StatementKept ==
    ASSUME NEW st, NEW n \in Nat, KeptRows(st.values, n),
           st = [verb |-> st.verb, set |-> st.set, pk |-> st.pk, values |-> st.values]
    PROVE  ReadAgain(Recorded(st)) = st
  <1> DEFINE verb == st.verb
             set == st.set
             pk == st.pk
             vs == st.values
  <1>1. st = [verb |-> verb, set |-> set, pk |-> pk, values |-> vs] /\ KeptRows(vs, n)
    OBVIOUS
  <1> HIDE DEF verb, set, pk, vs
  <1>2. QED
    BY <1>1, RecordKept

-----------------------------------------------------------------------------
(* A row of a statement on the table *)

State(st, rs, n, ids) == [st |-> st, of |-> type, rows |-> rs, next |-> n, ids |-> ids]

\* The id of a row is a number below the AUTO_INCREMENT counter.
Table(rs, n) ==
    /\ n \in Nat \ {0}
    /\ \A i \in DOMAIN rs : i \in Nat \ {0} /\ i < n

\* The row that MySQL reads of a content saved under i.
IsRow(row, c, i) ==
    /\ c = [id |-> i, created_at |-> c.created_at, x |-> c.x]
    /\ c.created_at \in Nat /\ c.x \in Finite
    /\ row.created_at = Typed("Int", c.created_at) /\ row.x = Stored(c.x)

\* The table holds what was saved.
Match(rs, w) == DOMAIN w = DOMAIN rs /\ \A i \in DOMAIN rs : IsRow(rs[i], w[i], i)

\* No created_at of rs differs in r2.
Kept(rs, r2) ==
    \A i \in DOMAIN rs : i \in DOMAIN r2 /\ r2[i].created_at = rs[i].created_at

\* r2 is rs with the entity e under i.
Put(rs, r2, i, e) ==
    /\ DOMAIN r2 = DOMAIN rs \cup {i}
    /\ \A j \in DOMAIN rs : j # i => r2[j] = rs[j]
    /\ r2[i].x = Stored(e.x)
    /\ r2[i].created_at = IF i \in DOMAIN rs THEN rs[i].created_at
                          ELSE Typed("Int", e.created_at)

LEMMA PutMatches ==
    ASSUME NEW rs, NEW w, Match(rs, w), NEW r2, NEW i, NEW e \in Carried, Put(rs, r2, i, e)
    PROVE  Match(r2, Written(w, [id |-> i, e |-> e])) /\ Kept(rs, r2)
  <1> DEFINE v == Written(w, [id |-> i, e |-> e])
  <1>1. e.x \in Finite /\ e.created_at \in Nat
    BY DEF Carried, Contents
  <1>2. /\ DOMAIN v = DOMAIN w \cup {i}
        /\ \A j \in DOMAIN w : j # i => v[j] = w[j]
        /\ v[i] = [id |-> i, x |-> e.x,
                   created_at |-> IF i \in DOMAIN w THEN w[i].created_at ELSE e.created_at]
    BY DEF Written
  <1> HIDE DEF v
  <1>3. DOMAIN v = DOMAIN r2
    BY <1>2 DEF Match, Put
  <1>4. ASSUME NEW j \in DOMAIN r2, j # i PROVE IsRow(r2[j], v[j], j)
    BY <1>2, <1>4 DEF Match, Put
  <1>5. IsRow(r2[i], v[i], i)
    <2>1. v[i].x = e.x /\ r2[i].x = Stored(v[i].x)
      BY <1>2 DEF Put
    <2>2. /\ v[i].created_at \in Nat
          /\ r2[i].created_at = Typed("Int", v[i].created_at)
      <3>1. CASE i \in DOMAIN rs
        BY <3>1, <1>2 DEF Match, IsRow, Put
      <3>2. CASE i \notin DOMAIN rs
        BY <3>2, <1>1, <1>2 DEF Match, Put
      <3>3. QED
        BY <3>1, <3>2
    <2>3. v[i] = [id |-> i, created_at |-> v[i].created_at, x |-> v[i].x]
      BY <1>2
    <2>4. QED
      BY <1>1, <2>1, <2>2, <2>3 DEF IsRow
  <1>6. Kept(rs, r2)
    BY DEF Put, Kept
  <1>7. QED
    BY <1>3, <1>4, <1>5, <1>6 DEF Match, v

\* A row puts the entity e in the table, under i.
RowStep(st, rs, n, ids, row, i, e) ==
    \E r2, m : /\ ExecRow(State(st, rs, n, ids), row) = State(st, r2, m, Append(ids, i))
               /\ Put(rs, r2, i, e) /\ Table(r2, m)

\* A row of an upsert, and a row that an update finds, are put in the table.
LEMMA RowPut ==
    ASSUME NEW st, st.set = {"x"}, NEW rs, NEW n, Table(rs, n), NEW ids, NEW e, NEW row,
           NEW i, i \in Nat \ {0}, i = RowId(State(st, rs, n, ids), row),
           Param(row, "x") = ValueOf(e, "x"),
           i \notin DOMAIN rs =>
              Param(row, "created_at") = ValueOf(e, "created_at") /\ st.verb # "update"
    PROVE  RowStep(st, rs, n, ids, row, i, e)
  <1> DEFINE s == State(st, rs, n, ids)
             new == [created_at |-> Param(row, "created_at"),
                     x |-> Column(type, Param(row, "x"))]
             updated == [c \in {"created_at", "x"} |->
                           IF c \in st.set THEN new[c] ELSE rs[i][c]]
             r2 == [j \in DOMAIN rs \cup {i} |->
                      IF j # i THEN rs[j] ELSE IF i \in DOMAIN rs THEN updated ELSE new]
             m == IF i >= n /\ i \notin DOMAIN rs THEN i + 1 ELSE n
  <1>1. /\ s.st = st /\ s.of = type /\ s.rows = rs /\ s.next = n /\ s.ids = ids
        /\ s = [st |-> st, of |-> type, rows |-> rs, next |-> n, ids |-> ids]
    BY DEF State
  <1>2. new.x = Stored(e.x)
    BY DEF ValueOf, Stored
  <1>3. updated.x = Stored(e.x) /\ updated.created_at = rs[i].created_at
    <2>1. updated["x"] = new["x"] /\ updated["created_at"] = rs[i]["created_at"]
      OBVIOUS
    <2>2. QED
      BY <1>2, <2>1
  <1>4. i \notin DOMAIN rs => new.created_at = Typed("Int", e.created_at)
    BY DEF ValueOf
  <1> HIDE DEF new, updated
  <1>5. Put(rs, r2, i, e)
    BY <1>2, <1>3, <1>4 DEF Put
  <1>6. Table(r2, m)
    BY DEF Table
  <1>7. ExecRow(s, row) = PutRow(s, row, i)
    <2>1. ~(st.verb = "update" /\ i \notin DOMAIN rs) /\ RowId(s, row) = i
      OBVIOUS
    <2> HIDE DEF s
    <2>2. QED
      BY <1>1, <2>1 DEF ExecRow
  <1>8. PutRow(s, row, i) = [s EXCEPT !.rows = r2, !.next = m, !.ids = Append(ids, i)]
    <2> DEFINE sNew == [created_at |-> Param(row, "created_at"),
                        x |-> Column(s.of, Param(row, "x"))]
               sUpdated == [c \in {"created_at", "x"} |->
                              IF c \in s.st.set THEN sNew[c] ELSE s.rows[i][c]]
               sRows == [j \in DOMAIN s.rows \cup {i} |->
                           IF j # i THEN s.rows[j]
                           ELSE IF i \in DOMAIN s.rows THEN sUpdated ELSE sNew]
               sNext == IF i >= s.next /\ i \notin DOMAIN s.rows THEN i + 1 ELSE s.next
               sIds == Append(s.ids, i)
    <2> HIDE DEF s
    <2>1. PutRow(s, row, i) = [s EXCEPT !.rows = sRows, !.next = sNext, !.ids = sIds]
      BY DEF PutRow
    <2>2. sNew = new
      BY <1>1 DEF new
    <2>3. sUpdated = updated
      <3> HIDE DEF sNew
      <3>1. QED
        BY <1>1, <2>2 DEF updated
    <2>4. sRows = r2
      <3> HIDE DEF sNew, sUpdated
      <3>1. QED
        BY <1>1, <2>2, <2>3
    <2>5. sNext = m /\ sIds = Append(ids, i)
      BY <1>1
    <2> HIDE DEF sRows, sNext, sIds, r2, m
    <2>6. QED
      BY <2>1, <2>4, <2>5
  <1>9. [s EXCEPT !.rows = r2, !.next = m, !.ids = Append(ids, i)]
           = State(st, r2, m, Append(ids, i))
    <2> DEFINE ids2 == Append(ids, i)
               s1 == State(st, r2, n, ids)
               s2 == State(st, r2, m, ids)
    <2> HIDE DEF r2, m, ids2
    <2>1. [s EXCEPT !.rows = r2] = s1
      BY DEF State
    <2>2. [s1 EXCEPT !.next = m] = s2
      BY DEF State
    <2>3. [s2 EXCEPT !.ids = ids2] = State(st, r2, m, ids2)
      BY DEF State
    <2> HIDE DEF s1, s2
    <2>4. QED
      BY <2>1, <2>2, <2>3 DEF ids2
  <1> HIDE DEF r2, m
  <1>10. QED
    BY <1>5, <1>6, <1>7, <1>8, <1>9 DEF s, RowStep

-----------------------------------------------------------------------------
(* The rows of an upsert *)

ExecFold == INSTANCE FoldLaws WITH Op <- ExecRow
WriteFold == INSTANCE FoldLaws WITH Op <- Written

Execs(s, vs) == FoldLeft(ExecRow, s, vs)
Writes(w, us) == FoldLeft(Written, w, us)

LEMMA ExecsLaws ==
    ASSUME NEW s, NEW V, NEW vs \in Seq(V), NEW v \in V
    PROVE  Execs(s, <<>>) = s /\ Execs(s, Append(vs, v)) = ExecRow(Execs(s, vs), v)
  <1>1. \A b, t : Execs(b, t) = ExecFold!Fold(b, t)
    BY DEF Execs, FoldLeft, MapThenFoldSet, Max, ExecFold!Fold, ExecFold!FoldLeft,
           ExecFold!MapThenFoldSet, ExecFold!Max
  <1>2. ExecFold!Fold(s, <<>>) = s
    BY ExecFold!FoldEmpty
  <1>3. ExecFold!Fold(s, Append(vs, v)) = ExecRow(ExecFold!Fold(s, vs), v)
    BY ExecFold!FoldAppend
  <1>4. QED
    BY <1>1, <1>2, <1>3

LEMMA ExecsOne ==
    ASSUME NEW s, NEW v
    PROVE  Execs(s, <<v>>) = ExecRow(s, v)
  <1> DEFINE V == {v}
  <1>1. v \in V /\ <<>> \in Seq(V)
    OBVIOUS
  <1> HIDE DEF V
  <1>2. \A vs \in Seq(V) : /\ Execs(s, <<>>) = s
                           /\ Execs(s, Append(vs, v)) = ExecRow(Execs(s, vs), v)
    BY <1>1, ExecsLaws
  <1>3. Execs(s, <<>>) = s /\ Execs(s, Append(<<>>, v)) = ExecRow(Execs(s, <<>>), v)
    BY <1>1, <1>2
  <1>4. Append(<<>>, v) = <<v>>
    OBVIOUS
  <1>5. QED
    BY <1>3, <1>4

LEMMA WritesLaws ==
    ASSUME NEW w, NEW U, NEW us \in Seq(U), NEW u \in U
    PROVE  Writes(w, <<>>) = w /\ Writes(w, Append(us, u)) = Written(Writes(w, us), u)
  <1>1. \A b, t : Writes(b, t) = WriteFold!Fold(b, t)
    BY DEF Writes, FoldLeft, MapThenFoldSet, Max, WriteFold!Fold, WriteFold!FoldLeft,
           WriteFold!MapThenFoldSet, WriteFold!Max
  <1>2. WriteFold!Fold(w, <<>>) = w
    BY WriteFold!FoldEmpty
  <1>3. WriteFold!Fold(w, Append(us, u)) = Written(WriteFold!Fold(w, us), u)
    BY WriteFold!FoldAppend
  <1>4. QED
    BY <1>1, <1>2, <1>3

LEMMA IsSeq ==
    ASSUME NEW V, NEW n \in Nat, NEW f, f = [k \in 1..n |-> f[k]],
           \A k \in 1..n : f[k] \in V
    PROVE  f \in Seq(V) /\ Len(f) = n /\ DOMAIN f = 1..n
  OBVIOUS

\* g is f with v behind it.
Grown(g, f, v) ==
    /\ g = [k \in 1..(Len(f) + 1) |-> g[k]] /\ g[Len(f) + 1] = v
    /\ \A k \in 1..Len(f) : g[k] = f[k]

LEMMA AppendIs ==
    ASSUME NEW V, NEW f \in Seq(V), NEW v \in V, NEW g, Grown(g, f, v)
    PROVE  g = Append(f, v)
  <1> DEFINE n == Len(f)
             m == n + 1
             h == Append(f, v)
  <1>1. n \in Nat /\ m \in Nat /\ \A k \in 1..m : k = m \/ k \in 1..n
    OBVIOUS
  <1>2. h \in Seq(V) /\ Len(h) = m /\ h[m] = v /\ \A k \in 1..n : h[k] = f[k]
    OBVIOUS
  <1>3. g = [k \in 1..m |-> g[k]] /\ g[m] = v /\ \A k \in 1..n : g[k] = f[k]
    BY DEF Grown
  <1>4. \A k \in 1..n : f[k] \in V
    OBVIOUS
  <1> HIDE DEF h, m, n
  <1>5. \A k \in 1..m : g[k] = h[k] /\ g[k] \in V
    BY <1>1, <1>2, <1>3, <1>4
  <1>6. g \in Seq(V) /\ Len(g) = m
    BY <1>1, <1>3, <1>5, IsSeq
  <1>7. g = h
    BY <1>2, <1>5, <1>6
  <1>8. QED
    BY <1>7 DEF h

\* The rows that a batch binds, and what it saves under the ids it was given.
Rows(es, cols) == [k \in DOMAIN es |-> RowValues(es[k], cols)]
Under(es, ids) == [k \in DOMAIN es |-> [id |-> ids[k], e |-> es[k]]]

RowsGrow(es, e, cols, ids, i) ==
    /\ Rows(es, cols) \in Seq({RowValues(d, cols) : d \in Carried})
    /\ Rows(Append(es, e), cols) = Append(Rows(es, cols), RowValues(e, cols))
    /\ Under(es, ids) \in Seq([id : Nat, e : Carried])
    /\ Under(Append(es, e), Append(ids, i)) = Append(Under(es, ids), [id |-> i, e |-> e])

LEMMA RowsAppend ==
    ASSUME NEW es \in Seq(Carried), NEW e \in Carried, NEW cols,
           NEW ids \in Seq(Nat), Len(ids) = Len(es), NEW i \in Nat
    PROVE  RowsGrow(es, e, cols, ids, i)
  <1> DEFINE n == Len(es)
             fs == Append(es, e)
             js == Append(ids, i)
  <1>1. /\ n \in Nat /\ DOMAIN es = 1..n /\ DOMAIN ids = 1..n
        /\ \A k \in 1..n : es[k] \in Carried /\ ids[k] \in Nat
    OBVIOUS
  <1>2. /\ DOMAIN fs = 1..(n + 1) /\ fs[n + 1] = e /\ \A k \in 1..n : fs[k] = es[k]
        /\ js[n + 1] = i /\ \A k \in 1..n : js[k] = ids[k]
    OBVIOUS
  <1> HIDE DEF fs, js, n
  <1> DEFINE r(d) == RowValues(d, cols)
             u(j, d) == [id |-> j, e |-> d]
  <1>3. Rows(es, cols) = [k \in 1..n |-> r(es[k])]
    BY <1>1 DEF Rows
  <1>4. Rows(fs, cols) = [k \in 1..(n + 1) |-> r(fs[k])]
    BY <1>2 DEF Rows
  <1>5. Under(es, ids) = [k \in 1..n |-> u(ids[k], es[k])]
    BY <1>1 DEF Under
  <1>6. Under(fs, js) = [k \in 1..(n + 1) |-> u(js[k], fs[k])]
    BY <1>2 DEF Under
  <1>7. \A k \in 1..n : u(ids[k], es[k]) \in [id : Nat, e : Carried]
    BY <1>1
  <1>8. \A k \in 1..n : r(es[k]) \in {r(d) : d \in Carried}
    BY <1>1
  <1> HIDE DEF r, u
  <1> DEFINE R == Rows(es, cols)
             U == Under(es, ids)
             V == {r(d) : d \in Carried}
             W == [id : Nat, e : Carried]
  <1>9. R \in Seq(V) /\ Len(R) = n /\ \A k \in 1..n : R[k] = r(es[k])
    <2> HIDE DEF V, R
    <2>1. R = [k \in 1..n |-> r(es[k])]
      BY <1>3 DEF R
    <2>2. \A k \in 1..n : R[k] = r(es[k]) /\ R[k] \in V
      BY <1>8, <2>1 DEF V
    <2>3. R = [k \in 1..n |-> R[k]]
      BY <2>1
    <2>4. QED
      BY <1>1, <2>2, <2>3, IsSeq
  <1>10. U \in Seq(W) /\ Len(U) = n /\ \A k \in 1..n : U[k] = u(ids[k], es[k])
    <2> HIDE DEF W, U
    <2>1. U = [k \in 1..n |-> u(ids[k], es[k])]
      BY <1>5 DEF U
    <2>2. \A k \in 1..n : U[k] = u(ids[k], es[k]) /\ U[k] \in W
      BY <1>7, <2>1 DEF W
    <2>3. U = [k \in 1..n |-> U[k]]
      BY <2>1
    <2>4. QED
      BY <1>1, <2>2, <2>3, IsSeq
  <1>11. Rows(fs, cols) = Append(R, r(e))
    <2>1. r(e) \in V
      OBVIOUS
    <2> DEFINE g == Rows(fs, cols)
    <2> HIDE DEF V, R, g
    <2>2. Grown(g, R, r(e))
      BY <1>1, <1>2, <1>4, <1>9 DEF g, Grown
    <2>3. QED
      BY <1>9, <2>1, <2>2, AppendIs DEF g
  <1>12. Under(fs, js) = Append(U, u(i, e))
    <2>1. u(i, e) \in W
      BY DEF u
    <2> DEFINE g == Under(fs, js)
    <2> HIDE DEF W, U, g
    <2>2. Grown(g, U, u(i, e))
      BY <1>1, <1>2, <1>6, <1>10 DEF g, Grown
    <2>3. QED
      BY <1>10, <2>1, <2>2, AppendIs DEF g
  <1>13. QED
    BY <1>9, <1>10, <1>11, <1>12 DEF fs, js, r, u, RowsGrow

\* An upsert with these columns.
IsUpsert(st, cols) ==
    /\ st.verb = "upsert" /\ st.set = {"x"}
    /\ cols \subseteq {"created_at", "id", "x"} /\ {"created_at", "x"} \subseteq cols

\* The next row of an upsert.
LEMMA UpsertRow ==
    ASSUME NEW st, NEW cols, IsUpsert(st, cols), NEW rs, NEW n, Table(rs, n), NEW ids,
           NEW e \in Carried
    PROVE  \E i \in Nat \ {0} :
              /\ RowStep(st, rs, n, ids, RowValues(e, cols), i, e)
              /\ "id" \in cols /\ e.id # 0 => i = e.id
  <1> DEFINE s == State(st, rs, n, ids)
             row == RowValues(e, cols)
             i == RowId(s, row)
  <1>1. e.id \in Nat /\ n \in Nat \ {0}
    <2>1. e.id \in Ids \cup {0}
      BY DEF Carried, Contents
    <2>2. Ids \subseteq Nat
      BY RowMappingAssumption
    <2>3. e.id \in Nat
      <3>1. \A j : j \in Ids => j \in Nat
        BY <2>2
      <3>2. e.id \in Ids \/ e.id = 0
        BY <2>1
      <3>3. CASE e.id \in Ids
        BY <3>1, <3>3, Zenon
      <3>4. CASE e.id = 0
        BY <3>4
      <3>5. QED
        BY <3>2, <3>3, <3>4
    <2>4. n \in Nat \ {0}
      BY DEF Table
    <2>5. QED
      BY <2>3, <2>4
  <1>2. /\ Param(row, "x") = ValueOf(e, "x")
        /\ Param(row, "created_at") = ValueOf(e, "created_at")
        /\ Param(row, "id") = IF "id" \in cols THEN Typed("Int", e.id) ELSE NULL
    BY DEF RowValues, Param, IsUpsert, ValueOf
  <1>3. s.st.verb # "update" /\ s.next = n
    BY DEF State, IsUpsert
  <1>4. i = IF "id" \in cols /\ e.id # 0 THEN e.id ELSE n
    <2> HIDE DEF s, row
    <2>1. CASE "id" \in cols
      BY <2>1, <1>2, <1>3 DEF RowId, Typed
    <2>2. CASE "id" \notin cols
      BY <2>2, <1>2, <1>3 DEF RowId, NULL, Typed
    <2>3. QED
      BY <2>1, <2>2
  <1>5. i \in Nat \ {0}
    BY <1>1, <1>4
  <1>6. i = RowId(State(st, rs, n, ids), row)
    OBVIOUS
  <1> HIDE DEF i, row
  <1>7. RowStep(st, rs, n, ids, row, i, e)
    BY <1>2, <1>3, <1>5, <1>6, RowPut DEF IsUpsert
  <1>8. QED
    BY <1>4, <1>5, <1>7 DEF row

\* What the rows of es have made of the table rs and of what was saved.
Upserted(st, cols, rs, n, w, es) ==
    \E r2, m, ids :
       /\ Execs(State(st, rs, n, <<>>), Rows(es, cols)) = State(st, r2, m, ids)
       /\ Table(r2, m) /\ Kept(rs, r2)
       /\ Match(r2, Writes(w, Under(es, ids)))
       /\ ids \in Seq(Nat) /\ Len(ids) = Len(es)
       /\ \A k \in 1..Len(es) : "id" \in cols /\ es[k].id # 0 => ids[k] = es[k].id

LEMMA UpsertedNone ==
    ASSUME NEW st, NEW cols, NEW rs, NEW n, Table(rs, n), NEW w, Match(rs, w)
    PROVE  Upserted(st, cols, rs, n, w, <<>>)
  <1>1. /\ <<>> \in Seq({}) /\ <<>> \in Seq(Nat) /\ Len(<<>>) = 0 /\ DOMAIN <<>> = {}
        /\ \A k \in 1..0 : FALSE
    OBVIOUS
  <1>2. Rows(<<>>, cols) = <<>> /\ Under(<<>>, <<>>) = <<>>
    BY DEF Rows, Under
  <1>3. Execs(State(st, rs, n, <<>>), <<>>) = State(st, rs, n, <<>>)
    BY <1>1, ExecFold!FoldEmpty
       DEF Execs, FoldLeft, MapThenFoldSet, Max, ExecFold!Fold, ExecFold!FoldLeft,
           ExecFold!MapThenFoldSet, ExecFold!Max
  <1>4. Writes(w, <<>>) = w
    BY <1>1, WriteFold!FoldEmpty
       DEF Writes, FoldLeft, MapThenFoldSet, Max, WriteFold!Fold, WriteFold!FoldLeft,
           WriteFold!MapThenFoldSet, WriteFold!Max
  <1>5. Kept(rs, rs)
    BY DEF Kept
  <1>6. QED
    BY <1>1, <1>2, <1>3, <1>4, <1>5 DEF Upserted

LEMMA UpsertedOne ==
    ASSUME NEW st, NEW cols, IsUpsert(st, cols), NEW rs, NEW n, NEW w,
           NEW es \in Seq(Carried), Upserted(st, cols, rs, n, w, es), NEW e \in Carried
    PROVE  Upserted(st, cols, rs, n, w, Append(es, e))
  <1> DEFINE fs == Append(es, e)
             s == State(st, rs, n, <<>>)
  <1>1. PICK r2, m, ids :
           /\ Execs(s, Rows(es, cols)) = State(st, r2, m, ids)
           /\ Table(r2, m) /\ Kept(rs, r2)
           /\ Match(r2, Writes(w, Under(es, ids)))
           /\ ids \in Seq(Nat) /\ Len(ids) = Len(es)
           /\ \A k \in 1..Len(es) : "id" \in cols /\ es[k].id # 0 => ids[k] = es[k].id
    BY DEF Upserted
  <1>2. PICK i \in Nat \ {0} :
           /\ RowStep(st, r2, m, ids, RowValues(e, cols), i, e)
           /\ "id" \in cols /\ e.id # 0 => i = e.id
    <2>1. Table(r2, m)
      BY <1>1
    <2>2. QED
      BY <2>1, UpsertRow
  <1>3. PICK r3, m3 :
           /\ ExecRow(State(st, r2, m, ids), RowValues(e, cols))
                 = State(st, r3, m3, Append(ids, i))
           /\ Put(r2, r3, i, e) /\ Table(r3, m3)
    BY <1>2 DEF RowStep
  <1> DEFINE js == Append(ids, i)
             u == [id |-> i, e |-> e]
             V == {RowValues(d, cols) : d \in Carried}
             W == [id : Nat, e : Carried]
  <1>4. /\ Rows(es, cols) \in Seq(V) /\ RowValues(e, cols) \in V
        /\ Rows(fs, cols) = Append(Rows(es, cols), RowValues(e, cols))
        /\ Under(es, ids) \in Seq(W) /\ u \in W
        /\ Under(fs, js) = Append(Under(es, ids), u)
    <2>1. RowsGrow(es, e, cols, ids, i)
      BY <1>1, RowsAppend
    <2>2. QED
      BY <2>1 DEF RowsGrow
  <1>5. /\ js \in Seq(Nat) /\ Len(js) = Len(fs)
        /\ \A k \in 1..Len(fs) : "id" \in cols /\ fs[k].id # 0 => js[k] = fs[k].id
    <2>1. /\ Len(fs) = Len(es) + 1 /\ fs[Len(fs)] = e /\ js[Len(fs)] = i
          /\ js \in Seq(Nat) /\ Len(js) = Len(fs)
          /\ \A k \in 1..Len(es) : fs[k] = es[k] /\ js[k] = ids[k]
          /\ \A k \in 1..Len(fs) : k = Len(fs) \/ k \in 1..Len(es)
      BY <1>1
    <2> HIDE DEF js, fs
    <2>2. QED
      BY <1>1, <1>2, <2>1
  <1> HIDE DEF fs, js, s, V, W, u
  <1>6. Execs(s, Rows(fs, cols)) = State(st, r3, m3, js)
    BY <1>1, <1>3, <1>4, ExecsLaws DEF js
  <1>7. Writes(w, Under(fs, js)) = Written(Writes(w, Under(es, ids)), u)
    BY <1>4, WritesLaws
  <1>8. Match(r3, Writes(w, Under(fs, js))) /\ Kept(r2, r3)
    BY <1>1, <1>3, <1>7, PutMatches DEF u
  <1>9. Kept(rs, r3)
    BY <1>1, <1>8 DEF Kept
  <1>10. QED
    BY <1>3, <1>5, <1>6, <1>8, <1>9 DEF Upserted, fs, s

LEMMA UpsertedAll ==
    ASSUME NEW st, NEW cols, IsUpsert(st, cols), NEW rs, NEW n, Table(rs, n),
           NEW w, Match(rs, w)
    PROVE  \A es \in Seq(Carried) : Upserted(st, cols, rs, n, w, es)
  <1> DEFINE S == {es \in Seq(Carried) : Upserted(st, cols, rs, n, w, es)}
  <1>1. <<>> \in S
    BY UpsertedNone
  <1>2. ASSUME NEW es \in Seq(Carried), NEW e \in Carried, es \in S
        PROVE  Append(es, e) \in S
    BY <1>2, UpsertedOne
  <1> HIDE DEF S
  <1>3. Seq(Carried) \subseteq S
    BY <1>1, <1>2, ExecFold!SeqSetInduction
  <1>4. QED
    BY <1>3 DEF S

-----------------------------------------------------------------------------
(* A call that is accepted *)

\* What a statement makes of the table, and of what was saved.
Good(s, rs, w) == s.of = type /\ Table(s.rows, s.next) /\ Match(s.rows, w) /\ Kept(rs, s.rows)

LEMMA SaveGood ==
    ASSUME type \in AllTypes, shape \in AllShapes, NEW rs, NEW n, Table(rs, n),
           NEW w, Match(rs, w), NEW es \in Seq(Contents), es # <<>>, Accepts(Upsert(es))
    PROVE  LET s == ExecAll(Upsert(es), type, rs, n)
           IN  /\ Good(s, rs, Writes(w, Under(es, s.ids)))
               /\ ~Mixes(es) => SavedUnder(es, s.ids) = Under(es, s.ids)
  <1> DEFINE cols == Columns(Head(es))
             st == Upsert(es)
             s == ExecAll(st, type, rs, n)
  <1>1. /\ cols \subseteq {"created_at", "id", "x"} /\ {"created_at", "x"} \subseteq cols
        /\ "id" \in cols <=> es[1].id # 0
        /\ SetClause(cols) = {"x"}
        /\ es \in Seq(Carried)
    BY UpsertAccepted
  <1>2. IsUpsert(st, cols) /\ st.values = Rows(es, cols)
    BY <1>1 DEF Upsert, IsUpsert, Rows
  <1> HIDE DEF cols, st
  <1>3. PICK r2, m, ids :
           /\ Execs(State(st, rs, n, <<>>), Rows(es, cols)) = State(st, r2, m, ids)
           /\ Table(r2, m) /\ Kept(rs, r2)
           /\ Match(r2, Writes(w, Under(es, ids)))
           /\ ids \in Seq(Nat) /\ Len(ids) = Len(es)
           /\ \A k \in 1..Len(es) : "id" \in cols /\ es[k].id # 0 => ids[k] = es[k].id
    BY <1>1, <1>2, UpsertedAll DEF Upserted
  <1>4. s = State(st, r2, m, ids)
    BY <1>2, <1>3 DEF ExecAll, Execs, State
  <1>5. s.of = type /\ s.rows = r2 /\ s.next = m /\ s.ids = ids
    BY <1>4 DEF State
  <1>6. ~Mixes(es) => SavedUnder(es, ids) = Under(es, ids)
    <2>1. SUFFICES ASSUME ~Mixes(es) PROVE SavedUnder(es, ids) = Under(es, ids)
      OBVIOUS
    <2>2. \A k \in DOMAIN es : (IF es[k].id = 0 THEN ids[k] ELSE es[k].id) = ids[k]
      BY <1>1, <1>3, <2>1 DEF Mixes
    <2>3. QED
      BY <2>2 DEF SavedUnder, Under
  <1> HIDE DEF s
  <1>7. /\ Good(s, rs, Writes(w, Under(es, s.ids)))
        /\ ~Mixes(es) => SavedUnder(es, s.ids) = Under(es, s.ids)
    BY <1>3, <1>5, <1>6 DEF Good
  <1>8. QED
    BY <1>7 DEF s, st

LEMMA UpdateGood ==
    ASSUME type \in AllTypes, shape \in AllShapes, NEW rs, NEW n, Table(rs, n),
           NEW w, Match(rs, w), NEW e \in Contents, Accepts(Update(e))
    PROVE  Good(ExecAll(Update(e), type, rs, n), rs,
                IF e.id \in DOMAIN rs THEN Written(w, [id |-> e.id, e |-> e]) ELSE w)
  <1> DEFINE st == Update(e)
             row == RowValues(e, {"x"})
             s == State(st, rs, n, <<>>)
  <1>1. Fields \ {"id", "created_at"} = {"x"} /\ e \in Carried
    BY UpdateAccepted
  <1>2. st.verb = "update" /\ st.set = {"x"} /\ st.pk = e.id /\ st.values = <<row>>
    BY <1>1 DEF Update
  <1>3. Param(row, "x") = ValueOf(e, "x")
    BY DEF RowValues, Param
  <1> HIDE DEF st, row
  <1>4. s.st = st /\ s.rows = rs /\ s.of = type /\ s.next = n
    BY DEF State
  <1>5. RowId(s, row) = e.id
    BY <1>2, <1>4 DEF RowId
  <1>6. ExecAll(st, type, rs, n) = ExecRow(s, row)
    <2>1. Execs(s, <<row>>) = ExecRow(s, row)
      BY ExecsOne
    <2>2. ExecAll(st, type, rs, n) = Execs(s, <<row>>)
      BY <1>2 DEF ExecAll, Execs, State
    <2>3. QED
      BY <2>1, <2>2
  <1>7. CASE e.id \in DOMAIN rs
    <2>1. e.id \in Nat \ {0}
      BY <1>7 DEF Table
    <2>2. RowStep(st, rs, n, <<>>, row, e.id, e)
      <3> DEFINE i == e.id
                 none == <<>>
      <3>1. i \in Nat \ {0} /\ i = RowId(State(st, rs, n, none), row) /\ i \in DOMAIN rs
        BY <1>5, <1>7, <2>1
      <3> HIDE DEF i, none
      <3>2. RowStep(st, rs, n, none, row, i, e)
        BY <1>2, <1>3, <3>1, RowPut
      <3>3. QED
        BY <3>2 DEF i, none
    <2>3. PICK r2, m : /\ ExecRow(s, row) = State(st, r2, m, Append(<<>>, e.id))
                       /\ Put(rs, r2, e.id, e) /\ Table(r2, m)
      BY <2>2 DEF RowStep
    <2>4. Match(r2, Written(w, [id |-> e.id, e |-> e])) /\ Kept(rs, r2)
      BY <1>1, <2>3, PutMatches
    <2>5. QED
      BY <1>6, <1>7, <2>3, <2>4 DEF Good, State, st
  <1>8. CASE e.id \notin DOMAIN rs
    <2> HIDE DEF s
    <2>1. ExecRow(s, row) = s
      BY <1>2, <1>4, <1>5, <1>8 DEF ExecRow
    <2>2. Kept(rs, rs)
      BY DEF Kept
    <2>3. QED
      BY <1>4, <1>6, <1>8, <2>1, <2>2 DEF Good, st
  <1>9. QED
    BY <1>7, <1>8

\* Reading the line of an upsert, or of an update, gives the statement.
LEMMA UpsertKept ==
    ASSUME type \in AllTypes, NEW es \in Seq(Contents), es # <<>>
    PROVE  ReadAgain(Recorded(Upsert(es))) = Upsert(es)
  <1> DEFINE cols == Columns(Head(es))
             n == Len(es)
             vs == [k \in 1..n |-> RowValues(es[k], cols)]
             st == Upsert(es)
  <1>1. n \in Nat /\ DOMAIN es = 1..n /\ \A k \in 1..n : es[k] \in Contents
    OBVIOUS
  <1>2. cols \subseteq {"base", "created_at", "id", "x"}
    BY DEF Columns, Fields
  <1>3. st = [verb |-> st.verb, set |-> st.set, pk |-> st.pk, values |-> st.values]
        /\ st.values = vs
    BY <1>1 DEF Upsert
  <1> HIDE DEF n, cols, st
  <1>4. \A k \in 1..n : /\ vs[k] = [c \in DOMAIN vs[k] |-> vs[k][c]]
                        /\ \A c \in DOMAIN vs[k] : FromSerde(ToSerde(vs[k][c])) = vs[k][c]
    <2>1. SUFFICES ASSUME NEW k \in 1..n
                   PROVE  /\ vs[k] = [c \in DOMAIN vs[k] |-> vs[k][c]]
                          /\ \A c \in DOMAIN vs[k] :
                                FromSerde(ToSerde(vs[k][c])) = vs[k][c]
      OBVIOUS
    <2>2. vs[k] = [c \in cols |-> ValueOf(es[k], c)]
      BY DEF RowValues
    <2>3. es[k].x \in Samples(type)
      BY <1>1 DEF Contents
    <2>4. \A c \in cols : FromSerde(ToSerde(ValueOf(es[k], c))) = ValueOf(es[k], c)
      BY <1>2, <2>3, ValueKept
    <2> HIDE DEF vs
    <2>5. QED
      BY <2>2, <2>4
  <1>5. vs = [k \in 1..n |-> vs[k]]
    OBVIOUS
  <1> HIDE DEF vs
  <1>6. KeptRows(vs, n)
    BY <1>4, <1>5 DEF KeptRows
  <1>7. ReadAgain(Recorded(st)) = st
    BY <1>1, <1>3, <1>6, StatementKept
  <1>8. QED
    BY <1>7 DEF st

LEMMA UpdateKept ==
    ASSUME type \in AllTypes, NEW e \in Contents
    PROVE  ReadAgain(Recorded(Update(e))) = Update(e)
  <1> DEFINE cols == Fields \ {"id", "created_at"}
             row == RowValues(e, cols)
             vs == <<row>>
             st == Update(e)
             n == 1
  <1>1. st = [verb |-> st.verb, set |-> st.set, pk |-> st.pk, values |-> st.values]
        /\ st.values = vs
    BY DEF Update
  <1>2. cols \subseteq {"base", "created_at", "id", "x"}
    BY DEF Fields
  <1>3. row = [c \in cols |-> ValueOf(e, c)]
    BY DEF RowValues
  <1>4. e.x \in Samples(type)
    BY DEF Contents
  <1> HIDE DEF cols, row, st
  <1>5. row = [c \in DOMAIN row |-> row[c]]
        /\ \A c \in DOMAIN row : FromSerde(ToSerde(row[c])) = row[c]
    BY <1>2, <1>3, <1>4, ValueKept
  <1>6. n \in Nat /\ vs = [k \in 1..n |-> vs[k]] /\ \A k \in 1..n : vs[k] = row
    OBVIOUS
  <1> HIDE DEF vs, n
  <1>7. KeptRows(vs, n)
    BY <1>5, <1>6 DEF KeptRows
  <1>8. ReadAgain(Recorded(st)) = st
    BY <1>1, <1>6, <1>7, StatementKept
  <1>9. QED
    BY <1>8 DEF st

-----------------------------------------------------------------------------
(* The log *)

RedoFold == INSTANCE FoldLaws WITH Op <- Redo

New(of) == [st |-> <<>>, of |-> of, rows |-> <<>>, next |-> 1, ids |-> <<>>]

LEMMA ReplayLaws ==
    ASSUME NEW of, NEW E, NEW lines \in Seq(E), NEW line \in E
    PROVE  /\ Replay(of, <<>>) = New(of)
           /\ Replay(of, Append(lines, line)) = Redo(Replay(of, lines), line)
  <1>1. \A t : Replay(of, t) = RedoFold!Fold(New(of), t)
    BY DEF Replay, New, FoldLeft, MapThenFoldSet, Max, RedoFold!Fold, RedoFold!FoldLeft,
           RedoFold!MapThenFoldSet, RedoFold!Max
  <1>2. RedoFold!Fold(New(of), <<>>) = New(of)
    BY RedoFold!FoldEmpty
  <1>3. RedoFold!Fold(New(of), Append(lines, line))
           = Redo(RedoFold!Fold(New(of), lines), line)
    BY RedoFold!FoldAppend
  <1>4. QED
    BY <1>1, <1>2, <1>3

IsLog(lines) == \E E : lines \in Seq(E)

\* Every row is one that a content was bound to; they are the contents saved
\* under their ids as long as no batch was mixed.
Held(rs, w, mix) == \E u : Match(rs, u) /\ (~mix => u = w)

\* The inductive invariant: the table holds what was saved, and the log
\* rebuilds the table.
MapInv ==
    /\ type \in Types /\ shape \in Shapes /\ mixed \in BOOLEAN /\ calls \in 0..MaxCalls
    /\ Table(rows, next) /\ Held(rows, wrote, mixed)
    /\ IsLog(log) /\ Len(log) <= calls
    /\ Replayed.of = type /\ ReplaySame

LEMMA MapInvInit == Init => MapInv
  <1> SUFFICES ASSUME Init PROVE MapInv
    OBVIOUS
  <1>1. <<>> \in Seq({}) /\ Len(<<>>) = 0 /\ DOMAIN <<>> = {}
    OBVIOUS
  <1>2. Table(rows, next) /\ IsLog(log)
    BY <1>1 DEF Init, Table, IsLog
  <1>8. Held(rows, wrote, mixed)
    <2>1. Match(rows, wrote)
      BY <1>1 DEF Init, Match
    <2>2. QED
      BY <2>1 DEF Held
  <1>3. Replay(type, <<>>) = New(type)
    <2> DEFINE E == {0}
    <2>1. <<>> \in Seq(E) /\ 0 \in E
      OBVIOUS
    <2> HIDE DEF E
    <2>2. QED
      BY <2>1, ReplayLaws
  <1>4. Replayed = New(type)
    BY <1>3 DEF Replayed, Init
  <1>5. Replayed.of = type /\ ReplaySame
    BY <1>4 DEF New, ReplaySame, Init
  <1>6. MaxCalls \in Nat
    BY RowMappingAssumption
  <1>7. mixed \in BOOLEAN
    BY DEF Init
  <1>9. type \in Types /\ shape \in Shapes /\ calls \in 0..MaxCalls /\ Len(log) <= calls
    BY <1>1, <1>6 DEF Init
  <1>10. QED
    BY <1>2, <1>5, <1>7, <1>8, <1>9 DEF MapInv

\* A statement that is executed and recorded.
LEMMA Executed ==
    ASSUME MapInv, Call, NEW st, ReadAgain(Recorded(st)) = st, Execute(st), Record(st),
           NEW w, Good(ExecAll(st, type, rows, next), rows, w),
           mixed' \in BOOLEAN, ~mixed' => w = wrote'
    PROVE  /\ MapInv'
           /\ \A i \in DOMAIN rows \cap DOMAIN rows' : rows'[i].created_at = rows[i].created_at
  <1> DEFINE s == ExecAll(st, type, rows, next)
             line == Recorded(st)
  <1>1. type' = type /\ shape' = shape /\ calls' = calls + 1 /\ calls < MaxCalls
    BY DEF Call
  <1>2. rows' = s.rows /\ next' = s.next /\ log' = Append(log, line)
    BY DEF Execute, Record
  <1>3. s.of = type /\ Table(s.rows, s.next) /\ Match(s.rows, w) /\ Kept(rows, s.rows)
    BY DEF Good
  <1>4. ReadAgain(line) = st
    OBVIOUS
  <1> HIDE DEF line
  <1>5. PICK E : log \in Seq(E)
    BY DEF MapInv, IsLog
  <1> DEFINE F == E \cup {line}
  <1>6. log \in Seq(F) /\ line \in F
    BY <1>5
  <1>7. Append(log, line) \in Seq(F) /\ Len(Append(log, line)) = Len(log) + 1
        /\ Len(log) \in Nat
    BY <1>6
  <1> HIDE DEF F
  <1>8. Replay(type, Append(log, line)) = s
    <2>1. Replay(type, Append(log, line)) = Redo(Replay(type, log), line)
      BY <1>6, ReplayLaws
    <2>2. Redo(Replay(type, log), line) = s
      BY <1>4 DEF Redo, MapInv, ReplaySame, Replayed
    <2>3. QED
      BY <2>1, <2>2
  <1> HIDE DEF s
  <1>9. (Replayed)' = s
    BY <1>1, <1>2, <1>8 DEF Replayed
  <1>10. (Replayed.of = type /\ ReplaySame)'
    BY <1>1, <1>2, <1>3, <1>9 DEF ReplaySame
  <1>11. (Table(rows, next))'
    BY <1>2, <1>3 DEF Table
  <1>12. (Held(rows, wrote, mixed))'
    <2>1. (Finite)' = Finite
      BY <1>1 DEF Finite
    <2>2. \A x : (Stored(x))' = Stored(x)
      BY <1>1 DEF Stored, Serialize
    <2>3. \A row, c, i : (IsRow(row, c, i))' = IsRow(row, c, i)
      BY <2>1, <2>2 DEF IsRow
    <2>4. \A u : (Match(rows, u))' = Match(rows', u)
      BY <2>3 DEF Match
    <2>5. Match(rows', w)
      BY <1>2, <1>3
    <2>6. QED
      BY <2>4, <2>5 DEF Held
  <1>13. (IsLog(log) /\ Len(log) <= calls /\ calls \in 0..MaxCalls)'
    <2>1. calls \in Nat /\ MaxCalls \in Nat /\ Len(log) <= calls
      BY RowMappingAssumption DEF MapInv
    <2>2. (IsLog(log))'
      BY <1>2, <1>7 DEF IsLog
    <2>3. QED
      BY <1>1, <1>2, <1>7, <2>1, <2>2
  <1>14. MapInv'
    BY <1>1, <1>10, <1>11, <1>12, <1>13 DEF MapInv
  <1>15. QED
    BY <1>2, <1>3, <1>14 DEF Kept

-----------------------------------------------------------------------------
(* Theorems *)

\* No created_at of a row differs after a step.
CreatedAtStep ==
    \A id \in DOMAIN rows \cap DOMAIN rows' :
       rows'[id].created_at = rows[id].created_at

LEMMA EntityContents ==
    ASSUME MapInv, NEW e \in Entities
    PROVE  e \in Contents
  <1>1. calls \in Nat
    BY RowMappingAssumption DEF MapInv
  <1>2. {calls} \subseteq Nat
    BY <1>1
  <1>3. QED
    BY <1>2 DEF Entities, Contents

LEMMA TypeAndShape ==
    ASSUME MapInv
    PROVE  type \in AllTypes /\ shape \in AllShapes
  <1>1. Types \subseteq AllTypes /\ Shapes \subseteq AllShapes
    BY RowMappingAssumption
  <1>2. QED
    BY <1>1 DEF MapInv

\* Db::save and Db::save_batch_upsert.
LEMMA SaveStep ==
    ASSUME MapInv, Call, NEW es \in Seq(Contents), es # <<>>, Save(es)
    PROVE  MapInv' /\ CreatedAtStep
  <1> DEFINE st == Upsert(es)
             s == ExecAll(st, type, rows, next)
  <1>1. Accepts(st) /\ Execute(st) /\ Record(st)
        /\ wrote' = Writes(wrote, SavedUnder(es, s.ids))
        /\ mixed' = (mixed \/ Mixes(es))
    BY DEF Save, Writes
  <1>2. type \in AllTypes /\ shape \in AllShapes
    BY TypeAndShape
  <1>3. PICK u : Match(rows, u) /\ (~mixed => u = wrote)
    BY DEF MapInv, Held
  <1> DEFINE w == Writes(u, Under(es, s.ids))
  <1>4. Good(s, rows, w) /\ (~Mixes(es) => SavedUnder(es, s.ids) = Under(es, s.ids))
    BY <1>1, <1>2, <1>3, SaveGood DEF MapInv
  <1>5. mixed' \in BOOLEAN /\ (~mixed' => w = wrote')
    BY <1>1, <1>3, <1>4
  <1>6. ReadAgain(Recorded(st)) = st
    BY <1>2, UpsertKept
  <1> HIDE DEF st, w
  <1>7. QED
    BY <1>1, <1>4, <1>5, <1>6, Executed DEF CreatedAtStep

\* Db::update
LEMMA UpdateStep ==
    ASSUME MapInv, Call, NEW e \in Contents, SaveChanges(e)
    PROVE  MapInv' /\ CreatedAtStep
  <1> DEFINE st == Update(e)
             s == ExecAll(st, type, rows, next)
             After(u) == IF e.id \in DOMAIN rows THEN Written(u, [id |-> e.id, e |-> e])
                         ELSE u
  <1>1. Accepts(st) /\ Execute(st) /\ Record(st) /\ wrote' = After(wrote)
        /\ mixed' = mixed
    BY DEF SaveChanges
  <1>2. type \in AllTypes /\ shape \in AllShapes
    BY TypeAndShape
  <1>3. PICK u : Match(rows, u) /\ (~mixed => u = wrote)
    BY DEF MapInv, Held
  <1> DEFINE w == After(u)
  <1>4. Good(s, rows, w)
    BY <1>1, <1>2, <1>3, UpdateGood DEF MapInv
  <1>5. ReadAgain(Recorded(st)) = st
    BY <1>2, UpdateKept
  <1>6. mixed' \in BOOLEAN /\ (~mixed' => w = wrote')
    BY <1>1, <1>3 DEF MapInv
  <1> HIDE DEF st, w, After
  <1>7. QED
    BY <1>1, <1>4, <1>5, <1>6, Executed DEF CreatedAtStep

\* A step that writes nothing.
LEMMA NothingWritten ==
    ASSUME MapInv, UNCHANGED <<type, shape, rows, next, log, wrote, mixed>>,
           calls' \in 0..MaxCalls, calls <= calls'
    PROVE  MapInv' /\ CreatedAtStep
  <1>1. (Table(rows, next))' /\ (IsLog(log))'
    BY DEF MapInv, Table, IsLog
  <1>2. (Held(rows, wrote, mixed))'
    <2>1. \A u : (Match(rows, u))' = Match(rows, u)
      BY DEF Match, IsRow, Finite, Stored, Serialize
    <2>2. QED
      BY <2>1 DEF MapInv, Held
  <1>3. (Replayed.of = type /\ ReplaySame)'
    BY DEF MapInv, Replayed, ReplaySame
  <1>4. (Len(log) <= calls)'
    <2>1. PICK E : log \in Seq(E)
      BY DEF MapInv, IsLog
    <2>2. Len(log) \in Nat /\ calls \in Nat /\ calls' \in Nat /\ Len(log) <= calls
      BY <2>1, RowMappingAssumption DEF MapInv
    <2>3. QED
      BY <2>2
  <1>5. QED
    BY <1>1, <1>2, <1>3, <1>4 DEF MapInv, CreatedAtStep

LEMMA RefusedStep ==
    ASSUME MapInv, Call, NEW st, Refused(st)
    PROVE  MapInv' /\ CreatedAtStep
  <1>1. calls \in Nat /\ MaxCalls \in Nat
    BY RowMappingAssumption DEF MapInv
  <1>2. calls' \in 0..MaxCalls /\ calls <= calls'
    BY <1>1 DEF Call
  <1>3. QED
    BY <1>2, NothingWritten DEF Call, Refused

LEMMA MapInvNext ==
    ASSUME MapInv, [Next]_vars
    PROVE  MapInv' /\ CreatedAtStep
  <1>1. CASE CallSave
    <2>1. PICK e \in Entities : Call /\ (Save(<<e>>) \/ Refused(Upsert(<<e>>)))
      BY <1>1 DEF CallSave
    <2>2. e \in Contents
      BY EntityContents
    <2>3. <<e>> \in Seq(Contents) /\ <<e>> # <<>>
      BY <2>2
    <2>4. QED
      BY <2>1, <2>3, SaveStep, RefusedStep
  <1>2. CASE CallBatch
    <2>1. PICK e \in Entities, f \in Entities :
             Call /\ (Save(<<e, f>>) \/ Refused(Upsert(<<e, f>>)))
      BY <1>2 DEF CallBatch
    <2>2. e \in Contents /\ f \in Contents
      BY EntityContents
    <2>3. <<e, f>> \in Seq(Contents) /\ <<e, f>> # <<>>
      BY <2>2
    <2>4. QED
      BY <2>1, <2>3, SaveStep, RefusedStep
  <1>3. CASE CallUpdate
    <2>1. PICK e \in Entities : Call /\ (SaveChanges(e) \/ Refused(Update(e)))
      BY <1>3 DEF CallUpdate
    <2>2. e \in Contents
      BY EntityContents
    <2>3. QED
      BY <2>1, <2>2, UpdateStep, RefusedStep
  <1>4. CASE UNCHANGED vars
    <2>1. calls \in Nat /\ calls \in 0..MaxCalls
      BY RowMappingAssumption DEF MapInv
    <2>2. calls' \in 0..MaxCalls /\ calls <= calls'
      BY <1>4, <2>1 DEF vars
    <2>3. QED
      BY <1>4, <2>2, NothingWritten DEF vars
  <1>5. QED
    BY <1>1, <1>2, <1>3, <1>4 DEF Next

(* After any calls the table holds exactly what they saved, under the ids   *)
(* they were given, and its statements in the journal rebuild it.           *)
THEOREM TableHoldsSaved == Spec => []MapInv
  <1>1. MapInv /\ [Next]_vars => MapInv'
    BY MapInvNext
  <1>2. QED
    BY <1>1, MapInvInit, PTL DEF Spec

LEMMA MapInvTypeOK == MapInv => TypeOK
  <1> SUFFICES ASSUME MapInv PROVE TypeOK
    OBVIOUS
  <1>1. type \in AllTypes
    BY TypeAndShape
  <1>2. ASSUME NEW i \in DOMAIN rows
        PROVE  /\ rows[i].created_at.t = "Int"
               /\ rows[i].x.t \in {"NULL", "Int", "UInt", "Double", "Date", "Bytes"}
    <2>1. PICK u : IsRow(rows[i], u[i], i)
      BY DEF MapInv, Held, Match
    <2>2. u[i].x \in Finite /\ rows[i].x = Stored(u[i].x)
          /\ rows[i].created_at = Typed("Int", u[i].created_at)
      BY <2>1 DEF IsRow
    <2>3. Stored(u[i].x).t \in {"NULL", "Int", "UInt", "Double", "Date", "Bytes"}
      BY <1>1, <2>2, StoredOK
    <2>4. QED
      BY <2>2, <2>3 DEF Typed
  <1>3. QED
    BY <1>2 DEF MapInv, Table, TypeOK

(* Every variable keeps its shape, and a row that was saved has every field *)
(* a SELECT can read.                                                       *)
THEOREM TypeCorrect == Spec => []TypeOK
  BY TableHoldsSaved, MapInvTypeOK, PTL

LEMMA MapInvReadBack == MapInv => ReadBack
  <1> SUFFICES ASSUME MapInv, shape = "flat", ~mixed, NEW i \in DOMAIN wrote
               PROVE  FindById(i) = wrote[i] <=> Portable(wrote[i].x)
    BY DEF ReadBack
  <1> DEFINE c == wrote[i]
             j == convert_mysql_value(rows[i].x)
             found == [id |-> i, created_at |-> rows[i].created_at.v, x |-> j.v]
  <1>1. type \in AllTypes /\ shape \in AllShapes
    BY TypeAndShape
  <1>2. i \in DOMAIN rows /\ IsRow(rows[i], c, i) /\ i \in Nat
    BY DEF MapInv, Held, Match, Table
  <1>3. /\ c = [id |-> i, created_at |-> c.created_at, x |-> c.x]
        /\ c.created_at \in Nat /\ c.x \in Finite
        /\ rows[i].created_at.v = c.created_at /\ rows[i].x = Stored(c.x)
    BY <1>2 DEF IsRow, Typed
  <1>4. Fields \subseteq TableColumns
    BY DEF Fields, TableColumns
  <1>5. FindById(i) = IF Accepted(j) THEN found ELSE None
    BY <1>2, <1>4 DEF FindById
  <1>6. (Accepted(j) /\ j.v = c.x) <=> Portable(c.x)
    BY <1>1, <1>3, StoredReadBack
  <1>7. c # None
    <2> DEFINE X == UNION {Samples(t) : t \in AllTypes}
    <2>1. c.x \in X
      BY <1>1, <1>3 DEF Finite
    <2>2. None \notin [id : Nat, created_at : Nat, x : X]
      BY RowMappingAssumption
    <2> HIDE DEF X, c
    <2>3. c \in [id : Nat, created_at : Nat, x : X]
      BY <1>2, <1>3, <2>1
    <2>4. QED
      BY <2>2, <2>3
  <1>8. found = c <=> j.v = c.x
    <2> HIDE DEF c, j
    <2>1. QED
      BY <1>3
  <1> HIDE DEF c, j, found
  <1>9. QED
    BY <1>5, <1>6, <1>7, <1>8 DEF c

(* What was saved under an id is what find_by_id gives back for it, exactly *)
(* if the conversions keep its field; a new entity may lie before an old one*)
(* in no batch, and the entity has the names of its columns.                *)
THEOREM SavedReadBack == Spec => []ReadBack
  BY TableHoldsSaved, MapInvReadBack, PTL

(* The journal's statements, with their values converted to ValueSerde and  *)
(* back, build the same table again, with the same generated ids.           *)
THEOREM ReplayRebuilds == Spec => []ReplaySame
  <1>1. MapInv => ReplaySame
    BY DEF MapInv
  <1>2. QED
    BY <1>1, TableHoldsSaved, PTL

(* No upsert, batch or update changes the created_at of a row that exists.  *)
THEOREM CreatedAtStays == Spec => CreatedAtKept
  <1>1. MapInv /\ [Next]_vars => [CreatedAtStep]_vars
    BY MapInvNext
  <1>2. QED
    BY <1>1, TableHoldsSaved, PTL DEF Spec, CreatedAtStep, CreatedAtKept
=============================================================================
