----------------------------- MODULE RowMapping -----------------------------
(****************************************************************************)
(* src/orm.rs, the macros of src/entity.rs and ValueSerde of src/wal.rs:    *)
(* how an entity becomes a statement, its values a row and a line of the    *)
(* journal, and how the row becomes an entity again.                        *)
(*                                                                          *)
(* An entity has an id, created_at and one more field x of a Rust type.     *)
(* The table has a column for each, of the MySQL type that goes with it.    *)
(* Numbers and strings are names of representative values: "max" is         *)
(* u64::MAX, "tenth" a double that is no 32-bit float, "huge" one that is   *)
(* infinite as such.  Bounds: Samples, Ids and MaxCalls.                    *)
(****************************************************************************)
EXTENDS Integers, Sequences, SequencesExt

CONSTANTS Types, Shapes, Ids, None, MaxCalls

VARIABLES
    type,     \* the Rust type of x
    shape,    \* how the entity and its table were declared
    rows,     \* the table: what a SELECT reads of each row
    next,     \* its AUTO_INCREMENT counter
    log,      \* the statements in the journal
    wrote,    \* history: what the application has saved under each id
    mixed,    \* history: a batch began with a new entity and held an old one
    calls

vars == <<type, shape, rows, next, log, wrote, mixed, calls>>

\* flat: define_entity! with the primary key "id" and columns named like the
\* fields.  renamed_pk and renamed_column: a table with the names that were
\* given to the macro.  base: define_entity_with_base!.
AllShapes == {"flat", "renamed_pk", "renamed_column", "base"}

AllTypes == {"i64", "u64", "f64", "bool", "Option", "String", "DateTime", "Vec"}

\* Values that a field of each type may have.
Samples(t) ==
    CASE t = "i64" -> {"1", "2"}
      [] t = "u64" -> {"1", "max"}
      [] t = "f64" -> {"half", "tenth", "huge", "nan"}
      [] t = "bool" -> {"true", "false"}
      [] t = "Option" -> {"1", "none"}
      [] t = "String" -> {"text"}
      [] t = "DateTime" -> {"noon"}
      [] t = "Vec" -> {"list"}

\* AUTO_INCREMENT begins with 1, and None is no entity.
ASSUME RowMappingAssumption ==
    /\ Types \subseteq AllTypes /\ Shapes \subseteq AllShapes
    /\ Ids \subseteq Nat \ {0} /\ MaxCalls \in Nat
    /\ None \notin [id : Nat, created_at : Nat, x : UNION {Samples(t) : t \in AllTypes}]

Init ==
    /\ type \in Types /\ shape \in Shapes
    /\ rows = <<>> /\ next = 1 /\ log = <<>>
    /\ wrote = <<>> /\ mixed = FALSE /\ calls = 0

-----------------------------------------------------------------------------
(* Values: the field, its JSON, the parameter of a statement, the column.   *)

Typed(t, v) == [t |-> t, v |-> v]
NullJson == Typed("null", "none")
NULL == Typed("NULL", "none")

\* serde_json writes floats that are not finite as null.
Serialize(v) ==
    IF v \in {"none", "nan"} THEN NullJson
    ELSE Typed(CASE type \in {"i64", "Option"} -> "int"
                 [] type = "u64" -> IF v = "max" THEN "uint" ELSE "int"
                 [] type = "f64" -> "float"
                 [] type = "bool" -> "bool"
                 [] type \in {"String", "DateTime"} -> "string"
                 [] type = "Vec" -> "array", v)

AsF32(v) == CASE v = "tenth" -> "tenth as f32" [] v = "huge" -> "inf" [] OTHER -> v

convert_json_value(j) ==
    CASE j.t = "null" -> NULL
      [] j.t = "bool" -> Typed("Int", IF j.v = "true" THEN "1" ELSE "0")
      [] j.t = "int" -> Typed("Int", j.v)
      [] j.t = "uint" -> Typed("UInt", j.v)
      [] j.t = "float" -> Typed("Float", AsF32(j.v))
      [] j.t \in {"string", "array"} -> Typed("Bytes", j.v)

\* What the column of x gives when it is read.
Column(t, p) ==
    IF p.t = "NULL" THEN NULL
    ELSE Typed(CASE t \in {"i64", "Option", "bool"} -> "Int"
                 [] t = "u64" -> "UInt"
                 [] t = "f64" -> "Double"
                 [] t = "DateTime" -> "Date"
                 [] t \in {"String", "Vec"} -> "Bytes", p.v)

\* A date becomes a text with a space between day and time and no offset.
convert_mysql_value(p) ==
    CASE p.t = "NULL" -> NullJson
      [] p.t \in {"Int", "UInt"} -> Typed(IF p.v = "max" THEN "uint" ELSE "int", p.v)
      [] p.t \in {"Float", "Double"} -> Typed("float", p.v)
      [] p.t = "Date" -> Typed("string", "noon with a space")
      [] p.t = "Bytes" -> Typed("string", p.v)

\* The JSON that serde takes for a field of this type; of a date it wants
\* RFC 3339, as it writes it.
Accepted(j) ==
    /\ j.t \in CASE type = "i64" -> {"int"}
                [] type = "u64" -> {"int", "uint"}
                [] type = "f64" -> {"int", "float"}
                [] type = "bool" -> {"bool"}
                [] type = "Option" -> {"int", "null"}
                [] type \in {"String", "DateTime"} -> {"string"}
                [] type = "Vec" -> {"array"}
    /\ type = "DateTime" => j.v = "noon"

-----------------------------------------------------------------------------
(* Entities and statements *)

Fields == IF shape = "base" THEN {"base", "x"} ELSE {"created_at", "id", "x"}

ValueOf(e, key) ==
    CASE key = "id" -> Typed("Int", e.id)
      [] key = "created_at" -> Typed("Int", e.created_at)
      [] key = "x" -> convert_json_value(Serialize(e.x))
      [] key = "base" -> Typed("Bytes", "base")

\* Mutants: the id, and created_at, are left out of every INSERT.
NoCreatedAtColumn(e) ==
    Fields \ (IF e.id = 0 THEN {"id", "created_at"} ELSE {"created_at"})
NoIdColumn(e) == Fields \ {"id"}

\* An id of 0 is left out.
Columns(e) == Fields \ (IF e.id = 0 THEN {"id"} ELSE {})

\* The parameters of a row, by their columns.
RowValues(e, columns) == [c \in columns |-> ValueOf(e, c)]

\* Mutant: an upsert updates created_at.
SetClauseAll(columns) == columns \ {"id"}

SetClause(columns) == columns \ {"id", "created_at"}

\* build_upsert_sql and build_batch_upsert_sql: the columns are those of the
\* first entity.
Upsert(es) ==
    LET columns == Columns(Head(es))
    IN  [verb |-> "upsert", set |-> SetClause(columns), pk |-> 0,
         values |-> [n \in DOMAIN es |-> RowValues(es[n], columns)]]

\* build_update_sql
Update(e) ==
    LET columns == Fields \ {"id", "created_at"}
    IN  [verb |-> "update", set |-> columns, pk |-> e.id,
         values |-> <<RowValues(e, columns)>>]

-----------------------------------------------------------------------------
(* What MySQL does with them. *)

TableColumns ==
    {IF shape = "renamed_pk" THEN "player_id" ELSE "id", "created_at",
     IF shape = "renamed_column" THEN "y" ELSE "x"}

\* MySQL knows the columns and takes no infinite float.
Accepts(st) ==
    \A n \in DOMAIN st.values :
       /\ DOMAIN st.values[n] \subseteq TableColumns
       /\ \A c \in DOMAIN st.values[n] :
            LET p == st.values[n][c] IN p.t = "Float" => p.v # "inf"

\* The parameter for a column, if the statement has one.
Param(row, c) == IF c \in DOMAIN row THEN row[c] ELSE NULL

\* The id of a row: that of an update, the one given, or a generated one.
RowId(s, row) ==
    LET given == Param(row, "id")
    IN  IF s.st.verb = "update" THEN s.st.pk
        ELSE IF given.t = "NULL" \/ given.v = 0 THEN s.next ELSE given.v

PutRow(s, row, id) ==
    LET new == [created_at |-> Param(row, "created_at"),
                x |-> Column(s.of, Param(row, "x"))]
        updated == [c \in {"created_at", "x"} |->
                      IF c \in s.st.set THEN new[c] ELSE s.rows[id][c]]
    IN  [s EXCEPT
           !.rows = [i \in DOMAIN s.rows \cup {id} |->
                       IF i # id THEN s.rows[i]
                       ELSE IF id \in DOMAIN s.rows THEN updated ELSE new],
           !.next = IF id >= s.next /\ id \notin DOMAIN s.rows THEN id + 1 ELSE @,
           !.ids = Append(@, id)]

\* A row of the statement s.st on the table of s, whose column x has the type
\* s.of; s.ids are the ids of the rows it has written.
ExecRow(s, row) ==
    LET id == RowId(s, row)
    IN  IF s.st.verb = "update" /\ id \notin DOMAIN s.rows THEN s
        ELSE PutRow(s, row, id)

\* A statement on a table.
ExecAll(st, of, rs, n) ==
    FoldLeft(ExecRow, [st |-> st, of |-> of, rows |-> rs, next |-> n, ids |-> <<>>],
             st.values)

-----------------------------------------------------------------------------
(* The journal keeps the parameters as ValueSerde, and gives them back.     *)

\* Mutant: ValueSerde has no UInt.
ToSerdeSigned(p) == IF p.t = "UInt" THEN Typed("Int", "-1") ELSE p

\* No statement of an entity binds a Double or a date.
ToSerde(p) ==
    CASE p.t \in {"Float", "Double"} -> Typed("Float", p.v)
      [] p.t = "Date" -> Typed("Bytes", "noon with a space")
      [] OTHER -> p
FromSerde(p) == IF p.t = "Float" THEN Typed("Float", AsF32(p.v)) ELSE p

\* A statement as it is recorded, and as it is read again.
Recorded(st) ==
    [st EXCEPT !.values = [n \in DOMAIN @ |-> [c \in DOMAIN @[n] |-> ToSerde(@[n][c])]]]
ReadAgain(st) ==
    [st EXCEPT !.values = [n \in DOMAIN @ |-> [c \in DOMAIN @[n] |-> FromSerde(@[n][c])]]]

-----------------------------------------------------------------------------
(* The calls *)

Entities ==
    [id : Ids \cup {0}, created_at : {calls}, x : Samples(type)]

\* The content saved under an id; created_at stays what it was at first.
Written(w, s) ==
    [i \in DOMAIN w \cup {s.id} |->
       IF i # s.id THEN w[i]
       ELSE [id |-> i, x |-> s.e.x,
             created_at |-> IF i \in DOMAIN w THEN w[i].created_at
                            ELSE s.e.created_at]]

Execute(st) ==
    LET s == ExecAll(st, type, rows, next)
    IN  rows' = s.rows /\ next' = s.next

\* A statement that was executed is recorded.
Record(st) == log' = Append(log, Recorded(st))

\* What the caller saves: an entity under its own id, a new one under the id
\* that was generated for it.
SavedUnder(es, ids) ==
    [n \in DOMAIN es |->
       [id |-> IF es[n].id = 0 THEN ids[n] ELSE es[n].id, e |-> es[n]]]

\* Behind a new entity, which gives a batch its columns, an old one has no id.
Mixes(es) == es[1].id = 0 /\ \E n \in DOMAIN es : es[n].id # 0

\* Db::save of one entity, Db::save_batch_upsert of several.
Save(es) ==
    LET st == Upsert(es)
        ids == ExecAll(st, type, rows, next).ids
    IN  /\ Accepts(st)
        /\ Execute(st) /\ Record(st)
        /\ wrote' = FoldLeft(Written, wrote, SavedUnder(es, ids))
        /\ mixed' = (mixed \/ Mixes(es))

\* Db::update of an entity that was saved, or was not.
SaveChanges(e) ==
    LET st == Update(e)
    IN  /\ Accepts(st)
        /\ Execute(st) /\ Record(st)
        /\ wrote' = IF e.id \in DOMAIN rows THEN Written(wrote, [id |-> e.id, e |-> e])
                    ELSE wrote
        /\ UNCHANGED mixed

\* The statement is refused: the call answers with an error.
Refused(st) ==
    /\ ~Accepts(st)
    /\ UNCHANGED <<rows, next, log, wrote, mixed>>

Call ==
    /\ calls < MaxCalls /\ calls' = calls + 1
    /\ UNCHANGED <<type, shape>>

CallSave ==
    \E e \in Entities : Call /\ (Save(<<e>>) \/ Refused(Upsert(<<e>>)))
CallBatch ==
    \E e, f \in Entities : Call /\ (Save(<<e, f>>) \/ Refused(Upsert(<<e, f>>)))
CallUpdate ==
    \E e \in Entities : Call /\ (SaveChanges(e) \/ Refused(Update(e)))

Next == CallSave \/ CallBatch \/ CallUpdate

Spec == Init /\ [][Next]_vars

\* Db::find_by_id: serde wants every field of the entity under its name.
FindById(id) ==
    IF id \notin DOMAIN rows \/ ~(Fields \subseteq TableColumns) THEN None
    ELSE LET j == convert_mysql_value(rows[id].x)
         IN  IF Accepted(j)
             THEN [id |-> id, created_at |-> rows[id].created_at.v, x |-> j.v]
             ELSE None

\* LocalWriteJournal::replay, its statements executed on a new table.
Redo(s, st) == ExecAll(ReadAgain(st), s.of, s.rows, s.next)
Replay(of, lines) ==
    FoldLeft(Redo, [st |-> <<>>, of |-> of, rows |-> <<>>, next |-> 1, ids |-> <<>>], lines)
Replayed == Replay(type, log)

-----------------------------------------------------------------------------
(* Properties *)

(* Every variable keeps its shape, and a row that was saved has every field *)
(* a SELECT can read.                                                       *)
TypeOK ==
    /\ type \in Types /\ shape \in Shapes /\ mixed \in BOOLEAN /\ calls \in 0..MaxCalls
    /\ next \in Nat \ {0} /\ \A id \in DOMAIN rows : id < next
    /\ \A id \in DOMAIN rows :
         /\ rows[id].created_at.t = "Int"
         /\ rows[id].x.t \in {"NULL", "Int", "UInt", "Double", "Date", "Bytes"}
    /\ Len(log) <= calls

(* find_by_id gives an entity with fields of its own and a primary key "id" *)
(* back as it was last saved, by whatever calls, exactly if its field is a  *)
(* 32-bit float, an integer, a text or an Option: a bool, a list, a date    *)
(* and NaN are refused when they are read, other floats come back changed.  *)
(* It is so as long as no batch began with a new entity and held an old one.*)
Portable(x) == type \notin {"bool", "DateTime", "Vec"} /\ x \notin {"tenth", "nan"}
ReadBack ==
    shape = "flat" /\ ~mixed =>
       \A id \in DOMAIN wrote :
          FindById(id) = wrote[id] <=> Portable(wrote[id].x)

(* The conversions of the journal lose nothing of what save, update and     *)
(* save_batch_upsert bind: its statements build the same table again, with  *)
(* the same generated ids.                                                  *)
ReplaySame == Replayed.rows = rows /\ Replayed.next = next

(* No upsert, batch or update changes the created_at of a row that exists.  *)
CreatedAtKept ==
    [][\A id \in DOMAIN rows \cap DOMAIN rows' :
          rows'[id].created_at = rows[id].created_at]_vars
=============================================================================
