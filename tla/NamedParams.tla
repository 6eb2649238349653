---------------------------- MODULE NamedParams -----------------------------
(****************************************************************************)
(* src/named_params.rs: replace_named_parameters turns {name} in a          *)
(* statement into ? and collects the values to bind, and                    *)
(* build_batch_named_params does so for every row of a batch.               *)
(*                                                                          *)
(* A statement is a sequence of tokens: "lbrace", "rbrace" and "qmark" are  *)
(* the braces and ?, and Tokens may have others.  A step is one turn of the *)
(* loop.  Bounds: statements have at most MaxLen tokens, batches at most    *)
(* MaxRows rows.                                                            *)
(****************************************************************************)
EXTENDS Integers, Sequences, SequencesExt

CONSTANTS Tokens, Maps, MaxLen, MaxRows

\* Maps are the HashMaps from names to values an application may pass.
ASSUME NamedParamsAssumption ==
    /\ {"lbrace", "rbrace", "qmark"} \subseteq Tokens
    /\ MaxLen \in Nat /\ MaxRows \in Nat
    /\ \A m \in Maps : DOMAIN m \subseteq Seq(Tokens)

VARIABLES
    sql,       \* the statement with names
    rows,      \* the parameters of the rows
    batch,     \* is it a call of build_batch_named_params?
    pc,        \* "loop", "ok", or "err"
    row,       \* the row being replaced; 0 is the pass that makes new_sql
    i,         \* where the loop goes on in sql
    new_sql,   \* the statement built so far by this pass
    values,    \* the values of this pass
    result     \* [sql, values of each row]

vars == <<sql, rows, batch, pc, row, i, new_sql, values, result>>
input == <<sql, rows, batch>>

NoResult == [sql |-> <<>>, rows |-> <<>>]

\* An empty batch is answered with the statement as it is.
Init ==
    /\ sql \in SeqOf(Tokens, MaxLen)
    /\ rows \in SeqOf(Maps, MaxRows)
    /\ batch \in BOOLEAN
    /\ ~batch => Len(rows) = 1
    /\ row = (IF batch THEN 0 ELSE 1)
    /\ i = 1 /\ new_sql = <<>> /\ values = <<>>
    /\ IF rows = <<>> THEN pc = "ok" /\ result = [NoResult EXCEPT !.sql = sql]
       ELSE pc = "loop" /\ result = NoResult

-----------------------------------------------------------------------------
(* One turn of the loop: str::find gives the next brace, if there is one.   *)

Find(t, from) == {p \in from..Len(sql) : sql[p] = t}
First(S) == CHOOSE p \in S : \A q \in S : p <= q

\* Mutant: all rows are checked against the parameters of the first.
ParamsOfFirst == rows[1]

\* The parameters of this pass.
Params == rows[IF row = 0 THEN 1 ELSE row]

Start == First(Find("lbrace", i))
Unclosed == Find("rbrace", Start + 1) = {}
End == First(Find("rbrace", Start + 1))
Name == SubSeq(sql, Start + 1, End - 1)

\* Mutant: the loop goes on at the closing brace.
AfterEnd == End

\* Where the loop goes on after a placeholder.
Resume == End + 1

\* No placeholder is left: the rest of the statement is copied.
Finished == i > Len(sql) \/ Find("lbrace", i) = {}

Replace ==
    /\ pc = "loop" /\ ~Finished
    /\ ~Unclosed /\ Name \in DOMAIN Params
    /\ new_sql' = new_sql \o SubSeq(sql, i, Start - 1) \o <<"qmark">>
    /\ values' = Append(values, Params[Name])
    /\ i' = Resume
    /\ UNCHANGED <<input, pc, row, result>>

\* Mutant: an error is passed over without moving on.
FailIgnored == UNCHANGED vars

\* A placeholder that is not closed or has no value ends the call.
Fail ==
    /\ pc' = "err"
    /\ UNCHANGED <<input, row, i, new_sql, values, result>>

FailUnclosed == pc = "loop" /\ ~Finished /\ Unclosed /\ Fail

FailMissing ==
    pc = "loop" /\ ~Finished /\ ~Unclosed /\ Name \notin DOMAIN Params /\ Fail

\* Mutant: the values of the last pass are kept for the next one.
KeepValues == values

\* Each pass begins with an empty list of values.
NoValues == <<>>

\* Mutant: the first pass counts as a row.
RowsDoneAll == Append(result.rows, values)

\* The values of the rows that are done; the first pass of a batch has none.
RowsDone == IF row = 0 THEN <<>> ELSE Append(result.rows, values)

\* A pass is over: the first one of a batch gives the statement only.
EndPass ==
    /\ pc = "loop" /\ Finished
    /\ LET built == new_sql \o SubSeq(sql, i, Len(sql))
       IN  result' = [sql |-> IF row = 0 \/ ~batch THEN built ELSE result.sql,
                      rows |-> RowsDone]
    /\ IF row = Len(rows) THEN pc' = "ok" /\ UNCHANGED <<row, i, new_sql, values>>
       ELSE /\ row' = row + 1 /\ i' = 1
            /\ new_sql' = <<>> /\ values' = NoValues
            /\ UNCHANGED pc
    /\ UNCHANGED input

Next == Replace \/ FailUnclosed \/ FailMissing \/ EndPass

Spec == Init /\ [][Next]_vars

\* The loop runs in one call, without an await.
FairSpec == Spec /\ WF_vars(Next)

-----------------------------------------------------------------------------
(* What the functions should do, said of the statement as a whole.          *)

\* A brace opens a placeholder if every one before it has been closed.
Openers ==
    {s \in DOMAIN sql : sql[s] = "lbrace" /\
       \A q \in 1..s - 1 :
          sql[q] = "lbrace" => \E r \in q + 1..s - 1 : sql[r] = "rbrace"}
Closers(s) == {e \in s + 1..Len(sql) : sql[e] = "rbrace"}
NameAt(s) == SubSeq(sql, s + 1, First(Closers(s)) - 1)

WellFormed(m) == \A s \in Openers : Closers(s) # {} /\ NameAt(s) \in DOMAIN m

\* Is p behind a brace that opened a placeholder, up to the one that closes it?
Inside(p) ==
    \E s \in Openers : s < p /\ \A q \in s..p - 1 : sql[q] # "rbrace"

\* What each token stands for in the new statement, and in the values.
TextOf(p) ==
    IF p \in Openers THEN <<"qmark">> ELSE IF Inside(p) THEN <<>> ELSE <<sql[p]>>
ValueOf(m, p) == IF p \in Openers THEN <<m[NameAt(p)]>> ELSE <<>>

Joined(parts) == FoldLeft(LAMBDA s, part : s \o part, <<>>, parts)
Replaced == Joined([p \in DOMAIN sql |-> TextOf(p)])
Bound(m) == Joined([p \in DOMAIN sql |-> ValueOf(m, p)])

-----------------------------------------------------------------------------
(* Properties *)

(* Every variable keeps its shape; a pass is for a row of the batch, and    *)
(* the rows before it have their values.                                    *)
TypeOK ==
    /\ sql \in Seq(Tokens) /\ rows \in Seq(Maps) /\ batch \in BOOLEAN
    /\ pc \in {"loop", "ok", "err"}
    /\ new_sql \in Seq(Tokens)
    /\ row \in 0..Len(rows) \cup {1} /\ i \in Nat \ {0}
    /\ pc = "loop" =>
         /\ rows # <<>>
         /\ Len(result.rows) = (IF row = 0 THEN 0 ELSE row - 1)

(* The loop is never inside a placeholder: every brace before the place     *)
(* where it goes on has been closed before it, and its name was found.      *)
LoopOK ==
    pc = "loop" =>
       /\ \A q \in 1..i - 1 : q \in DOMAIN sql /\ sql[q] = "lbrace" =>
             \E r \in q + 1..i - 1 : r \in DOMAIN sql /\ sql[r] = "rbrace"
       /\ \A s \in Openers : s < i =>
             Closers(s) # {} /\ NameAt(s) \in DOMAIN Params
       /\ \A k \in 1..Len(rows) : k < row => WellFormed(rows[k])

(* A call succeeds exactly if all placeholders are closed and all their     *)
(* names are among the parameters of every row.                             *)
OkIfWellFormed ==
    /\ pc = "ok" => \A k \in DOMAIN rows : WellFormed(rows[k])
    /\ pc = "err" => \E k \in DOMAIN rows : ~WellFormed(rows[k])

(* The statement has a ? for each placeholder and is otherwise as it was,   *)
(* and each row has the values of the names in their order, as many as      *)
(* there are placeholders.  Only an empty batch leaves the names in.        *)
ReplacedInOrder ==
    pc = "ok" /\ rows # <<>> =>
       /\ result.sql = Replaced
       /\ result.rows = [k \in DOMAIN rows |-> Bound(rows[k])]

(* The loop ends on every statement.                                        *)
CallEnds == <>(pc # "loop")
=============================================================================
