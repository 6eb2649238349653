------------------------- MODULE NamedParamsProofs --------------------------
(****************************************************************************)
(* Theorems about the loop of NamedParams, for statements and batches of    *)
(* any length and any tokens.                                               *)
(****************************************************************************)
EXTENDS NamedParams, WellFoundedInduction, TLAPS

-----------------------------------------------------------------------------
(* Positions and parts of a statement *)

LEMMA FirstOK ==
    ASSUME NEW S, S \subseteq Nat, S # {}
    PROVE  First(S) \in S /\ \A q \in S : First(S) <= q
  <1>1. PICK x \in S : \A y \in S : ~(<<y, x>> \in OpToRel(<, Nat))
    BY NatLessThanWellFounded, WFMin
  <1>2. \A y \in S : ~(y < x) /\ y \in Nat /\ x \in Nat
    BY <1>1 DEF OpToRel
  <1>3. \A y \in S : x <= y
    BY <1>2
  <1>4. QED
    BY <1>3 DEF First

LEMMA Part ==
    ASSUME NEW S, NEW s \in Seq(S), NEW a \in Nat \ {0}, NEW b \in Int, b <= Len(s)
    PROVE  SubSeq(s, a, b) \in Seq(S)
  OBVIOUS

LEMMA Built ==
    ASSUME NEW S, NEW u \in Seq(S), NEW v \in Seq(S), NEW x \in S
    PROVE  u \o v \in Seq(S) /\ u \o v \o <<x>> \in Seq(S)
  OBVIOUS

-----------------------------------------------------------------------------
(* The inductive invariant *)

\* The values an application may pass.
Values == UNION {{m[n] : n \in DOMAIN m} : m \in Maps}

\* The loop is in the statement, and the values of the rows done are in result.
ScanOK ==
    /\ i \in 1..Len(sql) + 1
    /\ values \in Seq(Values) /\ result.rows \in Seq(Seq(Values))
    /\ pc = "loop" => row \in 0..Len(rows)

ParamsInv == TypeOK /\ ScanOK /\ LoopOK /\ OkIfWellFormed

LEMMA StatementOK ==
    ASSUME ParamsInv
    PROVE  /\ sql \in Seq(Tokens) /\ DOMAIN sql = 1..Len(sql)
           /\ Len(sql) \in Nat /\ i \in Nat /\ i >= 1 /\ i <= Len(sql) + 1
  <1>1. sql \in Seq(Tokens) /\ i \in 1..Len(sql) + 1
    BY DEF ParamsInv, TypeOK, ScanOK
  <1>2. QED
    BY <1>1

\* Positions before the first of those with the token t have another token.
LEMMA FindOK ==
    ASSUME NEW t, NEW from \in Nat, Len(sql) \in Nat, Find(t, from) # {},
           NEW p, p = First(Find(t, from))
    PROVE  /\ p \in Nat /\ from <= p /\ p <= Len(sql) /\ sql[p] = t
           /\ \A q \in Nat : from <= q /\ q < p => sql[q] # t
  <1>1. Find(t, from) \subseteq Nat
    BY DEF Find
  <1>2. p \in Find(t, from) /\ \A q \in Find(t, from) : p <= q
    BY <1>1, FirstOK
  <1>3. p \in from..Len(sql) /\ sql[p] = t
    BY <1>2 DEF Find
  <1>4. p \in Nat /\ from <= p /\ p <= Len(sql)
    BY <1>3
  <1>5. ASSUME NEW q \in Nat, from <= q, q < p
        PROVE  sql[q] # t
    <2>1. q \in from..Len(sql) /\ ~(p <= q)
      BY <1>4, <1>5
    <2>2. q \notin Find(t, from)
      BY <1>2, <2>1
    <2>3. QED
      BY <2>1, <2>2 DEF Find
  <1>6. QED
    BY <1>3, <1>4, <1>5

\* The next placeholder, if there is one.
LEMMA NextOpening ==
    ASSUME ParamsInv, ~Finished
    PROVE  /\ Start \in Nat /\ i <= Start /\ Start <= Len(sql) /\ sql[Start] = "lbrace"
           /\ \A q \in Nat : i <= q /\ q < Start => sql[q] # "lbrace"
           /\ Closers(Start) = Find("rbrace", Start + 1)
  <1>1. Len(sql) \in Nat /\ i \in Nat
    BY StatementOK
  <1>2. Find("lbrace", i) # {}
    BY DEF Finished
  <1>3. /\ Start \in Nat /\ i <= Start /\ Start <= Len(sql) /\ sql[Start] = "lbrace"
        /\ \A q \in Nat : i <= q /\ q < Start => sql[q] # "lbrace"
    BY <1>1, <1>2, FindOK DEF Start
  <1>4. Closers(Start) = Find("rbrace", Start + 1)
    BY DEF Closers, Find
  <1>5. QED
    BY <1>3, <1>4

\* Its end, if it has one.
LEMMA NextClosing ==
    ASSUME ParamsInv, ~Finished, ~Unclosed
    PROVE  /\ End \in Nat /\ Start < End /\ End <= Len(sql) /\ sql[End] = "rbrace"
           /\ \A q \in Nat : Start < q /\ q < End => sql[q] # "rbrace"
           /\ NameAt(Start) = Name
  <1>1. /\ Len(sql) \in Nat /\ Start \in Nat
        /\ Closers(Start) = Find("rbrace", Start + 1)
    BY StatementOK, NextOpening
  <1>2. Find("rbrace", Start + 1) # {} /\ Start + 1 \in Nat
    BY <1>1 DEF Unclosed
  <1>3. /\ End \in Nat /\ Start + 1 <= End /\ End <= Len(sql) /\ sql[End] = "rbrace"
        /\ \A q \in Nat : Start + 1 <= q /\ q < End => sql[q] # "rbrace"
    BY <1>1, <1>2, FindOK DEF End
  <1>4. Start < End /\ \A q \in Nat : Start < q => Start + 1 <= q
    BY <1>1, <1>3
  <1>5. NameAt(Start) = Name
    BY <1>1 DEF NameAt, Name, End
  <1>6. QED
    BY <1>3, <1>4, <1>5

\* Every brace before the place where the loop goes on has been closed.
LEMMA Closed ==
    ASSUME ParamsInv, pc = "loop", NEW q \in Nat, 1 <= q, q < i, sql[q] = "lbrace"
    PROVE  \E r \in Nat : q < r /\ r < i /\ sql[r] = "rbrace"
  <1>1. /\ DOMAIN sql = 1..Len(sql) /\ Len(sql) \in Nat /\ i \in Nat
        /\ i <= Len(sql) + 1
    BY StatementOK
  <1>2. q \in 1..i - 1 /\ q \in DOMAIN sql
    BY <1>1
  <1>3. PICK r \in q + 1..i - 1 : sql[r] = "rbrace"
    BY <1>2 DEF ParamsInv, LoopOK
  <1>4. r \in Nat /\ q < r /\ r < i
    BY <1>1
  <1>5. QED
    BY <1>3, <1>4

\* It opens a placeholder: the loop is never inside one.
LEMMA StartOpens ==
    ASSUME ParamsInv, pc = "loop", ~Finished
    PROVE  Start \in Openers
  <1>1. /\ Start \in Nat /\ i <= Start /\ Start <= Len(sql) /\ sql[Start] = "lbrace"
        /\ \A q \in Nat : i <= q /\ q < Start => sql[q] # "lbrace"
    BY NextOpening
  <1>2. DOMAIN sql = 1..Len(sql) /\ Len(sql) \in Nat /\ i \in Nat /\ i >= 1
    BY StatementOK
  <1>3. ASSUME NEW q \in 1..Start - 1, sql[q] = "lbrace"
        PROVE  \E r \in q + 1..Start - 1 : sql[r] = "rbrace"
    <2>1. q \in Nat /\ 1 <= q /\ q < Start
      BY <1>1
    <2>2. q < i
      BY <1>1, <1>2, <1>3, <2>1
    <2>3. PICK r \in Nat : q < r /\ r < i /\ sql[r] = "rbrace"
      BY <1>3, <2>1, <2>2, Closed
    <2>4. r \in q + 1..Start - 1
      BY <1>1, <1>2, <2>1, <2>3
    <2>5. QED
      BY <2>3, <2>4
  <1>4. Start \in DOMAIN sql
    BY <1>1, <1>2
  <1>5. QED
    BY <1>1, <1>3, <1>4 DEF Openers

\* A name is a part of the statement.
LEMMA ParamsOK ==
    ASSUME ParamsInv, pc = "loop"
    PROVE  /\ rows \in Seq(Maps) /\ Len(rows) \in Nat \ {0} /\ row \in 0..Len(rows)
           /\ (IF row = 0 THEN 1 ELSE row) \in DOMAIN rows /\ Params \in Maps
           /\ \A n \in DOMAIN Params : Params[n] \in Values
  <1>1. /\ rows \in Seq(Maps) /\ rows # <<>> /\ row \in 0..Len(rows)
    BY DEF ParamsInv, TypeOK, ScanOK
  <1>2. Len(rows) \in Nat \ {0} /\ DOMAIN rows = 1..Len(rows)
    BY <1>1
  <1>3. (IF row = 0 THEN 1 ELSE row) \in DOMAIN rows
    BY <1>1, <1>2
  <1>4. Params \in Maps
    BY <1>1, <1>3 DEF Params
  <1>5. QED
    BY <1>1, <1>2, <1>3, <1>4 DEF Values

\* No step changes the statement.
LEMMA SameText ==
    ASSUME sql' = sql
    PROVE  /\ Openers' = Openers
           /\ \A s : Closers(s)' = Closers(s) /\ NameAt(s)' = NameAt(s)
           /\ \A m : WellFormed(m)' = WellFormed(m)
  <1>1. Openers' = Openers
    BY DEF Openers
  <1>2. \A s : Closers(s)' = Closers(s) /\ NameAt(s)' = NameAt(s)
    BY DEF Closers, NameAt
  <1>3. QED
    BY <1>1, <1>2 DEF WellFormed

\* A placeholder is replaced.
LEMMA ReplaceKeeps ==
    ASSUME ParamsInv, Replace
    PROVE  ParamsInv'
  <1>1. pc = "loop" /\ ~Finished /\ ~Unclosed /\ Name \in DOMAIN Params
    BY DEF Replace
  <1>2. /\ new_sql' = new_sql \o SubSeq(sql, i, Start - 1) \o <<"qmark">>
        /\ values' = Append(values, Params[Name]) /\ i' = End + 1
        /\ sql' = sql /\ rows' = rows /\ batch' = batch
        /\ pc' = pc /\ row' = row /\ result' = result
    BY DEF Replace, Resume, input
  <1>3. /\ sql \in Seq(Tokens) /\ DOMAIN sql = 1..Len(sql)
        /\ Len(sql) \in Nat /\ i \in Nat /\ i >= 1 /\ i <= Len(sql) + 1
    BY StatementOK
  <1>4. /\ Start \in Nat /\ i <= Start /\ Start <= Len(sql) /\ sql[Start] = "lbrace"
        /\ \A q \in Nat : i <= q /\ q < Start => sql[q] # "lbrace"
    BY <1>1, NextOpening
  <1>5. /\ End \in Nat /\ Start < End /\ End <= Len(sql) /\ sql[End] = "rbrace"
        /\ \A q \in Nat : Start < q /\ q < End => sql[q] # "rbrace"
        /\ NameAt(Start) = Name
    BY <1>1, NextClosing
  <1>6. i' \in Nat \ {0} /\ i' \in 1..Len(sql) + 1 /\ i < i'
    BY <1>2, <1>3, <1>4, <1>5
  <1>7. TypeOK'
    <2>1. Start - 1 \in Int /\ Start - 1 <= Len(sql) /\ i \in Nat \ {0}
      BY <1>3, <1>4
    <2>2. SubSeq(sql, i, Start - 1) \in Seq(Tokens)
      BY <1>3, <2>1, Part
    <2>3. new_sql \in Seq(Tokens) /\ "qmark" \in Tokens
      BY NamedParamsAssumption DEF ParamsInv, TypeOK
    <2>4. new_sql' \in Seq(Tokens)
      BY <1>2, <2>2, <2>3, Built
    <2>5. TypeOK
      BY DEF ParamsInv
    <2>6. QED
      BY <1>2, <1>6, <2>4, <2>5 DEF TypeOK
  <1>8. ScanOK'
    <2>1. Params[Name] \in Values
      BY <1>1, ParamsOK
    <2>2. values \in Seq(Values)
      BY DEF ParamsInv, ScanOK
    <2>3. values' \in Seq(Values)
      BY <1>2, <2>1, <2>2
    <2>4. QED
      BY <1>2, <1>6, <2>3 DEF ParamsInv, ScanOK
  <1>9. ASSUME NEW q \in 1..End, sql[q] = "lbrace"
        PROVE  \E r \in q + 1..End : sql[r] = "rbrace"
    <2>1. q \in Nat /\ 1 <= q /\ q <= End
      BY <1>5
    <2>2. CASE q < i
      <3>1. PICK r \in Nat : q < r /\ r < i /\ sql[r] = "rbrace"
        BY <1>1, <1>9, <2>1, <2>2, Closed
      <3>2. r \in q + 1..End
        BY <1>3, <1>4, <1>5, <2>1, <3>1
      <3>3. QED
        BY <3>1, <3>2
    <2>3. CASE q >= i
      <3>1. q >= Start
        BY <1>3, <1>4, <1>9, <2>1, <2>3
      <3>2. q # End
        BY <1>5, <1>9
      <3>3. End \in q + 1..End
        BY <1>5, <2>1, <3>2
      <3>4. QED
        BY <1>5, <3>3
    <2>4. QED
      BY <1>3, <2>1, <2>2, <2>3
  <1>10. ASSUME NEW s \in Openers, s < i'
         PROVE  Closers(s) # {} /\ NameAt(s) \in DOMAIN Params
    <2>1. s \in Nat /\ 1 <= s /\ s <= End /\ sql[s] = "lbrace"
      <3>1. s \in 1..Len(sql) /\ sql[s] = "lbrace"
        BY <1>3 DEF Openers
      <3>2. QED
        BY <1>2, <1>3, <1>5, <1>10, <3>1
    <2>2. CASE s < i
      BY <1>1, <2>2 DEF ParamsInv, LoopOK
    <2>3. CASE s >= i
      <3>1. s >= Start
        BY <1>3, <1>4, <2>1, <2>3
      <3>2. s # End
        BY <1>5, <2>1
      <3>3. ~(Start < s)
        <4>1. SUFFICES ASSUME Start < s PROVE FALSE
          OBVIOUS
        <4>2. Start \in 1..s - 1 /\ s < End
          BY <1>3, <1>4, <1>5, <2>1, <3>2, <4>1
        <4>3. PICK r \in Start + 1..s - 1 : sql[r] = "rbrace"
          BY <1>4, <4>2 DEF Openers
        <4>4. r \in Nat /\ Start < r /\ r < End
          BY <1>4, <1>5, <2>1, <4>2
        <4>5. QED
          BY <1>5, <4>3, <4>4
      <3>4. s = Start
        BY <1>4, <2>1, <3>1, <3>3
      <3>5. Closers(Start) # {}
        BY <1>1, NextOpening DEF Unclosed
      <3>6. QED
        BY <1>1, <1>5, <3>4, <3>5
    <2>4. QED
      BY <1>3, <2>1, <2>2, <2>3
  <1>11. LoopOK'
    <2>1. \A q \in 1..i' - 1 : q \in DOMAIN sql' /\ sql'[q] = "lbrace" =>
             \E r \in q + 1..i' - 1 : r \in DOMAIN sql' /\ sql'[r] = "rbrace"
      <3>1. i' - 1 = End
        BY <1>2, <1>5
      <3>2. ASSUME NEW q \in 1..End, sql[q] = "lbrace"
            PROVE  \E r \in q + 1..End : r \in DOMAIN sql /\ sql[r] = "rbrace"
        <4>1. PICK r \in q + 1..End : sql[r] = "rbrace"
          BY <1>9, <3>2
        <4>2. r \in DOMAIN sql
          BY <1>3, <1>5
        <4>3. QED
          BY <4>1, <4>2
      <3>3. QED
        BY <1>2, <3>1, <3>2
    <2>2. \A s \in Openers : s < i' => Closers(s) # {} /\ NameAt(s) \in DOMAIN Params
      BY <1>10
    <2>3. \A k \in 1..Len(rows) : k < row => WellFormed(rows[k])
      BY <1>1 DEF ParamsInv, LoopOK
    <2>4. /\ Openers' = Openers /\ Params' = Params
          /\ \A s : Closers(s)' = Closers(s) /\ NameAt(s)' = NameAt(s)
          /\ \A m : WellFormed(m)' = WellFormed(m)
      BY <1>2, SameText DEF Params
    <2>5. QED
      BY <1>2, <2>1, <2>2, <2>3, <2>4 DEF LoopOK
  <1>12. OkIfWellFormed'
    BY <1>1, <1>2 DEF OkIfWellFormed
  <1>13. QED
    BY <1>7, <1>8, <1>11, <1>12 DEF ParamsInv

\* A placeholder is not closed, or a row has no value for it.
LEMMA FailKeeps ==
    ASSUME ParamsInv, FailUnclosed \/ FailMissing
    PROVE  ParamsInv'
  <1>1. /\ pc = "loop" /\ ~Finished
        /\ Unclosed \/ Name \notin DOMAIN Params
        /\ pc' = "err" /\ sql' = sql /\ rows' = rows /\ batch' = batch
        /\ row' = row /\ i' = i /\ new_sql' = new_sql /\ values' = values
        /\ result' = result
    BY DEF FailUnclosed, FailMissing, Fail, input
  <1>2. TypeOK' /\ ScanOK' /\ LoopOK'
    <2>1. TypeOK /\ ScanOK
      BY DEF ParamsInv
    <2>2. QED
      BY <1>1, <2>1 DEF TypeOK, ScanOK, LoopOK
  <1>3. Start \in Openers
    BY <1>1, StartOpens
  <1>4. ~WellFormed(Params)
    <2>1. CASE Unclosed
      <3>1. Closers(Start) = {}
        BY <1>1, <2>1, NextOpening DEF Unclosed
      <3>2. QED
        BY <1>3, <3>1 DEF WellFormed
    <2>2. CASE ~Unclosed /\ Name \notin DOMAIN Params
      <3>1. NameAt(Start) = Name
        BY <1>1, <2>2, NextClosing
      <3>2. QED
        BY <1>3, <2>2, <3>1 DEF WellFormed
    <2>3. QED
      BY <1>1, <2>1, <2>2
  <1>5. \E k \in DOMAIN rows : ~WellFormed(rows[k])
    BY <1>1, <1>4, ParamsOK DEF Params
  <1>6. OkIfWellFormed'
    <2>1. \A m : WellFormed(m)' = WellFormed(m)
      BY <1>1, SameText
    <2>2. QED
      BY <1>1, <1>5, <2>1 DEF OkIfWellFormed
  <1>7. QED
    BY <1>2, <1>6 DEF ParamsInv

\* What a pass that has come to the end has found.
LEMMA PassFound ==
    ASSUME ParamsInv, pc = "loop", Finished
    PROVE  WellFormed(Params)
  <1>1. DOMAIN sql = 1..Len(sql) /\ Len(sql) \in Nat /\ i \in Nat
    BY StatementOK
  <1>2. ASSUME NEW s \in Openers
        PROVE  s < i
    <2>1. s \in 1..Len(sql) /\ sql[s] = "lbrace"
      BY <1>1 DEF Openers
    <2>2. CASE i > Len(sql)
      BY <1>1, <2>1, <2>2
    <2>3. CASE Find("lbrace", i) = {}
      <3>1. s \notin i..Len(sql)
        BY <2>1, <2>3 DEF Find
      <3>2. QED
        BY <1>1, <2>1, <3>1
    <2>4. QED
      BY <2>2, <2>3 DEF Finished
  <1>3. \A s \in Openers : Closers(s) # {} /\ NameAt(s) \in DOMAIN Params
    BY <1>2 DEF ParamsInv, LoopOK
  <1>4. QED
    BY <1>3 DEF WellFormed

LEMMA EndPassKeeps ==
    ASSUME ParamsInv, EndPass
    PROVE  ParamsInv'
  <1>1. /\ pc = "loop" /\ Finished /\ sql' = sql /\ rows' = rows /\ batch' = batch
        /\ result'.rows = RowsDone
    BY DEF EndPass, input
  <1>2. /\ rows \in Seq(Maps) /\ Len(rows) \in Nat \ {0} /\ row \in 0..Len(rows)
        /\ DOMAIN rows = 1..Len(rows)
    BY <1>1, ParamsOK
  <1>3. /\ values \in Seq(Values) /\ result.rows \in Seq(Seq(Values))
        /\ Len(result.rows) = (IF row = 0 THEN 0 ELSE row - 1)
        /\ i \in Nat \ {0} /\ i \in 1..Len(sql) + 1 /\ new_sql \in Seq(Tokens)
        /\ sql \in Seq(Tokens) /\ batch \in BOOLEAN
    BY <1>1 DEF ParamsInv, TypeOK, ScanOK
  <1>4. RowsDone \in Seq(Seq(Values)) /\ Len(RowsDone) = row
    <2>1. CASE row = 0
      BY <2>1 DEF RowsDone
    <2>2. CASE row # 0
      <3>1. Append(result.rows, values) \in Seq(Seq(Values))
        BY <1>3
      <3>2. Len(Append(result.rows, values)) = (row - 1) + 1
        BY <1>3, <2>2
      <3>3. QED
        BY <1>2, <2>2, <3>1, <3>2 DEF RowsDone
    <2>3. QED
      BY <2>1, <2>2
  <1>5. /\ \A k \in 1..Len(rows) : k <= row => WellFormed(rows[k])
        /\ \A m : WellFormed(m)' = WellFormed(m)
    <2>1. \A k \in 1..Len(rows) : k < row => WellFormed(rows[k])
      BY <1>1 DEF ParamsInv, LoopOK
    <2>2. row # 0 => WellFormed(rows[row])
      BY <1>1, PassFound DEF Params
    <2>3. QED
      BY <1>1, <1>2, <2>1, <2>2, SameText
  <1>6. CASE row = Len(rows)
    <2>1. /\ pc' = "ok" /\ row' = row /\ i' = i /\ new_sql' = new_sql
          /\ values' = values
      BY <1>6 DEF EndPass
    <2>2. TypeOK' /\ ScanOK' /\ LoopOK'
      BY <1>1, <1>2, <1>3, <1>4, <2>1 DEF TypeOK, ScanOK, LoopOK
    <2>3. \A k \in DOMAIN rows : WellFormed(rows[k])
      BY <1>2, <1>5, <1>6
    <2>4. OkIfWellFormed'
      BY <1>1, <1>5, <2>1, <2>3 DEF OkIfWellFormed
    <2>5. QED
      BY <2>2, <2>4 DEF ParamsInv
  <1>7. CASE row # Len(rows)
    <2>1. /\ pc' = "loop" /\ row' = row + 1 /\ i' = 1 /\ new_sql' = <<>>
          /\ values' = <<>>
      BY <1>1, <1>7 DEF EndPass, NoValues
    <2>2. /\ row' \in 0..Len(rows) /\ row' # 0 /\ Len(RowsDone) = row' - 1
          /\ rows # <<>>
      <3>1. row \in Nat /\ Len(rows) \in Nat /\ row <= Len(rows) /\ rows # <<>>
        BY <1>2
      <3>2. row + 1 \in 0..Len(rows) /\ row + 1 # 0 /\ row = (row + 1) - 1
        BY <1>7, <3>1
      <3>3. QED
        BY <1>4, <2>1, <3>1, <3>2
    <2>3. TypeOK'
      BY <1>1, <1>2, <1>3, <2>1, <2>2 DEF TypeOK
    <2>4. 1 \in 1..Len(sql) + 1
      BY <1>3
    <2>5. ScanOK'
      BY <1>1, <1>4, <2>1, <2>2, <2>4 DEF ScanOK
    <2>6. LoopOK'
      <3>1. \A s \in Openers' : ~(s < i')
        BY <1>1, <1>3, <2>1 DEF Openers
      <3>2. \A k \in 1..Len(rows) : k < row' => k <= row
        BY <1>2, <2>1
      <3>3. \A q : q \notin 1..i' - 1
        BY <2>1
      <3>4. QED
        BY <1>1, <1>5, <3>1, <3>2, <3>3 DEF LoopOK
    <2>7. OkIfWellFormed'
      BY <2>1 DEF OkIfWellFormed
    <2>8. QED
      BY <2>3, <2>5, <2>6, <2>7 DEF ParamsInv
  <1>8. QED
    BY <1>6, <1>7

LEMMA InitParams ==
    ASSUME Init
    PROVE  ParamsInv
  <1>1. /\ sql \in Seq(Tokens) /\ rows \in Seq(Maps)
    BY NamedParamsAssumption DEF Init, SeqOf
  <1>2. /\ batch \in BOOLEAN /\ row \in {0, 1} /\ i = 1 /\ new_sql = <<>>
        /\ values = <<>> /\ result.rows = <<>>
        /\ IF rows = <<>> THEN pc = "ok" ELSE pc = "loop"
    BY DEF Init, NoResult
  <1>3. /\ Len(sql) \in Nat /\ Len(rows) \in Nat /\ DOMAIN rows = 1..Len(rows)
        /\ rows # <<>> => Len(rows) # 0 /\ DOMAIN sql = 1..Len(sql)
    BY <1>1
  <1>4. row \in 0..Len(rows) \cup {1} /\ (rows # <<>> => row \in 0..Len(rows))
    BY <1>2, <1>3
  <1>5. TypeOK
    BY <1>1, <1>2, <1>4 DEF TypeOK
  <1>6. ScanOK
    BY <1>2, <1>3, <1>4 DEF ScanOK
  <1>7. LoopOK
    <2>1. \A s \in Openers : ~(s < i)
      BY <1>1, <1>2 DEF Openers
    <2>2. \A k \in 1..Len(rows) : ~(k < row)
      BY <1>2, <1>3
    <2>3. \A q : q \notin 1..i - 1
      BY <1>2
    <2>4. QED
      BY <2>1, <2>2, <2>3 DEF LoopOK
  <1>8. OkIfWellFormed
    <2>1. rows = <<>> => DOMAIN rows = {}
      BY <1>3
    <2>2. QED
      BY <1>2, <2>1 DEF OkIfWellFormed
  <1>9. QED
    BY <1>5, <1>6, <1>7, <1>8 DEF ParamsInv

LEMMA ParamsKept == ParamsInv /\ [Next]_vars => ParamsInv'
  <1> SUFFICES ASSUME ParamsInv, [Next]_vars PROVE ParamsInv'
    OBVIOUS
  <1>1. CASE UNCHANGED vars
    <2>1. /\ sql' = sql /\ rows' = rows /\ batch' = batch /\ pc' = pc /\ row' = row
          /\ i' = i /\ new_sql' = new_sql /\ values' = values /\ result' = result
      BY <1>1 DEF vars
    <2>2. /\ Openers' = Openers /\ Params' = Params
          /\ \A s : Closers(s)' = Closers(s) /\ NameAt(s)' = NameAt(s)
          /\ \A m : WellFormed(m)' = WellFormed(m)
      BY <2>1, SameText DEF Params
    <2>3. TypeOK' /\ ScanOK' /\ LoopOK' /\ OkIfWellFormed'
      BY <2>1, <2>2 DEF ParamsInv, TypeOK, ScanOK, LoopOK, OkIfWellFormed
    <2>4. QED
      BY <2>3 DEF ParamsInv
  <1>2. QED
    BY <1>1, ReplaceKeeps, FailKeeps, EndPassKeeps DEF Next

THEOREM ParamsInvariance == Spec => []ParamsInv
  <1>1. Init => ParamsInv
    BY InitParams
  <1>2. QED
    BY <1>1, ParamsKept, PTL DEF Spec

-----------------------------------------------------------------------------
(* The theorems *)

(* Every variable keeps its shape for statements and batches of any length: *)
(* a pass is for a row of the batch, and the rows before have their values. *)
THEOREM TypeCorrect == Spec => []TypeOK
  <1>1. ParamsInv => TypeOK
    BY DEF ParamsInv
  <1>2. QED
    BY <1>1, ParamsInvariance, PTL

(* The loop never goes on inside a placeholder, not even when a name or the *)
(* text has braces of its own, and has found the names it has passed.       *)
THEOREM NeverInside == Spec => []LoopOK
  <1>1. ParamsInv => LoopOK
    BY DEF ParamsInv
  <1>2. QED
    BY <1>1, ParamsInvariance, PTL

(* A call of any length of statement and batch answers Ok only if every     *)
(* placeholder is closed and every row has all its names, and an error only *)
(* if one is open or some row lacks a name.                                 *)
THEOREM AnswersRightly == Spec => []OkIfWellFormed
  <1>1. ParamsInv => OkIfWellFormed
    BY DEF ParamsInv
  <1>2. QED
    BY <1>1, ParamsInvariance, PTL

-----------------------------------------------------------------------------
(* The parts of the statement joined so far *)

Joins == INSTANCE FoldLaws WITH Op <- LAMBDA s, part : s \o part

LEMMA JoinedNone == Joined(<<>>) = <<>>
  <1>1. Joins!Fold(<<>>, <<>>) = <<>>
    BY Joins!FoldEmpty
  <1>2. QED
    BY <1>1 DEF Joined, FoldLeft, MapThenFoldSet, Max, Joins!Fold,
       Joins!FoldLeft, Joins!MapThenFoldSet, Joins!Max

LEMMA JoinedAppend ==
    ASSUME NEW E, NEW s \in Seq(Seq(E)), NEW e \in Seq(E)
    PROVE  Joined(Append(s, e)) = Joined(s) \o e
  <1>1. Joins!Fold(<<>>, Append(s, e)) = Joins!Fold(<<>>, s) \o e
    BY Joins!FoldAppend
  <1>2. QED
    BY <1>1 DEF Joined, FoldLeft, MapThenFoldSet, Max, Joins!Fold,
       Joins!FoldLeft, Joins!MapThenFoldSet, Joins!Max

LEMMA JoinedIn ==
    ASSUME NEW E, NEW s \in Seq(Seq(E))
    PROVE  Joined(s) \in Seq(E)
  <1>1. <<>> \in Seq(E) /\ \A x \in Seq(E), e \in Seq(E) : x \o e \in Seq(E)
    OBVIOUS
  <1>2. Joins!Fold(<<>>, s) \in Seq(E)
    BY <1>1, Joins!FoldIn
  <1>3. QED
    BY <1>2 DEF Joined, FoldLeft, MapThenFoldSet, Max, Joins!Fold,
       Joins!FoldLeft, Joins!MapThenFoldSet, Joins!Max

\* The first k parts.
Upto(f, k) == Joined([p \in 1..k |-> f[p]])

LEMMA UptoNone ==
    ASSUME NEW f
    PROVE  Upto(f, 0) = <<>>
  <1>1. [p \in 1..0 |-> f[p]] = <<>>
    OBVIOUS
  <1>2. QED
    BY <1>1, JoinedNone DEF Upto

LEMMA UptoMore ==
    ASSUME NEW E, NEW n \in Nat, NEW f \in [1..n -> Seq(E)],
           NEW k \in Nat, k + 1 <= n
    PROVE  Upto(f, k + 1) = Upto(f, k) \o f[k + 1] /\ Upto(f, k) \in Seq(E)
  <1> DEFINE s == [p \in 1..k |-> f[p]]
             t == [p \in 1..k + 1 |-> f[p]]
  <1>1. s \in Seq(Seq(E)) /\ Len(s) = k
    OBVIOUS
  <1>2. f[k + 1] \in Seq(E)
    OBVIOUS
  <1>3. t = Append(s, f[k + 1])
    <2>1. /\ Append(s, f[k + 1]) \in Seq(Seq(E)) /\ t \in Seq(Seq(E))
          /\ Len(Append(s, f[k + 1])) = k + 1 /\ Len(t) = k + 1
      BY <1>1, <1>2
    <2>2. ASSUME NEW p \in 1..k + 1 PROVE t[p] = Append(s, f[k + 1])[p]
      <3>1. CASE p = k + 1
        BY <1>1, <3>1
      <3>2. CASE p # k + 1
        BY <1>1, <3>2
      <3>3. QED
        BY <3>1, <3>2
    <2>3. QED
      BY <2>1, <2>2
  <1> HIDE DEF s, t
  <1>4. Joined(t) = Joined(s) \o f[k + 1] /\ Joined(s) \in Seq(E)
    BY <1>1, <1>2, <1>3, JoinedAppend, JoinedIn
  <1>5. QED
    BY <1>4 DEF Upto, s, t

\* From a to b, one at a time.
LEMMA Climb ==
    ASSUME NEW S, NEW a \in Nat, NEW b \in Nat, a <= b, a \in S,
           \A c \in Nat : a <= c /\ c < b /\ c \in S => c + 1 \in S
    PROVE  b \in S
  <1> DEFINE N == {c \in Nat : a <= c /\ c <= b => c \in S}
  <1>1. 0 \in N
    <2>1. a <= 0 => a = 0
      OBVIOUS
    <2>2. QED
      BY <2>1
  <1>2. ASSUME NEW c \in Nat, c \in N PROVE c + 1 \in N
    <2>1. SUFFICES ASSUME a <= c + 1, c + 1 <= b PROVE c + 1 \in S
      OBVIOUS
    <2>2. CASE a = c + 1
      BY <2>2
    <2>3. CASE a # c + 1
      <3>1. a <= c /\ c < b
        BY <2>1, <2>3
      <3>2. c \in S
        BY <1>2, <3>1
      <3>3. QED
        BY <3>1, <3>2
    <2>4. QED
      BY <2>2, <2>3
  <1> HIDE DEF N
  <1>3. b \in N
    BY <1>1, <1>2, Joins!NatSetInduction
  <1>4. QED
    BY <1>3 DEF N

\* n parts, and the numbers a and b of those before and after some of them.
Span(E, n, f, a, b) ==
    /\ n \in Nat /\ f \in [1..n -> Seq(E)]
    /\ a \in Nat /\ b \in Nat /\ a <= b /\ b <= n

\* Parts that are empty.
Empties(f, a, b) == \A p \in a + 1..b : f[p] = <<>>

LEMMA UptoSkip ==
    ASSUME NEW E, NEW n, NEW f, NEW a, NEW b, Span(E, n, f, a, b), Empties(f, a, b)
    PROVE  Upto(f, b) = Upto(f, a)
  <1> SUFFICES ASSUME n \in Nat, f \in [1..n -> Seq(E)],
                      a \in Nat, b \in Nat, a <= b, b <= n,
                      \A p \in a + 1..b : f[p] = <<>>
               PROVE  Upto(f, b) = Upto(f, a)
    BY DEF Span, Empties
  <1> DEFINE S == {c \in Nat : Upto(f, c) = Upto(f, a)}
  <1>1. a \in S
    OBVIOUS
  <1>2. ASSUME NEW c \in Nat, a <= c, c < b, Upto(f, c) = Upto(f, a)
        PROVE  Upto(f, c + 1) = Upto(f, a)
    <2> HIDE DEF S
    <2>1. c + 1 <= n /\ c + 1 \in a + 1..b
      BY <1>2
    <2>2. Upto(f, c + 1) = Upto(f, c) \o f[c + 1] /\ Upto(f, c) \in Seq(E)
      BY <2>1, UptoMore
    <2>3. f[c + 1] = <<>>
      BY <2>1
    <2>4. Upto(f, c + 1) = Upto(f, c)
      BY <2>2, <2>3
    <2>5. QED
      BY <1>2, <2>4
  <1>3. b \in S
    <2>1. \A c \in Nat : a <= c /\ c < b /\ c \in S => c + 1 \in S
      BY <1>2
    <2> HIDE DEF S
    <2>2. QED
      BY <1>1, <2>1, Climb
  <1>4. QED
    BY <1>3

LEMMA JoinLast ==
    ASSUME NEW E
    PROVE  \A u \in Seq(E), v \in Seq(E), x \in E :
              (u \o v) \o <<x>> = u \o Append(v, x)
  <1> TAKE u \in Seq(E), v \in Seq(E), x \in E
  <1> DEFINE l == (u \o v) \o <<x>>
             r == u \o Append(v, x)
  <1>1. /\ l \in Seq(E) /\ r \in Seq(E)
        /\ Len(l) = Len(u) + Len(v) + 1 /\ Len(r) = Len(u) + Len(v) + 1
    OBVIOUS
  <1>2. \A k \in 1..Len(l) : l[k] = r[k]
    OBVIOUS
  <1> HIDE DEF l, r
  <1>3. l = r
    BY <1>1, <1>2
  <1>4. QED
    BY <1>3 DEF l, r

\* Between a and b, the parts are the elements of g.
Copies(f, g, a, b) == Upto(f, b) = Upto(f, a) \o SubSeq(g, a + 1, b)

LEMMA UptoElements ==
    ASSUME NEW E, NEW n \in Nat, NEW f \in [1..n -> Seq(E)], NEW g \in Seq(E),
           NEW a \in Nat, NEW b \in Nat, a <= b, b <= n, b <= Len(g),
           \A p \in a + 1..b : f[p] = <<g[p]>>
    PROVE  Copies(f, g, a, b)
  <1> DEFINE S == {c \in Nat : Upto(f, c) = Upto(f, a) \o SubSeq(g, a + 1, c)}
  <1>0. Upto(f, a) \in Seq(E)
    <2>1. [p \in 1..a |-> f[p]] \in Seq(Seq(E))
      OBVIOUS
    <2>2. QED
      BY <2>1, JoinedIn DEF Upto
  <1>1. a \in S
    <2>1. SubSeq(g, a + 1, a) = <<>>
      OBVIOUS
    <2>2. QED
      BY <1>0, <2>1
  <1>2. ASSUME NEW c \in Nat, a <= c, c < b,
               Upto(f, c) = Upto(f, a) \o SubSeq(g, a + 1, c)
        PROVE  Upto(f, c + 1) = Upto(f, a) \o SubSeq(g, a + 1, c + 1)
    <2> HIDE DEF S
    <2> DEFINE v == SubSeq(g, a + 1, c)
    <2>1. c + 1 <= n /\ c + 1 \in a + 1..b
      BY <1>2
    <2>2. Upto(f, c + 1) = Upto(f, c) \o f[c + 1]
      BY <2>1, UptoMore
    <2>3. f[c + 1] = <<g[c + 1]>>
      BY <2>1
    <2>4. SubSeq(g, a + 1, c + 1) = Append(v, g[c + 1]) /\ v \in Seq(E)
          /\ g[c + 1] \in E
      BY <1>2
    <2> HIDE DEF v
    <2>5. (Upto(f, a) \o v) \o <<g[c + 1]>> = Upto(f, a) \o Append(v, g[c + 1])
      <3> DEFINE u == Upto(f, a)
                 x == g[c + 1]
      <3>1. u \in Seq(E) /\ v \in Seq(E) /\ x \in E
        BY <1>0, <2>4
      <3> HIDE DEF u, x
      <3>2. (u \o v) \o <<x>> = u \o Append(v, x)
        BY <3>1, JoinLast
      <3>3. QED
        BY <3>2 DEF u, x
    <2>6. Upto(f, c) = Upto(f, a) \o v
      BY <1>2 DEF v
    <2>7. QED
      BY <2>2, <2>3, <2>4, <2>5, <2>6
  <1>3. b \in S
    <2>1. \A c \in Nat : a <= c /\ c < b /\ c \in S => c + 1 \in S
      <3>1. SUFFICES ASSUME NEW c \in Nat, a <= c, c < b, c \in S
                     PROVE  c + 1 \in S
        OBVIOUS
      <3>2. Upto(f, c) = Upto(f, a) \o SubSeq(g, a + 1, c)
        BY <3>1
      <3>3. Upto(f, c + 1) = Upto(f, a) \o SubSeq(g, a + 1, c + 1)
        BY <1>2, <3>1, <3>2
      <3>4. c + 1 \in Nat
        OBVIOUS
      <3>5. QED
        BY <3>3, <3>4, Zenon
    <2> HIDE DEF S
    <2>2. QED
      BY <1>1, <2>1, Climb
  <1>4. QED
    BY <1>3 DEF Copies

\* Parts that are the elements of a sequence.
Elements(E, f, g, a, b) ==
    g \in Seq(E) /\ b <= Len(g) /\ \A p \in a + 1..b : f[p] = <<g[p]>>

LEMMA UptoCopy ==
    ASSUME NEW E, NEW n, NEW f, NEW g, NEW a, NEW b,
           Span(E, n, f, a, b), Elements(E, f, g, a, b)
    PROVE  Copies(f, g, a, b)
  <1>1. /\ n \in Nat /\ f \in [1..n -> Seq(E)]
        /\ a \in Nat /\ b \in Nat /\ a <= b /\ b <= n
    BY DEF Span
  <1>2. /\ g \in Seq(E) /\ b <= Len(g) /\ \A p \in a + 1..b : f[p] = <<g[p]>>
    BY DEF Elements
  <1>3. QED
    BY <1>1, <1>2, UptoElements

-----------------------------------------------------------------------------
(* What each token of the statement stands for *)

Texts == [p \in DOMAIN sql |-> TextOf(p)]
Parts(m) == [p \in DOMAIN sql |-> ValueOf(m, p)]

\* The values of the names in the statement.
Named(m) == {m[NameAt(p)] : p \in DOMAIN sql}

LEMMA PartsOK ==
    ASSUME ParamsInv
    PROVE  /\ Texts \in [1..Len(sql) -> Seq(Tokens)]
           /\ Upto(Texts, Len(sql)) = Replaced
           /\ \A m : /\ Parts(m) \in [1..Len(sql) -> Seq(Named(m))]
                     /\ Upto(Parts(m), Len(sql)) = Bound(m)
  <1>1. sql \in Seq(Tokens) /\ DOMAIN sql = 1..Len(sql) /\ "qmark" \in Tokens
    BY StatementOK, NamedParamsAssumption
  <1>2. ASSUME NEW p \in DOMAIN sql PROVE TextOf(p) \in Seq(Tokens)
    <2>1. <<"qmark">> \in Seq(Tokens) /\ <<>> \in Seq(Tokens)
          /\ <<sql[p]>> \in Seq(Tokens)
      BY <1>1
    <2>2. QED
      BY <2>1 DEF TextOf
  <1>3. Texts \in [1..Len(sql) -> Seq(Tokens)]
    BY <1>1, <1>2 DEF Texts
  <1>4. Upto(Texts, Len(sql)) = Replaced
    <2>1. [p \in 1..Len(sql) |-> Texts[p]] = [p \in DOMAIN sql |-> TextOf(p)]
      BY <1>1 DEF Texts
    <2>2. QED
      BY <2>1 DEF Upto, Replaced
  <1>5. ASSUME NEW m
        PROVE  /\ Parts(m) \in [1..Len(sql) -> Seq(Named(m))]
               /\ Upto(Parts(m), Len(sql)) = Bound(m)
    <2>1. ASSUME NEW p \in DOMAIN sql PROVE ValueOf(m, p) \in Seq(Named(m))
      <3>1. m[NameAt(p)] \in Named(m)
        BY DEF Named
      <3>2. <<m[NameAt(p)]>> \in Seq(Named(m)) /\ <<>> \in Seq(Named(m))
        BY <3>1
      <3>3. QED
        BY <3>2 DEF ValueOf
    <2>2. Parts(m) \in [1..Len(sql) -> Seq(Named(m))]
      BY <1>1, <2>1 DEF Parts
    <2>3. [p \in 1..Len(sql) |-> Parts(m)[p]] = [p \in DOMAIN sql |-> ValueOf(m, p)]
      BY <1>1 DEF Parts
    <2>4. QED
      BY <2>2, <2>3 DEF Upto, Bound
  <1>6. QED
    BY <1>3, <1>4, <1>5

\* Text between the place where the loop goes on and the next brace.
LEMMA PlainText ==
    ASSUME ParamsInv, pc = "loop", NEW p \in Nat, i <= p, p <= Len(sql),
           \A q \in Nat : i <= q /\ q <= p => sql[q] # "lbrace"
    PROVE  Texts[p] = <<sql[p]>> /\ \A m : Parts(m)[p] = <<>>
  <1>1. /\ DOMAIN sql = 1..Len(sql) /\ Len(sql) \in Nat
        /\ i \in Nat /\ i >= 1
    BY StatementOK
  <1>2. p \in DOMAIN sql /\ p \notin Openers
    BY <1>1 DEF Openers
  <1>3. ~Inside(p)
    <2>1. SUFFICES ASSUME NEW s \in Openers, s < p,
                          \A q \in s..p - 1 : sql[q] # "rbrace"
                   PROVE  FALSE
      BY DEF Inside
    <2>2. s \in 1..Len(sql) /\ sql[s] = "lbrace"
      BY <1>1 DEF Openers
    <2>3. s \in Nat /\ 1 <= s /\ s < i
      BY <1>1, <2>1, <2>2
    <2>4. PICK r \in Nat : s < r /\ r < i /\ sql[r] = "rbrace"
      BY <2>2, <2>3, Closed
    <2>5. r \in s..p - 1
      BY <1>1, <2>3, <2>4
    <2>6. QED
      BY <2>1, <2>4, <2>5
  <1>4. QED
    BY <1>2, <1>3 DEF Texts, Parts, TextOf, ValueOf

\* A name and the brace that closes it.
LEMMA NameText ==
    ASSUME ParamsInv, pc = "loop", ~Finished, ~Unclosed,
           NEW p \in Nat, Start < p, p <= End
    PROVE  Texts[p] = <<>> /\ \A m : Parts(m)[p] = <<>>
  <1>1. DOMAIN sql = 1..Len(sql) /\ Len(sql) \in Nat /\ i \in Nat /\ i >= 1
    BY StatementOK
  <1>2. Start \in Nat /\ i <= Start /\ sql[Start] = "lbrace"
    BY NextOpening
  <1>3. /\ End \in Nat /\ Start < End /\ End <= Len(sql) /\ sql[End] = "rbrace"
        /\ \A q \in Nat : Start < q /\ q < End => sql[q] # "rbrace"
    BY NextClosing
  <1>4. p \in DOMAIN sql
    BY <1>1, <1>2, <1>3
  <1>5. p \notin Openers
    <2>1. SUFFICES ASSUME p \in Openers PROVE FALSE
      OBVIOUS
    <2>2. sql[p] = "lbrace"
      BY <2>1 DEF Openers
    <2>3. p < End
      BY <1>3, <2>2
    <2>4. Start \in 1..p - 1
      BY <1>1, <1>2
    <2>5. PICK r \in Start + 1..p - 1 : sql[r] = "rbrace"
      BY <1>2, <2>1, <2>4 DEF Openers
    <2>6. r \in Nat /\ Start < r /\ r < End
      BY <1>2, <1>3, <2>3
    <2>7. QED
      BY <1>3, <2>5, <2>6
  <1>6. Inside(p)
    <2>1. ASSUME NEW q \in Start..p - 1 PROVE sql[q] # "rbrace"
      <3>1. q = Start \/ (q \in Nat /\ Start < q /\ q < End)
        BY <1>2, <1>3
      <3>2. QED
        BY <1>2, <1>3, <3>1
    <2>2. QED
      BY <2>1, StartOpens DEF Inside
  <1>7. QED
    BY <1>4, <1>5, <1>6 DEF Texts, Parts, TextOf, ValueOf

-----------------------------------------------------------------------------
(* A pass joins the parts in order *)

(* The loop has the texts and the values of the tokens before the place     *)
(* where it goes on; the rows done have all their values, and the           *)
(* statement of a batch is complete after the first pass.                   *)
BuiltSoFar ==
    pc = "loop" =>
       /\ new_sql = Upto(Texts, i - 1) /\ values = Upto(Parts(Params), i - 1)
       /\ \A k \in 1..Len(result.rows) : result.rows[k] = Bound(rows[k])
       /\ batch /\ row # 0 => result.sql = Replaced
       /\ ~batch => Len(rows) = 1 /\ row = 1

BuiltInv == ParamsInv /\ BuiltSoFar /\ ReplacedInOrder

LEMMA SameParts ==
    ASSUME sql' = sql
    PROVE  /\ Texts' = Texts /\ Replaced' = Replaced
           /\ \A m : Parts(m)' = Parts(m) /\ Bound(m)' = Bound(m)
  <1>1. Openers' = Openers /\ \A s : NameAt(s)' = NameAt(s)
    BY SameText
  <1>2. \A p : Inside(p)' = Inside(p)
    BY <1>1 DEF Inside
  <1>3. \A p : TextOf(p)' = TextOf(p)
    BY <1>1, <1>2 DEF TextOf
  <1>4. \A m, p : ValueOf(m, p)' = ValueOf(m, p)
    BY <1>1 DEF ValueOf
  <1>5. Texts' = Texts /\ \A m : Parts(m)' = Parts(m)
    BY <1>3, <1>4 DEF Texts, Parts
  <1>6. Replaced = Joined(Texts) /\ \A m : Bound(m) = Joined(Parts(m))
    BY DEF Replaced, Bound, Texts, Parts
  <1>7. Replaced' = Joined(Texts') /\ \A m : Bound(m)' = Joined(Parts(m)')
    BY DEF Replaced, Bound, Texts, Parts
  <1>8. QED
    BY <1>5, <1>6, <1>7

\* From the place where the loop goes on up to b, no placeholder begins.
NoBrace(b) ==
    /\ b \in Nat /\ i <= b + 1 /\ b <= Len(sql)
    /\ \A q \in Nat : i <= q /\ q <= b => sql[q] # "lbrace"

\* Text without a brace is copied, and has no values.
LEMMA Copied ==
    ASSUME ParamsInv, pc = "loop", NEW b, NoBrace(b)
    PROVE  /\ Upto(Texts, b) = Upto(Texts, i - 1) \o SubSeq(sql, i, b)
           /\ \A m : Upto(Parts(m), b) = Upto(Parts(m), i - 1)
  <1> DEFINE a == i - 1
             n == Len(sql)
  <1>1. /\ sql \in Seq(Tokens) /\ n \in Nat /\ a \in Nat /\ a + 1 = i
        /\ b \in Nat /\ a <= b /\ b <= n
    BY StatementOK DEF NoBrace
  <1>2. /\ Texts \in [1..n -> Seq(Tokens)]
        /\ \A m : Parts(m) \in [1..n -> Seq(Named(m))]
    BY PartsOK
  <1>3. ASSUME NEW p \in a + 1..b
        PROVE  Texts[p] = <<sql[p]>> /\ \A m : Parts(m)[p] = <<>>
    <2>1. /\ p \in Nat /\ i <= p /\ p <= Len(sql)
          /\ \A q \in Nat : i <= q /\ q <= p => sql[q] # "lbrace"
      BY <1>1 DEF NoBrace
    <2>2. QED
      BY <2>1, PlainText
  <1> HIDE DEF n, a
  <1>4. Upto(Texts, b) = Upto(Texts, a) \o SubSeq(sql, a + 1, b)
    <2> DEFINE f == Texts
               g == sql
    <2>1. Span(Tokens, n, f, a, b)
      BY <1>1, <1>2 DEF Span
    <2>2. Elements(Tokens, f, g, a, b)
      BY <1>1, <1>3 DEF Elements, n
    <2> HIDE DEF f, g
    <2>3. Copies(f, g, a, b)
      BY <2>1, <2>2, UptoCopy
    <2>4. QED
      BY <2>3 DEF Copies, f, g
  <1>5. ASSUME NEW m PROVE Upto(Parts(m), b) = Upto(Parts(m), a)
    <2> DEFINE f == Parts(m)
               E == Named(m)
    <2>1. Span(E, n, f, a, b)
      BY <1>1, <1>2 DEF Span
    <2>2. Empties(f, a, b)
      BY <1>3 DEF Empties
    <2> HIDE DEF f, E
    <2>3. Upto(f, b) = Upto(f, a)
      BY <2>1, <2>2, UptoSkip
    <2>4. QED
      BY <2>3 DEF f
  <1>6. QED
    BY <1>1, <1>4, <1>5 DEF a

\* The rest of the statement is done at the end of a pass.
LEMMA PassBuilt ==
    ASSUME ParamsInv, BuiltSoFar, pc = "loop", Finished
    PROVE  /\ new_sql \o SubSeq(sql, i, Len(sql)) = Replaced
           /\ values = Bound(Params)
  <1>1. /\ Len(sql) \in Nat /\ i \in Nat /\ i >= 1 /\ i <= Len(sql) + 1
    BY StatementOK
  <1>2. \A q \in Nat : i <= q /\ q <= Len(sql) => sql[q] # "lbrace"
    <2>1. i > Len(sql) \/ \A q \in i..Len(sql) : sql[q] # "lbrace"
      BY DEF Finished, Find
    <2>2. QED
      BY <1>1, <2>1
  <1>0. NoBrace(Len(sql))
    BY <1>1, <1>2 DEF NoBrace
  <1>3. /\ Upto(Texts, Len(sql)) = Upto(Texts, i - 1) \o SubSeq(sql, i, Len(sql))
        /\ \A m : Upto(Parts(m), Len(sql)) = Upto(Parts(m), i - 1)
    BY <1>0, Copied
  <1>4. /\ new_sql = Upto(Texts, i - 1) /\ values = Upto(Parts(Params), i - 1)
    BY DEF BuiltSoFar
  <1>5. QED
    BY <1>3, <1>4, PartsOK

\* A placeholder becomes a ? and its value; its name is left out.
LEMMA PlaceholderBuilt ==
    ASSUME ParamsInv, pc = "loop", ~Finished, ~Unclosed
    PROVE  /\ Upto(Texts, End)
                 = Upto(Texts, i - 1) \o SubSeq(sql, i, Start - 1) \o <<"qmark">>
           /\ Upto(Parts(Params), End)
                 = Append(Upto(Parts(Params), i - 1), Params[Name])
  <1> DEFINE n == Len(sql)
             b == Start - 1
             f == Texts
             g == Parts(Params)
             E == Named(Params)
  <1>1. /\ n \in Nat /\ b \in Nat /\ b + 1 <= n /\ b + 1 = Start
        /\ End \in Nat /\ Start < End /\ End <= n /\ Start \in Nat
        /\ i \in Nat /\ i >= 1 /\ i <= Start
    BY StatementOK, NextOpening, NextClosing
  <1>2. NoBrace(b)
    BY <1>1, NextOpening DEF NoBrace
  <1>3. /\ Upto(f, b) = Upto(f, i - 1) \o SubSeq(sql, i, b)
        /\ Upto(g, b) = Upto(g, i - 1)
    <2> HIDE DEF b
    <2>1. QED
      BY <1>2, Copied
  <1>4. f \in [1..n -> Seq(Tokens)] /\ g \in [1..n -> Seq(E)]
    BY PartsOK
  <1>5. f[Start] = <<"qmark">> /\ g[Start] = <<Params[Name]>>
    <2>1. Start \in DOMAIN sql /\ Start \in Openers
      BY StartOpens DEF Openers
    <2>2. NameAt(Start) = Name
      BY NextClosing
    <2>3. QED
      BY <2>1, <2>2 DEF Texts, Parts, TextOf, ValueOf
  <1>6. \A p \in Start + 1..End : f[p] = <<>> /\ g[p] = <<>>
    BY <1>1, NameText
  <1>7. Start <= End
    BY <1>1
  <1> HIDE DEF n, b, f, g, E
  <1>8. /\ Upto(f, b + 1) = Upto(f, b) \o f[b + 1]
        /\ Upto(g, b + 1) = Upto(g, b) \o g[b + 1] /\ Upto(g, b) \in Seq(E)
    <2>1. b \in Nat /\ b + 1 <= n /\ n \in Nat
      BY <1>1
    <2>2. ASSUME NEW F, NEW h \in [1..n -> Seq(F)]
          PROVE  Upto(h, b + 1) = Upto(h, b) \o h[b + 1] /\ Upto(h, b) \in Seq(F)
      BY <2>1, UptoMore
    <2>3. QED
      BY <1>4, <2>2
  <1>9. Upto(f, End) = Upto(f, Start)
    <2>1. Span(Tokens, n, f, Start, End) /\ Empties(f, Start, End)
      BY <1>1, <1>4, <1>6, <1>7 DEF Span, Empties
    <2>2. QED
      BY <2>1, UptoSkip
  <1>10. Upto(g, End) = Upto(g, Start)
    <2>1. Span(E, n, g, Start, End) /\ Empties(g, Start, End)
      BY <1>1, <1>4, <1>6, <1>7 DEF Span, Empties
    <2>2. QED
      BY <2>1, UptoSkip
  <1>11. Upto(f, End) = Upto(f, i - 1) \o SubSeq(sql, i, b) \o <<"qmark">>
    BY <1>1, <1>3, <1>5, <1>8, <1>9
  <1>12. Upto(g, End) = Upto(g, i - 1) \o <<Params[Name]>>
    BY <1>1, <1>3, <1>5, <1>8, <1>10
  <1>13. Upto(g, End) = Append(Upto(g, i - 1), Params[Name])
    BY <1>3, <1>8, <1>12
  <1>14. QED
    BY <1>11, <1>13 DEF b, f, g

LEMMA ReplaceBuilds ==
    ASSUME BuiltInv, Replace
    PROVE  BuiltInv'
  <1>1. /\ ParamsInv /\ BuiltSoFar /\ pc = "loop" /\ ~Finished /\ ~Unclosed
    BY DEF BuiltInv, Replace
  <1>2. /\ new_sql' = new_sql \o SubSeq(sql, i, Start - 1) \o <<"qmark">>
        /\ values' = Append(values, Params[Name]) /\ i' = End + 1
        /\ sql' = sql /\ rows' = rows /\ batch' = batch
        /\ pc' = pc /\ row' = row /\ result' = result
    BY DEF Replace, Resume, input
  <1>3. new_sql = Upto(Texts, i - 1) /\ values = Upto(Parts(Params), i - 1)
    BY <1>1 DEF BuiltSoFar
  <1>4. /\ new_sql' = Upto(Texts, End) /\ values' = Upto(Parts(Params), End)
    BY <1>1, <1>2, <1>3, PlaceholderBuilt
  <1>5. i' - 1 = End
    BY <1>1, <1>2, NextClosing
  <1>6. /\ Texts' = Texts /\ Replaced' = Replaced /\ Params' = Params
        /\ \A m : Parts(m)' = Parts(m) /\ Bound(m)' = Bound(m)
    BY <1>2, SameParts DEF Params
  <1>7. /\ \A k \in 1..Len(result'.rows) : result'.rows[k] = Bound(rows[k])
        /\ batch' /\ row' # 0 => result'.sql = Replaced
        /\ ~batch' => Len(rows') = 1 /\ row' = 1
    BY <1>1, <1>2 DEF BuiltSoFar
  <1>8. BuiltSoFar'
    <2>1. new_sql' = Upto(Texts', i' - 1) /\ values' = Upto(Parts(Params)', i' - 1)
      BY <1>4, <1>5, <1>6
    <2>2. QED
      BY <1>2, <1>6, <1>7, <2>1 DEF BuiltSoFar
  <1>9. ReplacedInOrder'
    BY <1>1, <1>2 DEF ReplacedInOrder
  <1>10. QED
    BY <1>1, <1>8, <1>9, ReplaceKeeps DEF BuiltInv

LEMMA FailBuilds ==
    ASSUME BuiltInv, FailUnclosed \/ FailMissing
    PROVE  BuiltInv'
  <1>1. pc' = "err"
    BY DEF FailUnclosed, FailMissing, Fail
  <1>2. BuiltSoFar' /\ ReplacedInOrder'
    BY <1>1 DEF BuiltSoFar, ReplacedInOrder
  <1>3. QED
    BY <1>2, FailKeeps DEF BuiltInv

LEMMA EndPassBuilds ==
    ASSUME BuiltInv, EndPass
    PROVE  BuiltInv'
  <1>1. ParamsInv /\ BuiltSoFar /\ pc = "loop" /\ Finished
    BY DEF BuiltInv, EndPass
  <1>2. /\ sql' = sql /\ rows' = rows /\ batch' = batch
        /\ result'.rows = RowsDone
        /\ result'.sql = IF row = 0 \/ ~batch
                         THEN new_sql \o SubSeq(sql, i, Len(sql)) ELSE result.sql
    BY DEF EndPass, input
  <1>3. /\ rows \in Seq(Maps) /\ Len(rows) \in Nat \ {0} /\ row \in 0..Len(rows)
        /\ DOMAIN rows = 1..Len(rows)
    BY <1>1, ParamsOK
  <1>4. /\ new_sql \o SubSeq(sql, i, Len(sql)) = Replaced
        /\ values = Bound(Params)
    BY <1>1, PassBuilt
  <1>5. /\ values \in Seq(Values) /\ result.rows \in Seq(Seq(Values))
        /\ Len(result.rows) = (IF row = 0 THEN 0 ELSE row - 1)
    BY <1>1 DEF ParamsInv, TypeOK, ScanOK
  <1>6. /\ \A k \in 1..Len(result.rows) : result.rows[k] = Bound(rows[k])
        /\ batch /\ row # 0 => result.sql = Replaced
        /\ ~batch => Len(rows) = 1 /\ row = 1
    BY <1>1 DEF BuiltSoFar
  <1>7. result'.sql = Replaced
    BY <1>2, <1>4, <1>6
  <1>8. /\ RowsDone \in Seq(Seq(Values)) /\ Len(RowsDone) = row
        /\ \A k \in 1..row : RowsDone[k] = Bound(rows[k])
    <2>1. CASE row = 0
      BY <2>1 DEF RowsDone
    <2>2. CASE row # 0
      <3> DEFINE r == Append(result.rows, values)
      <3>1. RowsDone = r
        BY <2>2 DEF RowsDone
      <3>2. /\ row \in Nat \ {0} /\ Len(result.rows) = row - 1
            /\ values = Bound(rows[row])
        BY <1>3, <1>4, <1>5, <2>2 DEF Params
      <3>3. /\ r \in Seq(Seq(Values)) /\ Len(r) = row /\ r[row] = values
            /\ \A k \in 1..row - 1 : r[k] = result.rows[k]
        BY <1>5, <3>2
      <3>4. ASSUME NEW k \in 1..row PROVE r[k] = Bound(rows[k])
        <4>1. CASE k = row
          BY <3>2, <3>3, <4>1
        <4>2. CASE k # row
          <5>1. k \in 1..row - 1 /\ k \in 1..Len(result.rows)
            BY <3>2, <4>2
          <5>2. QED
            BY <1>6, <3>3, <5>1
        <4>3. QED
          BY <4>1, <4>2
      <3>5. QED
        BY <3>1, <3>3, <3>4
    <2>3. QED
      BY <2>1, <2>2
  <1>9. /\ Texts' = Texts /\ Replaced' = Replaced
        /\ \A m : Parts(m)' = Parts(m) /\ Bound(m)' = Bound(m)
    BY <1>2, SameParts
  <1>10. CASE row = Len(rows)
    <2>1. pc' = "ok"
      BY <1>10 DEF EndPass
    <2>2. result'.rows = [k \in DOMAIN rows |-> Bound(rows[k])]
      BY <1>2, <1>3, <1>8, <1>10
    <2>3. [k \in DOMAIN rows |-> Bound(rows[k])]' = [k \in DOMAIN rows |-> Bound(rows[k])]
      BY <1>2, <1>9
    <2>4. BuiltSoFar' /\ ReplacedInOrder'
      BY <1>7, <1>9, <2>1, <2>2, <2>3 DEF BuiltSoFar, ReplacedInOrder
    <2>5. QED
      BY <1>1, <2>4, EndPassKeeps DEF BuiltInv
  <1>11. CASE row # Len(rows)
    <2>1. /\ pc' = "loop" /\ row' = row + 1 /\ i' = 1 /\ new_sql' = <<>>
          /\ values' = <<>>
      BY <1>1, <1>11 DEF EndPass, NoValues
    <2>2. new_sql' = Upto(Texts', i' - 1) /\ values' = Upto(Parts(Params)', i' - 1)
      <3>1. i' - 1 = 0
        BY <2>1
      <3>2. QED
        BY <2>1, <3>1, UptoNone
    <2>3. batch
      BY <1>6, <1>11
    <2>4. (\A k \in 1..Len(result.rows) : result.rows[k] = Bound(rows[k]))'
      BY <1>2, <1>8, <1>9
    <2>5. BuiltSoFar'
      BY <1>2, <1>7, <1>9, <2>1, <2>2, <2>3, <2>4 DEF BuiltSoFar
    <2>6. ReplacedInOrder'
      BY <2>1 DEF ReplacedInOrder
    <2>7. QED
      BY <1>1, <2>5, <2>6, EndPassKeeps DEF BuiltInv
  <1>12. QED
    BY <1>10, <1>11

LEMMA InitBuilt ==
    ASSUME Init
    PROVE  BuiltInv
  <1>1. /\ ~batch => Len(rows) = 1
        /\ row = (IF batch THEN 0 ELSE 1) /\ i = 1 /\ new_sql = <<>> /\ values = <<>>
        /\ rows = <<>> => pc = "ok"
        /\ rows # <<>> => pc = "loop" /\ result.rows = <<>>
    BY DEF Init, NoResult
  <1>2. new_sql = Upto(Texts, i - 1) /\ values = Upto(Parts(Params), i - 1)
    <2>1. i - 1 = 0
      BY <1>1
    <2>2. QED
      BY <1>1, <2>1, UptoNone
  <1>3. BuiltSoFar
    <2>1. SUFFICES ASSUME pc = "loop" PROVE BuiltSoFar
      BY DEF BuiltSoFar
    <2>2. Len(result.rows) = 0
      BY <1>1, <2>1
    <2>3. \A k \in 1..Len(result.rows) : result.rows[k] = Bound(rows[k])
      BY <2>2
    <2>4. QED
      BY <1>1, <1>2, <2>3 DEF BuiltSoFar
  <1>4. ReplacedInOrder
    BY <1>1 DEF ReplacedInOrder
  <1>5. QED
    BY <1>3, <1>4, InitParams DEF BuiltInv

LEMMA BuiltKept == BuiltInv /\ [Next]_vars => BuiltInv'
  <1> SUFFICES ASSUME BuiltInv, [Next]_vars PROVE BuiltInv'
    OBVIOUS
  <1>1. CASE UNCHANGED vars
    <2>1. /\ sql' = sql /\ rows' = rows /\ batch' = batch /\ pc' = pc /\ row' = row
          /\ i' = i /\ new_sql' = new_sql /\ values' = values /\ result' = result
      BY <1>1 DEF vars
    <2>2. /\ Texts' = Texts /\ Replaced' = Replaced /\ Params' = Params
          /\ \A m : Parts(m)' = Parts(m) /\ Bound(m)' = Bound(m)
      BY <2>1, SameParts DEF Params
    <2>3. BuiltSoFar' /\ ReplacedInOrder'
      BY <2>1, <2>2 DEF BuiltInv, BuiltSoFar, ReplacedInOrder
    <2>4. QED
      BY <1>1, <2>3, ParamsKept DEF BuiltInv
  <1>2. QED
    BY <1>1, ReplaceBuilds, FailBuilds, EndPassBuilds DEF Next

(* A call that answers Ok, for any statement and batch, has put a ? in the  *)
(* place of each placeholder and left the rest of the statement as it was,  *)
(* and gives each row the values of the names in the order of the ?s.       *)
THEOREM PlaceholdersInOrder == Spec => []ReplacedInOrder
  <1>1. Init => BuiltInv
    BY InitBuilt
  <1>2. BuiltInv => ReplacedInOrder
    BY DEF BuiltInv
  <1>3. QED
    BY <1>1, <1>2, BuiltKept, PTL DEF Spec
=============================================================================
