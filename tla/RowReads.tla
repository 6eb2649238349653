------------------------------ MODULE RowReads ------------------------------
(****************************************************************************)
(* What a read of several rows by their primary keys promises its caller.   *)
(*                                                                          *)
(* While the read goes on, each position of its list of ids is looked up    *)
(* exactly once, any number of them at one moment; an answer holds the rows *)
(* that were found and is given only when every position has been looked    *)
(* up.  It is no snapshot: the rows may be of different moments.            *)
(****************************************************************************)
EXTENDS Naturals, Sequences

CONSTANTS Reads, Ids, Contents, None, Lists

VARIABLES
    table,    \* the content of each row, None if there is none
    status,   \* new, reading, answered or ended without an answer
    ids,      \* what each read asks for
    seen,     \* what it has found at the positions it has looked up
    answer    \* the rows it has returned

vars == <<table, status, ids, seen, answer>>

Init ==
    /\ table \in [Ids -> Contents \cup {None}]
    /\ status = [c \in Reads |-> "new"]
    /\ ids = [c \in Reads |-> <<>>]
    /\ seen = [c \in Reads |-> <<>>]
    /\ answer = [c \in Reads |-> {}]

Write(i, v) ==
    /\ table' = [table EXCEPT ![i] = v]
    /\ UNCHANGED <<status, ids, seen, answer>>

Begin(c) ==
    /\ status[c] = "new"
    /\ \E s \in Lists : ids' = [ids EXCEPT ![c] = s]
    /\ status' = [status EXCEPT ![c] = "reading"]
    /\ UNCHANGED <<table, seen, answer>>

\* A read of no rows is answered at once.
BeginEmpty(c) ==
    /\ status[c] = "new"
    /\ status' = [status EXCEPT ![c] = "answered"]
    /\ UNCHANGED <<table, ids, seen, answer>>

\* Some of the positions that were not looked up are, in one go.
LookUp(c, P) ==
    /\ status[c] = "reading" /\ P \cap DOMAIN seen[c] = {}
    /\ seen' = [seen EXCEPT ![c] =
                  [p \in P \cup DOMAIN seen[c] |->
                     IF p \in P THEN table[ids[c][p]] ELSE seen[c][p]]]
    /\ UNCHANGED <<table, status, ids, answer>>

Found(c) ==
    {<<ids[c][p], seen[c][p]>> : p \in {q \in DOMAIN seen[c] : seen[c][q] # None}}

Answer(c) ==
    /\ status[c] = "reading" /\ DOMAIN seen[c] = DOMAIN ids[c]
    /\ status' = [status EXCEPT ![c] = "answered"]
    /\ answer' = [answer EXCEPT ![c] = Found(c)]
    /\ seen' = [seen EXCEPT ![c] = <<>>]
    /\ UNCHANGED <<table, ids>>

\* The read fails, or its caller stops waiting for it.
End(c) ==
    /\ status[c] = "reading"
    /\ status' = [status EXCEPT ![c] = "ended"]
    /\ seen' = [seen EXCEPT ![c] = <<>>]
    /\ UNCHANGED <<table, ids, answer>>

Next ==
    \/ \E i \in Ids, v \in Contents \cup {None} : Write(i, v)
    \/ \E c \in Reads :
         \/ Begin(c) \/ BeginEmpty(c) \/ Answer(c) \/ End(c)
         \/ \E P \in SUBSET DOMAIN ids[c] : LookUp(c, P)

Spec == Init /\ [][Next]_vars
=============================================================================
