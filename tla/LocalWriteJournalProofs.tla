----------------------- MODULE LocalWriteJournalProofs -----------------------
(* Theorems about LocalWriteJournal, for every value of its constants. *)
EXTENDS LocalWriteJournal, TLAPS

USE EntriesAssumption, TasksAssumption, JournalSwitches

-----------------------------------------------------------------------------
(* Sequences of pieces *)

LEMMA ContainsAppend ==
    ASSUME NEW f \in Seq(Part), NEW c \in Part, NEW d
    PROVE  Contains(Append(f, c), d) <=> Contains(f, d) \/ d = c
BY DEF Contains

LEMMA ContainsTail ==
    ASSUME NEW f \in Seq(Part), f # <<>>, NEW d, Contains(f, d)
    PROVE  d = Head(f) \/ Contains(Tail(f), d)
<1>1. PICK i \in 1..Len(f) : f[i] = d
  BY DEF Contains
<1>2. CASE i = 1
  BY <1>1, <1>2
<1>3. CASE i > 1
  <2>1. i - 1 \in 1..Len(Tail(f)) /\ Tail(f)[i - 1] = d
    BY <1>1, <1>3
  <2> QED BY <2>1 DEF Contains
<1> QED BY <1>1, <1>2, <1>3

LEMMA ContainsConcat ==
    ASSUME NEW a \in Seq(Part), NEW b \in Seq(Part), NEW i \in 1..Len(b)
    PROVE  Contains(a \o b, b[i])
<1>1. Len(a) + i \in 1..Len(a \o b) /\ (a \o b)[Len(a) + i] = b[i]
  OBVIOUS
<1> QED BY <1>1 DEF Contains

(* The line of an entry ends with its newline. *)
LEMMA LineOK ==
    ASSUME NEW e \in Entries, NEW b \in Seq(Part)
    PROVE  b \o Line(e) \in Seq(Part) /\ Contains(b \o Line(e), Piece(e, "newline"))
<1>1. /\ Piece(e, "head") \in Part /\ Piece(e, "rest") \in Part
      /\ Piece(e, "newline") \in Part
  BY DEF Piece, Part
<1> DEFINE o == <<Piece(e, "head"), Piece(e, "rest")>>
           n == <<Piece(e, "newline")>>
<1>2. o \in Seq(Part) /\ n \in Seq(Part) /\ 1 \in 1..Len(n)
      /\ n[1] = Piece(e, "newline")
  BY <1>1
<1>3. Line(e) = o \o n
  BY DEF Line, Object
<1> HIDE DEF o, n
<1>4. o \o n \in Seq(Part) /\ Contains(o \o n, n[1])
  BY <1>2, ContainsConcat
<1> DEFINE l == o \o n
<1> HIDE DEF l
<1>5. l \in Seq(Part) /\ Contains(l, n[1])
  BY <1>4 DEF l
<1>6. PICK i \in 1..Len(l) : l[i] = n[1]
  BY <1>5 DEF Contains
<1>7. b \o l \in Seq(Part) /\ Contains(b \o l, n[1])
  BY <1>5, <1>6, ContainsConcat
<1> QED BY <1>2, <1>3, <1>7 DEF l
-----------------------------------------------------------------------------
(* Type correctness *)

(* A call of record_write that has not returned records an entry it was    *)
(* called for.                                                              *)
CurOK ==
    \A t \in Tasks :
       pc[t] \in {"lock", "flush"} => cur[t] \in Entries /\ cur[t] \in begun

(* A call that flushes returns: then nobody flushes. *)
LEMMA ReturnOK ==
    ASSUME TypeOK, NEW t \in Tasks, Flushing(t), Return(t)
    PROVE  /\ pc' \in [Tasks -> {"idle", "lock", "flush", "stop_lock", "stop_flush"}]
           /\ cur' \in [Tasks -> Entries \cup {None}]
           /\ holder' \in Tasks \cup {None}
           /\ \A u \in Tasks : Flushing(u)' <=> holder' = u
           /\ \A u \in Tasks : pc'[u] = "lock" => pc[u] = "lock" /\ cur'[u] = cur[u]
           /\ \A u \in Tasks : pc'[u] # "flush"
BY DEF TypeOK, Return, Flushing

(* Who holds the mutex when t takes it to go to label l. *)
LEMMA LockOK ==
    ASSUME TypeOK, NEW t \in Tasks, NEW l \in {"flush", "stop_flush"},
           holder = None, holder' = t, pc' = [pc EXCEPT ![t] = l]
    PROVE  /\ pc' \in [Tasks -> {"idle", "lock", "flush", "stop_lock", "stop_flush"}]
           /\ holder' \in Tasks \cup {None}
           /\ \A u \in Tasks : Flushing(u)' <=> holder' = u
           /\ \A u \in Tasks : u # t => pc'[u] = pc[u] /\ pc'[u] # "flush"
BY DEF TypeOK, Flushing

LEMMA GoDownOK ==
    ASSUME TypeOK, GoDown, file' \in Seq(Part), lost' \subseteq Entries,
           durable' \in 0..Len(file')
    PROVE  TypeOK' /\ CurOK'
<1>1. /\ pc' = [u \in Tasks |-> "idle"] /\ cur' = [u \in Tasks |-> None]
      /\ holder' = None /\ buf' = <<>>
      /\ begun' = begun /\ acked' = acked
  BY DEF GoDown
<1>2. up' \in BOOLEAN /\ running' \in BOOLEAN
  BY DEF GoDown
<1>3. crashes' \in Nat
  BY DEF GoDown, TypeOK
<1>4. torn' \in BOOLEAN
  BY DEF GoDown, EndsTorn
<1>5. \A u \in Tasks : ~Flushing(u)' /\ holder' # u /\ pc'[u] = "idle"
  BY <1>1 DEF Flushing
<1> QED BY <1>1, <1>2, <1>3, <1>4, <1>5 DEF TypeOK, CurOK

(* What a task does keeps the shape of the state. *)
LEMMA StepShape ==
    ASSUME TypeOK, CurOK, NEW t \in Tasks, Step(t)
    PROVE  TypeOK' /\ CurOK'
<1>1. CASE RecordLock(t)
  <2>1. cur[t] \in Entries /\ cur[t] \in begun
    BY <1>1 DEF RecordLock, CurOK
  <2>2. buf' \in Seq(Part)
    BY <1>1, <2>1, LineOK DEF RecordLock, TypeOK
  <2>3. TypeOK'
    BY <1>1, <2>2, LockOK DEF RecordLock, TypeOK, history
  <2>4. CurOK'
    BY <1>1, <2>1, LockOK DEF RecordLock, CurOK, history
  <2> QED BY <2>3, <2>4
<1>2. CASE WritePiece(t)
  <2>1. file \in Seq(Part) /\ buf \in Seq(Part) /\ buf # <<>>
    BY <1>2 DEF WritePiece, TypeOK
  <2>2. Head(buf) \in Part /\ Tail(buf) \in Seq(Part)
    BY <2>1
  <2>3. /\ Append(file, Head(buf)) \in Seq(Part)
        /\ Len(Append(file, Head(buf))) = Len(file) + 1 /\ Len(file) \in Nat
    BY <2>1, <2>2
  <2>4. /\ file' \in Seq(Part) /\ buf' \in Seq(Part)
        /\ durable' \in 0..Len(file')
    BY <1>2, <2>2, <2>3 DEF WritePiece, TypeOK
  <2>5. \A u \in Tasks : Flushing(u)' <=> holder' = u
    BY <1>2 DEF WritePiece, TypeOK, Flushing, history
  <2> QED BY <1>2, <2>4, <2>5 DEF WritePiece, TypeOK, CurOK, history
<1>3. CASE RecordDone(t)
  <2>1. Flushing(t) /\ Return(t) /\ cur[t] \in begun
    BY <1>3 DEF RecordDone, Flushing, CurOK
  <2>2. CurOK'
    BY <1>3, <2>1, ReturnOK DEF RecordDone, CurOK
  <2> QED BY <1>3, <2>1, <2>2, ReturnOK DEF RecordDone, TypeOK
<1>4. CASE FlushFail(t)
  <2>1. Flushing(t) /\ Return(t)
    BY <1>4 DEF FlushFail
  <2>2. CurOK'
    BY <1>4, <2>1, ReturnOK DEF FlushFail, CurOK, history
  <2> QED BY <1>4, <2>1, <2>2, ReturnOK DEF FlushFail, TypeOK, history
<1>5. CASE WriteFail(t)
  <2>1. Flushing(t) /\ Return(t)
    BY <1>5 DEF WriteFail, Flushing
  <2>2. CurOK'
    BY <1>5, <2>1, ReturnOK DEF WriteFail, CurOK
  <2>3. PICK n \in 0..Len(buf) : buf' = SubSeq(buf, 1, n)
    BY <1>5 DEF WriteFail
  <2>4. buf' \in Seq(Part)
    BY <2>3 DEF TypeOK
  <2>5. torn' \in BOOLEAN
    BY <1>5 DEF WriteFail, TypeOK
  <2> QED BY <1>5, <2>1, <2>2, <2>4, <2>5, ReturnOK DEF WriteFail, TypeOK
<1>6. CASE StopLock(t)
  <2>1. CurOK'
    BY <1>6, LockOK DEF StopLock, CurOK, history, TypeOK
  <2> QED BY <1>6, <2>1, LockOK DEF StopLock, TypeOK, history
<1>7. CASE StopDone(t)
  <2>1. Flushing(t) /\ Return(t)
    BY <1>7 DEF StopDone, Flushing
  <2>2. CurOK'
    BY <1>7, <2>1, ReturnOK DEF StopDone, CurOK, history
  <2> QED BY <1>7, <2>1, <2>2, ReturnOK DEF StopDone, TypeOK, history
<1> QED BY <1>1, <1>2, <1>3, <1>4, <1>5, <1>6, <1>7 DEF Step

(* So does everything else that happens. *)
LEMMA ShapeKept ==
    ASSUME TypeOK, CurOK, [Next]_vars
    PROVE  TypeOK' /\ CurOK'
<1>1. CASE \E t \in Tasks : Step(t)
  BY <1>1, StepShape
<1>2. CASE \E t \in Tasks : Stop(t)
  <2>1. PICK t \in Tasks : Stop(t)
    BY <1>2
  <2>2. \A u \in Tasks : Flushing(u)' <=> Flushing(u)
    BY <2>1 DEF Stop, Flushing, TypeOK
  <2> QED BY <2>1, <2>2 DEF Stop, TypeOK, CurOK, history
<1>3. CASE \E t \in Tasks, e \in Entries : Record(t, e)
  <2>1. PICK t \in Tasks, e \in Entries : Record(t, e)
    BY <1>3
  <2>2. \A u \in Tasks : Flushing(u)' <=> Flushing(u)
    BY <2>1 DEF Record, Flushing, TypeOK
  <2>3. TypeOK'
    BY <2>1, <2>2 DEF Record, TypeOK
  <2>4. CurOK'
    BY <2>1 DEF Record, TypeOK, CurOK
  <2> QED BY <2>3, <2>4
<1>4. CASE Crash
  BY <1>4, GoDownOK DEF Crash, TypeOK
<1>5. CASE PowerFail
  <2>1. PICK n \in durable..Len(file) : file' = SubSeq(file, 1, n)
    BY <1>5 DEF PowerFail
  <2>2. /\ file \in Seq(Part) /\ durable \in 0..Len(file) /\ Len(file) \in Nat
        /\ n \in Nat /\ n <= Len(file) /\ durable <= n
    BY <2>1 DEF TypeOK
  <2>3. SubSeq(file, 1, n) \in Seq(Part) /\ Len(SubSeq(file, 1, n)) = n
    BY <2>2
  <2>4. file' \in Seq(Part) /\ durable' \in 0..Len(file')
    BY <1>5, <2>1, <2>2, <2>3 DEF PowerFail
  <2>5. lost' \subseteq Entries
    BY <1>5 DEF PowerFail, Logged, NewlineOf, TypeOK
  <2> QED BY <1>5, <2>4, <2>5, GoDownOK DEF PowerFail
<1>6. CASE WriteBack
  <2>1. durable' \in 0..Len(file')
    BY <1>6 DEF WriteBack, TypeOK
  <2> QED BY <1>6, <2>1 DEF WriteBack, TypeOK, CurOK, Flushing, history
<1>7. CASE Restart
  BY <1>7 DEF Restart, TypeOK, CurOK, Flushing, history
<1>8. CASE UNCHANGED vars
  BY <1>8 DEF vars, TypeOK, CurOK, Flushing
<1> QED BY <1>1, <1>2, <1>3, <1>4, <1>5, <1>6, <1>7, <1>8 DEF Next
LEMMA InitShape ==
    ASSUME Init
    PROVE  TypeOK /\ CurOK
<1>1. \A t \in Tasks : pc[t] = "idle" /\ ~Flushing(t) /\ holder # t
  BY DEF Init, Flushing
<1>2. file \in Seq(Part) /\ buf \in Seq(Part) /\ Len(file) = 0 /\ durable = 0
  BY DEF Init
<1>3. running \in BOOLEAN /\ up \in BOOLEAN /\ torn \in BOOLEAN
  BY DEF Init
<1>4. /\ pc \in [Tasks -> {"idle", "lock", "flush", "stop_lock", "stop_flush"}]
      /\ cur \in [Tasks -> Entries \cup {None}]
      /\ holder \in Tasks \cup {None} /\ crashes \in Nat
      /\ begun \subseteq Entries /\ acked \subseteq begun /\ lost \subseteq Entries
  BY DEF Init
<1>5. durable \in 0..Len(file)
  BY <1>2
<1> QED BY <1>1, <1>2, <1>3, <1>4, <1>5 DEF TypeOK, CurOK

(* Type correctness: every variable of the journal keeps its shape, the     *)
(* file never shrinks below what is on the disk, and who flushes holds the  *)
(* mutex, across errors, crashes and power failures.                        *)
THEOREM JournalTypeCorrect == Spec => []TypeOK
<1>1. Init => TypeOK /\ CurOK
  BY InitShape
<1>2. (TypeOK /\ CurOK) /\ [Next]_vars => (TypeOK /\ CurOK)'
  BY ShapeKept
<1> QED BY <1>1, <1>2, PTL DEF Spec

-----------------------------------------------------------------------------
(* Acknowledged writes.  The invariant is not inductive by itself: that the *)
(* newline of an entry is in the file when its flush is over comes from     *)
(* where it was before, in the buffer or already in the file.               *)

Newline(t) == Piece(cur[t], "newline")

Pending ==
    \A t \in Tasks :
       pc[t] = "flush" => Contains(buf, Newline(t)) \/ Contains(file, Newline(t))

AckInv == TypeOK /\ CurOK /\ Pending /\ AckedIsLogged

(* Pending and AckedIsLogged follow when no call is left flushing and the   *)
(* file, what is acknowledged and what is lost do not change.               *)
LEMMA NoneFlushing ==
    ASSUME AckInv, \A u \in Tasks : pc'[u] # "flush",
           file' = file, acked' = acked, lost' = lost
    PROVE  Pending' /\ AckedIsLogged'
BY DEF AckInv, Pending, AckedIsLogged, Logged, NewlineOf

LEMMA StepKeepsAcked ==
    ASSUME AckInv, NEW t \in Tasks, Step(t)
    PROVE  Pending' /\ AckedIsLogged'
<1> USE DEF AckInv
<1>1. CASE RecordLock(t)
  <2>1. cur[t] \in Entries
    BY <1>1 DEF RecordLock, CurOK
  <2>2. Contains(buf', Newline(t)')
    BY <1>1, <2>1, LineOK DEF RecordLock, TypeOK, Newline
  <2>3. \A u \in Tasks : u # t => pc'[u] # "flush"
    BY <1>1, LockOK DEF RecordLock
  <2>4. Pending'
    BY <2>2, <2>3 DEF Pending
  <2> QED BY <1>1, <2>4 DEF RecordLock, AckedIsLogged, Logged, NewlineOf, history
<1>2. CASE WritePiece(t)
  <2>1. /\ file \in Seq(Part) /\ buf \in Seq(Part) /\ buf # <<>>
        /\ file' = Append(file, Head(buf)) /\ buf' = Tail(buf)
    BY <1>2 DEF WritePiece, TypeOK
  <2>2. Head(buf) \in Part
    BY <2>1
  <2>3. \A d : Contains(file', d) <=> Contains(file, d) \/ d = Head(buf)
    BY <2>1, <2>2, ContainsAppend
  <2>4. \A d : Contains(buf, d) => Contains(buf', d) \/ Contains(file', d)
    BY <2>1, <2>3, ContainsTail
  <2>5. \A u \in Tasks : Newline(u)' = Newline(u)
    BY <1>2 DEF WritePiece, Newline
  <2>6. Pending'
    BY <1>2, <2>3, <2>4, <2>5 DEF WritePiece, Pending
  <2>7. Logged \subseteq Logged'
    BY <2>3 DEF Logged, NewlineOf
  <2> QED BY <1>2, <2>6, <2>7 DEF WritePiece, AckedIsLogged, history
<1>3. CASE RecordDone(t)
  <2>1. Flushing(t) /\ Return(t) /\ cur[t] \in Entries
    BY <1>3 DEF RecordDone, Flushing, CurOK
  <2>2. Contains(file, Piece(cur[t], "newline"))
    <3>1. ~Contains(buf, Newline(t))
      BY <1>3 DEF RecordDone, Contains
    <3> QED BY <1>3, <3>1 DEF RecordDone, Pending, Newline
  <2>3. acked' \subseteq Logged' \cup lost'
    BY <1>3, <2>1, <2>2 DEF RecordDone, AckedIsLogged, Logged, NewlineOf
  <2> QED BY <2>1, <2>3, ReturnOK DEF Pending, AckedIsLogged
<1>4. CASE FlushFail(t)
  <2>1. Flushing(t) /\ Return(t)
    BY <1>4 DEF FlushFail
  <2> QED BY <1>4, <2>1, ReturnOK, NoneFlushing DEF FlushFail, history
<1>5. CASE WriteFail(t)
  <2>1. Flushing(t) /\ Return(t)
    BY <1>5 DEF WriteFail, Flushing
  <2> QED BY <1>5, <2>1, ReturnOK, NoneFlushing DEF WriteFail
<1>6. CASE StopLock(t)
  <2>1. \A u \in Tasks : pc'[u] # "flush"
    BY <1>6 DEF StopLock, TypeOK, Flushing
  <2> QED BY <1>6, <2>1, NoneFlushing DEF StopLock, history
<1>7. CASE StopDone(t)
  <2>1. Flushing(t) /\ Return(t)
    BY <1>7 DEF StopDone, Flushing
  <2> QED BY <1>7, <2>1, ReturnOK, NoneFlushing DEF StopDone, history
<1> QED BY <1>1, <1>2, <1>3, <1>4, <1>5, <1>6, <1>7 DEF Step

LEMMA AckInvKept ==
    ASSUME AckInv, [Next]_vars
    PROVE  AckInv'
<1> USE DEF AckInv
<1>0. TypeOK' /\ CurOK'
  BY ShapeKept
<1> SUFFICES Pending' /\ AckedIsLogged'
  BY <1>0
<1>1. CASE \E t \in Tasks : Step(t)
  BY <1>1, StepKeepsAcked
<1>2. CASE \E t \in Tasks : Stop(t)
  BY <1>2 DEF Stop, TypeOK, Pending, Newline, AckedIsLogged, Logged, NewlineOf, history
<1>3. CASE \E t \in Tasks, e \in Entries : Record(t, e)
  <2>1. PICK t \in Tasks, e \in Entries : Record(t, e)
    BY <1>3
  <2>2. \A u \in Tasks : pc'[u] = "flush" => pc[u] = "flush" /\ cur'[u] = cur[u]
    BY <2>1 DEF Record, TypeOK
  <2> QED BY <2>1, <2>2 DEF Record, Pending, Newline, AckedIsLogged, Logged, NewlineOf
<1>4. CASE Crash
  <2>1. \A u \in Tasks : pc'[u] # "flush"
    BY <1>4 DEF Crash, GoDown
  <2> QED BY <1>4, <2>1, NoneFlushing DEF Crash, GoDown
<1>5. CASE PowerFail
  <2>1. \A u \in Tasks : pc'[u] # "flush"
    BY <1>5 DEF PowerFail, GoDown
  <2>2. acked' = acked /\ lost' = lost \cup (Logged \ Logged')
    BY <1>5 DEF PowerFail, GoDown, Logged
  <2> QED BY <2>1, <2>2 DEF Pending, AckedIsLogged
<1>6. CASE WriteBack
  BY <1>6 DEF WriteBack, Pending, Newline, AckedIsLogged, Logged, NewlineOf, history
<1>7. CASE Restart
  BY <1>7 DEF Restart, Pending, Newline, AckedIsLogged, Logged, NewlineOf, history
<1>8. CASE UNCHANGED vars
  BY <1>8 DEF vars, Pending, Newline, AckedIsLogged, Logged, NewlineOf
<1> QED BY <1>1, <1>2, <1>3, <1>4, <1>5, <1>6, <1>7, <1>8 DEF Next

(* Ok means written: the line of an entry that record_write answered Ok for *)
(* is in the file unless a power failure took it, however calls of any      *)
(* number of tasks interleave, fail or crash.                               *)
THEOREM AckedLogged == Spec => []AckedIsLogged
<1>1. Init => AckInv
  BY InitShape DEF Init, AckInv, Pending, AckedIsLogged
<1>2. AckInv /\ [Next]_vars => AckInv'
  BY AckInvKept
<1>3. AckInv => AckedIsLogged
  BY DEF AckInv
<1> QED BY <1>1, <1>2, <1>3, PTL DEF Spec

-----------------------------------------------------------------------------
(* What replay returns: the entries of a file, piece by piece *)

Heads == INSTANCE FoldLaws WITH
            Op <- LAMBDA es, c : IF c.part = "head" THEN Append(es, c.e) ELSE es
Newlines == INSTANCE FoldLaws WITH
            Op <- LAMBDA es, c : IF c.part = "newline" THEN Append(es, c.e) ELSE es

LEMMA HeadsAreFolded ==
    ASSUME NEW f
    PROVE  EntriesOf(f, "head") = Heads!Fold(<<>>, f)
BY DEF EntriesOf, FoldLeft, MapThenFoldSet, Max, Heads!Fold, Heads!FoldLeft,
       Heads!MapThenFoldSet, Heads!Max

LEMMA NewlinesAreFolded ==
    ASSUME NEW f
    PROVE  EntriesOf(f, "newline") = Newlines!Fold(<<>>, f)
BY DEF EntriesOf, FoldLeft, MapThenFoldSet, Max, Newlines!Fold,
       Newlines!FoldLeft, Newlines!MapThenFoldSet, Newlines!Max

LEMMA NoEntries ==
    ASSUME NEW p \in {"head", "newline"}
    PROVE  EntriesOf(<<>>, p) = <<>>
BY HeadsAreFolded, NewlinesAreFolded, Heads!FoldEmpty, Newlines!FoldEmpty

LEMMA OneMoreEntry ==
    ASSUME NEW p \in {"head", "newline"}, NEW f \in Seq(Part), NEW c \in Part
    PROVE  EntriesOf(Append(f, c), p) =
              IF c.part = p THEN Append(EntriesOf(f, p), c.e) ELSE EntriesOf(f, p)
<1>1. CASE p = "head"
  BY <1>1, HeadsAreFolded, Heads!FoldAppend
<1>2. CASE p = "newline"
  BY <1>2, NewlinesAreFolded, Newlines!FoldAppend
<1> QED BY <1>1, <1>2

(* The entries are those with such a piece in the file. *)
LEMMA EntriesThere ==
    ASSUME NEW p \in {"head", "newline"}, NEW f \in Seq(Part)
    PROVE  /\ EntriesOf(f, p) \in Seq(Entries)
           /\ \A e \in Entries :
                 Contains(EntriesOf(f, p), e) <=> Contains(f, Piece(e, p))
<1> DEFINE Claim(g) ==
             /\ EntriesOf(g, p) \in Seq(Entries)
             /\ \A e \in Entries :
                   Contains(EntriesOf(g, p), e) <=> Contains(g, Piece(e, p))
           S == {g \in Seq(Part) : Claim(g)}
<1>1. <<>> \in S
  <2>1. \A e \in Entries : ~Contains(<<>>, e) /\ ~Contains(<<>>, Piece(e, p))
    BY DEF Contains
  <2>2. EntriesOf(<<>>, p) = <<>>
    BY NoEntries
  <2>3. <<>> \in Seq(Entries) /\ <<>> \in Seq(Part)
    OBVIOUS
  <2>4. Claim(<<>>)
    BY <2>1, <2>2, <2>3
  <2> HIDE DEF Claim
  <2> QED BY <2>3, <2>4
<1>2. ASSUME NEW g \in Seq(Part), NEW c \in Part, g \in S PROVE Append(g, c) \in S
  <2> DEFINE es == EntriesOf(g, p)
  <2>1. es \in Seq(Entries) /\ c.e \in Entries
        /\ \A e \in Entries : Contains(es, e) <=> Contains(g, Piece(e, p))
    BY <1>2 DEF Part
  <2> HIDE DEF es
  <2>2. \A e \in Entries : Contains(Append(g, c), Piece(e, p)) <=>
                              Contains(g, Piece(e, p)) \/ c = Piece(e, p)
    BY ContainsAppend
  <2>3. \A e \in Entries : c = Piece(e, p) <=> c.part = p /\ c.e = e
    BY DEF Piece, Part
  <2>4. CASE c.part = p
    <3>1. EntriesOf(Append(g, c), p) = Append(es, c.e)
      BY <2>4, OneMoreEntry DEF es
    <3>2. \A e \in Entries : Contains(Append(es, c.e), e) <=> Contains(es, e) \/ c.e = e
      BY <2>1 DEF Contains
    <3>3. Append(es, c.e) \in Seq(Entries)
      BY <2>1
    <3>4. Claim(Append(g, c))
      BY <2>1, <2>2, <2>3, <2>4, <3>1, <3>2, <3>3
    <3> HIDE DEF Claim
    <3> QED BY <3>4
  <2>5. CASE c.part # p
    <3>1. EntriesOf(Append(g, c), p) = es
      BY <2>5, OneMoreEntry DEF es
    <3> QED BY <2>1, <2>2, <2>3, <2>5, <3>1
  <2> QED BY <2>4, <2>5
<1> HIDE DEF S
<1>3. Seq(Part) \subseteq S
  BY <1>1, <1>2, Heads!SeqSetInduction
<1> QED BY <1>3 DEF S

\* a is the beginning of b.
Begins(a, b) == Len(a) <= Len(b) /\ a = SubSeq(b, 1, Len(a))

(* The entries of the beginning of a file are the beginning of its entries. *)
LEMMA EntriesOfBeginning ==
    ASSUME NEW p \in {"head", "newline"}, NEW f \in Seq(Part), NEW n \in 0..Len(f)
    PROVE  Begins(EntriesOf(SubSeq(f, 1, n), p), EntriesOf(f, p))
<1> DEFINE Claim(g) ==
             \A k \in 0..Len(g) : Begins(EntriesOf(SubSeq(g, 1, k), p), EntriesOf(g, p))
           S == {g \in Seq(Part) : Claim(g)}
<1>0. <<>> \in Seq(Part) /\ \A g \in Seq(Part) : SubSeq(g, 1, Len(g)) = g
  OBVIOUS
<1>1. <<>> \in S
  <2>1. Begins(<<>>, <<>>) /\ Len(<<>>) = 0 /\ SubSeq(<<>>, 1, 0) = <<>>
    BY DEF Begins
  <2>2. Claim(<<>>)
    <3>1. \A k \in 0..Len(<<>>) : SubSeq(<<>>, 1, k) = <<>>
      BY <2>1
    <3> QED BY <2>1, <3>1, NoEntries
  <2> HIDE DEF Claim
  <2> QED BY <1>0, <2>2
<1>2. ASSUME NEW g \in Seq(Part), NEW c \in Part, g \in S PROVE Append(g, c) \in S
  <2> DEFINE h == Append(g, c)
  <2>1. h \in Seq(Part) /\ Len(h) = Len(g) + 1 /\ Len(g) \in Nat
        /\ \A k \in 0..Len(g) : SubSeq(h, 1, k) = SubSeq(g, 1, k)
    OBVIOUS
  <2>2. EntriesOf(h, p) \in Seq(Entries) /\ EntriesOf(g, p) \in Seq(Entries)
    BY <2>1, EntriesThere
  <2>3. Begins(EntriesOf(g, p), EntriesOf(h, p))
    <3>1. c.e \in Entries
      BY DEF Part
    <3>2. EntriesOf(h, p) \in {Append(EntriesOf(g, p), c.e), EntriesOf(g, p)}
      BY OneMoreEntry
    <3> DEFINE a == EntriesOf(g, p)
               b == EntriesOf(h, p)
    <3> HIDE DEF a, b, h
    <3>3. a \in Seq(Entries) /\ (b = Append(a, c.e) \/ b = a)
      BY <2>2, <3>2 DEF a, b
    <3>4. Begins(a, b)
      BY <3>1, <3>3 DEF Begins
    <3> QED BY <3>4 DEF a, b
  <2>4. ASSUME NEW k \in 0..Len(h)
        PROVE  Begins(EntriesOf(SubSeq(h, 1, k), p), EntriesOf(h, p))
    <3>1. CASE k <= Len(g)
      <4> DEFINE a == EntriesOf(SubSeq(g, 1, k), p)
                 b == EntriesOf(g, p)
                 d == EntriesOf(h, p)
      <4>1. Begins(a, b) /\ Begins(b, d)
        BY <1>2, <2>1, <2>3, <3>1
      <4>2. a \in Seq(Entries) /\ b \in Seq(Entries) /\ d \in Seq(Entries)
        <5>1. SubSeq(g, 1, k) \in Seq(Part)
          BY <3>1
        <5> QED BY <5>1, <2>2, EntriesThere
      <4>3. SubSeq(h, 1, k) = SubSeq(g, 1, k)
        BY <2>1, <3>1
      <4> HIDE DEF a, b, d, h
      <4>4. Begins(a, d)
        BY <4>1, <4>2 DEF Begins
      <4> QED BY <4>3, <4>4 DEF a, d
    <3>2. CASE k = Len(h)
      <4>1. SubSeq(h, 1, k) = h
        BY <1>0, <2>1, <3>2
      <4> DEFINE d == EntriesOf(h, p)
      <4>2. d \in Seq(Entries)
        BY <2>2
      <4> HIDE DEF d, h
      <4>3. Begins(d, d)
        BY <4>2 DEF Begins
      <4> QED BY <4>1, <4>3 DEF d
    <3>3. k <= Len(g) \/ k = Len(h)
      BY <2>1
    <3> HIDE DEF h
    <3> QED BY <3>1, <3>2, <3>3
  <2>5. Claim(h)
    BY <2>4
  <2> HIDE DEF Claim, h
  <2>6. h \in S
    BY <2>1, <2>5
  <2> QED BY <2>6 DEF h
<1> HIDE DEF S
<1>3. Seq(Part) \subseteq S
  BY <1>1, <1>2, Heads!SeqSetInduction
<1> QED BY <1>3 DEF S

-----------------------------------------------------------------------------
(* The pieces that are in the file or on their way to it *)

Stream == file \o buf

\* Every piece is of a call that has begun, and no entry has two newlines.
OnceIn(s) ==
    /\ \A i \in 1..Len(s) : s[i].e \in begun
    /\ \A i, j \in 1..Len(s) :
          i < j /\ s[i].part = "newline" /\ s[j].part = "newline" => s[i].e # s[j].e

\* A call that waits for the mutex has no piece yet, and no two calls record
\* the same entry.
Recording(t) == pc[t] \in {"lock", "flush"}
FreshIn(s) ==
    /\ \A t \in Tasks : pc[t] = "lock" => \A i \in 1..Len(s) : s[i].e # cur[t]
    /\ \A t, u \in Tasks : t # u /\ Recording(t) /\ Recording(u) => cur[t] # cur[u]

\* s is a sequence of complete lines.
Whole(s) ==
    \A i \in 1..Len(s) :
       /\ i = 1 \/ s[i - 1].part = "newline" => s[i].part = "head"
       /\ s[i].part = "head" =>
            /\ i = 1 \/ s[i - 1].part = "newline"
            /\ i < Len(s) /\ s[i + 1] = Piece(s[i].e, "rest")
       /\ s[i].part = "rest" =>
            i < Len(s) /\ s[i + 1] = Piece(s[i].e, "newline")

StreamInv == OnceIn(Stream) /\ FreshIn(Stream) /\ (~torn => Whole(Stream))

(* A line behind complete lines. *)
LEMMA ConcatAt ==
    ASSUME NEW a \in Seq(Part), NEW b \in Seq(Part)
    PROVE  /\ a \o b \in Seq(Part) /\ Len(a \o b) = Len(a) + Len(b)
           /\ \A i \in 1..Len(a) : (a \o b)[i] = a[i]
           /\ \A i \in 1..Len(b) : (a \o b)[Len(a) + i] = b[i]
  OBVIOUS

LEMMA LinePieces ==
    ASSUME NEW e \in Entries, NEW s \in Seq(Part)
    PROVE  /\ Line(e) \in Seq(Part)
           /\ s \o Line(e) \in Seq(Part) /\ Len(s \o Line(e)) = Len(s) + 3
           /\ \A i \in 1..Len(s) : (s \o Line(e))[i] = s[i]
           /\ (s \o Line(e))[Len(s) + 1] = Piece(e, "head")
           /\ (s \o Line(e))[Len(s) + 2] = Piece(e, "rest")
           /\ (s \o Line(e))[Len(s) + 3] = Piece(e, "newline")
<1>1. /\ Piece(e, "head") \in Part /\ Piece(e, "rest") \in Part
      /\ Piece(e, "newline") \in Part
  BY DEF Piece, Part
<1> DEFINE o == <<Piece(e, "head"), Piece(e, "rest")>>
           n == <<Piece(e, "newline")>>
           l == Line(e)
<1>2. /\ o \in Seq(Part) /\ Len(o) = 2 /\ n \in Seq(Part) /\ Len(n) = 1
      /\ o[1] = Piece(e, "head") /\ o[2] = Piece(e, "rest")
      /\ n[1] = Piece(e, "newline")
  BY <1>1
<1>3. l = o \o n
  BY DEF Line, Object
<1> HIDE DEF o, n, l
<1>4. /\ l \in Seq(Part) /\ Len(l) = 3 /\ l[1] = Piece(e, "head")
      /\ l[2] = Piece(e, "rest") /\ l[3] = Piece(e, "newline")
  <2>1. 1 \in 1..Len(o) /\ 2 \in 1..Len(o) /\ 1 \in 1..Len(n) /\ 2 + 1 = 3
    BY <1>2
  <2>2. l \in Seq(Part) /\ Len(l) = 3
    <3>1. o \o n \in Seq(Part) /\ Len(o \o n) = Len(o) + Len(n)
      BY <1>2, ConcatAt
    <3> QED BY <1>2, <1>3, <2>1, <3>1
  <2>3. l[1] = o[1] /\ l[2] = o[2]
    BY <1>2, <1>3, <2>1, ConcatAt
  <2>4. l[Len(o) + 1] = n[1]
    BY <1>2, <1>3, <2>1, ConcatAt
  <2> QED BY <1>2, <2>1, <2>2, <2>3, <2>4
<1>5. /\ s \o l \in Seq(Part) /\ Len(s \o l) = Len(s) + Len(l)
      /\ \A i \in 1..Len(s) : (s \o l)[i] = s[i]
  BY <1>4, ConcatAt
<1>6. \A i \in 1..Len(l) : (s \o l)[Len(s) + i] = l[i]
  BY <1>4, ConcatAt
<1>7. 1 \in 1..Len(l) /\ 2 \in 1..Len(l) /\ 3 \in 1..Len(l)
  BY <1>4
<1> QED BY <1>4, <1>5, <1>6, <1>7 DEF l

LEMMA LineKeepsWhole ==
    ASSUME NEW e \in Entries, NEW s \in Seq(Part), Whole(s)
    PROVE  Whole(s \o Line(e))
<1> DEFINE w == s \o Line(e)
           n == Len(s)
<1>1. /\ Len(w) = n + 3 /\ n \in Nat
      /\ \A i \in 1..n : w[i] = s[i]
      /\ w[n + 1] = Piece(e, "head") /\ w[n + 2] = Piece(e, "rest")
      /\ w[n + 3] = Piece(e, "newline")
  BY LinePieces
<1>2. \A i \in 1..n : s[i].part \in {"head", "rest", "newline"}
  <2>1. \A i \in 1..n : s[i] \in Part
    OBVIOUS
  <2> QED BY <2>1 DEF Part
<1>3. n # 0 => s[n].part = "newline"
  BY <1>2 DEF Whole
<1> HIDE DEF w
<1>4. ASSUME NEW i \in 1..Len(w)
      PROVE  /\ i = 1 \/ w[i - 1].part = "newline" => w[i].part = "head"
             /\ w[i].part = "head" =>
                  /\ i = 1 \/ w[i - 1].part = "newline"
                  /\ i < Len(w) /\ w[i + 1] = Piece(w[i].e, "rest")
             /\ w[i].part = "rest" =>
                  i < Len(w) /\ w[i + 1] = Piece(w[i].e, "newline")
  <2>1. CASE i \in 1..n
    <3>1. w[i] = s[i] /\ (i > 1 => w[i - 1] = s[i - 1]) /\ (i < n => w[i + 1] = s[i + 1])
      BY <1>1, <2>1
    <3>2. i = n => s[i].part = "newline"
      BY <1>3, <2>1
    <3> QED BY <1>1, <2>1, <3>1, <3>2 DEF Whole
  <2>2. CASE i = n + 1
    <3>1. i > 1 => w[i - 1].part = "newline"
      BY <1>1, <1>3, <2>2
    <3> QED BY <1>1, <2>2, <3>1 DEF Piece
  <2>3. CASE i = n + 2
    BY <1>1, <2>3 DEF Piece
  <2>4. CASE i = n + 3
    BY <1>1, <2>4 DEF Piece
  <2> QED BY <1>1, <2>1, <2>2, <2>3, <2>4
<1>5. Whole(w)
  BY <1>4 DEF Whole
<1> QED BY <1>5 DEF w

\* s is whole up to n if the piece there, and the one behind it, end a line.
LEMMA WholeUpTo ==
    ASSUME NEW s \in Seq(Part), Whole(s), NEW n \in 0..Len(s),
           n # 0 => s[n].part = "newline"
    PROVE  Whole(SubSeq(s, 1, n))
<1> DEFINE w == SubSeq(s, 1, n)
<1>1. Len(w) = n /\ n \in Nat /\ n <= Len(s) /\ \A i \in 1..n : w[i] = s[i]
  OBVIOUS
<1> HIDE DEF w
<1>2. Whole(w)
  BY <1>1 DEF Whole
<1> QED BY <1>2 DEF w

\* A line goes on with the same entry until its newline.
LEMMA LineGoesOn ==
    ASSUME NEW s \in Seq(Part), Whole(s), NEW k \in 1..Len(s),
           s[k].part # "newline"
    PROVE  k < Len(s) /\ s[k + 1].e = s[k].e
<1>1. s[k] \in Part
  OBVIOUS
<1>2. s[k].part = "head" \/ s[k].part = "rest"
  BY <1>1 DEF Part
<1>3. \A e, p : Piece(e, p).e = e
  BY DEF Piece
<1>4. s[k].part = "head" => k < Len(s) /\ s[k + 1] = Piece(s[k].e, "rest")
  BY DEF Whole
<1>5. s[k].part = "rest" => k < Len(s) /\ s[k + 1] = Piece(s[k].e, "newline")
  BY DEF Whole
<1> QED BY <1>2, <1>3, <1>4, <1>5

(* Moving, keeping and cutting what is in the file and in the buffer *)

LEMMA PieceMoves ==
    ASSUME NEW f \in Seq(Part), NEW b \in Seq(Part), b # <<>>
    PROVE  Append(f, Head(b)) \o Tail(b) = f \o b
  OBVIOUS

LEMMA CutBuffer ==
    ASSUME NEW f \in Seq(Part), NEW b \in Seq(Part), NEW n \in 0..Len(b)
    PROVE  f \o SubSeq(b, 1, n) = SubSeq(f \o b, 1, Len(f) + n)
  OBVIOUS

LEMMA CutFile ==
    ASSUME NEW f \in Seq(Part), NEW b \in Seq(Part), NEW n \in 0..Len(f)
    PROVE  SubSeq(f, 1, n) \o <<>> = SubSeq(f \o b, 1, n)
  OBVIOUS

\* No call begins to record in this step.
NobodyBegins ==
    /\ begun' = begun
    /\ \A u \in Tasks : Recording(u)' => Recording(u) /\ cur'[u] = cur[u]
    /\ \A u \in Tasks : pc'[u] = "lock" => pc[u] = "lock"

LEMMA SameStream ==
    ASSUME StreamInv, Stream' = Stream, NobodyBegins, torn => torn'
    PROVE  StreamInv'
<1>1. OnceIn(Stream)'
  BY DEF StreamInv, OnceIn, NobodyBegins
<1>2. FreshIn(Stream)'
  <2>1. \A u \in Tasks : pc'[u] = "lock" => pc[u] = "lock" /\ cur'[u] = cur[u]
    BY DEF NobodyBegins, Recording
  <2> QED BY <2>1 DEF StreamInv, FreshIn, NobodyBegins
<1>3. ~torn' => Whole(Stream)'
  BY DEF StreamInv, Whole
<1> QED BY <1>1, <1>2, <1>3 DEF StreamInv

LEMMA StreamCut ==
    ASSUME StreamInv, Stream \in Seq(Part), NEW n \in 0..Len(Stream),
           Stream' = SubSeq(Stream, 1, n), NobodyBegins,
           ~torn' => ~torn /\ (n # 0 => Stream[n].part = "newline")
    PROVE  StreamInv'
<1> DEFINE s == Stream
           w == SubSeq(Stream, 1, n)
<1>0. Len(w) = n /\ n <= Len(s) /\ n \in Nat /\ Len(s) \in Nat
      /\ \A i \in 1..n : w[i] = s[i] /\ i \in 1..Len(s)
  OBVIOUS
<1>1. OnceIn(Stream)'
  <2>1. OnceIn(s)
    BY DEF StreamInv
  <2> HIDE DEF s, w
  <2>2. OnceIn(w)
    BY <1>0, <2>1 DEF OnceIn
  <2> QED BY <2>2 DEF OnceIn, NobodyBegins, w
<1>2. FreshIn(Stream)'
  <2>1. FreshIn(s)
    BY DEF StreamInv
  <2> HIDE DEF s, w
  <2>2. FreshIn(w)
    BY <1>0, <2>1 DEF FreshIn
  <2>3. \A u \in Tasks : pc'[u] = "lock" => pc[u] = "lock" /\ cur'[u] = cur[u]
    BY DEF NobodyBegins, Recording
  <2> QED BY <2>2, <2>3 DEF FreshIn, NobodyBegins, w
<1>3. ~torn' => Whole(Stream)'
  <2>1. ~torn' => Whole(w)
    BY WholeUpTo DEF StreamInv
  <2> QED BY <2>1 DEF Whole
<1> QED BY <1>1, <1>2, <1>3 DEF StreamInv

\* When a call has returned, or the program is down, nobody begins.
LEMMA ReturnBegins ==
    ASSUME TypeOK, NEW t \in Tasks, Flushing(t), Return(t), begun' = begun
    PROVE  NobodyBegins
BY ReturnOK DEF NobodyBegins, Recording

LEMMA StepKeepsStream ==
    ASSUME AckInv, StreamInv, NEW t \in Tasks, Step(t)
    PROVE  StreamInv'
<1> USE DEF AckInv
<1>0. file \in Seq(Part) /\ buf \in Seq(Part) /\ Stream \in Seq(Part)
      /\ Len(file) \in Nat /\ Len(buf) \in Nat /\ Len(Stream) = Len(file) + Len(buf)
  BY ConcatAt DEF TypeOK, Stream
<1>1. CASE RecordLock(t)
  <2> DEFINE e == cur[t]
             s == Stream
             w == s \o Line(e)
  <2>1. e \in Entries /\ e \in begun
    BY <1>1 DEF RecordLock, CurOK
  <2>2. Stream' = w
    <3>1. Line(e) \in Seq(Part)
      BY <1>0, <2>1, LinePieces
    <3> DEFINE l == Line(e)
    <3> HIDE DEF l
    <3>2. file \o (buf \o l) = (file \o buf) \o l
      BY <1>0, <3>1 DEF l
    <3> QED BY <1>1, <3>2 DEF RecordLock, Stream, history, l
  <2>3. /\ Len(w) = Len(s) + 3 /\ Len(s) \in Nat
        /\ \A i \in 1..Len(s) : w[i] = s[i]
        /\ w[Len(s) + 1] = Piece(e, "head") /\ w[Len(s) + 2] = Piece(e, "rest")
        /\ w[Len(s) + 3] = Piece(e, "newline")
    <3>1. s \in Seq(Part) /\ e \in Entries
      BY <1>0, <2>1
    <3> HIDE DEF s, e
    <3> QED BY <3>1, LinePieces
  <2>4. \A i \in 1..Len(w) : (i \in 1..Len(s) /\ w[i] = s[i])
                             \/ (i > Len(s) /\ w[i].e = e
                                 /\ (w[i].part = "newline" <=> i = Len(s) + 3))
    <3> HIDE DEF s, w, e
    <3> QED BY <2>3 DEF Piece
  <2>5. OnceIn(s) /\ FreshIn(s) /\ (~torn => Whole(s))
    BY DEF StreamInv
  <2>6. \A i \in 1..Len(s) : s[i].e # e
    BY <1>1, <2>5 DEF RecordLock, FreshIn
  <2>7. OnceIn(w)
    <3> HIDE DEF s, w, e
    <3>1. \A i \in 1..Len(w) : w[i].e \in begun
      BY <2>1, <2>4, <2>5 DEF OnceIn
    <3>2. ASSUME NEW i \in 1..Len(w), NEW j \in 1..Len(w), i < j,
                 w[i].part = "newline", w[j].part = "newline"
          PROVE  w[i].e # w[j].e
      <4>1. i \in 1..Len(s) /\ w[i] = s[i]
        BY <2>3, <2>4, <3>2
      <4> QED BY <2>4, <2>5, <2>6, <3>2, <4>1 DEF OnceIn
    <3> QED BY <3>1, <3>2 DEF OnceIn
  <2>8. \A u \in Tasks : Recording(u)' => Recording(u) /\ cur'[u] = cur[u]
    BY <1>1 DEF RecordLock, Recording, TypeOK
  <2>9. \A u \in Tasks : pc'[u] = "lock" => u # t /\ pc[u] = "lock" /\ cur'[u] = cur[u]
    BY <1>1 DEF RecordLock, TypeOK
  <2>10. \A u \in Tasks : u # t /\ pc[u] = "lock" => \A i \in 1..Len(w) : w[i].e # cur[u]
    <3>1. Recording(t) /\ \A u \in Tasks : pc[u] = "lock" => Recording(u)
      BY <1>1 DEF RecordLock, Recording
    <3>2. \A u \in Tasks : u # t /\ pc[u] = "lock" => cur[u] # e
      BY <2>5, <3>1 DEF FreshIn
    <3> HIDE DEF s, w, e
    <3> QED BY <2>4, <2>5, <3>2 DEF FreshIn
  <2>11. OnceIn(Stream)'
    BY <1>1, <2>2, <2>7 DEF OnceIn, RecordLock, history
  <2>12. FreshIn(Stream)'
    <3> HIDE DEF s, w
    <3>1. \A u \in Tasks : pc'[u] = "lock" => \A i \in 1..Len(w) : w[i].e # cur'[u]
      BY <2>9, <2>10
    <3>2. \A u, v \in Tasks : u # v /\ Recording(u)' /\ Recording(v)' => cur'[u] # cur'[v]
      BY <2>5, <2>8 DEF FreshIn
    <3> QED BY <2>2, <3>1, <3>2 DEF FreshIn
  <2>13. ~torn' => Whole(Stream)'
    <3>1. ~torn => Whole(w)
      BY <1>0, <2>1, <2>5, LineKeepsWhole
    <3> QED BY <1>1, <2>2, <3>1 DEF Whole, RecordLock, history
  <2> QED BY <2>11, <2>12, <2>13 DEF StreamInv
<1>2. CASE WritePiece(t)
  <2>1. Stream' = Stream
    BY <1>0, <1>2, PieceMoves DEF WritePiece, Stream
  <2> QED BY <1>2, <2>1, SameStream DEF WritePiece, NobodyBegins, Recording, history
<1>3. CASE RecordDone(t)
  <2>1. NobodyBegins
    BY <1>3, ReturnBegins DEF RecordDone, Flushing
  <2> QED BY <1>3, <2>1, SameStream DEF RecordDone, Stream
<1>4. CASE FlushFail(t)
  <2>1. NobodyBegins
    BY <1>4, ReturnBegins DEF FlushFail, history
  <2> QED BY <1>4, <2>1, SameStream DEF FlushFail, Stream, history
<1>5. CASE WriteFail(t)
  <2>1. NobodyBegins
    BY <1>5, ReturnBegins DEF WriteFail, Flushing
  <2>2. PICK n \in 0..Len(buf) :
          /\ \A i \in DOMAIN buf : buf[i].e = cur[t] <=> i > n
          /\ buf' = SubSeq(buf, 1, n)
    BY <1>5 DEF WriteFail
  <2> DEFINE k == Len(file) + n
  <2>3. Stream' = SubSeq(Stream, 1, k)
    BY <1>0, <1>5, <2>2, CutBuffer DEF WriteFail, Stream
  <2>4. k \in 0..Len(Stream)
    BY <1>0, <2>2
  <2>5. /\ \A i \in 1..Len(file) : Stream[i] = file[i]
        /\ \A i \in 1..Len(buf) : Stream[Len(file) + i] = buf[i]
    BY <1>0, ConcatAt DEF Stream
  <2>6. ASSUME ~torn' PROVE ~torn /\ (k # 0 => Stream[k].part = "newline")
    <3>1. ~torn /\ Head(buf) # Piece(cur[t], "rest") /\ buf # <<>> /\ Whole(Stream)
      BY <1>5, <2>6 DEF WriteFail, StreamInv
    <3>2. SUFFICES ASSUME k # 0 PROVE Stream[k].part = "newline"
      BY <3>1
    <3>3. k \in 1..Len(Stream) /\ Stream[k] \in Part
      BY <1>0, <2>4, <3>2
    <3>4. Stream[k].part \in {"head", "rest", "newline"}
      BY <3>3 DEF Part
    <3>5. CASE n = Len(buf)
      BY <1>0, <3>1, <3>3, <3>4, <3>5 DEF Whole
    <3>6. CASE n < Len(buf) /\ n > 0
      <4>1. Stream[k] = buf[n] /\ Stream[k + 1] = buf[n + 1]
            /\ n \in DOMAIN buf /\ n + 1 \in DOMAIN buf
        <5>1. /\ n \in 1..Len(buf) /\ n + 1 \in 1..Len(buf) /\ DOMAIN buf = 1..Len(buf)
              /\ k + 1 = Len(file) + (n + 1)
          BY <1>0, <3>6
        <5> QED BY <2>5, <5>1
      <4>2. Stream[k].e # Stream[k + 1].e
        BY <2>2, <3>6, <4>1
      <4> HIDE DEF k
      <4> QED BY <1>0, <3>1, <3>3, <4>2, LineGoesOn
    <3>7. CASE n = 0
      <4>1. 1 \in DOMAIN buf /\ Head(buf) = buf[1] /\ buf[1] \in Part
        BY <1>0, <3>1
      <4>2. buf[1].e = cur[t]
        BY <2>2, <3>7, <4>1
      <4>3. cur[t] \in Large /\ buf[1].part # "newline"
        BY <1>5, <4>1, <4>2 DEF WriteFail
      <4>4. buf[1].part # "rest"
        <5>1. buf[1].part = "rest" => buf[1] = Piece(cur[t], "rest")
          BY <4>1, <4>2 DEF Part, Piece
        <5> QED BY <3>1, <4>1, <5>1
      <4>5. buf[1].part = "head"
        BY <4>1, <4>3, <4>4 DEF Part
      <4>6. Stream[k + 1] = buf[1] /\ k + 1 \in 1..Len(Stream) /\ k + 1 # 1
        BY <1>0, <2>5, <3>2, <3>3, <3>7, <4>1
      <4>7. (k + 1) - 1 = k
        BY <3>3
      <4> QED BY <3>1, <4>5, <4>6, <4>7 DEF Whole
    <3> QED BY <2>2, <3>5, <3>6, <3>7, <1>0
  <2> HIDE DEF k
  <2> QED BY <1>0, <2>1, <2>3, <2>4, <2>6, StreamCut
<1>6. CASE StopLock(t)
  <2>1. NobodyBegins
    BY <1>6 DEF StopLock, NobodyBegins, Recording, TypeOK, history
  <2> QED BY <1>6, <2>1, SameStream DEF StopLock, Stream, history
<1>7. CASE StopDone(t)
  <2>1. NobodyBegins
    BY <1>7, ReturnBegins DEF StopDone, Flushing, history
  <2> QED BY <1>7, <2>1, SameStream DEF StopDone, Stream, history
<1> QED BY <1>1, <1>2, <1>3, <1>4, <1>5, <1>6, <1>7 DEF Step

LEMMA StreamKept ==
    ASSUME AckInv, StreamInv, [Next]_vars
    PROVE  StreamInv'
<1> USE DEF AckInv
<1>0. file \in Seq(Part) /\ buf \in Seq(Part) /\ Stream \in Seq(Part)
      /\ Len(file) \in Nat /\ Len(buf) \in Nat /\ Len(Stream) = Len(file) + Len(buf)
      /\ \A i \in 1..Len(file) : Stream[i] = file[i]
  BY ConcatAt DEF TypeOK, Stream
<1>1. CASE \E t \in Tasks : Step(t)
  BY <1>1, StepKeepsStream
<1>2. CASE \E t \in Tasks : Stop(t)
  <2>1. NobodyBegins
    BY <1>2 DEF Stop, NobodyBegins, Recording, TypeOK, history
  <2> QED BY <1>2, <2>1, SameStream DEF Stop, Stream, history
<1>3. CASE \E t \in Tasks, e \in Entries : Record(t, e)
  <2>1. PICK t \in Tasks, e \in Entries : Record(t, e)
    BY <1>3
  <2>2. Stream' = Stream /\ torn' = torn /\ begun' = begun \cup {e} /\ e \notin begun
    BY <2>1 DEF Record, Stream
  <2>3. \A u \in Tasks : u # t => pc'[u] = pc[u] /\ cur'[u] = cur[u]
    BY <2>1 DEF Record, TypeOK
  <2>4. Recording(t)' => cur'[t] = e
    BY <2>1 DEF Record, Recording, TypeOK
  <2>5. \A u \in Tasks : Recording(u) => cur[u] # e
    BY <2>2 DEF Recording, CurOK
  <2>6. \A u \in Tasks : u # t /\ Recording(u)' => Recording(u)
    BY <2>3 DEF Recording
  <2>7. OnceIn(Stream)'
    BY <2>2 DEF StreamInv, OnceIn
  <2>8. FreshIn(Stream)'
    <3>1. \A i \in 1..Len(Stream) : Stream[i].e # e
      BY <2>2 DEF StreamInv, OnceIn
    <3>2. \A u \in Tasks : pc'[u] = "lock" => \A i \in 1..Len(Stream) : Stream[i].e # cur'[u]
      <4>1. \A u \in Tasks : pc'[u] = "lock" => Recording(u)'
        BY DEF Recording
      <4> QED BY <2>3, <2>4, <3>1, <4>1 DEF StreamInv, FreshIn
    <3>3. \A u, v \in Tasks : u # v /\ Recording(u)' /\ Recording(v)' => cur'[u] # cur'[v]
      <4> SUFFICES ASSUME NEW u \in Tasks, NEW v \in Tasks, u # v,
                          Recording(u)', Recording(v)'
                   PROVE  cur'[u] # cur'[v]
        OBVIOUS
      <4>1. CASE u # t /\ v # t
        BY <2>3, <2>6, <4>1 DEF StreamInv, FreshIn
      <4>2. CASE u = t
        BY <2>3, <2>4, <2>5, <2>6, <4>2
      <4>3. CASE v = t
        BY <2>3, <2>4, <2>5, <2>6, <4>3
      <4> QED BY <4>1, <4>2, <4>3
    <3> QED BY <2>2, <3>2, <3>3 DEF FreshIn
  <2>9. ~torn' => Whole(Stream)'
    BY <2>2 DEF StreamInv, Whole
  <2> QED BY <2>7, <2>8, <2>9 DEF StreamInv
<1>4. ASSUME GoDown, NEW n \in 0..Len(file), file' = SubSeq(file, 1, n)
      PROVE  StreamInv'
  <2>1. Stream' = SubSeq(Stream, 1, n)
    BY <1>0, <1>4, CutFile DEF GoDown, Stream
  <2>2. n \in 0..Len(Stream)
    BY <1>0
  <2>3. NobodyBegins
    BY <1>4 DEF GoDown, NobodyBegins, Recording
  <2>4. ~torn' => ~torn /\ (n # 0 => Stream[n].part = "newline")
    <3> SUFFICES ASSUME ~torn' PROVE ~torn /\ (n # 0 => Stream[n].part = "newline")
      OBVIOUS
    <3>1. ~torn /\ (file' = <<>> \/ Last(file').part = "newline")
      BY <1>4 DEF GoDown, EndsTorn
    <3>2. n # 0 => Len(file') = n /\ file'[n] = file[n]
      BY <1>0, <1>4
    <3>4. n # 0 => Stream[n] = file[n]
      BY <1>0, <2>2
    <3>3. n # 0 => file' # <<>>
      BY <3>2
    <3> QED BY <3>1, <3>2, <3>3, <3>4 DEF Last
  <2> QED BY <1>0, <2>1, <2>2, <2>3, <2>4, StreamCut
<1>5. CASE Crash
  <2>1. Len(file) \in 0..Len(file) /\ file' = SubSeq(file, 1, Len(file))
    BY <1>0, <1>5 DEF Crash
  <2> QED BY <1>4, <1>5, <2>1 DEF Crash
<1>6. CASE PowerFail
  <2>1. PICK n \in durable..Len(file) : file' = SubSeq(file, 1, n)
    BY <1>6 DEF PowerFail
  <2>2. n \in 0..Len(file)
    BY <2>1 DEF TypeOK
  <2> QED BY <1>4, <1>6, <2>1, <2>2 DEF PowerFail
<1>7. CASE WriteBack
  BY <1>7, SameStream DEF WriteBack, NobodyBegins, Recording, Stream, history
<1>8. CASE Restart
  BY <1>8, SameStream DEF Restart, NobodyBegins, Recording, Stream, history
<1>9. CASE UNCHANGED vars
  BY <1>9, SameStream DEF vars, NobodyBegins, Recording, Stream
<1> QED BY <1>1, <1>2, <1>3, <1>5, <1>6, <1>7, <1>8, <1>9 DEF Next

JournalInv == AckInv /\ StreamInv

LEMMA Invariance == Spec => []JournalInv
<1>1. Init => JournalInv
  <2> SUFFICES ASSUME Init PROVE JournalInv
    OBVIOUS
  <2>1. AckInv
    BY InitShape DEF Init, AckInv, Pending, AckedIsLogged
  <2>2. Len(Stream) = 0 /\ \A t \in Tasks : pc[t] = "idle"
    <3>1. file = <<>> /\ buf = <<>>
      BY DEF Init
    <3> QED BY <3>1 DEF Init, Stream
  <2>3. StreamInv
    BY <2>2 DEF StreamInv, OnceIn, FreshIn, Recording, Whole
  <2> QED BY <2>1, <2>3 DEF JournalInv
<1>2. JournalInv /\ [Next]_vars => JournalInv'
  BY AckInvKept, StreamKept DEF JournalInv
<1> QED BY <1>1, <1>2, PTL DEF Spec

-----------------------------------------------------------------------------
(* Replay *)

(* Of complete lines, the heads are the entries whose newlines are there,   *)
(* but for a line that is cut off.                                          *)
LEMMA HeadsAndNewlines ==
    ASSUME NEW f \in Seq(Part), Whole(f)
    PROVE  EntriesOf(f, "head") = EntriesOf(f, "newline")
<1> DEFINE H(k) == EntriesOf(SubSeq(f, 1, k), "head")
           N(k) == EntriesOf(SubSeq(f, 1, k), "newline")
           Claim(k) == /\ k = 0 \/ f[k].part = "newline" => H(k) = N(k)
                       /\ k > 0 /\ f[k].part # "newline" => H(k) = Append(N(k), f[k].e)
           S == {k \in Nat : k <= Len(f) => Claim(k)}
<1>0. Len(f) \in Nat /\ \A k \in 1..Len(f) : f[k] \in Part
  OBVIOUS
<1>1. 0 \in S
  <2>1. SubSeq(f, 1, 0) = <<>>
    OBVIOUS
  <2>2. H(0) = N(0)
    BY <2>1, NoEntries
  <2> HIDE DEF H, N
  <2> QED BY <2>2
<1>2. ASSUME NEW k \in Nat, k \in S PROVE k + 1 \in S
  <2> SUFFICES ASSUME k + 1 <= Len(f) PROVE Claim(k + 1)
    OBVIOUS
  <2> DEFINE c == f[k + 1]
  <2>1. SubSeq(f, 1, k) \in Seq(Part) /\ SubSeq(f, 1, k + 1) = Append(SubSeq(f, 1, k), c)
    BY <1>0
  <2>2. c \in Part /\ k + 1 \in 1..Len(f)
    BY <1>0
  <2>3. /\ H(k + 1) = IF c.part = "head" THEN Append(H(k), c.e) ELSE H(k)
        /\ N(k + 1) = IF c.part = "newline" THEN Append(N(k), c.e) ELSE N(k)
    BY <2>1, <2>2, OneMoreEntry
  <2>4. Claim(k)
    BY <1>2
  <2>5. c.part \in {"head", "rest", "newline"}
    BY <2>2 DEF Part
  <2>6. k = 0 => c.part = "head"
    BY <2>2 DEF Whole
  <2>7. k > 0 => k \in 1..Len(f)
    BY <1>0
  <2>8. k > 0 /\ f[k].part = "newline" => c.part = "head"
    BY <2>2 DEF Whole
  <2>9. k > 0 /\ f[k].part # "newline" => c.part # "head" /\ c.e = f[k].e
    <3>1. k > 0 /\ c.part = "head" => f[k].part = "newline"
      BY <2>2 DEF Whole
    <3> QED BY <2>7, <3>1, LineGoesOn
  <2> HIDE DEF H, N, c
  <2>10. H(k + 1) = N(k + 1) \/ c.part # "newline"
    <3>1. CASE k > 0 /\ f[k].part # "newline"
      BY <2>3, <2>4, <2>9, <3>1
    <3>2. CASE k = 0 \/ f[k].part = "newline"
      BY <2>6, <2>8, <3>2
    <3> QED BY <3>1, <3>2
  <2>11. c.part # "newline" => H(k + 1) = Append(N(k + 1), c.e)
    <3>1. CASE k > 0 /\ f[k].part # "newline"
      BY <2>3, <2>4, <2>9, <3>1
    <3>2. CASE k = 0 \/ f[k].part = "newline"
      <4>1. c.part = "head"
        BY <1>2, <2>6, <2>8, <3>2
      <4>2. H(k) = N(k)
        BY <2>4, <3>2
      <4> QED BY <2>3, <4>1, <4>2
    <3> QED BY <3>1, <3>2
  <2> QED BY <2>10, <2>11 DEF c
<1>3. Len(f) \in S
  <2> HIDE DEF S
  <2> QED BY <1>0, <1>1, <1>2, Heads!NatSetInduction
<1>4. SubSeq(f, 1, Len(f)) = f
  OBVIOUS
<1>5. Len(f) = 0 \/ f[Len(f)].part = "newline"
  BY <1>0, LineGoesOn
<1>6. Claim(Len(f))
  BY <1>3
<1>7. EntriesOf(SubSeq(f, 1, Len(f)), "head") =
         EntriesOf(SubSeq(f, 1, Len(f)), "newline")
  BY <1>5, <1>6
<1> QED BY <1>4, <1>7

(* Complete lines parse. *)
LEMMA WholeParses ==
    ASSUME NEW f \in Seq(Part), Whole(f)
    PROVE  Parses(f)
<1> SUFFICES ASSUME NEW i \in LineStarts(f)
             PROVE  \E e \in Entries : LineAt(f, i) = Object(e)
  BY DEF Parses
<1>0. i \in 1..Len(f) /\ f[i] \in Part /\ Len(f) \in Nat
  BY DEF LineStarts
<1>1. f[i].part = "head"
  BY <1>0 DEF LineStarts, Whole
<1> DEFINE e == f[i].e
<1>2. e \in Entries
  BY <1>0 DEF Part
<1>3. i + 1 \in 1..Len(f) /\ f[i + 1] = Piece(e, "rest")
  BY <1>0, <1>1 DEF Whole
<1>4. f[i + 1].part = "rest" /\ f[i + 1].e = e
  BY <1>3 DEF Piece
<1>5. i + 2 \in 1..Len(f) /\ f[i + 2] = Piece(e, "newline")
  <2>1. (i + 1) + 1 = i + 2
    BY <1>0
  <2> QED BY <1>3, <1>4, <2>1 DEF Whole
<1>6. f[i] = Piece(e, "head")
  BY <1>0, <1>1 DEF Piece, Part
<1> DEFINE ends == {j \in i..Len(f) : f[j].part = "newline"} \cup {Len(f) + 1}
<1>7. i + 2 \in ends /\ i \notin ends /\ i + 1 \notin ends
  BY <1>0, <1>1, <1>3, <1>4, <1>5 DEF Piece
<1>8. \A j \in ends : j \in Int /\ j >= i
  BY <1>0
<1>9. \A j \in ends : j >= i + 2
  <2> HIDE DEF ends
  <2> QED BY <1>0, <1>7, <1>8
<1>10. Min(ends) = i + 2
  <2> HIDE DEF ends
  <2> QED BY <1>0, <1>7, <1>8, <1>9 DEF Min
<1>11. LineAt(f, i) = SubSeq(f, i, i + 1)
  <2>1. LineAt(f, i) = SubSeq(f, i, Min(ends) - 1)
    BY DEF LineAt
  <2>2. (i + 2) - 1 = i + 1
    BY <1>0
  <2> QED BY <1>10, <2>1, <2>2
<1>12. SubSeq(f, i, i + 1) = <<f[i], f[i + 1]>>
  <2> DEFINE w == SubSeq(f, i, i + 1)
             v == <<f[i], f[i + 1]>>
  <2>1. w \in Seq(Part) /\ Len(w) = 2 /\ w[1] = f[i] /\ w[2] = f[i + 1]
    BY <1>0, <1>3
  <2>2. v \in Seq(Part) /\ Len(v) = 2 /\ v[1] = f[i] /\ v[2] = f[i + 1]
    BY <1>0, <1>3
  <2> HIDE DEF w, v
  <2>3. \A j \in 1..2 : w[j] = v[j]
    BY <2>1, <2>2
  <2>4. w = v
    BY <2>1, <2>2, <2>3
  <2> QED BY <2>4 DEF w, v
<1> QED BY <1>2, <1>3, <1>6, <1>11, <1>12 DEF Object

(* When nothing is being written and nothing was torn, replay returns the   *)
(* lines of the file: no line of one task ends up within that of another,   *)
(* and what a failed flush leaves in the buffer completes its own line.     *)
THEOREM ReplayReturns == Spec => []ReplayReturnsLog
<1>1. JournalInv => ReplayReturnsLog
  <2> SUFFICES ASSUME JournalInv, ~torn, buf = <<>>
               PROVE  Replay = EntriesOf(file, "newline")
    BY DEF ReplayReturnsLog
  <2>1. file \in Seq(Part) /\ Stream = file
    BY DEF JournalInv, AckInv, TypeOK, Stream
  <2>2. Whole(file)
    BY <2>1 DEF JournalInv, StreamInv
  <2> QED BY <2>1, <2>2, WholeParses, HeadsAndNewlines DEF Replay
<1> QED BY <1>1, Invariance, PTL

-----------------------------------------------------------------------------
(* The journal is an append-only log *)

Lines == EntriesOf(file, "newline")
SafeLines == Len(EntriesOf(SubSeq(file, 1, durable), "newline"))

LEMMA SameLines ==
    ASSUME UNCHANGED <<file, durable>>
    PROVE  UNCHANGED <<Lines, SafeLines>>
  BY DEF Lines, SafeLines

LEMMA LogContains ==
    ASSUME NEW s, NEW e
    PROVE  Log!Contains(s, e) <=> Contains(s, e)
  BY DEF Log!Contains, Contains

(* A piece that is written appends an entry to the log if it is a newline,  *)
(* the only one of its line.                                                *)
LEMMA PieceAppends ==
    ASSUME JournalInv, NEW t \in Tasks, WritePiece(t)
    PROVE  [Log!Next]_(Log!vars)
<1>0. TypeOK /\ OnceIn(Stream)
  BY DEF JournalInv, AckInv, StreamInv
<1> DEFINE c == Head(buf)
           n == Len(file)
<1>1. /\ buf \in Seq(Part) /\ buf # <<>> /\ file \in Seq(Part) /\ n \in Nat
      /\ file' = Append(file, c) /\ durable \in 0..n
      /\ UNCHANGED <<durable, begun, acked>>
  BY <1>0 DEF WritePiece, TypeOK, history
<1>2. c \in Part /\ 1 \in 1..Len(buf) /\ c = buf[1]
  BY <1>1
<1>3. SafeLines' = SafeLines
  <2>1. SubSeq(Append(file, c), 1, durable) = SubSeq(file, 1, durable)
    BY <1>1, <1>2
  <2> QED BY <1>1, <2>1 DEF SafeLines
<1>4. Lines' = IF c.part = "newline" THEN Append(Lines, c.e) ELSE Lines
  BY <1>1, <1>2, OneMoreEntry DEF Lines
<1>5. /\ Len(Stream) >= n + 1 /\ n + 1 \in 1..Len(Stream) /\ Stream[n + 1] = c
      /\ \A i \in 1..n : i \in 1..Len(Stream) /\ Stream[i] = file[i]
  <2>1. /\ Len(Stream) = n + Len(buf) /\ Len(buf) \in Nat
        /\ \A i \in 1..n : Stream[i] = file[i]
        /\ \A i \in 1..Len(buf) : Stream[n + i] = buf[i]
    BY <1>1, ConcatAt DEF Stream
  <2> QED BY <1>1, <1>2, <2>1
<1>6. CASE c.part # "newline"
  BY <1>1, <1>3, <1>4, <1>6 DEF Log!vars, Lines, SafeLines
<1>7. CASE c.part = "newline"
  <2>1. c.e \in Entries
    BY <1>2 DEF Part
  <2>2. c.e \in begun
    BY <1>0, <1>5 DEF OnceIn
  <2>3. ~Contains(Lines, c.e)
    <3> SUFFICES ASSUME Contains(Lines, c.e) PROVE FALSE
      OBVIOUS
    <3>1. Contains(file, Piece(c.e, "newline"))
      BY <1>1, <2>1, EntriesThere DEF Lines
    <3>2. PICK i \in 1..n : file[i] = Piece(c.e, "newline")
      BY <1>1, <3>1 DEF Contains
    <3>3. file[i].part = "newline" /\ file[i].e = c.e
      BY <3>2 DEF Piece
    <3>4. i \in 1..Len(Stream) /\ Stream[i] = file[i] /\ i < n + 1
      BY <1>1, <1>5
    <3> HIDE DEF c, n
    <3> QED BY <1>0, <1>5, <1>7, <3>3, <3>4 DEF OnceIn
  <2>4. Lines' = Append(Lines, c.e)
    BY <1>4, <1>7
  <2>5. Log!AppendEntry(c.e)
    BY <1>1, <1>3, <2>2, <2>3, <2>4, LogContains DEF Log!AppendEntry, Lines, SafeLines
  <2> QED BY <2>1, <2>5 DEF Log!Next
<1> QED BY <1>6, <1>7

(* A power failure leaves a beginning of the log that has all its safe      *)
(* entries.                                                                 *)
LEMMA PowerCuts ==
    ASSUME JournalInv, PowerFail
    PROVE  Log!PowerFailure
<1>0. TypeOK
  BY DEF JournalInv, AckInv
<1>1. PICK n \in durable..Len(file) : file' = SubSeq(file, 1, n)
  BY DEF PowerFail
<1>2. /\ file \in Seq(Part) /\ Len(file) \in Nat /\ durable \in 0..Len(file)
      /\ UNCHANGED <<durable, begun, acked>>
  BY <1>0 DEF TypeOK, PowerFail, GoDown
<1>3. /\ n \in 0..Len(file) /\ file' \in Seq(Part) /\ Len(file') = n
      /\ durable \in 0..n
  BY <1>1, <1>2
<1>4. SubSeq(file', 1, durable) = SubSeq(file, 1, durable)
  BY <1>1, <1>2, <1>3
<1>5. SafeLines' = SafeLines
  BY <1>2, <1>4 DEF SafeLines
<1> DEFINE l == Lines
           m == EntriesOf(file', "newline")
           d == EntriesOf(SubSeq(file', 1, durable), "newline")
<1>6. Begins(m, l) /\ Begins(d, m)
  BY <1>1, <1>2, <1>3, EntriesOfBeginning DEF Lines
<1>7. l \in Seq(Entries) /\ m \in Seq(Entries) /\ d \in Seq(Entries)
  <2>1. SubSeq(file', 1, durable) \in Seq(Part)
    BY <1>3
  <2> QED BY <1>2, <1>3, <2>1, EntriesThere DEF Lines
<1>8. Lines' = m /\ SafeLines = Len(d)
  BY <1>4 DEF Lines, SafeLines
<1> HIDE DEF l, m, d
<1>9. Len(m) \in Len(d)..Len(l) /\ m = SubSeq(l, 1, Len(m))
  BY <1>6, <1>7 DEF Begins
<1>10. \E k \in SafeLines..Len(Lines) : Lines' = SubSeq(Lines, 1, k)
  BY <1>8, <1>9 DEF l
<1> QED BY <1>2, <1>5, <1>10 DEF Log!PowerFailure, Lines, SafeLines

LEMMA StepOfLog ==
    ASSUME JournalInv, [Next]_vars
    PROVE  [Log!Next]_(Log!vars)
<1>0. AckInv /\ TypeOK
  BY DEF JournalInv, AckInv
<1>1. ASSUME NEW t \in Tasks, Step(t) PROVE [Log!Next]_(Log!vars)
  <2>1. CASE WritePiece(t)
    BY <2>1, PieceAppends
  <2>2. CASE RecordDone(t)
    <3> DEFINE e == cur[t]
    <3>1. /\ pc[t] = "flush" /\ buf = <<>> /\ acked' = acked \cup {e}
          /\ UNCHANGED <<file, durable, begun>>
      BY <2>2 DEF RecordDone
    <3>2. e \in Entries /\ Contains(file, Piece(e, "newline"))
      BY <1>0, <3>1 DEF AckInv, Pending, CurOK, Newline, TypeOK, Contains
    <3>3. Contains(Lines, e)
      BY <1>0, <3>2, EntriesThere DEF TypeOK, Lines
    <3>4. UNCHANGED <<Lines, SafeLines>>
      BY <3>1, SameLines
    <3>5. Log!Acknowledge(e)
      BY <3>1, <3>3, <3>4, LogContains DEF Log!Acknowledge, Lines, SafeLines
    <3> QED BY <3>2, <3>5 DEF Log!Next
  <2>3. CASE RecordLock(t) \/ FlushFail(t) \/ WriteFail(t) \/ StopLock(t) \/ StopDone(t)
    <3>1. UNCHANGED <<file, durable, begun, acked>>
      BY <2>3 DEF RecordLock, FlushFail, WriteFail, StopLock, StopDone, history
    <3>2. UNCHANGED <<Lines, SafeLines>>
      BY <3>1, SameLines
    <3> QED BY <3>1, <3>2 DEF Log!vars, Lines, SafeLines
  <2> QED BY <1>1, <2>1, <2>2, <2>3 DEF Step
<1>2. ASSUME NEW t \in Tasks, NEW e \in Entries, Record(t, e)
      PROVE  [Log!Next]_(Log!vars)
  <2>1. /\ e \notin begun /\ begun' = begun \cup {e}
        /\ UNCHANGED <<file, durable, acked>>
    BY <1>2 DEF Record
  <2>2. UNCHANGED <<Lines, SafeLines>>
    BY <2>1, SameLines
  <2>3. Log!Begin(e)
    BY <2>1, <2>2 DEF Log!Begin, Lines, SafeLines
  <2> QED BY <2>3 DEF Log!Next
<1>3. CASE PowerFail
  BY <1>3, PowerCuts DEF Log!Next
<1>4. CASE WriteBack
  <2>1. durable' = Len(file) /\ UNCHANGED <<file, begun, acked>>
    BY <1>4 DEF WriteBack, history
  <2>2. file \in Seq(Part) /\ SubSeq(file, 1, Len(file)) = file
    BY <1>0 DEF TypeOK
  <2>3. SafeLines' = Len(Lines) /\ Lines' = Lines
    BY <2>1, <2>2 DEF SafeLines, Lines
  <2>4. Log!MakeSafe
    BY <2>1, <2>3 DEF Log!MakeSafe, Lines, SafeLines
  <2> QED BY <2>4 DEF Log!Next
<1>5. CASE (\E t \in Tasks : Stop(t)) \/ Crash \/ Restart \/ UNCHANGED vars
  <2>1. UNCHANGED <<file, durable, begun, acked>>
    BY <1>5 DEF Stop, Crash, GoDown, Restart, vars, history
  <2>2. UNCHANGED <<Lines, SafeLines>>
    BY <2>1, SameLines
  <2> QED BY <2>1, <2>2 DEF Log!vars, Lines, SafeLines
<1> QED BY <1>1, <1>2, <1>3, <1>4, <1>5 DEF Next

(* The journal implements the append-only log: an entry is in it from the   *)
(* moment its newline is in the file, at most once and only after its call  *)
(* has begun; it is acknowledged only when it is in the log, and a power    *)
(* failure takes nothing but the end that was not on the disk yet.          *)
THEOREM RefinesLog == Spec => ImplementsLog
<1>1. Init => Log!Init
  <2>1. Init => SubSeq(file, 1, durable) = <<>>
    BY DEF Init
  <2>2. Len(<<>>) = 0
    OBVIOUS
  <2> QED BY <2>1, <2>2, NoEntries DEF Init, Log!Init
<1>2. JournalInv /\ [Next]_vars => [Log!Next]_(Log!vars)
  BY StepOfLog
<1> QED BY <1>1, <1>2, Invariance, PTL DEF Spec, ImplementsLog, Log!Spec
=============================================================================
