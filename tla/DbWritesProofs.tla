---------------------------- MODULE DbWritesProofs ----------------------------
(****************************************************************************)
(* Theorems about DbWrites, for any number of tasks, calls, rows, errors    *)
(* and crashes.                                                             *)
(*                                                                          *)
(* 1. the pool, and the lines that are never ahead of the table;            *)
(* 2. what becomes of each call: its statements are executed and its line   *)
(*    is recorded once, in the order of the calls;                          *)
(* 3. the table: every state has its shape, and the replay of the journal   *)
(*    restores it.                                                          *)
(****************************************************************************)
EXTENDS DbWrites, FiniteSetTheorems, SequenceTheorems, TLAPS

USE DbAssumption

-----------------------------------------------------------------------------
(* Frames *)

LEMMA NoCallOK == NoCall \in Frame
<1>1. <<>> \in Seq(Ids \cup {0})
  OBVIOUS
<1> QED BY <1>1 DEF NoCall, Frame, Labels

(* What the steps of a call do to its frame f. *)
LEMMA CallFrame ==
    ASSUME NEW n \in Nat, NEW ids \in Seq(Ids \cup {0})
    PROVE  LET g == [NoCall EXCEPT !.pc = "conn", !.n = n, !.left = ids]
           IN  g \in Frame /\ g.pc = "conn" /\ g.conn = None /\ g.left = ids /\ g.n = n
BY DEF NoCall, Frame, Labels

Taken(f, to, c) == [f EXCEPT !.pc = to, !.conn = c]

LEMMA ConnFrame ==
    ASSUME NEW f \in Frame, NEW to \in Labels, NEW c \in Conns
    PROVE  /\ Taken(f, to, c) \in Frame
           /\ Taken(f, to, c).pc = to /\ Taken(f, to, c).conn = c
           /\ Taken(f, to, c).left = f.left /\ Taken(f, to, c).n = f.n
BY DEF Frame, Taken

LEMMA GotoFrame ==
    ASSUME NEW f \in Frame, NEW to \in Labels
    PROVE  LET g == [f EXCEPT !.pc = to]
           IN  g \in Frame /\ g.pc = to /\ g.conn = f.conn /\ g.left = f.left
                 /\ g.n = f.n
BY DEF Frame

LEMMA DropFrame ==
    ASSUME NEW f \in Frame, NEW to \in Labels
    PROVE  LET g == [f EXCEPT !.conn = None, !.pc = to]
           IN  g \in Frame /\ g.pc = to /\ g.conn = None /\ g.left = f.left
                 /\ g.n = f.n
BY DEF Frame

LEMMA ExecFrame ==
    ASSUME NEW f \in Frame, NEW to \in Labels, NEW left \in Seq(Ids \cup {0})
    PROVE  LET g == [f EXCEPT !.left = left, !.conn = None, !.pc = to]
           IN  g \in Frame /\ g.pc = to /\ g.conn = None /\ g.left = left /\ g.n = f.n
BY DEF Frame

(* A call that asks for a connection to execute on has a row left to write. *)
FramesOK ==
    /\ frame \in [Tasks -> Frame]
    /\ \A t \in Tasks : frame[t].pc \in {"conn", "exec"} => frame[t].left # <<>>

(* Every step changes one task's frame, as one of these does. *)
Moved(t, pc, conn) ==
    /\ FramesOK'
    /\ frame'[t].pc = pc /\ frame'[t].conn = conn
    /\ \A u \in Tasks \ {t} : frame'[u] = frame[u]

LEMMA MovedBy ==
    ASSUME FramesOK, NEW t \in Tasks, NEW g \in Frame,
           frame' = [frame EXCEPT ![t] = g],
           g.pc \in {"conn", "exec"} => g.left # <<>>
    PROVE  Moved(t, g.pc, g.conn) /\ frame'[t] = g
BY DEF FramesOK, Moved

LEMMA CallMoves ==
    ASSUME FramesOK, NEW t \in Tasks, NEW n \in Nat, NEW ids \in Seq(Ids \cup {0}),
           ids # <<>>,
           frame' = [frame EXCEPT ![t] = [NoCall EXCEPT !.pc = "conn",
                                            !.n = n, !.left = ids]]
    PROVE  Moved(t, "conn", None) /\ frame'[t].n = n
<1> DEFINE g == [NoCall EXCEPT !.pc = "conn", !.n = n, !.left = ids]
<1>1. g \in Frame /\ g.pc = "conn" /\ g.conn = None /\ g.left = ids /\ g.n = n
  BY CallFrame
<1>2. frame' = [frame EXCEPT ![t] = g]
  OBVIOUS
<1> HIDE DEF g
<1>3. Moved(t, g.pc, g.conn) /\ frame'[t] = g
  BY <1>1, <1>2, MovedBy
<1> QED BY <1>1, <1>3

LEMMA ReturnMoves ==
    ASSUME FramesOK, NEW t \in Tasks, frame' = [frame EXCEPT ![t] = NoCall]
    PROVE  Moved(t, "idle", None) /\ frame'[t].n = 0
<1>1. NoCall.pc = "idle" /\ NoCall.conn = None /\ NoCall.n = 0
  BY DEF NoCall
<1>2. NoCall.pc \in {"conn", "exec"} => NoCall.left # <<>>
  BY <1>1
<1>3. Moved(t, NoCall.pc, NoCall.conn) /\ frame'[t] = NoCall
  BY <1>2, NoCallOK, MovedBy
<1> QED BY <1>1, <1>3

LEMMA AcquireMoves ==
    ASSUME FramesOK, NEW t \in Tasks, NEW to \in Labels, NEW c \in Conns,
           to \in {"conn", "exec"} => frame[t].left # <<>>,
           frame' = [frame EXCEPT ![t].pc = to, ![t].conn = c]
    PROVE  Moved(t, to, c) /\ frame'[t].n = frame[t].n
<1> DEFINE g == Taken(frame[t], to, c)
<1>1. frame[t] \in Frame
  BY DEF FramesOK
<1>2. /\ g \in Frame /\ g.pc = to /\ g.conn = c /\ g.left = frame[t].left
      /\ g.n = frame[t].n
  BY <1>1, ConnFrame
<1>3. frame' = [frame EXCEPT ![t] = g]
  BY <1>1 DEF FramesOK, Taken
<1> HIDE DEF g
<1>4. Moved(t, g.pc, g.conn) /\ frame'[t] = g
  BY <1>2, <1>3, MovedBy
<1> QED BY <1>2, <1>4

LEMMA GotoMoves ==
    ASSUME FramesOK, NEW t \in Tasks, NEW to \in Labels \ {"conn", "exec"},
           Goto(t, to)
    PROVE  Moved(t, to, frame[t].conn) /\ frame'[t].n = frame[t].n
<1> DEFINE g == [frame[t] EXCEPT !.pc = to]
<1>1. frame[t] \in Frame
  BY DEF FramesOK
<1>2. g \in Frame /\ g.pc = to /\ g.conn = frame[t].conn /\ g.n = frame[t].n
  BY <1>1, GotoFrame
<1>3. frame' = [frame EXCEPT ![t] = g]
  BY <1>1 DEF FramesOK, Goto
<1> HIDE DEF g
<1>5. Moved(t, g.pc, g.conn) /\ frame'[t] = g
  BY <1>2, <1>3, MovedBy
<1> QED BY <1>2, <1>5

LEMMA ReadIdMoves ==
    ASSUME FramesOK, NEW t \in Tasks, NEW to \in Labels \ {"conn", "exec"},
           frame' = [frame EXCEPT ![t].conn = None, ![t].pc = to]
    PROVE  Moved(t, to, None) /\ frame'[t].n = frame[t].n
<1> DEFINE g == [frame[t] EXCEPT !.conn = None, !.pc = to]
<1>1. frame[t] \in Frame
  BY DEF FramesOK
<1>2. g \in Frame /\ g.pc = to /\ g.conn = None /\ g.n = frame[t].n
  BY <1>1, DropFrame
<1>3. frame' = [frame EXCEPT ![t] = g]
  BY <1>1 DEF FramesOK
<1> HIDE DEF g
<1>5. Moved(t, g.pc, g.conn) /\ frame'[t] = g
  BY <1>2, <1>3, MovedBy
<1> QED BY <1>2, <1>5

LEMMA ExecMoves ==
    ASSUME FramesOK, NEW t \in Tasks, NEW to \in Labels,
           NEW left \in Seq(Ids \cup {0}),
           to \in {"conn", "exec"} => left # <<>>,
           frame' = [frame EXCEPT ![t].left = left, ![t].conn = None, ![t].pc = to]
    PROVE  Moved(t, to, None) /\ frame'[t].n = frame[t].n
<1> DEFINE g == [frame[t] EXCEPT !.left = left, !.conn = None, !.pc = to]
<1>1. frame[t] \in Frame
  BY DEF FramesOK
<1>2. /\ g \in Frame /\ g.pc = to /\ g.conn = None /\ g.left = left
      /\ g.n = frame[t].n
  BY <1>1, ExecFrame
<1>3. frame' = [frame EXCEPT ![t] = g]
  BY <1>1 DEF FramesOK
<1> HIDE DEF g
<1>5. Moved(t, g.pc, g.conn) /\ frame'[t] = g
  BY <1>2, <1>3, MovedBy
<1> QED BY <1>2, <1>5

-----------------------------------------------------------------------------
(* The pool *)

LEMMA PoolTake ==
    ASSUME FramesOK, PoolOK, NEW t \in Tasks, NEW pc, pc = "exec" \/ pc = "id",
           NEW c \in idle, idle' = idle \ {c}, Moved(t, pc, c),
           frame[t].conn = None
    PROVE  PoolOK'
<1>1. c \in Conns /\ c # None /\ \A u \in Tasks : frame[u].conn # c
  BY DEF PoolOK
<1>2. \A u \in Tasks : frame'[u].conn # None <=> frame'[u].pc \in {"exec", "id"}
  BY <1>1 DEF Moved, PoolOK
<1>3. \A u, v \in Tasks : frame'[u].conn = frame'[v].conn /\ u # v =>
         frame'[u].conn = None
  BY <1>1 DEF Moved, PoolOK
<1>4. idle' = Conns \ {frame'[u].conn : u \in Tasks}
  BY <1>1 DEF Moved, PoolOK
<1> QED BY <1>2, <1>3, <1>4 DEF PoolOK

LEMMA PoolGive ==
    ASSUME FramesOK, PoolOK, NEW t \in Tasks, NEW pc, pc # "exec", pc # "id",
           Moved(t, pc, None), frame[t].conn # None,
           idle' = idle \cup {frame[t].conn}
    PROVE  PoolOK'
<1>1. frame[t].conn \in Conns
  BY DEF FramesOK, Frame
<1>2. \A u \in Tasks : u # t => frame[u].conn # frame[t].conn
  BY DEF PoolOK
<1>3. \A u \in Tasks : frame'[u].conn # None <=> frame'[u].pc \in {"exec", "id"}
  BY DEF Moved, PoolOK
<1>4. \A u, v \in Tasks : frame'[u].conn = frame'[v].conn /\ u # v =>
         frame'[u].conn = None
  BY DEF Moved, PoolOK
<1>5. idle' = Conns \ {frame'[u].conn : u \in Tasks}
  BY <1>1, <1>2 DEF Moved, PoolOK
<1> QED BY <1>3, <1>4, <1>5 DEF PoolOK

LEMMA PoolKeep ==
    ASSUME FramesOK, PoolOK, NEW t \in Tasks, NEW pc, pc # "exec", pc # "id",
           Moved(t, pc, None), frame[t].conn = None, idle' = idle
    PROVE  PoolOK'
<1>1. \A u \in Tasks : frame'[u].conn = frame[u].conn
  BY DEF Moved
<1>2. \A u \in Tasks : frame'[u].conn # None <=> frame'[u].pc \in {"exec", "id"}
  BY DEF Moved, PoolOK
<1>3. {frame'[u].conn : u \in Tasks} = {frame[u].conn : u \in Tasks}
  BY <1>1
<1> QED BY <1>1, <1>2, <1>3 DEF PoolOK

-----------------------------------------------------------------------------
(* The steps of a call *)

LEMMA ExecStep ==
    ASSUME FramesOK, NEW t \in Tasks, Exec(t)
    PROVE  /\ \E pc \in Labels \ {"exec", "id"} : Moved(t, pc, None)
           /\ frame'[t].n = frame[t].n
<1> DEFINE left == IF made[frame[t].n].op = "multi" THEN Tail(frame[t].left)
                   ELSE <<>>
           to == AfterExec(t, left)
<1>1. frame[t].left # <<>> /\ frame[t].left \in Seq(Ids \cup {0})
  BY DEF Exec, At, FramesOK, Frame
<1>2. left \in Seq(Ids \cup {0})
  BY <1>1
<1>3. frame' = [frame EXCEPT ![t].left = left, ![t].conn = None, ![t].pc = to]
  BY DEF Exec
<1> HIDE DEF left
<1>4. /\ to \in Labels /\ to # "exec" /\ to # "id"
      /\ to = "conn" => left # <<>>
  BY DEF AfterExec, Labels
<1> HIDE DEF to
<1>5. Moved(t, to, None) /\ frame'[t].n = frame[t].n
  BY <1>2, <1>3, <1>4, ExecMoves
<1> QED BY <1>4, <1>5

LEMMA ReadIdStep ==
    ASSUME FramesOK, NEW t \in Tasks, ReadId(t)
    PROVE  /\ \E pc \in {"journal", "done"} : Moved(t, pc, None)
           /\ frame'[t].n = frame[t].n
<1> DEFINE to == IF t \in Journaled THEN "journal" ELSE "done"
<1>1. to \in Labels \ {"conn", "exec"} /\ to \in {"journal", "done"}
  BY DEF Labels
<1>2. frame' = [frame EXCEPT ![t].conn = None, ![t].pc = to]
  BY DEF ReadId
<1> HIDE DEF to
<1> QED BY <1>1, <1>2, ReadIdMoves

LEMMA ArgumentsOK ==
    ASSUME NEW op \in Ops, NEW ids \in Arguments(op)
    PROVE  ids \in Seq(Ids \cup {0}) /\ ids # <<>>
<1>1. CASE op = "save"
  <2>1. PICK i \in Ids \cup {0} : ids = <<i>>
    BY <1>1 DEF Arguments
  <2> QED BY <2>1
<1>2. CASE op = "batch"
  <2>1. PICK i \in Ids \cup {0}, j \in Ids \cup {0} : ids = <<i, j>>
    BY <1>2 DEF Arguments
  <2> QED BY <2>1
<1>3. CASE op \in {"update", "delete"}
  <2>1. PICK i \in Ids : ids = <<i>>
    BY <1>3 DEF Arguments
  <2> QED BY <2>1
<1>4. CASE op = "multi"
  <2>1. PICK i \in Ids, j \in Ids : ids = <<i, j>>
    BY <1>4 DEF Arguments
  <2> QED BY <2>1
<1> QED BY <1>1, <1>2, <1>3, <1>4 DEF Ops

LEMMA CrashKeepsPool ==
    ASSUME Crash
    PROVE  FramesOK' /\ PoolOK'
<1>1. NoCall.pc = "idle" /\ NoCall.conn = None
  BY DEF NoCall
<1>2. \A t \in Tasks : frame'[t] = NoCall
  BY DEF Crash
<1>3. FramesOK'
  BY <1>1, <1>2, NoCallOK DEF Crash, FramesOK
<1>4. idle' = Conns /\ None \notin Conns
  BY DEF Crash
<1> QED BY <1>1, <1>2, <1>3, <1>4 DEF PoolOK

LEMMA AcquireKeepsPool ==
    ASSUME FramesOK, PoolOK, NEW t \in Tasks, NEW from, NEW to,
           \/ from = "conn" /\ to = "exec"
           \/ from = "id_conn" /\ to = "id",
           Acquire(t, from, to)
    PROVE  FramesOK' /\ PoolOK' /\ frame'[t].n = frame[t].n /\ frame'[t].pc = to
           /\ \A u \in Tasks : u # t => frame'[u] = frame[u]
<1>1. PICK c \in idle : /\ idle' = idle \ {c}
                        /\ frame' = [frame EXCEPT ![t].pc = to, ![t].conn = c]
  BY DEF Acquire
<1>2. c \in Conns
  BY DEF PoolOK
<1>3. to \in Labels /\ (to = "exec" \/ to = "id") /\ to # "conn"
  BY DEF Labels
<1>4. frame[t].conn = None
  BY DEF Acquire, At, PoolOK
<1>5. to = "exec" => frame[t].left # <<>>
  BY DEF Acquire, At, FramesOK
<1>6. Moved(t, to, c) /\ frame'[t].n = frame[t].n
  BY <1>1, <1>2, <1>3, <1>5, AcquireMoves
<1>7. PoolOK'
  BY <1>1, <1>3, <1>4, <1>6, PoolTake
<1> QED BY <1>6, <1>7 DEF Moved

(* The invariant of the pool: PoolOK with the frames it talks about. *)
PoolInv == FramesOK /\ PoolOK /\ made \in Seq(CallMade)

LEMMA CallKeepsPool ==
    ASSUME PoolInv, NEW t \in Tasks, NEW op \in Ops, NEW ids \in Arguments(op),
           Call(t, op, ids)
    PROVE  PoolInv'
<1>1. FramesOK /\ PoolOK /\ made \in Seq(CallMade)
  BY DEF PoolInv
<1>2. ids \in Seq(Ids \cup {0}) /\ ids # <<>>
  BY ArgumentsOK
<1>3. Len(made) + 1 \in Nat /\ DOMAIN made \subseteq Nat
  BY <1>1
<1>4. Moved(t, "conn", None)
  <2>1. frame' = [frame EXCEPT ![t] = [NoCall EXCEPT !.pc = "conn",
                                         !.n = Len(made) + 1, !.left = ids]]
    BY DEF Call
  <2> QED BY <1>1, <1>2, <1>3, <2>1, CallMoves
<1>5. frame[t].conn = None /\ idle' = idle
  BY <1>1 DEF Call, At, PoolOK
<1>6. PoolOK'
  BY <1>1, <1>4, <1>5, PoolKeep
<1>7. made' \in Seq(CallMade)
  <2>1. ReturnedCalls \in SUBSET Nat
    BY <1>3 DEF ReturnedCalls, Calls
  <2>2. [by |-> t, op |-> op, ids |-> ids, after |-> ReturnedCalls] \in CallMade
    BY <1>2, <2>1 DEF CallMade
  <2> QED BY <1>1, <2>2 DEF Call
<1> QED BY <1>4, <1>6, <1>7 DEF PoolInv, Moved

LEMMA ReturnKeepsPool ==
    ASSUME PoolInv, NEW t \in Tasks, NEW how, Return(t, how), made' = made,
           idle' = idle \cup ({frame[t].conn} \ {None})
    PROVE  PoolInv'
<1>1. Moved(t, "idle", None)
  BY ReturnMoves DEF Return, PoolInv
<1>2. CASE frame[t].conn = None
  BY <1>1, <1>2, PoolKeep DEF PoolInv, Moved
<1>3. CASE frame[t].conn # None
  BY <1>1, <1>3, PoolGive DEF PoolInv, Moved
<1> QED BY <1>2, <1>3

LEMMA StepKeepsPool ==
    ASSUME PoolInv, NEW t \in Tasks, Progress(t) \/ Failure(t)
    PROVE  PoolInv'
<1> USE DEF PoolInv
<1>1. CASE Acquire(t, "conn", "exec")
  BY <1>1, AcquireKeepsPool DEF Acquire, history
<1>2. CASE Acquire(t, "id_conn", "id")
  BY <1>2, AcquireKeepsPool DEF Acquire, history
<1>3. CASE Exec(t)
  <2>1. PICK pc \in Labels \ {"exec", "id"} : Moved(t, pc, None)
    BY <1>3, ExecStep
  <2>2. frame[t].conn # None /\ idle' = idle \cup {frame[t].conn} /\ made' = made
    BY <1>3 DEF Exec, Release, At, PoolOK
  <2> QED BY <2>1, <2>2, PoolGive DEF Moved
<1>4. CASE ReadId(t)
  <2>1. PICK pc \in {"journal", "done"} : Moved(t, pc, None)
    BY <1>4, ReadIdStep
  <2>2. frame[t].conn # None /\ idle' = idle \cup {frame[t].conn} /\ made' = made
    BY <1>4 DEF ReadId, Release, At, PoolOK
  <2> QED BY <2>1, <2>2, PoolGive DEF Moved
<1>5. CASE Done(t)
  <2>1. frame[t].conn = None
    BY <1>5 DEF Done, At, PoolOK
  <2> QED BY <1>5, <2>1, ReturnKeepsPool DEF Done
<1>6. CASE JournalCheck(t)
  <2>1. frame[t].conn = None /\ idle' = idle /\ made' = made
    BY <1>6 DEF JournalCheck, At, PoolOK
  <2>2. CASE open
    <3>1. "record" \in Labels \ {"conn", "exec"}
      BY DEF Labels
    <3>2. Moved(t, "record", None)
      BY <1>6, <2>1, <2>2, <3>1, GotoMoves DEF JournalCheck
    <3> QED BY <2>1, <3>2, PoolKeep DEF Moved
  <2>3. CASE ~open
    BY <1>6, <2>1, <2>3, ReturnKeepsPool DEF JournalCheck
  <2> QED BY <2>2, <2>3
<1>7. CASE JournalWrite(t)
  <2>1. frame[t].conn = None
    BY <1>7 DEF JournalWrite, At, PoolOK
  <2> QED BY <1>7, <2>1, ReturnKeepsPool DEF JournalWrite
<1>8. CASE ExecFail(t)
  <2>1. frame[t].conn # None
    BY <1>8 DEF ExecFail, At, PoolOK
  <2> QED BY <1>8, <2>1, ReturnKeepsPool DEF ExecFail, Release
<1>9. CASE AcquireFail(t)
  <2>1. frame[t].conn = None
    BY <1>9 DEF AcquireFail, PoolOK
  <2> QED BY <1>9, <2>1, ReturnKeepsPool DEF AcquireFail
<1>10. CASE ReadIdFail(t)
  <2>1. frame[t].conn # None
    BY <1>10 DEF ReadIdFail, At, PoolOK
  <2> QED BY <1>10, <2>1, ReturnKeepsPool DEF ReadIdFail, Release
<1>11. CASE JournalFail(t)
  <2>1. frame[t].conn = None
    BY <1>11 DEF JournalFail, At, PoolOK
  <2> QED BY <1>11, <2>1, ReturnKeepsPool DEF JournalFail
<1> QED BY <1>1, <1>2, <1>3, <1>4, <1>5, <1>6, <1>7, <1>8, <1>9, <1>10, <1>11
        DEF Progress, Failure

LEMMA PoolKept ==
    ASSUME PoolInv, [Next]_vars
    PROVE  PoolInv'
<1>1. CASE \E t \in Tasks : Progress(t) \/ Failure(t)
  BY <1>1, StepKeepsPool
<1>2. CASE \E t \in Tasks : \E op \in Ops : \E ids \in Arguments(op) : Call(t, op, ids)
  BY <1>2, CallKeepsPool
<1>3. CASE Close
  BY <1>3 DEF Close, PoolInv, FramesOK, PoolOK, history
<1>4. CASE Crash
  BY <1>4, CrashKeepsPool DEF PoolInv, Crash
<1>5. CASE UNCHANGED vars
  BY <1>5 DEF vars, PoolInv, FramesOK, PoolOK
<1> QED BY <1>1, <1>2, <1>3, <1>4, <1>5 DEF Next

LEMMA InitPool ==
    ASSUME Init
    PROVE  PoolInv
<1>1. NoCall.pc = "idle" /\ NoCall.conn = None
  BY DEF NoCall
<1>2. \A t \in Tasks : frame[t] = NoCall
  BY DEF Init
<1>3. FramesOK
  BY <1>1, <1>2, NoCallOK DEF Init, FramesOK
<1>4. PoolOK
  BY <1>1, <1>2 DEF Init, PoolOK
<1> QED BY <1>3, <1>4 DEF Init, PoolInv

THEOREM PoolInvariance == Spec => []PoolInv
BY InitPool, PoolKept, PTL DEF Spec

(* No connection is lost and none is shared: whatever statement, connection *)
(* or journal write of whichever task fails, each connection is in the pool *)
(* or held by the one task that is executing on it.                         *)
THEOREM PoolSafe == Spec => []PoolOK
<1>1. PoolInv => PoolOK
  BY DEF PoolInv
<1> QED BY <1>1, PoolInvariance, PTL

-----------------------------------------------------------------------------
(* Sequences *)

LEMMA SeqGrows ==
    ASSUME NEW S, NEW T, S \subseteq T, NEW s \in Seq(S)
    PROVE  s \in Seq(T)
OBVIOUS

LEMMA SeqParts ==
    ASSUME NEW S, NEW s \in Seq(S), NEW k \in 0..Len(s), NEW m \in 0..Len(s)
    PROVE  SubSeq(s, 1, k) \in Seq(S) /\ SubSeq(s, k + 1, m) \in Seq(S)
<1>1. \A i \in 1..Len(s) : s[i] \in S
  OBVIOUS
<1>2. SubSeq(s, 1, k) \in Seq(S)
  BY <1>1
<1>3. SubSeq(s, k + 1, m) \in Seq(S)
  BY <1>1
<1> QED BY <1>2, <1>3

LEMMA SeqConcat ==
    ASSUME NEW S, NEW a \in Seq(S), NEW b \in Seq(S)
    PROVE  a \o b \in Seq(S)
OBVIOUS

\* A call whose statement has been executed.
Past == {"id_conn", "id", "journal", "record"}

HIDE DbAssumption

-----------------------------------------------------------------------------
(* Lines.  L is the journal followed by the buffer, M the calls made and O  *)
(* their outcomes.                                                          *)

\* A call began after others, all of which had returned.
AfterOK(M, O) == \A m \in DOMAIN M : \A k \in M[m].after : k \in DOMAIN M /\ O[k] # "none"

LinesOK(L, M, O) ==
    /\ L \in Seq(DOMAIN M)
    /\ \A i \in 1..Len(L) : O[L[i]] # "none"
    /\ \A i, j \in 1..Len(L) : i < j => L[i] # L[j] /\ L[j] \notin M[L[i]].after

\* The outcomes O and P differ at most in call n.
OnlyOf(n, M, O, P) == \A m \in DOMAIN M : m # n => P[m] = O[m]

\* The line of a call that has not returned until now comes last.
LEMMA LineAdded ==
    ASSUME NEW L, NEW M, NEW O, NEW P, LinesOK(L, M, O), AfterOK(M, O),
           NEW n \in DOMAIN M, O[n] = "none", P[n] # "none",
           OnlyOf(n, M, O, P)
    PROVE  LinesOK(L, M, P) /\ LinesOK(Append(L, n), M, P)
  <1>1. /\ L \in Seq(DOMAIN M) /\ Len(L) \in Nat
        /\ \A i \in 1..Len(L) : L[i] \in DOMAIN M
    BY LenProperties, ElementOfSeq DEF LinesOK
  <1>2. \A i \in 1..Len(L) : P[L[i]] # "none" /\ L[i] # n
    BY <1>1 DEF LinesOK, OnlyOf
  <1>3. \A i \in 1..Len(L) : n \notin M[L[i]].after
    BY <1>1 DEF AfterOK
  <1>4. LinesOK(L, M, P)
    BY <1>1, <1>2 DEF LinesOK
  <1> DEFINE A == Append(L, n)
  <1>5. /\ A \in Seq(DOMAIN M) /\ Len(A) = Len(L) + 1 /\ A[Len(L) + 1] = n
        /\ \A i \in 1..Len(L) : A[i] = L[i]
    BY <1>1, AppendProperties
  <1> HIDE DEF A
  <1>6. \A i \in 1..Len(A) : P[A[i]] # "none"
    <2> SUFFICES ASSUME NEW i \in 1..Len(A) PROVE P[A[i]] # "none"
      OBVIOUS
    <2>1. i \in 1..Len(L) \/ i = Len(L) + 1
      BY <1>1, <1>5
    <2>2. QED
      BY <1>2, <1>5, <2>1
  <1>7. \A i, j \in 1..Len(A) : i < j => A[i] # A[j] /\ A[j] \notin M[A[i]].after
    <2> SUFFICES ASSUME NEW i \in 1..Len(A), NEW j \in 1..Len(A), i < j
                 PROVE  A[i] # A[j] /\ A[j] \notin M[A[i]].after
      OBVIOUS
    <2>1. i \in 1..Len(L) /\ A[i] = L[i]
      BY <1>1, <1>5
    <2>2. CASE j \in 1..Len(L)
      <3>1. A[j] = L[j]
        BY <1>5, <2>2
      <3>2. QED
        BY <2>1, <2>2, <3>1 DEF LinesOK
    <2>3. CASE j = Len(L) + 1
      <3>1. A[j] = n
        BY <1>5, <2>3
      <3>2. QED
        BY <1>2, <1>3, <2>1, <3>1
    <2>4. QED
      BY <1>1, <1>5, <2>2, <2>3
  <1>8. LinesOK(A, M, P)
    BY <1>5, <1>6, <1>7 DEF LinesOK
  <1>9. QED
    BY <1>4, <1>8 DEF A

\* The buffer is lost.
LEMMA LinesCut ==
    ASSUME NEW M, NEW O, NEW a \in Seq(DOMAIN M), NEW b \in Seq(DOMAIN M),
           LinesOK(a \o b, M, O)
    PROVE  LinesOK(a, M, O)
  <1>1. /\ Len(a) \in Nat /\ Len(b) \in Nat /\ Len(a \o b) = Len(a) + Len(b)
        /\ \A i \in 1..Len(a) : (a \o b)[i] = a[i] /\ i \in 1..Len(a \o b)
    BY ConcatProperties, LenProperties
  <1>2. QED
    BY <1>1 DEF LinesOK

LEMMA Associates ==
    ASSUME NEW S, NEW a \in Seq(S), NEW u \in Seq(S), NEW v \in Seq(S), NEW w,
           w = u \o v
    PROVE  (a \o u) \o v = a \o w
  BY ConcatAssociative

\* What a failed or complete flush leaves: nothing moves, or the line is added.
LEMMA Flushed ==
    ASSUME NEW S, NEW a \in Seq(S), NEW b \in Seq(S), NEW m \in 0..Len(b),
           NEW k \in 0..m
    PROVE  /\ (a \o SubSeq(b, 1, k)) \o SubSeq(b, k + 1, m) = a \o SubSeq(b, 1, m)
           /\ SubSeq(b, 1, k) \in Seq(S) /\ SubSeq(b, k + 1, m) \in Seq(S)
           /\ a \o SubSeq(b, 1, k) \in Seq(S)
  <1>1. Len(b) \in Nat
    BY LenProperties
  <1>2. SubSeq(b, 1, k) \in Seq(S) /\ SubSeq(b, k + 1, m) \in Seq(S)
    BY <1>1, SeqParts
  <1>3. 1 \in 1..Len(b) + 1 /\ k \in 1 - 1..Len(b) /\ m \in k..Len(b)
    BY <1>1
  <1>4. SubSeq(b, 1, k) \o SubSeq(b, k + 1, m) = SubSeq(b, 1, m)
    BY <1>3, ConcatAdjacentSubSeq
  <1> DEFINE u == SubSeq(b, 1, k)
             v == SubSeq(b, k + 1, m)
             w == SubSeq(b, 1, m)
  <1>5. u \in Seq(S) /\ v \in Seq(S) /\ w = u \o v
    BY <1>2, <1>4
  <1> HIDE DEF u, v, w
  <1>6. (a \o u) \o v = a \o w /\ a \o u \in Seq(S)
    BY <1>5, Associates, SeqConcat
  <1>7. QED
    BY <1>2, <1>6 DEF u, v, w

LEMMA RangeGrows ==
    ASSUME NEW S, NEW a \in Seq(S), NEW b \in Seq(S)
    PROVE  Range(a) \subseteq Range(a \o b) /\ Range(b) \subseteq Range(a \o b)
  BY RangeConcatenation

\* e is the first m elements of b: k of them come to the journal, which was a
\* and is now c, and the rest is the buffer d.
Flushes(S, a, b, m, k, c, d, e) ==
    /\ a \in Seq(S) /\ b \in Seq(S) /\ m \in 0..Len(b) /\ k \in 0..m
    /\ c = a \o SubSeq(b, 1, k) /\ d = SubSeq(b, k + 1, m) /\ e = SubSeq(b, 1, m)

LEMMA FlushedTo ==
    ASSUME NEW S, NEW a, NEW b, NEW m, NEW k, NEW c, NEW d, NEW e,
           Flushes(S, a, b, m, k, c, d, e)
    PROVE  /\ c \o d = a \o e /\ c \in Seq(S) /\ d \in Seq(S)
           /\ Range(a) \subseteq Range(c)
  <1>1. a \in Seq(S) /\ b \in Seq(S) /\ m \in 0..Len(b) /\ k \in 0..m
    BY DEF Flushes
  <1>2. /\ (a \o SubSeq(b, 1, k)) \o SubSeq(b, k + 1, m) = a \o SubSeq(b, 1, m)
        /\ SubSeq(b, 1, k) \in Seq(S) /\ SubSeq(b, k + 1, m) \in Seq(S)
        /\ a \o SubSeq(b, 1, k) \in Seq(S)
    BY <1>1, Flushed
  <1>3. Range(a) \subseteq Range(a \o SubSeq(b, 1, k))
    BY <1>1, <1>2, RangeGrows
  <1>4. c = a \o SubSeq(b, 1, k) /\ d = SubSeq(b, k + 1, m) /\ e = SubSeq(b, 1, m)
    BY DEF Flushes
  <1>5. QED
    BY <1>2, <1>3, <1>4

LEMMA AppendSplit ==
    ASSUME NEW S, NEW a \in Seq(S), NEW b \in Seq(S), NEW n \in S
    PROVE  /\ Append(b, n) \in Seq(S) /\ Len(Append(b, n)) = Len(b) + 1
           /\ SubSeq(Append(b, n), 1, Len(b)) = b
           /\ SubSeq(Append(b, n), 1, Len(b) + 1) = Append(b, n)
           /\ a \o Append(b, n) = Append(a \o b, n)
           /\ n \in Range(a \o Append(b, n))
  <1>1. /\ Append(b, n) \in Seq(S) /\ Len(Append(b, n)) = Len(b) + 1
        /\ Len(b) \in Nat /\ Len(a) \in Nat
        /\ Append(b, n)[Len(b) + 1] = n
        /\ \A i \in 1..Len(b) : Append(b, n)[i] = b[i]
    BY AppendProperties, LenProperties
  <1>2. SubSeq(Append(b, n), 1, Len(b)) = b
    <2>1. Len(b) \in 0..Len(Append(b, n)) /\ Len(Append(b, n)) \in 0..Len(Append(b, n))
      BY <1>1
    <2>2. SubSeq(Append(b, n), 1, Len(b)) \in Seq(S)
      BY <1>1, <2>1, SeqParts
    <2>3. /\ Len(SubSeq(Append(b, n), 1, Len(b))) = Len(b)
          /\ \A i \in 1..Len(b) : SubSeq(Append(b, n), 1, Len(b))[i] = b[i]
      BY <1>1
    <2>4. QED
      BY <2>2, <2>3, SeqEqual
  <1>3. SubSeq(Append(b, n), 1, Len(b) + 1) = Append(b, n)
    BY <1>1, SubSeqFull
  <1>4. a \o Append(b, n) = Append(a \o b, n)
    <2>1. <<n>> \in Seq(S) /\ a \o b \in Seq(S)
      BY SeqConcat
    <2>2. Append(b, n) = b \o <<n>> /\ Append(a \o b, n) = (a \o b) \o <<n>>
      BY <2>1, AppendIsConcat
    <2>3. QED
      BY <2>1, <2>2, ConcatAssociative
  <1>5. n \in Range(Append(b, n))
    BY <1>1 DEF Range
  <1>6. QED
    BY <1>1, <1>2, <1>3, <1>4, <1>5, RangeGrows

-----------------------------------------------------------------------------
(* How often a call has been executed *)

Times(E, n) == Cardinality({i \in DOMAIN E : E[i] = n})

LEMMA TimesFinite ==
    ASSUME NEW S, NEW E \in Seq(S), NEW n
    PROVE  IsFiniteSet({i \in DOMAIN E : E[i] = n}) /\ Times(E, n) \in Nat
  <1>1. DOMAIN E = 1..Len(E) /\ Len(E) \in Nat
    BY LenProperties
  <1>2. IsFiniteSet(1..Len(E))
    BY <1>1, FS_Interval
  <1>3. {i \in DOMAIN E : E[i] = n} \in SUBSET (1..Len(E))
    BY <1>1
  <1>4. IsFiniteSet({i \in DOMAIN E : E[i] = n})
    BY <1>2, <1>3, FS_Subset
  <1>5. QED
    BY <1>4, FS_CardinalityType DEF Times

LEMMA TimesAppend ==
    ASSUME NEW S, NEW E \in Seq(S), NEW x \in S, NEW n
    PROVE  Times(Append(E, x), n) = Times(E, n) + (IF n = x THEN 1 ELSE 0)
  <1> DEFINE F == Append(E, x)
             A == {i \in DOMAIN E : E[i] = n}
             B == {i \in DOMAIN F : F[i] = n}
  <1>1. /\ DOMAIN E = 1..Len(E) /\ Len(E) \in Nat
        /\ DOMAIN F = 1..Len(E) + 1 /\ F[Len(E) + 1] = x
        /\ \A i \in 1..Len(E) : F[i] = E[i]
    <2>1. F \in Seq(S) /\ Len(F) = Len(E) + 1 /\ F[Len(E) + 1] = x
          /\ \A i \in 1..Len(E) : F[i] = E[i]
      BY AppendProperties
    <2> HIDE DEF F
    <2>2. QED
      BY <2>1, LenProperties
  <1>2. IsFiniteSet(A) /\ Times(E, n) = Cardinality(A) /\ Cardinality(A) \in Nat
    BY TimesFinite DEF Times
  <1>3. Times(F, n) = Cardinality(B)
    BY DEF Times
  <1> HIDE DEF F
  <1>4. CASE n = x
    <2>1. B = A \cup {Len(E) + 1} /\ Len(E) + 1 \notin A
      BY <1>1, <1>4
    <2> HIDE DEF A, B
    <2>2. Cardinality(B) = Cardinality(A) + 1
      BY <1>2, <2>1, FS_AddElement
    <2>3. QED
      BY <1>2, <1>3, <1>4, <2>2 DEF F
  <1>5. CASE n # x
    <2>1. B = A
      BY <1>1, <1>5
    <2> HIDE DEF A, B
    <2>2. QED
      BY <1>2, <1>3, <1>5, <2>1 DEF F
  <1>6. QED
    BY <1>4, <1>5

LEMMA TimesNone ==
    ASSUME NEW S, NEW E \in Seq(S), NEW n, n \notin S
    PROVE  Times(E, n) = 0
  <1>1. \A i \in DOMAIN E : E[i] \in S
    BY LenProperties, ElementOfSeq
  <1>2. {i \in DOMAIN E : E[i] = n} = {}
    BY <1>1
  <1>3. QED
    BY <1>2, FS_EmptySet DEF Times

-----------------------------------------------------------------------------
(* The inductive invariant *)

Outcomes == {"none", "ok", "err", "unlogged", "crashed"}

Recorded(m) == m.by \in Journaled /\ m.op \in {"save", "batch", "update"}
StatementsOf(m) == IF m.op = "multi" THEN Len(m.ids) ELSE 1

\* The statements a call has still to execute.
Rest(f, m) ==
    IF f.pc \notin {"conn", "exec"} THEN 0
    ELSE IF m.op = "multi" THEN Len(f.left) ELSE 1

\* A call under way is its task's, has no outcome yet, and what it has executed
\* and has still to execute are its statements.
CallOK(f, t, M, O, E) ==
    f.pc # "idle" =>
       /\ f.n \in DOMAIN M /\ O[f.n] = "none" /\ M[f.n].by = t
       /\ f.pc = "done" => ~Recorded(M[f.n])
       /\ Times(E, f.n) + Rest(f, M[f.n]) = StatementsOf(M[f.n])

ExecutedOK(E, M, O) ==
    /\ E \in Seq(DOMAIN M)
    /\ \A n \in DOMAIN M :
         /\ Times(E, n) <= StatementsOf(M[n])
         /\ O[n] \in {"ok", "unlogged"} => Times(E, n) = StatementsOf(M[n])

HistoryOK == outcome \in Seq(Outcomes) /\ Len(outcome) = Len(made) /\ AfterOK(made, outcome)
JournalOK ==
    /\ log \in Seq(DOMAIN made) /\ buffered \in Seq(DOMAIN made)
    /\ LinesOK(log \o buffered, made, outcome)
    /\ \A n \in DOMAIN made :
          outcome[n] = "ok" /\ Recorded(made[n]) => n \in Range(log)
CallsOK == \A t \in Tasks : CallOK(frame[t], t, made, outcome, executed)

CallInv == PoolInv /\ HistoryOK /\ JournalOK /\ CallsOK /\ ExecutedOK(executed, made, outcome)

LEMMA InitCalls == Init => CallInv
  <1> SUFFICES ASSUME Init PROVE CallInv
    OBVIOUS
  <1>1. PoolInv
    BY InitPool
  <1>2. /\ made = <<>> /\ outcome = <<>> /\ log = <<>> /\ buffered = <<>> /\ executed = <<>>
        /\ \A t \in Tasks : frame[t].pc = "idle"
    BY DEF Init, NoCall
  <1>3. DOMAIN made = {} /\ Len(made) = 0 /\ Len(outcome) = 0
    BY <1>2
  <1>4. HistoryOK
    BY <1>2, <1>3 DEF HistoryOK, AfterOK
  <1>5. <<>> \o <<>> \in Seq(DOMAIN made) /\ Len(<<>> \o <<>>) = 0
    OBVIOUS
  <1>6. JournalOK
    BY <1>2, <1>3, <1>5 DEF JournalOK, LinesOK
  <1>7. CallsOK /\ ExecutedOK(executed, made, outcome)
    BY <1>2, <1>3 DEF CallsOK, CallOK, ExecutedOK
  <1>8. QED
    BY <1>1, <1>4, <1>6, <1>7 DEF CallInv

-----------------------------------------------------------------------------
(* What a step of one call leaves of the invariant.  In each lemma t is the *)
(* task whose call takes the step and n is the call.                        *)

\* After E were executed, F have been: call n may have executed a statement.
MayExecute(n, M, E, F) ==
    \/ F = E
    \/ F = Append(E, n) /\ Times(E, n) + 1 <= StatementsOf(M[n])

LEMMA ExecutedKept ==
    ASSUME NEW E, NEW F, NEW M, NEW O, NEW P, NEW n \in DOMAIN M,
           ExecutedOK(E, M, O),
           OnlyOf(n, M, O, P), MayExecute(n, M, E, F),
           P[n] \in {"ok", "unlogged"} => Times(F, n) = StatementsOf(M[n])
    PROVE  /\ ExecutedOK(F, M, P)
           /\ \A m \in DOMAIN M : m # n => Times(F, m) = Times(E, m)
  <1>1. E \in Seq(DOMAIN M) /\ F \in Seq(DOMAIN M)
    BY AppendProperties DEF ExecutedOK, MayExecute
  <1>2. \A m \in DOMAIN M : m # n => Times(F, m) = Times(E, m)
    <2> SUFFICES ASSUME NEW m \in DOMAIN M, m # n PROVE Times(F, m) = Times(E, m)
      OBVIOUS
    <2>1. Times(E, m) \in Nat
      BY <1>1, TimesFinite
    <2>2. Times(Append(E, n), m) = Times(E, m) + (IF m = n THEN 1 ELSE 0)
      BY <1>1, TimesAppend
    <2>3. Times(Append(E, n), m) = Times(E, m)
      BY <2>1, <2>2
    <2>4. CASE F = E
      BY <2>4
    <2>5. CASE F = Append(E, n)
      BY <2>3, <2>5
    <2>6. QED
      BY <2>4, <2>5 DEF MayExecute
  <1>3. Times(F, n) <= StatementsOf(M[n])
    <2>1. Times(E, n) <= StatementsOf(M[n])
      BY DEF ExecutedOK
    <2>2. Times(Append(E, n), n) = Times(E, n) + (IF n = n THEN 1 ELSE 0)
      BY <1>1, TimesAppend
    <2>3. Times(Append(E, n), n) = Times(E, n) + 1
      BY <2>2
    <2>4. CASE F = E
      BY <2>1, <2>4
    <2>5. CASE F = Append(E, n) /\ Times(E, n) + 1 <= StatementsOf(M[n])
      BY <2>3, <2>5
    <2>6. QED
      BY <2>4, <2>5 DEF MayExecute
  <1>4. \A m \in DOMAIN M :
          /\ Times(F, m) <= StatementsOf(M[m])
          /\ P[m] \in {"ok", "unlogged"} => Times(F, m) = StatementsOf(M[m])
    <2> SUFFICES ASSUME NEW m \in DOMAIN M
                 PROVE  /\ Times(F, m) <= StatementsOf(M[m])
                        /\ P[m] \in {"ok", "unlogged"} => Times(F, m) = StatementsOf(M[m])
      OBVIOUS
    <2>1. CASE m = n
      BY <1>3, <2>1
    <2>2. CASE m # n
      BY <1>2, <2>2 DEF ExecutedOK, OnlyOf
    <2>3. QED
      BY <2>1, <2>2
  <1>5. QED
    BY <1>1, <1>2, <1>4 DEF ExecutedOK

\* No two tasks are making the same call.
LEMMA OthersKept ==
    ASSUME CallsOK, NEW t \in Tasks, NEW n, n = frame[t].n, frame[t].pc # "idle",
           \A u \in Tasks \ {t} : frame'[u] = frame[u],
           made' = made,
           \A m \in DOMAIN made : m # n => outcome'[m] = outcome[m],
           \A m \in DOMAIN made : m # n => Times(executed, m)' = Times(executed, m),
           CallOK(frame[t], t, made, outcome, executed)'
    PROVE  CallsOK'
  <1> SUFFICES ASSUME NEW u \in Tasks, u # t
               PROVE  CallOK(frame[u], u, made, outcome, executed)'
    BY DEF CallsOK
  <1>1. frame'[u] = frame[u] /\ CallOK(frame[u], u, made, outcome, executed)
    BY DEF CallsOK
  <1>2. CallOK(frame[t], t, made, outcome, executed)
    BY DEF CallsOK
  <1>3. SUFFICES ASSUME frame[u].pc # "idle"
                 PROVE  CallOK(frame[u], u, made, outcome, executed)'
    BY <1>1, <1>3 DEF CallOK
  <1>4. made[n].by = t /\ frame[u].n \in DOMAIN made /\ made[frame[u].n].by = u
    BY <1>1, <1>2, <1>3 DEF CallOK
  <1>5. frame[u].n # n
    BY <1>4
  <1>6. /\ outcome'[frame[u].n] = outcome[frame[u].n]
        /\ Times(executed, frame[u].n)' = Times(executed, frame[u].n)
    BY <1>4, <1>5, <1>1
  <1>7. QED
    BY <1>1, <1>3, <1>6 DEF CallOK

\* The statements of a call under way, and that it may execute one more.
LEMMA CallParts ==
    ASSUME CallInv, NEW t \in Tasks, NEW n, n = frame[t].n, frame[t].pc # "idle"
    PROVE  /\ n \in DOMAIN made /\ outcome[n] = "none" /\ made[n].by = t
           /\ frame[t].pc = "done" => ~Recorded(made[n])
           /\ Times(executed, n) \in Nat /\ StatementsOf(made[n]) \in Nat
           /\ Rest(frame[t], made[n]) \in Nat
           /\ Times(executed, n) + Rest(frame[t], made[n]) = StatementsOf(made[n])
           /\ executed \in Seq(DOMAIN made)
           /\ Times(Append(executed, n), n) = Times(executed, n) + 1
           /\ made[n] \in CallMade /\ frame[t] \in Frame
  <1>1. CallOK(frame[t], t, made, outcome, executed)
    BY DEF CallInv, CallsOK
  <1>2. n \in DOMAIN made /\ executed \in Seq(DOMAIN made)
    BY <1>1 DEF CallOK, CallInv, ExecutedOK
  <1>3. /\ Times(executed, n) \in Nat
        /\ Times(Append(executed, n), n) = Times(executed, n) + (IF n = n THEN 1 ELSE 0)
    BY <1>2, TimesFinite, TimesAppend
  <1>4. made[n] \in CallMade /\ frame[t] \in Frame
    BY <1>2 DEF CallInv, PoolInv, FramesOK
  <1>5. StatementsOf(made[n]) \in Nat /\ Rest(frame[t], made[n]) \in Nat
    <2>1. Len(made[n].ids) \in Nat /\ Len(frame[t].left) \in Nat
      BY <1>4 DEF CallMade, Frame
    <2>2. QED
      BY <2>1 DEF StatementsOf, Rest
  <1>6. QED
    BY <1>1, <1>2, <1>3, <1>4, <1>5 DEF CallOK

\* The call goes on, perhaps having executed a statement.
LEMMA GoesOn ==
    ASSUME CallInv, PoolInv', NEW t \in Tasks, NEW n, n = frame[t].n,
           frame[t].pc # "idle",
           \A u \in Tasks \ {t} : frame'[u] = frame[u],
           made' = made, outcome' = outcome, log' = log, buffered' = buffered,
           frame'[t].n = n, frame'[t].pc = "done" => ~Recorded(made[n]),
           \/ /\ executed' = executed
              /\ Rest(frame'[t], made[n]) = Rest(frame[t], made[n])
           \/ /\ executed' = Append(executed, n)
              /\ Rest(frame'[t], made[n]) + 1 = Rest(frame[t], made[n]),
           Rest(frame'[t], made[n]) \in Nat
    PROVE  CallInv'
  <1>1. /\ n \in DOMAIN made /\ outcome[n] = "none" /\ made[n].by = t
        /\ Times(executed, n) \in Nat
        /\ Times(executed, n) + Rest(frame[t], made[n]) = StatementsOf(made[n])
        /\ Times(Append(executed, n), n) = Times(executed, n) + 1
    BY CallParts
  <1> DEFINE T == Times(executed, n)
             A == Times(Append(executed, n), n)
             r == Rest(frame[t], made[n])
             q == Rest(frame'[t], made[n])
             s == StatementsOf(made[n])
  <1>2. /\ executed' = executed \/ (executed' = Append(executed, n) /\ T + 1 <= s)
        /\ Times(executed', n) + q = s
    <2>1. T \in Nat /\ T + r = s /\ A = T + 1 /\ q \in Nat
      BY <1>1
    <2>2. CASE executed' = executed /\ q = r
      BY <2>1, <2>2
    <2>3. CASE executed' = Append(executed, n) /\ q + 1 = r
      <3>1. Times(executed', n) = A
        BY <2>3
      <3> HIDE DEF T, A, r, q, s
      <3>2. QED
        BY <2>1, <2>3, <3>1
    <2>4. QED
      BY <2>2, <2>3
  <1>3. /\ ExecutedOK(executed', made, outcome)
        /\ \A m \in DOMAIN made : m # n => Times(executed', m) = Times(executed, m)
    <2>1. ExecutedOK(executed, made, outcome) /\ outcome[n] \notin {"ok", "unlogged"}
      BY <1>1 DEF CallInv
    <2>2. n \in DOMAIN made
      BY <1>1
    <2>3. executed' = executed \/ (executed' = Append(executed, n) /\ T + 1 <= s)
      BY <1>2
    <2>4. OnlyOf(n, made, outcome, outcome) /\ MayExecute(n, made, executed, executed')
      BY <2>3 DEF OnlyOf, MayExecute
    <2>5. QED
      BY <2>1, <2>2, <2>4, ExecutedKept
  <1>4. CallOK(frame'[t], t, made, outcome, executed')
    BY <1>1, <1>2 DEF CallOK
  <1>5. CallsOK'
    BY <1>3, <1>4, OthersKept DEF CallInv
  <1>6. HistoryOK' /\ JournalOK'
    BY DEF CallInv, HistoryOK, JournalOK
  <1>7. QED
    BY <1>3, <1>5, <1>6 DEF CallInv

\* The call returns, having executed its statements if it returns no error; its
\* line may have been added.
LEMMA Returns ==
    ASSUME CallInv, PoolInv', NEW t \in Tasks, NEW n, n = frame[t].n,
           frame[t].pc # "idle", NEW how \in Outcomes \ {"none"},
           Return(t, how), made' = made,
           \/ executed' = executed
           \/ (executed' = Append(executed, n) /\ Rest(frame[t], made[n]) >= 1),
           how \in {"ok", "unlogged"} =>
              executed' = executed /\ Rest(frame[t], made[n]) = 0,
           log' \in Seq(DOMAIN made), buffered' \in Seq(DOMAIN made),
           LinesOK(log' \o buffered', made, outcome'),
           Range(log) \subseteq Range(log'),
           how = "ok" => ~Recorded(made[n]) \/ n \in Range(log')
    PROVE  CallInv'
  <1>1. /\ n \in DOMAIN made /\ outcome[n] = "none"
        /\ Times(executed, n) \in Nat /\ StatementsOf(made[n]) \in Nat
        /\ Rest(frame[t], made[n]) \in Nat
        /\ Times(executed, n) + Rest(frame[t], made[n]) = StatementsOf(made[n])
    BY CallParts
  <1>2. /\ outcome \in Seq(Outcomes) /\ Len(outcome) = Len(made)
        /\ DOMAIN outcome = DOMAIN made /\ AfterOK(made, outcome)
        /\ made \in Seq(CallMade)
    BY DEF CallInv, HistoryOK, PoolInv
  <1>3. /\ outcome' \in Seq(Outcomes) /\ Len(outcome') = Len(made)
        /\ outcome'[n] = how
        /\ \A m \in DOMAIN made : m # n => outcome'[m] = outcome[m]
    BY <1>1, <1>2 DEF Return
  <1>4. /\ frame'[t].pc = "idle"
        /\ \A u \in Tasks \ {t} : frame'[u] = frame[u]
    BY ReturnMoves DEF Return, CallInv, PoolInv, Moved
  <1>5. /\ ExecutedOK(executed', made, outcome')
        /\ \A m \in DOMAIN made : m # n => Times(executed', m) = Times(executed, m)
    <2>1. ExecutedOK(executed, made, outcome)
      BY DEF CallInv
    <2> DEFINE T == Times(executed, n)
               r == Rest(frame[t], made[n])
               s == StatementsOf(made[n])
    <2>2. T \in Nat /\ r \in Nat /\ T + r = s
      BY <1>1
    <2>3. r >= 1 => T + 1 <= s
      BY <2>2
    <2>4. how \in {"ok", "unlogged"} => T = s /\ executed' = executed
      BY <2>2
    <2>5. outcome'[n] \in {"ok", "unlogged"} => Times(executed', n) = s
      BY <1>3, <2>4
    <2>6. executed' = executed \/ (executed' = Append(executed, n) /\ T + 1 <= s)
      <3>1. CASE executed' = executed
        BY <3>1
      <3>2. CASE executed' = Append(executed, n) /\ r >= 1
        BY <2>3, <3>2
      <3>3. QED
        BY <3>1, <3>2
    <2>7. \A m \in DOMAIN made : m # n => outcome'[m] = outcome[m]
      BY <1>3
    <2>8. n \in DOMAIN made
      BY <1>1
    <2>9. OnlyOf(n, made, outcome, outcome') /\ MayExecute(n, made, executed, executed')
      BY <2>6, <2>7 DEF OnlyOf, MayExecute
    <2>10. QED
      BY <2>1, <2>5, <2>8, <2>9, ExecutedKept
  <1>6. CallsOK'
    <2>1. CallOK(frame[t], t, made, outcome, executed)'
      BY <1>4 DEF CallOK
    <2>2. CallsOK
      BY DEF CallInv
    <2>3. \A m \in DOMAIN made : m # n => outcome'[m] = outcome[m]
      BY <1>3
    <2>4. \A m \in DOMAIN made : m # n => Times(executed, m)' = Times(executed, m)
      BY <1>5
    <2>5. \A u \in Tasks \ {t} : frame'[u] = frame[u]
      BY <1>4
    <2>6. QED
      BY <2>1, <2>2, <2>3, <2>4, <2>5, OthersKept
  <1>7. HistoryOK'
    <2>1. AfterOK(made, outcome')
      BY <1>1, <1>2, <1>3 DEF AfterOK, Outcomes
    <2>2. QED
      BY <1>3, <2>1 DEF HistoryOK
  <1>8. JournalOK'
    <2>1. \A m \in DOMAIN made : outcome'[m] = "ok" /\ Recorded(made[m]) => m \in Range(log')
      BY <1>3 DEF CallInv, JournalOK
    <2>2. QED
      BY <2>1 DEF JournalOK
  <1>9. QED
    BY <1>5, <1>6, <1>7, <1>8 DEF CallInv

\* The lines there were are still in order when the call has returned, and so
\* they are with its own.
LEMMA ReturnLines ==
    ASSUME CallInv, NEW t \in Tasks, NEW n, n = frame[t].n, frame[t].pc # "idle",
           NEW how \in Outcomes \ {"none"}, Return(t, how)
    PROVE  /\ LinesOK(log \o buffered, made, outcome')
           /\ LinesOK(Append(log \o buffered, n), made, outcome')
  <1>1. n \in DOMAIN made /\ outcome[n] = "none"
    BY CallParts
  <1>2. /\ outcome \in Seq(Outcomes) /\ DOMAIN outcome = DOMAIN made
        /\ AfterOK(made, outcome) /\ LinesOK(log \o buffered, made, outcome)
    BY DEF CallInv, HistoryOK, PoolInv, JournalOK
  <1>3. outcome'[n] # "none" /\ OnlyOf(n, made, outcome, outcome')
    BY <1>1, <1>2 DEF Return, OnlyOf
  <1>4. QED
    BY <1>1, <1>2, <1>3, LineAdded

\* The call returns without having reached the journal.
LEMMA ReturnsUnrecorded ==
    ASSUME CallInv, PoolInv', NEW t \in Tasks, NEW n, n = frame[t].n,
           frame[t].pc # "idle", NEW how \in Outcomes \ {"none"},
           Return(t, how), made' = made,
           \/ executed' = executed
           \/ (executed' = Append(executed, n) /\ Rest(frame[t], made[n]) >= 1),
           how \in {"ok", "unlogged"} =>
              executed' = executed /\ Rest(frame[t], made[n]) = 0,
           log' = log, buffered' = buffered, how = "ok" => ~Recorded(made[n])
    PROVE  CallInv'
  <1>1. log \in Seq(DOMAIN made) /\ buffered \in Seq(DOMAIN made)
    BY DEF CallInv, JournalOK
  <1>2. LinesOK(log' \o buffered', made, outcome')
    BY ReturnLines
  <1>3. Range(log) \subseteq Range(log')
    OBVIOUS
  <1>4. QED
    BY <1>1, <1>2, <1>3, Returns

-----------------------------------------------------------------------------
(* The steps *)

LEMMA AcquireCall ==
    ASSUME CallInv, PoolInv', NEW t \in Tasks, NEW from, NEW to,
           \/ from = "conn" /\ to = "exec"
           \/ from = "id_conn" /\ to = "id",
           Acquire(t, from, to)
    PROVE  CallInv'
  <1>1. frame[t].pc = from /\ frame[t] \in Frame /\ frame \in [Tasks -> Frame]
    BY DEF Acquire, At, CallInv, PoolInv, FramesOK
  <1>2. PICK c \in idle : frame' = [frame EXCEPT ![t].pc = to, ![t].conn = c]
    BY DEF Acquire
  <1>3. c \in Conns /\ to \in Labels
    BY DEF CallInv, PoolInv, PoolOK, Labels
  <1> DEFINE g == Taken(frame[t], to, c)
  <1>4. g.pc = to /\ g.left = frame[t].left /\ g.n = frame[t].n
    BY <1>1, <1>3, ConnFrame
  <1>5. frame' = [frame EXCEPT ![t] = g]
    BY <1>1, <1>2 DEF Taken
  <1> HIDE DEF g
  <1>6. /\ frame'[t].pc = to /\ frame'[t].left = frame[t].left
        /\ frame'[t].n = frame[t].n
        /\ \A u \in Tasks \ {t} : frame'[u] = frame[u]
    BY <1>1, <1>4, <1>5
  <1>7. /\ frame[t].pc # "idle" /\ frame'[t].pc # "done"
        /\ Rest(frame'[t], made[frame[t].n]) = Rest(frame[t], made[frame[t].n])
    BY <1>1, <1>6 DEF Rest
  <1>8. Rest(frame[t], made[frame[t].n]) \in Nat
    BY <1>7, CallParts
  <1>9. /\ made' = made /\ outcome' = outcome /\ executed' = executed
        /\ log' = log /\ buffered' = buffered
    BY DEF Acquire, journal, history
  <1>10. QED
    BY <1>6, <1>7, <1>8, <1>9, GoesOn

LEMMA ExecCall ==
    ASSUME CallInv, PoolInv', NEW t \in Tasks, Exec(t)
    PROVE  CallInv'
  <1> DEFINE n == frame[t].n
             left == IF made[n].op = "multi" THEN Tail(frame[t].left) ELSE <<>>
             to == AfterExec(t, left)
  <1>1. /\ frame[t].pc = "exec" /\ frame[t] \in Frame /\ frame \in [Tasks -> Frame]
        /\ frame[t].left # <<>> /\ frame[t].left \in Seq(Ids \cup {0})
    BY DEF Exec, At, CallInv, PoolInv, FramesOK, Frame
  <1>2. /\ n \in DOMAIN made /\ made[n].by = t
    BY <1>1, CallParts
  <1>3. /\ left \in Seq(Ids \cup {0}) /\ Len(left) \in Nat
        /\ made[n].op = "multi" => Len(left) + 1 = Len(frame[t].left)
    BY <1>1
  <1>4. frame' = [frame EXCEPT ![t].left = left, ![t].conn = None, ![t].pc = to]
    BY DEF Exec
  <1> HIDE DEF left
  <1>5. /\ to \in Labels /\ to # "exec" /\ to # "idle"
        /\ made[n].op = "multi" => to = IF left = <<>> THEN "done" ELSE "conn"
        /\ made[n].op # "multi" => to # "conn"
        /\ to = "done" => ~Recorded(made[n])
    BY <1>2 DEF AfterExec, Labels, Recorded
  <1> HIDE DEF to
  <1> DEFINE g == [frame[t] EXCEPT !.left = left, !.conn = None, !.pc = to]
  <1>6. g.pc = to /\ g.left = left /\ g.n = n
    <2>1. frame[t] \in Frame /\ to \in Labels /\ left \in Seq(Ids \cup {0})
      BY <1>1, <1>3, <1>5
    <2>2. g \in Frame /\ g.pc = to /\ g.conn = None /\ g.left = left /\ g.n = frame[t].n
      BY <2>1, ExecFrame
    <2>3. QED
      BY <2>2
  <1>7. frame' = [frame EXCEPT ![t] = g]
    BY <1>1, <1>4
  <1> HIDE DEF g
  <1>8. /\ frame'[t].pc = to /\ frame'[t].left = left /\ frame'[t].n = n
        /\ \A u \in Tasks \ {t} : frame'[u] = frame[u]
    BY <1>1, <1>6, <1>7
  <1>9. /\ Rest(frame'[t], made[n]) \in Nat
        /\ Rest(frame'[t], made[n]) + 1 = Rest(frame[t], made[n])
    <2>1. CASE made[n].op = "multi"
      <3>1. left = <<>> => Len(left) = 0
        OBVIOUS
      <3>2. Rest(frame[t], made[n]) = Len(left) + 1
        BY <1>1, <1>3, <2>1 DEF Rest
      <3>3. Rest(frame'[t], made[n]) = Len(left)
        BY <1>5, <1>8, <2>1, <3>1 DEF Rest
      <3>4. QED
        BY <1>3, <3>2, <3>3
    <2>2. CASE made[n].op # "multi"
      <3>1. Rest(frame[t], made[n]) = 1 /\ Rest(frame'[t], made[n]) = 0
        BY <1>1, <1>5, <1>8, <2>2 DEF Rest
      <3>2. QED
        BY <3>1
    <2>3. QED
      BY <2>1, <2>2
  <1>10. /\ made' = made /\ outcome' = outcome /\ log' = log /\ buffered' = buffered
         /\ executed' = Append(executed, n)
    BY DEF Exec, Executes, journal
  <1>11. frame'[t].pc = "done" => ~Recorded(made[n])
    BY <1>5, <1>8
  <1>12. QED
    BY <1>1, <1>8, <1>9, <1>10, <1>11, GoesOn

\* A step that executes nothing and leaves the call nothing to execute.
LEMMA MovesOn ==
    ASSUME CallInv, PoolInv', NEW t \in Tasks, NEW to,
           to = "done" => ~Recorded(made[frame[t].n]),
           frame[t].pc \notin {"idle", "conn", "exec"},
           to \notin {"idle", "conn", "exec"}, frame'[t].pc = to,
           frame'[t].n = frame[t].n,
           \A u \in Tasks \ {t} : frame'[u] = frame[u],
           made' = made, outcome' = outcome, executed' = executed,
           log' = log, buffered' = buffered
    PROVE  CallInv'
  <1>1. /\ Rest(frame[t], made[frame[t].n]) = 0
        /\ Rest(frame'[t], made[frame[t].n]) = 0
    BY DEF Rest
  <1>2. QED
    BY <1>1, GoesOn

LEMMA ReadIdCall ==
    ASSUME CallInv, PoolInv', NEW t \in Tasks, ReadId(t)
    PROVE  CallInv'
  <1>1. frame[t].pc = "id" /\ FramesOK
    BY DEF ReadId, At, CallInv, PoolInv
  <1>2. made[frame[t].n].by = t
    BY <1>1, CallParts
  <1> DEFINE to == IF t \in Journaled THEN "journal" ELSE "done"
  <1>3. /\ to \in Labels \ {"conn", "exec"} /\ to # "idle"
        /\ to = "done" => ~Recorded(made[frame[t].n])
    BY <1>2 DEF Labels, Recorded
  <1>4. frame' = [frame EXCEPT ![t].conn = None, ![t].pc = to]
    BY DEF ReadId
  <1> HIDE DEF to
  <1>5. Moved(t, to, None) /\ frame'[t].n = frame[t].n
    BY <1>1, <1>3, <1>4, ReadIdMoves
  <1>6. /\ made' = made /\ outcome' = outcome /\ executed' = executed
        /\ log' = log /\ buffered' = buffered
    BY DEF ReadId, journal, ran
  <1>7. QED
    BY <1>1, <1>3, <1>5, <1>6, MovesOn DEF Moved

LEMMA JournalCheckCall ==
    ASSUME CallInv, PoolInv', NEW t \in Tasks, JournalCheck(t)
    PROVE  CallInv'
  <1>1. frame[t].pc = "journal" /\ FramesOK
    BY DEF JournalCheck, At, CallInv, PoolInv
  <1>2. /\ made' = made /\ executed' = executed /\ log' = log /\ buffered' = buffered
    BY DEF JournalCheck, journal, ran
  <1>3. CASE open
    <2>1. "record" \in Labels \ {"conn", "exec"}
      BY DEF Labels
    <2>2. Goto(t, "record") /\ outcome' = outcome
      BY <1>3 DEF JournalCheck
    <2>3. Moved(t, "record", frame[t].conn) /\ frame'[t].n = frame[t].n
      BY <1>1, <2>1, <2>2, GotoMoves
    <2>4. QED
      BY <1>1, <1>2, <2>2, <2>3, MovesOn DEF Moved
  <1>4. CASE ~open
    <2>1. Return(t, "unlogged") /\ "unlogged" \in Outcomes \ {"none"}
      BY <1>4 DEF JournalCheck, Outcomes
    <2>2. Rest(frame[t], made[frame[t].n]) = 0
      BY <1>1 DEF Rest
    <2>3. QED
      BY <1>1, <1>2, <2>1, <2>2, ReturnsUnrecorded
  <1>5. QED
    BY <1>3, <1>4

LEMMA DoneCall ==
    ASSUME CallInv, PoolInv', NEW t \in Tasks, Done(t)
    PROVE  CallInv'
  <1>1. frame[t].pc = "done"
    BY DEF Done, At
  <1>2. /\ Return(t, "ok") /\ "ok" \in Outcomes \ {"none"} /\ made' = made
        /\ executed' = executed /\ log' = log /\ buffered' = buffered
    BY DEF Done, Outcomes, journal, ran
  <1>3. Rest(frame[t], made[frame[t].n]) = 0 /\ ~Recorded(made[frame[t].n])
    BY <1>1, CallParts DEF Rest
  <1>4. QED
    BY <1>1, <1>2, <1>3, ReturnsUnrecorded

\* Statements, connections and the id fail before the call reaches the journal.
LEMMA FailCall ==
    ASSUME CallInv, PoolInv', NEW t \in Tasks,
           ExecFail(t) \/ AcquireFail(t) \/ ReadIdFail(t)
    PROVE  CallInv'
  <1>1. /\ frame[t].pc \in {"exec", "conn", "id_conn", "id"}
        /\ Return(t, "err") /\ "err" \in Outcomes \ {"none"} /\ made' = made
        /\ log' = log /\ buffered' = buffered
    BY DEF ExecFail, AcquireFail, ReadIdFail, At, Outcomes, journal
  <1>2. CASE executed' = executed
    BY <1>1, <1>2, ReturnsUnrecorded
  <1>3. CASE executed' # executed
    <2>1. frame[t].pc = "exec" /\ executed' = Append(executed, frame[t].n)
      BY <1>3 DEF ExecFail, AcquireFail, ReadIdFail, At, Executes, ran
    <2>2. frame[t].left # <<>> /\ frame[t].left \in Seq(Ids \cup {0})
      BY <2>1 DEF CallInv, PoolInv, FramesOK, Frame
    <2>3. Len(frame[t].left) \in Nat /\ Len(frame[t].left) >= 1
      BY <2>2
    <2>4. Rest(frame[t], made[frame[t].n]) >= 1
      BY <2>1, <2>3 DEF Rest
    <2>5. QED
      BY <1>1, <2>1, <2>4, ReturnsUnrecorded
  <1>4. QED
    BY <1>2, <1>3

\* What the journal and the buffer of a call that records its write are.
LEMMA RecordParts ==
    ASSUME CallInv, NEW t \in Tasks, NEW n, n = frame[t].n, frame[t].pc = "record",
           NEW all, all = Append(buffered, n)
    PROVE  /\ log \in Seq(DOMAIN made) /\ buffered \in Seq(DOMAIN made)
           /\ all \in Seq(DOMAIN made) /\ Len(buffered) \in Nat
           /\ Len(all) = Len(buffered) + 1
           /\ SubSeq(all, 1, Len(buffered)) = buffered
           /\ SubSeq(all, 1, Len(buffered) + 1) = all
           /\ log \o all = Append(log \o buffered, n)
           /\ n \in Range(log \o all)
           /\ Rest(frame[t], made[n]) = 0
  <1>1. n \in DOMAIN made
    BY CallParts
  <1>2. log \in Seq(DOMAIN made) /\ buffered \in Seq(DOMAIN made)
    BY DEF CallInv, JournalOK
  <1>3. Len(buffered) \in Nat
    BY <1>2, LenProperties
  <1>4. QED
    BY <1>1, <1>2, <1>3, AppendSplit DEF Rest

LEMMA JournalWriteCall ==
    ASSUME CallInv, PoolInv', NEW t \in Tasks, JournalWrite(t)
    PROVE  CallInv'
  <1> DEFINE n == frame[t].n
             all == Append(buffered, n)
  <1>1. frame[t].pc = "record"
    BY DEF JournalWrite, At
  <1>2. /\ Return(t, "ok") /\ "ok" \in Outcomes \ {"none"} /\ made' = made
        /\ executed' = executed /\ log' = log \o all /\ buffered' = <<>>
    BY DEF JournalWrite, ToWrite, Outcomes, ran
  <1> HIDE DEF all
  <1>3. /\ log \in Seq(DOMAIN made) /\ all \in Seq(DOMAIN made)
        /\ log \o all = Append(log \o buffered, n) /\ n \in Range(log \o all)
        /\ Rest(frame[t], made[n]) = 0
    BY <1>1, RecordParts DEF all
  <1>4. log' \in Seq(DOMAIN made) /\ Range(log) \subseteq Range(log')
    BY <1>2, <1>3, SeqConcat, RangeGrows
  <1>5. log' \o buffered' = log \o all
    BY <1>2, <1>4, ConcatEmptySeq
  <1>6. LinesOK(log' \o buffered', made, outcome')
    BY <1>1, <1>2, <1>3, <1>5, ReturnLines
  <1>7. buffered' \in Seq(DOMAIN made)
    BY <1>2
  <1>8. QED
    BY <1>1, <1>2, <1>3, <1>4, <1>6, <1>7, Returns

LEMMA JournalFailCall ==
    ASSUME CallInv, PoolInv', NEW t \in Tasks, JournalFail(t)
    PROVE  CallInv'
  <1> DEFINE n == frame[t].n
             all == Append(buffered, n)
  <1>1. frame[t].pc = "record"
    BY DEF JournalFail, At
  <1>2. /\ Return(t, "err") /\ "err" \in Outcomes \ {"none"} /\ made' = made
        /\ executed' = executed
    BY DEF JournalFail, Outcomes, ran
  <1>3. PICK k \in 0..Len(all) - 1, last \in {Len(all) - 1, Len(all)} :
          /\ log' = log \o SubSeq(all, 1, k)
          /\ buffered' = SubSeq(all, k + 1, last)
    BY DEF JournalFail, ToWrite
  <1> HIDE DEF all
  <1>4. /\ log \in Seq(DOMAIN made) /\ buffered \in Seq(DOMAIN made)
        /\ all \in Seq(DOMAIN made) /\ Len(buffered) \in Nat
        /\ Len(all) = Len(buffered) + 1
        /\ SubSeq(all, 1, Len(buffered)) = buffered
        /\ SubSeq(all, 1, Len(buffered) + 1) = all
        /\ log \o all = Append(log \o buffered, n)
    BY <1>1, RecordParts DEF all
  <1>5. /\ last \in 0..Len(all) /\ k \in 0..last
        /\ last = Len(buffered) \/ last = Len(buffered) + 1
    <2>1. Len(buffered) \in Nat /\ Len(all) = Len(buffered) + 1
      BY <1>4
    <2>2. QED
      BY <2>1
  <1> DEFINE kept == SubSeq(all, 1, last)
  <1>6. kept = buffered \/ kept = all
    <2>1. CASE last = Len(buffered)
      BY <1>4, <2>1
    <2>2. CASE last = Len(buffered) + 1
      BY <1>4, <2>2
    <2>3. QED
      BY <1>5, <2>1, <2>2
  <1>7. /\ log' \o buffered' = log \o kept
        /\ buffered' \in Seq(DOMAIN made) /\ log' \in Seq(DOMAIN made)
        /\ Range(log) \subseteq Range(log')
    <2> DEFINE i == k
               m == last
    <2>1. Flushes(DOMAIN made, log, all, m, i, log', buffered', kept)
      BY <1>3, <1>4, <1>5 DEF Flushes
    <2> HIDE DEF kept, i, m
    <2>2. QED
      BY <2>1, FlushedTo
  <1> HIDE DEF kept
  <1>8. log' \o buffered' \in {log \o buffered, Append(log \o buffered, n)}
    BY <1>4, <1>6, <1>7
  <1>9. LinesOK(log' \o buffered', made, outcome')
    <2>1. /\ LinesOK(log \o buffered, made, outcome')
          /\ LinesOK(Append(log \o buffered, n), made, outcome')
      BY <1>1, <1>2, ReturnLines
    <2>2. QED
      BY <1>8, <2>1
  <1>10. QED
    BY <1>1, <1>2, <1>7, <1>9, Returns

LEMMA CloseCall ==
    ASSUME CallInv, PoolInv', Close
    PROVE  CallInv'
  <1>1. PICK k \in 0..Len(buffered) :
          /\ log' = log \o SubSeq(buffered, 1, k)
          /\ buffered' = SubSeq(buffered, k + 1, Len(buffered))
    BY DEF Close
  <1>2. /\ frame' = frame /\ made' = made /\ outcome' = outcome
        /\ executed' = executed
    BY DEF Close, history
  <1>3. /\ log \in Seq(DOMAIN made) /\ buffered \in Seq(DOMAIN made)
        /\ LinesOK(log \o buffered, made, outcome)
    BY DEF CallInv, JournalOK
  <1>4. Len(buffered) \in 0..Len(buffered)
    BY <1>3, LenProperties
  <1>5. SubSeq(buffered, 1, Len(buffered)) = buffered
    BY <1>3, SubSeqFull
  <1>6. /\ log' \o buffered' = log \o buffered
        /\ buffered' \in Seq(DOMAIN made) /\ log' \in Seq(DOMAIN made)
        /\ Range(log) \subseteq Range(log')
    <2>1. Flushes(DOMAIN made, log, buffered, Len(buffered), k, log', buffered', buffered)
      BY <1>1, <1>3, <1>4, <1>5 DEF Flushes
    <2>2. QED
      BY <2>1, FlushedTo
  <1>8. JournalOK'
    <2>1. LinesOK(log' \o buffered', made, outcome)
      BY <1>3, <1>6
    <2>2. \A n \in DOMAIN made :
             outcome[n] = "ok" /\ Recorded(made[n]) => n \in Range(log')
      BY <1>6 DEF CallInv, JournalOK
    <2>3. QED
      BY <1>2, <1>6, <2>1, <2>2 DEF JournalOK
  <1>9. HistoryOK' /\ CallsOK' /\ ExecutedOK(executed, made, outcome)'
    BY <1>2 DEF CallInv, HistoryOK, CallsOK
  <1>10. QED
    BY <1>8, <1>9 DEF CallInv

LEMMA CrashCall ==
    ASSUME CallInv, PoolInv', Crash
    PROVE  CallInv'
  <1>1. /\ \A t \in Tasks : frame'[t].pc = "idle"
        /\ log' = log /\ buffered' = <<>> /\ made' = made /\ executed' = executed
    BY DEF Crash, NoCall, ran
  <1>2. outcome' = [n \in DOMAIN made |-> IF outcome[n] = "none" THEN "crashed"
                                          ELSE outcome[n]]
    BY DEF Crash, Calls
  <1>3. /\ log \in Seq(DOMAIN made) /\ buffered \in Seq(DOMAIN made)
        /\ LinesOK(log \o buffered, made, outcome) /\ made \in Seq(CallMade)
        /\ outcome \in Seq(Outcomes) /\ Len(outcome) = Len(made)
        /\ AfterOK(made, outcome)
    BY DEF CallInv, JournalOK, HistoryOK, PoolInv
  <1>4. /\ DOMAIN made = 1..Len(made) /\ Len(made) \in Nat
        /\ \A n \in DOMAIN made : outcome[n] \in Outcomes
    BY <1>3
  <1>5. \A n \in DOMAIN made :
           /\ outcome'[n] \in Outcomes \ {"none"}
           /\ outcome'[n] \in {"ok", "unlogged"} => outcome'[n] = outcome[n]
    BY <1>2, <1>4 DEF Outcomes
  <1>6. outcome' \in Seq(Outcomes) /\ Len(outcome') = Len(made)
    BY <1>2, <1>4, <1>5
  <1>7. HistoryOK'
    <2>1. AfterOK(made, outcome')
      BY <1>3, <1>5 DEF AfterOK
    <2>2. QED
      BY <1>1, <1>6, <2>1 DEF HistoryOK
  <1>8. JournalOK'
    <2>1. LinesOK(log, made, outcome)
      BY <1>3, LinesCut
    <2>2. LinesOK(log, made, outcome')
      <3>1. \A i \in 1..Len(log) : log[i] \in DOMAIN made
        BY <1>3, ElementOfSeq
      <3>2. QED
        BY <1>5, <2>1, <3>1 DEF LinesOK
    <2>3. log' \o buffered' = log
      BY <1>1, <1>3, ConcatEmptySeq
    <2>4. \A n \in DOMAIN made :
             outcome'[n] = "ok" /\ Recorded(made[n]) => n \in Range(log)
      BY <1>5 DEF CallInv, JournalOK
    <2>5. <<>> \in Seq(DOMAIN made)
      OBVIOUS
    <2>6. QED
      BY <1>1, <1>3, <2>2, <2>3, <2>4, <2>5 DEF JournalOK
  <1>9. CallsOK'
    BY <1>1 DEF CallsOK, CallOK
  <1>10. ExecutedOK(executed, made, outcome')
    BY <1>5 DEF CallInv, ExecutedOK
  <1>11. QED
    BY <1>1, <1>7, <1>8, <1>9, <1>10 DEF CallInv

LEMMA NewCall ==
    ASSUME CallInv, PoolInv', NEW t \in Tasks, NEW op \in Ops,
           NEW ids \in Arguments(op), Call(t, op, ids)
    PROVE  CallInv'
  <1> DEFINE N == Len(made) + 1
             m == [by |-> t, op |-> op, ids |-> ids, after |-> ReturnedCalls]
             call == [NoCall EXCEPT !.pc = "conn", !.n = N, !.left = ids]
  <1>1. /\ made' = Append(made, m) /\ outcome' = Append(outcome, "none")
        /\ frame' = [frame EXCEPT ![t] = call]
        /\ log' = log /\ buffered' = buffered /\ executed' = executed
    BY DEF Call, journal
  <1>2. /\ made \in Seq(CallMade) /\ FramesOK /\ HistoryOK /\ JournalOK /\ CallsOK
        /\ ExecutedOK(executed, made, outcome)
    BY DEF CallInv, PoolInv
  <1>3. m.by = t /\ m.op = op /\ m.ids = ids /\ m.after = ReturnedCalls
    OBVIOUS
  <1>4. ids \in Seq(Ids \cup {0})
    BY ArgumentsOK
  <1>5. call.pc = "conn" /\ call.n = N /\ call.left = ids
    <2>1. N \in Nat
      BY <1>2
    <2> HIDE DEF N
    <2>2. QED
      BY <1>4, <2>1, CallFrame
  <1> HIDE DEF m, call
  <1>6. /\ frame'[t] = call
        /\ \A u \in Tasks \ {t} : frame'[u] = frame[u]
    BY <1>1, <1>2 DEF FramesOK
  <1>7. /\ Len(made) \in Nat /\ DOMAIN made = 1..Len(made)
        /\ DOMAIN made' = 1..N /\ Len(made') = N
        /\ made'[N] = m /\ \A k \in DOMAIN made : made'[k] = made[k]
    <2>1. made' \in Seq(CallMade)
      BY DEF PoolInv
    <2>2. QED
      BY <1>1, <1>2, <2>1
  <1>8. /\ outcome' \in Seq(Outcomes) /\ Len(outcome') = N
        /\ outcome'[N] = "none" /\ \A k \in DOMAIN made : outcome'[k] = outcome[k]
    <2>1. outcome \in Seq(Outcomes) /\ Len(outcome) = Len(made) /\ "none" \in Outcomes
      BY <1>2 DEF HistoryOK, Outcomes
    <2>2. QED
      BY <1>1, <1>7, <2>1
  <1>9. N \notin DOMAIN made /\ DOMAIN made' = DOMAIN made \cup {N}
    BY <1>7
  <1>10. Times(executed, N) = 0 /\ executed \in Seq(DOMAIN made)
    BY <1>2, <1>9, TimesNone DEF ExecutedOK
  <1> HIDE DEF N
  <1>11. HistoryOK'
    <2>1. AfterOK(made, outcome)'
      <3>1. ASSUME NEW k \in DOMAIN made, NEW j \in made[k].after
            PROVE  j \in DOMAIN made' /\ outcome'[j] # "none"
        <4>1. j \in DOMAIN made /\ outcome[j] # "none"
          BY <1>2 DEF HistoryOK, AfterOK
        <4>2. QED
          BY <1>8, <1>9, <4>1
      <3>2. ASSUME NEW j \in m.after
            PROVE  j \in DOMAIN made' /\ outcome'[j] # "none"
        <4>1. j \in DOMAIN made /\ outcome[j] # "none"
          BY <1>3 DEF ReturnedCalls, Calls
        <4>2. QED
          BY <1>8, <1>9, <4>1
      <3>3. QED
        BY <1>7, <1>9, <3>1, <3>2 DEF AfterOK
    <2>2. QED
      BY <1>7, <1>8, <2>1 DEF HistoryOK
  <1>12. JournalOK'
    <2>1. /\ log \in Seq(DOMAIN made) /\ buffered \in Seq(DOMAIN made)
          /\ LinesOK(log \o buffered, made, outcome)
          /\ \A n \in DOMAIN made :
                outcome[n] = "ok" /\ Recorded(made[n]) => n \in Range(log)
      BY <1>2 DEF JournalOK
    <2> DEFINE L == log \o buffered
    <2>2. L \in Seq(DOMAIN made) /\ L \in Seq(DOMAIN made')
      BY <1>9, <2>1, SeqConcat, SeqGrows
    <2>3. LinesOK(L, made, outcome)
      BY <2>1
    <2> HIDE DEF L
    <2>4. \A i \in 1..Len(L) : L[i] \in DOMAIN made
      BY <2>2, ElementOfSeq
    <2>5. LinesOK(L, made', outcome')
      <3>1. \A i \in 1..Len(L) : made'[L[i]] = made[L[i]] /\ outcome'[L[i]] = outcome[L[i]]
        BY <1>7, <1>8, <2>4
      <3>2. QED
        BY <2>2, <2>3, <3>1 DEF LinesOK
    <2>6. log \in Seq(DOMAIN made') /\ buffered \in Seq(DOMAIN made')
      BY <1>9, <2>1, SeqGrows
    <2>7. \A n \in DOMAIN made' :
             outcome'[n] = "ok" /\ Recorded(made'[n]) => n \in Range(log)
      BY <1>7, <1>8, <1>9, <2>1
    <2>8. QED
      BY <1>1, <2>5, <2>6, <2>7 DEF JournalOK, L
  <1>13. CallsOK'
    <2>1. CallOK(frame'[t], t, made', outcome', executed)
      <3>1. Rest(frame'[t], m) = StatementsOf(m) /\ StatementsOf(m) \in Nat
        BY <1>3, <1>4, <1>5, <1>6 DEF Rest, StatementsOf
      <3>2. QED
        BY <1>3, <1>5, <1>6, <1>7, <1>8, <1>9, <1>10, <3>1 DEF CallOK
    <2>2. ASSUME NEW u \in Tasks, u # t
          PROVE  CallOK(frame'[u], u, made', outcome', executed)
      <3>1. frame'[u] = frame[u] /\ CallOK(frame[u], u, made, outcome, executed)
        BY <1>2, <1>6, <2>2 DEF CallsOK
      <3>2. QED
        BY <1>7, <1>8, <1>9, <3>1 DEF CallOK
    <2>3. QED
      BY <1>1, <2>1, <2>2 DEF CallsOK
  <1>14. ExecutedOK(executed, made', outcome')
    <2>1. executed \in Seq(DOMAIN made')
      BY <1>9, <1>10, SeqGrows
    <2>2. \A n \in DOMAIN made :
             /\ Times(executed, n) <= StatementsOf(made'[n])
             /\ outcome'[n] \in {"ok", "unlogged"} =>
                   Times(executed, n) = StatementsOf(made'[n])
      BY <1>2, <1>7, <1>8 DEF ExecutedOK
    <2>3. /\ Times(executed, N) <= StatementsOf(made'[N])
          /\ outcome'[N] \notin {"ok", "unlogged"}
      <3>1. StatementsOf(m) \in Nat
        BY <1>3, <1>4 DEF StatementsOf
      <3>2. QED
        BY <1>7, <1>8, <1>10, <3>1
    <2>4. QED
      BY <1>9, <2>1, <2>2, <2>3 DEF ExecutedOK
  <1>15. QED
    BY <1>1, <1>11, <1>12, <1>13, <1>14 DEF CallInv

LEMMA CallKept == CallInv /\ [Next]_vars => CallInv'
  <1> SUFFICES ASSUME CallInv, [Next]_vars PROVE CallInv'
    OBVIOUS
  <1>1. PoolInv'
    BY PoolKept DEF CallInv
  <1>2. CASE \E t \in Tasks : Progress(t) \/ Failure(t)
    <2>1. PICK t \in Tasks : Progress(t) \/ Failure(t)
      BY <1>2
    <2>2. CASE Acquire(t, "conn", "exec") \/ Acquire(t, "id_conn", "id")
      BY <1>1, <2>2, AcquireCall
    <2>3. CASE Exec(t)
      BY <1>1, <2>3, ExecCall
    <2>4. CASE ReadId(t) \/ Done(t)
      BY <1>1, <2>4, ReadIdCall, DoneCall
    <2>5. CASE JournalCheck(t) \/ JournalWrite(t) \/ JournalFail(t)
      BY <1>1, <2>5, JournalCheckCall, JournalWriteCall, JournalFailCall
    <2>6. CASE ExecFail(t) \/ AcquireFail(t) \/ ReadIdFail(t)
      BY <1>1, <2>6, FailCall
    <2>7. QED
      BY <2>1, <2>2, <2>3, <2>4, <2>5, <2>6 DEF Progress, Failure
  <1>3. CASE \E t \in Tasks : \E op \in Ops : \E ids \in Arguments(op) : Call(t, op, ids)
    BY <1>1, <1>3, NewCall
  <1>4. CASE Close
    BY <1>1, <1>4, CloseCall
  <1>5. CASE Crash
    BY <1>1, <1>5, CrashCall
  <1>6. CASE UNCHANGED vars
    BY <1>1, <1>6 DEF vars, CallInv, HistoryOK, JournalOK, CallsOK
  <1>7. QED
    BY <1>2, <1>3, <1>4, <1>5, <1>6 DEF Next

THEOREM CallInvariance == Spec => []CallInv
  <1>1. Init => CallInv
    BY InitCalls
  <1>2. QED
    BY <1>1, CallKept, PTL DEF Spec

-----------------------------------------------------------------------------
(* The theorems *)

(* Of two calls of which one began after the other had returned, even with  *)
(* an error, the journal has the later one's line after the other's: no     *)
(* failed flush, leftover of the buffer or crash puts them out of order.    *)
THEOREM JournalOrder == Spec => []JournalInCallOrder
  <1>1. CallInv => JournalInCallOrder
    <2> SUFFICES ASSUME CallInv PROVE JournalInCallOrder
      OBVIOUS
    <2>1. log \in Seq(DOMAIN made) /\ buffered \in Seq(DOMAIN made)
      BY DEF CallInv, JournalOK
    <2>2. LinesOK(log, made, outcome)
      BY <2>1, LinesCut DEF CallInv, JournalOK
    <2>3. DOMAIN log = 1..Len(log)
      BY <2>1
    <2>4. QED
      BY <2>2, <2>3 DEF LinesOK, JournalInCallOrder
  <1>2. QED
    BY <1>1, CallInvariance, PTL

(* The journal and the buffer hold each write once, and a save, batch or    *)
(* update of the journaled Db that has returned Ok from a journal not yet   *)
(* stopped has its line in the file, whatever flushes failed before it.     *)
THEOREM RecordedOnce == Spec => []JournaledOnce
  <1>1. CallInv => JournaledOnce
    <2> SUFFICES ASSUME CallInv PROVE JournaledOnce
      OBVIOUS
    <2> DEFINE L == log \o buffered
    <2>1. L \in Seq(DOMAIN made) /\ LinesOK(L, made, outcome)
      BY DEF CallInv, JournalOK, LinesOK
    <2> HIDE DEF L
    <2>2. DOMAIN L = 1..Len(L) /\ Len(L) \in Nat
      BY <2>1
    <2>3. \A i, j \in DOMAIN L : L[i] = L[j] => i = j
      <3>1. \A i, j \in DOMAIN L : i < j => L[i] # L[j]
        BY <2>1, <2>2 DEF LinesOK
      <3>2. \A i, j \in DOMAIN L : i < j \/ i = j \/ j < i
        BY <2>2
      <3>3. QED
        BY <3>1, <3>2
    <2>4. \A n \in Calls : outcome[n] = "ok" /\ IsJournaled(n) => n \in Range(log)
      BY DEF CallInv, JournalOK, Calls, IsJournaled, Recorded
    <2>5. QED
      BY <2>3, <2>4 DEF JournaledOnce, IsInjective, L
  <1>2. QED
    BY <1>1, CallInvariance, PTL

(* No statement is executed twice, however the call ends, and a call that   *)
(* returns Ok, with its line or without, has executed all it has.           *)
THEOREM StatementsOnce == Spec => []ExecutedOnce
  <1>1. CallInv => ExecutedOnce
    <2> SUFFICES ASSUME CallInv PROVE ExecutedOnce
      OBVIOUS
    <2>1. ExecutedOK(executed, made, outcome)
      BY DEF CallInv
    <2>2. QED
      BY <2>1 DEF ExecutedOK, ExecutedOnce, Times, StatementsOf, Statements, Calls
  <1>2. QED
    BY <1>1, CallInvariance, PTL

-----------------------------------------------------------------------------
(* The frames of calls *)

\* A task without a call has no call's number, and a call that has not executed
\* its statement has all its rows to write.
LeftOK ==
    \A t \in Tasks :
       /\ frame[t].pc = "idle" => frame[t].n = 0
       /\ frame[t].pc \in {"conn", "exec"} /\ made[frame[t].n].op # "multi" =>
             frame[t].left = made[frame[t].n].ids

\* The call of t goes on: it keeps its number, and is past its statement if it
\* was or has just executed it.
GoneOn(t, from, to) ==
    /\ frame[t].pc = from /\ frame'[t].pc = to
    /\ frame'[t].n = frame[t].n
    /\ \A u \in Tasks \ {t} : frame'[u] = frame[u]

LEMMA AcquireGoesOn ==
    ASSUME FramesOK, NEW t \in Tasks, NEW from, NEW to, Acquire(t, from, to)
    PROVE  GoneOn(t, from, to) /\ frame'[t].left = frame[t].left
  <1>1. PICK c \in idle : frame' = [frame EXCEPT ![t].pc = to, ![t].conn = c]
    BY DEF Acquire
  <1>2. frame[t].pc = from /\ frame \in [Tasks -> Frame]
    BY DEF Acquire, At, FramesOK
  <1>3. QED
    BY <1>1, <1>2 DEF GoneOn, Frame

LEMMA ExecGoesOn ==
    ASSUME CallInv, NEW t \in Tasks, Exec(t)
    PROVE  \E to \in Labels \ {"idle", "exec"} :
              /\ GoneOn(t, "exec", to)
              /\ to = "conn" => made[frame[t].n].op = "multi"
              /\ Recorded(made[frame[t].n]) => to \in {"id_conn", "journal"}
  <1> DEFINE n == frame[t].n
             left == IF made[n].op = "multi" THEN Tail(frame[t].left) ELSE <<>>
             to == AfterExec(t, left)
  <1>1. frame[t].pc = "exec" /\ frame \in [Tasks -> Frame]
    BY DEF Exec, At, CallInv, PoolInv, FramesOK
  <1>2. made[n].by = t
    BY <1>1, CallParts
  <1>3. frame' = [frame EXCEPT ![t].left = left, ![t].conn = None, ![t].pc = to]
    BY DEF Exec
  <1> HIDE DEF left
  <1>4. /\ to \in Labels /\ to # "exec" /\ to # "idle"
        /\ to = "conn" => made[n].op = "multi"
        /\ Recorded(made[n]) => to \in {"id_conn", "journal"}
    BY <1>2 DEF AfterExec, Labels, Recorded
  <1> HIDE DEF to
  <1>5. GoneOn(t, "exec", to)
    BY <1>1, <1>3 DEF GoneOn, Frame
  <1>6. QED
    BY <1>4, <1>5

LEMMA ReadIdGoesOn ==
    ASSUME CallInv, NEW t \in Tasks, ReadId(t)
    PROVE  \E to \in {"journal", "done"} :
              /\ GoneOn(t, "id", to)
              /\ Recorded(made[frame[t].n]) => to = "journal"
  <1>1. frame[t].pc = "id" /\ FramesOK
    BY DEF ReadId, At, CallInv, PoolInv
  <1>2. made[frame[t].n].by = t
    BY <1>1, CallParts
  <1> DEFINE to == IF t \in Journaled THEN "journal" ELSE "done"
  <1>3. /\ to \in Labels \ {"conn", "exec"} /\ to \in {"journal", "done"}
        /\ Recorded(made[frame[t].n]) => to = "journal"
    BY <1>2 DEF Labels, Recorded
  <1>4. frame' = [frame EXCEPT ![t].conn = None, ![t].pc = to]
    BY DEF ReadId
  <1> HIDE DEF to
  <1>5. Moved(t, to, None) /\ frame'[t].n = frame[t].n
    BY <1>1, <1>3, <1>4, ReadIdMoves
  <1>6. QED
    BY <1>1, <1>3, <1>5 DEF Moved, GoneOn

LEMMA CheckGoesOn ==
    ASSUME CallInv, NEW t \in Tasks, JournalCheck(t), open
    PROVE  GoneOn(t, "journal", "record")
  <1>1. frame[t].pc = "journal" /\ FramesOK /\ Goto(t, "record")
    BY DEF JournalCheck, At, CallInv, PoolInv
  <1>2. "record" \in Labels \ {"conn", "exec"}
    BY DEF Labels
  <1>3. Moved(t, "record", frame[t].conn) /\ frame'[t].n = frame[t].n
    BY <1>1, <1>2, GotoMoves
  <1>4. QED
    BY <1>1, <1>3 DEF Moved, GoneOn

LEMMA ReturnFrames ==
    ASSUME FramesOK, NEW t \in Tasks, NEW how, Return(t, how)
    PROVE  /\ frame'[t].pc = "idle" /\ frame'[t].n = 0
           /\ \A u \in Tasks \ {t} : frame'[u] = frame[u]
  BY ReturnMoves DEF Return, Moved

\* Which steps of a task return from its call, and how.
LEMMA StepReturns ==
    ASSUME CallInv, NEW t \in Tasks,
           \/ Failure(t) \/ Done(t) \/ JournalWrite(t)
           \/ (JournalCheck(t) /\ ~open)
    PROVE  /\ frame[t].pc # "idle" /\ made' = made
           /\ \/ Failure(t) /\ Return(t, "err")
              \/ JournalCheck(t) /\ Return(t, "unlogged")
              \/ Done(t) /\ frame[t].pc = "done" /\ Return(t, "ok")
              \/ JournalWrite(t) /\ frame[t].pc = "record" /\ Return(t, "ok")
  BY DEF Failure, Done, JournalWrite, JournalCheck, ExecFail, AcquireFail,
         ReadIdFail, JournalFail, At

LEMMA CallFrames ==
    ASSUME FramesOK, NEW t \in Tasks, NEW op \in Ops, NEW ids \in Arguments(op),
           made \in Seq(CallMade), Call(t, op, ids)
    PROVE  /\ frame'[t].pc = "conn" /\ frame'[t].n = Len(made) + 1
           /\ frame'[t].left = ids
           /\ \A u \in Tasks \ {t} : frame'[u] = frame[u]
  <1> DEFINE N == Len(made) + 1
             call == [NoCall EXCEPT !.pc = "conn", !.n = N, !.left = ids]
  <1>1. frame' = [frame EXCEPT ![t] = call] /\ frame \in [Tasks -> Frame]
    BY DEF Call, FramesOK
  <1>2. ids \in Seq(Ids \cup {0}) /\ N \in Nat
    BY ArgumentsOK
  <1> HIDE DEF N
  <1>3. call.pc = "conn" /\ call.n = N /\ call.left = ids
    BY <1>2, CallFrame
  <1> HIDE DEF call
  <1>4. QED
    BY <1>1, <1>3 DEF N

LEMMA CrashFrames ==
    ASSUME Crash
    PROVE  \A t \in Tasks : frame'[t].pc = "idle" /\ frame'[t].n = 0
  BY DEF Crash, NoCall

LEMMA LeftGoesOn ==
    ASSUME LeftOK, NEW t \in Tasks, NEW from, NEW to, GoneOn(t, from, to),
           to # "idle", made' = made,
           to \in {"conn", "exec"} /\ made[frame[t].n].op # "multi" =>
              from \in {"conn", "exec"} /\ frame'[t].left = frame[t].left
    PROVE  LeftOK'
  BY DEF LeftOK, GoneOn

LEMMA LeftKept ==
    ASSUME CallInv, LeftOK, [Next]_vars
    PROVE  LeftOK'
  <1>1. FramesOK /\ made \in Seq(CallMade)
    BY DEF CallInv, PoolInv
  <1>2. CASE \E t \in Tasks : Progress(t) \/ Failure(t)
    <2>1. PICK t \in Tasks : Progress(t) \/ Failure(t)
      BY <1>2
    <2>2. CASE Acquire(t, "conn", "exec") \/ Acquire(t, "id_conn", "id")
      <3>1. made' = made
        BY <2>2 DEF Acquire, history
      <3>2. QED
        BY <1>1, <2>2, <3>1, AcquireGoesOn, LeftGoesOn
    <2>3. CASE Exec(t)
      <3>1. made' = made
        BY <2>3 DEF Exec
      <3>2. QED
        BY <2>3, <3>1, ExecGoesOn, LeftGoesOn
    <2>4. CASE ReadId(t)
      <3>1. made' = made
        BY <2>4 DEF ReadId
      <3>2. QED
        BY <2>4, <3>1, ReadIdGoesOn, LeftGoesOn
    <2>5. CASE JournalCheck(t) /\ open
      <3>1. made' = made
        BY <2>5 DEF JournalCheck
      <3>2. QED
        BY <2>5, <3>1, CheckGoesOn, LeftGoesOn
    <2>6. CASE \/ Failure(t) \/ Done(t) \/ JournalWrite(t)
               \/ (JournalCheck(t) /\ ~open)
      <3>1. made' = made /\ \E how : Return(t, how)
        BY <2>6, StepReturns
      <3>2. QED
        BY <1>1, <3>1, ReturnFrames DEF LeftOK
    <2>7. QED
      BY <2>1, <2>2, <2>3, <2>4, <2>5, <2>6 DEF Progress
  <1>3. CASE \E t \in Tasks : \E op \in Ops : \E ids \in Arguments(op) : Call(t, op, ids)
    <2>1. PICK t \in Tasks, op \in Ops : \E ids \in Arguments(op) : Call(t, op, ids)
      BY <1>3
    <2>2. PICK ids \in Arguments(op) : Call(t, op, ids)
      BY <2>1
    <2>3. /\ frame'[t].pc = "conn" /\ frame'[t].n = Len(made) + 1
          /\ frame'[t].left = ids
          /\ \A u \in Tasks \ {t} : frame'[u] = frame[u]
      BY <1>1, <2>2, CallFrames
    <2>4. /\ made'[Len(made) + 1].ids = ids
          /\ \A n \in DOMAIN made : made'[n] = made[n]
      BY <1>1, <2>2 DEF Call
    <2>5. \A u \in Tasks : frame[u].pc # "idle" => frame[u].n \in DOMAIN made
      BY DEF CallInv, CallsOK, CallOK
    <2>6. QED
      BY <2>3, <2>4, <2>5 DEF LeftOK
  <1>4. CASE Close
    BY <1>4 DEF Close, LeftOK, history
  <1>5. CASE Crash
    BY <1>5, CrashFrames DEF LeftOK
  <1>6. CASE UNCHANGED vars
    BY <1>6 DEF vars, LeftOK
  <1>7. QED
    BY <1>2, <1>3, <1>4, <1>5, <1>6 DEF Next

-----------------------------------------------------------------------------
(* The rows *)

\* Tables of rows that calls of C have written, with the counter ahead of their
\* ids.
Rows(C) == UNION {[D -> C] : D \in SUBSET (Nat \ {0})}
States(C) == [rows : Rows(C), next : Nat \ {0}, first : Nat, by : C]
Tables(C) == {s \in States(C) : \A i \in DOMAIN s.rows : i < s.next}

TableOK(rs, next, C) ==
    rs \in Rows(C) /\ next \in Nat \ {0} /\ \A i \in DOMAIN rs : i < next

Upserts == INSTANCE FoldLaws WITH Op <- UpsertRow

LEMMA UpsertRowOK ==
    ASSUME NEW C, NEW s \in Tables(C), NEW id \in Nat
    PROVE  UpsertRow(s, id) \in Tables(C)
  <1> DEFINE i == IF id = 0 THEN s.next ELSE id
             rs == [j \in DOMAIN s.rows \cup {i} |->
                      IF j = i THEN s.by ELSE s.rows[j]]
             n == IF i >= s.next THEN i + 1 ELSE s.next
             f == IF id = 0 /\ s.first = 0 THEN i ELSE s.first
  <1>1. /\ s.next \in Nat \ {0} /\ s.first \in Nat /\ s.by \in C
        /\ s.rows \in Rows(C) /\ \A j \in DOMAIN s.rows : j < s.next
    BY DEF Tables, States
  <1>2. PICK D \in SUBSET (Nat \ {0}) : s.rows \in [D -> C]
    BY <1>1 DEF Rows
  <1>3. i \in Nat \ {0} /\ n \in Nat \ {0} /\ f \in Nat /\ i < n /\ s.next <= n
    BY <1>1
  <1>4. UpsertRow(s, id) = [rows |-> rs, next |-> n, first |-> f, by |-> s.by]
    BY DEF UpsertRow
  <1> HIDE DEF i, n, f
  <1>5. rs \in [D \cup {i} -> C]
    BY <1>1, <1>2
  <1>6. D \cup {i} \in SUBSET (Nat \ {0})
    BY <1>3
  <1>7. rs \in Rows(C) /\ DOMAIN rs = D \cup {i}
    BY <1>5, <1>6 DEF Rows
  <1>8. \A j \in D : j \in Nat /\ j < s.next
    BY <1>1, <1>2
  <1> HIDE DEF rs
  <1>9. ASSUME NEW j \in DOMAIN rs PROVE j < n
    <2>1. i < n /\ s.next <= n /\ s.next \in Nat /\ n \in Nat
      BY <1>1, <1>3
    <2>2. CASE j = i
      BY <2>1, <2>2
    <2>3. CASE j \in D
      <3>1. j \in Nat /\ j < s.next
        BY <1>8, <2>3
      <3>2. QED
        BY <2>1, <3>1
    <2>4. QED
      BY <1>7, <2>2, <2>3
  <1>10. QED
    BY <1>1, <1>3, <1>4, <1>7, <1>9 DEF Tables, States

LEMMA ColumnIdsOK ==
    ASSUME NEW ids \in Seq(Nat)
    PROVE  ColumnIds(ids) \in Seq(Nat)
  <1>1. [i \in DOMAIN ids |-> 0] \in Seq(Nat)
    <2>1. DOMAIN ids = 1..Len(ids) /\ Len(ids) \in Nat
      OBVIOUS
    <2>2. QED
      BY <2>1
  <1>2. QED
    BY <1>1 DEF ColumnIds

(* What a statement makes of a table is a table. *)
LEMMA EffectOK ==
    ASSUME NEW C, NEW op \in Ops, NEW ids \in Seq(Nat), NEW n \in C,
           NEW rs, NEW next, TableOK(rs, next, C)
    PROVE  Effect(op, ids, n, rs, next) \in Tables(C)
  <1> DEFINE unchanged == [rows |-> rs, next |-> next, first |-> 0, by |-> n]
             i == Head(ids)
             e == Effect(op, ids, n, rs, next)
  <1>1. unchanged \in Tables(C)
    BY DEF TableOK, Tables, States
  <1>2. PICK D \in SUBSET (Nat \ {0}) : rs \in [D -> C]
    BY DEF TableOK, Rows
  <1>3. \A j \in D : j < next
    BY <1>2 DEF TableOK
  <1>4. CASE op \in {"save", "batch"}
    <2>1. e = Upserts!Fold(unchanged, ColumnIds(ids))
      BY <1>4 DEF Effect, FoldLeft, MapThenFoldSet, Max, Upserts!Fold,
                  Upserts!FoldLeft, Upserts!MapThenFoldSet, Upserts!Max
    <2> HIDE DEF unchanged
    <2>2. \A s \in Tables(C), id \in Nat : UpsertRow(s, id) \in Tables(C)
      BY UpsertRowOK
    <2>3. \A s \in Seq(Nat) : Upserts!Fold(unchanged, s) \in Tables(C)
      BY <1>1, <2>2, Upserts!FoldIn
    <2>4. QED
      BY <2>1, <2>3, ColumnIdsOK
  <1>5. CASE op \in {"update", "multi"}
    <2>1. e = IF i \in DOMAIN rs THEN [unchanged EXCEPT !.rows[i] = n] ELSE unchanged
      BY <1>5 DEF Effect
    <2>2. ASSUME i \in DOMAIN rs
          PROVE  [unchanged EXCEPT !.rows[i] = n] \in Tables(C)
      <3> DEFINE r == [rs EXCEPT ![i] = n]
      <3>1. r \in [D -> C]
        BY <1>2
      <3>2. r \in Rows(C) /\ DOMAIN r = D
        BY <3>1 DEF Rows
      <3>3. [unchanged EXCEPT !.rows[i] = n] =
              [rows |-> r, next |-> next, first |-> 0, by |-> n]
        OBVIOUS
      <3> HIDE DEF r
      <3>4. QED
        BY <1>3, <3>2, <3>3 DEF TableOK, Tables, States
    <2>3. QED
      BY <1>1, <2>1, <2>2
  <1>6. CASE op = "delete"
    <2> DEFINE r == [j \in DOMAIN rs \ {i} |-> rs[j]]
    <2>1. e = [unchanged EXCEPT !.rows = r]
      BY <1>6 DEF Effect
    <2>2. e = [rows |-> r, next |-> next, first |-> 0, by |-> n]
      BY <2>1
    <2>3. r \in [D \ {i} -> C] /\ D \ {i} \in SUBSET (Nat \ {0})
      BY <1>2
    <2>4. r \in Rows(C) /\ DOMAIN r = D \ {i}
      BY <2>3 DEF Rows
    <2> HIDE DEF r
    <2>5. QED
      BY <1>3, <2>2, <2>4 DEF TableOK, Tables, States
  <1>7. QED
    BY <1>4, <1>5, <1>6 DEF Ops

LEMMA RowsGrow ==
    ASSUME NEW C, NEW D, C \subseteq D, NEW rs \in Rows(C)
    PROVE  rs \in Rows(D)
  <1>1. PICK X \in SUBSET (Nat \ {0}) : rs \in [X -> C]
    BY DEF Rows
  <1>2. rs \in [X -> D]
    BY <1>1
  <1>3. QED
    BY <1>1, <1>2 DEF Rows

(* The shape of what CallInv says nothing of. *)
ShapeOK ==
    /\ TableOK(rows, nextId, DOMAIN made)
    /\ lastId \in [Conns -> Nat]
    /\ assigned \in Seq(Nat) /\ Len(assigned) = Len(made)
    /\ generated \in Seq(Nat) /\ Len(generated) = Len(made)
    /\ open \in BOOLEAN /\ crashes \in Nat

LEMMA ReleaseOK ==
    ASSUME lastId \in [Conns -> Nat], NEW t \in Tasks, NEW last \in Nat,
           Release(t, last)
    PROVE  lastId' \in [Conns -> Nat]
  <1>1. PICK l \in {last} \cup (IF PoolResets THEN {0} ELSE {}) :
          lastId' = [lastId EXCEPT ![frame[t].conn] = l]
    BY DEF Release
  <1>2. l \in Nat
    <2>1. CASE PoolResets
      BY <2>1
    <2>2. CASE ~PoolResets
      BY <2>2
    <2>3. QED
      BY <2>1, <2>2
  <1>3. QED
    BY <1>1, <1>2

LEMMA ExecutesOK ==
    ASSUME CallInv, ShapeOK, NEW t \in Tasks, At(t, "exec"), Executes(t)
    PROVE  /\ TableOK(rows', nextId', DOMAIN made)
           /\ generated' \in Seq(Nat) /\ Len(generated') = Len(made)
  <1> DEFINE n == frame[t].n
             left == frame[t].left
             e == Effect(made[n].op, left, n, rows, nextId)
  <1>1. /\ n \in DOMAIN made /\ made[n] \in CallMade /\ frame[t] \in Frame
        /\ made \in Seq(CallMade)
    BY CallParts DEF At, CallInv, PoolInv
  <1>2. made[n].op \in Ops /\ left \in Seq(Nat)
    <2>1. made[n].op \in Ops /\ left \in Seq(Ids \cup {0})
      BY <1>1 DEF CallMade, Frame
    <2>2. Ids \cup {0} \subseteq Nat
      BY DbAssumption
    <2> HIDE DEF left
    <2>3. QED
      BY <2>1, <2>2, SeqGrows
  <1>3. e \in Tables(DOMAIN made)
    BY <1>1, <1>2, EffectOK DEF ShapeOK
  <1>4. rows' = e.rows /\ nextId' = e.next /\ generated' = [generated EXCEPT ![n] = e.first]
    BY DEF Executes
  <1> HIDE DEF e
  <1>5. e.first \in Nat /\ TableOK(e.rows, e.next, DOMAIN made)
    BY <1>3 DEF Tables, States, TableOK
  <1>6. generated' \in Seq(Nat) /\ Len(generated') = Len(made)
    BY <1>1, <1>4, <1>5 DEF ShapeOK
  <1>7. QED
    BY <1>4, <1>5, <1>6

LEMMA StepShape ==
    ASSUME CallInv, ShapeOK, NEW t \in Tasks, Progress(t) \/ Failure(t)
    PROVE  ShapeOK'
  <1> USE DEF ShapeOK
  <1>1. frame[t] \in Frame /\ PoolOK /\ made \in Seq(CallMade)
    BY DEF CallInv, PoolInv, FramesOK
  <1>2. frame[t].pc \in {"exec", "id"} => frame[t].conn \in Conns
    BY <1>1 DEF PoolOK, Frame
  <1>3. CASE Acquire(t, "conn", "exec") \/ Acquire(t, "id_conn", "id")
    BY <1>3 DEF Acquire, table, journal, history
  <1>4. CASE Exec(t)
    <2>1. /\ TableOK(rows', nextId', DOMAIN made)
          /\ generated' \in Seq(Nat) /\ Len(generated') = Len(made)
      BY <1>4, ExecutesOK DEF Exec
    <2>2. frame[t].n \in DOMAIN made
      BY <1>4, CallParts DEF Exec, At
    <2>3. generated'[frame[t].n] \in Nat /\ lastId[frame[t].conn] \in Nat
      <3>1. frame[t].conn \in Conns
        BY <1>2, <1>4 DEF Exec, At
      <3>2. DOMAIN made = 1..Len(made)
        BY <1>1
      <3>3. frame[t].n \in 1..Len(generated')
        BY <2>1, <2>2, <3>2
      <3>4. generated'[frame[t].n] \in Nat
        BY <2>1, <3>3
      <3>5. QED
        BY <3>1, <3>4
    <2>4. lastId' \in [Conns -> Nat]
      <3> DEFINE last == IF generated'[frame[t].n] = 0 THEN lastId[frame[t].conn]
                         ELSE generated'[frame[t].n]
      <3>1. last \in Nat /\ Release(t, last)
        BY <1>4, <2>3 DEF Exec
      <3> HIDE DEF last
      <3>2. QED
        BY <3>1, ReleaseOK
    <2>5. UNCHANGED <<made, assigned, open, crashes>>
      BY <1>4 DEF Exec, journal
    <2>6. QED
      BY <2>1, <2>4, <2>5
  <1>5. CASE ReadId(t)
    <2>1. frame[t].n \in DOMAIN made
      BY <1>5, CallParts DEF ReadId, At
    <2>2. lastId[frame[t].conn] \in Nat
      BY <1>2, <1>5 DEF ReadId, At
    <2>3. lastId' \in [Conns -> Nat]
      BY <1>5, <2>2, ReleaseOK DEF ReadId
    <2>4. /\ assigned' = [assigned EXCEPT ![frame[t].n] = lastId[frame[t].conn]]
          /\ UNCHANGED <<rows, nextId, made, generated, open, crashes>>
      BY <1>5 DEF ReadId, table, journal, ran
    <2>5. assigned' \in Seq(Nat) /\ Len(assigned') = Len(made)
      BY <1>1, <2>1, <2>2, <2>4
    <2>6. QED
      BY <2>3, <2>4, <2>5
  <1>6. CASE ExecFail(t)
    <2>1. lastId' \in [Conns -> Nat]
      BY <1>6, ReleaseOK DEF ExecFail
    <2>2. /\ TableOK(rows', nextId', DOMAIN made)
          /\ generated' \in Seq(Nat) /\ Len(generated') = Len(made)
      <3>1. CASE Executes(t)
        BY <1>6, <3>1, ExecutesOK DEF ExecFail
      <3>2. CASE UNCHANGED <<table, ran>>
        BY <3>2 DEF table, ran
      <3>3. QED
        BY <1>6, <3>1, <3>2 DEF ExecFail
    <2>3. UNCHANGED <<made, assigned, open, crashes>>
      BY <1>6 DEF ExecFail, journal
    <2>4. QED
      BY <2>1, <2>2, <2>3
  <1>7. CASE ReadIdFail(t)
    <2>1. lastId' \in [Conns -> Nat]
      BY <1>7, ReleaseOK DEF ReadIdFail
    <2>2. UNCHANGED <<rows, nextId, made, assigned, generated, open, crashes>>
      BY <1>7 DEF ReadIdFail, table, journal, ran
    <2>3. QED
      BY <2>1, <2>2
  <1>8. CASE \/ Done(t) \/ JournalCheck(t) \/ JournalWrite(t)
             \/ AcquireFail(t) \/ JournalFail(t)
    BY <1>8 DEF Done, JournalCheck, JournalWrite, AcquireFail, JournalFail,
                table, journal, ran
  <1>9. QED
    BY <1>3, <1>4, <1>5, <1>6, <1>7, <1>8 DEF Progress, Failure

LEMMA ShapeKept ==
    ASSUME CallInv, ShapeOK, [Next]_vars
    PROVE  ShapeOK'
  <1>1. CASE \E t \in Tasks : Progress(t) \/ Failure(t)
    BY <1>1, StepShape
  <1>2. CASE \E t \in Tasks : \E op \in Ops : \E ids \in Arguments(op) : Call(t, op, ids)
    <2>1. PICK m : made' = Append(made, m)
      BY <1>2 DEF Call
    <2>2. /\ assigned' = Append(assigned, 0) /\ generated' = Append(generated, 0)
          /\ UNCHANGED <<rows, nextId, lastId, open, crashes>>
      BY <1>2 DEF Call, table, journal
    <2>3. made \in Seq(CallMade) /\ made' \in Seq(CallMade \cup {m})
      BY <2>1 DEF CallInv, PoolInv
    <2>4. DOMAIN made \subseteq DOMAIN made' /\ Len(made') = Len(made) + 1
      BY <2>1, <2>3
    <2>5. TableOK(rows', nextId', DOMAIN made')
      BY <2>2, <2>4, RowsGrow DEF ShapeOK, TableOK
    <2>6. QED
      BY <2>2, <2>4, <2>5 DEF ShapeOK
  <1>3. CASE Close
    BY <1>3 DEF Close, ShapeOK, table, history
  <1>4. CASE Crash
    BY <1>4 DEF Crash, ShapeOK, table, ran
  <1>5. CASE UNCHANGED vars
    BY <1>5 DEF vars, ShapeOK
  <1>6. QED
    BY <1>1, <1>2, <1>3, <1>4, <1>5 DEF Next

WriteInv == CallInv /\ LeftOK /\ ShapeOK

LEMMA InitWrites ==
    ASSUME Init
    PROVE  WriteInv
  <1>1. \A t \in Tasks : frame[t].pc = "idle" /\ frame[t].n = 0
    BY DEF Init, NoCall
  <1>2. rows \in [{} -> DOMAIN made] /\ {} \in SUBSET (Nat \ {0}) /\ DOMAIN rows = {}
    BY DEF Init
  <1>3. TableOK(rows, nextId, DOMAIN made)
    <2>1. rows \in Rows(DOMAIN made)
      BY <1>2 DEF Rows
    <2>2. QED
      BY <1>2, <2>1 DEF Init, TableOK
  <1>4. ShapeOK
    BY <1>3 DEF Init, ShapeOK
  <1>5. QED
    BY <1>1, <1>4, InitCalls DEF WriteInv, LeftOK

LEMMA WritesKept == WriteInv /\ [Next]_vars => WriteInv'
  BY CallKept, LeftKept, ShapeKept DEF WriteInv

LEMMA WriteInvariance == Spec => []WriteInv
  BY InitWrites, WritesKept, PTL DEF Spec

(* Every state has its shape, whatever the number of tasks, calls, ids,     *)
(* errors and crashes: a row holds a call that was made and the counter is  *)
(* ahead of every id, so that a generated id never overwrites a row.        *)
THEOREM TypeCorrect == Spec => []TypeOK
  <1>1. WriteInv => TypeOK
    <2> SUFFICES ASSUME WriteInv PROVE TypeOK
      OBVIOUS
    <2>1. CallInv /\ LeftOK /\ ShapeOK /\ FramesOK /\ PoolOK
      BY DEF WriteInv, CallInv, PoolInv
    <2>2. \A t \in Tasks : frame[t].n \in Calls \cup {0}
      BY <2>1 DEF LeftOK, CallInv, CallsOK, CallOK, Calls
    <2>3. \A s \in {log, buffered, executed} : s \in Seq(Calls)
      BY <2>1 DEF CallInv, JournalOK, ExecutedOK, Calls
    <2>4. PICK D \in SUBSET (Nat \ {0}) : rows \in [D -> DOMAIN made]
      BY <2>1 DEF ShapeOK, TableOK, Rows
    <2>5. DOMAIN rows \subseteq Nat \ {0} /\ \A i \in DOMAIN rows : rows[i] \in Calls
      BY <2>4 DEF Calls
    <2>6. nextId \in Nat \ {0} /\ \A i \in DOMAIN rows : i < nextId
      BY <2>1 DEF ShapeOK, TableOK
    <2>7. made \in Seq(CallMade) /\ Len(outcome) = Len(made)
      BY <2>1 DEF CallInv, PoolInv, HistoryOK
    <2>8. idle \subseteq Conns
      BY <2>1 DEF PoolOK
    <2>9. QED
      BY <2>1, <2>2, <2>3, <2>5, <2>6, <2>7, <2>8 DEF TypeOK, FramesOK, ShapeOK
  <1>2. QED
    BY <1>1, WriteInvariance, PTL

-----------------------------------------------------------------------------
(* Replay.  M is made and L the journal. *)

Line(M, n) == [op |-> M[n].op, ids |-> M[n].ids, by |-> n]
Lines(M, L) == [i \in DOMAIN L |-> Line(M, L[i])]

Redone == INSTANCE FoldLaws WITH Op <- Redo

LEMMA ReplayIs ==
    ASSUME NEW lines
    PROVE  Replay(lines) = Redone!Fold(EmptyTable, lines)
  BY DEF Replay, FoldLeft, MapThenFoldSet, Max, Redone!Fold, Redone!FoldLeft,
         Redone!MapThenFoldSet, Redone!Max

LEMMA ReplayNone == Replay(<<>>) = EmptyTable
  BY ReplayIs, Redone!FoldEmpty

(* One more line is redone on what those before it have made. *)
LEMMA ReplayOneMore ==
    ASSUME NEW M, NEW S, NEW L \in Seq(S), NEW n \in S
    PROVE  Replay(Lines(M, Append(L, n))) = Redo(Replay(Lines(M, L)), Line(M, n))
  <1> DEFINE E == {Line(M, m) : m \in S}
             A == Append(L, n)
  <1>1. /\ DOMAIN L = 1..Len(L) /\ Len(L) \in Nat /\ \A i \in 1..Len(L) : L[i] \in S
        /\ DOMAIN A = 1..Len(L) + 1 /\ A[Len(L) + 1] = n
        /\ \A i \in 1..Len(L) : A[i] = L[i]
    OBVIOUS
  <1> HIDE DEF A
  <1>2. Line(M, n) \in E /\ \A i \in 1..Len(L) : Line(M, L[i]) \in E
    BY <1>1
  <1> HIDE DEF E
  <1>3. Lines(M, L) \in Seq(E) /\ Len(Lines(M, L)) = Len(L)
    BY <1>1, <1>2 DEF Lines
  <1>4. Lines(M, A) = Append(Lines(M, L), Line(M, n))
    BY <1>1, <1>2, <1>3 DEF Lines
  <1>5. Redone!Fold(EmptyTable, Append(Lines(M, L), Line(M, n))) =
           Redo(Redone!Fold(EmptyTable, Lines(M, L)), Line(M, n))
    BY <1>2, <1>3, Redone!FoldAppend
  <1>6. QED
    BY <1>4, <1>5, ReplayIs DEF A

LEMMA ReplayedIs == Replayed = Replay(Lines(made, log))
  BY DEF Replayed, Lines, LineOf, Line

-----------------------------------------------------------------------------
(* The journal in step with the table.                                      *)
(*                                                                          *)
(* As long as no two calls have overlapped, none has failed and all are     *)
(* journaled, the lines are those of the calls that have returned, and the  *)
(* table is what they make, but for the call under way if it is past its    *)
(* statement.                                                               *)

InSequence(M, O) ==
    \A n \in DOMAIN M :
       O[n] \in {"ok", "none"} /\ M[n].after = 1..(n - 1) /\ Recorded(M[n])

Restores(s, rs, next) == s.rows = rs /\ s.next = next

InStep ==
    InSequence(made, outcome) =>
       /\ buffered = <<>>
       /\ \A i \in 1..Len(log) : log[i] = i
       /\ \A n \in DOMAIN made : outcome[n] = "ok" <=> n <= Len(log)
       /\ (\A t \in Tasks : frame[t].pc \notin Past) =>
             Restores(Replay(Lines(made, log)), rows, nextId)
       /\ \A t \in Tasks : frame[t].pc \in Past =>
             Restores(Redo(Replay(Lines(made, log)), Line(made, frame[t].n)),
                      rows, nextId)

\* Calls in sequence: only the last can be under way.
LEMMA LastCall ==
    ASSUME CallInv, InSequence(made, outcome), NEW t \in Tasks,
           frame[t].pc # "idle"
    PROVE  /\ frame[t].n = Len(made) /\ Len(made) \in DOMAIN made
           /\ outcome[Len(made)] = "none" /\ Recorded(made[Len(made)])
           /\ \A u \in Tasks \ {t} : frame[u].pc = "idle"
           /\ \A n \in DOMAIN made : n # Len(made) => outcome[n] = "ok"
  <1> DEFINE N == Len(made)
  <1>1. DOMAIN made = 1..N /\ N \in Nat /\ AfterOK(made, outcome)
    BY DEF CallInv, PoolInv, HistoryOK
  <1>2. \A u \in Tasks : frame[u].pc # "idle" =>
           frame[u].n \in DOMAIN made /\ outcome[frame[u].n] = "none"
           /\ made[frame[u].n].by = u
    BY DEF CallInv, CallsOK, CallOK
  <1>3. N \in DOMAIN made /\ made[N].after = 1..(N - 1)
    BY <1>1, <1>2 DEF InSequence
  <1>4. \A k \in DOMAIN made : k # N => outcome[k] # "none"
    <2>1. \A k \in DOMAIN made : k # N => k \in 1..(N - 1)
      BY <1>1
    <2> HIDE DEF N
    <2>2. QED
      BY <1>3, <1>1, <2>1 DEF AfterOK
  <1> HIDE DEF N
  <1>5. \A u \in Tasks : frame[u].pc # "idle" => frame[u].n = N
    BY <1>2, <1>4
  <1>6. \A u \in Tasks \ {t} : frame[u].pc = "idle"
    BY <1>2, <1>5
  <1>7. outcome[N] = "none" /\ frame[t].n = N
    BY <1>2, <1>5
  <1>8. \A n \in DOMAIN made : n # N => outcome[n] = "ok"
    BY <1>4 DEF InSequence
  <1>9. QED
    BY <1>3, <1>6, <1>7, <1>8 DEF N, InSequence

\* No call is under way when all have returned.
LEMMA NoneUnderWay ==
    ASSUME CallInv, \A n \in DOMAIN made : outcome[n] # "none"
    PROVE  \A t \in Tasks : frame[t].pc = "idle"
  BY DEF CallInv, CallsOK, CallOK

\* The call of t goes on and changes neither table nor journal.
LEMMA QuietStep ==
    ASSUME InStep, NEW t \in Tasks, NEW from, NEW to, GoneOn(t, from, to),
           from \in Past <=> to \in Past,
           UNCHANGED <<made, outcome, rows, nextId, log, buffered>>
    PROVE  InStep'
  <1>1. \A u \in Tasks : (frame'[u].pc \in Past <=> frame[u].pc \in Past)
                            /\ frame'[u].n = frame[u].n
    BY DEF GoneOn
  <1>2. QED
    BY <1>1 DEF InStep

\* An error ends the sequence.
LEMMA ErrorStep ==
    ASSUME CallInv, NEW t \in Tasks, frame[t].pc # "idle", made' = made,
           NEW how \in {"err", "unlogged"}, Return(t, how)
    PROVE  ~InSequence(made', outcome')
  <1>1. frame[t].n \in DOMAIN made
    BY CallParts
  <1>2. DOMAIN outcome = DOMAIN made
    BY DEF CallInv, HistoryOK, PoolInv
  <1>3. outcome'[frame[t].n] = how
    BY <1>1, <1>2 DEF Return
  <1>4. QED
    BY <1>1, <1>3 DEF InSequence

LEMMA ExecInStep ==
    ASSUME CallInv, LeftOK, InStep, NEW t \in Tasks, Exec(t)
    PROVE  InStep'
  <1>1. /\ frame[t].pc = "exec" /\ Executes(t)
        /\ UNCHANGED <<made, outcome, log, buffered>>
    BY DEF Exec, At, journal
  <1>2. SUFFICES ASSUME InSequence(made, outcome)
                 PROVE  InStep'
    BY <1>1 DEF InStep
  <1> DEFINE n == frame[t].n
             s == Replay(Lines(made, log))
             e == Effect(made[n].op, frame[t].left, n, rows, nextId)
  <1>3. /\ n = Len(made) /\ Recorded(made[n])
        /\ \A u \in Tasks \ {t} : frame[u].pc = "idle"
    BY <1>1, <1>2, LastCall
  <1>4. frame[t].left = made[n].ids
    BY <1>1, <1>3 DEF LeftOK, Recorded
  <1>5. s.rows = rows /\ s.next = nextId
    <2>1. \A u \in Tasks : frame[u].pc \notin Past
      BY <1>1, <1>3 DEF Past
    <2>2. QED
      BY <1>2, <2>1 DEF InStep, Restores
  <1>6. Redo(s, Line(made, n)) = e
    BY <1>4, <1>5 DEF Redo, Line
  <1>7. rows' = e.rows /\ nextId' = e.next
    BY <1>1 DEF Executes
  <1>8. PICK to \in {"id_conn", "journal"} : GoneOn(t, "exec", to)
    BY <1>3, ExecGoesOn
  <1> HIDE DEF s, e
  <1>9. Restores(Redo(s, Line(made, n)), rows', nextId')
    BY <1>6, <1>7 DEF Restores
  <1>10. frame'[t].pc \in Past /\ frame'[t].n = n
         /\ \A u \in Tasks \ {t} : frame'[u].pc \notin Past
    BY <1>3, <1>8 DEF GoneOn, Past
  <1>11. /\ buffered = <<>> /\ \A i \in 1..Len(log) : log[i] = i
         /\ \A m \in DOMAIN made : outcome[m] = "ok" <=> m <= Len(log)
    BY <1>2 DEF InStep
  <1>12. QED
    BY <1>1, <1>9, <1>10, <1>11 DEF InStep, s

LEMMA RecordInStep ==
    ASSUME CallInv, InStep, NEW t \in Tasks, JournalWrite(t)
    PROVE  InStep'
  <1>1. /\ frame[t].pc = "record" /\ Return(t, "ok")
        /\ log' = log \o ToWrite(t) /\ buffered' = <<>>
        /\ UNCHANGED <<made, rows, nextId>>
    BY DEF JournalWrite, At, table
  <1> DEFINE n == frame[t].n
  <1>2. /\ n \in DOMAIN made /\ outcome[n] = "none"
        /\ DOMAIN outcome = DOMAIN made /\ DOMAIN made = 1..Len(made)
        /\ log \in Seq(DOMAIN made) /\ FramesOK
    BY <1>1, CallParts DEF CallInv, HistoryOK, PoolInv, JournalOK
  <1>3. outcome'[n] = "ok" /\ \A m \in DOMAIN made : m # n => outcome'[m] = outcome[m]
    BY <1>1, <1>2 DEF Return
  <1>4. SUFFICES ASSUME InSequence(made, outcome)
                 PROVE  InStep'
    <2>1. InSequence(made, outcome') => InSequence(made, outcome)
      BY <1>2, <1>3 DEF InSequence
    <2>2. QED
      BY <1>1, <2>1 DEF InStep
  <1>5. /\ n = Len(made) /\ \A u \in Tasks \ {t} : frame[u].pc = "idle"
        /\ \A m \in DOMAIN made : m # n => outcome[m] = "ok"
    BY <1>1, <1>4, LastCall
  <1>6. /\ buffered = <<>> /\ \A i \in 1..Len(log) : log[i] = i
        /\ \A m \in DOMAIN made : outcome[m] = "ok" <=> m <= Len(log)
        /\ Restores(Redo(Replay(Lines(made, log)), Line(made, n)), rows, nextId)
    BY <1>1, <1>4 DEF InStep, Past
  <1>7. n \in Nat /\ Len(log) \in Nat /\ Len(log) + 1 = n
    <2>1. n \in Nat /\ n >= 1 /\ Len(log) \in Nat
      BY <1>2
    <2>2. n > Len(log)
      BY <1>2, <1>6, <2>1
    <2>3. n - 1 <= Len(log)
      <3>1. CASE n = 1
        BY <2>1, <3>1
      <3>2. CASE n > 1
        <4>1. n - 1 \in DOMAIN made /\ n - 1 # n
          BY <1>2, <2>1, <3>2
        <4>2. QED
          BY <1>5, <1>6, <4>1
      <3>3. QED
        BY <2>1, <3>1, <3>2
    <2> HIDE DEF n
    <2>4. QED
      BY <2>1, <2>2, <2>3
  <1>8. log' = Append(log, n)
    <2>1. ToWrite(t) = <<n>>
      BY <1>6 DEF ToWrite
    <2>2. QED
      BY <1>1, <1>2, <2>1
  <1>9. /\ Len(log') = n /\ \A i \in 1..Len(log') : log'[i] = i
    <2>1. /\ Len(log') = Len(log) + 1 /\ log'[Len(log) + 1] = n
          /\ \A i \in 1..Len(log) : log'[i] = log[i]
      BY <1>2, <1>8
    <2>2. \A i \in 1..n : i \in 1..Len(log) \/ i = n
      BY <1>7
    <2> HIDE DEF n
    <2>3. QED
      BY <1>6, <1>7, <2>1, <2>2
  <1>10. \A m \in DOMAIN made : outcome'[m] = "ok" <=> m <= Len(log')
    BY <1>2, <1>3, <1>5, <1>9
  <1>11. \A u \in Tasks : frame'[u].pc \notin Past
    BY <1>1, <1>2, <1>5, ReturnFrames DEF Past
  <1>12. Replay(Lines(made, log')) = Redo(Replay(Lines(made, log)), Line(made, n))
    BY <1>2, <1>8, ReplayOneMore
  <1>13. QED
    BY <1>1, <1>6, <1>9, <1>10, <1>11, <1>12 DEF InStep

LEMMA CallInStep ==
    ASSUME CallInv, CallInv', InStep, NEW t \in Tasks, NEW op \in Ops,
           NEW ids \in Arguments(op), Call(t, op, ids)
    PROVE  InStep'
  <1> DEFINE N == Len(made) + 1
  <1>1. /\ made' = Append(made, [by |-> t, op |-> op, ids |-> ids,
                                 after |-> ReturnedCalls])
        /\ outcome' = Append(outcome, "none")
        /\ UNCHANGED <<rows, nextId, log, buffered>>
    BY DEF Call, table, journal
  <1>2. /\ made \in Seq(CallMade) /\ outcome \in Seq(Outcomes)
        /\ Len(outcome) = Len(made) /\ log \in Seq(DOMAIN made) /\ FramesOK
    BY DEF CallInv, HistoryOK, PoolInv, JournalOK
  <1>3. /\ DOMAIN made = 1..Len(made) /\ Len(made) \in Nat
        /\ DOMAIN made' = 1..N /\ made'[N].after = ReturnedCalls
        /\ outcome'[N] = "none"
        /\ \A m \in DOMAIN made : made'[m] = made[m] /\ outcome'[m] = outcome[m]
    BY <1>1, <1>2
  <1>4. SUFFICES ASSUME InSequence(made', outcome')
                 PROVE  InStep'
    BY DEF InStep
  <1>5. N \in DOMAIN made' /\ \A m \in DOMAIN made : m \in DOMAIN made'
    BY <1>3
  <1>6. InSequence(made, outcome)
    BY <1>3, <1>4, <1>5 DEF InSequence
  <1>7. \A m \in DOMAIN made : outcome[m] = "ok"
    <2>1. ReturnedCalls = 1..(N - 1)
      BY <1>3, <1>4, <1>5 DEF InSequence
    <2>2. DOMAIN made = 1..(N - 1)
      BY <1>3
    <2> HIDE DEF N
    <2>3. QED
      BY <1>6, <2>1, <2>2 DEF InSequence, ReturnedCalls, Calls
  <1>8. \A u \in Tasks : frame[u].pc = "idle"
    BY <1>7, NoneUnderWay
  <1>9. /\ buffered = <<>> /\ \A i \in 1..Len(log) : log[i] = i
        /\ \A m \in DOMAIN made : outcome[m] = "ok" <=> m <= Len(log)
        /\ Restores(Replay(Lines(made, log)), rows, nextId)
    BY <1>6, <1>8 DEF InStep, Past
  <1>10. Lines(made', log) = Lines(made, log)
    <2>1. \A i \in DOMAIN log : log[i] \in DOMAIN made
      BY <1>2
    <2>2. \A i \in DOMAIN log : Line(made', log[i]) = Line(made, log[i])
      BY <1>3, <2>1 DEF Line
    <2>3. QED
      BY <2>2 DEF Lines
  <1>11. \A u \in Tasks : frame'[u].pc \notin Past
    BY <1>2, <1>8, CallFrames DEF Past
  <1>12. Len(log) < N
    <2>1. Len(log) = 0 \/ (Len(log) \in 1..Len(log) /\ log[Len(log)] \in DOMAIN made)
      BY <1>2
    <2>2. Len(log) \in Nat
      BY <1>2
    <2>3. QED
      BY <1>3, <1>9, <2>1, <2>2
  <1>13. \A m \in DOMAIN made' : outcome'[m] = "ok" <=> m <= Len(log)
    <2>1. \A m \in DOMAIN made' : m \in DOMAIN made \/ m = N
      BY <1>3
    <2>2. Len(log) \in Nat /\ N \in Nat /\ ~(N <= Len(log))
      BY <1>2, <1>3, <1>12
    <2> HIDE DEF N
    <2>3. QED
      BY <1>3, <1>9, <2>1, <2>2
  <1>14. QED
    BY <1>1, <1>9, <1>10, <1>11, <1>13 DEF InStep

LEMMA CloseInStep ==
    ASSUME CallInv, InStep, Close
    PROVE  InStep'
  <1>1. UNCHANGED <<rows, nextId, frame, made, outcome>>
    BY DEF Close, table, history
  <1>2. SUFFICES ASSUME InSequence(made, outcome) PROVE InStep'
    BY <1>1 DEF InStep
  <1>3. PICK k \in 0..Len(buffered) :
          /\ log' = log \o SubSeq(buffered, 1, k)
          /\ buffered' = SubSeq(buffered, k + 1, Len(buffered))
    BY DEF Close
  <1>4. buffered = <<>> /\ log \in Seq(DOMAIN made)
    BY <1>2 DEF InStep, CallInv, JournalOK
  <1>5. k = 0 /\ SubSeq(<<>>, 1, 0) = <<>> /\ SubSeq(<<>>, 1, Len(<<>>)) = <<>>
    BY <1>3, <1>4
  <1>6. log' = log /\ buffered' = <<>>
    BY <1>3, <1>4, <1>5
  <1>7. QED
    BY <1>1, <1>4, <1>6 DEF InStep

LEMMA CrashInStep ==
    ASSUME CallInv, InStep, Crash
    PROVE  InStep'
  <1>1. /\ outcome' = [n \in Calls |-> IF outcome[n] = "none" THEN "crashed"
                                       ELSE outcome[n]]
        /\ buffered' = <<>> /\ UNCHANGED <<rows, nextId, log, made>>
    BY DEF Crash, table
  <1>2. SUFFICES ASSUME InSequence(made, outcome') PROVE InStep'
    BY <1>1 DEF InStep
  <1>3. \A n \in DOMAIN made : outcome[n] # "none" /\ outcome'[n] = outcome[n]
    BY <1>1, <1>2 DEF InSequence, Calls
  <1>4. InSequence(made, outcome)
    BY <1>2, <1>3 DEF InSequence
  <1>5. \A t \in Tasks : frame[t].pc \notin Past /\ frame'[t].pc \notin Past
    BY <1>3, NoneUnderWay, CrashFrames DEF Past
  <1>6. QED
    BY <1>1, <1>3, <1>4, <1>5 DEF InStep

LEMMA InStepKept ==
    ASSUME WriteInv, WriteInv', InStep, [Next]_vars
    PROVE  InStep'
  <1>1. CallInv /\ CallInv' /\ LeftOK /\ FramesOK
    BY DEF WriteInv, CallInv, PoolInv
  <1>2. CASE \E t \in Tasks : Progress(t) \/ Failure(t)
    <2>1. PICK t \in Tasks : Progress(t) \/ Failure(t)
      BY <1>2
    <2>2. CASE Acquire(t, "conn", "exec") \/ Acquire(t, "id_conn", "id")
      <3>1. UNCHANGED <<made, outcome, rows, nextId, log, buffered>>
        BY <2>2 DEF Acquire, table, journal, history
      <3>2. QED
        BY <1>1, <2>2, <3>1, AcquireGoesOn, QuietStep DEF Past
    <2>3. CASE Exec(t)
      BY <1>1, <2>3, ExecInStep
    <2>4. CASE ReadId(t)
      <3>1. UNCHANGED <<made, outcome, rows, nextId, log, buffered>>
        BY <2>4 DEF ReadId, table, journal
      <3>2. PICK to \in {"journal", "done"} :
              /\ GoneOn(t, "id", to)
              /\ Recorded(made[frame[t].n]) => to = "journal"
        BY <1>1, <2>4, ReadIdGoesOn
      <3>3. CASE to = "journal"
        BY <3>1, <3>2, <3>3, QuietStep DEF Past
      <3>4. CASE ~Recorded(made[frame[t].n])
        <4>1. frame[t].n \in DOMAIN made
          BY <1>1, <2>4, CallParts DEF ReadId, At
        <4>2. ~InSequence(made', outcome')
          BY <3>1, <3>4, <4>1 DEF InSequence
        <4>3. QED
          BY <4>2 DEF InStep
      <3>5. QED
        BY <3>2, <3>3, <3>4
    <2>5. CASE JournalCheck(t) /\ open
      <3>1. UNCHANGED <<made, outcome, rows, nextId, log, buffered>>
        BY <2>5 DEF JournalCheck, table, journal
      <3>2. QED
        BY <1>1, <2>5, <3>1, CheckGoesOn, QuietStep DEF Past
    <2>6. CASE JournalWrite(t)
      BY <1>1, <2>6, RecordInStep
    <2>7. CASE Done(t)
      <3>1. frame[t].pc = "done" /\ made' = made /\ Return(t, "ok")
        BY <2>7 DEF Done, At
      <3>2. frame[t].n \in DOMAIN made /\ ~Recorded(made[frame[t].n])
        BY <1>1, <3>1, CallParts
      <3>3. ~InSequence(made', outcome')
        BY <3>1, <3>2 DEF InSequence
      <3>4. QED
        BY <3>3 DEF InStep
    <2>8. CASE Failure(t) \/ (JournalCheck(t) /\ ~open)
      <3>1. frame[t].pc # "idle" /\ made' = made
        BY <1>1, <2>8, StepReturns
      <3>2. \E how \in {"err", "unlogged"} : Return(t, how)
        BY <2>8 DEF Failure, ExecFail, AcquireFail, ReadIdFail, JournalFail,
                    JournalCheck
      <3>3. ~InSequence(made', outcome')
        BY <1>1, <3>1, <3>2, ErrorStep
      <3>4. QED
        BY <3>3 DEF InStep
    <2>9. QED
      BY <2>1, <2>2, <2>3, <2>4, <2>5, <2>6, <2>7, <2>8 DEF Progress
  <1>3. CASE \E t \in Tasks : \E op \in Ops : \E ids \in Arguments(op) : Call(t, op, ids)
    BY <1>1, <1>3, CallInStep
  <1>4. CASE Close
    BY <1>1, <1>4, CloseInStep
  <1>5. CASE Crash
    BY <1>1, <1>5, CrashInStep
  <1>6. CASE UNCHANGED vars
    BY <1>6 DEF vars, InStep
  <1>7. QED
    BY <1>2, <1>3, <1>4, <1>5, <1>6 DEF Next

(* What the journal is good for: after any number of journaled saves,       *)
(* batches and updates that did not overlap and did not fail, replaying the *)
(* journal on an empty table gives the table and its counter, however often *)
(* it was closed, or crashed between them.                                  *)
THEOREM ReplayRestoresTable == Spec => []ReplayRestores
  <1>1. Init => WriteInv /\ InStep
    <2> SUFFICES ASSUME Init PROVE InStep
      BY InitWrites
    <2>1. /\ made = <<>> /\ log = <<>> /\ buffered = <<>> /\ rows = <<>> /\ nextId = 1
          /\ \A t \in Tasks : frame[t].pc = "idle"
      BY DEF Init, NoCall
    <2>2. Lines(made, log) = <<>>
      BY <2>1 DEF Lines
    <2>3. Restores(Replay(Lines(made, log)), rows, nextId)
      BY <2>1, <2>2, ReplayNone DEF Restores, EmptyTable
    <2>4. Len(log) = 0 /\ DOMAIN made = {}
      BY <2>1
    <2>5. QED
      BY <2>1, <2>3, <2>4 DEF InStep, Past
  <1>2. WriteInv /\ InStep /\ [Next]_vars => (WriteInv /\ InStep)'
    BY WritesKept, InStepKept
  <1>3. WriteInv /\ InStep => ReplayRestores
    <2> SUFFICES ASSUME CallInv, InStep,
                        \A n \in Calls : outcome[n] = "ok" /\ made[n].after = 1..(n - 1)
                                         /\ IsJournaled(n)
                 PROVE  Replayed.rows = rows /\ Replayed.next = nextId
      BY DEF ReplayRestores, WriteInv
    <2>1. InSequence(made, outcome)
      BY DEF InSequence, Calls, IsJournaled, Recorded
    <2>2. \A t \in Tasks : frame[t].pc \notin Past
      BY NoneUnderWay DEF Calls, Past
    <2>3. Restores(Replay(Lines(made, log)), rows, nextId)
      BY <2>1, <2>2 DEF InStep
    <2>4. QED
      BY <2>3, ReplayedIs DEF Restores
  <1>4. QED
    BY <1>1, <1>2, <1>3, PTL DEF Spec
=============================================================================
