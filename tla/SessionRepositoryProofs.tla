----------------------- MODULE SessionRepositoryProofs -----------------------
(* Theorems about SessionRepository, for every value of its constants. *)
EXTENDS SessionRepository, TLAPS

USE CacheableAssumption, NoneAssumption, FlusherAssumption, NumbersAssumption,
    SwitchesAssumption

-----------------------------------------------------------------------------
(* Type correctness.  TypeOK is not inductive alone: that a step of put or  *)
(* flush keeps dirty and counts in their types depends on the locals of the *)
(* call, so the locals are described per critical section.                  *)

\* The critical sections that work on the session, on the type of the call.
InSession == Labels \ {"idle", "flush", "off", "check", "sleep", "exited"}
OnType == InSession \ {"remove"}

FrameOK(f, open) ==
    /\ f \in Frame
    /\ f.queue \in Seq(open)
    /\ f.pc = "flush" => f.queue # <<>>
    /\ f.pc \in InSession => f.s \in open
    /\ f.pc \in OnType => f.ty \in Types
    /\ f.pc \in {"mark", "increment"} => f.ty \in Cacheable
    /\ f.pc = "store" => f.row \in Values

FramesOK == \A p \in Procs : FrameOK(frame[p], Opened)

TypeInv == TypeOK /\ FramesOK

(* Opening a session keeps what is known about the calls under way. *)
LEMMA FrameOKMonotone ==
    ASSUME NEW f, NEW open, NEW more, open \subseteq more, FrameOK(f, open)
    PROVE  FrameOK(f, more)
BY DEF FrameOK

(* An idle task has no locals. *)
LEMMA NoCallOK ==
    ASSUME NEW p, NEW open
    PROVE  FrameOK(NoCall(p), open) /\ NoCall(p).pc \in {"idle", "check"}
BY DEF NoCall, FrameOK, Frame, Labels, InSession, OnType

(* Moving on with a flush keeps the locals consistent. *)
LEMMA FlushOnOK ==
    ASSUME NEW p, NEW open, NEW f \in Frame,
           f.queue \in Seq(open), f.pend # {} => f.s \in open
    PROVE  FrameOK(FlushOn(p, f), open)
<1>1. CASE f.pend # {}
  BY <1>1 DEF FlushOn, FrameOK, Frame, Labels, InSession, OnType
<1>2. CASE f.pend = {} /\ f.queue # <<>>
  BY <1>2 DEF FlushOn, FrameOK, Frame, Labels, InSession, OnType
<1>3. CASE f.pend = {} /\ f.queue = <<>>
  BY <1>3, NoCallOK DEF FlushOn
<1> QED BY <1>1, <1>2, <1>3

(* A call that starts on a session and a type. *)
LEMMA StartedOK ==
    ASSUME NEW p, NEW open \in SUBSET Sessions, NEW s \in open, NEW T \in Types,
           NEW label \in {"mark", "neg_flag"}, label = "mark" => T \in Cacheable
    PROVE  FrameOK([NoCall(p) EXCEPT !.pc = label, !.s = s, !.ty = T], open)
<1>1. NoCall(p) \in Frame /\ NoCall(p).queue = <<>>
  BY NoCallOK DEF FrameOK, NoCall
<1>2. s \in 0..MaxOpens
  BY DEF Sessions
<1> DEFINE g(r) == [r EXCEPT !.pc = label, !.s = s, !.ty = T]
<1>3. ASSUME NEW r \in Frame PROVE g(r) \in Frame
  BY <1>2 DEF Frame, Labels
<1>4. ASSUME NEW r \in Frame
      PROVE  /\ g(r).queue = r.queue
             /\ g(r).pc = label /\ g(r).s = s /\ g(r).ty = T
  BY DEF Frame
<1> DEFINE f == [NoCall(p) EXCEPT !.pc = label, !.s = s, !.ty = T]
<1>5. f \in Frame /\ f.queue = <<>> /\ f.pc = label /\ f.s = s /\ f.ty = T
  BY <1>1, <1>3, <1>4
<1> HIDE DEF f
<1>6. FrameOK(f, open)
  BY <1>5 DEF FrameOK
<1> QED BY <1>6 DEF f

(* A step that gives one process a consistent frame. *)
LEMMA BecomeOK ==
    ASSUME TypeInv, NEW p \in Procs, NEW f, FrameOK(f, Opened), Become(p, f),
           UNCHANGED player
    PROVE  frame' \in [Procs -> Frame] /\ FramesOK'
BY DEF TypeInv, TypeOK, FramesOK, FrameOK, Become, Opened

(* The sequence the cache holds after a pop, after making room. *)
LEMMA PoppedType ==
    ASSUME TypeInv, NEW pl, Holds(pl)
    PROVE  /\ IndexOf(pl) \in DOMAIN lru /\ lru[IndexOf(pl)] \in Opened
           /\ Popped(pl) \in Seq(Opened)
<1>1. IndexOf(pl) \in DOMAIN lru
  BY DEF Holds, IndexOf
<1> QED BY <1>1 DEF TypeInv, TypeOK, Popped, RemoveAt

LEMMA RoomForType ==
    ASSUME TypeInv, NEW pl PROVE RoomFor(pl) \in Seq(Opened)
<1>1. CASE Holds(pl)
  BY <1>1, PoppedType DEF RoomFor
<1>2. CASE ~Holds(pl)
  BY <1>2 DEF RoomFor, Front, TypeInv, TypeOK, Capacity
<1> QED BY <1>1, <1>2

LEMMA InitTypeInv == Init => TypeInv
<1> SUFFICES ASSUME Init PROVE TypeInv
  OBVIOUS
<1>1. lru \in Seq(Opened) /\ player \in Seq(Players) /\ Len(player) <= MaxOpens
  BY DEF Init
<1>2. ASSUME NEW p \in Procs PROVE FrameOK(frame[p], Opened)
  <2>1. CASE p = Flusher /\ ~FlushIntervalSet
    <3>1. frame[p] = [pc |-> "off", s |-> 0, ty |-> None, row |-> None,
                      queue |-> <<>>, pend |-> {}]
      BY <2>1 DEF Init, NoCall
    <3> QED BY <3>1 DEF FrameOK, Frame, Labels, InSession, OnType
  <2>2. CASE ~(p = Flusher /\ ~FlushIntervalSet)
    BY <2>2, NoCallOK DEF Init
  <2> QED BY <2>1, <2>2
<1>3. frame \in [Procs -> Frame]
  BY <1>2 DEF Init, FrameOK
<1>4. TypeOK
  BY <1>1, <1>3 DEF Init, TypeOK
<1> QED BY <1>2, <1>4 DEF TypeInv, FramesOK

LEMMA OpenSessionTypeInv ==
    ASSUME TypeInv, NEW t \in Tasks, NEW pl \in Players, OpenSession(t, pl)
    PROVE  TypeInv'
<1>1. player' \in Seq(Players) /\ Len(player') = Len(player) + 1
  BY DEF OpenSession, TypeInv, TypeOK
<1>2. Opened \subseteq Opened' /\ Len(player) + 1 \in Opened'
  BY <1>1 DEF TypeInv, TypeOK, Opened
<1>3. lru' \in Seq(Opened')
  <2>1. RoomFor(pl) \in Seq(Opened')
    BY <1>2, RoomForType
  <2> QED BY <2>1, <1>2 DEF OpenSession, Cons
<1>4. FramesOK'
  BY <1>2, FrameOKMonotone DEF OpenSession, TypeInv, FramesOK
<1>5. TypeOK'
  BY <1>1, <1>3 DEF OpenSession, Call, TypeInv, TypeOK
<1> QED BY <1>4, <1>5 DEF TypeInv

(* A flush starts with sessions that have been opened. *)
LEMMA StartFlushOK ==
    ASSUME TypeInv, NEW p \in Procs, NEW sessions \in Seq(Opened),
           StartFlush(p, sessions), UNCHANGED player
    PROVE  frame' \in [Procs -> Frame] /\ FramesOK'
<1> DEFINE f == [NoCall(p) EXCEPT !.queue = sessions]
<1>1. f \in Frame /\ f.queue = sessions /\ f.pend = {}
  <2>1. Opened \subseteq Sessions
    BY DEF TypeInv, TypeOK, Opened, Sessions
  <2>2. sessions \in Seq(Sessions)
    BY <2>1
  <2>3. NoCall(p) \in Frame /\ NoCall(p).pend = {}
    BY NoCallOK DEF FrameOK, NoCall
  <2>4. ASSUME NEW r \in Frame
        PROVE  LET g == [r EXCEPT !.queue = sessions]
               IN  g \in Frame /\ g.queue = sessions /\ g.pend = r.pend
    BY <2>2 DEF Frame
  <2> QED BY <2>3, <2>4
<1>2. FrameOK(FlushOn(p, f), Opened)
  BY <1>1, FlushOnOK
<1> QED BY <1>2, BecomeOK DEF StartFlush

LEMMA CloseSessionTypeInv ==
    ASSUME TypeInv, NEW t \in Tasks, NEW pl \in Players, CloseSession(t, pl)
    PROVE  TypeInv'
<1>1. <<lru[IndexOf(pl)]>> \in Seq(Opened) /\ Popped(pl) \in Seq(Opened)
  BY PoppedType DEF CloseSession
<1>2. frame' \in [Procs -> Frame] /\ FramesOK'
  BY <1>1, StartFlushOK DEF CloseSession, Procs
<1>3. TypeOK'
  BY <1>1, <1>2 DEF CloseSession, Call, TypeInv, TypeOK, Opened
<1> QED BY <1>2, <1>3 DEF TypeInv

(* The calls and the step of the flush task that begin a flush and change   *)
(* nothing else.                                                            *)
LEMMA BeginFlushTypeInv ==
    ASSUME TypeInv, NEW p \in Procs, NEW sessions \in Seq(Opened),
           StartFlush(p, sessions), UNCHANGED shared, calls' \in Nat
    PROVE  TypeInv'
<1>1. frame' \in [Procs -> Frame] /\ FramesOK'
  BY StartFlushOK DEF shared
<1>2. TypeOK'
  BY <1>1 DEF TypeInv, TypeOK, shared, Opened
<1> QED BY <1>1, <1>2 DEF TypeInv

LEMMA FlushCollectTypeInv ==
    ASSUME TypeInv, NEW p \in Procs, FlushCollect(p) PROVE TypeInv'
<1> DEFINE s == Head(frame[p].queue)
           f == [frame[p] EXCEPT !.s = s, !.pend = dirty[s], !.queue = Tail(@)]
<1>1. /\ frame[p] \in Frame /\ frame[p].queue \in Seq(Opened)
      /\ frame[p].queue # <<>>
  BY DEF FlushCollect, At, TypeInv, FramesOK, FrameOK
<1>2. s \in Opened /\ s \in Sessions /\ dirty[s] \in SUBSET Types
  <2>1. s \in Opened
    BY <1>1
  <2>2. Opened \subseteq Sessions
    BY NumbersAssumption DEF TypeInv, TypeOK, Opened, Sessions
  <2>3. dirty \in [Sessions -> SUBSET Types]
    BY DEF TypeInv, TypeOK
  <2> HIDE DEF s
  <2> QED BY <2>1, <2>2, <2>3
<1>3. Tail(frame[p].queue) \in Seq(Opened) /\ Tail(frame[p].queue) \in Seq(Sessions)
  BY <1>1 DEF Frame
<1>4. f \in Frame /\ f.queue = Tail(frame[p].queue) /\ f.s = s
  <2> DEFINE g(r, x, types, rest) ==
               [r EXCEPT !.s = x, !.pend = types, !.queue = rest]
  <2>1. ASSUME NEW r \in Frame, NEW x \in 0..MaxOpens,
               NEW types \in SUBSET Types, NEW rest \in Seq(Sessions)
        PROVE  g(r, x, types, rest) \in Frame
    BY DEF Frame
  <2>2. ASSUME NEW r \in Frame, NEW x, NEW types, NEW rest
        PROVE  g(r, x, types, rest).queue = rest /\ g(r, x, types, rest).s = x
    BY DEF Frame
  <2>3. s \in 0..MaxOpens
    BY <1>2 DEF Sessions
  <2>4. f = g(frame[p], s, dirty[s], Tail(frame[p].queue))
    OBVIOUS
  <2> HIDE DEF f, g, s
  <2>5. g(frame[p], s, dirty[s], Tail(frame[p].queue)) \in Frame
    BY <1>1, <1>2, <1>3, <2>1, <2>3
  <2>6. g(frame[p], s, dirty[s], Tail(frame[p].queue)).queue = Tail(frame[p].queue)
        /\ g(frame[p], s, dirty[s], Tail(frame[p].queue)).s = s
    BY <1>1, <2>2
  <2> QED BY <2>4, <2>5, <2>6
<1>5. FrameOK(FlushOn(p, f), Opened)
  BY <1>2, <1>3, <1>4, FlushOnOK
<1>6. frame' \in [Procs -> Frame] /\ FramesOK'
  BY <1>5, BecomeOK DEF FlushCollect, shared
<1>7. TypeOK'
  BY <1>6 DEF FlushCollect, TypeInv, TypeOK, shared, Opened
<1> QED BY <1>6, <1>7 DEF TypeInv

LEMMA FlushRemoveTypeInv ==
    ASSUME TypeInv, NEW p \in Procs, FlushRemove(p) PROVE TypeInv'
<1>1. PICK T \in frame[p].pend :
        /\ dirty' = [dirty EXCEPT ![frame[p].s] = @ \ {T}]
        /\ unflushed' = [unflushed EXCEPT ![frame[p].s] = @ \ {T}]
        /\ Become(p, [frame[p] EXCEPT !.pc = "decrement", !.ty = T,
                                      !.pend = @ \ {T}])
  BY DEF FlushRemove
<1> DEFINE f == [frame[p] EXCEPT !.pc = "decrement", !.ty = T, !.pend = @ \ {T}]
<1>2. FrameOK(frame[p], Opened) /\ frame[p].pc = "remove"
  BY DEF FlushRemove, At, TypeInv, FramesOK
<1>3. T \in Types
  BY <1>2 DEF FrameOK, Frame
<1>4. FrameOK(f, Opened)
  BY <1>2, <1>3 DEF FrameOK, Frame, Labels, InSession, OnType
<1>5. frame' \in [Procs -> Frame] /\ FramesOK'
  BY <1>1, <1>4, BecomeOK DEF FlushRemove
<1>6. TypeOK'
  BY <1>1, <1>5 DEF FlushRemove, TypeInv, TypeOK, Opened
<1> QED BY <1>5, <1>6 DEF TypeInv

LEMMA FlushDecrementTypeInv ==
    ASSUME TypeInv, NEW p \in Procs, FlushDecrement(p) PROVE TypeInv'
<1> DEFINE f == [frame[p] EXCEPT !.ty = None]
<1>1. FrameOK(frame[p], Opened) /\ frame[p].pc = "decrement"
  BY DEF FlushDecrement, At, TypeInv, FramesOK
<1>2. f \in Frame /\ f.queue = frame[p].queue /\ f.s = frame[p].s
  BY <1>1 DEF FrameOK, Frame
<1>3. FrameOK(FlushOn(p, f), Opened)
  BY <1>1, <1>2, FlushOnOK DEF FrameOK, InSession, Labels
<1>4. frame' \in [Procs -> Frame] /\ FramesOK'
  BY <1>3, BecomeOK DEF FlushDecrement
<1>5. counts' \in [Cacheable -> Nat]
  BY DEF FlushDecrement, Decremented, TypeInv, TypeOK
<1>6. TypeOK'
  BY <1>4, <1>5 DEF FlushDecrement, TypeInv, TypeOK, Opened
<1> QED BY <1>4, <1>6 DEF TypeInv

(* The first critical section of put, reached by put and by get_or_load. *)
LEMMA PutInsertTypeInv ==
    ASSUME TypeInv, NEW t \in Tasks, NEW s \in Opened, NEW T, NEW v \in Values,
           PutInsert(t, s, T, v), calls' \in Nat
    PROVE  TypeInv'
<1> DEFINE f == [NoCall(t) EXCEPT !.pc = "mark", !.s = s, !.ty = T]
<1>1. s \in Sessions /\ T \in Types /\ Opened \subseteq Sessions
  BY DEF PutInsert, TypeInv, TypeOK, Opened, Sessions
<1>2. FrameOK(f, Opened)
  BY <1>1, StartedOK DEF PutInsert
<1>3. frame' \in [Procs -> Frame] /\ FramesOK'
  BY <1>2, BecomeOK DEF PutInsert, Procs
<1>4. TypeOK'
  BY <1>1, <1>3 DEF PutInsert, TypeInv, TypeOK, Opened
<1> QED BY <1>3, <1>4 DEF TypeInv

LEMMA PutMarkTypeInv ==
    ASSUME TypeInv, NEW t \in Tasks, PutMark(t) PROVE TypeInv'
<1>1. FrameOK(frame[t], Opened) /\ frame[t].pc = "mark"
  BY DEF PutMark, At, TypeInv, FramesOK, Procs
<1>2. FrameOK([frame[t] EXCEPT !.pc = "increment"], Opened)
  BY <1>1 DEF FrameOK, Frame, Labels, InSession, OnType
<1>3. frame' \in [Procs -> Frame] /\ FramesOK'
  BY <1>2, BecomeOK DEF PutMark, Goto, Procs
<1>4. dirty' \in [Sessions -> SUBSET Types]
  BY <1>1 DEF PutMark, TypeInv, TypeOK, FrameOK
<1>5. TypeOK'
  BY <1>3, <1>4 DEF PutMark, TypeInv, TypeOK, Opened
<1> QED BY <1>3, <1>5 DEF TypeInv

LEMMA PutIncrementTypeInv ==
    ASSUME TypeInv, NEW t \in Tasks, PutIncrement(t) PROVE TypeInv'
<1>1. frame' \in [Procs -> Frame] /\ FramesOK'
  BY NoCallOK, BecomeOK DEF PutIncrement, Return, Procs
<1>2. counts' \in [Cacheable -> Nat]
  <2>1. frame[t].ty \in Cacheable
    BY DEF PutIncrement, At, TypeInv, FramesOK, FrameOK, Procs
  <2> QED BY <2>1 DEF PutIncrement, TypeInv, TypeOK
<1>3. TypeOK'
  BY <1>1, <1>2 DEF PutIncrement, TypeInv, TypeOK, Opened
<1> QED BY <1>1, <1>3 DEF TypeInv

(* The steps that change one process's frame at most, and no shared state:  *)
(* those of get_or_load up to its store.                                    *)
LEMMA FrameStepTypeInv ==
    ASSUME TypeInv, NEW p \in Procs, NEW f, FrameOK(f, Opened), Become(p, f),
           UNCHANGED shared, calls' \in Nat
    PROVE  TypeInv'
<1>1. frame' \in [Procs -> Frame] /\ FramesOK'
  BY BecomeOK DEF shared
<1>2. TypeOK'
  BY <1>1 DEF TypeInv, TypeOK, shared, Opened
<1> QED BY <1>1, <1>2 DEF TypeInv

LEMMA GetOrLoadTypeInv ==
    ASSUME TypeInv, NEW t \in Tasks, NEW s \in Opened, NEW T \in Types,
           GetOrLoad(t, s, T)
    PROVE  TypeInv'
<1>1. Opened \subseteq Sessions
  BY DEF TypeInv, TypeOK, Opened, Sessions
<1>2. FrameOK([NoCall(t) EXCEPT !.pc = "neg_flag", !.s = s, !.ty = T], Opened)
  BY <1>1, StartedOK
<1>3. t \in Procs /\ calls' \in Nat
  BY DEF GetOrLoad, Call, Procs, TypeInv, TypeOK
<1> QED BY <1>2, <1>3, FrameStepTypeInv DEF GetOrLoad

LEMMA LoadTypeInv ==
    ASSUME TypeInv, NEW t \in Tasks,
           \/ LoadNegFlag(t) \/ LoadNegCheck(t) \/ LoadFind(t)
           \/ LoadRejected(t) \/ LoadMissFlag(t) \/ LoadNegInsert(t)
    PROVE  TypeInv'
<1> DEFINE Onward == {"neg_check", "find", "miss", "neg_insert"}
<1>1. t \in Procs /\ FrameOK(frame[t], Opened) /\ calls \in Nat
  BY DEF TypeInv, TypeOK, FramesOK, Procs
<1>2. ASSUME NEW label \in Onward, frame[t].pc \in InSession \ {"remove"}
      PROVE  FrameOK([frame[t] EXCEPT !.pc = label], Opened)
  BY <1>1, <1>2 DEF FrameOK, Frame, Labels, InSession, OnType
<1>3. FrameOK(NoCall(t), Opened)
  BY NoCallOK
<1>4. CASE LoadNegFlag(t)
  <2>1. FrameOK([frame[t] EXCEPT !.pc = "neg_check"], Opened)
        /\ FrameOK([frame[t] EXCEPT !.pc = "find"], Opened)
    BY <1>2, <1>4 DEF LoadNegFlag, At, InSession, Labels
  <2> QED BY <1>1, <1>4, <2>1, FrameStepTypeInv DEF LoadNegFlag, Goto
<1>5. CASE LoadNegCheck(t)
  BY <1>1, <1>2, <1>3, <1>5, FrameStepTypeInv
     DEF LoadNegCheck, At, Goto, Return, InSession, Labels
<1>6. CASE LoadFind(t)
  <2>1. PICK row \in Found(player[frame[t].s], frame[t].ty) :
          Become(t, [frame[t] EXCEPT !.row = row,
                       !.pc = IF row = None THEN "miss" ELSE "store"])
    BY <1>6 DEF LoadFind
  <2>2. frame[t].pc = "find" /\ frame[t].s \in Opened /\ frame[t].ty \in Types
    BY <1>1, <1>6 DEF LoadFind, At, FrameOK, InSession, OnType, Labels
  <2>3. row \in Values \cup {None}
    BY <2>2 DEF Found, TypeInv, TypeOK, Opened
  <2>4. FrameOK([frame[t] EXCEPT !.row = row,
                   !.pc = IF row = None THEN "miss" ELSE "store"], Opened)
    BY <1>1, <2>2, <2>3 DEF FrameOK, Frame, Labels, InSession, OnType
  <2> QED BY <1>1, <1>6, <2>1, <2>4, FrameStepTypeInv DEF LoadFind
<1>7. CASE LoadRejected(t)
  BY <1>1, <1>3, <1>7, FrameStepTypeInv DEF LoadRejected, Return
<1>8. CASE LoadMissFlag(t)
  BY <1>1, <1>2, <1>3, <1>8, FrameStepTypeInv
     DEF LoadMissFlag, At, Goto, Return, InSession, Labels
<1>9. CASE LoadNegInsert(t)
  <2>1. frame[t].ty \in Types
    BY <1>1, <1>9 DEF LoadNegInsert, At, FrameOK, OnType, InSession, Labels
  <2>2. frame' \in [Procs -> Frame] /\ FramesOK'
    BY <1>1, <1>3, <1>9, BecomeOK DEF LoadNegInsert, Return
  <2>3. TypeOK'
    BY <1>9, <2>1, <2>2 DEF LoadNegInsert, TypeInv, TypeOK, Opened
  <2> QED BY <2>2, <2>3 DEF TypeInv
<1> QED BY <1>4, <1>5, <1>6, <1>7, <1>8, <1>9

(* The steps of a process that flushes: an application task or Flusher. *)
LEMMA FlushStepTypeInv ==
    ASSUME TypeInv, NEW p \in Procs, FlushStep(p) PROVE TypeInv'
BY FlushCollectTypeInv, FlushRemoveTypeInv, FlushDecrementTypeInv DEF FlushStep

LEMMA OperationTypeInv ==
    ASSUME TypeInv, NEW t \in Tasks, Operation(t) PROVE TypeInv'
<1>1. t \in Procs /\ Opened \subseteq Sessions /\ lru \in Seq(Opened)
  BY DEF Procs, TypeInv, TypeOK, Opened, Sessions
<1>2. ASSUME NEW pl \in Players, OpenSession(t, pl) \/ CloseSession(t, pl)
      PROVE  TypeInv'
  BY <1>2, OpenSessionTypeInv, CloseSessionTypeInv
<1>3. CASE FlushAll(t)
  BY <1>1, <1>3, BeginFlushTypeInv DEF FlushAll, Call, TypeInv, TypeOK
<1>4. CASE Stop(t)
  <2>1. running' \in [{"repo", "flush_task"} -> BOOLEAN]
    BY <1>4 DEF Stop, TypeInv, TypeOK
  <2>2. FramesOK'
    BY <1>4 DEF Stop, TypeInv, FramesOK, Opened
  <2> QED BY <1>4, <2>1, <2>2 DEF Stop, Call, TypeInv, TypeOK, Opened
<1>5. ASSUME NEW s \in Opened, Flush(t, s) PROVE TypeInv'
  <2>1. <<s>> \in Seq(Opened)
    OBVIOUS
  <2>2. calls' \in Nat
    BY <1>5 DEF Flush, Call, TypeInv, TypeOK
  <2> QED BY <1>1, <1>5, <2>1, <2>2, BeginFlushTypeInv DEF Flush
<1>6. ASSUME NEW s \in Opened, NEW on \in BOOLEAN,
             SetNegativeCacheEnabled(t, s, on)
      PROVE  TypeInv'
  <2>1. negOn' \in [Sessions -> BOOLEAN]
    BY <1>6 DEF SetNegativeCacheEnabled, TypeInv, TypeOK
  <2>2. FramesOK'
    BY <1>6 DEF SetNegativeCacheEnabled, TypeInv, FramesOK, Opened
  <2> QED BY <1>6, <2>1, <2>2
             DEF SetNegativeCacheEnabled, Call, TypeInv, TypeOK, Opened
<1>7. ASSUME NEW s \in Opened, NEW T \in Types,
             MarkDirty(t, s, T) \/ GetOrLoad(t, s, T)
      PROVE  TypeInv'
  <2>1. CASE MarkDirty(t, s, T)
    <3>1. dirty' \in [Sessions -> SUBSET Types]
      BY <2>1 DEF MarkDirty, TypeInv, TypeOK
    <3>2. FramesOK'
      BY <2>1 DEF MarkDirty, TypeInv, FramesOK, Opened
    <3> QED BY <2>1, <3>1, <3>2 DEF MarkDirty, Call, TypeInv, TypeOK, Opened
  <2> QED BY <1>7, <2>1, GetOrLoadTypeInv
<1>8. ASSUME NEW s \in Opened, NEW T \in Types, NEW v \in Values, Put(t, s, T, v)
      PROVE  TypeInv'
  BY <1>8, PutInsertTypeInv DEF Put, Call, TypeInv, TypeOK
<1> QED BY <1>2, <1>3, <1>4, <1>5, <1>6, <1>7, <1>8 DEF Operation

LEMMA ContinueTypeInv ==
    ASSUME TypeInv, NEW t \in Tasks, Continue(t) PROVE TypeInv'
<1>1. CASE FlushStep(t)
  BY <1>1, FlushStepTypeInv DEF Procs
<1>2. CASE PutMark(t) \/ PutIncrement(t)
  BY <1>2, PutMarkTypeInv, PutIncrementTypeInv
<1>3. CASE LoadStore(t)
  <2>1. /\ frame[t].pc = "store" /\ FrameOK(frame[t], Opened)
        /\ calls' \in Nat
    BY <1>3 DEF LoadStore, At, TypeInv, TypeOK, FramesOK, Procs
  <2>2. frame[t].s \in Opened /\ frame[t].row \in Values
    BY <2>1 DEF FrameOK, InSession, Labels
  <2> QED BY <1>3, <2>1, <2>2, PutInsertTypeInv DEF LoadStore
<1>4. CASE \/ LoadNegFlag(t) \/ LoadNegCheck(t) \/ LoadFind(t)
           \/ LoadRejected(t) \/ LoadMissFlag(t) \/ LoadNegInsert(t)
  BY <1>4, LoadTypeInv
<1> QED BY <1>1, <1>2, <1>3, <1>4 DEF Continue

LEMMA FlushTaskTypeInv ==
    ASSUME TypeInv, FlushTask PROVE TypeInv'
<1>1. Flusher \in Procs /\ lru \in Seq(Opened) /\ calls \in Nat
  BY DEF Procs, TypeInv, TypeOK
<1>2. CASE FlusherCheck
  <2>1. FrameOK(frame[Flusher], Opened) /\ frame[Flusher].pc = "check"
    BY <1>1, <1>2 DEF FlusherCheck, At, TypeInv, FramesOK
  <2>2. ASSUME NEW label \in {"sleep", "exited"}
        PROVE  FrameOK([frame[Flusher] EXCEPT !.pc = label], Opened)
    BY <2>1 DEF FrameOK, Frame, Labels, InSession, OnType
  <2>3. FrameOK([frame[Flusher] EXCEPT !.pc = "sleep"], Opened)
        /\ FrameOK([frame[Flusher] EXCEPT !.pc = "exited"], Opened)
    BY <2>2
  <2> QED BY <1>1, <1>2, <2>3, FrameStepTypeInv DEF FlusherCheck, Goto
<1>3. CASE FlusherWake
  BY <1>1, <1>3, BeginFlushTypeInv DEF FlusherWake
<1> QED BY <1>1, <1>2, <1>3, FlushStepTypeInv DEF FlushTask

LEMMA RowWriteTypeInv ==
    ASSUME TypeInv, NEW pl \in Players, NEW T \in Types,
           NEW row \in Values \cup {None}, RowWrite(pl, T, row)
    PROVE  TypeInv'
<1>1. db' \in [Players -> [Types -> Values \cup {None}]]
  BY DEF RowWrite, TypeInv, TypeOK
<1>2. FramesOK'
  BY DEF RowWrite, TypeInv, FramesOK, Opened
<1> QED BY <1>1, <1>2 DEF RowWrite, TypeInv, TypeOK, Opened

LEMMA NextTypeInv == TypeInv /\ [Next]_vars => TypeInv'
<1> SUFFICES ASSUME TypeInv, [Next]_vars PROVE TypeInv'
  OBVIOUS
<1>1. CASE UNCHANGED vars
  BY <1>1 DEF vars, TypeInv, TypeOK, FramesOK, Opened
<1>2. CASE Next
  BY <1>2, OperationTypeInv, ContinueTypeInv, FlushTaskTypeInv, RowWriteTypeInv
     DEF Next
<1> QED BY <1>1, <1>2

(* The variables keep their types: counts stay natural numbers, only        *)
(* sessions that were opened are cached or worked on.                       *)
THEOREM TypeCorrect == Spec => []TypeOK
<1>1. TypeInv => TypeOK
  BY DEF TypeInv
<1> QED BY <1>1, InitTypeInv, NextTypeInv, PTL DEF Spec

THEOREM TypeInvariance == Spec => []TypeInv
BY InitTypeInv, NextTypeInv, PTL DEF Spec

-----------------------------------------------------------------------------
(* No put is forgotten. *)

(* A process that is inside a call works on a session that was opened. *)
LEMMA InSessionOpened ==
    ASSUME TypeInv, NEW p \in Procs, frame[p].pc \in InSession
    PROVE  frame[p].s \in Opened /\ frame[p].s \in Sessions
<1>1. frame[p].s \in Opened
  BY DEF TypeInv, FramesOK, FrameOK
<1>2. Opened \subseteq Sessions
  BY DEF TypeInv, TypeOK, Opened, Sessions
<1> QED BY <1>1, <1>2

(* A step of a process that is not about to mark, and that takes no mark,   *)
(* leaves every unflushed type marked.                                      *)
LEMMA OtherStepKeepsMarks ==
    ASSUME TypeInv, UnflushedIsMarked, NEW p \in Procs, ~At(p, "mark"),
           \A q \in Procs : q # p => frame'[q] = frame[q],
           unflushed' = unflushed,
           \A s \in Sessions : dirty[s] \subseteq dirty'[s]
    PROVE  UnflushedIsMarked'
BY DEF UnflushedIsMarked, At, Procs

LEMMA PutInsertKeepsMarks ==
    ASSUME TypeInv, UnflushedIsMarked, NEW t \in Tasks, ~At(t, "mark"),
           NEW s \in Opened, NEW T, NEW v, PutInsert(t, s, T, v)
    PROVE  UnflushedIsMarked'
<1>1. t \in Procs /\ s \in Sessions
  BY DEF Procs, TypeInv, TypeOK, Opened, Sessions
<1>2. /\ frame'[t].pc = "mark" /\ frame'[t].s = s /\ frame'[t].ty = T
      /\ \A q \in Procs : q # t => frame'[q] = frame[q]
  <2>1. frame'[t] = [NoCall(t) EXCEPT !.pc = "mark", !.s = s, !.ty = T]
        /\ \A q \in Procs : q # t => frame'[q] = frame[q]
    BY <1>1 DEF PutInsert, Become, TypeInv, TypeOK
  <2>2. ASSUME NEW r \in Frame
        PROVE  LET f == [r EXCEPT !.pc = "mark", !.s = s, !.ty = T]
               IN  f.pc = "mark" /\ f.s = s /\ f.ty = T
    BY DEF Frame
  <2>3. NoCall(t) \in Frame
    BY NoCallOK DEF FrameOK
  <2> QED BY <2>1, <2>2, <2>3
<1>3. /\ unflushed'[s] = unflushed[s] \cup {T} /\ dirty' = dirty
      /\ \A x \in Sessions : x # s => unflushed'[x] = unflushed[x]
  BY <1>1 DEF PutInsert, TypeInv, TypeOK
<1> SUFFICES ASSUME NEW x \in Sessions, NEW U \in unflushed'[x], U \notin dirty[x]
             PROVE  \E u \in Tasks : /\ At(u, "mark")' /\ frame'[u].s = x
                                     /\ frame'[u].ty = U
  BY <1>3 DEF UnflushedIsMarked, At
<1>4. CASE x = s /\ U = T
  BY <1>2, <1>4 DEF At
<1>5. CASE ~(x = s /\ U = T)
  <2>1. U \in unflushed[x]
    BY <1>3, <1>5
  <2>2. PICK u \in Tasks : At(u, "mark") /\ frame[u].s = x /\ frame[u].ty = U
    BY <2>1 DEF UnflushedIsMarked
  <2> QED BY <1>2, <2>2 DEF At, Procs
<1> QED BY <1>4, <1>5

LEMMA PutMarkKeepsMarks ==
    ASSUME TypeInv, UnflushedIsMarked, NEW t \in Tasks, PutMark(t)
    PROVE  UnflushedIsMarked'
<1>1. frame[t].s \in Sessions /\ t \in Procs
  BY InSessionOpened DEF PutMark, At, InSession, Labels, Procs
<1>2. /\ \A q \in Procs : q # t => frame'[q] = frame[q]
      /\ unflushed' = unflushed
      /\ \A s \in Sessions : dirty[s] \subseteq dirty'[s]
      /\ frame[t].ty \in dirty'[frame[t].s]
  BY <1>1 DEF PutMark, Goto, Become, TypeInv, TypeOK
<1> SUFFICES ASSUME NEW s \in Sessions, NEW T \in unflushed'[s], T \notin dirty'[s]
             PROVE  \E u \in Tasks : /\ At(u, "mark")' /\ frame'[u].s = s
                                     /\ frame'[u].ty = T
  BY DEF UnflushedIsMarked, At
<1>3. PICK u \in Tasks : At(u, "mark") /\ frame[u].s = s /\ frame[u].ty = T
  BY <1>2 DEF UnflushedIsMarked
<1>4. u # t
  BY <1>2, <1>3
<1> QED BY <1>2, <1>3, <1>4 DEF At, Procs

LEMMA FlushRemoveKeepsMarks ==
    ASSUME TypeInv, UnflushedIsMarked, NEW p \in Procs, FlushRemove(p)
    PROVE  UnflushedIsMarked'
<1>1. PICK T \in frame[p].pend :
        /\ dirty' = [dirty EXCEPT ![frame[p].s] = @ \ {T}]
        /\ unflushed' = [unflushed EXCEPT ![frame[p].s] = @ \ {T}]
  BY DEF FlushRemove
<1>2. frame[p].pc = "remove" /\ \A q \in Procs : q # p => frame'[q] = frame[q]
  BY DEF FlushRemove, At, Become, TypeInv, TypeOK
<1>3. frame[p].s \in Sessions
  BY <1>2, InSessionOpened DEF InSession, Labels
<1>4. /\ \A s \in Sessions : unflushed'[s] \subseteq unflushed[s]
      /\ T \notin unflushed'[frame[p].s]
      /\ \A s \in Sessions : \A U \in dirty[s] :
           U \in dirty'[s] \/ (s = frame[p].s /\ U = T)
  BY <1>1, <1>3 DEF TypeInv, TypeOK
<1> QED BY <1>2, <1>4 DEF UnflushedIsMarked, At, Procs

LEMMA NextKeepsMarks == TypeInv /\ UnflushedIsMarked /\ [Next]_vars
                           => UnflushedIsMarked'
<1> SUFFICES ASSUME TypeInv, UnflushedIsMarked, [Next]_vars
             PROVE  UnflushedIsMarked'
  OBVIOUS
<1> USE DEF Procs
<1>0. frame \in [Procs -> Frame] /\ dirty \in [Sessions -> SUBSET Types]
  BY DEF TypeInv, TypeOK
<1>1. ASSUME NEW p \in Procs, FlushStep(p) PROVE UnflushedIsMarked'
  <2>1. CASE FlushRemove(p)
    BY <2>1, FlushRemoveKeepsMarks
  <2>2. CASE FlushCollect(p)
    BY <1>0, <2>2, OtherStepKeepsMarks DEF FlushCollect, At, Become, shared
  <2>3. CASE FlushDecrement(p)
    BY <1>0, <2>3, OtherStepKeepsMarks DEF FlushDecrement, At, Become
  <2> QED BY <1>1, <2>1, <2>2, <2>3 DEF FlushStep
<1>2. ASSUME NEW t \in Tasks, Operation(t) PROVE UnflushedIsMarked'
  <2>1. ~At(t, "mark") \/ ~At(t, "idle")
    BY DEF At
  <2>2. ASSUME NEW pl \in Players, OpenSession(t, pl) \/ CloseSession(t, pl)
        PROVE  UnflushedIsMarked'
    BY <1>0, <2>1, <2>2, OtherStepKeepsMarks
       DEF OpenSession, CloseSession, Call, StartFlush, Become
  <2>3. CASE FlushAll(t) \/ Stop(t)
    BY <1>0, <2>1, <2>3, OtherStepKeepsMarks
       DEF FlushAll, Stop, Call, StartFlush, Become, shared
  <2>4. ASSUME NEW s \in Opened, Flush(t, s) PROVE UnflushedIsMarked'
    BY <1>0, <2>1, <2>4, OtherStepKeepsMarks
       DEF Flush, Call, StartFlush, Become, shared
  <2>5. ASSUME NEW s \in Opened, NEW on \in BOOLEAN,
               SetNegativeCacheEnabled(t, s, on)
        PROVE  UnflushedIsMarked'
    BY <1>0, <2>1, <2>5, OtherStepKeepsMarks DEF SetNegativeCacheEnabled, Call
  <2>6. ASSUME NEW s \in Opened, NEW T \in Types, MarkDirty(t, s, T)
        PROVE  UnflushedIsMarked'
    BY <1>0, <2>1, <2>6, OtherStepKeepsMarks DEF MarkDirty, Call
  <2>7. ASSUME NEW s \in Opened, NEW T \in Types, GetOrLoad(t, s, T)
        PROVE  UnflushedIsMarked'
    BY <1>0, <2>1, <2>7, OtherStepKeepsMarks DEF GetOrLoad, Call, Become, shared
  <2>8. ASSUME NEW s \in Opened, NEW T \in Types, NEW v \in Values,
               Put(t, s, T, v)
        PROVE  UnflushedIsMarked'
    BY <2>1, <2>8, PutInsertKeepsMarks DEF Put, Call
  <2> QED BY <1>2, <2>2, <2>3, <2>4, <2>5, <2>6, <2>7, <2>8 DEF Operation
<1>3. ASSUME NEW t \in Tasks, Continue(t) PROVE UnflushedIsMarked'
  <2>1. CASE PutMark(t)
    BY <2>1, PutMarkKeepsMarks
  <2>2. CASE PutIncrement(t)
    BY <1>0, <2>2, OtherStepKeepsMarks DEF PutIncrement, At, Return, Become
  <2>3. CASE LoadStore(t)
    <3>1. frame[t].s \in Opened /\ ~At(t, "mark")
      BY <2>3, InSessionOpened DEF LoadStore, At, InSession, Labels
    <3> QED BY <2>3, <3>1, PutInsertKeepsMarks DEF LoadStore
  <2>4. CASE LoadNegFlag(t) \/ LoadNegCheck(t)
    BY <1>0, <2>4, OtherStepKeepsMarks
       DEF LoadNegFlag, LoadNegCheck, At, Goto, Return, Become, shared
  <2>6. CASE LoadFind(t)
    BY <1>0, <2>6, OtherStepKeepsMarks DEF LoadFind, At, Become, shared
  <2>5. CASE LoadRejected(t) \/ LoadMissFlag(t) \/ LoadNegInsert(t)
    BY <1>0, <2>5, OtherStepKeepsMarks
       DEF LoadRejected, LoadMissFlag, LoadNegInsert, At, Goto, Return, Become,
           shared
  <2> QED BY <1>1, <1>3, <2>1, <2>2, <2>3, <2>4, <2>5, <2>6 DEF Continue
<1>4. CASE FlushTask
  <2>1. CASE FlusherCheck \/ FlusherWake
    BY <1>0, <2>1, OtherStepKeepsMarks
       DEF FlusherCheck, FlusherWake, At, Goto, StartFlush, Become, shared
  <2> QED BY <1>1, <1>4, <2>1 DEF FlushTask
<1>5. ASSUME NEW pl \in Players, NEW T \in Types, NEW row \in Values \cup {None},
             RowWrite(pl, T, row)
      PROVE  UnflushedIsMarked'
  BY <1>5 DEF RowWrite, UnflushedIsMarked, At
<1>6. CASE UNCHANGED vars
  BY <1>6 DEF vars, UnflushedIsMarked, At
<1> QED BY <1>2, <1>3, <1>4, <1>5, <1>6 DEF Next

(* A put is never lost between put and flush: while its type has not been   *)
(* flushed it stays marked, in whatever order the critical sections of puts *)
(* and flushes of the same session interleave.                              *)
THEOREM MarksKept == Spec => []UnflushedIsMarked
<1>1. Init => UnflushedIsMarked
  BY DEF Init, UnflushedIsMarked
<1> QED BY <1>1, InitTypeInv, NextTypeInv, NextKeepsMarks, PTL DEF Spec

-----------------------------------------------------------------------------
(* The LRU cache. *)

\* LruOK for a sequence of sessions in general.
Ordered(q) == \A i, j \in DOMAIN q :
                 i < j => q[i] > q[j] /\ player[q[i]] # player[q[j]]

LEMMA CapacityOK == Capacity \in Nat \ {0}
BY DEF Capacity

(* pop takes one element out and keeps the order of the others. *)
LEMMA PoppedOK ==
    ASSUME TypeInv, Ordered(lru), NEW pl, Holds(pl)
    PROVE  /\ Len(Popped(pl)) = Len(lru) - 1 /\ Ordered(Popped(pl))
           /\ \A i \in DOMAIN Popped(pl) : player[Popped(pl)[i]] # pl
<1> DEFINE k == IndexOf(pl)
           q == Popped(pl)
<1>1. k \in DOMAIN lru /\ player[lru[k]] = pl
  BY DEF Holds, IndexOf
<1>2. lru \in Seq(Opened) /\ k \in 1..Len(lru) /\ Len(lru) \in Nat
  BY <1>1 DEF TypeInv, TypeOK
<1>3. /\ q \in Seq(Opened) /\ Len(q) = Len(lru) - 1 /\ DOMAIN q = 1..(Len(lru) - 1)
      /\ \A i \in 1..(Len(lru) - 1) : q[i] = IF i < k THEN lru[i] ELSE lru[i + 1]
  <2> DEFINE before == SubSeq(lru, 1, k - 1)
             after == SubSeq(lru, k + 1, Len(lru))
  <2> HIDE DEF k
  <2>1. /\ before \in Seq(Opened) /\ Len(before) = k - 1
        /\ \A i \in 1..(k - 1) : before[i] = lru[i]
    BY <1>2
  <2>2. /\ after \in Seq(Opened) /\ Len(after) = Len(lru) - k
        /\ \A i \in 1..(Len(lru) - k) : after[i] = lru[k + i]
    BY <1>2
  <2>3. q = before \o after
    BY DEF Popped, RemoveAt, k
  <2> HIDE DEF before, after, q
  <2>4. q \in Seq(Opened) /\ Len(q) = Len(lru) - 1
    <3>1. q \in Seq(Opened) /\ Len(q) = Len(before) + Len(after)
      <4>1. before \in Seq(Opened) /\ after \in Seq(Opened)
        BY <2>1, <2>2
      <4> QED BY <2>3, <4>1
    <3>2. Len(before) = k - 1 /\ Len(after) = Len(lru) - k
      BY <2>1, <2>2
    <3> QED BY <1>2, <3>1, <3>2
  <2>5. ASSUME NEW i \in 1..(Len(lru) - 1)
        PROVE  q[i] = IF i < k THEN lru[i] ELSE lru[i + 1]
    BY <1>2, <2>1, <2>2, <2>3
  <2> QED BY <1>2, <2>4, <2>5
<1> HIDE DEF k, q
<1>4. Ordered(q)
  <2> SUFFICES ASSUME NEW i \in DOMAIN q, NEW j \in DOMAIN q, i < j
               PROVE  q[i] > q[j] /\ player[q[i]] # player[q[j]]
    BY DEF Ordered
  <2> DEFINE a == IF i < k THEN i ELSE i + 1
             b == IF j < k THEN j ELSE j + 1
  <2>1. q[i] = lru[a] /\ q[j] = lru[b]
    BY <1>2, <1>3
  <2>2. a \in 1..Len(lru) /\ b \in 1..Len(lru) /\ a < b
    BY <1>2, <1>3
  <2> QED BY <1>2, <2>1, <2>2 DEF Ordered
<1>5. ASSUME NEW i \in DOMAIN q PROVE player[q[i]] # pl
  <2> DEFINE a == IF i < k THEN i ELSE i + 1
  <2>1. q[i] = lru[a] /\ a \in 1..Len(lru) /\ (a < k \/ k < a)
    BY <1>2, <1>3
  <2> QED BY <1>1, <1>2, <2>1 DEF Ordered
<1> QED BY <1>3, <1>4, <1>5 DEF q

(* put leaves room for the new session and drops the player's old one.      *)
LEMMA RoomForOK ==
    ASSUME TypeInv, LruOK, NEW pl
    PROVE  /\ RoomFor(pl) \in Seq(Opened) /\ Len(RoomFor(pl)) < Capacity
           /\ Ordered(RoomFor(pl))
           /\ \A i \in DOMAIN RoomFor(pl) : player[RoomFor(pl)[i]] # pl
<1>0. /\ lru \in Seq(Opened) /\ Len(lru) \in Nat /\ Len(lru) <= Capacity
      /\ Ordered(lru)
  BY DEF TypeInv, TypeOK, LruOK, Ordered
<1>1. RoomFor(pl) \in Seq(Opened)
  BY RoomForType
<1>2. CASE Holds(pl)
  <2>1. RoomFor(pl) = Popped(pl)
    BY <1>2 DEF RoomFor
  <2>2. Len(Popped(pl)) < Capacity
    BY <1>0, <1>2, PoppedOK, CapacityOK
  <2> QED BY <1>0, <1>1, <1>2, <2>1, <2>2, PoppedOK
<1>3. CASE ~Holds(pl) /\ Len(lru) = Capacity
  <2> DEFINE q == Front(lru)
  <2>1. Capacity >= 1
    BY CapacityOK
  <2>2. /\ Len(q) = Len(lru) - 1 /\ DOMAIN q = 1..(Len(lru) - 1)
        /\ \A i \in 1..(Len(lru) - 1) : q[i] = lru[i]
    BY <1>0, <1>3, <2>1 DEF Front
  <2> HIDE DEF q
  <2>3. Ordered(q)
    BY <1>0, <2>2 DEF Ordered
  <2>4. \A i \in DOMAIN q : player[q[i]] # pl
    BY <1>0, <1>3, <2>2 DEF Holds
  <2>6. RoomFor(pl) = q
    BY <1>3 DEF RoomFor, q
  <2>7. Len(q) < Capacity
    BY <1>0, <1>3, <2>2
  <2> QED BY <1>1, <1>3, <2>3, <2>4, <2>6, <2>7
<1>4. CASE ~Holds(pl) /\ Len(lru) # Capacity
  <2>1. Capacity \in Nat /\ Len(lru) < Capacity
    BY <1>0, <1>4, CapacityOK
  <2> QED BY <1>0, <1>1, <1>4, <2>1 DEF RoomFor, Holds, Live
<1> QED BY <1>2, <1>3, <1>4

(* The session that is opened is the newest of the cache. *)
LEMMA OpenSessionLru ==
    ASSUME TypeInv, LruOK, NEW t \in Tasks, NEW pl \in Players, OpenSession(t, pl)
    PROVE  LruOK'
<1> DEFINE q == RoomFor(pl)
           n == Len(player)
<1>1. /\ q \in Seq(Opened) /\ Len(q) < Capacity /\ Ordered(q)
      /\ \A i \in DOMAIN q : player[q[i]] # pl
  BY RoomForOK
<1> HIDE DEF q
<1>2. /\ player \in Seq(Players) /\ n \in Nat /\ Opened = 1..n /\ Len(q) \in Nat
      /\ Capacity \in Nat
  BY <1>1 DEF TypeInv, TypeOK, Opened, Capacity
<1>3. /\ player'[n + 1] = pl /\ \A s \in 1..n : player'[s] = player[s]
  BY <1>2 DEF OpenSession
<1>4. /\ Len(lru') = Len(q) + 1 /\ DOMAIN lru' = 1..(Len(q) + 1)
      /\ lru'[1] = n + 1 /\ \A i \in 1..Len(q) : lru'[i + 1] = q[i]
  BY <1>1, <1>2 DEF OpenSession, Cons, q
<1>5. \A i \in 1..Len(q) : q[i] \in 1..n
  BY <1>1, <1>2
<1>6. LruOK'
  <2>1. Len(lru') <= Capacity
    BY <1>1, <1>2, <1>4
  <2>2. ASSUME NEW i \in DOMAIN lru', NEW j \in DOMAIN lru', i < j
        PROVE  lru'[i] > lru'[j] /\ player'[lru'[i]] # player'[lru'[j]]
    <3>1. j - 1 \in 1..Len(q) /\ lru'[j] = q[j - 1]
      BY <1>2, <1>4, <2>2
    <3>2. CASE i = 1
      BY <1>1, <1>2, <1>3, <1>4, <1>5, <3>1, <3>2
    <3>3. CASE i # 1
      <4>1. i - 1 \in 1..Len(q) /\ lru'[i] = q[i - 1] /\ i - 1 < j - 1
        BY <1>2, <1>4, <2>2, <3>3
      <4>2. q[i - 1] > q[j - 1] /\ player[q[i - 1]] # player[q[j - 1]]
        BY <1>1, <3>1, <4>1 DEF Ordered
      <4> QED BY <1>3, <1>5, <3>1, <4>1, <4>2
    <3> QED BY <3>2, <3>3
  <2> QED BY <2>1, <2>2 DEF LruOK, Capacity
<1> QED BY <1>6

LEMMA CloseSessionLru ==
    ASSUME TypeInv, LruOK, NEW t \in Tasks, NEW pl \in Players, CloseSession(t, pl)
    PROVE  LruOK'
<1>1. Ordered(lru) /\ Len(lru) \in Nat /\ Len(lru) <= Capacity /\ Capacity \in Nat
  BY DEF LruOK, Ordered, TypeInv, TypeOK, Capacity
<1>2. /\ lru' = Popped(pl) /\ player' = player
      /\ Len(lru') = Len(lru) - 1 /\ Ordered(lru')
  BY <1>1, PoppedOK DEF CloseSession
<1> QED BY <1>1, <1>2 DEF LruOK, Ordered, Capacity

LEMMA NextLru == TypeInv /\ LruOK /\ [Next]_vars => LruOK'
<1> SUFFICES ASSUME TypeInv, LruOK, [Next]_vars PROVE LruOK'
  OBVIOUS
<1>1. CASE UNCHANGED <<player, lru>>
  BY <1>1 DEF LruOK
<1>2. ASSUME NEW t \in Tasks, NEW pl \in Players,
             OpenSession(t, pl) \/ CloseSession(t, pl)
      PROVE  LruOK'
  BY <1>2, OpenSessionLru, CloseSessionLru
<1>3. ASSUME NEW p, FlushStep(p) PROVE UNCHANGED <<player, lru>>
  BY <1>3 DEF FlushStep, FlushCollect, FlushRemove, FlushDecrement, shared
<1>4. ASSUME NEW t \in Tasks, Operation(t) PROVE LruOK'
  <2>1. CASE FlushAll(t) \/ Stop(t)
    BY <1>1, <2>1 DEF FlushAll, Stop, shared
  <2>2. ASSUME NEW s \in Opened, NEW T \in Types,
               MarkDirty(t, s, T) \/ GetOrLoad(t, s, T)
        PROVE  UNCHANGED <<player, lru>>
    BY <2>2 DEF MarkDirty, GetOrLoad, shared
  <2>3. ASSUME NEW s \in Opened, NEW T \in Types, NEW v \in Values, Put(t, s, T, v)
        PROVE  UNCHANGED <<player, lru>>
    BY <2>3 DEF Put, PutInsert
  <2>4. ASSUME NEW s \in Opened, Flush(t, s)
        PROVE  UNCHANGED <<player, lru>>
    BY <2>4 DEF Flush, shared
  <2>5. ASSUME NEW s \in Opened, NEW on \in BOOLEAN,
               SetNegativeCacheEnabled(t, s, on)
        PROVE  UNCHANGED <<player, lru>>
    BY <2>5 DEF SetNegativeCacheEnabled
  <2> QED BY <1>1, <1>2, <1>4, <2>1, <2>2, <2>3, <2>4, <2>5 DEF Operation
<1>5. ASSUME NEW t \in Tasks, Continue(t) PROVE UNCHANGED <<player, lru>>
  BY <1>3, <1>5
     DEF Continue, PutMark, PutIncrement, LoadNegFlag, LoadNegCheck, LoadFind,
         LoadStore, PutInsert, LoadRejected, LoadMissFlag, LoadNegInsert, shared
<1>6. CASE FlushTask
  BY <1>1, <1>3, <1>6 DEF FlushTask, FlusherCheck, FlusherWake, shared
<1>7. ASSUME NEW pl \in Players, NEW T \in Types, NEW row \in Values \cup {None},
             RowWrite(pl, T, row)
      PROVE  UNCHANGED <<player, lru>>
  BY <1>7 DEF RowWrite
<1> QED BY <1>1, <1>4, <1>5, <1>6, <1>7 DEF Next, vars

(* The cache is never over its capacity, never holds two sessions of one    *)
(* player, and is ordered by opening.                                       *)
THEOREM LruSafe == Spec => []LruOK
<1>1. Init => LruOK
  BY DEF Init, LruOK, Capacity
<1> QED BY <1>1, InitTypeInv, NextTypeInv, NextLru, PTL DEF Spec
=============================================================================
