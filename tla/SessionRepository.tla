-------------------------- MODULE SessionRepository --------------------------
(****************************************************************************)
(* The session cache of src/session.rs: a SessionRepository, the Session    *)
(* objects it has handed out, the application tasks that call them and the  *)
(* background task that flushes them.                                       *)
(*                                                                          *)
(* Every critical section of the code is one action: a lock is held only    *)
(* inside an action, and between two actions of a call any other task may   *)
(* run.  A call that reads or writes in several critical sections is a      *)
(* chain of actions linked by the task's pc.                                *)
(*                                                                          *)
(* Bounds (none is in the code): MaxOpens sessions are opened and MaxCalls  *)
(* calls are made in a behaviour.                                           *)
(****************************************************************************)
EXTENDS Integers, Sequences, FiniteSets, SequencesExt

CONSTANTS
    Players,              \* player ids
    Types,                \* entity type names
    Cacheable,            \* the types of the CacheableEntitySpec list
    Values,               \* entity contents
    None,                 \* Rust's None: no cached entity, no row
    Tasks,                \* the application's tokio tasks
    Flusher,              \* the task start_flush_task spawns
    MaxSessions,          \* EntityCacheConfig.max_sessions
    NegativeCacheEnabled, \* EntityCacheConfig.negative_cache_enabled
    FlushIntervalSet,     \* session_flush_interval_ms > 0
    FindErrors,           \* may a query fail
    RowWrites,            \* may rows change while the cache is in use
    MaxOpens, MaxCalls    \* bounds

ASSUME CacheableAssumption == Cacheable \subseteq Types
ASSUME NoneAssumption == None \notin Values
ASSUME FlusherAssumption == Flusher \notin Tasks
ASSUME NumbersAssumption ==
    MaxSessions \in Nat /\ MaxOpens \in Nat /\ MaxCalls \in Nat
ASSUME SwitchesAssumption ==
    /\ NegativeCacheEnabled \in BOOLEAN /\ FlushIntervalSet \in BOOLEAN
    /\ FindErrors \in BOOLEAN /\ RowWrites \in BOOLEAN

Sessions == 1..MaxOpens    \* Session objects, numbered as they are opened
Procs == Tasks \cup {Flusher}

\* LruCache::new: a configured 0 becomes 1000.
Capacity == IF MaxSessions = 0 THEN 1000 ELSE MaxSessions

VARIABLES
    player,     \* player[s]: the player Session object s was opened for
    lru,        \* the LruCache, most recently opened first
    entities,   \* entities[s][T]: the cached entity, or None
    dirty,      \* dirty[s]: the types marked dirty
    neg,        \* neg[s]: the types in the negative cache
    negOn,      \* negOn[s]: Session.negative_cache_enabled
    counts,     \* SessionRepository.entity_type_counts
    running,    \* the running flag of the repository and of its task's clone
    db,         \* db[p][T]: the row of player p in the table of T, or None
    unflushed,  \* history: types put since a flush last took their mark
    calls,      \* number of calls made so far
    frame       \* what each task is doing: see Frame

vars == <<player, lru, entities, dirty, neg, negOn, counts, running, db,
          unflushed, calls, frame>>

shared == <<player, lru, entities, dirty, neg, negOn, counts, running, db,
            unflushed>>

Labels == {"idle", "flush", "remove", "decrement", "mark", "increment",
           "neg_flag", "neg_check", "find", "store", "miss", "neg_insert",
           "off", "check", "sleep", "exited"}

\* pc names the next critical section; the others are the locals of the call:
\* its session, type and loaded row, the sessions and the types left to flush.
Frame == [pc : Labels, s : 0..MaxOpens, ty : Types \cup {None},
          row : Values \cup {None}, queue : Seq(Sessions), pend : SUBSET Types]

NoCall(p) == [pc |-> IF p = Flusher THEN "check" ELSE "idle",
              s |-> 0, ty |-> None, row |-> None, queue |-> <<>>, pend |-> {}]

Opened == DOMAIN player
Live == ToSet(lru)

Init ==
    /\ player = <<>>
    /\ lru = <<>>
    /\ entities = [s \in Sessions |-> [T \in Types |-> None]]
    /\ dirty = [s \in Sessions |-> {}]
    /\ neg = [s \in Sessions |-> {}]
    /\ negOn = [s \in Sessions |-> NegativeCacheEnabled]
    /\ counts = [T \in Cacheable |-> 0]
    /\ running = [f \in {"repo", "flush_task"} |-> TRUE]
    /\ db \in [Players -> [Types -> Values \cup {None}]]
    /\ unflushed = [s \in Sessions |-> {}]
    /\ calls = 0
    /\ frame = [p \in Procs |->
                  IF p = Flusher /\ ~FlushIntervalSet
                  THEN [NoCall(p) EXCEPT !.pc = "off"] ELSE NoCall(p)]

At(p, label) == frame[p].pc = label
Become(p, f) == frame' = [frame EXCEPT ![p] = f]
Goto(p, label) == Become(p, [frame[p] EXCEPT !.pc = label])
Return(p) == Become(p, NoCall(p))

\* A task that is in no call makes one.
Call(t) == At(t, "idle") /\ calls < MaxCalls /\ calls' = calls + 1

-----------------------------------------------------------------------------
(* The LRU cache: LruCache::put and LruCache::pop, keyed by player. *)

Holds(pl) == \E i \in DOMAIN lru : player[lru[i]] = pl
IndexOf(pl) == CHOOSE i \in DOMAIN lru : player[lru[i]] = pl
Popped(pl) == RemoveAt(lru, IndexOf(pl))

\* Mutant: one session too many.
RoomForTooMany(pl) == IF Holds(pl) THEN Popped(pl)
                      ELSE IF Len(lru) > Capacity THEN Front(lru)
                      ELSE lru

\* put drops the player's old session, or the one put longest ago when full.
RoomFor(pl) == IF Holds(pl) THEN Popped(pl)
               ELSE IF Len(lru) = Capacity THEN Front(lru)
               ELSE lru

\* open_session.  load_entity_type is a stub: no entity is pre-loaded.
OpenSession(t, pl) ==
    /\ Call(t)
    /\ Len(player) < MaxOpens
    /\ player' = Append(player, pl)
    /\ lru' = Cons(Len(player) + 1, RoomFor(pl))
    /\ UNCHANGED <<entities, dirty, neg, negOn, counts, running, db, unflushed,
                   frame>>

-----------------------------------------------------------------------------
(* Flushing: flush_all and close_session work through a queue of sessions,  *)
(* Session::flush through the types that were dirty when it looked.         *)

\* Where a flush goes next that has types and sessions left in f.
FlushOn(p, f) ==
    IF f.pend # {} THEN [f EXCEPT !.pc = "remove"]
    ELSE IF f.queue # <<>> THEN [f EXCEPT !.pc = "flush"]
    ELSE NoCall(p)

StartFlush(p, sessions) ==
    Become(p, FlushOn(p, [NoCall(p) EXCEPT !.queue = sessions]))

CloseSession(t, pl) ==
    /\ Call(t)
    /\ Holds(pl)
    /\ lru' = Popped(pl)
    /\ StartFlush(t, <<lru[IndexOf(pl)]>>)
    /\ UNCHANGED <<player, entities, dirty, neg, negOn, counts, running, db,
                   unflushed>>

FlushAll(t) == Call(t) /\ StartFlush(t, lru) /\ UNCHANGED shared

\* Session::flush, called by the application.
Flush(t, s) == Call(t) /\ StartFlush(t, <<s>>) /\ UNCHANGED shared

\* Mutant: a session that has left the cache meanwhile is skipped.
CollectCachedOnly(p) ==
    /\ At(p, "flush")
    /\ LET s == Head(frame[p].queue)
       IN Become(p, FlushOn(p, [frame[p] EXCEPT !.s = s,
                                  !.pend = IF s \in Live THEN dirty[s] ELSE {},
                                  !.queue = Tail(@)]))
    /\ UNCHANGED <<shared, calls>>

\* Session::flush collects the dirty types of the next session.
FlushCollect(p) ==
    /\ At(p, "flush")
    /\ LET s == Head(frame[p].queue)
       IN Become(p, FlushOn(p, [frame[p] EXCEPT !.s = s, !.pend = dirty[s],
                                                !.queue = Tail(@)]))
    /\ UNCHANGED <<shared, calls>>

\* Mutant: the whole dirty set is cleared, not the type that is flushed.
ClearDirty(p) ==
    /\ At(p, "remove")
    /\ \E T \in frame[p].pend :
         /\ dirty' = [dirty EXCEPT ![frame[p].s] = {}]
         /\ unflushed' = [unflushed EXCEPT ![frame[p].s] = @ \ {T}]
         /\ Become(p, [frame[p] EXCEPT !.pc = "decrement", !.ty = T,
                                       !.pend = @ \ {T}])
    /\ UNCHANGED <<player, lru, entities, neg, negOn, counts, running, db, calls>>

\* It takes the mark of one of them, in the order of a hash set ...
FlushRemove(p) ==
    /\ At(p, "remove")
    /\ \E T \in frame[p].pend :
         /\ dirty' = [dirty EXCEPT ![frame[p].s] = @ \ {T}]
         /\ unflushed' = [unflushed EXCEPT ![frame[p].s] = @ \ {T}]
         /\ Become(p, [frame[p] EXCEPT !.pc = "decrement", !.ty = T,
                                       !.pend = @ \ {T}])
    /\ UNCHANGED <<player, lru, entities, neg, negOn, counts, running, db, calls>>

\* Mutant: no guard against zero.
DecrementedBlindly(T) ==
    IF T \in Cacheable THEN [counts EXCEPT ![T] = @ - 1] ELSE counts

\* decrement_entity_count: no entry for an uncacheable type, no underflow.
Decremented(T) ==
    IF T \in Cacheable /\ counts[T] > 0 THEN [counts EXCEPT ![T] = @ - 1]
    ELSE counts

\* ... and decrements its count.  Nothing is written to the database.
FlushDecrement(p) ==
    /\ At(p, "decrement")
    /\ counts' = Decremented(frame[p].ty)
    /\ Become(p, FlushOn(p, [frame[p] EXCEPT !.ty = None]))
    /\ UNCHANGED <<player, lru, entities, dirty, neg, negOn, running, db,
                   unflushed, calls>>

-----------------------------------------------------------------------------
(* Session::put and mark_dirty. *)

\* The first critical section of put, which an uncacheable type never reaches.
PutInsert(t, s, T, v) ==
    /\ T \in Cacheable
    /\ entities' = [entities EXCEPT ![s][T] = v]
    /\ unflushed' = [unflushed EXCEPT ![s] = @ \cup {T}]
    /\ Become(t, [NoCall(t) EXCEPT !.pc = "mark", !.s = s, !.ty = T])
    /\ UNCHANGED <<player, lru, dirty, neg, negOn, counts, running, db>>

Put(t, s, T, v) == Call(t) /\ PutInsert(t, s, T, v)

PutMark(t) ==
    /\ At(t, "mark")
    /\ dirty' = [dirty EXCEPT ![frame[t].s] = @ \cup {frame[t].ty}]
    /\ Goto(t, "increment")
    /\ UNCHANGED <<player, lru, entities, neg, negOn, counts, running, db,
                   unflushed, calls>>

\* increment_entity_count: no limit is consulted.
PutIncrement(t) ==
    /\ At(t, "increment")
    /\ counts' = [counts EXCEPT ![frame[t].ty] = @ + 1]
    /\ Return(t)
    /\ UNCHANGED <<player, lru, entities, dirty, neg, negOn, running, db,
                   unflushed, calls>>

\* mark_dirty checks neither that T is cacheable nor that it is cached.
MarkDirty(t, s, T) ==
    /\ Call(t)
    /\ dirty' = [dirty EXCEPT ![s] = @ \cup {T}]
    /\ UNCHANGED <<player, lru, entities, neg, negOn, counts, running, db,
                   unflushed, frame>>

-----------------------------------------------------------------------------
(* Session::get_or_load *)

\* get misses; a hit returns the cached entity and changes nothing.
GetOrLoad(t, s, T) ==
    /\ Call(t)
    /\ entities[s][T] = None
    /\ Become(t, [NoCall(t) EXCEPT !.pc = "neg_flag", !.s = s, !.ty = T])
    /\ UNCHANGED shared

LoadNegFlag(t) ==
    /\ At(t, "neg_flag")
    /\ Goto(t, IF negOn[frame[t].s] THEN "neg_check" ELSE "find")
    /\ UNCHANGED <<shared, calls>>

\* A negative hit returns Ok(None).
LoadNegCheck(t) ==
    /\ At(t, "neg_check")
    /\ IF frame[t].ty \in neg[frame[t].s] THEN Return(t) ELSE Goto(t, "find")
    /\ UNCHANGED <<shared, calls>>

\* find_by_id(..).ok(): an error is a None like a missing row.
Found(pl, T) == {db[pl][T]} \cup (IF FindErrors THEN {None} ELSE {})

LoadFind(t) ==
    /\ At(t, "find")
    /\ \E row \in Found(player[frame[t].s], frame[t].ty) :
         Become(t, [frame[t] EXCEPT !.row = row,
                                    !.pc = IF row = None THEN "miss" ELSE "store"])
    /\ UNCHANGED <<shared, calls>>

\* The loaded row goes through put, whatever the slot holds by now.
LoadStore(t) ==
    /\ At(t, "store")
    /\ PutInsert(t, frame[t].s, frame[t].ty, frame[t].row)
    /\ UNCHANGED calls

\* put refuses the row of an uncacheable type and get_or_load fails.
LoadRejected(t) ==
    /\ At(t, "store")
    /\ frame[t].ty \notin Cacheable
    /\ Return(t)
    /\ UNCHANGED <<shared, calls>>

LoadMissFlag(t) ==
    /\ At(t, "miss")
    /\ IF negOn[frame[t].s] THEN Goto(t, "neg_insert") ELSE Return(t)
    /\ UNCHANGED <<shared, calls>>

LoadNegInsert(t) ==
    /\ At(t, "neg_insert")
    /\ neg' = [neg EXCEPT ![frame[t].s] = @ \cup {frame[t].ty}]
    /\ Return(t)
    /\ UNCHANGED <<player, lru, entities, dirty, negOn, counts, running, db,
                   unflushed, calls>>

SetNegativeCacheEnabled(t, s, on) ==
    /\ Call(t)
    /\ negOn[s] # on
    /\ negOn' = [negOn EXCEPT ![s] = on]
    /\ UNCHANGED <<player, lru, entities, dirty, neg, counts, running, db,
                   unflushed, frame>>

-----------------------------------------------------------------------------
(* The background flush task, stop, and the database. *)

\* stop stores to the repository's own flag.
Stop(t) ==
    /\ Call(t)
    /\ running["repo"]
    /\ running' = [running EXCEPT !["repo"] = FALSE]
    /\ UNCHANGED <<player, lru, entities, dirty, neg, negOn, counts, db,
                   unflushed, frame>>

\* The task reads the flag of the clone it was given, whose flag is its own.
FlusherCheck ==
    /\ At(Flusher, "check")
    /\ Goto(Flusher, IF running["flush_task"] THEN "sleep" ELSE "exited")
    /\ UNCHANGED <<shared, calls>>

\* Mutant: the oldest session is left out.
WakeAllButOldest ==
    /\ At(Flusher, "sleep")
    /\ StartFlush(Flusher, Front(lru))
    /\ UNCHANGED <<shared, calls>>

FlusherWake ==
    /\ At(Flusher, "sleep")
    /\ StartFlush(Flusher, lru)
    /\ UNCHANGED <<shared, calls>>

\* A row is inserted, changed or deleted: Db::save, or another server.
RowWrite(pl, T, row) ==
    /\ RowWrites
    /\ db' = [db EXCEPT ![pl][T] = row]
    /\ UNCHANGED <<player, lru, entities, dirty, neg, negOn, counts, running,
                   unflushed, calls, frame>>

-----------------------------------------------------------------------------

Operation(t) ==
    \/ \E pl \in Players : OpenSession(t, pl) \/ CloseSession(t, pl)
    \/ FlushAll(t) \/ Stop(t)
    \/ \E s \in Opened :
         \/ Flush(t, s)
         \/ \E on \in BOOLEAN : SetNegativeCacheEnabled(t, s, on)
         \/ \E T \in Types : MarkDirty(t, s, T) \/ GetOrLoad(t, s, T)
         \/ \E T \in Types, v \in Values : Put(t, s, T, v)

FlushStep(p) == FlushCollect(p) \/ FlushRemove(p) \/ FlushDecrement(p)

\* The steps that continue a call a task has begun.
Continue(t) ==
    \/ FlushStep(t)
    \/ PutMark(t) \/ PutIncrement(t)
    \/ LoadNegFlag(t) \/ LoadNegCheck(t) \/ LoadFind(t) \/ LoadStore(t)
    \/ LoadRejected(t) \/ LoadMissFlag(t) \/ LoadNegInsert(t)

FlushTask == FlusherCheck \/ FlusherWake \/ FlushStep(Flusher)

Next ==
    \/ \E t \in Tasks : Operation(t) \/ Continue(t)
    \/ FlushTask
    \/ \E pl \in Players, T \in Types, row \in Values \cup {None} :
         RowWrite(pl, T, row)

Spec == Init /\ [][Next]_vars

\* tokio polls every task again and sleep ends: a task that is inside a call
\* goes on, and the flush task goes round.  No call has to be made.
Fairness == WF_vars(FlushTask) /\ \A t \in Tasks : WF_vars(Continue(t))

FairSpec == Spec /\ Fairness

-----------------------------------------------------------------------------
(* Properties *)

(* Every variable keeps its shape; in particular a count never goes below   *)
(* zero (decrement_entity_count, a usize), and only cacheable types have    *)
(* one.                                                                     *)
TypeOK ==
    /\ player \in Seq(Players) /\ Len(player) <= MaxOpens
    /\ lru \in Seq(Opened)
    /\ entities \in [Sessions -> [Types -> Values \cup {None}]]
    /\ dirty \in [Sessions -> SUBSET Types]
    /\ neg \in [Sessions -> SUBSET Types]
    /\ negOn \in [Sessions -> BOOLEAN]
    /\ counts \in [Cacheable -> Nat]
    /\ running \in [{"repo", "flush_task"} -> BOOLEAN]
    /\ db \in [Players -> [Types -> Values \cup {None}]]
    /\ unflushed \in [Sessions -> SUBSET Types]
    /\ calls \in Nat
    /\ frame \in [Procs -> Frame]

(* The LRU cache never holds more sessions than its capacity, holds one per *)
(* player, and lists them newest first: nothing but open_session touches    *)
(* the order.                                                               *)
LruOK ==
    /\ Len(lru) <= Capacity
    /\ \A i, j \in DOMAIN lru :
         i < j => lru[i] > lru[j] /\ player[lru[i]] # player[lru[j]]

(* No put is forgotten: a type whose cached entity was put after the last   *)
(* flush took its mark is marked dirty, or the put is just about to mark    *)
(* it.  Flushes of the same session by other tasks, between any two of the  *)
(* critical sections of put and flush, do not lose it.                      *)
UnflushedIsMarked ==
    \A s \in Sessions : \A T \in unflushed[s] :
       \/ T \in dirty[s]
       \/ \E t \in Tasks : At(t, "mark") /\ frame[t].s = s /\ frame[t].ty = T

(* A flush that has begun reaches every session it collected: whatever is   *)
(* dirty in a session that is waiting in a flush (of close_session, of      *)
(* flush_all or of the flush task) is eventually taken, even if other tasks *)
(* go on marking and flushing.                                              *)
QueuedIsFlushed ==
    \A s \in Sessions, T \in Types :
       (T \in dirty[s] /\ \E p \in Procs : s \in ToSet(frame[p].queue))
         ~> T \notin dirty[s]

(* With a flush interval, a mark in a session of the cache is eventually    *)
(* taken without any call of the application, unless the session leaves the *)
(* cache first or the repository is stopped.                                *)
DirtyIsFlushed ==
    \A s \in Sessions, T \in Types :
       (T \in dirty[s] /\ s \in Live)
         ~> (T \notin dirty[s] \/ s \notin Live \/ ~running["repo"])

(* close_session and Session say that a flush persists the dirty entities:  *)
(* when no put or flush is under way and no one else writes rows, a cached  *)
(* entity that is not dirty is the row of the database.                     *)
FlushWritesBack ==
    (\A p \in Procs : frame[p].pc \in {"idle", "sleep", "check", "off"}) =>
       \A s \in Opened, T \in Cacheable :
          entities[s][T] # None /\ T \notin dirty[s] =>
             entities[s][T] = db[player[s]][T]

(* get_or_load says that it queries the database for an entity that is not  *)
(* cached: the row it then stores never replaces an entity that was put     *)
(* while the query ran.                                                     *)
LoadNeverReplaces ==
    [][\A t \in Tasks :
         At(t, "store") /\ ~At(t, "store")' =>
            entities[frame[t].s][frame[t].ty] = None]_vars
=============================================================================
