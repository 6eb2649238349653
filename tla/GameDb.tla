------------------------------- MODULE GameDb -------------------------------
(****************************************************************************)
(* The life of a game database in src/db.rs: one Db with enable_wal and     *)
(* init_game_db, its clones, the session repositories it has made with      *)
(* their flush tasks, and close.                                            *)
(*                                                                          *)
(* The parts are as SessionRepository and LocalWriteJournal have them, seen *)
(* from outside: a session is in the cache of its repository or has left it *)
(* and is only held by tasks, it has marks or not, a flush takes the marks  *)
(* of a session at a time, and a journal records or has been stopped.       *)
(* Bounds: MaxInits repositories, and MaxCalls calls of save, stop, close   *)
(* and close_session.                                                       *)
(****************************************************************************)
EXTENDS Integers, Sequences, SequencesExt

CONSTANTS
    Tasks,     \* use the Db, its clones and the repositories
    Sessions,  \* the Session objects that the repositories can open
    Configs,   \* what performance_config_path leads to: [loads, journal, flush]
    MaxInits, MaxCalls

ASSUME GameDbAssumption ==
    /\ Configs \subseteq [loads : BOOLEAN, journal : BOOLEAN, flush : BOOLEAN]
    /\ MaxInits \in Nat /\ MaxCalls \in Nat

VARIABLES
    wal,      \* Db.write_journal: "none", "open" or "stopped"
    current,  \* Db.session_repo; 0 is None
    repos,    \* the repositories that were made
    clones,   \* the session_repo of each clone of the Db
    frame,    \* what each task does
    closed,   \* history: has a close of the Db itself begun?
    calls

vars == <<wal, current, repos, clones, frame, closed, calls>>

\* before is the repository its own clone of the Db has; cached are the
\* sessions in the cache, out those that were closed, replaced or evicted;
\* left are the sessions the flush task has still to flush.  running is the
\* flag that stop sets: the flush task reads that of its own clone.
Repo == [flush : BOOLEAN, running : BOOLEAN, before : Nat, cached : SUBSET Sessions,
         out : SUBSET Sessions, dirty : SUBSET Sessions, left : SUBSET Sessions]
NewRepo(flush, before) ==
    [flush |-> flush, running |-> TRUE, before |-> before, cached |-> {},
     out |-> {}, dirty |-> {}, left |-> {}]

\* main says whether the call is of the Db itself; a close, of the Db or of a
\* session, flushes the sessions left of repo; owed are the marks it found that
\* were not taken yet, and unlogged says that the journal has not recorded the
\* write.
Frame == [pc : {"idle", "exec", "record", "session", "flush", "stop"}, main : BOOLEAN,
          repo : Nat, left : SUBSET Sessions, owed : SUBSET Sessions,
          unlogged : BOOLEAN]
NoFrame == [pc |-> "idle", main |-> TRUE, repo |-> 0, left |-> {}, owed |-> {},
            unlogged |-> FALSE]

Init ==
    /\ wal = "none" /\ current = 0 /\ repos = <<>> /\ clones = {}
    /\ frame = [t \in Tasks |-> NoFrame]
    /\ closed = FALSE /\ calls = 0

\* &mut self: no call of the Db itself is under way.
Exclusive == \A t \in Tasks : frame[t].pc # "idle" => ~frame[t].main

-----------------------------------------------------------------------------
(* Setting up *)

\* A Db that has a journal keeps it, stopped or not.
Enabled == IF wal = "none" THEN "open" ELSE wal

EnableWal ==
    /\ Exclusive
    /\ wal' = Enabled
    /\ UNCHANGED <<current, repos, clones, frame, closed, calls>>

\* Mutants: the flush task of the repository before is aborted; the clone of
\* the new repository has the new repository.
MakeRepoAlone(flush) ==
    /\ repos' = Append([k \in DOMAIN repos |-> [repos[k] EXCEPT !.flush = FALSE]],
                       NewRepo(flush, current))
    /\ clones' = clones \cup {current}
    /\ current' = Len(repos')
MakeRepoLast(flush) ==
    /\ repos' = Append(repos, NewRepo(flush, Len(repos) + 1))
    /\ clones' = clones \cup {Len(repos')}
    /\ current' = Len(repos')

\* SessionRepository::new with a clone of the Db, made before session_repo is
\* set.  The repositories before go on as they are.
MakeRepo(flush) ==
    /\ repos' = Append(repos, NewRepo(flush, current))
    /\ clones' = clones \cup {current}
    /\ current' = Len(repos')

\* A configuration that does not load, say for a field it lacks, ends the call
\* before anything has changed, and so does a journal that cannot be made.
InitGameDb(c) ==
    /\ Exclusive /\ Len(repos) < MaxInits
    /\ c.loads
    /\ wal' = (IF c.journal THEN Enabled ELSE wal)
    /\ MakeRepo(c.flush)
    /\ UNCHANGED <<frame, closed, calls>>

\* Clone for Db: without the journal.
Clone ==
    /\ clones' = clones \cup {current}
    /\ UNCHANGED <<wal, current, repos, frame, closed, calls>>

-----------------------------------------------------------------------------
(* Sessions, of any repository, also of one that was replaced.              *)

\* The session is put in the cache; one may leave for it, the one before of
\* the player or the last of a cache that is full, without a flush.
OpenSession(k, s, gone) ==
    /\ \A r \in Range(repos) : s \notin r.cached \cup r.out
    /\ repos' = [repos EXCEPT ![k].cached = (@ \ gone) \cup {s}, ![k].out = @ \cup gone]
    /\ UNCHANGED <<wal, current, clones, frame, closed, calls>>

Put(k, s) ==
    /\ s \in repos[k].cached \cup repos[k].out
    /\ repos' = [repos EXCEPT ![k].dirty = @ \cup {s}]
    /\ UNCHANGED <<wal, current, clones, frame, closed, calls>>

\* The marks that others took are no longer owed to the closes of repository k.
Owed(k, s) ==
    [t \in Tasks |-> IF frame[t].repo = k THEN [frame[t] EXCEPT !.owed = @ \ {s}]
                     ELSE frame[t]]

TakeMark(k, s) == repos' = [repos EXCEPT ![k].dirty = @ \ {s}]

\* close_session: the session leaves the cache and is then flushed.
CloseSession(t, k, s) ==
    /\ frame[t].pc = "idle" /\ calls < MaxCalls
    /\ s \in repos[k].cached
    /\ calls' = calls + 1
    /\ repos' = [repos EXCEPT ![k].cached = @ \ {s}, ![k].out = @ \cup {s}]
    /\ frame' = [frame EXCEPT ![t] =
                   [NoFrame EXCEPT !.pc = "session", !.main = FALSE,
                                   !.repo = k, !.left = {s}]]
    /\ UNCHANGED <<wal, current, clones, closed>>

SessionFlushes(t, s) ==
    /\ frame[t].pc = "session" /\ s \in frame[t].left
    /\ TakeMark(frame[t].repo, s)
    /\ frame' = [Owed(frame[t].repo, s) EXCEPT ![t] = NoFrame]
    /\ UNCHANGED <<wal, current, clones, closed, calls>>

StopRepo(k) ==
    /\ calls < MaxCalls /\ calls' = calls + 1
    /\ repos' = [repos EXCEPT ![k].running = FALSE]
    /\ UNCHANGED <<wal, current, clones, frame, closed>>

-----------------------------------------------------------------------------
(* The flush task: flush_all is of the sessions in the cache as it begins.  *)

TaskWakes(k) ==
    /\ repos[k].flush /\ repos[k].left = {}
    /\ repos' = [repos EXCEPT ![k].left = repos[k].cached]
    /\ UNCHANGED <<wal, current, clones, frame, closed, calls>>

TaskFlushes(k, s) ==
    /\ repos[k].flush /\ s \in repos[k].left
    /\ repos' = [repos EXCEPT ![k].dirty = @ \ {s}, ![k].left = @ \ {s}]
    /\ frame' = Owed(k, s)
    /\ UNCHANGED <<wal, current, clones, closed, calls>>

-----------------------------------------------------------------------------
(* Writes *)

\* save or update with the Db itself or with a clone.
Save(t, main) ==
    /\ frame[t].pc = "idle" /\ calls < MaxCalls
    /\ main \/ clones # {}
    /\ calls' = calls + 1
    /\ frame' = [frame EXCEPT ![t] = [NoFrame EXCEPT !.pc = "exec", !.main = main]]
    /\ UNCHANGED <<wal, current, repos, clones, closed>>

Exec(t) ==
    /\ frame[t].pc = "exec"
    /\ frame' = [frame EXCEPT ![t].pc = IF frame[t].main /\ wal # "none"
                                        THEN "record" ELSE "idle"]
    /\ UNCHANGED <<wal, current, repos, clones, closed, calls>>

\* A journal that was stopped answers Ok and records nothing.
Record(t) ==
    /\ frame[t].pc = "record"
    /\ frame' = [frame EXCEPT ![t].pc = "idle", ![t].unlogged = wal = "stopped"]
    /\ UNCHANGED <<wal, current, repos, clones, closed, calls>>

-----------------------------------------------------------------------------
(* close of the Db itself or of a clone, whose repository is k *)

Close(t, main, k) ==
    /\ frame[t].pc = "idle" /\ calls < MaxCalls
    /\ IF main THEN k = current ELSE k \in clones
    /\ calls' = calls + 1
    /\ frame' = [frame EXCEPT ![t] =
                   [NoFrame EXCEPT
                      !.pc = IF k = 0 THEN "stop" ELSE "flush", !.main = main,
                      !.repo = k, !.left = IF k = 0 THEN {} ELSE repos[k].cached,
                      !.owed = IF k = 0 THEN {} ELSE repos[k].dirty \cap repos[k].cached]]
    /\ closed' = (closed \/ main)
    /\ UNCHANGED <<wal, current, repos, clones>>

CloseFlushes(t, s) ==
    /\ frame[t].pc = "flush" /\ s \in frame[t].left
    /\ TakeMark(frame[t].repo, s)
    /\ frame' = [Owed(frame[t].repo, s) EXCEPT ![t].left = @ \ {s}]
    /\ UNCHANGED <<wal, current, clones, closed, calls>>

\* Mutant: the journal is stopped as soon as the flush has begun.
EndFlushEarly(t) == frame[t].pc = "flush"

\* flush_all is over.
EndFlush(t) == frame[t].pc = "flush" /\ frame[t].left = {}

CloseFlushed(t) ==
    /\ EndFlush(t)
    /\ frame' = [frame EXCEPT ![t].pc = "stop"]
    /\ UNCHANGED <<wal, current, repos, clones, closed, calls>>

\* Mutants: a clone stops the journal of the Db; close waits for the flush task.
StopShared(t) == wal' = (IF wal = "open" THEN "stopped" ELSE wal)
StopJoins(t) ==
    /\ \A k \in DOMAIN repos : ~repos[k].flush
    /\ wal' = (IF frame[t].main /\ wal = "open" THEN "stopped" ELSE wal)

\* A clone has no journal to stop.
Stop(t) == wal' = (IF frame[t].main /\ wal = "open" THEN "stopped" ELSE wal)

\* stop, which has stopped the journal even if it fails; the pool is only told.
CloseStops(t) ==
    /\ frame[t].pc = "stop"
    /\ Stop(t)
    /\ frame' = [frame EXCEPT ![t] = NoFrame]
    /\ UNCHANGED <<current, repos, clones, closed, calls>>

-----------------------------------------------------------------------------

FlushTask(k) == TaskWakes(k) \/ \E s \in Sessions : TaskFlushes(k, s)
Continue(t) ==
    \/ Exec(t) \/ Record(t) \/ CloseFlushed(t) \/ CloseStops(t)
    \/ \E s \in Sessions : SessionFlushes(t, s) \/ CloseFlushes(t, s)

Next ==
    \/ EnableWal \/ Clone \/ \E c \in Configs : InitGameDb(c)
    \/ \E k \in DOMAIN repos :
         \/ FlushTask(k) \/ StopRepo(k)
         \/ \E s \in Sessions : Put(k, s)
         \/ \E s \in Sessions : \E gone \in {{}} \cup {{c} : c \in repos[k].cached} :
              OpenSession(k, s, gone)
    \/ \E t \in Tasks :
         \/ Continue(t)
         \/ \E k \in DOMAIN repos, s \in Sessions : CloseSession(t, k, s)
         \/ \E main \in BOOLEAN :
              Save(t, main) \/ \E k \in 0..Len(repos) : Close(t, main, k)

Spec == Init /\ [][Next]_vars

\* tokio polls the calls of the tasks and wakes the flush tasks.
FairSpec ==
    /\ Spec
    /\ \A t \in Tasks : WF_vars(Continue(t))
    /\ \A k \in 1..MaxInits : WF_vars(k \in DOMAIN repos /\ FlushTask(k))

-----------------------------------------------------------------------------
(* Properties *)

(* Every variable keeps its shape; a repository has an earlier one in its   *)
(* clone of the Db, never itself, and a close flushes one that was made.    *)
TypeOK ==
    /\ wal \in {"none", "open", "stopped"} /\ closed \in BOOLEAN
    /\ calls \in Nat
    /\ repos \in Seq(Repo) /\ current \in 0..Len(repos)
    /\ \A k \in DOMAIN repos : repos[k].before < k
    /\ clones \subseteq 0..Len(repos)
    /\ frame \in [Tasks -> Frame]
    /\ \A t \in Tasks :
         /\ frame[t].repo \in 0..Len(repos)
         /\ frame[t].pc \in {"session", "flush"} => frame[t].repo # 0

(* Until a close of the Db itself has begun, every write through the Db     *)
(* finds its journal recording, whatever its clones do, close included.     *)
LoggedUntilClosed ==
    /\ wal = "stopped" => closed
    /\ \A t \in Tasks : frame[t].unlogged => closed

(* A close has the marks taken that the cached sessions of its repository   *)
(* had when it began, before it stops the journal, although others put,     *)
(* flush, open and close sessions, which then may have left the cache.      *)
CloseFlushesFirst == \A t \in Tasks : frame[t].pc = "stop" => frame[t].owed = {}

(* In a repository with a flush task, the mark of a session in the cache is *)
(* taken in the end, unless the session leaves the cache or the repository  *)
(* is stopped; also when init_game_db has replaced it, and after close.     *)
Marked(k, s) ==
    /\ k \in DOMAIN repos /\ repos[k].flush /\ repos[k].running
    /\ s \in repos[k].dirty \cap repos[k].cached
MarksTaken ==
    \A k \in 1..MaxInits, s \in Sessions :
       Marked(k, s) ~>
          \/ k \in DOMAIN repos /\ s \notin repos[k].dirty \cap repos[k].cached
          \/ k \in DOMAIN repos /\ ~repos[k].running

(* close and the writes return: close does not wait for the flush tasks,    *)
(* which never end.                                                         *)
CallsReturn == \A t \in Tasks : frame[t].pc # "idle" ~> frame[t].pc = "idle"
=============================================================================
