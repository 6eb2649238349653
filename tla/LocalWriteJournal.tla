-------------------------- MODULE LocalWriteJournal --------------------------
(****************************************************************************)
(* The journal of src/wal.rs: tasks that record writes through one locked   *)
(* BufWriter, the journal file, crashes of the program, power failures and  *)
(* the opening of the file again.                                           *)
(*                                                                          *)
(* The line of an entry is two halves of its JSON object and a newline.     *)
(* They reach the file one after the other: a write may be short, and of a  *)
(* line that is larger than the buffer the object and the newline are       *)
(* written separately.  A caller never records an entry twice, so that an   *)
(* entry stands for one call of record_write.                               *)
(*                                                                          *)
(* Bound: the program goes down at most MaxCrashes times.                   *)
(****************************************************************************)
EXTENDS Integers, Sequences, FiniteSets, SequencesExt

CONSTANTS
    Entries,        \* the writes that may be recorded
    Large,          \* those whose line is at least as large as the buffer
    None,
    Tasks,
    IoErrors,       \* may writing to the file fail
    PowerFailures,  \* may power fail
    MaxCrashes

ASSUME EntriesAssumption == Large \subseteq Entries /\ None \notin Entries
ASSUME TasksAssumption == None \notin Tasks
ASSUME JournalSwitches ==
    IoErrors \in BOOLEAN /\ PowerFailures \in BOOLEAN /\ MaxCrashes \in Nat

VARIABLES
    file,      \* journal.ndjson, as every process of the machine reads it
    durable,   \* the length of it that is on the disk
    buf,       \* the BufWriter's buffer
    running,   \* LocalWriteJournal.running
    up,        \* is the program up
    holder,    \* the task that holds the writer's mutex, or None
    pc, cur,   \* each task's next step and the entry it records
    begun,     \* history: entries record_write was called for
    acked,     \* history: entries it recorded and returned Ok for
    lost,      \* history: entries a power failure took from the file
    torn,      \* history: part of a line was left in the file for good
    crashes

vars == <<file, durable, buf, running, up, holder, pc, cur, begun, acked, lost,
          torn, crashes>>

Part == [e : Entries, part : {"head", "rest", "newline"}]
Piece(e, p) == [e |-> e, part |-> p]

Object(e) == <<Piece(e, "head"), Piece(e, "rest")>>

\* Mutant: write! instead of writeln!.
NoNewline(e) == Object(e)

Line(e) == Object(e) \o <<Piece(e, "newline")>>

Init ==
    /\ file = <<>> /\ durable = 0 /\ buf = <<>>
    /\ running = TRUE /\ up = TRUE /\ holder = None
    /\ pc = [t \in Tasks |-> "idle"] /\ cur = [t \in Tasks |-> None]
    /\ begun = {} /\ acked = {} /\ lost = {} /\ torn = FALSE /\ crashes = 0

history == <<begun, acked, lost, torn, crashes>>

\* A call returns and its guard of the mutex is dropped.
Return(t) ==
    /\ pc' = [pc EXCEPT ![t] = "idle"]
    /\ cur' = [cur EXCEPT ![t] = None]
    /\ holder' = None

-----------------------------------------------------------------------------
(* record_write *)

\* A journal that has been stopped answers Ok and records nothing.
Record(t, e) ==
    /\ up /\ pc[t] = "idle"
    /\ e \notin begun
    /\ begun' = begun \cup {e}
    /\ IF running
       THEN pc' = [pc EXCEPT ![t] = "lock"] /\ cur' = [cur EXCEPT ![t] = e]
       ELSE UNCHANGED <<pc, cur>>
    /\ UNCHANGED <<file, durable, buf, running, up, holder, acked, lost, torn,
                   crashes>>

\* Mutant: the writer is not behind a mutex.
RecordUnlocked(t) ==
    /\ pc[t] = "lock"
    /\ holder' = t
    /\ buf' = buf \o Line(cur[t])
    /\ pc' = [pc EXCEPT ![t] = "flush"]
    /\ UNCHANGED <<file, durable, running, up, cur, history>>

\* The mutex is taken and the line follows what the buffer still holds.
RecordLock(t) ==
    /\ pc[t] = "lock" /\ holder = None
    /\ holder' = t
    /\ buf' = buf \o Line(cur[t])
    /\ pc' = [pc EXCEPT ![t] = "flush"]
    /\ UNCHANGED <<file, durable, running, up, cur, history>>

Flushing(t) == pc[t] \in {"flush", "stop_flush"}

WritePiece(t) ==
    /\ Flushing(t) /\ buf # <<>>
    /\ file' = Append(file, Head(buf))
    /\ buf' = Tail(buf)
    /\ UNCHANGED <<durable, running, up, holder, pc, cur, history>>

\* Mutant: the buffer is not flushed.
DoneUnflushed(t) ==
    /\ pc[t] = "flush"
    /\ acked' = acked \cup {cur[t]}
    /\ Return(t)
    /\ UNCHANGED <<file, durable, buf, running, up, begun, lost, torn, crashes>>

RecordDone(t) ==
    /\ pc[t] = "flush" /\ buf = <<>>
    /\ acked' = acked \cup {cur[t]}
    /\ Return(t)
    /\ UNCHANGED <<file, durable, buf, running, up, begun, lost, torn, crashes>>

\* Mutant: the mutex stays locked after an error.
FailLocked(t) ==
    /\ IoErrors
    /\ Flushing(t) /\ buf # <<>>
    /\ pc' = [pc EXCEPT ![t] = "idle"] /\ cur' = [cur EXCEPT ![t] = None]
    /\ UNCHANGED <<file, durable, buf, running, up, holder, history>>

\* Writing to the file fails: the call returns an error and the BufWriter
\* keeps what it has not written.
FlushFail(t) ==
    /\ IoErrors
    /\ Flushing(t) /\ buf # <<>>
    /\ pc[t] = "flush" /\ cur[t] \in Large =>
          Head(buf) = Piece(cur[t], "newline")
    /\ Return(t)
    /\ UNCHANGED <<file, durable, buf, running, up, history>>

\* It fails before the line is in the buffer: while the buffer is emptied to
\* make room for it, or while a large object is written past the buffer.
WriteFail(t) ==
    /\ IoErrors
    /\ pc[t] = "flush" /\ buf # <<>>
    /\ \/ Head(buf).e # cur[t]
       \/ cur[t] \in Large /\ Head(buf).part # "newline"
    /\ \E n \in 0..Len(buf) :
         /\ \A i \in DOMAIN buf : buf[i].e = cur[t] <=> i > n
         /\ buf' = SubSeq(buf, 1, n)
    /\ torn' = (torn \/ Head(buf) = Piece(cur[t], "rest"))
    /\ Return(t)
    /\ UNCHANGED <<file, durable, running, up, begun, acked, lost, crashes>>

-----------------------------------------------------------------------------
(* stop *)

\* Stopping again flushes again.
Stop(t) ==
    /\ up /\ pc[t] = "idle"
    /\ running' = FALSE
    /\ pc' = [pc EXCEPT ![t] = "stop_lock"]
    /\ UNCHANGED <<file, durable, buf, up, holder, cur, history>>

StopLock(t) ==
    /\ pc[t] = "stop_lock" /\ holder = None
    /\ holder' = t
    /\ pc' = [pc EXCEPT ![t] = "stop_flush"]
    /\ UNCHANGED <<file, durable, buf, running, up, cur, history>>

StopDone(t) ==
    /\ pc[t] = "stop_flush" /\ buf = <<>>
    /\ Return(t)
    /\ UNCHANGED <<file, durable, buf, running, up, history>>

-----------------------------------------------------------------------------
(* Crashes.  Nothing in the code syncs the file: the operating system       *)
(* writes it back when it likes.                                            *)

NewlineOf(f) == {e \in Entries : Contains(f, Piece(e, "newline"))}
Logged == NewlineOf(file)

\* Does f end within a line?
EndsTorn(f) == f # <<>> /\ Last(f).part # "newline"

GoDown ==
    /\ up /\ crashes < MaxCrashes
    /\ up' = FALSE /\ running' = FALSE /\ holder' = None
    /\ buf' = <<>>
    /\ pc' = [t \in Tasks |-> "idle"] /\ cur' = [t \in Tasks |-> None]
    /\ crashes' = crashes + 1
    /\ torn' = (torn \/ EndsTorn(file'))
    /\ UNCHANGED <<begun, acked>>

Crash == UNCHANGED <<file, durable, lost>> /\ GoDown

WriteBack ==
    /\ PowerFailures /\ durable < Len(file)
    /\ durable' = Len(file)
    /\ UNCHANGED <<file, buf, running, up, holder, pc, cur, history>>

PowerFail ==
    /\ PowerFailures
    /\ \E n \in durable..Len(file) : file' = SubSeq(file, 1, n)
    /\ lost' = lost \cup (Logged \ NewlineOf(file'))
    /\ GoDown
    /\ UNCHANGED durable

\* Mutant: the file is created anew.
RestartTruncating ==
    /\ ~up
    /\ up' = TRUE /\ running' = TRUE
    /\ file' = <<>> /\ durable' = 0
    /\ UNCHANGED <<buf, holder, pc, cur, history>>

\* LocalWriteJournal::new opens the file for appending, whatever it ends with.
Restart ==
    /\ ~up
    /\ up' = TRUE /\ running' = TRUE
    /\ UNCHANGED <<file, durable, buf, holder, pc, cur, history>>

-----------------------------------------------------------------------------
(* replay *)

\* The first piece of each line, and the line that starts there.
LineStarts(f) == {i \in DOMAIN f : i = 1 \/ f[i - 1].part = "newline"}
LineAt(f, i) ==
    LET ends == {j \in i..Len(f) : f[j].part = "newline"} \cup {Len(f) + 1}
    IN  SubSeq(f, i, Min(ends) - 1)

\* Every line that is not empty is a JSON object.
Parses(f) ==
    \A i \in LineStarts(f) :
       LineAt(f, i) = <<>> \/ \E e \in Entries : LineAt(f, i) = Object(e)

\* The entries replay returns; one line it cannot parse makes it fail.
EntriesOf(f, p) ==
    FoldLeft(LAMBDA es, c : IF c.part = p THEN Append(es, c.e) ELSE es, <<>>, f)

Replay == IF Parses(file) THEN EntriesOf(file, "head") ELSE None

-----------------------------------------------------------------------------

Step(t) ==
    \/ RecordLock(t) \/ WritePiece(t) \/ RecordDone(t)
    \/ FlushFail(t) \/ WriteFail(t)
    \/ StopLock(t) \/ StopDone(t)

Next ==
    \/ \E t \in Tasks : Step(t) \/ Stop(t) \/ \E e \in Entries : Record(t, e)
    \/ Crash \/ PowerFail \/ WriteBack \/ Restart

Spec == Init /\ [][Next]_vars

\* A task that is inside a call is polled again until it returns; tokio's Mutex
\* is first come, first served, so that one that waits for it gets it.
FairSpec ==
    Spec /\ \A t \in Tasks : /\ WF_vars(Step(t))
                             /\ SF_vars(RecordLock(t) \/ StopLock(t))

-----------------------------------------------------------------------------
(* Properties *)

(* Every variable keeps its shape; the part of the file that is on the disk *)
(* is never cut off, and a flush is run by the holder of the mutex only.    *)
TypeOK ==
    /\ file \in Seq(Part) /\ buf \in Seq(Part)
    /\ durable \in 0..Len(file)
    /\ running \in BOOLEAN /\ up \in BOOLEAN /\ torn \in BOOLEAN
    /\ pc \in [Tasks -> {"idle", "lock", "flush", "stop_lock", "stop_flush"}]
    /\ cur \in [Tasks -> Entries \cup {None}]
    /\ begun \subseteq Entries /\ acked \subseteq begun /\ lost \subseteq Entries
    /\ crashes \in Nat
    /\ holder \in Tasks \cup {None}
    /\ \A t \in Tasks : Flushing(t) <=> holder = t

(* Ok means written: the whole line of an entry that record_write answered  *)
(* Ok for has reached the file, whatever other calls fail, are stopped or   *)
(* crash, unless a power failure has taken it since.                        *)
AckedIsLogged == acked \subseteq Logged \cup lost

(* When nothing is being written and no part of a line was ever left in the *)
(* file, replay succeeds and returns exactly the lines of the file in their *)
(* order: lines of different tasks and leftovers of failed flushes do not   *)
(* mix.                                                                     *)
ReplayReturnsLog ==
    ~torn /\ buf = <<>> /\ (\A t \in Tasks : ~Flushing(t)) =>
       Replay = EntriesOf(file, "newline")

(* The journal implements the append-only log of JournalLog: an entry is in *)
(* it from the moment its newline is in the file.                           *)
Log == INSTANCE JournalLog WITH
          log <- EntriesOf(file, "newline"),
          safe <- Len(EntriesOf(SubSeq(file, 1, durable), "newline"))

ImplementsLog == Log!Spec

(* Every call returns, or the program goes down: an error of one call does  *)
(* not leave the mutex locked for the others.                               *)
CallsReturn == \A t \in Tasks : pc[t] # "idle" ~> pc[t] = "idle"

Quiet == up /\ \A t \in Tasks : pc[t] = "idle"

(* replay "returns all valid entries": when the program is up and no call   *)
(* is under way, replay succeeds and returns every write that was           *)
(* acknowledged.                                                            *)
AckedIsReplayed ==
    Quiet => \A e \in acked : Parses(file) /\ Contains(Replay, e)
=============================================================================
