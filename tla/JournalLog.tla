----------------------------- MODULE JournalLog -----------------------------
(****************************************************************************)
(* What a journal promises its callers: an append-only log.                 *)
(*                                                                          *)
(* An entry is appended at most once, after its call has begun, and is      *)
(* acknowledged only when it is in the log; so an entry that was            *)
(* acknowledged before another one was begun comes before it.  A crash of   *)
(* the program loses nothing of the log.  A power failure may lose the end  *)
(* of it that the operating system had not made safe.                       *)
(****************************************************************************)
EXTENDS Naturals, Sequences, SequencesExt

CONSTANT Entries

VARIABLES begun, log, acked, safe

vars == <<begun, log, acked, safe>>

Init == begun = {} /\ log = <<>> /\ acked = {} /\ safe = 0

Begin(e) ==
    /\ e \notin begun
    /\ begun' = begun \cup {e}
    /\ UNCHANGED <<log, acked, safe>>

AppendEntry(e) ==
    /\ e \in begun
    /\ ~Contains(log, e)
    /\ log' = Append(log, e)
    /\ UNCHANGED <<begun, acked, safe>>

Acknowledge(e) ==
    /\ Contains(log, e)
    /\ acked' = acked \cup {e}
    /\ UNCHANGED <<begun, log, safe>>

MakeSafe ==
    /\ safe' = Len(log)
    /\ UNCHANGED <<begun, log, acked>>

PowerFailure ==
    /\ \E n \in safe..Len(log) : log' = SubSeq(log, 1, n)
    /\ UNCHANGED <<begun, acked, safe>>

Next ==
    \/ \E e \in Entries : Begin(e) \/ AppendEntry(e) \/ Acknowledge(e)
    \/ MakeSafe \/ PowerFailure

Spec == Init /\ [][Next]_vars
=============================================================================
