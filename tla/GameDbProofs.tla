---------------------------- MODULE GameDbProofs -----------------------------
(****************************************************************************)
(* Theorems about GameDb, for any number of tasks, sessions, repositories   *)
(* and calls.                                                               *)
(****************************************************************************)
EXTENDS GameDb, SequenceTheorems, TLAPS

USE GameDbAssumption

-----------------------------------------------------------------------------
(* A frame stays a frame when one of its fields changes. *)

LEMMA FramePc ==
    ASSUME NEW r \in Frame, NEW x \in {"idle", "exec", "record", "session", "flush", "stop"}
    PROVE  /\ [r EXCEPT !.pc = x] \in Frame
           /\ [r EXCEPT !.pc = x].pc = x
           /\ [r EXCEPT !.pc = x].main = r.main
           /\ [r EXCEPT !.pc = x].repo = r.repo
           /\ [r EXCEPT !.pc = x].left = r.left
           /\ [r EXCEPT !.pc = x].owed = r.owed
           /\ [r EXCEPT !.pc = x].unlogged = r.unlogged
  BY DEF Frame

LEMMA FrameOwed ==
    ASSUME NEW r \in Frame, NEW s
    PROVE  /\ [r EXCEPT !.owed = @ \ {s}] \in Frame
           /\ [r EXCEPT !.owed = @ \ {s}].pc = r.pc
           /\ [r EXCEPT !.owed = @ \ {s}].main = r.main
           /\ [r EXCEPT !.owed = @ \ {s}].repo = r.repo
           /\ [r EXCEPT !.owed = @ \ {s}].left = r.left
           /\ [r EXCEPT !.owed = @ \ {s}].owed = r.owed \ {s}
           /\ [r EXCEPT !.owed = @ \ {s}].unlogged = r.unlogged
  BY DEF Frame

LEMMA NoFrameOK == NoFrame \in Frame /\ NoFrame.pc = "idle" /\ NoFrame.unlogged = FALSE /\ NoFrame.repo = 0
  BY DEF NoFrame, Frame
-----------------------------------------------------------------------------
(* The inductive invariant.  A close owes nothing that it will not flush,   *)
(* and the journal is stopped by a close of the Db itself only.             *)

ReposOK ==
    /\ wal \in {"none", "open", "stopped"} /\ closed \in BOOLEAN /\ calls \in Nat
    /\ repos \in Seq(Repo) /\ current \in 0..Len(repos)
    /\ \A k \in DOMAIN repos : repos[k].before < k
    /\ clones \subseteq 0..Len(repos)
    /\ wal = "stopped" => closed

FrameOK(r, c, n) ==
    /\ r \in Frame /\ r.repo \in 0..n
    /\ r.pc \in {"session", "flush"} => r.repo # 0
    /\ r.pc = "flush" => r.owed \subseteq r.left
    /\ r.pc = "stop" => r.owed = {}
    /\ r.unlogged => c
    /\ r.pc \in {"flush", "stop"} /\ r.main => c

FramesOK ==
    /\ frame \in [Tasks -> Frame]
    /\ \A t \in Tasks : FrameOK(frame[t], closed, Len(repos))

IInv == ReposOK /\ FramesOK

LEMMA InitOK == Init => IInv
  <1>1. Init => ReposOK
    <2> SUFFICES ASSUME Init PROVE ReposOK
      OBVIOUS
    <2>1. repos = <<>> /\ wal = "none" /\ current = 0 /\ clones = {}
          /\ closed = FALSE /\ calls = 0
      BY DEF Init
    <2>2. repos \in Seq(Repo) /\ Len(repos) = 0 /\ DOMAIN repos = {}
      BY <2>1
    <2>3. closed \in BOOLEAN /\ (wal = "stopped" => closed)
      BY <2>1
    <2>4. calls \in Nat /\ current \in 0..Len(repos) /\ clones \subseteq 0..Len(repos)
      BY <2>1, <2>2
    <2>5. QED
      BY <2>1, <2>2, <2>3, <2>4 DEF ReposOK
  <1>2. Init => FramesOK
    BY NoFrameOK DEF Init, FramesOK, FrameOK
  <1>3. QED
    BY <1>1, <1>2 DEF IInv

LEMMA NewRepoOK ==
    ASSUME NEW flush \in BOOLEAN, NEW before \in Nat
    PROVE  NewRepo(flush, before) \in Repo /\ NewRepo(flush, before).before = before
  BY DEF NewRepo, Repo

\* The sets of sessions of a repository may change, and its flag.
SameRepo(x, r) == x \in Repo /\ x.before = r.before

LEMMA RepoFields ==
    ASSUME NEW r \in Repo, NEW m \in SUBSET Sessions
    PROVE  /\ SameRepo([r EXCEPT !.dirty = m], r)
           /\ SameRepo([r EXCEPT !.left = m], r)
           /\ SameRepo([r EXCEPT !.running = FALSE], r)
  BY DEF Repo, SameRepo

LEMMA RepoFlushed ==
    ASSUME NEW r \in Repo, NEW m \in SUBSET Sessions, NEW l \in SUBSET Sessions
    PROVE  SameRepo([r EXCEPT !.dirty = m, !.left = l], r)
  BY DEF Repo, SameRepo

LEMMA RepoMoved ==
    ASSUME NEW r \in Repo, NEW m \in SUBSET Sessions, NEW l \in SUBSET Sessions
    PROVE  SameRepo([r EXCEPT !.cached = m, !.out = l], r)
  BY DEF Repo, SameRepo

\* Only the marks of repositories change, and none goes away.
LEMMA MarksOnly ==
    ASSUME NEW r \in Seq(Repo), NEW s, s = [j \in DOMAIN r |-> s[j]],
           \A j \in DOMAIN r : s[j] \in Repo /\ s[j].before = r[j].before,
           \A j \in DOMAIN r : r[j].before < j
    PROVE  /\ s \in Seq(Repo) /\ Len(s) = Len(r) /\ DOMAIN s = DOMAIN r
           /\ \A j \in DOMAIN s : s[j].before < j
  <1>1. DOMAIN s = DOMAIN r /\ DOMAIN r = 1..Len(r) /\ Len(r) \in Nat
    OBVIOUS
  <1>2. s \in [1..Len(r) -> Repo]
    BY <1>1
  <1>3. s \in Seq(Repo) /\ Len(s) = Len(r)
    BY <1>1, <1>2, SeqDef, LenProperties
  <1>4. QED
    BY <1>1, <1>3

\* One repository changes.
LEMMA OneRepo ==
    ASSUME NEW r \in Seq(Repo), NEW k \in DOMAIN r, NEW x, SameRepo(x, r[k]),
           \A j \in DOMAIN r : r[j].before < j
    PROVE  LET s == [r EXCEPT ![k] = x]
           IN  /\ s \in Seq(Repo) /\ Len(s) = Len(r) /\ DOMAIN s = DOMAIN r
               /\ \A j \in DOMAIN s : s[j].before < j
  <1> DEFINE s == [r EXCEPT ![k] = x]
  <1>1. \A j \in DOMAIN r : r[j] \in Repo
    BY ElementOfSeq
  <1>2. s = [j \in DOMAIN r |-> s[j]]
    OBVIOUS
  <1>3. \A j \in DOMAIN r : s[j] \in Repo /\ s[j].before = r[j].before
    BY <1>1 DEF SameRepo
  <1> HIDE DEF s
  <1>4. /\ s \in Seq(Repo) /\ Len(s) = Len(r) /\ DOMAIN s = DOMAIN r
        /\ \A j \in DOMAIN s : s[j].before < j
    BY <1>2, <1>3, MarksOnly
  <1>5. QED
    BY <1>4 DEF s

-----------------------------------------------------------------------------
(* Every step keeps the repositories as they should be. *)

LEMMA MakeRepoOK ==
    ASSUME ReposOK, NEW flush \in BOOLEAN, MakeRepo(flush)
    PROVE  /\ repos' \in Seq(Repo) /\ Len(repos') = Len(repos) + 1
           /\ current' \in 0..Len(repos')
           /\ \A k \in DOMAIN repos' : repos'[k].before < k
           /\ clones' \subseteq 0..Len(repos')
  <1> DEFINE new == NewRepo(flush, current)
  <1>1. new \in Repo /\ new.before = current
    <2>1. current \in Nat
      BY LenProperties DEF ReposOK
    <2>2. QED
      BY <2>1, NewRepoOK
  <1>2. repos' = Append(repos, new) /\ current' = Len(repos')
        /\ clones' = clones \cup {current}
    BY DEF MakeRepo
  <1> HIDE DEF new
  <1>3. repos' \in Seq(Repo) /\ Len(repos') = Len(repos) + 1
        /\ DOMAIN repos' = 1..Len(repos) + 1 /\ Len(repos) \in Nat
        /\ DOMAIN repos = 1..Len(repos)
        /\ repos'[Len(repos) + 1] = new
        /\ \A k \in 1..Len(repos) : repos'[k] = repos[k]
    BY <1>1, <1>2 DEF ReposOK
  <1>4. \A k \in DOMAIN repos' : repos'[k].before < k
    BY <1>1, <1>3 DEF ReposOK
  <1>5. current' \in 0..Len(repos')
    BY <1>2, <1>3
  <1>6. clones' \subseteq 0..Len(repos')
    <2>1. clones \subseteq 0..Len(repos) /\ current \in 0..Len(repos)
      BY DEF ReposOK
    <2>2. QED
      BY <1>2, <1>3, <2>1
  <1>7. QED
    BY <1>3, <1>4, <1>5, <1>6

LEMMA ReposStep ==
    ASSUME IInv, [Next]_vars
    PROVE  ReposOK' /\ Len(repos') >= Len(repos) /\ (closed => closed')
  <1> USE DEF ReposOK, IInv
  <1>0. /\ Len(repos) \in Nat /\ DOMAIN repos = 1..Len(repos)
        /\ repos \in Seq(Repo)
        /\ \A j \in DOMAIN repos : repos[j].before < j
        /\ \A j \in DOMAIN repos : repos[j] \in Repo
    BY ElementOfSeq
  <1>1. CASE UNCHANGED vars
    BY <1>1, <1>0 DEF vars
  <1>2. CASE EnableWal
    BY <1>2, <1>0 DEF EnableWal, Enabled
  <1>3. CASE Clone
    BY <1>3, <1>0 DEF Clone
  <1>4. ASSUME NEW c \in Configs, InitGameDb(c)
        PROVE  ReposOK' /\ Len(repos') >= Len(repos) /\ (closed => closed')
    <2>1. c.flush \in BOOLEAN
      OBVIOUS
    <2>2. MakeRepo(c.flush) /\ wal' \in {wal, Enabled}
          /\ UNCHANGED <<frame, closed, calls>>
      BY <1>4 DEF InitGameDb
    <2>3. /\ repos' \in Seq(Repo) /\ Len(repos') = Len(repos) + 1
          /\ current' \in 0..Len(repos')
          /\ \A k \in DOMAIN repos' : repos'[k].before < k
          /\ clones' \subseteq 0..Len(repos')
      BY <2>1, <2>2, MakeRepoOK
    <2>4. QED
      BY <2>2, <2>3, <1>0 DEF Enabled
  <1>5. ASSUME NEW k \in DOMAIN repos, NEW x, SameRepo(x, repos[k]),
               repos' = [repos EXCEPT ![k] = x],
               UNCHANGED <<wal, current, clones, closed>>, calls' \in {calls, calls + 1}
        PROVE  ReposOK' /\ Len(repos') >= Len(repos) /\ (closed => closed')
    <2>1. repos' \in Seq(Repo) /\ Len(repos') = Len(repos)
          /\ \A j \in DOMAIN repos' : repos'[j].before < j
      BY <1>0, <1>5, OneRepo
    <2>2. QED
      BY <1>0, <1>5, <2>1
  <1>6. ASSUME NEW k \in DOMAIN repos,
               \/ StopRepo(k)
               \/ TaskWakes(k)
               \/ \E s \in Sessions : TaskFlushes(k, s)
               \/ \E s \in Sessions : Put(k, s)
        PROVE  ReposOK' /\ Len(repos') >= Len(repos) /\ (closed => closed')
    <2>1. PICK x : /\ SameRepo(x, repos[k]) /\ repos' = [repos EXCEPT ![k] = x]
      <3>1. repos[k] \in Repo
        BY <1>0
      <3>2. CASE StopRepo(k)
        BY <3>1, <3>2, RepoFields DEF StopRepo
      <3>3. CASE TaskWakes(k)
        <4>1. repos[k].cached \in SUBSET Sessions
          BY <3>1 DEF Repo
        <4>2. QED
          BY <3>1, <3>3, <4>1, RepoFields DEF TaskWakes
      <3>4. ASSUME NEW s \in Sessions, TaskFlushes(k, s)
            PROVE  \E x : SameRepo(x, repos[k]) /\ repos' = [repos EXCEPT ![k] = x]
        <4>1. repos[k].dirty \ {s} \in SUBSET Sessions /\ repos[k].left \ {s} \in SUBSET Sessions
          BY <3>1 DEF Repo
        <4>2. QED
          BY <3>1, <3>4, <4>1, RepoFlushed DEF TaskFlushes
      <3>5. ASSUME NEW s \in Sessions, Put(k, s)
            PROVE  \E x : SameRepo(x, repos[k]) /\ repos' = [repos EXCEPT ![k] = x]
        <4>1. repos[k].dirty \cup {s} \in SUBSET Sessions
          BY <3>1 DEF Repo
        <4>2. QED
          BY <3>1, <3>5, <4>1, RepoFields DEF Put
      <3>6. QED
        BY <1>6, <3>2, <3>3, <3>4, <3>5
    <2>2. UNCHANGED <<wal, current, clones, closed>> /\ calls' \in {calls, calls + 1}
      BY <1>6 DEF StopRepo, TaskWakes, TaskFlushes, Put
    <2>3. QED
      BY <1>5, <2>1, <2>2
  <1>7. ASSUME NEW k \in DOMAIN repos, NEW s \in Sessions,
               \/ \E gone \in SUBSET repos[k].cached : OpenSession(k, s, gone)
               \/ \E t \in Tasks : CloseSession(t, k, s)
        PROVE  ReposOK' /\ Len(repos') >= Len(repos) /\ (closed => closed')
    <2>1. PICK x : /\ SameRepo(x, repos[k]) /\ repos' = [repos EXCEPT ![k] = x]
      <3>1. repos[k] \in Repo
        BY <1>0
      <3>2. ASSUME NEW gone \in SUBSET repos[k].cached, OpenSession(k, s, gone)
            PROVE  \E x : SameRepo(x, repos[k]) /\ repos' = [repos EXCEPT ![k] = x]
        <4>1. /\ (repos[k].cached \ gone) \cup {s} \in SUBSET Sessions
              /\ repos[k].out \cup gone \in SUBSET Sessions
          BY <3>1 DEF Repo
        <4>2. QED
          BY <3>1, <3>2, <4>1, RepoMoved DEF OpenSession
      <3>3. ASSUME NEW t \in Tasks, CloseSession(t, k, s)
            PROVE  \E x : SameRepo(x, repos[k]) /\ repos' = [repos EXCEPT ![k] = x]
        <4>1. /\ repos[k].cached \ {s} \in SUBSET Sessions
              /\ repos[k].out \cup {s} \in SUBSET Sessions
          BY <3>1 DEF Repo
        <4>2. QED
          BY <3>1, <3>3, <4>1, RepoMoved DEF CloseSession
      <3>4. QED
        BY <1>7, <3>2, <3>3
    <2>2. UNCHANGED <<wal, current, clones, closed>> /\ calls' \in {calls, calls + 1}
      BY <1>7 DEF OpenSession, CloseSession
    <2>3. QED
      BY <1>5, <2>1, <2>2
  <1>8. ASSUME NEW t \in Tasks, NEW s \in Sessions, SessionFlushes(t, s) \/ CloseFlushes(t, s)
        PROVE  ReposOK' /\ Len(repos') >= Len(repos) /\ (closed => closed')
    <2> DEFINE k == frame[t].repo
    <2>1. k \in DOMAIN repos
      BY <1>8, <1>0 DEF SessionFlushes, CloseFlushes, FramesOK, FrameOK
    <2>2. repos[k] \in Repo /\ repos[k].dirty \ {s} \in SUBSET Sessions
      BY <2>1, <1>0 DEF Repo
    <2>3. repos' = [repos EXCEPT ![k] = [repos[k] EXCEPT !.dirty = repos[k].dirty \ {s}]]
      BY <1>8 DEF SessionFlushes, CloseFlushes, TakeMark
    <2>4. UNCHANGED <<wal, current, clones, closed, calls>>
      BY <1>8 DEF SessionFlushes, CloseFlushes
    <2> HIDE DEF k
    <2>5. QED
      BY <1>5, <2>1, <2>2, <2>3, <2>4, RepoFields
  <1>9. ASSUME NEW t \in Tasks,
               \/ Exec(t) \/ Record(t) \/ CloseFlushed(t)
               \/ \E main \in BOOLEAN : Save(t, main)
        PROVE  ReposOK' /\ Len(repos') >= Len(repos) /\ (closed => closed')
    <2>1. UNCHANGED <<wal, current, repos, clones, closed>> /\ calls' \in {calls, calls + 1}
      BY <1>9 DEF Exec, Record, CloseFlushed, Save
    <2>2. QED
      BY <2>1, <1>0
  <1>10. ASSUME NEW t \in Tasks, NEW main \in BOOLEAN, NEW k, Close(t, main, k)
         PROVE  ReposOK' /\ Len(repos') >= Len(repos) /\ (closed => closed')
    BY <1>10, <1>0 DEF Close
  <1>11. ASSUME NEW t \in Tasks, CloseStops(t)
         PROVE  ReposOK' /\ Len(repos') >= Len(repos) /\ (closed => closed')
    <2>1. frame[t].main => closed
      BY <1>11 DEF CloseStops, FramesOK, FrameOK
    <2>2. QED
      BY <1>11, <2>1, <1>0 DEF CloseStops, Stop
  <1>12. ASSUME NEW k \in DOMAIN repos,
                \/ FlushTask(k) \/ StopRepo(k) \/ \E s \in Sessions : Put(k, s)
                \/ \E s \in Sessions : \E gone \in {{}} \cup {{c} : c \in repos[k].cached} :
                     OpenSession(k, s, gone)
         PROVE  ReposOK' /\ Len(repos') >= Len(repos) /\ (closed => closed')
    <2>1. \A gone \in {{}} \cup {{c} : c \in repos[k].cached} : gone \in SUBSET repos[k].cached
      OBVIOUS
    <2>2. QED
      BY <1>6, <1>7, <1>12, <2>1 DEF FlushTask
  <1>13. ASSUME NEW t \in Tasks, Continue(t)
         PROVE  ReposOK' /\ Len(repos') >= Len(repos) /\ (closed => closed')
    BY <1>8, <1>9, <1>11, <1>13 DEF Continue
  <1>14. QED
    BY <1>1, <1>2, <1>3, <1>4, <1>6, <1>7, <1>9, <1>10, <1>12, <1>13 DEF Next

-----------------------------------------------------------------------------
(* Every step keeps the frames as they should be. *)

LEMMA FrameLater ==
    ASSUME NEW r, NEW c \in BOOLEAN, NEW d \in BOOLEAN, NEW n \in Nat, NEW m \in Nat,
           FrameOK(r, c, n), c => d, n <= m
    PROVE  FrameOK(r, d, m)
  BY DEF FrameOK

\* A mark that is taken is owed by nobody: FrameOK says nothing else of owed
\* than that there is not too much of it.
LEMMA OwedOK ==
    ASSUME FramesOK, NEW k, NEW s
    PROVE  /\ Owed(k, s) \in [Tasks -> Frame]
           /\ \A t \in Tasks :
                /\ FrameOK(Owed(k, s)[t], closed, Len(repos))
                /\ Owed(k, s)[t].pc = frame[t].pc
                /\ Owed(k, s)[t].left = frame[t].left
                /\ frame[t].repo = k => s \notin Owed(k, s)[t].owed
  <1>1. ASSUME NEW t \in Tasks
        PROVE  /\ Owed(k, s)[t] \in Frame
               /\ FrameOK(Owed(k, s)[t], closed, Len(repos))
               /\ Owed(k, s)[t].pc = frame[t].pc
               /\ Owed(k, s)[t].left = frame[t].left
               /\ frame[t].repo = k => s \notin Owed(k, s)[t].owed
    <2>1. frame[t] \in Frame /\ FrameOK(frame[t], closed, Len(repos))
      BY DEF FramesOK
    <2>2. Owed(k, s)[t] = IF frame[t].repo = k THEN [frame[t] EXCEPT !.owed = @ \ {s}]
                          ELSE frame[t]
      BY DEF Owed
    <2>3. CASE frame[t].repo # k
      BY <2>1, <2>2, <2>3
    <2>4. CASE frame[t].repo = k
      <3> DEFINE r == [frame[t] EXCEPT !.owed = @ \ {s}]
      <3>1. /\ r \in Frame /\ r.pc = frame[t].pc /\ r.main = frame[t].main
            /\ r.repo = frame[t].repo /\ r.left = frame[t].left
            /\ r.owed = frame[t].owed \ {s} /\ r.unlogged = frame[t].unlogged
        BY <2>1, FrameOwed
      <3>2. Owed(k, s)[t] = r
        BY <2>2, <2>4
      <3> HIDE DEF r
      <3>3. FrameOK(r, closed, Len(repos))
        BY <2>1, <3>1 DEF FrameOK
      <3>4. QED
        BY <3>1, <3>2, <3>3
    <2>5. QED
      BY <2>3, <2>4
  <1>2. Owed(k, s) = [t \in Tasks |-> Owed(k, s)[t]]
    BY DEF Owed
  <1>3. QED
    BY <1>1, <1>2

\* One frame changes.
LEMMA OneFrame ==
    ASSUME NEW f \in [Tasks -> Frame], NEW c, NEW n,
           \A u \in Tasks : FrameOK(f[u], c, n),
           NEW t \in Tasks, NEW r, FrameOK(r, c, n),
           frame' = [f EXCEPT ![t] = r], c = closed', n = Len(repos')
    PROVE  FramesOK'
  BY DEF FramesOK, FrameOK

LEMMA FramesStep ==
    ASSUME IInv, [Next]_vars
    PROVE  FramesOK'
  <1> DEFINE c == closed'
             n == Len(repos')
  <1>0. /\ frame \in [Tasks -> Frame]
        /\ \A t \in Tasks : FrameOK(frame[t], c, n)
        /\ \A t \in Tasks : FrameOK(frame[t], closed, Len(repos))
    <2>1. closed \in BOOLEAN /\ closed' \in BOOLEAN /\ Len(repos) \in Nat
          /\ Len(repos') \in Nat
      BY ReposStep, LenProperties DEF IInv, ReposOK
    <2>2. Len(repos) <= Len(repos') /\ (closed => closed')
      BY <2>1, ReposStep
    <2>3. QED
      BY <2>1, <2>2, FrameLater DEF IInv, FramesOK
  <1> HIDE DEF c, n
  <1>1. CASE UNCHANGED frame
    BY <1>0, <1>1 DEF FramesOK, c, n
  <1>2. ASSUME NEW t \in Tasks, NEW r, FrameOK(r, c, n), frame' = [frame EXCEPT ![t] = r]
        PROVE  FramesOK'
    BY <1>0, <1>2, OneFrame DEF c, n
  <1>3. ASSUME NEW t \in Tasks, NEW x \in {"idle", "record"}
        PROVE  FrameOK([frame[t] EXCEPT !.pc = x], c, n)
    <2> DEFINE r == [frame[t] EXCEPT !.pc = x]
    <2>1. frame[t] \in Frame /\ FrameOK(frame[t], c, n)
      BY <1>0
    <2>2. x \in {"idle", "exec", "record", "session", "flush", "stop"} /\ x # "flush" /\ x # "stop"
      OBVIOUS
    <2>3. /\ r \in Frame /\ r.pc = x /\ r.repo = frame[t].repo
          /\ r.unlogged = frame[t].unlogged
      BY <2>1, <2>2, FramePc
    <2> HIDE DEF r
    <2>4. FrameOK(r, c, n)
      BY <2>1, <2>2, <2>3 DEF FrameOK
    <2>5. QED
      BY <2>4 DEF r
  <1>4. ASSUME NEW t \in Tasks, NEW main \in BOOLEAN, Save(t, main)
        PROVE  FramesOK'
    <2> DEFINE r == [NoFrame EXCEPT !.pc = "exec", !.main = main]
    <2>1. r \in Frame /\ r.pc = "exec" /\ r.unlogged = FALSE /\ r.repo = 0
      BY DEF NoFrame, Frame
    <2>2. frame' = [frame EXCEPT ![t] = r]
      BY <1>4 DEF Save
    <2> HIDE DEF r
    <2>3. FrameOK(r, c, n)
      <3>1. Len(repos') \in Nat
        BY ReposStep, LenProperties DEF ReposOK
      <3>2. QED
        BY <2>1, <3>1 DEF FrameOK, n
    <2>4. QED
      BY <1>2, <2>2, <2>3
  <1>5. ASSUME NEW t \in Tasks, Exec(t)
        PROVE  FramesOK'
    <2> DEFINE x == IF frame[t].main /\ wal # "none" THEN "record" ELSE "idle"
    <2>1. x \in {"idle", "record"}
      OBVIOUS
    <2>2. frame' = [frame EXCEPT ![t] = [frame[t] EXCEPT !.pc = x]]
      BY <1>5 DEF Exec
    <2> HIDE DEF x
    <2>3. QED
      BY <1>2, <1>3, <2>1, <2>2
  <1>6. ASSUME NEW t \in Tasks, Record(t)
        PROVE  FramesOK'
    <2> DEFINE r == [frame[t] EXCEPT !.pc = "idle", !.unlogged = wal = "stopped"]
    <2>1. frame[t] \in Frame /\ FrameOK(frame[t], c, n)
      BY <1>0
    <2>2. r \in Frame /\ r.pc = "idle" /\ r.repo = frame[t].repo
          /\ r.unlogged = (wal = "stopped")
      BY <2>1 DEF Frame
    <2>3. frame' = [frame EXCEPT ![t] = r]
      BY <1>6 DEF Record
    <2>4. (wal = "stopped") => c
      BY ReposStep DEF c, IInv, ReposOK
    <2> HIDE DEF r
    <2>5. FrameOK(r, c, n)
      BY <2>1, <2>2, <2>4 DEF FrameOK
    <2>6. QED
      BY <1>2, <2>3, <2>5
  <1>7. ASSUME NEW t \in Tasks, NEW main \in BOOLEAN, NEW k \in 0..Len(repos),
               Close(t, main, k)
        PROVE  FramesOK'
    <2> DEFINE r == [NoFrame EXCEPT
                       !.pc = IF k = 0 THEN "stop" ELSE "flush", !.main = main,
                       !.repo = k, !.left = IF k = 0 THEN {} ELSE repos[k].cached,
                       !.owed = IF k = 0 THEN {} ELSE repos[k].dirty \cap repos[k].cached]
    <2>1. k # 0 => repos[k].dirty \subseteq Sessions /\ repos[k].cached \subseteq Sessions
      <3>1. repos \in Seq(Repo) /\ Len(repos) \in Nat
        BY DEF IInv, ReposOK
      <3>2. k # 0 => repos[k] \in Repo
        BY <3>1, ElementOfSeq
      <3>3. QED
        BY <3>2 DEF Repo
    <2>2. k \in Nat
      OBVIOUS
    <2>3. /\ r \in Frame /\ r.repo = k /\ r.main = main /\ r.unlogged = FALSE
          /\ r.pc = (IF k = 0 THEN "stop" ELSE "flush")
          /\ r.left = (IF k = 0 THEN {} ELSE repos[k].cached)
          /\ r.owed = (IF k = 0 THEN {} ELSE repos[k].dirty \cap repos[k].cached)
      BY <2>1, <2>2 DEF NoFrame, Frame
    <2>4. /\ frame' = [frame EXCEPT ![t] = r] /\ closed' = (closed \/ main)
          /\ repos' = repos
      BY <1>7 DEF Close
    <2> HIDE DEF r
    <2>5. FrameOK(r, c, n)
      BY <2>1, <2>3, <2>4 DEF FrameOK, c, n
    <2>6. QED
      BY <1>2, <2>4, <2>5
  <1>8. ASSUME NEW t \in Tasks, CloseFlushed(t)
        PROVE  FramesOK'
    <2> DEFINE r == [frame[t] EXCEPT !.pc = "stop"]
    <2>1. frame[t] \in Frame /\ FrameOK(frame[t], c, n)
      BY <1>0
    <2>2. frame[t].pc = "flush" /\ frame[t].left = {}
      BY <1>8 DEF CloseFlushed, EndFlush
    <2>3. /\ r \in Frame /\ r.pc = "stop" /\ r.main = frame[t].main
          /\ r.repo = frame[t].repo /\ r.left = frame[t].left
          /\ r.owed = frame[t].owed /\ r.unlogged = frame[t].unlogged
      BY <2>1, FramePc
    <2>4. frame' = [frame EXCEPT ![t] = r]
      BY <1>8 DEF CloseFlushed
    <2> HIDE DEF r
    <2>5. r.owed = {}
      BY <2>1, <2>2, <2>3 DEF FrameOK
    <2>6. FrameOK(r, c, n)
      BY <2>1, <2>2, <2>3, <2>5 DEF FrameOK
    <2>7. QED
      BY <1>2, <2>4, <2>6
  <1>9. ASSUME NEW t \in Tasks, CloseStops(t)
        PROVE  FramesOK'
    <2>1. frame' = [frame EXCEPT ![t] = NoFrame] /\ repos' = repos
      BY <1>9 DEF CloseStops
    <2>2. Len(repos) \in Nat
      BY LenProperties DEF IInv, ReposOK
    <2>3. FrameOK(NoFrame, c, n)
      BY <2>1, <2>2, NoFrameOK DEF FrameOK, n
    <2>4. QED
      BY <1>2, <2>1, <2>3
  <1>10. ASSUME NEW k \in DOMAIN repos, NEW s \in Sessions, TaskFlushes(k, s)
         PROVE  FramesOK'
    <2>1. frame' = Owed(k, s)
      BY <1>10 DEF TaskFlushes
    <2>2. UNCHANGED closed /\ Len(repos') = Len(repos)
      <3>1. PICK x : repos' = [repos EXCEPT ![k] = x]
        BY <1>10 DEF TaskFlushes
      <3>2. repos \in Seq(Repo)
        BY DEF IInv, ReposOK
      <3>3. QED
        BY <1>10, <3>1, <3>2 DEF TaskFlushes
    <2>3. QED
      BY <2>1, <2>2, OwedOK DEF FramesOK, IInv
  <1>11. ASSUME NEW t \in Tasks, NEW s \in Sessions, CloseFlushes(t, s)
         PROVE  FramesOK'
    <2> DEFINE k == frame[t].repo
               f == Owed(k, s)
               r == [f[t] EXCEPT !.left = @ \ {s}]
    <2>1. UNCHANGED closed /\ Len(repos') = Len(repos)
      <3>1. repos' = [repos EXCEPT ![k].dirty = @ \ {s}]
        BY <1>11 DEF CloseFlushes, TakeMark
      <3>2. repos \in Seq(Repo)
        BY DEF IInv, ReposOK
      <3>3. QED
        BY <1>11, <3>1, <3>2 DEF CloseFlushes
    <2>2. /\ f \in [Tasks -> Frame] /\ \A u \in Tasks : FrameOK(f[u], c, n)
          /\ f[t].pc = frame[t].pc /\ f[t].left = frame[t].left /\ s \notin f[t].owed
      BY <2>1, OwedOK DEF IInv, c, n
    <2>3. frame' = [f EXCEPT ![t] = r]
      BY <1>11 DEF CloseFlushes
    <2> HIDE DEF f, k
    <2>4. f[t] \in Frame
      BY <2>2
    <2>5. /\ r \in Frame /\ r.pc = f[t].pc /\ r.main = f[t].main
          /\ r.repo = f[t].repo /\ r.left = f[t].left \ {s}
          /\ r.owed = f[t].owed /\ r.unlogged = f[t].unlogged
      BY <2>4 DEF Frame
    <2> HIDE DEF r
    <2>6. FrameOK(f[t], c, n)
      BY <2>2
    <2>7. FrameOK(r, c, n)
      BY <2>2, <2>5, <2>6 DEF FrameOK
    <2>8. QED
      BY <2>2, <2>3, <2>7, OneFrame DEF c, n
  <1>12. ASSUME NEW t \in Tasks, NEW k \in DOMAIN repos, NEW s \in Sessions,
                CloseSession(t, k, s)
         PROVE  FramesOK'
    <2> DEFINE r == [NoFrame EXCEPT !.pc = "session", !.main = FALSE, !.repo = k, !.left = {s}]
    <2>1. k \in Nat /\ k # 0 /\ k <= Len(repos)
      BY LenProperties DEF IInv, ReposOK
    <2>2. /\ r \in Frame /\ r.repo = k /\ r.pc = "session" /\ r.unlogged = FALSE
      BY <2>1 DEF NoFrame, Frame
    <2>3. frame' = [frame EXCEPT ![t] = r]
      BY <1>12 DEF CloseSession
    <2>4. k \in 0..n
      <3>1. Len(repos') >= Len(repos) /\ Len(repos') \in Nat /\ Len(repos) \in Nat
        BY ReposStep, LenProperties DEF IInv, ReposOK
      <3>2. QED
        BY <2>1, <3>1 DEF n
    <2> HIDE DEF r
    <2>5. FrameOK(r, c, n)
      BY <2>2, <2>4, <2>1 DEF FrameOK
    <2>6. QED
      BY <1>2, <2>3, <2>5
  <1>13. ASSUME NEW t \in Tasks, NEW s \in Sessions, SessionFlushes(t, s)
         PROVE  FramesOK'
    <2> DEFINE f == Owed(frame[t].repo, s)
    <2>1. UNCHANGED closed /\ Len(repos') = Len(repos)
      <3>1. repos' = [repos EXCEPT ![frame[t].repo].dirty = @ \ {s}]
        BY <1>13 DEF SessionFlushes, TakeMark
      <3>2. repos \in Seq(Repo)
        BY DEF IInv, ReposOK
      <3>3. QED
        BY <1>13, <3>1, <3>2 DEF SessionFlushes
    <2>2. f \in [Tasks -> Frame] /\ \A u \in Tasks : FrameOK(f[u], c, n)
      BY <2>1, OwedOK DEF IInv, c, n
    <2>3. frame' = [f EXCEPT ![t] = NoFrame]
      BY <1>13 DEF SessionFlushes
    <2>4. Len(repos) \in Nat
      BY LenProperties DEF IInv, ReposOK
    <2>5. FrameOK(NoFrame, c, n)
      BY <2>1, <2>4, NoFrameOK DEF FrameOK, n
    <2> HIDE DEF f
    <2>6. QED
      BY <2>2, <2>3, <2>5, OneFrame DEF c, n
  <1>14. QED
    <2>1. CASE UNCHANGED vars
      BY <1>1, <2>1 DEF vars
    <2>2. CASE EnableWal \/ Clone \/ \E cf \in Configs : InitGameDb(cf)
      BY <1>1, <2>2 DEF EnableWal, Clone, InitGameDb
    <2>3. ASSUME NEW k \in DOMAIN repos, FlushTask(k)
          PROVE  FramesOK'
      BY <1>1, <1>10, <2>3 DEF FlushTask, TaskWakes
    <2>4. ASSUME NEW t \in Tasks, Continue(t)
          PROVE  FramesOK'
      BY <1>5, <1>6, <1>8, <1>9, <1>11, <1>13, <2>4 DEF Continue
    <2>5. ASSUME NEW k \in DOMAIN repos,
                 \/ StopRepo(k)
                 \/ \E s \in Sessions : \E gone : OpenSession(k, s, gone)
                 \/ \E s \in Sessions : Put(k, s)
          PROVE  FramesOK'
      BY <1>1, <2>5 DEF StopRepo, OpenSession, Put
    <2>6. QED
      BY <1>4, <1>7, <1>12, <2>1, <2>2, <2>3, <2>4, <2>5 DEF Next

-----------------------------------------------------------------------------
(* The theorems *)

LEMMA Invariance == Spec => []IInv
  <1>1. Init => IInv
    BY InitOK
  <1>2. IInv /\ [Next]_vars => IInv'
    BY ReposStep, FramesStep DEF IInv
  <1>3. QED
    BY <1>1, <1>2, PTL DEF Spec

(* Every state has its shape: a repository has an earlier one in its clone  *)
(* of the Db, and a close flushes one that was made.                        *)
THEOREM TypeCorrect == Spec => []TypeOK
  <1>1. IInv => TypeOK
    BY DEF IInv, ReposOK, FramesOK, FrameOK, TypeOK
  <1>2. QED
    BY <1>1, Invariance, PTL

(* Until the Db itself is closed its writes find the journal recording.     *)
THEOREM JournalRecords == Spec => []LoggedUntilClosed
  <1>1. IInv => LoggedUntilClosed
    BY DEF IInv, ReposOK, FramesOK, FrameOK, LoggedUntilClosed
  <1>2. QED
    BY <1>1, Invariance, PTL

(* A close has the marks taken that it found before it stops the journal.   *)
THEOREM FlushBeforeStop == Spec => []CloseFlushesFirst
  <1>1. IInv => CloseFlushesFirst
    BY DEF IInv, FramesOK, FrameOK, CloseFlushesFirst
  <1>2. QED
    BY <1>1, Invariance, PTL
=============================================================================
