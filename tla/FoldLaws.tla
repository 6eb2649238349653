------------------------------ MODULE FoldLaws ------------------------------
(****************************************************************************)
(* What the models' folds compute: the laws of FoldLeft for an operator Op, *)
(* and induction over the numbers and over sequences.                       *)
(*                                                                          *)
(* A law of a fold is cited from an instance of this module for the         *)
(* operator that is folded.  Induction is stated of the set of those for    *)
(* which the claim holds.                                                   *)
(****************************************************************************)
EXTENDS Integers, Sequences, SequencesExt, WellFoundedInduction, TLAPS

CONSTANT Op(_, _)

Fold(base, s) == FoldLeft(Op, base, s)

-----------------------------------------------------------------------------
(* Induction *)

LEMMA NatSetInduction ==
    ASSUME NEW S, 0 \in S, \A n \in Nat : n \in S => n + 1 \in S
    PROVE  Nat \subseteq S
<1> DEFINE T == Nat \ S
<1> SUFFICES ASSUME T # {} PROVE FALSE
  OBVIOUS
<1>1. T \subseteq Nat
  OBVIOUS
<1> HIDE DEF T
<1>2. PICK m \in T : \A k \in T : ~(<<k, m>> \in OpToRel(<, Nat))
  BY <1>1, NatLessThanWellFounded, WFMin
<1>3. m \in Nat /\ \A k \in T : ~(k < m)
  BY <1>1, <1>2 DEF OpToRel
<1>4. m # 0
  BY <1>2 DEF T
<1>5. m - 1 \in Nat /\ m - 1 < m
  BY <1>3, <1>4
<1>6. m - 1 \in S
  BY <1>3, <1>5 DEF T
<1>7. (m - 1) + 1 \in S
  BY <1>5, <1>6
<1>8. (m - 1) + 1 = m
  BY <1>3
<1> QED BY <1>2, <1>7, <1>8 DEF T

LEMMA SeqSetInduction ==
    ASSUME NEW E, NEW S, <<>> \in S,
           \A s \in Seq(E), e \in E : s \in S => Append(s, e) \in S
    PROVE  Seq(E) \subseteq S
<1> DEFINE N == {n \in Nat : \A s \in Seq(E) : Len(s) = n => s \in S}
<1>1. 0 \in N
  OBVIOUS
<1>2. ASSUME NEW n \in Nat, n \in N PROVE n + 1 \in N
  <2>1. ASSUME NEW s \in Seq(E), Len(s) = n + 1 PROVE s \in S
    <3> DEFINE t == SubSeq(s, 1, n)
    <3>1. t \in Seq(E) /\ Len(t) = n /\ s[n + 1] \in E
      BY <2>1
    <3>2. s = Append(t, s[n + 1])
      BY <2>1
    <3>3. t \in S
      BY <1>2, <3>1
    <3> HIDE DEF t
    <3> QED BY <3>1, <3>2, <3>3
  <2> QED BY <2>1
<1> HIDE DEF N
<1>3. Nat \subseteq N
  BY <1>1, <1>2, NatSetInduction
<1> QED BY <1>3 DEF N

-----------------------------------------------------------------------------
(* FoldLeft folds the set of positions of a sequence, the last one last.    *)

\* g folds every set of positions up to n.
FoldsTo(g, base, s, n) ==
    g = [u \in SUBSET (1..n) |->
           IF u = {} THEN base ELSE Op(g[u \ {Max(u)}], s[Max(u)])]

LEMMA MaxOfInterval ==
    ASSUME NEW n \in Nat \ {0}
    PROVE  Max(1..n) = n /\ (1..n) \ {n} = 1..(n - 1) /\ 1..n # {}
BY DEF Max

LEMMA MaxWith ==
    ASSUME NEW n \in Nat, NEW u, u \subseteq 1..(n + 1), n + 1 \in u
    PROVE  Max(u) = n + 1
<1>1. \A y \in u : n + 1 >= y
  OBVIOUS
<1>2. \A x \in u : (\A y \in u : x >= y) => x = n + 1
  OBVIOUS
<1> QED BY <1>1, <1>2 DEF Max

LEMMA FoldExists ==
    ASSUME NEW base, NEW s, NEW n \in Nat
    PROVE  \E g : FoldsTo(g, base, s, n)
<1> DEFINE N == {k \in Nat : \E g : FoldsTo(g, base, s, k)}
<1>1. 0 \in N
  <2> DEFINE g == [u \in SUBSET (1..0) |-> base]
  <2>1. \A u \in SUBSET (1..0) : u = {}
    OBVIOUS
  <2>2. FoldsTo(g, base, s, 0)
    BY <2>1 DEF FoldsTo
  <2> QED BY <2>2
<1>2. ASSUME NEW k \in Nat, k \in N PROVE k + 1 \in N
  <2>1. PICK g : FoldsTo(g, base, s, k)
    BY <1>2
  <2> DEFINE h == [u \in SUBSET (1..(k + 1)) |->
                     IF k + 1 \in u THEN Op(g[u \ {k + 1}], s[k + 1]) ELSE g[u]]
             r == [u \in SUBSET (1..(k + 1)) |->
                     IF u = {} THEN base ELSE Op(h[u \ {Max(u)}], s[Max(u)])]
  <2>2. ASSUME NEW u \in SUBSET (1..(k + 1)) PROVE h[u] = r[u]
    <3>1. CASE k + 1 \in u
      <4>1. Max(u) = k + 1 /\ u # {}
        BY <3>1, MaxWith
      <4>2. u \ {k + 1} \in SUBSET (1..(k + 1)) /\ k + 1 \notin u \ {k + 1}
        OBVIOUS
      <4>3. h[u \ {k + 1}] = g[u \ {k + 1}]
        BY <4>2
      <4> QED BY <3>1, <4>1, <4>3
    <3>2. CASE k + 1 \notin u
      <4>1. u \in SUBSET (1..k)
        BY <3>2
      <4>2. h[u] = g[u]
        BY <3>2
      <4>3. g[u] = IF u = {} THEN base ELSE Op(g[u \ {Max(u)}], s[Max(u)])
        BY <2>1, <4>1 DEF FoldsTo
      <4>4. u \ {Max(u)} \in SUBSET (1..(k + 1)) /\ k + 1 \notin u \ {Max(u)}
        BY <3>2
      <4>5. h[u \ {Max(u)}] = g[u \ {Max(u)}]
        BY <4>4
      <4> QED BY <4>2, <4>3, <4>5
    <3> QED BY <3>1, <3>2
  <2>3. h = r
    <3> HIDE DEF h, r
    <3>1. h = [u \in SUBSET (1..(k + 1)) |-> h[u]]
      BY DEF h
    <3>2. r = [u \in SUBSET (1..(k + 1)) |-> r[u]]
      BY DEF r
    <3> QED BY <2>2, <3>1, <3>2
  <2>4. FoldsTo(h, base, s, k + 1)
    BY <2>3 DEF FoldsTo
  <2> HIDE DEF h
  <2> QED BY <2>4
<1> HIDE DEF N
<1>3. Nat \subseteq N
  BY <1>1, <1>2, NatSetInduction
<1> QED BY <1>3 DEF N

\* What a fold gives for the first k positions depends on them only.
LEMMA FoldsAgree ==
    ASSUME NEW base, NEW s, NEW t, NEW m \in Nat, NEW n \in Nat, m <= n,
           \A i \in 1..m : s[i] = t[i],
           NEW g, FoldsTo(g, base, s, n), NEW h, FoldsTo(h, base, t, m)
    PROVE  g[1..m] = h[1..m]
<1> DEFINE N == {k \in Nat : k <= m => g[1..k] = h[1..k]}
<1>0. 1..0 = {}
  OBVIOUS
<1>1. 0 \in N
  <2>1. {} \in SUBSET (1..m) /\ {} \in SUBSET (1..n)
    OBVIOUS
  <2>2. g[{}] = base /\ h[{}] = base
    BY <2>1 DEF FoldsTo
  <2> QED BY <2>2, <1>0
<1>2. ASSUME NEW k \in Nat, k \in N PROVE k + 1 \in N
  <2> SUFFICES ASSUME k + 1 <= m PROVE g[1..(k + 1)] = h[1..(k + 1)]
    OBVIOUS
  <2>1. 1..(k + 1) \in SUBSET (1..m) /\ 1..(k + 1) \in SUBSET (1..n)
    OBVIOUS
  <2>2. Max(1..(k + 1)) = k + 1 /\ (1..(k + 1)) \ {k + 1} = 1..k /\ 1..(k + 1) # {}
    <3>1. k + 1 \in Nat \ {0} /\ (k + 1) - 1 = k
      OBVIOUS
    <3> QED BY <3>1, MaxOfInterval
  <2> DEFINE u == 1..(k + 1)
  <2>3. g[u] = IF u = {} THEN base ELSE Op(g[u \ {Max(u)}], s[Max(u)])
    BY <2>1 DEF FoldsTo
  <2>4. h[u] = IF u = {} THEN base ELSE Op(h[u \ {Max(u)}], t[Max(u)])
    BY <2>1 DEF FoldsTo
  <2>5. g[1..k] = h[1..k] /\ s[k + 1] = t[k + 1]
    BY <1>2
  <2> QED BY <2>2, <2>3, <2>4, <2>5
<1> HIDE DEF N
<1>3. m \in N
  BY <1>1, <1>2, NatSetInduction
<1> QED BY <1>3 DEF N

LEMMA FoldIs ==
    ASSUME NEW base, NEW E, NEW s \in Seq(E)
    PROVE  \E g : FoldsTo(g, base, s, Len(s)) /\ Fold(base, s) = g[1..Len(s)]
<1>1. DOMAIN s = 1..Len(s) /\ Len(s) \in Nat
  OBVIOUS
<1> DEFINE g == CHOOSE iter : FoldsTo(iter, base, s, Len(s))
<1>2. FoldsTo(g, base, s, Len(s))
  BY <1>1, FoldExists
<1>3. Fold(base, s) = g[1..Len(s)]
  BY <1>1 DEF Fold, FoldLeft, MapThenFoldSet, FoldsTo
<1> QED BY <1>2, <1>3

-----------------------------------------------------------------------------
(* The laws *)

(* The fold of nothing is where it began. *)
LEMMA FoldEmpty ==
    ASSUME NEW base
    PROVE  Fold(base, <<>>) = base
<1>1. <<>> \in Seq({}) /\ Len(<<>>) = 0 /\ 1..0 = {}
  OBVIOUS
<1>2. PICK g : FoldsTo(g, base, <<>>, 0) /\ Fold(base, <<>>) = g[{}]
  BY <1>1, FoldIs
<1>3. {} \in SUBSET (1..0)
  OBVIOUS
<1> QED BY <1>2, <1>3 DEF FoldsTo

(* One more element is one more application of the operator. *)
LEMMA FoldAppend ==
    ASSUME NEW base, NEW E, NEW s \in Seq(E), NEW e \in E
    PROVE  Fold(base, Append(s, e)) = Op(Fold(base, s), e)
<1> DEFINE t == Append(s, e)
           n == Len(s)
<1>1. /\ t \in Seq(E) /\ n \in Nat /\ Len(t) = n + 1 /\ t[n + 1] = e
      /\ \A i \in 1..n : t[i] = s[i]
  OBVIOUS
<1> HIDE DEF t, n
<1>2. PICK g : FoldsTo(g, base, t, n + 1) /\ Fold(base, t) = g[1..(n + 1)]
  BY <1>1, FoldIs
<1>3. PICK h : FoldsTo(h, base, s, n) /\ Fold(base, s) = h[1..n]
  BY <1>1, FoldIs DEF n
<1>4. g[1..n] = h[1..n]
  BY <1>1, <1>2, <1>3, FoldsAgree
<1>5. Max(1..(n + 1)) = n + 1 /\ (1..(n + 1)) \ {n + 1} = 1..n /\ 1..(n + 1) # {}
  <2>1. n + 1 \in Nat \ {0} /\ (n + 1) - 1 = n
    BY <1>1
  <2> QED BY <2>1, MaxOfInterval
<1>6. g[1..(n + 1)] = Op(g[1..n], t[n + 1])
  BY <1>2, <1>5 DEF FoldsTo
<1> QED BY <1>1, <1>2, <1>3, <1>4, <1>6 DEF t

(* What the operator keeps, the fold keeps. *)
LEMMA FoldIn ==
    ASSUME NEW E, NEW T, NEW base \in T, \A x \in T, e \in E : Op(x, e) \in T
    PROVE  \A s \in Seq(E) : Fold(base, s) \in T
<1> DEFINE S == {s \in Seq(E) : Fold(base, s) \in T}
<1>1. <<>> \in S
  BY FoldEmpty
<1>2. ASSUME NEW s \in Seq(E), NEW e \in E, s \in S PROVE Append(s, e) \in S
  BY <1>2, FoldAppend
<1> HIDE DEF S
<1>3. Seq(E) \subseteq S
  BY <1>1, <1>2, SeqSetInduction
<1> QED BY <1>3 DEF S
=============================================================================
