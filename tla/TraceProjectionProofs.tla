------------------------ MODULE TraceProjectionProofs ------------------------
(***************************************************************************)
(* Proof that the listener adapter's hidden trace is the top-level part of *)
(* its visible trace (HiddenIsVisibleProjection), in every reachable state *)
(* of the validator, for every value of the constants.                     *)
(*                                                                         *)
(* The k-th top-level entry of visible is the one with k - 1 top-level    *)
(* entries before it (TopPos).  transition appends to visible a block of  *)
(* routed entries and then the top-level pair, both past every position   *)
(* there is: the ranks of the old positions do not change, and the new    *)
(* top-level positions get the next ranks.  The invariant ProjOK carries  *)
(* the count of top-level positions and a position of every rank, and     *)
(* the rank is strictly increasing, so the position of a rank is unique.   *)
(***************************************************************************)
EXTENDS TraceValidatorProofs, FiniteSetTheorems, TLAPS

(***************************************************************************)
(* Ranks of positions in a finite set of positions.                        *)
(***************************************************************************)

\* A set of positions below a bound is finite.
LEMMA PositionsFinite ==
  ASSUME NEW L \in Nat, NEW S \in SUBSET (1..L)
  PROVE  IsFiniteSet(S) /\ Cardinality(S) \in Nat
<1>1. IsFiniteSet(1..L)
  BY FS_Interval
<1>2. IsFiniteSet(S)
  BY <1>1, FS_Subset
<1>3. QED
  BY <1>2, FS_CardinalityType

\* Positions past N added to positions up to N add their number.
LEMMA CardAddInterval ==
  ASSUME NEW N \in Nat, NEW S \in SUBSET (1..N), NEW q \in Nat
  PROVE  /\ IsFiniteSet(S \cup (N + 1..N + q))
         /\ Cardinality(S \cup (N + 1..N + q)) = Cardinality(S) + q
<1> DEFINE T == N + 1..N + q
<1>1. IsFiniteSet(S) /\ Cardinality(S) \in Nat
  BY PositionsFinite
<1>2. IsFiniteSet(T) /\ Cardinality(T) = q
  BY FS_Interval
<1>3. S \cap T = {}
  OBVIOUS
<1>4. Cardinality(S \cap T) = 0
  BY <1>3, FS_EmptySet
<1>5. IsFiniteSet(S \cup T)
      /\ Cardinality(S \cup T) = Cardinality(S) + Cardinality(T) - Cardinality(S \cap T)
  BY <1>1, <1>2, FS_Union
<1>6. QED
  BY <1>1, <1>2, <1>4, <1>5

\* The rank is strictly increasing.
LEMMA RankMono ==
  ASSUME NEW S \in SUBSET Nat, IsFiniteSet(S), NEW i \in S, NEW j \in S, i < j
  PROVE  Rank(S, i) < Rank(S, j)
<1> DEFINE A == {x \in S : x < i}
           B == {x \in S : x < j}
<1>1. A \cup {i} \subseteq B /\ i \notin A
  <2>1. i \in B /\ i \notin A
    OBVIOUS
  <2>2. ASSUME NEW x \in A PROVE x \in B
    <3>1. x \in Nat /\ x \in S /\ x < i
      OBVIOUS
    <3>2. QED
      BY <3>1
  <2>3. QED
    BY <2>1, <2>2
<1>2. IsFiniteSet(A) /\ IsFiniteSet(B)
  BY FS_Subset
<1>3. Cardinality(A \cup {i}) = Cardinality(A) + 1
  BY <1>1, <1>2, FS_AddElement
<1>4. Cardinality(A \cup {i}) <= Cardinality(B)
  BY <1>1, <1>2, FS_Subset
<1>5. Cardinality(A) \in Nat /\ Cardinality(B) \in Nat
  BY <1>2, FS_CardinalityType
<1>6. QED
  BY <1>3, <1>4, <1>5 DEF Rank

\* A rank is a number.
LEMMA RankNat ==
  ASSUME NEW S, IsFiniteSet(S), NEW j
  PROVE  Rank(S, j) \in Nat
<1>1. IsFiniteSet({i \in S : i < j})
  BY FS_Subset
<1>2. QED
  BY <1>1, FS_CardinalityType DEF Rank

\* So a rank is held by at most one position, and CHOOSE finds it.
LEMMA ChooseRank ==
  ASSUME NEW S \in SUBSET Nat, IsFiniteSet(S), NEW w \in S, NEW r,
         Rank(S, w) = r
  PROVE  (CHOOSE j \in S : Rank(S, j) = r) = w
<1>1. \A j \in S : Rank(S, j) = r => j = w
  <2> SUFFICES ASSUME NEW j \in S, Rank(S, j) = r, j # w PROVE FALSE
    OBVIOUS
  <2>0. Rank(S, j) \in Nat /\ j \in Nat /\ w \in Nat
    BY RankNat
  <2>1. CASE j < w
    <3>1. Rank(S, j) < Rank(S, w)
      BY <2>1, RankMono
    <3>2. QED
      BY <2>0, <3>1
  <2>2. CASE w < j
    <3>1. Rank(S, w) < Rank(S, j)
      BY <2>2, RankMono
    <3>2. QED
      BY <2>0, <3>1
  <2>3. QED
    BY <2>0, <2>1, <2>2
<1>2. QED
  BY <1>1

\* Positions past j do not change its rank.
LEMMA RankPrefix ==
  ASSUME NEW S, NEW T, NEW j, \A t \in T : ~(t < j)
  PROVE  Rank(S \cup T, j) = Rank(S, j)
<1>1. {i \in S \cup T : i < j} = {i \in S : i < j}
  OBVIOUS
<1>2. QED
  BY <1>1 DEF Rank

\* The m-th of the positions added past N comes after all of S and the
\* m - 1 added before it.
LEMMA RankNew ==
  ASSUME NEW N \in Nat, NEW S \in SUBSET (1..N), NEW p \in Nat, NEW m \in 1..p
  PROVE  Rank(S \cup (N + 1..N + p), N + m) = Cardinality(S) + (m - 1)
<1>1. {i \in S \cup (N + 1..N + p) : i < N + m} = S \cup (N + 1..N + (m - 1))
  <2> SUFFICES ASSUME NEW i
               PROVE  i \in S \cup (N + 1..N + p) /\ i < N + m
                        <=> i \in S \cup (N + 1..N + (m - 1))
    OBVIOUS
  <2>1. CASE i \in S
    BY <2>1
  <2>2. CASE i \notin S
    BY <2>2
  <2>3. QED
    BY <2>1, <2>2
<1>2. Cardinality(S \cup (N + 1..N + (m - 1))) = Cardinality(S) + (m - 1)
  BY CardAddInterval
<1>3. QED
  BY <1>1, <1>2 DEF Rank

-----------------------------------------------------------------------------
(***************************************************************************)
(* The projection on explicit traces: a visible trace vis with history vo *)
(* and a hidden trace h.                                                   *)
(***************************************************************************)
TIdx(vis, vo) == {i \in 1..Len(vis) : vo[i].top}

TPos(vis, vo, k) == CHOOSE j \in TIdx(vis, vo) : Rank(TIdx(vis, vo), j) = k - 1

\* h has one entry per top-level position, every rank is held, and entry
\* k of h is the visible entry of rank k - 1.
ProjOK(vis, vo, h) ==
  /\ Cardinality(TIdx(vis, vo)) = Len(h)
  /\ \A k \in 1..Len(h) : \E j \in TIdx(vis, vo) : Rank(TIdx(vis, vo), j) = k - 1
  /\ \A k \in 1..Len(h) : h[k] = vis[TPos(vis, vo, k)]

\* The entries of two concatenations in a row.
LEMMA Concat3Entries ==
  ASSUME NEW X, NEW s1 \in Seq(X), NEW s2 \in Seq(X), NEW s3 \in Seq(X)
  PROVE  /\ (s1 \o s2) \o s3 \in Seq(X)
         /\ Len((s1 \o s2) \o s3) = Len(s1) + Len(s2) + Len(s3)
         /\ \A i \in 1..Len(s1) : ((s1 \o s2) \o s3)[i] = s1[i]
         /\ \A i \in Len(s1) + 1..Len(s1) + Len(s2) :
              ((s1 \o s2) \o s3)[i] = s2[i - Len(s1)]
         /\ \A m \in 1..Len(s3) : ((s1 \o s2) \o s3)[Len(s1) + Len(s2) + m] = s3[m]
<1> DEFINE N == Len(s1) + Len(s2)
<1>1. /\ s1 \o s2 \in Seq(X) /\ Len(s1 \o s2) = N
      /\ \A i \in 1..N : (s1 \o s2)[i] = IF i <= Len(s1) THEN s1[i] ELSE s2[i - Len(s1)]
  BY ConcatProperties
<1>2. /\ (s1 \o s2) \o s3 \in Seq(X) /\ Len((s1 \o s2) \o s3) = N + Len(s3)
      /\ \A i \in 1..N + Len(s3) :
           ((s1 \o s2) \o s3)[i] = IF i <= N THEN (s1 \o s2)[i] ELSE s3[i - N]
  BY <1>1, ConcatProperties
<1>3. Len(s1) \in Nat /\ Len(s2) \in Nat /\ Len(s3) \in Nat
  BY LenProperties
<1>4. QED
  BY <1>1, <1>2, <1>3

\* What transition appends: routed entries, then the top-level pair.
LEMMA AppendBlocks ==
  ASSUME NEW vis \in Seq(EventOrNil), NEW vo \in Seq(Origin), Len(vo) = Len(vis),
         NEW h \in Seq(EventOrNil), ProjOK(vis, vo, h),
         NEW ds \in Seq(EventOrNil), NEW P \in Seq(EventOrNil), NEW c \in Nat
  PROVE  ProjOK((vis \o ds) \o P,
                vo \o Tags(Len(ds), c, FALSE) \o Tags(Len(P), c, TRUE),
                h \o P)
<1> DEFINE nv == Len(vis)
           nd == Len(ds)
           np == Len(P)
           nn == nv + nd
           vis2 == (vis \o ds) \o P
           vo2 == vo \o Tags(nd, c, FALSE) \o Tags(np, c, TRUE)
           tops == TIdx(vis, vo)
           tops2 == TIdx(vis2, vo2)
           h2 == h \o P
<1>0. SUFFICES /\ Cardinality(tops2) = Len(h2)
               /\ \A k \in 1..Len(h2) : \E j \in tops2 : Rank(tops2, j) = k - 1
               /\ \A k \in 1..Len(h2) :
                    h2[k] = vis2[CHOOSE j \in tops2 : Rank(tops2, j) = k - 1]
  BY DEF ProjOK, TPos
<1>1. nv \in Nat /\ nd \in Nat /\ np \in Nat /\ Len(h) \in Nat
  BY LenProperties
<1>1a. /\ Cardinality(tops) = Len(h)
       /\ \A k \in 1..Len(h) : \E j \in tops : Rank(tops, j) = k - 1
       /\ \A k \in 1..Len(h) : h[k] = vis[CHOOSE j \in tops : Rank(tops, j) = k - 1]
  BY DEF ProjOK, TPos
<1>1b. tops = {i \in 1..nv : vo[i].top} /\ tops2 = {i \in 1..Len(vis2) : vo2[i].top}
  BY DEF TIdx
<1>1c. /\ Len(h2) = Len(h) + np
       /\ \A k \in 1..Len(h) : h2[k] = h[k]
       /\ \A m \in 1..np : h2[Len(h) + m] = P[m]
  BY <1>1, ConcatProperties
<1> HIDE DEF vis2, vo2, h2, tops, tops2
<1>2. /\ Len(vis2) = nn + np
      /\ \A i \in 1..nv : vis2[i] = vis[i]
      /\ \A m \in 1..np : vis2[nn + m] = P[m]
  BY Concat3Entries DEF vis2
<1>3. /\ Len(vo2) = nn + np
      /\ \A i \in 1..nv : vo2[i] = vo[i]
      /\ \A i \in nv + 1..nn : vo2[i].top = FALSE
      /\ \A m \in 1..np : vo2[nn + m].top = TRUE
  <2> DEFINE T1 == Tags(nd, c, FALSE)
             T2 == Tags(np, c, TRUE)
  <2>1. T1 \in Seq(Origin) /\ Len(T1) = nd /\ T2 \in Seq(Origin) /\ Len(T2) = np
    BY <1>1, TagsType
  <2>1a. \A s1, s2, s3 \in Seq(Origin) :
          /\ Len((s1 \o s2) \o s3) = Len(s1) + Len(s2) + Len(s3)
          /\ \A i \in 1..Len(s1) : ((s1 \o s2) \o s3)[i] = s1[i]
          /\ \A i \in Len(s1) + 1..Len(s1) + Len(s2) :
               ((s1 \o s2) \o s3)[i] = s2[i - Len(s1)]
          /\ \A m \in 1..Len(s3) : ((s1 \o s2) \o s3)[Len(s1) + Len(s2) + m] = s3[m]
    BY Concat3Entries
  <2>2. /\ Len((vo \o T1) \o T2) = Len(vo) + Len(T1) + Len(T2)
        /\ \A i \in 1..Len(vo) : ((vo \o T1) \o T2)[i] = vo[i]
        /\ \A i \in Len(vo) + 1..Len(vo) + Len(T1) :
             ((vo \o T1) \o T2)[i] = T1[i - Len(vo)]
        /\ \A m \in 1..Len(T2) : ((vo \o T1) \o T2)[Len(vo) + Len(T1) + m] = T2[m]
    BY <2>1, <2>1a
  <2>3. vo2 = (vo \o T1) \o T2
    BY DEF vo2
  <2> HIDE DEF T1, T2
  <2>4. /\ \A i \in nv + 1..nn : T1[i - nv] = [call |-> c, top |-> FALSE]
        /\ \A m \in 1..np : T2[m] = [call |-> c, top |-> TRUE]
    BY <1>1 DEF Tags, T1, T2
  <2>5. Len(vo) = nv /\ Len(vo2) = nn + np
    BY <1>1, <2>1, <2>2, <2>3
  <2>6. \A i \in 1..nv : vo2[i] = vo[i]
    BY <2>2, <2>3, <2>5
  <2>7. \A i \in nv + 1..nn : vo2[i].top = FALSE
    <3> SUFFICES ASSUME NEW i \in nv + 1..nn PROVE vo2[i].top = FALSE
      OBVIOUS
    <3>1. vo2[i] = T1[i - nv]
      BY <1>1, <2>1, <2>2, <2>3, <2>5
    <3>2. T1[i - nv] = [call |-> c, top |-> FALSE]
      BY <2>4
    <3>3. QED
      BY <3>1, <3>2
  <2>8. \A m \in 1..np : vo2[nn + m].top = TRUE
    <3> SUFFICES ASSUME NEW m \in 1..np PROVE vo2[nn + m].top = TRUE
      OBVIOUS
    <3>1. vo2[nn + m] = T2[m]
      BY <1>1, <2>1, <2>2, <2>3, <2>5
    <3>2. T2[m] = [call |-> c, top |-> TRUE]
      BY <2>4
    <3>3. QED
      BY <3>1, <3>2
  <2>9. QED
    BY <2>5, <2>6, <2>7, <2>8
<1>4. tops2 = tops \cup (nn + 1..nn + np)
  <2> SUFFICES ASSUME NEW i PROVE i \in tops2 <=> i \in tops \cup (nn + 1..nn + np)
    OBVIOUS
  <2>0. tops2 = {x \in 1..nn + np : vo2[x].top}
    BY <1>1b, <1>2
  <2>1. CASE i \in 1..nv
    <3>1. i \in 1..nn + np /\ i \notin nn + 1..nn + np /\ vo2[i] = vo[i]
      BY <1>1, <1>3, <2>1
    <3>2. QED
      BY <1>1b, <2>0, <2>1, <3>1, Zenon
  <2>2. CASE i \in nv + 1..nn
    BY <1>1, <1>1b, <1>3, <2>0, <2>2
  <2>3. CASE i \in nn + 1..nn + np
    <3>1. i - nn \in 1..np /\ i = nn + (i - nn)
      BY <1>1, <2>3
    <3>2. vo2[i].top = TRUE
      BY <1>3, <3>1
    <3>3. QED
      BY <1>1, <2>0, <2>3, <3>2
  <2>4. CASE i \notin 1..nn + np
    BY <1>1, <1>1b, <2>0, <2>4
  <2>5. QED
    BY <1>1, <2>1, <2>2, <2>3, <2>4
<1>5. /\ tops \subseteq 1..nn /\ tops2 \subseteq Nat
      /\ IsFiniteSet(tops) /\ IsFiniteSet(tops2) /\ Cardinality(tops) \in Nat
      /\ Cardinality(tops2) = Cardinality(tops) + np
  <2>1. tops \subseteq 1..nn /\ nn \in Nat
    BY <1>1, <1>1b
  <2>1a. \A n0 \in Nat : \A s0 \in SUBSET (1..n0), q \in Nat :
           /\ IsFiniteSet(s0 \cup (n0 + 1..n0 + q))
           /\ Cardinality(s0 \cup (n0 + 1..n0 + q)) = Cardinality(s0) + q
    BY CardAddInterval
  <2>2. /\ IsFiniteSet(tops \cup (nn + 1..nn + np))
        /\ Cardinality(tops \cup (nn + 1..nn + np)) = Cardinality(tops) + np
    <3>1. tops \in SUBSET (1..nn) /\ nn \in Nat /\ np \in Nat
      BY <1>1, <2>1
    <3> HIDE DEF nn, np
    <3>2. QED
      BY <3>1, <2>1a
  <2>3. IsFiniteSet(tops) /\ Cardinality(tops) \in Nat
    BY <1>1, <2>1, PositionsFinite
  <2>4. tops2 \subseteq Nat
    BY <1>1b
  <2>5. QED
    BY <1>4, <2>1, <2>2, <2>3, <2>4
<1>6. Cardinality(tops2) = Len(h2)
  BY <1>1a, <1>1c, <1>5
<1>7. \A j \in tops : Rank(tops2, j) = Rank(tops, j)
  <2> SUFFICES ASSUME NEW j \in tops PROVE Rank(tops2, j) = Rank(tops, j)
    OBVIOUS
  <2>1. \A t \in nn + 1..nn + np : ~(t < j)
    BY <1>1, <1>5
  <2>2. Rank(tops \cup (nn + 1..nn + np), j) = Rank(tops, j)
    BY <2>1, RankPrefix
  <2>3. QED
    BY <1>4, <2>2
<1>8. \A m \in 1..np : Rank(tops2, nn + m) = Len(h) + (m - 1)
  <2> SUFFICES ASSUME NEW m \in 1..np PROVE Rank(tops2, nn + m) = Len(h) + (m - 1)
    OBVIOUS
  <2>1. nn \in Nat /\ tops \in SUBSET (1..nn)
    BY <1>1, <1>5
  <2>1a. \A n0 \in Nat : \A s0 \in SUBSET (1..n0), q \in Nat : \A m0 \in 1..q :
           Rank(s0 \cup (n0 + 1..n0 + q), n0 + m0) = Cardinality(s0) + (m0 - 1)
    BY RankNew
  <2>2. Rank(tops \cup (nn + 1..nn + np), nn + m) = Cardinality(tops) + (m - 1)
    BY <1>1, <2>1, <2>1a
  <2>3. QED
    BY <1>1a, <1>4, <2>2
<1>9. \A m \in 1..np : nn + m \in tops2
  BY <1>1, <1>4
<1>10. \A k \in 1..Len(h2) : \E j \in tops2 : Rank(tops2, j) = k - 1
  <2> SUFFICES ASSUME NEW k \in 1..Len(h2) PROVE \E j \in tops2 : Rank(tops2, j) = k - 1
    OBVIOUS
  <2>1. CASE k <= Len(h)
    <3>1. PICK w \in tops : Rank(tops, w) = k - 1
      BY <1>1, <1>1a, <1>1c, <2>1
    <3>2. QED
      BY <1>4, <1>7, <3>1
  <2>2. CASE k > Len(h)
    <3>1. k - Len(h) \in 1..np /\ k - 1 = Len(h) + (k - Len(h) - 1)
      BY <1>1, <1>1c, <2>2
    <3>2. QED
      BY <1>8, <1>9, <3>1
  <2>3. QED
    BY <1>1, <2>1, <2>2
<1>11. \A k \in 1..Len(h2) : h2[k] = vis2[CHOOSE j \in tops2 : Rank(tops2, j) = k - 1]
  <2> SUFFICES ASSUME NEW k \in 1..Len(h2)
               PROVE  h2[k] = vis2[CHOOSE j \in tops2 : Rank(tops2, j) = k - 1]
    OBVIOUS
  <2>0. \A w \in tops2 : Rank(tops2, w) = k - 1 =>
          (CHOOSE j \in tops2 : Rank(tops2, j) = k - 1) = w
    BY <1>5, ChooseRank
  <2>1. CASE k <= Len(h)
    <3>1. PICK w \in tops : Rank(tops, w) = k - 1
      BY <1>1, <1>1a, <1>1c, <2>1
    <3>2. (CHOOSE j \in tops : Rank(tops, j) = k - 1) = w
      BY <1>5, <3>1, ChooseRank
    <3>3. (CHOOSE j \in tops2 : Rank(tops2, j) = k - 1) = w
      BY <1>4, <1>7, <2>0, <3>1
    <3>3a. k \in 1..Len(h)
      BY <1>1, <1>1c, <2>1
    <3>4. w \in 1..nv
      BY <1>1b, Zenon
    <3>4a. h[k] = vis[w]
      BY <1>1a, <3>2, <3>3a
    <3>4b. h2[k] = h[k] /\ vis2[w] = vis[w]
      BY <1>2, <1>1c, <3>3a, <3>4
    <3>5. QED
      BY <3>3, <3>4a, <3>4b
  <2>2. CASE k > Len(h)
    <3> DEFINE m == k - Len(h)
    <3>1. m \in 1..np /\ k = Len(h) + m /\ k - 1 = Len(h) + (m - 1)
      BY <1>1, <1>1c, <2>2
    <3>2. (CHOOSE j \in tops2 : Rank(tops2, j) = k - 1) = nn + m
      BY <1>8, <1>9, <2>0, <3>1
    <3>3. QED
      BY <1>2, <1>1c, <3>1, <3>2
  <2>3. QED
    BY <1>1, <2>1, <2>2
<1>12. QED
  BY <1>6, <1>10, <1>11



(***************************************************************************)
(* The inductive invariant: hidden is the projection of visible onto its  *)
(* top-level positions, stated through ranks so that each step can be     *)
(* reasoned about without recursion.                                       *)
(***************************************************************************)
ProjInv == ProjOK(visible, vorigin, hidden)

\* Empty traces: the initial state and resetTrace (316-319).
LEMMA ProjEmpty == ProjOK(<< >>, << >>, << >>)
<1>1. TIdx(<< >>, << >>) = {}
  BY DEF TIdx
<1>2. Cardinality({}) = 0
  BY FS_EmptySet
<1>3. Len(<< >>) = 0 /\ 1..0 = {}
  OBVIOUS
<1>4. QED
  BY <1>1, <1>2, <1>3 DEF ProjOK

\* What transition appends to both traces is a sequence of events or nil.
LEMMA TopPairType ==
  ASSUME NEW in \in EventOrNil, NEW res \in Event \cup {Panic}
  PROVE  TopPair(in, res) \in Seq(EventOrNil)
<1>1. CASE res = Panic
  BY <1>1, EmptySeq DEF TopPair
<1>2. CASE res # Panic
  <2>1. <<in, res>> \in [1..2 -> EventOrNil]
    BY <1>2 DEF EventOrNil
  <2>2. QED
    BY <1>2, <2>1, SeqDef DEF TopPair
<1>3. QED
  BY <1>1, <1>2

(***************************************************************************)
(* transition(in) (352-378): the dispatches made during handle (329-334)  *)
(* put the routed events in visible alone, then the top-level pair goes   *)
(* into both traces, tagged top-level in the history.                      *)
(***************************************************************************)
LEMMA TransitionProj ==
  ASSUME AdapterTypeOK, ProjInv, NEW in \in EventOrNil, NEW res, Transition(in, res)
  PROVE  ProjInv'
<1>1. PICK ds \in DispatchSeqs : Handle(in, ds, res)
  BY DEF Transition
<1>2. /\ res \in Event \cup {Panic}
      /\ ds \in Seq(EventOrNil)
      /\ nsteps + 1 \in Nat
  <2>1. ds \in Seq(Event)
    BY DispatchSeqsType
  <2>2. Seq(Event) \subseteq Seq(EventOrNil)
    BY DEF EventOrNil
  <2>3. QED
    BY <2>1, <2>2 DEF Transition, AdapterTypeOK
<1>3. TopPair(in, res) \in Seq(EventOrNil)
  BY <1>2, TopPairType
<1>4. /\ hidden' = hidden \o TopPair(in, res)
      /\ visible' = (visible \o ds) \o TopPair(in, res)
      /\ vorigin' = vorigin \o Tags(Len(ds), nsteps + 1, FALSE)
                           \o Tags(Len(TopPair(in, res)), nsteps + 1, TRUE)
  BY <1>1 DEF Handle, Extend
<1>5. ProjOK((visible \o ds) \o TopPair(in, res),
             vorigin \o Tags(Len(ds), nsteps + 1, FALSE)
                     \o Tags(Len(TopPair(in, res)), nsteps + 1, TRUE),
             hidden \o TopPair(in, res))
  BY <1>2, <1>3, AppendBlocks DEF AdapterTypeOK, ProjInv
<1>6. QED
  BY <1>4, <1>5 DEF ProjInv


\* The initial state: both traces and the history are empty.
LEMMA ProjInit == Init => ProjInv
BY ProjEmpty DEF Init, AdapterInit, ProjInv

\* Every step keeps the projection: transition extends both traces, reset
\* clears both, and the validator's own steps leave them alone.
LEMMA ProjStep == TypeOK /\ ProjInv /\ [Next]_vars => ProjInv'
<1> SUFFICES ASSUME TypeOK, ProjInv, [Next]_vars PROVE ProjInv'
  OBVIOUS
<1>0. UNCHANGED <<hidden, visible, vorigin>> => ProjInv'
  BY DEF ProjInv
<1>1. CASE DirectTransition
  <2>1. PICK in \in TestInputs, res \in Event \cup {Panic} : Transition(in, res)
    BY <1>1 DEF DirectTransition
  <2>2. QED
    BY <2>1, TransitionProj, TestEventsAssumption DEF TypeOK
<1>2. CASE Reset
  BY <1>2, ProjEmpty DEF Reset, ResetTrace, ProjInv
<1>3. ASSUME NEW c \in TestCases,
             ValidateMalformed(c) \/ ValidateNilOutput(c) \/ ValidateBegin(c)
      PROVE  ProjInv'
  BY <1>0, <1>3 DEF ValidateMalformed, ValidateNilOutput, ValidateBegin,
                   StartValidation
<1>4. CASE RunStep
  <2>1. PICK res \in Event \cup {Panic} : Transition(tc.inputs[idx], res)
    BY <1>4 DEF RunStep
  <2>2. tc.inputs[idx] \in EventOrNil
    BY <1>4, TestEventsAssumption DEF RunStep, TypeOK, ValidatorTypeOK
  <2>3. QED
    BY <2>1, <2>2, TransitionProj DEF TypeOK
<1>5. CASE RunDone
  BY <1>0, <1>5 DEF RunDone, adapterVars
<1>6. CASE Check
  BY <1>0, <1>6 DEF Check
<1>7. CASE UNCHANGED vars
  BY <1>0, <1>7 DEF vars, adapterVars
<1>8. QED
  BY <1>1, <1>2, <1>3, <1>4, <1>5, <1>6, <1>7 DEF Next

\* The rank form of the projection is the property the runs check.
LEMMA ProjInvImpliesProjection ==
  AdapterTypeOK /\ ProjInv => HiddenIsVisibleProjection
<1> SUFFICES ASSUME AdapterTypeOK, ProjInv PROVE hidden = VisibleTop
  BY DEF HiddenIsVisibleProjection
<1>1. TopIdx = TIdx(visible, vorigin)
  BY DEF TopIdx, TIdx
<1>2. \A k : TopPos(k) = TPos(visible, vorigin, k)
  BY <1>1 DEF TopPos, TPos
<1>3. Cardinality(TopIdx) = Len(hidden)
  BY <1>1 DEF ProjInv, ProjOK
<1>4. \A k \in 1..Len(hidden) : hidden[k] = visible[TopPos(k)]
  BY <1>2 DEF ProjInv, ProjOK
<1>5. hidden = [k \in 1..Len(hidden) |-> hidden[k]]
  BY DEF AdapterTypeOK
<1>6. QED
  BY <1>3, <1>4, <1>5 DEF VisibleTop

(***************************************************************************)
(* The hidden trace is always the visible trace with the router's inner   *)
(* events removed: transition (352-378) extends both with the same pair   *)
(* after the dispatches of handle (329-334) have extended visible alone,   *)
(* a panic extends neither with a pair, and resetTrace (316-319) clears   *)
(* both.                                                                   *)
(***************************************************************************)
THEOREM HiddenIsVisibleProjectionCorrect == Spec => []HiddenIsVisibleProjection
<1>1. Spec => []TypeOK
  BY TypeCorrect
<1>2. Spec => []ProjInv
  BY <1>1, ProjInit, ProjStep, PTL DEF Spec
<1>3. QED
  BY <1>1, <1>2, ProjInvImpliesProjection, PTL DEF TypeOK

=============================================================================
