-------------------- MODULE TestCaseBuilderRefinementProofs --------------------
(***************************************************************************)
(* Proof that testCaseBuilder implements its promise (spec 4.6): under    *)
(* the mapping that reads the builder's three slices and every built case *)
(* through Go's slice headers, AddInOutPair appends one input and one     *)
(* output, AddSafetyProp appends one property and Build hands out what   *)
(* the builder holds (ImplementsBuilderPromise).                           *)
(*                                                                         *)
(* The argument reuses the inductive invariant IInv of the immutability   *)
(* proof: valid headers and disjoint builder arrays make an append change *)
(* the read of its own field by one element at the end and leave the      *)
(* other two fields' reads alone; immutability makes the cases read their *)
(* snapshots, so Build adds exactly the builder's contents.               *)
(***************************************************************************)
EXTENDS TestCaseBuilderProofs

\* A valid header reads as a sequence of values.
LEMMA ReadSeq ==
  ASSUME NEW m \in Seq(Arrays), NEW s, ValidHdr(m, s)
  PROVE  Read(m, s) \in Seq(Vals)
<1>1. s \in Hdr /\ s.len <= s.cap
  BY DEF ValidHdr
<1>2. \A k \in 1..s.len : m[s.arr][k] \in Vals
  <2>1. CASE s.arr = 0
    BY <2>1, <1>1 DEF ValidHdr, Hdr
  <2>2. CASE s.arr # 0
    <3>1. m[s.arr] \in Arrays /\ DOMAIN m[s.arr] = 1..s.cap
      BY <2>2 DEF ValidHdr
    <3>2. QED
      BY <1>1, <3>1 DEF Arrays, Hdr
  <2>3. QED
    BY <2>1, <2>2
<1>3. QED
  BY <1>1, <1>2 DEF Read, Hdr

\* After x = append(x, v) the slice reads as before with v at the end,
\* whether the runtime wrote in place or copied into a fresh array.
LEMMA GoAppendRead ==
  ASSUME NEW m \in Seq(Arrays), NEW s, ValidHdr(m, s), NEW v \in Vals
  PROVE  Read(GoAppend(m, s, v).m, GoAppend(m, s, v).s) = Append(Read(m, s), v)
<1> DEFINE r == GoAppend(m, s, v)
           R == Read(m, s)
           A == Append(R, v)
           N == Read(r.m, r.s)
<1>1. s \in Hdr /\ s.len <= s.cap /\ s.len \in Nat
  BY DEF ValidHdr, Hdr
<1>2. r.m \in Seq(Arrays) /\ ValidHdr(r.m, r.s) /\ r.s.len = s.len + 1
  BY GoAppendProps
<1>3. R \in Seq(Vals) /\ N \in Seq(Vals)
  BY <1>2, ReadSeq
<1>4. /\ Len(R) = s.len /\ \A k \in 1..s.len : R[k] = m[s.arr][k]
      /\ Len(N) = s.len + 1 /\ \A k \in 1..s.len + 1 : N[k] = r.m[r.s.arr][k]
  BY <1>1, <1>2 DEF Read
<1> HIDE DEF R, N
<1>5. /\ A \in Seq(Vals) /\ Len(A) = s.len + 1 /\ A[s.len + 1] = v
      /\ \A k \in 1..s.len : A[k] = m[s.arr][k]
  BY <1>3, <1>4, AppendProperties
<1> HIDE DEF A
<1>6. \A k \in 1..s.len + 1 : r.m[r.s.arr][k] = IF k <= s.len THEN m[s.arr][k] ELSE v
  <2>1. CASE s.len < s.cap
    <3>1. s.arr \in 1..Len(m) /\ DOMAIN m[s.arr] = 1..s.cap
      BY <1>1, <2>1 DEF ValidHdr, Hdr
    <3>2. r.m = [m EXCEPT ![s.arr] = [m[s.arr] EXCEPT ![s.len + 1] = v]]
      BY <2>1 DEF GoAppend
    <3>6. r.s.arr = s.arr
      <4>1. r.s = [s EXCEPT !.len = s.len + 1]
        BY <2>1 DEF GoAppend
      <4>2. QED
        BY <1>1, <4>1 DEF Hdr
    <3>3. r.m[s.arr] = [m[s.arr] EXCEPT ![s.len + 1] = v]
      BY <3>1, <3>2
    <3>4. s.cap \in Nat /\ s.len + 1 <= s.cap
      BY <1>1, <2>1 DEF Hdr
    <3>5. QED
      BY <1>1, <2>1, <3>1, <3>2, <3>3, <3>4, <3>6
  <2>2. CASE ~(s.len < s.cap)
    <3> DEFINE c == IF s.cap = 0 THEN 1 ELSE 2 * s.cap
               a == [k \in 1..c |-> IF k <= s.len THEN m[s.arr][k]
                                    ELSE IF k = s.len + 1 THEN v ELSE Zero]
    <3>1. s.len = s.cap /\ c \in Nat /\ c >= s.len + 1
      BY <1>1, <2>2 DEF Hdr
    <3>2. r.m = Append(m, a) /\ r.s.arr = Len(m) + 1
      BY <2>2 DEF GoAppend
    <3>3. \A k \in 1..s.len + 1 : a[k] = IF k <= s.len THEN m[s.arr][k] ELSE v
      BY <1>1, <3>1
    <3> HIDE DEF a
    <3>4. r.m[Len(m) + 1] = a
      <4>1. m \in Seq(Arrays \cup {a})
        OBVIOUS
      <4>2. Append(m, a)[Len(m) + 1] = a
        BY <4>1, AppendProperties
      <4>3. QED
        BY <3>2, <4>2
    <3>5. QED
      BY <3>2, <3>3, <3>4
  <2>3. QED
    BY <2>1, <2>2
<1>7. \A k \in 1..Len(N) : N[k] = A[k]
  BY <1>1, <1>4, <1>5, <1>6
<1>8. QED
  BY <1>3, <1>4, <1>5, <1>7, SeqEqual DEF N, A, R

\* The builder's part of Good: valid headers into memory, distinct arrays.
BuilderOK(m, bb) ==
  /\ m \in Seq(Arrays)
  /\ bb \in Builders
  /\ \A X \in Fields : ValidHdr(m, bb[X])
  /\ Disjoint(bb)

\* The nil check of a builder field changes no field's read: a nil slice
\* and the fresh empty one both read as the empty sequence.
LEMMA EnsureReads ==
  ASSUME NEW m, NEW bb, BuilderOK(m, bb), NEW F \in Fields,
         NEW r, r = EnsureNonNil(m, bb[F])
  PROVE  /\ Read(r.m, r.s) = Read(m, bb[F])
         /\ \A X \in Fields \ {F} : Read(r.m, bb[X]) = Read(m, bb[X])
<1>1. m \in Seq(Arrays) /\ bb \in Builders /\ \A X \in Fields : ValidHdr(m, bb[X])
  BY DEF BuilderOK
<1>2. r.m \in Seq(Arrays) /\ Keeps(m, r.m, 0, 0) /\ r.s.len = bb[F].len
  BY <1>1, EnsureNonNilProps
<1>3. Read(r.m, r.s) = Read(m, bb[F])
  <2>1. CASE bb[F].arr = 0
    <3>1. bb[F].len = 0
      BY <1>1, <2>1 DEF ValidHdr, Hdr
    <3>2. QED
      BY <1>2, <3>1 DEF Read
  <2>2. CASE bb[F].arr # 0
    BY <2>2 DEF EnsureNonNil
  <2>3. QED
    BY <2>1, <2>2
<1>4. ASSUME NEW X \in Fields \ {F} PROVE Read(r.m, bb[X]) = Read(m, bb[X])
  <2>1. bb[X].arr # 0 \/ bb[X].len <= 0
    BY <1>1 DEF ValidHdr, Hdr
  <2>2. QED
    BY <1>1, <1>2, <2>1, ReadFrame
<1>5. QED
  BY <1>3, <1>4

\* An append to a non-nil builder field adds the value at the end of that
\* field's read and leaves the other two fields' reads alone, since they
\* never share the field's array.
LEMMA AppendReads ==
  ASSUME NEW m, NEW bb, BuilderOK(m, bb), NEW F \in Fields,
         bb[F].arr # 0, NEW v \in Vals, NEW r, r = GoAppend(m, bb[F], v)
  PROVE  /\ Read(r.m, r.s) = Append(Read(m, bb[F]), v)
         /\ \A X \in Fields \ {F} : Read(r.m, bb[X]) = Read(m, bb[X])
<1>1. m \in Seq(Arrays) /\ bb \in Builders /\ \A X \in Fields : ValidHdr(m, bb[X])
  BY DEF BuilderOK
<1>2. r.m \in Seq(Arrays) /\ Keeps(m, r.m, bb[F].arr, bb[F].len)
  BY <1>1, GoAppendProps
<1>3. Read(r.m, r.s) = Append(Read(m, bb[F]), v)
  BY <1>1, GoAppendRead
<1>4. ASSUME NEW X \in Fields \ {F} PROVE Read(r.m, bb[X]) = Read(m, bb[X])
  <2>1. bb[X].arr # bb[F].arr
    BY DEF BuilderOK, Disjoint
  <2>2. bb[F].len \in Nat
    BY <1>1 DEF Builders, Hdr
  <2>3. QED
    BY <1>1, <1>2, <2>1, <2>2, ReadFrame
<1>5. QED
  BY <1>3, <1>4

\* The two lemmas above with every parameter quantified, in the form the
\* provers instantiate on the intermediate states of an Add.
LEMMA EnsureReadsOwn ==
  \A m, bb, r : \A G \in Fields :
    BuilderOK(m, bb) /\ r = EnsureNonNil(m, bb[G])
    => Read(r.m, r.s) = Read(m, bb[G])
BY EnsureReads

LEMMA EnsureReadsOther ==
  \A m, bb, r : \A G \in Fields :
    BuilderOK(m, bb) /\ r = EnsureNonNil(m, bb[G])
    => \A X \in Fields \ {G} : Read(r.m, bb[X]) = Read(m, bb[X])
BY EnsureReads

LEMMA AppendReadsOwn ==
  \A m, bb, r, v : \A G \in Fields :
    BuilderOK(m, bb) /\ bb[G].arr # 0 /\ v \in Vals /\ r = GoAppend(m, bb[G], v)
    => Read(r.m, r.s) = Append(Read(m, bb[G]), v)
BY AppendReads

LEMMA AppendReadsOther ==
  \A m, bb, r, v : \A G \in Fields :
    BuilderOK(m, bb) /\ bb[G].arr # 0 /\ v \in Vals /\ r = GoAppend(m, bb[G], v)
    => \A X \in Fields \ {G} : Read(r.m, bb[X]) = Read(m, bb[X])
BY AppendReads

(***************************************************************************)
(* AddSafetyProp (524-529): the nil check, then the append, leave the      *)
(* builder holding one more property at the end and the same pairs.        *)
(***************************************************************************)
LEMMA AddSafetyPropContents ==
  ASSUME IInv, NEW p \in Prop, AddSafetyProp(p)
  PROVE  Contents(mem', b') = [Contents(mem, b) EXCEPT !.props = Append(@, p)]
<1> DEFINE F == "safetyProps"
           cs == Hdrs(built)
<1>1. Good(mem, b, cs, snap) /\ F \in Fields /\ p \in Vals /\ b \in Builders
  BY DEF IInv, Good, Fields, Vals
\* p0 is the nil check, p1 the append, bb1 the builder between them.
<1>2. PICK p0 : p0 = EnsureNonNil(mem, b[F])
  OBVIOUS
<1>3. PICK bb1 : bb1 = [b EXCEPT ![F] = p0.s]
  OBVIOUS
<1>4. PICK p1 : p1 = GoAppend(p0.m, bb1[F], p)
  OBVIOUS
<1>5. Good(p0.m, bb1, cs, snap) /\ p0.s.arr # 0
  BY <1>1, <1>2, <1>3, EnsureGood
<1>6. BuilderOK(mem, b) /\ BuilderOK(p0.m, bb1)
  BY <1>1, <1>5 DEF Good, BuilderOK
<1>7. bb1[F] = p0.s /\ \A X \in Fields \ {F} : bb1[X] = b[X]
  BY <1>1, <1>3 DEF Builders
<1>8. b' = [b EXCEPT !.safetyProps = p1.s] /\ mem' = p1.m
  BY <1>2, <1>3, <1>4, <1>7 DEF AddSafetyProp
<1>9. Read(p0.m, p0.s) = Read(mem, b[F])
      /\ \A X \in Fields \ {F} : Read(p0.m, b[X]) = Read(mem, b[X])
  <2>1. Read(p0.m, p0.s) = Read(mem, b[F])
    BY <1>1, <1>2, <1>6, EnsureReadsOwn
  <2>2. \A X \in Fields \ {F} : Read(p0.m, b[X]) = Read(mem, b[X])
    BY <1>1, <1>2, <1>6, EnsureReadsOther
  <2>3. QED
    BY <2>1, <2>2
<1>10. Read(p1.m, p1.s) = Append(Read(p0.m, bb1[F]), p)
       /\ \A X \in Fields \ {F} : Read(p1.m, bb1[X]) = Read(p0.m, bb1[X])
  <2>1. bb1[F].arr # 0
    BY <1>5, <1>7
  <2>2. Read(p1.m, p1.s) = Append(Read(p0.m, bb1[F]), p)
    BY <1>1, <1>4, <1>6, <2>1, AppendReadsOwn
  <2>3. \A X \in Fields \ {F} : Read(p1.m, bb1[X]) = Read(p0.m, bb1[X])
    BY <1>1, <1>4, <1>6, <2>1, AppendReadsOther
  <2>4. QED
    BY <2>2, <2>3
<1>11. /\ Read(mem', b'.safetyProps) = Append(Read(mem, b.safetyProps), p)
       /\ Read(mem', b'.inputs) = Read(mem, b.inputs)
       /\ Read(mem', b'.expectedOutputs) = Read(mem, b.expectedOutputs)
  BY <1>1, <1>7, <1>8, <1>9, <1>10 DEF Fields, Builders
<1>12. QED
  <2> DEFINE x == Read(mem, b.inputs)
             y == Read(mem, b.expectedOutputs)
             z == Read(mem, b.safetyProps)
  <2>1. Contents(mem, b) = [inputs |-> x, outputs |-> y, props |-> z]
    BY DEF Contents
  <2>2. Contents(mem', b') = [inputs |-> x, outputs |-> y, props |-> Append(z, p)]
    BY <1>11 DEF Contents
  <2> HIDE DEF x, y, z, Contents
  <2>3. [[inputs |-> x, outputs |-> y, props |-> z] EXCEPT !.props = Append(@, p)]
        = [inputs |-> x, outputs |-> y, props |-> Append(z, p)]
    OBVIOUS
  <2>4. QED
    BY <2>1, <2>2, <2>3

(***************************************************************************)
(* AddInOutPair (513-522): both nil checks, then both appends, leave the   *)
(* builder holding the input and the output at the ends of their slices  *)
(* and the same properties.                                                *)
(***************************************************************************)
LEMMA AddInOutPairContents ==
  ASSUME IInv, NEW in \in Input, NEW out \in Output, AddInOutPair(in, out)
  PROVE  Contents(mem', b') = [Contents(mem, b) EXCEPT !.inputs = Append(@, in),
                                                       !.outputs = Append(@, out)]
<1> DEFINE I == "inputs"
           O == "expectedOutputs"
           cs == Hdrs(built)
<1>1. Good(mem, b, cs, snap) /\ I \in Fields /\ O \in Fields /\ I # O
      /\ in \in Vals /\ out \in Vals /\ b \in Builders
  BY DEF IInv, Good, Fields, Vals
\* The four calls of 513-522 and the builders between them.
<1>2. PICK i0 : i0 = EnsureNonNil(mem, b[I])
  OBVIOUS
<1>3. PICK bb1 : bb1 = [b EXCEPT ![I] = i0.s]
  OBVIOUS
<1>4. PICK o0 : o0 = EnsureNonNil(i0.m, bb1[O])
  OBVIOUS
<1>5. PICK bb2 : bb2 = [bb1 EXCEPT ![O] = o0.s]
  OBVIOUS
<1>6. PICK i1 : i1 = GoAppend(o0.m, bb2[I], in)
  OBVIOUS
<1>7. PICK bb3 : bb3 = [bb2 EXCEPT ![I] = i1.s]
  OBVIOUS
<1>8. PICK o1 : o1 = GoAppend(i1.m, bb3[O], out)
  OBVIOUS
<1>9. /\ bb1[I] = i0.s /\ \A X \in Fields \ {I} : bb1[X] = b[X]
      /\ bb2[O] = o0.s /\ \A X \in Fields \ {O} : bb2[X] = bb1[X]
      /\ bb3[I] = i1.s /\ \A X \in Fields \ {I} : bb3[X] = bb2[X]
  BY <1>1, <1>3, <1>5, <1>7 DEF Builders
<1>10. Good(i0.m, bb1, cs, snap) /\ i0.s.arr # 0
  BY <1>1, <1>2, <1>3, EnsureGood
<1>11. Good(o0.m, bb2, cs, snap) /\ o0.s.arr # 0
  BY <1>1, <1>4, <1>5, <1>10, EnsureGood
<1>12. bb2[I].arr # 0 /\ bb3[O].arr # 0
  BY <1>1, <1>9, <1>10, <1>11
<1>13. Good(i1.m, bb3, cs, snap)
  BY <1>1, <1>6, <1>7, <1>11, <1>12, AppendGood
<1>14. /\ BuilderOK(mem, b) /\ BuilderOK(i0.m, bb1)
       /\ BuilderOK(o0.m, bb2) /\ BuilderOK(i1.m, bb3)
  BY <1>1, <1>10, <1>11, <1>13 DEF Good, BuilderOK
<1>15. b' = [b EXCEPT !.inputs = i1.s, !.expectedOutputs = o1.s] /\ mem' = o1.m
  <2>1. LET r == AddInOutPairOps(mem, in, out)
        IN  r.m = o1.m /\ r.inputs = i1.s /\ r.outputs = o1.s
    BY <1>1, <1>2, <1>3, <1>4, <1>5, <1>6, <1>7, <1>8, <1>9 DEF AddInOutPairOps
  <2>2. QED
    BY <2>1 DEF AddInOutPair
\* The reads, one call at a time.
<1>16. /\ Read(i0.m, i0.s) = Read(mem, b[I])
       /\ \A X \in Fields \ {I} : Read(i0.m, b[X]) = Read(mem, b[X])
  <2>1. Read(i0.m, i0.s) = Read(mem, b[I])
    BY <1>1, <1>2, <1>14, EnsureReadsOwn
  <2>2. \A X \in Fields \ {I} : Read(i0.m, b[X]) = Read(mem, b[X])
    BY <1>1, <1>2, <1>14, EnsureReadsOther
  <2>3. QED
    BY <2>1, <2>2
<1>17. /\ Read(o0.m, o0.s) = Read(i0.m, bb1[O])
       /\ \A X \in Fields \ {O} : Read(o0.m, bb1[X]) = Read(i0.m, bb1[X])
  <2>1. Read(o0.m, o0.s) = Read(i0.m, bb1[O])
    BY <1>1, <1>4, <1>14, EnsureReadsOwn
  <2>2. \A X \in Fields \ {O} : Read(o0.m, bb1[X]) = Read(i0.m, bb1[X])
    BY <1>1, <1>4, <1>14, EnsureReadsOther
  <2>3. QED
    BY <2>1, <2>2
<1>18. /\ Read(i1.m, i1.s) = Append(Read(o0.m, bb2[I]), in)
       /\ \A X \in Fields \ {I} : Read(i1.m, bb2[X]) = Read(o0.m, bb2[X])
  <2>1. Read(i1.m, i1.s) = Append(Read(o0.m, bb2[I]), in)
    BY <1>1, <1>6, <1>12, <1>14, AppendReadsOwn
  <2>2. \A X \in Fields \ {I} : Read(i1.m, bb2[X]) = Read(o0.m, bb2[X])
    BY <1>1, <1>6, <1>12, <1>14, AppendReadsOther
  <2>3. QED
    BY <2>1, <2>2
<1>19. /\ Read(o1.m, o1.s) = Append(Read(i1.m, bb3[O]), out)
       /\ \A X \in Fields \ {O} : Read(o1.m, bb3[X]) = Read(i1.m, bb3[X])
  <2>1. Read(o1.m, o1.s) = Append(Read(i1.m, bb3[O]), out)
    BY <1>1, <1>8, <1>12, <1>14, AppendReadsOwn
  <2>2. \A X \in Fields \ {O} : Read(o1.m, bb3[X]) = Read(i1.m, bb3[X])
    BY <1>1, <1>8, <1>12, <1>14, AppendReadsOther
  <2>3. QED
    BY <2>1, <2>2
\* Chained through the intermediate builders.
<1>20. /\ Read(mem', b'.inputs) = Append(Read(mem, b.inputs), in)
       /\ Read(mem', b'.expectedOutputs) = Append(Read(mem, b.expectedOutputs), out)
       /\ Read(mem', b'.safetyProps) = Read(mem, b.safetyProps)
  BY <1>1, <1>9, <1>15, <1>16, <1>17, <1>18, <1>19 DEF Fields, Builders
<1>21. QED
  <2> DEFINE x == Read(mem, b.inputs)
             y == Read(mem, b.expectedOutputs)
             z == Read(mem, b.safetyProps)
             xi == Append(x, in)
             yo == Append(y, out)
  <2>1. Contents(mem, b) = [inputs |-> x, outputs |-> y, props |-> z]
    BY DEF Contents
  <2>2. Contents(mem', b') = [inputs |-> xi, outputs |-> yo, props |-> z]
    BY <1>20 DEF Contents
  <2> HIDE DEF x, y, z, Contents
  \* The two substitutions of the EXCEPT one after the other.
  <2>3. [[inputs |-> x, outputs |-> y, props |-> z] EXCEPT !.inputs = Append(@, in)]
        = [inputs |-> xi, outputs |-> y, props |-> z]
    OBVIOUS
  <2> HIDE DEF xi
  <2>4. [[inputs |-> xi, outputs |-> y, props |-> z] EXCEPT !.outputs = Append(@, out)]
        = [inputs |-> xi, outputs |-> yo, props |-> z]
    OBVIOUS
  <2>5. QED
    BY <2>1, <2>2, <2>3, <2>4, Zenon

-----------------------------------------------------------------------------
(***************************************************************************)
(* The cases as the program reads them are the snapshots.  The inductive  *)
(* invariant adds to IInv that the snapshots form a sequence, so that the *)
(* cases read after Build are those read before it and one more.          *)
(***************************************************************************)
Snaps == [inputs : Seq(Vals), outputs : Seq(Vals), props : Seq(Vals)]

RInv == IInv /\ snap \in Seq(Snaps)

\* What a builder with valid headers holds is three sequences of values.
LEMMA ContentsType ==
  ASSUME NEW m, NEW bb, BuilderOK(m, bb) PROVE Contents(m, bb) \in Snaps
<1>1. m \in Seq(Arrays) /\ \A X \in Fields : ValidHdr(m, bb[X])
  BY DEF BuilderOK
<1>2. /\ Read(m, bb.inputs) \in Seq(Vals)
      /\ Read(m, bb.expectedOutputs) \in Seq(Vals)
      /\ Read(m, bb.safetyProps) \in Seq(Vals)
  BY <1>1, ReadSeq DEF Fields
<1>3. QED
  BY <1>2 DEF Contents, Snaps

\* The cases bs read in memory m beside the builder bb.
CasesOf(m, bb, bs) ==
  [j \in 1..Len(bs) |-> Contents(m, IF bs[j].alias THEN bb ELSE bs[j].hdr)]

\* The cases read through consistent headers are their snapshots.  Stated
\* for any memory, builder and history, to be used in both states of a step.
LEMMA CasesAreSnaps ==
  ASSUME NEW m, NEW bb, NEW bs \in Seq([alias : {FALSE}, hdr : Builders]),
         NEW sn \in Seq(Snaps), Good(m, bb, Hdrs(bs), sn)
  PROVE  CasesOf(m, bb, bs) = sn
<1>1. Len(Hdrs(bs)) = Len(bs) /\ Len(sn) = Len(bs)
  BY DEF Hdrs, Good
<1>2. ASSUME NEW j \in 1..Len(bs)
      PROVE  Contents(m, IF bs[j].alias THEN bb ELSE bs[j].hdr) = sn[j]
  <2>1. bs[j] \in [alias : {FALSE}, hdr : Builders]
    BY ElementOfSeq
  <2>2. Contents(m, Hdrs(bs)[j]) = sn[j]
    BY <1>1 DEF Good
  <2>3. QED
    BY <2>1, <2>2 DEF Hdrs
<1>3. QED
  BY <1>1, <1>2 DEF CasesOf

\* The inductive invariant holds initially.
LEMMA RInvInit == Init => RInv
<1>1. Init => snap \in Seq(Snaps)
  BY EmptySeq DEF Init
<1>2. QED
  BY <1>1, InitIInv DEF RInv

\* Every step keeps it: Build appends what the builder holds.
LEMMA RInvStep == RInv /\ [Next]_vars => RInv'
<1> SUFFICES ASSUME RInv, [Next]_vars PROVE RInv'
  OBVIOUS
<1>1. IInv'
  <2>1. CASE \E in \in Input, out \in Output : AddInOutPair(in, out)
    BY <2>1, AddInOutPairStep DEF RInv
  <2>2. CASE \E p \in Prop : AddSafetyProp(p)
    BY <2>2, AddSafetyPropStep DEF RInv
  <2>3. CASE Build
    BY <2>3, BuildStep DEF RInv
  <2>4. CASE UNCHANGED vars
    BY <2>4 DEF vars, IInv, RInv
  <2>5. QED
    BY <2>1, <2>2, <2>3, <2>4 DEF Next
<1>2. snap' \in Seq(Snaps)
  <2>1. CASE Build
    <3>1. Contents(mem, b) \in Snaps
      BY ContentsType DEF RInv, IInv, Good, BuilderOK
    <3>2. QED
      BY <2>1, <3>1 DEF Build, RInv
  <2>2. CASE ~Build
    BY <2>2 DEF Next, AddInOutPair, AddSafetyProp, vars, RInv
  <2>3. QED
    BY <2>1, <2>2
<1>3. QED
  BY <1>1, <1>2 DEF RInv

-----------------------------------------------------------------------------
\* The image of the built cases under the refinement mapping.
CasesBar == [j \in 1..Len(built) |-> CaseNow(j)]

\* The mapped cases are the snapshots, in both states of a step.
LEMMA CasesBarIsSnap == RInv => CasesBar = snap
BY CasesAreSnaps DEF RInv, IInv, CasesBar, CaseNow, CasesOf

LEMMA CasesBarIsSnapPrimed == RInv' => CasesBar' = snap'
<1> SUFFICES ASSUME RInv' PROVE CasesBar' = snap'
  OBVIOUS
<1>1. /\ built' \in Seq([alias : {FALSE}, hdr : Builders])
      /\ snap' \in Seq(Snaps)
      /\ Good(mem', b', Hdrs(built'), snap')
  BY DEF RInv, IInv
<1>2. CasesOf(mem', b', built') = snap'
  BY <1>1, CasesAreSnaps
<1>3. CasesBar' = CasesOf(mem', b', built')
  BY DEF CasesBar, CaseNow, CasesOf
<1>4. QED
  BY <1>2, <1>3

(***************************************************************************)
(* testCaseBuilder implements its promise (spec 4.6), for every set of     *)
(* events and properties and every bound: read through Go's slices, each  *)
(* AddInOutPair and AddSafetyProp appends to what the builder holds, and  *)
(* Build hands out exactly what it holds, which the later Adds leave as   *)
(* it was.                                                                 *)
(***************************************************************************)
THEOREM ImplementsBuilderPromiseCorrect == Spec => ImplementsBuilderPromise
<1>1. Init => Abstract!Init
  <2> SUFFICES ASSUME Init PROVE Abstract!Init
    OBVIOUS
  <2>1. Read(mem, NilSlice) = << >>
    BY DEF Init, Read, NilSlice
  <2>2. Contents(mem, b) = [inputs |-> Read(mem, NilSlice),
                            outputs |-> Read(mem, NilSlice),
                            props |-> Read(mem, NilSlice)]
    BY DEF Init, Contents
  <2>3. Contents(mem, b) = Abstract!Empty
    BY <2>1, <2>2 DEF Abstract!Empty
  <2>4. CasesBar = << >>
    BY DEF Init, CasesBar
  <2>5. QED
    BY <2>3, <2>4 DEF Abstract!Init, CasesBar
<1>2. RInv /\ RInv' /\ [Next]_vars => [Abstract!Next]_<<Contents(mem, b), CasesBar>>
  <2> SUFFICES ASSUME RInv, RInv', [Next]_vars
               PROVE  [Abstract!Next]_<<Contents(mem, b), CasesBar>>
    OBVIOUS
  <2>1. CasesBar = snap /\ CasesBar' = snap'
    BY CasesBarIsSnap, CasesBarIsSnapPrimed
  <2>0. Contents(mem, b)' = Contents(mem', b')
    OBVIOUS
  <2>2. CASE \E in \in Input, out \in Output : AddInOutPair(in, out)
    <3>1. PICK in \in Input, out \in Output : AddInOutPair(in, out)
      BY <2>2
    <3>2. Contents(mem', b') = [Contents(mem, b) EXCEPT !.inputs = Append(@, in),
                                                        !.outputs = Append(@, out)]
      BY <3>1, AddInOutPairContents DEF RInv
    <3>3. CasesBar' = CasesBar
      BY <2>1, <3>1 DEF AddInOutPair
    <3>4. Abstract!AddInOutPair(in, out)
      BY <2>0, <3>2, <3>3 DEF Abstract!AddInOutPair, CasesBar
    <3>5. QED
      BY <3>4 DEF Abstract!Next
  <2>3. CASE \E p \in Prop : AddSafetyProp(p)
    <3>1. PICK p \in Prop : AddSafetyProp(p)
      BY <2>3
    <3>2. Contents(mem', b') = [Contents(mem, b) EXCEPT !.props = Append(@, p)]
      BY <3>1, AddSafetyPropContents DEF RInv
    <3>3. CasesBar' = CasesBar
      BY <2>1, <3>1 DEF AddSafetyProp
    <3>4. Abstract!AddSafetyProp(p)
      BY <2>0, <3>2, <3>3 DEF Abstract!AddSafetyProp, CasesBar
    <3>5. QED
      BY <3>4 DEF Abstract!Next
  <2>4. CASE Build
    <3>1. Contents(mem', b') = Contents(mem, b)
      BY <2>4 DEF Build
    <3>2. CasesBar' = Append(CasesBar, Contents(mem, b))
      BY <2>1, <2>4 DEF Build
    <3>3. Abstract!Build
      BY <2>0, <3>1, <3>2 DEF Abstract!Build, CasesBar
    <3>4. QED
      BY <3>3 DEF Abstract!Next
  <2>5. CASE UNCHANGED vars
    <3>1. Contents(mem', b') = Contents(mem, b) /\ CasesBar' = CasesBar
      BY <2>1, <2>5 DEF vars
    <3>2. QED
      BY <2>0, <3>1 DEF CasesBar
  <2>6. QED
    BY <2>2, <2>3, <2>4, <2>5 DEF Next
<1>3. QED
  BY <1>1, <1>2, RInvInit, RInvStep, PTL
  DEF Spec, ImplementsBuilderPromise, Abstract!Spec, CasesBar
=============================================================================
