------------------------ MODULE TestCaseBuilderProofs ------------------------
(***************************************************************************)
(* Proof that a test case returned by testCaseBuilder.Build is immutable  *)
(* (BuiltCaseImmutable), for every set of events and properties and every *)
(* bound.                                                                  *)
(*                                                                         *)
(* Build copies slice headers, so a case and the builder share backing    *)
(* arrays, and append writes into the builder's array in place.  The      *)
(* argument is that the only slot ever written is the one just past the   *)
(* builder's own length, in the builder's own array of that field:        *)
(*   - every header is valid: it points at an allocated array of its      *)
(*     capacity, and its length is at most that capacity;                 *)
(*   - the builder's three fields never share an array;                   *)
(*   - a built case pointing into one of the builder's current arrays     *)
(*     belongs to the same field and is no longer than the builder's      *)
(*     header of it.                                                      *)
(* A fresh array is allocated at the end of memory, past every header.    *)
(***************************************************************************)
EXTENDS TestCaseBuilder, SequenceTheorems, TLAPS

Fields == {"inputs", "expectedOutputs", "safetyProps"}

Vals == Input \cup Output \cup Prop \cup {Zero}

\* A backing array: slots 1..c.
Arrays == UNION {[1..c -> Vals] : c \in Nat}

Hdr == [arr : Nat, len : Nat, cap : Nat]

\* A slice header valid in memory m.
ValidHdr(m, s) ==
  /\ s \in Hdr
  /\ s.len <= s.cap
  /\ s.arr = 0 => s.cap = 0
  /\ s.arr # 0 => s.arr \in 1..Len(m) /\ DOMAIN m[s.arr] = 1..s.cap

Builders == [Fields -> Hdr]

\* The builder's fields point at distinct arrays.
Disjoint(bb) ==
  \A X, Y \in Fields : X # Y /\ bb[X].arr # 0 => bb[X].arr # bb[Y].arr

\* A case header h of field X against the builder bb: it shares no array
\* with another field, and it is no longer than the builder in a shared one.
Behind(h, X, bb) ==
  \A Y \in Fields : h.arr # 0 /\ h.arr = bb[Y].arr => Y = X /\ h.len <= bb[X].len

\* The memory m, the builder bb, the headers cs of the built cases and
\* their snapshots sn are consistent.
Good(m, bb, cs, sn) ==
  /\ m \in Seq(Arrays)
  /\ bb \in Builders
  /\ \A X \in Fields : ValidHdr(m, bb[X])
  /\ Disjoint(bb)
  /\ cs \in Seq(Builders)
  /\ Len(sn) = Len(cs)
  /\ \A j \in 1..Len(cs), X \in Fields :
       ValidHdr(m, cs[j][X]) /\ Behind(cs[j][X], X, bb)
  /\ \A j \in 1..Len(cs) : Contents(m, cs[j]) = sn[j]

\* The headers of the built cases.
Hdrs(bs) == [j \in 1..Len(bs) |-> bs[j].hdr]

\* The inductive invariant.
IInv ==
  /\ built \in Seq([alias : {FALSE}, hdr : Builders])
  /\ Good(mem, b, Hdrs(built), snap)

-----------------------------------------------------------------------------
(***************************************************************************)
(* Memory.  Keeps(m, m2, a, n): m2 extends m, keeps every array's size,   *)
(* and changes no slot except slots past n of array a.                     *)
(***************************************************************************)
Keeps(m, m2, a, n) ==
  /\ Len(m) <= Len(m2)
  /\ \A k \in 1..Len(m) :
       /\ DOMAIN m2[k] = DOMAIN m[k]
       /\ \A i \in DOMAIN m[k] : k # a \/ i <= n => m2[k][i] = m[k][i]

\* A header outside the changed slots reads the same after the change.
LEMMA ReadFrame ==
  ASSUME NEW m \in Seq(Arrays), NEW m2 \in Seq(Arrays), NEW a, NEW n \in Nat,
         Keeps(m, m2, a, n), NEW h, ValidHdr(m, h), h.arr # a \/ h.len <= n
  PROVE  ValidHdr(m2, h) /\ Read(m2, h) = Read(m, h)
<1>1. ValidHdr(m2, h)
  BY DEF Keeps, ValidHdr
<1>2. CASE h.arr = 0
  <2>1. 1..h.len = {}
    BY <1>2 DEF ValidHdr, Hdr
  <2>2. QED
    BY <1>1, <2>1 DEF Read
<1>3. CASE h.arr # 0
  <2>0. h \in Hdr /\ h.len <= h.cap /\ h.arr \in 1..Len(m)
        /\ DOMAIN m[h.arr] = 1..h.cap
    BY <1>3 DEF ValidHdr
  <2>1. \A k \in 1..h.len : m2[h.arr][k] = m[h.arr][k]
    <3> SUFFICES ASSUME NEW k \in 1..h.len PROVE m2[h.arr][k] = m[h.arr][k]
      OBVIOUS
    <3>1. k \in DOMAIN m[h.arr] /\ (h.arr # a \/ k <= n)
      BY <2>0 DEF Hdr
    <3>2. QED
      BY <2>0, <3>1 DEF Keeps
  <2>2. QED
    BY <1>1, <2>1 DEF Read
<1>4. QED
  BY <1>2, <1>3

\* `if x == nil { x = make([]T, 0, 1) }` allocates at most one array and
\* leaves every slot as it was.
LEMMA EnsureNonNilProps ==
  ASSUME NEW m \in Seq(Arrays), NEW s, ValidHdr(m, s)
  PROVE  LET r == EnsureNonNil(m, s)
         IN  /\ r.m \in Seq(Arrays)
             /\ Keeps(m, r.m, 0, 0)
             /\ ValidHdr(r.m, r.s)
             /\ r.s.arr # 0
             /\ r.s.len = s.len
             /\ \/ r.s.arr = s.arr /\ Len(r.m) = Len(m)
                \/ r.s.arr = Len(m) + 1 /\ Len(r.m) = Len(m) + 1
<1>1. CASE s.arr = 0
  <2>1. [k \in 1..1 |-> Zero] \in Arrays
    BY DEF Arrays, Vals
  <2>2. Append(m, [k \in 1..1 |-> Zero]) \in Seq(Arrays)
    BY <2>1
  <2> DEFINE m2 == Append(m, [k \in 1..1 |-> Zero])
             s2 == [arr |-> Len(m) + 1, len |-> 0, cap |-> 1]
  <2>3. EnsureNonNil(m, s) = [s |-> s2, m |-> m2]
    BY <1>1 DEF EnsureNonNil, Make1
  <2>4. Len(m2) = Len(m) + 1 /\ m2[Len(m) + 1] = [k \in 1..1 |-> Zero]
    BY <2>1
  <2>5. Keeps(m, m2, 0, 0)
    BY <2>4 DEF Keeps
  <2>6. ValidHdr(m2, s2)
    BY <2>4 DEF ValidHdr, Hdr
  <2>7. s.len = 0
    BY <1>1 DEF ValidHdr, Hdr
  <2>8. QED
    BY <2>2, <2>3, <2>4, <2>5, <2>6, <2>7
<1>2. CASE s.arr # 0
  BY <1>2 DEF EnsureNonNil, Keeps, ValidHdr
<1>3. QED
  BY <1>1, <1>2

\* x = append(x, v): in place past len, or into a fresh array at the end.
LEMMA GoAppendProps ==
  ASSUME NEW m \in Seq(Arrays), NEW s, ValidHdr(m, s), NEW v \in Vals
  PROVE  LET r == GoAppend(m, s, v)
         IN  /\ r.m \in Seq(Arrays)
             /\ Keeps(m, r.m, s.arr, s.len)
             /\ ValidHdr(r.m, r.s)
             /\ r.s.arr # 0
             /\ r.s.len = s.len + 1
             /\ \/ r.s.arr = s.arr /\ Len(r.m) = Len(m)
                \/ r.s.arr = Len(m) + 1 /\ Len(r.m) = Len(m) + 1
<1> DEFINE r == GoAppend(m, s, v)
<1>1. s \in Hdr /\ s.len <= s.cap
  BY DEF ValidHdr
<1>2. CASE s.len < s.cap
  <2>1. s.arr # 0 /\ s.arr \in 1..Len(m) /\ DOMAIN m[s.arr] = 1..s.cap
    BY <1>1, <1>2 DEF ValidHdr, Hdr
  <2>2. m[s.arr] \in Arrays
    BY <2>1
  <2>3. [m[s.arr] EXCEPT ![s.len + 1] = v] \in Arrays
    BY <1>1, <1>2, <2>1, <2>2 DEF Arrays, Hdr
  <2>4. r.m = [m EXCEPT ![s.arr] = [m[s.arr] EXCEPT ![s.len + 1] = v]]
    BY <1>2 DEF GoAppend
  <2>5. r.m \in Seq(Arrays) /\ Len(r.m) = Len(m)
    BY <2>1, <2>3, <2>4
  <2>6. Keeps(m, r.m, s.arr, s.len)
    BY <1>1, <2>1, <2>4, <2>5 DEF Keeps, Hdr
  <2>7. r.s = [s EXCEPT !.len = s.len + 1]
    BY <1>2 DEF GoAppend
  <2>8. ValidHdr(r.m, r.s)
    <3>1. r.s \in Hdr /\ r.s.len <= r.s.cap /\ r.s.arr = s.arr /\ r.s.cap = s.cap
      BY <1>1, <1>2, <2>7 DEF Hdr
    <3>2. DOMAIN r.m[s.arr] = 1..s.cap
      BY <2>1, <2>4
    <3>3. QED
      BY <2>1, <2>5, <3>1, <3>2 DEF ValidHdr
  <2>9. QED
    BY <2>1, <2>5, <2>6, <2>7, <2>8
<1>3. CASE ~(s.len < s.cap)
  <2> DEFINE c == IF s.cap = 0 THEN 1 ELSE 2 * s.cap
             a == [k \in 1..c |-> IF k <= s.len THEN m[s.arr][k]
                                  ELSE IF k = s.len + 1 THEN v ELSE Zero]
  <2>1. s.len = s.cap /\ c \in Nat /\ c >= s.cap + 1
    BY <1>1, <1>3 DEF Hdr
  <2>2. \A k \in 1..s.len : m[s.arr][k] \in Vals
    <3>1. CASE s.arr = 0
      BY <3>1, <2>1 DEF ValidHdr
    <3>2. CASE s.arr # 0
      <4>1. m[s.arr] \in Arrays /\ DOMAIN m[s.arr] = 1..s.cap
        BY <3>2 DEF ValidHdr
      <4>2. QED
        BY <2>1, <4>1 DEF Arrays
    <3>3. QED
      BY <3>1, <3>2
  <2>3. a \in Arrays
    <3>1. a \in [1..c -> Vals]
      BY <2>2 DEF Vals
    <3>2. QED
      BY <2>1, <3>1 DEF Arrays
  <2>4. r.m = Append(m, a) /\ r.s = [arr |-> Len(m) + 1, len |-> s.len + 1, cap |-> c]
    BY <1>3 DEF GoAppend
  <2>5. r.m \in Seq(Arrays) /\ Len(r.m) = Len(m) + 1
    BY <2>3, <2>4
  <2>6. Keeps(m, r.m, s.arr, s.len)
    BY <2>4, <2>5 DEF Keeps
  <2>7. QED
    BY <1>1, <2>1, <2>4, <2>5, <2>6 DEF ValidHdr, Hdr
<1>4. QED
  BY <1>2, <1>3


\* A case reads the same when each of its three slices does.
LEMMA ContentsFrame ==
  ASSUME NEW m, NEW m2, NEW c,
         \A X \in Fields : Read(m2, c[X]) = Read(m, c[X])
  PROVE  Contents(m2, c) = Contents(m, c)
BY DEF Contents, Fields

(***************************************************************************)
(* The nil check of one field of the builder keeps everything consistent: *)
(* it only allocates, at the end of memory.                                *)
(***************************************************************************)
LEMMA EnsureGood ==
  ASSUME NEW m, NEW bb, NEW cs, NEW sn, Good(m, bb, cs, sn), NEW F \in Fields
  PROVE  LET r == EnsureNonNil(m, bb[F])
         IN  /\ Good(r.m, [bb EXCEPT ![F] = r.s], cs, sn)
             /\ r.s.arr # 0
<1> DEFINE r == EnsureNonNil(m, bb[F])
           bb2 == [bb EXCEPT ![F] = r.s]
<1>1. m \in Seq(Arrays) /\ bb \in Builders /\ ValidHdr(m, bb[F])
  BY DEF Good
<1>2. /\ r.m \in Seq(Arrays)
      /\ Keeps(m, r.m, 0, 0)
      /\ ValidHdr(r.m, r.s)
      /\ r.s.arr # 0
      /\ r.s.len = bb[F].len
      /\ \/ r.s.arr = bb[F].arr /\ Len(r.m) = Len(m)
         \/ r.s.arr = Len(m) + 1 /\ Len(r.m) = Len(m) + 1
  BY <1>1, EnsureNonNilProps
\* Nothing is written, so every valid header reads and validates as before.
<1>3. ASSUME NEW h, ValidHdr(m, h)
      PROVE  ValidHdr(r.m, h) /\ Read(r.m, h) = Read(m, h)
  <2>1. h.arr # 0 \/ h.len <= 0
    BY <1>3 DEF ValidHdr, Hdr
  <2>2. QED
    BY <1>1, <1>2, <1>3, <2>1, ReadFrame
\* Every header valid in m points below the end of m.
<1>4. ASSUME NEW h, ValidHdr(m, h) PROVE h.arr # Len(m) + 1
  BY <1>4 DEF ValidHdr
<1>5. bb2 \in Builders /\ bb2[F] = r.s /\ \A X \in Fields \ {F} : bb2[X] = bb[X]
  <2>1. r.s \in Hdr
    BY <1>2 DEF ValidHdr
  <2>2. QED
    BY <1>1, <2>1 DEF Builders
<1>6. \A X \in Fields : ValidHdr(r.m, bb2[X])
  BY <1>2, <1>3, <1>5 DEF Good
<1>7. Disjoint(bb2)
  BY <1>2, <1>4, <1>5 DEF Good, Disjoint
<1>8. \A j \in 1..Len(cs), X \in Fields :
        ValidHdr(r.m, cs[j][X]) /\ Behind(cs[j][X], X, bb2)
  <2> SUFFICES ASSUME NEW j \in 1..Len(cs), NEW X \in Fields
               PROVE  ValidHdr(r.m, cs[j][X]) /\ Behind(cs[j][X], X, bb2)
    OBVIOUS
  <2>1. ValidHdr(m, cs[j][X]) /\ Behind(cs[j][X], X, bb)
    BY DEF Good
  <2>2. cs[j][X].arr # Len(m) + 1
    BY <2>1, <1>4
  <2>3. Behind(cs[j][X], X, bb2)
    BY <1>2, <1>5, <2>1, <2>2 DEF Behind
  <2>4. QED
    BY <1>3, <2>1, <2>3
<1>9. \A j \in 1..Len(cs) : Contents(r.m, cs[j]) = sn[j]
  <2> SUFFICES ASSUME NEW j \in 1..Len(cs) PROVE Contents(r.m, cs[j]) = sn[j]
    OBVIOUS
  <2>1. \A X \in Fields : Read(r.m, cs[j][X]) = Read(m, cs[j][X])
    BY <1>3 DEF Good
  <2>2. QED
    BY <2>1, ContentsFrame DEF Good
<1>10. QED
  BY <1>2, <1>5, <1>6, <1>7, <1>8, <1>9 DEF Good


(***************************************************************************)
(* An append to one non-nil field of the builder keeps everything         *)
(* consistent.  It writes only the slot just past the builder's length in *)
(* the builder's own array, and a case sharing that array is no longer    *)
(* than the builder, so it never sees the slot.                            *)
(***************************************************************************)
LEMMA AppendGood ==
  ASSUME NEW m, NEW bb, NEW cs, NEW sn, Good(m, bb, cs, sn), NEW F \in Fields,
         bb[F].arr # 0, NEW v \in Vals
  PROVE  LET r == GoAppend(m, bb[F], v)
         IN  Good(r.m, [bb EXCEPT ![F] = r.s], cs, sn)
<1> DEFINE s == bb[F]
           r == GoAppend(m, s, v)
           bb2 == [bb EXCEPT ![F] = r.s]
<1>1. m \in Seq(Arrays) /\ bb \in Builders /\ ValidHdr(m, s) /\ s \in Hdr
  BY DEF Good, ValidHdr
<1>2. /\ r.m \in Seq(Arrays)
      /\ Keeps(m, r.m, s.arr, s.len)
      /\ ValidHdr(r.m, r.s)
      /\ r.s.arr # 0
      /\ r.s.len = s.len + 1
      /\ \/ r.s.arr = s.arr /\ Len(r.m) = Len(m)
         \/ r.s.arr = Len(m) + 1 /\ Len(r.m) = Len(m) + 1
  BY <1>1, GoAppendProps
<1>3. ASSUME NEW h, ValidHdr(m, h), h.arr # s.arr \/ h.len <= s.len
      PROVE  ValidHdr(r.m, h) /\ Read(r.m, h) = Read(m, h)
  BY <1>1, <1>2, <1>3, ReadFrame DEF Hdr
<1>4. ASSUME NEW h, ValidHdr(m, h) PROVE h.arr # Len(m) + 1
  BY <1>4 DEF ValidHdr
<1>5. bb2 \in Builders /\ bb2[F] = r.s /\ \A X \in Fields \ {F} : bb2[X] = bb[X]
  <2>1. r.s \in Hdr
    BY <1>2 DEF ValidHdr
  <2>2. QED
    BY <1>1, <2>1 DEF Builders
\* The other fields of the builder point at other arrays.
<1>6. \A X \in Fields \ {F} : bb[X].arr # s.arr
  BY DEF Good, Disjoint
<1>7. \A X \in Fields : ValidHdr(r.m, bb2[X])
  BY <1>2, <1>3, <1>5, <1>6 DEF Good
<1>8. Disjoint(bb2)
  <2>1. \A X \in Fields \ {F} : bb[X].arr # r.s.arr
    BY <1>2, <1>4, <1>6 DEF Good
  <2>2. QED
    BY <1>5, <2>1 DEF Good, Disjoint
<1>9. ASSUME NEW j \in 1..Len(cs), NEW X \in Fields
      PROVE  /\ ValidHdr(r.m, cs[j][X])
             /\ Read(r.m, cs[j][X]) = Read(m, cs[j][X])
             /\ Behind(cs[j][X], X, bb2)
  <2> DEFINE h == cs[j][X]
  <2>1. ValidHdr(m, h) /\ Behind(h, X, bb) /\ h \in Hdr
    BY DEF Good, ValidHdr
  <2>2. h.arr # s.arr \/ h.len <= s.len
    <3>1. CASE h.arr = 0
      BY <3>1, <2>1 DEF ValidHdr, Hdr
    <3>2. CASE h.arr # 0 /\ h.arr = s.arr
      BY <3>2, <2>1 DEF Behind
    <3>3. QED
      BY <3>1, <3>2
  <2>3. Behind(h, X, bb2)
    <3> SUFFICES ASSUME NEW Y \in Fields, h.arr # 0, h.arr = bb2[Y].arr
                 PROVE  Y = X /\ h.len <= bb2[X].len
      BY DEF Behind
    <3>1. CASE Y = F
      <4>1. h.arr # r.s.arr \/ r.s.arr = s.arr
        BY <1>2, <1>4, <2>1
      <4>2. h.arr = s.arr
        BY <3>1, <1>5, <4>1
      <4>3. X = F /\ h.len <= s.len
        BY <4>2, <2>1 DEF Behind
      <4>4. QED
        BY <3>1, <4>3, <1>1, <1>2, <1>5, <2>1 DEF Hdr
    <3>2. CASE Y # F
      <4>1. h.arr = bb[Y].arr
        BY <3>2, <1>5
      <4>2. Y = X /\ h.len <= bb[X].len
        BY <4>1, <2>1 DEF Behind
      <4>3. QED
        BY <3>2, <4>2, <1>5
    <3>3. QED
      BY <3>1, <3>2
  <2>4. QED
    BY <1>3, <2>1, <2>2, <2>3
<1>10. \A j \in 1..Len(cs), X \in Fields :
         ValidHdr(r.m, cs[j][X]) /\ Behind(cs[j][X], X, bb2)
  BY <1>9
<1>11. \A j \in 1..Len(cs) : Contents(r.m, cs[j]) = sn[j]
  <2> SUFFICES ASSUME NEW j \in 1..Len(cs) PROVE Contents(r.m, cs[j]) = sn[j]
    OBVIOUS
  <2>1. \A X \in Fields : Read(r.m, cs[j][X]) = Read(m, cs[j][X])
    BY <1>9
  <2>2. QED
    BY <2>1, ContentsFrame DEF Good
<1>12. QED
  BY <1>2, <1>5, <1>7, <1>8, <1>10, <1>11 DEF Good


\* Build adds a case whose headers are the builder's own.
LEMMA BuildGood ==
  ASSUME NEW m, NEW bb, NEW cs, NEW sn, Good(m, bb, cs, sn)
  PROVE  Good(m, bb, Append(cs, bb), Append(sn, Contents(m, bb)))
<1> DEFINE cs2 == Append(cs, bb)
           sn2 == Append(sn, Contents(m, bb))
<1>1. cs \in Seq(Builders) /\ bb \in Builders /\ Len(sn) = Len(cs)
  BY DEF Good
<1>2. cs2 \in Seq(Builders) /\ Len(cs2) = Len(cs) + 1 /\ Len(sn2) = Len(cs2)
  BY <1>1
<1>3. \A X \in Fields : Behind(bb[X], X, bb)
  <2> SUFFICES ASSUME NEW X \in Fields, NEW Y \in Fields,
                      bb[X].arr # 0, bb[X].arr = bb[Y].arr
               PROVE  Y = X /\ bb[X].len <= bb[X].len
    BY DEF Behind
  <2>1. Y = X
    BY DEF Good, Disjoint
  <2>2. bb[X].len \in Nat
    BY <1>1 DEF Builders, Hdr
  <2>3. QED
    BY <2>1, <2>2
<1>4. \A j \in 1..Len(cs2), X \in Fields :
        ValidHdr(m, cs2[j][X]) /\ Behind(cs2[j][X], X, bb)
  <2> SUFFICES ASSUME NEW j \in 1..Len(cs2), NEW X \in Fields
               PROVE  ValidHdr(m, cs2[j][X]) /\ Behind(cs2[j][X], X, bb)
    OBVIOUS
  <2>1. CASE j = Len(cs2)
    <3>1. cs2[j] = bb
      BY <1>1, <1>2, <2>1
    <3>2. QED
      BY <3>1, <1>3 DEF Good
  <2>2. CASE j # Len(cs2)
    <3>1. j \in 1..Len(cs) /\ cs2[j] = cs[j]
      BY <1>1, <1>2, <2>2
    <3>2. QED
      BY <3>1 DEF Good
  <2>3. QED
    BY <2>1, <2>2
<1>5. \A j \in 1..Len(cs2) : Contents(m, cs2[j]) = sn2[j]
  <2> SUFFICES ASSUME NEW j \in 1..Len(cs2) PROVE Contents(m, cs2[j]) = sn2[j]
    OBVIOUS
  <2>1. CASE j = Len(cs2)
    BY <1>1, <1>2, <2>1
  <2>2. CASE j # Len(cs2)
    <3>1. j \in 1..Len(cs) /\ cs2[j] = cs[j] /\ sn2[j] = sn[j]
      BY <1>1, <1>2, <2>2
    <3>2. QED
      BY <3>1 DEF Good
  <2>3. QED
    BY <2>1, <2>2
<1>6. QED
  BY <1>2, <1>4, <1>5 DEF Good

-----------------------------------------------------------------------------
(***************************************************************************)
(* The steps of the builder.                                               *)
(***************************************************************************)
LEMMA InitIInv == Init => IInv
<1> SUFFICES ASSUME Init PROVE IInv
  OBVIOUS
<1>1. NilSlice \in Hdr /\ ValidHdr(mem, NilSlice)
  BY DEF Init, NilSlice, Hdr, ValidHdr
<1>2. b \in Builders /\ \A X \in Fields : b[X] = NilSlice
  BY <1>1 DEF Init, Builders, Fields
<1>3. Hdrs(built) = << >>
  BY DEF Init, Hdrs
<1>4. mem \in Seq(Arrays) /\ Hdrs(built) \in Seq(Builders) /\ Len(snap) = Len(Hdrs(built))
  <2>1. << >> \in Seq(Arrays) /\ << >> \in Seq(Builders)
    BY EmptySeq
  <2>2. QED
    BY <1>3, <2>1 DEF Init
<1>5. Disjoint(b)
  BY <1>2 DEF Disjoint, NilSlice
<1>6. built \in Seq([alias : {FALSE}, hdr : Builders])
  BY DEF Init
<1>7. QED
  BY <1>1, <1>2, <1>3, <1>4, <1>5, <1>6 DEF IInv, Good

LEMMA BuildStep == IInv /\ Build => IInv'
<1> SUFFICES ASSUME IInv, Build PROVE IInv'
  OBVIOUS
<1> DEFINE e == [alias |-> FALSE, hdr |-> b]
<1>1. built \in Seq([alias : {FALSE}, hdr : Builders]) /\ b \in Builders
  BY DEF IInv, Good
<1>2. built' = Append(built, e) /\ e \in [alias : {FALSE}, hdr : Builders]
  BY <1>1 DEF Build
<1>3. Hdrs(built') = Append(Hdrs(built), b)
  BY <1>1, <1>2 DEF Hdrs
<1>4. Good(mem, b, Append(Hdrs(built), b), Append(snap, Contents(mem, b)))
  BY BuildGood DEF IInv
<1>5. built' \in Seq([alias : {FALSE}, hdr : Builders])
  BY <1>1, <1>2
<1>6. mem' = mem /\ b' = b /\ snap' = Append(snap, Contents(mem, b))
  BY DEF Build
<1>7. Good(mem', b', Hdrs(built'), snap')
  BY <1>3, <1>4, <1>6
<1>8. QED
  BY <1>5, <1>7 DEF IInv

LEMMA AddSafetyPropStep ==
  ASSUME IInv, NEW p \in Prop, AddSafetyProp(p) PROVE IInv'
<1> DEFINE F == "safetyProps"
           cs == Hdrs(built)
           p0 == EnsureNonNil(mem, b[F])
           bb1 == [b EXCEPT ![F] = p0.s]
           p1 == GoAppend(p0.m, bb1[F], p)
<1>1. Good(mem, b, cs, snap) /\ F \in Fields /\ p \in Vals
  BY DEF IInv, Fields, Vals
<1>2. Good(p0.m, bb1, cs, snap) /\ p0.s.arr # 0
  BY <1>1, EnsureGood
<1>3. bb1[F] = p0.s
  BY <1>1 DEF Good, Builders
<1>4. Good(p1.m, [bb1 EXCEPT ![F] = p1.s], cs, snap)
  BY <1>1, <1>2, <1>3, AppendGood
<1>5. [bb1 EXCEPT ![F] = p1.s] = b' /\ p1.m = mem'
  BY <1>3 DEF AddSafetyProp
<1>6. QED
  BY <1>4, <1>5 DEF AddSafetyProp, IInv

LEMMA AddInOutPairStep ==
  ASSUME IInv, NEW in \in Input, NEW out \in Output, AddInOutPair(in, out)
  PROVE  IInv'
<1> DEFINE I == "inputs"
           O == "expectedOutputs"
           cs == Hdrs(built)
           i0 == EnsureNonNil(mem, b[I])
           bb1 == [b EXCEPT ![I] = i0.s]
           o0 == EnsureNonNil(i0.m, bb1[O])
           bb2 == [bb1 EXCEPT ![O] = o0.s]
           i1 == GoAppend(o0.m, bb2[I], in)
           bb3 == [bb2 EXCEPT ![I] = i1.s]
           o1 == GoAppend(i1.m, bb3[O], out)
           bb4 == [bb3 EXCEPT ![O] = o1.s]
<1>1. Good(mem, b, cs, snap) /\ I \in Fields /\ O \in Fields /\ I # O
      /\ in \in Vals /\ out \in Vals /\ b \in Builders
  BY DEF IInv, Good, Fields, Vals
<1>2. Good(i0.m, bb1, cs, snap) /\ i0.s.arr # 0
  BY <1>1, EnsureGood
<1>3. bb1[O] = b[O] /\ bb1[I] = i0.s
  BY <1>1 DEF Builders
<1>4. Good(o0.m, bb2, cs, snap) /\ o0.s.arr # 0
  BY <1>2, <1>1, EnsureGood
<1>5. bb2[I] = i0.s /\ bb2[O] = o0.s
  BY <1>1, <1>3 DEF Builders
<1>6. Good(i1.m, bb3, cs, snap)
  BY <1>1, <1>2, <1>4, <1>5, AppendGood
<1>7. bb3[O] = o0.s
  BY <1>1, <1>5 DEF Builders
<1>8. Good(o1.m, bb4, cs, snap)
  BY <1>1, <1>4, <1>6, <1>7, AppendGood
<1>9. LET r == AddInOutPairOps(mem, in, out)
      IN  r.m = o1.m /\ r.inputs = i1.s /\ r.outputs = o1.s
  BY <1>3, <1>5, <1>7 DEF AddInOutPairOps
<1>10. bb4 = [b EXCEPT !.inputs = i1.s, !.expectedOutputs = o1.s]
  BY <1>1 DEF Builders, Fields
<1>11. QED
  BY <1>8, <1>9, <1>10 DEF AddInOutPair, IInv

LEMMA IInvImmutable == IInv => BuiltCaseImmutable
<1> SUFFICES ASSUME IInv, NEW j \in 1..Len(built) PROVE CaseNow(j) = snap[j]
  BY DEF BuiltCaseImmutable
<1>1. built[j] \in [alias : {FALSE}, hdr : Builders]
  <2>1. built \in Seq([alias : {FALSE}, hdr : Builders])
    BY DEF IInv
  <2>2. QED
    BY <2>1, ElementOfSeq
<1>2. CaseNow(j) = Contents(mem, Hdrs(built)[j])
  BY <1>1 DEF CaseNow, Hdrs
<1>3. j \in 1..Len(Hdrs(built))
  BY DEF IInv, Hdrs
<1>4. QED
  BY <1>2, <1>3 DEF IInv, Good

(***************************************************************************)
(* A test case returned by Build keeps its pairs and properties whatever  *)
(* the test code adds to the builder afterwards, for any events, any      *)
(* properties and any number of calls: append into a shared backing      *)
(* array only ever writes past the length of every case that shares it.  *)
(***************************************************************************)
THEOREM BuiltCaseImmutableCorrect == Spec => []BuiltCaseImmutable
<1>1. Init => IInv
  BY InitIInv
<1>2. IInv /\ [Next]_vars => IInv'
  <2> SUFFICES ASSUME IInv, [Next]_vars PROVE IInv'
    OBVIOUS
  <2>1. CASE \E in \in Input, out \in Output : AddInOutPair(in, out)
    BY <2>1, AddInOutPairStep
  <2>2. CASE \E p \in Prop : AddSafetyProp(p)
    BY <2>2, AddSafetyPropStep
  <2>3. CASE Build
    BY <2>3, BuildStep
  <2>4. CASE UNCHANGED vars
    BY <2>4 DEF vars, IInv
  <2>5. QED
    BY <2>1, <2>2, <2>3, <2>4 DEF Next
<1>3. QED
  BY <1>1, <1>2, IInvImmutable, PTL DEF Spec

=============================================================================
