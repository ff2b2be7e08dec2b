------------------------- MODULE EventTypeStringProofs -------------------------
(***************************************************************************)
(* Proofs about eventType.String (eventtype_string.go 59-64): for every   *)
(* integer argument it returns, and never panics on an index or a slice.  *)
(* The argument rests on the index table alone and on the one fact about  *)
(* the name string that NameLengthAssumption states.                      *)
(***************************************************************************)
EXTENDS EventTypeString, TLAPS

\* _eventType_index has 43 offsets: 42 names and the end of the last one.
LEMMA IndexLen == Len(EventTypeIndex) = 43
BY DEF EventTypeIndex

\* The offsets start at 0 and never decrease.
LEMMA IndexMono ==
  \A k \in 1..42 : 0 <= EventTypeIndex[k] /\ EventTypeIndex[k] <= EventTypeIndex[k + 1]
BY DEF EventTypeIndex

\* No offset lies past the end of _eventType_name.
LEMMA IndexWithinName == \A k \in 1..43 : EventTypeIndex[k] <= Len(EventTypeName)
<1>1. Len(EventTypeName) = 590
  BY NameLengthAssumption DEF EventTypeIndex
<1>2. QED
  BY <1>1 DEF EventTypeIndex

(***************************************************************************)
(* String returns on every integer: outside the table through the         *)
(* FormatInt branch; inside it, the guard i >= len(_eventType_index) - 1  *)
(* keeps both reads of the table in bounds, and the table keeps the slice *)
(* of the name string in bounds.                                           *)
(***************************************************************************)
LEMMA StringReturns == \A n \in Int : String(n).kind = "return"
<1> SUFFICES ASSUME NEW n \in Int PROVE String(n).kind = "return"
  OBVIOUS
<1>1. CASE n < 0 \/ n >= Len(EventTypeIndex) - 1
  BY <1>1 DEF String, Returned
<1>2. CASE ~(n < 0 \/ n >= Len(EventTypeIndex) - 1)
  <2>1. n \in 0..41
    BY <1>2, IndexLen
  <2>2. InBounds(EventTypeIndex, n) /\ InBounds(EventTypeIndex, n + 1)
    BY <2>1, IndexLen DEF InBounds
  <2>3. 0 <= EventTypeIndex[n + 1] /\ EventTypeIndex[n + 1] <= EventTypeIndex[n + 2]
    BY <2>1, IndexMono
  <2>4. EventTypeIndex[n + 2] <= Len(EventTypeName)
    <3>1. n + 2 \in 1..43
      BY <2>1
    <3>2. QED
      BY <3>1, IndexWithinName
  <2>5. QED
    BY <1>2, <2>2, <2>3, <2>4 DEF String, GoSlice, Returned
<1>3. QED
  BY <1>1, <1>2

\* The inductive invariant: out is what String returned on the probed i.
StringInv == i \in Probes /\ out = String(i)

\* The first call of String sets out to its result.
LEMMA StringInvInit == Init => StringInv
BY DEF Init, StringInv

\* Every later call replaces both the argument and the result.
LEMMA StringInvStep == StringInv /\ [Next]_vars => StringInv'
<1> SUFFICES ASSUME StringInv, [Next]_vars PROVE StringInv'
  OBVIOUS
<1>1. CASE Next
  BY <1>1 DEF Next, Call, StringInv
<1>2. CASE UNCHANGED vars
  BY <1>2 DEF vars, StringInv
<1>3. QED
  BY <1>1, <1>2

(***************************************************************************)
(* eventType.String never panics, on the boundary value                   *)
(* len(_eventType_index) - 1 and on negative values included.              *)
(***************************************************************************)
THEOREM StringNeverPanicsCorrect == Spec => []StringNeverPanics
<1>1. StringInv => StringNeverPanics
  <2> SUFFICES ASSUME StringInv PROVE out.kind = "return"
    BY DEF StringNeverPanics
  <2>1. i \in Int
    BY ProbeAssumption DEF StringInv, Probes
  <2>2. QED
    BY <2>1, StringReturns DEF StringInv
<1>2. QED
  BY <1>1, StringInvInit, StringInvStep, PTL DEF Spec
=============================================================================
