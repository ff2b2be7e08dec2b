--------------------------- MODULE TestCaseBuilder ---------------------------
(***************************************************************************)
(* testCaseBuilder (state_machine_test.go 503-529).  The builder keeps    *)
(* three Go slices; Build copies the three slice headers into a new       *)
(* determisticTraceTestCase, so the test case shares its backing arrays   *)
(* with the builder, and a later AddInOutPair or AddSafetyProp appends    *)
(* into those arrays in place whenever they have spare capacity.          *)
(*                                                                         *)
(* The Go memory is kept: a slice is a header [arr, len, cap] into the    *)
(* backing array mem[arr] (arr = 0 is a nil slice), and append follows    *)
(* the runtime: in place when len < cap, otherwise into a fresh array of  *)
(* twice the capacity (the growth rule for small slices).                  *)
(***************************************************************************)
EXTENDS Naturals, Sequences

CONSTANTS
  Input,     \* the events a test passes as inputs
  Output,    \* the events it passes as expected outputs
  Prop,      \* the safety properties it attaches
  MaxAdds,   \* bound on the calls of AddInOutPair and AddSafetyProp
  MaxBuilds  \* bound on the calls of Build

ASSUME BuilderBoundsAssumption == MaxAdds \in Nat /\ MaxBuilds \in Nat

VARIABLES
  mem,      \* the backing arrays allocated so far, mem[k] for array k
  b,        \* the builder: [inputs, expectedOutputs, safetyProps] headers
  built,    \* the test cases Build returned, in order: [alias, hdr], where
            \* alias says the case reads the builder's own headers
  snap,     \* history: what each test case held when Build returned it
  nadds     \* history: the number of Add calls

vars == <<mem, b, built, snap, nadds>>

Zero == "zero"     \* the zero value in an unused array slot
NilSlice == [arr |-> 0, len |-> 0, cap |-> 0]

\* The elements a slice header shows.
Read(m, s) == [k \in 1..s.len |-> m[s.arr][k]]

\* make([]T, 0, 1): a fresh array of capacity 1.
Make1(m) == [s |-> [arr |-> Len(m) + 1, len |-> 0, cap |-> 1],
             m |-> Append(m, [k \in 1..1 |-> Zero])]

\* `if x == nil { x = make([]T, 0, 1) }`
EnsureNonNil(m, s) == IF s.arr = 0 THEN Make1(m) ELSE [s |-> s, m |-> m]

\* x = append(x, v): the new header and memory.
GoAppend(m, s, v) ==
  IF s.len < s.cap
  THEN [s |-> [s EXCEPT !.len = s.len + 1],
        m |-> [m EXCEPT ![s.arr][s.len + 1] = v]]
  ELSE LET c == IF s.cap = 0 THEN 1 ELSE 2 * s.cap
       IN  [s |-> [arr |-> Len(m) + 1, len |-> s.len + 1, cap |-> c],
            m |-> Append(m, [k \in 1..c |->
                               IF k <= s.len THEN m[s.arr][k]
                               ELSE IF k = s.len + 1 THEN v ELSE Zero])]

\* Mutant: a copy-paste slip, b.expectedOutputs = append(b.inputs, output).
AddInOutPairOpsOutputsFromInputs(m, in, out) ==
  LET i0 == EnsureNonNil(m, b.inputs)
      o0 == EnsureNonNil(i0.m, b.expectedOutputs)
      i1 == GoAppend(o0.m, i0.s, in)
      o1 == GoAppend(i1.m, i1.s, out)
  IN  [inputs |-> i1.s, outputs |-> o1.s, m |-> o1.m]

\* Both nil checks, then both appends (513-522).
AddInOutPairOps(m, in, out) ==
  LET i0 == EnsureNonNil(m, b.inputs)
      o0 == EnsureNonNil(i0.m, b.expectedOutputs)
      i1 == GoAppend(o0.m, i0.s, in)
      o1 == GoAppend(i1.m, o0.s, out)
  IN  [inputs |-> i1.s, outputs |-> o1.s, m |-> o1.m]

Init ==
  /\ mem = << >>
  /\ b = [inputs |-> NilSlice, expectedOutputs |-> NilSlice, safetyProps |-> NilSlice]
  /\ built = << >>
  /\ snap = << >>
  /\ nadds = 0

AddInOutPair(in, out) ==
  LET r == AddInOutPairOps(mem, in, out)
  IN  /\ nadds < MaxAdds
      /\ mem' = r.m
      /\ b' = [b EXCEPT !.inputs = r.inputs, !.expectedOutputs = r.outputs]
      /\ nadds' = nadds + 1
      /\ UNCHANGED <<built, snap>>

\* 524-529.
AddSafetyProp(p) ==
  LET p0 == EnsureNonNil(mem, b.safetyProps)
      p1 == GoAppend(p0.m, p0.s, p)
  IN  /\ nadds < MaxAdds
      /\ mem' = p1.m
      /\ b' = [b EXCEPT !.safetyProps = p1.s]
      /\ nadds' = nadds + 1
      /\ UNCHANGED <<built, snap>>

\* What a test case holds: its three slices as sequences.
Contents(m, c) ==
  [inputs |-> Read(m, c.inputs), outputs |-> Read(m, c.expectedOutputs),
   props |-> Read(m, c.safetyProps)]

\* Mutant: Build hands out the builder itself (a pointer to a test case
\* embedded in the builder), so the case follows later Adds.
BuildAliased ==
  /\ Len(built) < MaxBuilds
  /\ built' = Append(built, [alias |-> TRUE, hdr |-> b])
  /\ snap' = Append(snap, Contents(mem, b))
  /\ UNCHANGED <<mem, b, nadds>>

\* Build (509-511): a new test case with copies of the three headers.
Build ==
  /\ Len(built) < MaxBuilds
  /\ built' = Append(built, [alias |-> FALSE, hdr |-> b])
  /\ snap' = Append(snap, Contents(mem, b))
  /\ UNCHANGED <<mem, b, nadds>>

Next ==
  \/ \E in \in Input, out \in Output : AddInOutPair(in, out)
  \/ \E p \in Prop : AddSafetyProp(p)
  \/ Build

Spec == Init /\ [][Next]_vars

-----------------------------------------------------------------------------
\* The test case number j as the program sees it now.
CaseNow(j) == Contents(mem, IF built[j].alias THEN b ELSE built[j].hdr)

(***************************************************************************)
(* A built test case is immutable (spec 4.6): whatever the test code adds *)
(* to the builder after Build, the case keeps the pairs and properties it *)
(* had, although its slices share backing arrays with the builder and    *)
(* append writes into those arrays in place.                               *)
(***************************************************************************)
BuiltCaseImmutable == \A j \in 1..Len(built) : CaseNow(j) = snap[j]

(***************************************************************************)
(* The builder keeps its promise (spec 4.6): read through Go's slices,    *)
(* each Add appends to what the builder holds, in lockstep for a pair,    *)
(* and Build hands out what it holds, which no later call changes.  This *)
(* is about what each Add writes where: appending the output to the input *)
(* slice breaks it, although every built case still stays as it was.      *)
(***************************************************************************)
Abstract == INSTANCE TestCaseBuilderAbstract
              WITH cur <- Contents(mem, b),
                   cases <- [j \in 1..Len(built) |-> CaseNow(j)]

ImplementsBuilderPromise == Abstract!Spec
=============================================================================
