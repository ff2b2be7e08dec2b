------------------------ MODULE TestCaseBuilderAbstract ------------------------
(***************************************************************************)
(* What testCaseBuilder promises (spec 4.6): pure accumulation.           *)
(* AddInOutPair appends an input and its expected output in lockstep,     *)
(* AddSafetyProp appends a property, and Build hands out a test case      *)
(* holding what the builder holds at that moment, which then never        *)
(* changes.  cur is what the builder holds, cases the cases built so far. *)
(***************************************************************************)
EXTENDS Sequences

CONSTANTS
  Input,   \* the events a test passes as inputs
  Output,  \* the events it passes as expected outputs
  Prop     \* the safety properties it attaches

VARIABLES
  cur,     \* [inputs, outputs, props]: the builder's three sequences
  cases    \* the contents of each test case Build returned, in order

Empty == [inputs |-> << >>, outputs |-> << >>, props |-> << >>]

Init == cur = Empty /\ cases = << >>

AddInOutPair(in, out) ==
  /\ cur' = [cur EXCEPT !.inputs = Append(@, in), !.outputs = Append(@, out)]
  /\ UNCHANGED cases

AddSafetyProp(p) ==
  /\ cur' = [cur EXCEPT !.props = Append(@, p)]
  /\ UNCHANGED cases

Build ==
  /\ cases' = Append(cases, cur)
  /\ UNCHANGED cur

Next ==
  \/ \E in \in Input, out \in Output : AddInOutPair(in, out)
  \/ \E p \in Prop : AddSafetyProp(p)
  \/ Build

Spec == Init /\ [][Next]_<<cur, cases>>
=============================================================================
