------------------------------ MODULE IOAutomaton ------------------------------
(***************************************************************************)
(* What an ioAutomata promises of the trace getTrace returns              *)
(* (state_machine_test.go 266-294): the trace "of the execution so far",  *)
(* restarted by resetTrace.  A transition that returns appends its input  *)
(* and then the outputs it produced; one that panics leaves the trace as  *)
(* it was (a stutter).  Traces are histories: entries are never changed,  *)
(* reordered or dropped except by a reset.                                 *)
(*                                                                         *)
(* Outputs is the set of output sequences one input may produce: one      *)
(* output for a listener, any number of wrapped actions for a player.     *)
(***************************************************************************)
EXTENDS Sequences

CONSTANTS
  Inputs,   \* the inputs a transition may be given (nil included)
  Outputs   \* the sequences of outputs one transition may append

VARIABLE trace

Init == trace = << >>

\* transition(in) returns: in, then its outputs, are appended.
Step(in, outs) == trace' = (trace \o <<in>>) \o outs

\* resetTrace: the trace restarts empty.
Reset == trace' = << >>

Next == (\E in \in Inputs, outs \in Outputs : Step(in, outs)) \/ Reset

Spec == Init /\ [][Next]_trace
=============================================================================
