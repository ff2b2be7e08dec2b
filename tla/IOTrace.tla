------------------------------- MODULE IOTrace -------------------------------
(***************************************************************************)
(* The trace and the safety properties of agreement/state_machine_test.go *)
(* (the "testable" harness of the agreement package).                     *)
(*                                                                         *)
(* An ioTrace is a Go slice of event interface values.  An event is        *)
(* abstracted to a model value of Event; the nil interface value is the   *)
(* model value Nil.  The only equality the harness ever uses on events is  *)
(* equality of ComparableStr(), the fingerprint Fp(e): two distinct events *)
(* may share one (an error-carrying event "matches any error of that      *)
(* kind").  Calling ComparableStr() on a nil event is a Go runtime panic,  *)
(* so every comparison below first tells Nil apart.                        *)
(*                                                                         *)
(* No operator here is recursive: the module is used by the proofs.        *)
(***************************************************************************)
EXTENDS Naturals, FiniteSets, Sequences

CONSTANTS
  Event,          \* the non-nil event values (model values)
  Nil,            \* the nil event interface value
  Fp(_),          \* ComparableStr() of a non-nil event
  WrappedAction,  \* the events e with e.t() = wrappedAction
  CheckerAccepts(_) \* addEvent of the checker an ioPropWrapper wraps:
                    \* TRUE iff the checker, fed the sequence in order,
                    \* returns nil for its last element

ASSUME NilAssumption == Nil \notin Event
ASSUME WrappedActionAssumption == WrappedAction \subseteq Event

EventOrNil == Event \cup {Nil}

\* The sequences of elements of S of length at most n.
BSeq(S, n) == UNION {[1..m -> S] : m \in 0..n}

MinNat(a, b) == IF a <= b THEN a ELSE b

(***************************************************************************)
(* ioTrace.extend(eventsToAppend ...).  The guard eventsToAppend == nil   *)
(* tests the variadic slice, not its elements: it is nil only for a call  *)
(* with no argument at all, which no call site makes, and a nil element   *)
(* is appended like any other.  The error branch is therefore not an      *)
(* outcome of any call in the harness and Extend is plain concatenation.  *)
(***************************************************************************)
Extend(t, es) == t \o es

\* ioTrace.checkWellFormed(): no entry is the nil event.
WellFormed(t) == \A i \in 1..Len(t) : t[i] # Nil

(***************************************************************************)
(* Test queries of ioTrace, built on ContainsFn.  They only read the      *)
(* trace; called on a trace holding nil they panic in ComparableStr or    *)
(* t(), which the harness never does (they are used on well-formed        *)
(* traces of other tests).                                                 *)
(***************************************************************************)
Contains(t, e) == \E i \in 1..Len(t) : Fp(t[i]) = Fp(e)

CountEvent(t, e) == Len(SelectSeq(t, LAMBDA x : Fp(x) = Fp(e)))

CountAction(t) == Len(SelectSeq(t, LAMBDA x : x \in WrappedAction))

(***************************************************************************)
(* The outcome of a containsTrace call: the trace is in the property, it  *)
(* is not, the evaluation returned an error, or it panicked (a nil event  *)
(* reached ComparableStr, or an unsupported checker was asked for).        *)
(***************************************************************************)
Contained == "contained"
Rejected  == "rejected"
EvalError == "error"
EvalPanic == "panic"

(***************************************************************************)
(* directMatchIoSafetyProp.containsTrace(trace): walk trace; past the end *)
(* of the reference the trace is accepted; otherwise the first position   *)
(* whose fingerprints differ rejects it.  A trace shorter than the        *)
(* reference is accepted too: the reference and the trace need only agree  *)
(* on their common prefix.                                                 *)
(***************************************************************************)
\* Mutant: the loop runs over the reference, not the candidate, and
\* indexes past the end of a shorter candidate (a Go run-time panic).
DirectMatchLoopOverRef(ref, t) ==
  LET common    == 1..MinNat(Len(t), Len(ref))
      Agree(i)  == t[i] # Nil /\ Fp(t[i]) = Fp(ref[i])
      NilFirst  == \E i \in common : /\ t[i] = Nil
                                      /\ \A j \in 1..(i - 1) : Agree(j)
  IN  IF \A i \in common : Agree(i)
      THEN IF Len(t) < Len(ref) THEN EvalPanic ELSE Contained
      ELSE IF NilFirst THEN EvalPanic
      ELSE Rejected

DirectMatch(ref, t) ==
  LET common    == 1..MinNat(Len(t), Len(ref))
      Agree(i)  == t[i] # Nil /\ Fp(t[i]) = Fp(ref[i])
      NilFirst  == \E i \in common : /\ t[i] = Nil
                                      /\ \A j \in 1..(i - 1) : Agree(j)
  IN  IF \A i \in common : Agree(i) THEN Contained
      ELSE IF NilFirst THEN EvalPanic
      ELSE Rejected

\* Mutant: a rejection by the checker is reported as an evaluation error.
WrapperContainsErrOnReject(t) ==
  IF ~WellFormed(t) \/ \E i \in 1..Len(t) : ~CheckerAccepts(SubSeq(t, 1, i))
  THEN EvalError ELSE Contained

(***************************************************************************)
(* ioPropWrapper.containsTrace(trace): a fresh checker, then               *)
(* checkWellFormed (an error, not a rejection), then every event in order *)
(* until the checker rejects one.                                          *)
(***************************************************************************)
WrapperContains(t) ==
  IF ~WellFormed(t) THEN EvalError
  ELSE IF \E i \in 1..Len(t) : ~CheckerAccepts(SubSeq(t, 1, i)) THEN Rejected
  ELSE Contained

(***************************************************************************)
(* The safety properties a test case may carry: ioPropAll, a              *)
(* directMatchIoSafetyProp over a reference trace, an ioPropWrapper of a   *)
(* checker factory, and an ioPropWrapper around a directMatchIoSafetyProp, *)
(* whose newPropChecker panics "Unsupported".                              *)
(***************************************************************************)
PropKinds == {"all", "direct", "wrapper", "wrapDirect"}

PropContains(p, t) ==
  CASE p.kind = "all"        -> Contained
    [] p.kind = "direct"     -> DirectMatch(p.ref, t)
    [] p.kind = "wrapper"    -> WrapperContains(t)
    [] p.kind = "wrapDirect" -> EvalPanic
=============================================================================
