-------------------------- MODULE IOAutomataConcrete --------------------------
(***************************************************************************)
(* ioAutomataConcrete (state_machine_test.go 295-388): the adapter that   *)
(* wraps one agreement listener, records its hidden trace (top-level      *)
(* input and output only) and its visible trace (also every event routed   *)
(* through the hijacked router), and turns a panic of the listener into a *)
(* panicErr.                                                               *)
(*                                                                         *)
(* The listener itself is outside this repository: one call of handle is  *)
(* a nondeterministic choice of the inner dispatches it makes and of its  *)
(* outcome (an output event, or a panic).                                  *)
(***************************************************************************)
EXTENDS IOTrace

CONSTANTS
  RoutedEvent,  \* the events the listener routes through the router
  Panic,        \* the outcome "handle panicked"
  MaxDispatch,  \* bound on the inner dispatches of one handle call
  MaxCalls      \* bound on the handle calls of a behaviour

ASSUME PanicAssumption == Panic \notin EventOrNil
ASSUME RoutedAssumption == RoutedEvent \subseteq Event
ASSUME BoundsAssumption == MaxDispatch \in Nat /\ MaxCalls \in Nat

VARIABLES
  hidden,    \* savedHiddenTrace.events
  visible,   \* savedTrace.events
  sink,      \* the output of the process-wide logging.Base() logger
  rHandle,   \* TRUE once rHandle has been allocated (lazily, line 345)
  vorigin,   \* history: for each entry of visible, the handle call that
             \* recorded it and whether it is a top-level entry
  nsteps     \* history: the number of handle calls so far

adapterVars == <<hidden, visible, sink, rHandle, vorigin, nsteps>>

Sinks == {"stderr", "null", "blackhole"}

Origin == [call : Nat, top : BOOLEAN]

(***************************************************************************)
(* The events one handle call routes through w.dispatch (329-334): each   *)
(* dispatch appends the routed event e and the router's answer out to the *)
(* visible trace, so a call contributes a sequence of even length.        *)
(***************************************************************************)
DispatchSeqs == UNION {[1..2 * k -> RoutedEvent] : k \in 0..MaxDispatch}

AdapterInit ==
  /\ hidden = << >>
  /\ visible = << >>
  /\ sink = "stderr"
  /\ rHandle = FALSE
  /\ vorigin = << >>
  /\ nsteps = 0

\* Mutant: the output is appended before the input.
TopPairSwapped(in, res) == IF res = Panic THEN << >> ELSE <<res, in>>

\* What transition appends to the hidden trace: nothing after a panic.
TopPair(in, res) == IF res = Panic THEN << >> ELSE <<in, res>>

\* The history entries of len trace entries recorded by handle call c.
Tags(len, c, b) == [i \in 1..len |-> [call |-> c, top |-> b]]

(***************************************************************************)
(* transition(in) (352-378) with callHandler (336-350) and the dispatches *)
(* made under it, for one outcome res of listener.handle and one sequence *)
(* ds of routed events.  callHandler installs nullWriter, allocates       *)
(* rHandle when nil, calls handle, and its deferred function sets the     *)
(* logger to os.Stderr on both the normal and the panic path.  The routed *)
(* events are in visible before the top-level pair is appended after     *)
(* handle returns; on a panic transition returns before any extend.       *)
(* Every extend of transition takes one argument, so none returns an      *)
(* error (see Extend).                                                     *)
(***************************************************************************)
Handle(in, ds, res) ==
  /\ rHandle' = TRUE
  /\ sink' = "stderr"
  /\ visible' = Extend(Extend(visible, ds), TopPair(in, res))
  /\ hidden' = Extend(hidden, TopPair(in, res))
  /\ vorigin' = vorigin \o Tags(Len(ds), nsteps + 1, FALSE)
                        \o Tags(Len(TopPair(in, res)), nsteps + 1, TRUE)
  /\ nsteps' = nsteps + 1

\* One call of transition with some listener behaviour; it returns whether
\* handle panicked through res.
Transition(in, res) ==
  /\ nsteps < MaxCalls
  /\ res \in Event \cup {Panic}
  /\ \E ds \in DispatchSeqs : Handle(in, ds, res)

\* Mutant: resetTrace clears the hidden trace only.
ResetTraceHiddenOnly ==
  /\ hidden' = << >>
  /\ UNCHANGED <<visible, vorigin, sink, rHandle, nsteps>>

\* resetTrace() (316-319): both traces are cleared; the listener, rHandle
\* and the logger are left alone.
ResetTrace ==
  /\ hidden' = << >>
  /\ visible' = << >>
  /\ vorigin' = << >>
  /\ UNCHANGED <<sink, rHandle, nsteps>>

(***************************************************************************)
(* Properties of the adapter.                                              *)
(***************************************************************************)

\* The adapter's part of the type invariant.
AdapterTypeOK ==
  /\ hidden \in Seq(EventOrNil)
  /\ visible \in Seq(EventOrNil)
  /\ vorigin \in Seq(Origin)
  /\ Len(vorigin) = Len(visible)
  /\ sink \in Sinks
  /\ rHandle \in BOOLEAN
  /\ nsteps \in 0..MaxCalls

\* The positions of the top-level entries of visible.
TopIdx == {i \in 1..Len(visible) : vorigin[i].top}

\* The number of positions of S before position j.
Rank(S, j) == Cardinality({i \in S : i < j})

\* The position of the k-th top-level entry: k - 1 of them come before it.
TopPos(k) == CHOOSE j \in TopIdx : Rank(TopIdx, j) = k - 1

\* The top-level entries of visible, in order.
VisibleTop == [k \in 1..Cardinality(TopIdx) |-> visible[TopPos(k)]]

(***************************************************************************)
(* The hidden trace is exactly the visible trace with the router's inner  *)
(* events removed: transition extends both traces with the same pair,     *)
(* only dispatch writes to visible alone, and resetTrace clears both, so  *)
(* across panics, dispatches and resets the two never drift apart.        *)
(***************************************************************************)
HiddenIsVisibleProjection == hidden = VisibleTop

(***************************************************************************)
(* Every trace the adapter keeps is well formed (spec: a nil event never  *)
(* enters a trace; extend must reject it).  transitionAll documents a nil *)
(* input as "no input", yet transition appends it when handle returns.    *)
(***************************************************************************)
HiddenWellFormed == WellFormed(hidden)

(***************************************************************************)
(* The visible trace is a history in the order things happened: an event  *)
(* routed while handling an input comes after that input.  dispatch       *)
(* appends routed events during handle, before transition appends the     *)
(* input that caused them, and keeps them when handle then panics.         *)
(***************************************************************************)
VisibleCausalOrder ==
  \A i \in 1..Len(visible) :
    ~vorigin[i].top =>
      \E j \in 1..(i - 1) : vorigin[j].top /\ vorigin[j].call = vorigin[i].call
=============================================================================
