---------------------------- MODULE PlayerAdapter ----------------------------
(***************************************************************************)
(* ioAutomataConcretePlayer (state_machine_test.go 562-642): the adapter  *)
(* that drives a root router through submitTop and keeps one trace.       *)
(*                                                                         *)
(* savedTrace is a pointer: nil on a player built without a trace, and   *)
(* set back to nil by resetTrace; transition allocates it.  A pointer is  *)
(* a set with at most one element: {} is nil, {t} points at the trace t.  *)
(* The router and the player behind it are a nondeterministic choice: the *)
(* result res of submitTop is a sequence of at most MaxActions actions,   *)
(* or Panic.  ev(a) wraps every action into an event, so the events a     *)
(* submitTop produces are never nil.                                       *)
(***************************************************************************)
EXTENDS IOTrace

CONSTANTS
  Panic,       \* the outcome of a submitTop that panics
  MaxActions,  \* bound on the actions of one submitTop
  MaxCalls     \* bound on the calls of transition in a behaviour

ASSUME PlayerPanicAssumption == Panic \notin EventOrNil
ASSUME PlayerBoundsAssumption == MaxActions \in Nat /\ MaxCalls \in Nat

VARIABLES
  saved,   \* savedTrace: {} (nil) or {t}
  tracer,  \* w.t # nil
  sink,    \* the output of the process-wide logger
  nsteps   \* history: the number of transition calls

playerVars == <<saved, tracer, sink, nsteps>>

\* The value *w.savedTrace, for a pointer that is not nil.
TraceOf(p) == IF p = {} THEN << >> ELSE CHOOSE t \in p : TRUE

\* The results submitTop may give: the wrapped actions, or a panic.
ActionSeqs == BSeq(Event, MaxActions)

\* A freshly built player (the constructor is outside src/): the tracer is
\* nil, and savedTrace is nil or an empty trace; the logger is on stderr.
PlayerInit ==
  /\ saved \in {{}, {<< >>}}
  /\ tracer = FALSE
  /\ sink = "stderr"
  /\ nsteps = 0

(***************************************************************************)
(* transition(in) (609-631) with callSubmitTop (590-606).  A nil          *)
(* savedTrace and a nil tracer are allocated first.  callSubmitTop sends  *)
(* the logger to nullWriter and its deferred function sets os.Stderr      *)
(* whether or not submitTop panicked.  On a panic transition returns      *)
(* before the trace is extended; otherwise it appends the input, then all *)
(* the wrapped actions (extend never fails: both calls pass a non-nil     *)
(* slice).                                                                 *)
(***************************************************************************)
\* Mutant: the actions are appended before the input.
PlayerTransitionSwapped(in, res) ==
  LET base == TraceOf(saved)
  IN  /\ nsteps < MaxCalls
      /\ saved' = IF res = Panic THEN {base}
                  ELSE {Extend(Extend(base, res), <<in>>)}
      /\ tracer' = TRUE
      /\ sink' = "stderr"
      /\ nsteps' = nsteps + 1

PlayerTransition(in, res) ==
  LET base == TraceOf(saved)
  IN  /\ nsteps < MaxCalls
      /\ saved' = IF res = Panic THEN {base}
                  ELSE {Extend(Extend(base, <<in>>), res)}
      /\ tracer' = TRUE
      /\ sink' = "stderr"
      /\ nsteps' = nsteps + 1

\* resetTrace (578-580): the pointer is set to nil, not to an empty trace.
PlayerResetTrace ==
  /\ saved' = {}
  /\ UNCHANGED <<tracer, sink, nsteps>>

=============================================================================
