---------------------------- MODULE TraceValidator ----------------------------
(***************************************************************************)
(* determisticTraceTestCase.ValidateAsExtension (state_machine_test.go    *)
(* 405-500) driving an ioAutomataConcrete through transitionAll           *)
(* (380-388), composed with the test code around it: before, between and  *)
(* after validations a test may call transition and resetTrace directly.  *)
(*                                                                         *)
(* ValidateAsExtension runs in three kinds of step: the checks before the *)
(* run (shape of the test case, well-formedness of the expected trace),   *)
(* one step per transition of transitionAll, and the verdict computed     *)
(* from the hidden trace after the run.                                    *)
(***************************************************************************)
EXTENDS IOAutomataConcrete

CONSTANTS
  TestInputs,      \* the events a test case may give as input
  TestOutputs,     \* the events a test case may give as expected output
  Props,           \* the safety properties a test case may carry
  MaxInputs,       \* bound on the inputs of one test case
  MaxProps,        \* bound on the safety properties of one test case
  MaxValidations   \* bound on the validations of a behaviour

ASSUME TestEventsAssumption ==
  TestInputs \subseteq EventOrNil /\ TestOutputs \subseteq EventOrNil
ASSUME PropsAssumption ==
  \A p \in Props : p.kind \in PropKinds /\ (p.kind \in {"direct", "wrapDirect"}
                                             => p.ref \in Seq(Event))
ASSUME ValidatorBoundsAssumption ==
  MaxInputs \in Nat /\ MaxProps \in Nat /\ MaxValidations \in Nat

VARIABLES
  vpc,        \* "idle" (test code runs), "run" (in transitionAll), "check"
  tc,         \* the test case being (or last) validated
  existing,   \* existingTraceLength
  expected,   \* expectedFinalTrace.events
  idx,        \* transitionAll's loop index (1-based: the next input)
  panicked,   \* panicErr # nil
  verdict,    \* the result of the last ValidateAsExtension
  nvalid      \* history: the number of validations started

vars == <<adapterVars, vpc, tc, existing, expected, idx, panicked, verdict,
          nvalid>>

TestCases == [inputs : BSeq(TestInputs, MaxInputs),
              outputs : BSeq(TestOutputs, MaxInputs),
              props : BSeq(Props, MaxProps)]

(***************************************************************************)
(* The verdicts (invalidErr, runtimeErr) of ValidateAsExtension, and      *)
(* "panic" when ValidateAsExtension itself panics.                         *)
(***************************************************************************)
Ok              == "ok"
InvalidVerdicts == {"diverged", "panicUnexpected", "panicMissing",
                    "panickedEarly", "tooShort", "notInProp"}
RuntimeVerdicts == {"malformedCase", "nilOutput", "propError"}
Verdicts        == {"none", Ok, "panic"} \cup InvalidVerdicts \cup RuntimeVerdicts

\* Line 420: the shape a test case must have.
ShapeOK(c) == \/ Len(c.inputs) = Len(c.outputs)
              \/ Len(c.inputs) = Len(c.outputs) + 1

\* Lines 428-435: input i and expected output i for every i with an output.
ExpectedTrace(c) ==
  [k \in 1..2 * Len(c.outputs) |->
     IF k % 2 = 1 THEN c.inputs[(k + 1) \div 2] ELSE c.outputs[k \div 2]]

\* The hidden trace produced since existingTraceLength (line 446).
Extension == SubSeq(hidden, existing + 1, Len(hidden))

(***************************************************************************)
(* Lines 489-497: each safety property in order against the whole hidden *)
(* trace; the first one that errors or rejects decides.                    *)
(***************************************************************************)
PropsVerdict(ps, t) ==
  LET res(k)     == PropContains(ps[k], t)
      FirstIs(r) == \E k \in 1..Len(ps) : /\ res(k) = r
                                           /\ \A j \in 1..(k - 1) : res(j) = Contained
  IN  IF \A k \in 1..Len(ps) : res(k) = Contained THEN Ok
      ELSE IF FirstIs(EvalError) THEN "propError"
      ELSE IF FirstIs(Rejected) THEN "notInProp"
      ELSE "panic"

(***************************************************************************)
(* Lines 453-456: on divergence the error is built from                   *)
(* expectedFinalTrace.String() and outputTraceExtension.String().  String *)
(* (110-116) calls ComparableStr on every entry, so a nil the prefix match *)
(* never reached (past the first differing position) panics there; the    *)
(* expected trace was checked well formed at 436.                          *)
(***************************************************************************)
DivergedVerdict == IF WellFormed(Extension) THEN "diverged" ELSE "panic"

\* Mutant: the check that a dangling input panicked (467-470) is missing.
CheckVerdictNoPanicMissing ==
  LET dm == DirectMatch(expected, Extension)
      nin == Len(tc.inputs)
      nout == Len(tc.outputs)
  IN  IF dm = EvalPanic THEN "panic"
      ELSE IF dm = Rejected THEN DivergedVerdict
      ELSE IF nin = nout /\ panicked THEN "panicUnexpected"
      ELSE IF Len(hidden) < Len(expected) /\ panicked THEN "panickedEarly"
      ELSE IF Len(hidden) < Len(expected) THEN "tooShort"
      ELSE PropsVerdict(tc.props, hidden)

(***************************************************************************)
(* Lines 444-499, in the order of their early returns.  The branch at     *)
(* 471-473 is not reachable: the shape was checked at 420.                 *)
(***************************************************************************)
CheckVerdict ==
  LET dm == DirectMatch(expected, Extension)
      nin == Len(tc.inputs)
      nout == Len(tc.outputs)
  IN  IF dm = EvalPanic THEN "panic"
      ELSE IF dm = Rejected THEN DivergedVerdict
      ELSE IF nin = nout /\ panicked THEN "panicUnexpected"
      ELSE IF nin = nout + 1 /\ ~panicked THEN "panicMissing"
      ELSE IF Len(hidden) < Len(expected) /\ panicked THEN "panickedEarly"
      ELSE IF Len(hidden) < Len(expected) THEN "tooShort"
      ELSE PropsVerdict(tc.props, hidden)

\* The locals of ValidateAsExtension while no validation runs.
NoTestCase == [inputs |-> << >>, outputs |-> << >>, props |-> << >>]

Init ==
  /\ AdapterInit
  /\ vpc = "idle"
  /\ tc = NoTestCase
  /\ existing = 0
  /\ expected = << >>
  /\ idx = 1
  /\ panicked = FALSE
  /\ verdict = "none"
  /\ nvalid = 0

validatorVars == <<vpc, tc, existing, expected, idx, panicked, verdict, nvalid>>

\* The test code calls transition (or transitionAll on one input) itself.
DirectTransition ==
  /\ vpc = "idle"
  /\ \E in \in TestInputs, res \in Event \cup {Panic} : Transition(in, res)
  /\ UNCHANGED validatorVars

\* The test code calls resetTrace.
Reset ==
  /\ vpc = "idle"
  /\ ResetTrace
  /\ UNCHANGED validatorVars

(***************************************************************************)
(* ValidateAsExtension up to the call of transitionAll (413-440): the     *)
(* logger goes to blackhole, and a malformed test case or a nil expected  *)
(* event returns a runtimeErr (the deferred restore sets os.Stderr).       *)
(***************************************************************************)
StartValidation(c) ==
  /\ vpc = "idle"
  /\ nvalid < MaxValidations
  /\ nsteps + Len(c.inputs) <= MaxCalls
  /\ nvalid' = nvalid + 1
  /\ UNCHANGED <<hidden, visible, rHandle, vorigin, nsteps, idx, panicked>>

ValidateMalformed(c) ==
  /\ StartValidation(c)
  /\ ~ShapeOK(c)
  /\ verdict' = "malformedCase"
  /\ sink' = "stderr"
  /\ UNCHANGED <<vpc, tc, existing, expected>>

ValidateNilOutput(c) ==
  /\ StartValidation(c)
  /\ ShapeOK(c)
  /\ ~WellFormed(ExpectedTrace(c))
  /\ verdict' = "nilOutput"
  /\ sink' = "stderr"
  /\ UNCHANGED <<vpc, tc, existing, expected>>

ValidateBegin(c) ==
  /\ StartValidation(c)
  /\ ShapeOK(c)
  /\ WellFormed(ExpectedTrace(c))
  /\ sink' = "blackhole"
  /\ tc' = c
  /\ existing' = Len(hidden)
  /\ expected' = ExpectedTrace(c)
  /\ vpc' = "run"
  /\ UNCHANGED verdict

(***************************************************************************)
(* One iteration of transitionAll: transition on the next input; a        *)
(* panicErr ends the loop.  transition never returns err (see Extend).    *)
(***************************************************************************)
RunStep ==
  /\ vpc = "run"
  /\ idx <= Len(tc.inputs)
  /\ \E res \in Event \cup {Panic} :
       /\ Transition(tc.inputs[idx], res)
       /\ IF res = Panic
          THEN /\ panicked' = TRUE
               /\ vpc' = "check"
               /\ UNCHANGED idx
          ELSE /\ idx' = idx + 1
               /\ UNCHANGED <<panicked, vpc>>
  /\ UNCHANGED <<tc, existing, expected, verdict, nvalid>>

RunDone ==
  /\ vpc = "run"
  /\ idx > Len(tc.inputs)
  /\ vpc' = "check"
  /\ UNCHANGED <<adapterVars, tc, existing, expected, idx, panicked, verdict,
                 nvalid>>

\* Lines 444-499 and the deferred restore of the logger; the locals of
\* ValidateAsExtension go out of scope.
Check ==
  /\ vpc = "check"
  /\ verdict' = CheckVerdict
  /\ vpc' = "idle"
  /\ sink' = "stderr"
  /\ tc' = NoTestCase
  /\ existing' = 0
  /\ expected' = << >>
  /\ idx' = 1
  /\ panicked' = FALSE
  /\ UNCHANGED <<hidden, visible, rHandle, vorigin, nsteps, nvalid>>

Next ==
  \/ DirectTransition
  \/ Reset
  \/ \E c \in TestCases : ValidateMalformed(c) \/ ValidateNilOutput(c)
                            \/ ValidateBegin(c)
  \/ RunStep
  \/ RunDone
  \/ Check

Spec == Init /\ [][Next]_vars

-----------------------------------------------------------------------------
(***************************************************************************)
(* Properties.                                                             *)
(***************************************************************************)

\* The type invariant: the adapter's part and the validator's.
ValidatorTypeOK ==
  /\ vpc \in {"idle", "run", "check"}
  /\ tc \in [inputs : Seq(TestInputs), outputs : Seq(TestOutputs),
             props : Seq(Props)]
  /\ existing \in Nat
  /\ expected \in Seq(EventOrNil)
  /\ idx \in Nat \ {0}
  /\ panicked \in BOOLEAN
  /\ verdict \in Verdicts
  /\ nvalid \in 0..MaxValidations

TypeOK == AdapterTypeOK /\ ValidatorTypeOK

(***************************************************************************)
(* What a passing validation means: exactly one input per expected output *)
(* was handled without a panic, the final input (if there is one more)    *)
(* panicked, and the hidden trace produced by the run is the expected     *)
(* trace event for event (by fingerprint).                                 *)
(***************************************************************************)
RunMatchesTestCase ==
  LET n == Len(tc.outputs)
  IN  /\ idx - 1 = n
      /\ panicked <=> Len(tc.inputs) = n + 1
      /\ Len(Extension) = 2 * n
      /\ \A i \in 1..2 * n : Extension[i] # Nil
                              /\ Fp(Extension[i]) = Fp(expected[i])

CheckOk == vpc = "check" /\ vpc' = "idle" /\ verdict' = Ok

(***************************************************************************)
(* ValidateAsExtension returns (nil, nil) only for a run that matches the *)
(* test case.  The code checks the length of the whole hidden trace       *)
(* (outputTraceLen, line 476) against the length of the expected          *)
(* extension, so on an automaton that had already run, a listener that    *)
(* panics before the last input is reported as passing.                   *)
(***************************************************************************)
ValidateSound == [][CheckOk => RunMatchesTestCase]_vars

(***************************************************************************)
(* The same for a validation of an automaton whose trace is empty (fresh, *)
(* or reset), the case Validate documents: there the length check at 476  *)
(* together with the prefix match at 448 pins the run down exactly.       *)
(***************************************************************************)
ValidateSoundFresh == [][CheckOk /\ existing = 0 => RunMatchesTestCase]_vars

(***************************************************************************)
(* Once the run is over, a runtimeErr means the harness could not reach a *)
(* verdict, never that the listener misbehaved: it is returned only for a *)
(* hidden trace holding a nil event (which the wrapper's checkWellFormed  *)
(* reports); a rejection by a checker is an invalidErr.                    *)
(***************************************************************************)
RuntimeOnlyFromHarness ==
  [][vpc = "check" /\ verdict' \in RuntimeVerdicts => ~WellFormed(hidden)]_vars

\* A step in which ValidateAsExtension returns: an early return before the
\* run (the validation count grows, the validator stays idle), or the check.
Returns == vpc' = "idle" /\ (vpc = "check" \/ nvalid' = nvalid + 1)

\* The two contract violations of the harness that panic by design: a nil
\* event reaching ComparableStr, and newPropChecker of a
\* directMatchIoSafetyProp inside an ioPropWrapper (line 263).
ContractViolation ==
  \/ ~WellFormed(hidden)
  \/ \E k \in 1..Len(tc.props) : tc.props[k].kind = "wrapDirect"

(***************************************************************************)
(* A panic escapes ValidateAsExtension only after the run, and only from  *)
(* one of the harness's contract violations: a panic of the listener is   *)
(* always caught by callHandler and becomes a verdict, and the checks     *)
(* before the run never panic.                                             *)
(***************************************************************************)
PanicOnlyFromContractViolation ==
  [][Returns /\ verdict' = "panic" => vpc = "check" /\ ContractViolation]_vars

\* The listener adapter as an ioAutomata: its hidden trace is the trace.
Abstract == INSTANCE IOAutomaton
              WITH Inputs <- EventOrNil, Outputs <- {<<e>> : e \in Event},
                   trace <- hidden

(***************************************************************************)
(* The hidden trace of the listener adapter behaves as the ioAutomata     *)
(* interface promises, across direct transitions, validations, panics     *)
(* and resets: every change appends one input and its one output, or      *)
(* empties it.                                                             *)
(***************************************************************************)
ImplementsIOAutomaton == Abstract!Spec

(***************************************************************************)
(* While ValidateAsExtension runs, the logger stays on the blackhole it   *)
(* installed at line 415 ("suppress error logging from contract-          *)
(* checkers"); callHandler's deferred restore sets os.Stderr instead of   *)
(* the writer it replaced.                                                 *)
(***************************************************************************)
LoggerSuppressedDuringValidation == vpc \in {"run", "check"} => sink = "blackhole"
=============================================================================
