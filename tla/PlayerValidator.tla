--------------------------- MODULE PlayerValidator ---------------------------
(***************************************************************************)
(* determisticTraceTestCase.ValidateAsExtension (405-500) driving an      *)
(* ioAutomataConcretePlayer through the ioAutomata interface: getTrace is *)
(* *savedTrace, transitionAll is the player's (634-642).  The test code   *)
(* may call transition and resetTrace between validations.                 *)
(*                                                                         *)
(* The validator's own operators (the shape check, the expected trace,    *)
(* the verdict of 444-499) are those of TraceValidator, read through the  *)
(* instance V on the player's trace: the hidden trace is *savedTrace, and *)
(* the player keeps no visible trace and routes nothing.                   *)
(***************************************************************************)
EXTENDS PlayerAdapter

CONSTANTS TestInputs, TestOutputs, Props, MaxInputs, MaxProps, MaxValidations

\* The inputs of a test case are events or nil, and there are boundedly many.
ASSUME PlayerInputsAssumption == TestInputs \subseteq EventOrNil /\ MaxInputs \in Nat

VARIABLES
  vpc, tc, existing, expected, idx, panicked, verdict, nvalid,  \* as in TraceValidator
  counts   \* history: the number of actions of each input handled in this run

validatorVars == <<vpc, tc, existing, expected, idx, panicked, verdict, nvalid>>

vars == <<playerVars, validatorVars, counts>>

V == INSTANCE TraceValidator
       WITH hidden <- TraceOf(saved), visible <- << >>, rHandle <- TRUE,
            vorigin <- << >>, RoutedEvent <- {}, MaxDispatch <- 0

Init ==
  /\ PlayerInit
  /\ vpc = "idle"
  /\ tc = V!NoTestCase
  /\ existing = 0
  /\ expected = << >>
  /\ idx = 1
  /\ panicked = FALSE
  /\ verdict = "none"
  /\ nvalid = 0
  /\ counts = << >>

\* The test code calls transition itself.
DirectTransition ==
  /\ vpc = "idle"
  /\ \E in \in TestInputs, res \in ActionSeqs \cup {Panic} : PlayerTransition(in, res)
  /\ UNCHANGED <<validatorVars, counts>>

\* The test code calls resetTrace.
Reset ==
  /\ vpc = "idle"
  /\ PlayerResetTrace
  /\ UNCHANGED <<validatorVars, counts>>

(***************************************************************************)
(* ValidateAsExtension up to the call of transitionAll (413-440).  After  *)
(* the shape check, getTrace (425) dereferences savedTrace: on a player   *)
(* that was never run, or was reset since, this is a nil dereference whose *)
(* panic unwinds through the deferred restore of os.Stderr.               *)
(***************************************************************************)
StartValidation(c) ==
  /\ vpc = "idle"
  /\ nvalid < MaxValidations
  /\ nsteps + Len(c.inputs) <= MaxCalls
  /\ nvalid' = nvalid + 1
  /\ UNCHANGED <<saved, tracer, nsteps, idx, panicked>>

ValidateMalformed(c) ==
  /\ StartValidation(c)
  /\ ~V!ShapeOK(c)
  /\ verdict' = "malformedCase"
  /\ sink' = "stderr"
  /\ UNCHANGED <<vpc, tc, existing, expected, counts>>

ValidateNilTrace(c) ==
  /\ StartValidation(c)
  /\ V!ShapeOK(c)
  /\ saved = {}
  /\ verdict' = "panic"
  /\ sink' = "stderr"
  /\ UNCHANGED <<vpc, tc, existing, expected, counts>>

ValidateNilOutput(c) ==
  /\ StartValidation(c)
  /\ V!ShapeOK(c)
  /\ saved # {}
  /\ ~WellFormed(V!ExpectedTrace(c))
  /\ verdict' = "nilOutput"
  /\ sink' = "stderr"
  /\ UNCHANGED <<vpc, tc, existing, expected, counts>>

ValidateBegin(c) ==
  /\ StartValidation(c)
  /\ V!ShapeOK(c)
  /\ saved # {}
  /\ WellFormed(V!ExpectedTrace(c))
  /\ sink' = "blackhole"
  /\ tc' = c
  /\ existing' = Len(TraceOf(saved))
  /\ expected' = V!ExpectedTrace(c)
  /\ vpc' = "run"
  /\ counts' = << >>
  /\ UNCHANGED verdict

\* One iteration of the player's transitionAll; a panicErr ends the loop.
RunStep ==
  /\ vpc = "run"
  /\ idx <= Len(tc.inputs)
  /\ \E res \in ActionSeqs \cup {Panic} :
       /\ PlayerTransition(tc.inputs[idx], res)
       /\ IF res = Panic
          THEN /\ panicked' = TRUE
               /\ vpc' = "check"
               /\ UNCHANGED <<idx, counts>>
          ELSE /\ idx' = idx + 1
               /\ counts' = Append(counts, Len(res))
               /\ UNCHANGED <<panicked, vpc>>
  /\ UNCHANGED <<tc, existing, expected, verdict, nvalid>>

RunDone ==
  /\ vpc = "run"
  /\ idx > Len(tc.inputs)
  /\ vpc' = "check"
  /\ UNCHANGED <<playerVars, tc, existing, expected, idx, panicked, verdict,
                 nvalid, counts>>

\* Lines 441-500 on *savedTrace, and the deferred restore of the logger.
Check ==
  /\ vpc = "check"
  /\ verdict' = V!CheckVerdict
  /\ vpc' = "idle"
  /\ sink' = "stderr"
  /\ tc' = V!NoTestCase
  /\ existing' = 0
  /\ expected' = << >>
  /\ idx' = 1
  /\ panicked' = FALSE
  /\ UNCHANGED <<saved, tracer, nsteps, nvalid, counts>>

Next ==
  \/ DirectTransition
  \/ Reset
  \/ \E c \in V!TestCases : \/ ValidateMalformed(c) \/ ValidateNilTrace(c)
                            \/ ValidateNilOutput(c) \/ ValidateBegin(c)
  \/ RunStep
  \/ RunDone
  \/ Check

Spec == Init /\ [][Next]_vars

-----------------------------------------------------------------------------
\* The player as an ioAutomata: its trace is *savedTrace (empty when nil).
Abstract == INSTANCE IOAutomaton
              WITH Inputs <- EventOrNil, Outputs <- ActionSeqs,
                   trace <- TraceOf(saved)

(***************************************************************************)
(* The player's trace behaves as the ioAutomata interface promises: every *)
(* change appends one input followed by all the actions submitTop         *)
(* returned for it, or empties it; a panic of submitTop changes nothing.  *)
(***************************************************************************)
ImplementsIOAutomaton == Abstract!Spec

\* Every input handled in the run produced exactly one action.
OneActionEach == \A j \in 1..Len(counts) : counts[j] = 1

(***************************************************************************)
(* On a player whose trace is empty, ValidateAsExtension returns (nil,    *)
(* nil) only for a run that matches the test case exactly.  The expected  *)
(* trace has one output per input; directMatch only compares the common   *)
(* prefix and the length check at 476 is a lower bound, so a last input   *)
(* that produced more than one action still passes.                        *)
(***************************************************************************)
PlayerValidateSoundFresh ==
  [][V!CheckOk /\ existing = 0 => V!RunMatchesTestCase]_vars

(***************************************************************************)
(* The same under the one-action contract the player is written for (a    *)
(* machine yields one action per input): then a pass on an empty trace    *)
(* pins the run down exactly, as for the listener adapter.                 *)
(***************************************************************************)
PlayerValidateSoundOneAction ==
  [][V!CheckOk /\ existing = 0 /\ OneActionEach => V!RunMatchesTestCase]_vars

(***************************************************************************)
(* As for the listener adapter, a panic escapes ValidateAsExtension only  *)
(* after the run, from a contract violation of the harness.  resetTrace   *)
(* leaves savedTrace nil, and getTrace at 425 then panics on a            *)
(* validation the interface documents as valid ("restarting it at the     *)
(* point when resetTrace is called", 292-294).                             *)
(***************************************************************************)
PlayerPanicOnlyFromContractViolation ==
  [][V!Returns /\ verdict' = "panic" => vpc = "check" /\ V!ContractViolation]_vars
=============================================================================
