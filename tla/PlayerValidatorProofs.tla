------------------------ MODULE PlayerValidatorProofs ------------------------
(***************************************************************************)
(* Proof that ioAutomataConcretePlayer, driven by the test code and by    *)
(* ValidateAsExtension, keeps a trace that behaves as the ioAutomata       *)
(* interface promises (ImplementsIOAutomaton), for every set of events,   *)
(* test cases and bounds.                                                  *)
(*                                                                         *)
(* The refinement needs no invariant of the trace itself: transition       *)
(* allocates a trace whose value is exactly the old one extended, and a   *)
(* nil pointer reads as the empty trace.  What it needs is that every     *)
(* input handed to transition is an event or nil, which holds because     *)
(* ValidateAsExtension only runs the inputs of a test case it was given.   *)
(***************************************************************************)
EXTENDS PlayerValidator, SequenceTheorems, TLAPS

\* The inputs transitionAll may hand to transition.
InputsOK ==
  /\ tc.inputs \in Seq(TestInputs)
  /\ idx \in Nat \ {0}

\* The trace behind a pointer {t} is t.
LEMMA TraceOfSingleton ==
  ASSUME NEW t
  PROVE  TraceOf({t}) = t
BY DEF TraceOf

LEMMA InputsOKInit == Init => InputsOK
BY DEF Init, InputsOK, V!NoTestCase

LEMMA InputsOKStep == InputsOK /\ [Next]_vars => InputsOK'
<1> SUFFICES ASSUME InputsOK, [Next]_vars PROVE InputsOK'
  OBVIOUS
<1>1. ASSUME NEW c \in V!TestCases, ValidateBegin(c)
      PROVE  InputsOK'
  <2>1. MaxInputs \in Nat
    BY PlayerInputsAssumption
  <2>2. \A m \in 0..MaxInputs : [1..m -> TestInputs] \subseteq Seq(TestInputs)
    BY <2>1, SeqDef
  <2>3. c.inputs \in Seq(TestInputs)
    BY <2>2 DEF V!TestCases, V!BSeq
  <2>4. QED
    BY <1>1, <2>3 DEF ValidateBegin, StartValidation, InputsOK
<1>2. ASSUME NEW c \in V!TestCases,
             ValidateMalformed(c) \/ ValidateNilTrace(c) \/ ValidateNilOutput(c)
      PROVE  InputsOK'
  BY <1>2 DEF ValidateMalformed, ValidateNilTrace, ValidateNilOutput,
              StartValidation, InputsOK
<1>3. CASE RunStep
  BY <1>3 DEF RunStep, InputsOK
<1>4. CASE Check
  BY <1>4 DEF Check, InputsOK, V!NoTestCase
<1>5. CASE DirectTransition \/ Reset \/ RunDone \/ UNCHANGED vars
  BY <1>5 DEF DirectTransition, Reset, RunDone, InputsOK, vars, validatorVars
<1>6. QED
  BY <1>1, <1>2, <1>3, <1>4, <1>5 DEF Next

\* One transition is a step of the abstract trace: the input and every
\* action submitTop returned are appended, and a panic changes nothing.
LEMMA PlayerTransitionRefines ==
  ASSUME NEW in \in EventOrNil, NEW res \in ActionSeqs \cup {Panic},
         PlayerTransition(in, res)
  PROVE  [Abstract!Next]_(TraceOf(saved))
<1> DEFINE base == TraceOf(saved)
<1>1. CASE res = Panic
  <2>1. TraceOf(saved') = base
    BY <1>1, TraceOfSingleton DEF PlayerTransition
  <2>2. QED
    BY <2>1
<1>2. CASE res # Panic
  <2>1. TraceOf(saved') = (base \o <<in>>) \o res
    BY <1>2, TraceOfSingleton DEF PlayerTransition, Extend
  <2>2. res \in ActionSeqs
    BY <1>2
  <2>3. QED
    BY <2>1, <2>2 DEF Abstract!Next, Abstract!Step
<1>3. QED
  BY <1>1, <1>2

(***************************************************************************)
(* The player's trace behaves as the ioAutomata interface promises under  *)
(* every schedule of transition, resetTrace and ValidateAsExtension:      *)
(* transition appends its input and then all the actions of submitTop, or *)
(* nothing when submitTop panics; resetTrace empties it.                   *)
(***************************************************************************)
THEOREM PlayerImplementsIOAutomatonCorrect == Spec => ImplementsIOAutomaton
<1>1. Init => Abstract!Init
  <2> SUFFICES ASSUME Init PROVE TraceOf(saved) = << >>
    BY DEF Abstract!Init
  <2>1. saved \in {{}, {<< >>}}
    BY DEF Init, PlayerInit
  <2>2. QED
    BY <2>1, TraceOfSingleton DEF TraceOf
<1>2. InputsOK /\ [Next]_vars => [Abstract!Next]_(TraceOf(saved))
  <2> SUFFICES ASSUME InputsOK, [Next]_vars
               PROVE  [Abstract!Next]_(TraceOf(saved))
    OBVIOUS
  <2>1. CASE DirectTransition
    <3>1. PICK in \in TestInputs, res \in ActionSeqs \cup {Panic} :
                 PlayerTransition(in, res)
      BY <2>1 DEF DirectTransition
    <3>2. in \in EventOrNil
      BY PlayerInputsAssumption
    <3>3. QED
      BY <3>1, <3>2, PlayerTransitionRefines
  <2>2. CASE Reset
    <3>1. saved' = {}
      BY <2>2 DEF Reset, PlayerResetTrace
    <3>2. QED
      BY <3>1 DEF TraceOf, Abstract!Next, Abstract!Reset
  <2>3. CASE \E c \in V!TestCases : \/ ValidateMalformed(c) \/ ValidateNilTrace(c)
                                    \/ ValidateNilOutput(c) \/ ValidateBegin(c)
    BY <2>3 DEF ValidateMalformed, ValidateNilTrace, ValidateNilOutput,
                ValidateBegin, StartValidation
  <2>4. CASE RunStep
    <3>1. PICK res \in ActionSeqs \cup {Panic} : PlayerTransition(tc.inputs[idx], res)
      BY <2>4 DEF RunStep
    <3>2. idx \in 1..Len(tc.inputs) /\ tc.inputs \in Seq(TestInputs)
      BY <2>4 DEF RunStep, InputsOK
    <3>3. tc.inputs[idx] \in EventOrNil
      BY <3>2, ElementOfSeq, PlayerInputsAssumption
    <3>4. QED
      BY <3>1, <3>3, PlayerTransitionRefines
  <2>5. CASE RunDone
    BY <2>5 DEF RunDone, playerVars
  <2>6. CASE Check
    BY <2>6 DEF Check
  <2>7. CASE UNCHANGED vars
    BY <2>7 DEF vars, playerVars
  <2>8. QED
    BY <2>1, <2>2, <2>3, <2>4, <2>5, <2>6, <2>7 DEF Next
<1>3. QED
  BY <1>1, <1>2, InputsOKInit, InputsOKStep, PTL
     DEF Spec, ImplementsIOAutomaton, Abstract!Spec

-----------------------------------------------------------------------------
(***************************************************************************)
(* A passing validation under the one-action contract.                     *)
(***************************************************************************)

\* What ValidateAsExtension knows of its locals on the player, as
\* ValidationInv of TraceValidatorProofs: the trace grows by one input and
\* its actions per input handled, so by one pair each while every input
\* handled so far produced exactly one action.
PlayerRunInv ==
  /\ TraceOf(saved) \in Seq(EventOrNil)
  /\ tc.inputs \in Seq(TestInputs) /\ tc.outputs \in Seq(TestOutputs)
  /\ existing \in Nat /\ idx \in Nat \ {0} /\ panicked \in BOOLEAN
  /\ counts \in Seq(Nat)
  /\ vpc \in {"idle", "run", "check"}
  /\ vpc = "idle" => idx = 1 /\ ~panicked
  /\ vpc \in {"run", "check"} =>
       /\ V!ShapeOK(tc)
       /\ expected = V!ExpectedTrace(tc)
       /\ idx <= Len(tc.inputs) + 1
       /\ OneActionEach => Len(TraceOf(saved)) = existing + 2 * (idx - 1)
  /\ vpc = "run" => ~panicked
  /\ vpc = "check" /\ panicked => idx <= Len(tc.inputs)
  /\ vpc = "check" /\ ~panicked => idx = Len(tc.inputs) + 1


\* A bounded sequence (the actions of one submitTop, the inputs and outputs
\* of a test case) is a sequence.
LEMMA BoundedIsSeq ==
  ASSUME NEW S, NEW n \in Nat
  PROVE  BSeq(S, n) \subseteq Seq(S)
<1>1. \A m \in 0..n : [1..m -> S] \subseteq Seq(S)
  BY SeqDef
<1>2. QED
  BY <1>1 DEF BSeq

\* One transition leaves a trace of events or nil that grew by the input
\* and all the actions, or not at all after a panic.
LEMMA PlayerTransitionLen ==
  ASSUME TraceOf(saved) \in Seq(EventOrNil), NEW in \in EventOrNil,
         NEW res \in ActionSeqs \cup {Panic}, PlayerTransition(in, res)
  PROVE  /\ TraceOf(saved') \in Seq(EventOrNil)
         /\ Len(TraceOf(saved')) =
              Len(TraceOf(saved)) + (IF res = Panic THEN 0 ELSE 1 + Len(res))
<1> DEFINE base == TraceOf(saved)
<1>1. CASE res = Panic
  <2>1. TraceOf(saved') = base
    BY <1>1, TraceOfSingleton DEF PlayerTransition
  <2>2. QED
    BY <1>1, <2>1, LenProperties
<1>2. CASE res # Panic
  <2>1. TraceOf(saved') = (base \o <<in>>) \o res
    BY <1>2, TraceOfSingleton DEF PlayerTransition, Extend
  <2>2. res \in Seq(EventOrNil)
    <3>1. res \in Seq(Event)
      BY <1>2, BoundedIsSeq, PlayerBoundsAssumption DEF ActionSeqs
    <3>2. QED
      BY <3>1 DEF EventOrNil
  <2>3. <<in>> \in Seq(EventOrNil) /\ Len(<<in>>) = 1
    OBVIOUS
  <2>4. QED
    BY <1>2, <2>1, <2>2, <2>3, ConcatProperties
<1>3. QED
  BY <1>1, <1>2

LEMMA PlayerRunInvInit == Init => PlayerRunInv
<1> SUFFICES ASSUME Init PROVE PlayerRunInv
  OBVIOUS
<1>1. TraceOf(saved) = << >>
  BY TraceOfSingleton DEF Init, PlayerInit, TraceOf
<1>2. /\ TraceOf(saved) \in Seq(EventOrNil) /\ counts \in Seq(Nat)
      /\ tc.inputs \in Seq(TestInputs) /\ tc.outputs \in Seq(TestOutputs)
  <2>1. << >> \in Seq(EventOrNil) /\ << >> \in Seq(Nat)
        /\ << >> \in Seq(TestInputs) /\ << >> \in Seq(TestOutputs)
    BY EmptySeq
  <2>2. QED
    BY <1>1, <2>1 DEF Init, V!NoTestCase
<1>3. existing \in Nat /\ idx \in Nat \ {0}
  BY DEF Init
<1>4. QED
  BY <1>2, <1>3, Zenon DEF Init, PlayerRunInv

\* The validations that return before the run leave the locals as they were.
LEMMA PlayerEarlyReturn ==
  ASSUME PlayerRunInv, NEW c,
         ValidateMalformed(c) \/ ValidateNilTrace(c) \/ ValidateNilOutput(c)
  PROVE  PlayerRunInv'
<1>1. /\ vpc = "idle" /\ UNCHANGED <<vpc, tc, existing, expected, counts>>
      /\ UNCHANGED <<saved, idx, panicked>>
  BY DEF ValidateMalformed, ValidateNilTrace, ValidateNilOutput, StartValidation
<1>2. QED
  BY <1>1, Zenon DEF PlayerRunInv, OneActionEach

LEMMA PlayerBegin ==
  ASSUME PlayerRunInv, NEW c \in V!TestCases, ValidateBegin(c)
  PROVE  PlayerRunInv'
<1>1. /\ vpc = "idle" /\ vpc' = "run" /\ tc' = c /\ V!ShapeOK(c)
      /\ expected' = V!ExpectedTrace(c) /\ existing' = Len(TraceOf(saved))
      /\ counts' = << >> /\ UNCHANGED <<saved, idx, panicked>>
  BY DEF ValidateBegin, StartValidation
<1>2. idx = 1 /\ ~panicked
  BY <1>1 DEF PlayerRunInv
<1>3. c.inputs \in Seq(TestInputs) /\ c.outputs \in Seq(TestOutputs)
  BY BoundedIsSeq, PlayerInputsAssumption DEF V!TestCases, V!BSeq
<1>4. /\ Len(TraceOf(saved)) \in Nat /\ Len(c.inputs) \in Nat
      /\ existing' \in Nat /\ counts' \in Seq(Nat)
  BY <1>1, <1>3, EmptySeq DEF PlayerRunInv
<1>5. idx' <= Len(tc'.inputs) + 1 /\ Len(TraceOf(saved')) = existing' + 2 * (idx' - 1)
  BY <1>1, <1>2, <1>4
<1>6. QED
  BY <1>1, <1>2, <1>3, <1>4, <1>5, Zenon DEF PlayerRunInv

LEMMA PlayerRun ==
  ASSUME PlayerRunInv, RunStep
  PROVE  PlayerRunInv'
<1>1. PICK res \in ActionSeqs \cup {Panic} :
        /\ PlayerTransition(tc.inputs[idx], res)
        /\ IF res = Panic
           THEN /\ panicked' = TRUE
                /\ vpc' = "check"
                /\ UNCHANGED <<idx, counts>>
           ELSE /\ idx' = idx + 1
                /\ counts' = Append(counts, Len(res))
                /\ UNCHANGED <<panicked, vpc>>
  BY DEF RunStep
<1>2. /\ vpc = "run" /\ idx <= Len(tc.inputs)
      /\ UNCHANGED <<tc, existing, expected>>
  BY DEF RunStep
<1>3. /\ V!ShapeOK(tc) /\ expected = V!ExpectedTrace(tc) /\ ~panicked
      /\ OneActionEach => Len(TraceOf(saved)) = existing + 2 * (idx - 1)
  BY <1>2 DEF PlayerRunInv
<1>4. tc.inputs[idx] \in EventOrNil
  <2>1. idx \in 1..Len(tc.inputs) /\ tc.inputs \in Seq(TestInputs)
    BY <1>2 DEF PlayerRunInv
  <2>2. QED
    BY <2>1, ElementOfSeq, PlayerInputsAssumption
<1>5. /\ TraceOf(saved') \in Seq(EventOrNil)
      /\ Len(TraceOf(saved')) =
           Len(TraceOf(saved)) + (IF res = Panic THEN 0 ELSE 1 + Len(res))
  BY <1>1, <1>4, PlayerTransitionLen DEF PlayerRunInv
<1>6. /\ idx \in Nat \ {0} /\ existing \in Nat /\ Len(tc.inputs) \in Nat
      /\ counts \in Seq(Nat) /\ Len(TraceOf(saved)) \in Nat
  BY LenProperties DEF PlayerRunInv
<1>7. CASE res = Panic
  <2>1. panicked' /\ vpc' = "check" /\ idx' = idx /\ counts' = counts
    BY <1>1, <1>7
  <2>2. OneActionEach' => Len(TraceOf(saved')) = existing' + 2 * (idx' - 1)
    BY <1>2, <1>3, <1>5, <1>7, <2>1 DEF OneActionEach
  <2>3. QED
    BY <1>2, <1>3, <1>5, <2>1, <2>2, Zenon DEF PlayerRunInv
<1>8. CASE res # Panic
  <2>1. /\ idx' = idx + 1 /\ counts' = Append(counts, Len(res))
        /\ panicked' = panicked /\ vpc' = vpc
    BY <1>1, <1>8
  <2>2. res \in Seq(Event) /\ Len(res) \in Nat
    BY <1>8, BoundedIsSeq, PlayerBoundsAssumption DEF ActionSeqs
  <2>3. counts' \in Seq(Nat) /\ Len(counts') = Len(counts) + 1
    BY <1>6, <2>1, <2>2
  <2>4. OneActionEach' => OneActionEach /\ Len(res) = 1
    BY <1>6, <2>1, <2>2 DEF OneActionEach
  <2>5. OneActionEach' => Len(TraceOf(saved')) = existing' + 2 * (idx' - 1)
    <3> SUFFICES ASSUME OneActionEach'
                 PROVE  Len(TraceOf(saved')) = existing' + 2 * (idx' - 1)
      OBVIOUS
    <3>1. Len(TraceOf(saved')) = Len(TraceOf(saved)) + 1 + Len(res)
      BY <1>5, <1>8
    <3>2. Len(res) = 1 /\ Len(TraceOf(saved)) = existing + 2 * (idx - 1)
      BY <1>3, <2>4
    <3>3. QED
      BY <1>2, <1>6, <2>1, <3>1, <3>2
  <2>6. ~panicked' /\ vpc' = "run" /\ idx' \in Nat \ {0} /\ idx' <= Len(tc'.inputs) + 1
    BY <1>2, <1>3, <1>6, <2>1
  <2>7. QED
    BY <1>2, <1>3, <1>5, <2>1, <2>3, <2>5, <2>6, Zenon DEF PlayerRunInv
<1>9. QED
  BY <1>7, <1>8

LEMMA PlayerRunInvStep == PlayerRunInv /\ [Next]_vars => PlayerRunInv'
<1> SUFFICES ASSUME PlayerRunInv, [Next]_vars PROVE PlayerRunInv'
  OBVIOUS
<1>1. CASE DirectTransition
  <2>1. PICK in \in TestInputs, res \in ActionSeqs \cup {Panic} :
               PlayerTransition(in, res)
    BY <1>1 DEF DirectTransition
  <2>2. TraceOf(saved') \in Seq(EventOrNil)
    BY <2>1, PlayerInputsAssumption, PlayerTransitionLen DEF PlayerRunInv
  <2>3. UNCHANGED <<vpc, tc, existing, expected, idx, panicked, counts>>
    BY <1>1 DEF DirectTransition, validatorVars
  <2>4. vpc = "idle"
    BY <1>1 DEF DirectTransition
  <2>5. QED
    BY <2>2, <2>3, <2>4, Zenon DEF PlayerRunInv, OneActionEach
<1>2. CASE Reset
  <2>1. TraceOf(saved') = << >>
    BY <1>2 DEF Reset, PlayerResetTrace, TraceOf
  <2>2. UNCHANGED <<vpc, tc, existing, expected, idx, panicked, counts>> /\ vpc = "idle"
    BY <1>2 DEF Reset, validatorVars
  <2>3. QED
    BY <2>1, <2>2, EmptySeq, Zenon DEF PlayerRunInv, OneActionEach
<1>3. ASSUME NEW c \in V!TestCases,
             \/ ValidateMalformed(c) \/ ValidateNilTrace(c)
             \/ ValidateNilOutput(c) \/ ValidateBegin(c)
      PROVE  PlayerRunInv'
  BY <1>3, PlayerEarlyReturn, PlayerBegin
<1>4. CASE RunStep
  BY <1>4, PlayerRun
<1>5. CASE RunDone
  <2>1. /\ vpc = "run" /\ vpc' = "check" /\ idx > Len(tc.inputs)
        /\ UNCHANGED <<saved, tc, existing, expected, idx, panicked, counts>>
    BY <1>5 DEF RunDone, playerVars
  <2>2. idx <= Len(tc.inputs) + 1 /\ ~panicked /\ idx \in Nat /\ Len(tc.inputs) \in Nat
    BY <2>1, LenProperties DEF PlayerRunInv
  <2>3. idx' = Len(tc'.inputs) + 1
    BY <2>1, <2>2
  <2>4. QED
    BY <2>1, <2>2, <2>3, Zenon DEF PlayerRunInv, OneActionEach
<1>6. CASE Check
  <2>1. /\ vpc' = "idle" /\ idx' = 1 /\ panicked' = FALSE /\ existing' = 0
        /\ tc' = V!NoTestCase /\ UNCHANGED <<saved, counts>>
    BY <1>6 DEF Check
  <2>2. tc'.inputs \in Seq(TestInputs) /\ tc'.outputs \in Seq(TestOutputs)
    <3>1. << >> \in Seq(TestInputs) /\ << >> \in Seq(TestOutputs)
      BY EmptySeq
    <3>2. QED
      BY <2>1, <3>1 DEF V!NoTestCase
  <2>3. TraceOf(saved') \in Seq(EventOrNil) /\ counts' \in Seq(Nat)
    BY <2>1 DEF PlayerRunInv
  <2>4. existing' \in Nat /\ idx' \in Nat \ {0}
    BY <2>1
  <2>5. QED
    BY <2>1, <2>2, <2>3, <2>4, Zenon DEF PlayerRunInv
<1>7. CASE UNCHANGED vars
  BY <1>7 DEF vars, playerVars, validatorVars, PlayerRunInv, OneActionEach
<1>8. QED
  BY <1>1, <1>2, <1>3, <1>4, <1>5, <1>6, <1>7 DEF Next


\* The expected trace of a well-shaped test case has two entries per
\* expected output.
LEMMA PlayerExpectedTraceLen ==
  ASSUME NEW c, c.inputs \in Seq(TestInputs), c.outputs \in Seq(TestOutputs),
         V!ShapeOK(c)
  PROVE  Len(V!ExpectedTrace(c)) = 2 * Len(c.outputs)
<1> DEFINE X == TestInputs \cup TestOutputs
           n == Len(c.outputs)
<1>1. n \in Nat /\ 2 * n \in Nat
  BY LenProperties
<1>2. \A k \in 1..2 * n :
        (IF k % 2 = 1 THEN c.inputs[(k + 1) \div 2] ELSE c.outputs[k \div 2]) \in X
  <2> SUFFICES ASSUME NEW k \in 1..2 * n
               PROVE  (IF k % 2 = 1 THEN c.inputs[(k + 1) \div 2]
                                    ELSE c.outputs[k \div 2]) \in X
    OBVIOUS
  <2>1. CASE k % 2 = 1
    <3>1. (k + 1) \div 2 \in 1..Len(c.inputs)
      BY <1>1, <2>1, LenProperties DEF V!ShapeOK
    <3>2. QED
      BY <2>1, <3>1, ElementOfSeq
  <2>2. CASE k % 2 # 1
    <3>1. k \div 2 \in 1..n
      BY <1>1, <2>2
    <3>2. QED
      BY <2>2, <3>1, ElementOfSeq
  <2>3. QED
    BY <2>1, <2>2
<1>3. V!ExpectedTrace(c) \in Seq(X)
  BY <1>1, <1>2, SeqDef DEF V!ExpectedTrace
<1>4. QED
  BY <1>1, <1>3, LenProperties DEF V!ExpectedTrace

\* When a validation of an empty trace ends with a pass and every input
\* produced one action, the run matched the test case.
LEMMA PlayerOkMeansMatch ==
  ASSUME PlayerRunInv, vpc = "check", existing = 0, OneActionEach,
         V!CheckVerdict = V!Ok
  PROVE  V!RunMatchesTestCase
<1> DEFINE n == Len(tc.outputs)
           nin == Len(tc.inputs)
           hid == TraceOf(saved)
<1>1. /\ V!ShapeOK(tc)
      /\ expected = V!ExpectedTrace(tc)
      /\ idx <= nin + 1
      /\ Len(hid) = existing + 2 * (idx - 1)
      /\ panicked => idx <= nin
      /\ ~panicked => idx = nin + 1
  BY Zenon DEF PlayerRunInv
<1>2. /\ n \in Nat /\ nin \in Nat /\ idx \in Nat \ {0}
      /\ hid \in Seq(EventOrNil)
  BY LenProperties DEF PlayerRunInv
<1>3. Len(expected) = 2 * n /\ Len(hid) = 2 * (idx - 1)
  BY <1>1, <1>2, PlayerExpectedTraceLen DEF PlayerRunInv
<1>4. V!Extension = hid
  BY <1>2, SubSeqFull DEF V!Extension
<1>5. /\ V!DirectMatch(expected, V!Extension) # V!EvalPanic
      /\ V!DirectMatch(expected, V!Extension) # V!Rejected
      /\ ~(nin = n /\ panicked)
      /\ ~(nin = n + 1 /\ ~panicked)
      /\ ~(Len(hid) < Len(expected))
  <2>1. panicked \in BOOLEAN
    BY DEF PlayerRunInv
  <2>2. QED
    BY <2>1 DEF V!CheckVerdict, V!DivergedVerdict, V!Ok, V!Extension
<1>6. idx - 1 = n /\ (panicked <=> nin = n + 1)
  <2>1. CASE nin = n
    <3>1. ~panicked
      BY <1>5, <2>1, Zenon
    <3>2. idx = nin + 1
      BY <1>1, <3>1, Zenon
    <3>3. QED
      BY <1>2, <2>1, <3>1, <3>2
  <2>2. CASE nin = n + 1
    <3>1. panicked
      BY <1>5, <2>2, Zenon
    <3>2. idx <= nin
      BY <1>1, <3>1, Zenon
    <3>3. ~(2 * (idx - 1) < 2 * n)
      BY <1>3, <1>5
    <3>4. QED
      BY <1>2, <2>2, <3>1, <3>2, <3>3
  <2>3. QED
    BY <1>1, <2>1, <2>2 DEF V!ShapeOK
<1>7. Len(V!Extension) = 2 * n
  BY <1>3, <1>4, <1>6
<1>8. \A i \in 1..2 * n : V!Extension[i] # Nil
                           /\ Fp(V!Extension[i]) = Fp(expected[i])
  <2>1. \A i \in 1..V!MinNat(Len(V!Extension), Len(expected)) :
          V!Extension[i] # Nil /\ Fp(V!Extension[i]) = Fp(expected[i])
    BY <1>5 DEF V!DirectMatch, V!EvalPanic, V!Rejected, V!Contained
  <2>2. QED
    BY <1>3, <1>7, <2>1 DEF V!MinNat
<1>9. QED
  BY <1>6, <1>7, <1>8 DEF V!RunMatchesTestCase

\* The only step of the system out of the check is Check.
LEMMA PlayerFromCheck ==
  ASSUME [Next]_vars, vpc = "check", vpc' = "idle"
  PROVE  Check
<1>1. ~DirectTransition /\ ~Reset /\ ~RunStep /\ ~RunDone /\ ~UNCHANGED vars
  BY DEF DirectTransition, Reset, RunStep, RunDone, vars, validatorVars
<1>2. \A c \in V!TestCases : ~(\/ ValidateMalformed(c) \/ ValidateNilTrace(c)
                               \/ ValidateNilOutput(c) \/ ValidateBegin(c))
  BY DEF ValidateMalformed, ValidateNilTrace, ValidateNilOutput, ValidateBegin,
         StartValidation
<1>3. QED
  BY <1>1, <1>2 DEF Next

(***************************************************************************)
(* Under the one-action contract the player is written for, a pass of     *)
(* ValidateAsExtension on a player whose trace is empty means the run     *)
(* matched the test case exactly: one action per handled input, a panic   *)
(* exactly on a dangling last input, and the trace is the expected one    *)
(* event for event.  Without the contract the length check at 476 is only *)
(* a lower bound (PlayerValidateSoundFresh is violated).                   *)
(***************************************************************************)
THEOREM PlayerValidateSoundOneActionCorrect == Spec => PlayerValidateSoundOneAction
<1>1. PlayerRunInv /\ [Next]_vars
        => [V!CheckOk /\ existing = 0 /\ OneActionEach => V!RunMatchesTestCase]_vars
  <2> SUFFICES ASSUME PlayerRunInv, [Next]_vars,
                      V!CheckOk, existing = 0, OneActionEach
               PROVE  V!RunMatchesTestCase
    OBVIOUS
  <2>1. vpc = "check" /\ vpc' = "idle" /\ verdict' = V!Ok
    BY DEF V!CheckOk
  <2>2. V!CheckVerdict = V!Ok
    BY <2>1, PlayerFromCheck DEF Check
  <2>3. QED
    BY <2>1, <2>2, PlayerOkMeansMatch
<1>2. QED
  BY <1>1, PlayerRunInvInit, PlayerRunInvStep, PTL
     DEF Spec, PlayerValidateSoundOneAction

=============================================================================
