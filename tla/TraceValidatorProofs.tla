------------------------- MODULE TraceValidatorProofs -------------------------
(***************************************************************************)
(* Proofs about TraceValidator, for every value of the constants that     *)
(* satisfies the module's assumptions.                                     *)
(***************************************************************************)
EXTENDS TraceValidator, SequenceTheorems, WellFoundedInduction, TLAPS

(***************************************************************************)
(* Lemmas on the sequences the model builds.                               *)
(***************************************************************************)

\* A bounded sequence (test-case inputs, outputs, props, routed events) is
\* a sequence.
LEMMA BSeqIsSeq ==
  ASSUME NEW S, NEW n \in Nat
  PROVE  BSeq(S, n) \subseteq Seq(S)
<1>1. \A m \in 0..n : [1..m -> S] \subseteq Seq(S)
  BY SeqDef
<1>2. QED
  BY <1>1 DEF BSeq

\* The routed events of one handle call form a sequence of events.
LEMMA DispatchSeqsType ==
  DispatchSeqs \subseteq Seq(Event)
<1>1. \A k \in 0..MaxDispatch : [1..2 * k -> RoutedEvent] \subseteq Seq(Event)
  <2>1. SUFFICES ASSUME NEW k \in 0..MaxDispatch
                 PROVE  [1..2 * k -> RoutedEvent] \subseteq Seq(Event)
    OBVIOUS
  <2>2. 2 * k \in Nat
    BY BoundsAssumption
  <2>3. [1..2 * k -> RoutedEvent] \subseteq [1..2 * k -> Event]
    BY RoutedAssumption
  <2>4. QED
    BY <2>2, <2>3, SeqDef
<1>2. QED
  BY <1>1 DEF DispatchSeqs

\* The history entries appended for one handle call.
LEMMA TagsType ==
  ASSUME NEW m \in Nat, NEW c \in Nat, NEW b \in BOOLEAN
  PROVE  /\ Tags(m, c, b) \in Seq(Origin)
         /\ Len(Tags(m, c, b)) = m
<1>1. [call |-> c, top |-> b] \in Origin
  BY DEF Origin
<1>2. Tags(m, c, b) \in [1..m -> Origin]
  BY <1>1 DEF Tags
<1>3. QED
  BY <1>2, SeqDef, LenProperties

\* Two concatenations in a row, as transition extends a trace.
LEMMA Concat3Type ==
  ASSUME NEW S, NEW s1 \in Seq(S), NEW s2 \in Seq(S), NEW s3 \in Seq(S)
  PROVE  /\ (s1 \o s2) \o s3 \in Seq(S)
         /\ Len((s1 \o s2) \o s3) = Len(s1) + Len(s2) + Len(s3)
<1>1. s1 \o s2 \in Seq(S) /\ Len(s1 \o s2) = Len(s1) + Len(s2)
  BY ConcatProperties
<1>2. QED
  BY <1>1, ConcatProperties

\* Concatenation of history sequences.
LEMMA ConcatOrigin ==
  \A s1, s2 \in Seq(Origin) : /\ s1 \o s2 \in Seq(Origin)
                               /\ Len(s1 \o s2) = Len(s1) + Len(s2)
BY ConcatProperties

\* The expected trace of a well-shaped test case is a sequence of events.
LEMMA ExpectedTraceType ==
  ASSUME NEW c \in [inputs : Seq(TestInputs), outputs : Seq(TestOutputs),
                    props : Seq(Props)],
         ShapeOK(c)
  PROVE  ExpectedTrace(c) \in Seq(EventOrNil)
<1>1. \A k \in 1..2 * Len(c.outputs) :
        (IF k % 2 = 1 THEN c.inputs[(k + 1) \div 2] ELSE c.outputs[k \div 2])
          \in EventOrNil
  <2>1. SUFFICES ASSUME NEW k \in 1..2 * Len(c.outputs)
                 PROVE  (IF k % 2 = 1 THEN c.inputs[(k + 1) \div 2]
                                      ELSE c.outputs[k \div 2]) \in EventOrNil
    OBVIOUS
  <2>2. CASE k % 2 = 1
    <3>1. (k + 1) \div 2 \in 1..Len(c.inputs)
      BY <2>2, LenProperties DEF ShapeOK
    <3>2. QED
      BY <2>2, <3>1, TestEventsAssumption
  <2>3. CASE k % 2 # 1
    <3>1. k \div 2 \in 1..Len(c.outputs)
      BY <2>3, LenProperties
    <3>2. QED
      BY <2>3, <3>1, TestEventsAssumption
  <2>4. QED
    BY <2>2, <2>3
<1>2. 2 * Len(c.outputs) \in Nat
  BY LenProperties
<1>3. QED
  BY <1>1, <1>2, SeqDef DEF ExpectedTrace

\* The verdict of a finished run is one of the verdicts.
LEMMA CheckVerdictType ==
  CheckVerdict \in Verdicts
<1>1. \A ps, t : PropsVerdict(ps, t) \in Verdicts
  BY DEF PropsVerdict, Verdicts, Ok, InvalidVerdicts, RuntimeVerdicts
<1>2. QED
  BY <1>1 DEF CheckVerdict, DivergedVerdict, Verdicts, InvalidVerdicts

\* The type of a test case as the validator holds it.
TestCaseType == [inputs : Seq(TestInputs), outputs : Seq(TestOutputs),
                 props : Seq(Props)]

(***************************************************************************)
(* One call of transition keeps the adapter well typed.                    *)
(***************************************************************************)
LEMMA TransitionType ==
  ASSUME AdapterTypeOK, NEW in \in EventOrNil, NEW res, Transition(in, res)
  PROVE  AdapterTypeOK'
<1>1. PICK ds \in DispatchSeqs : Handle(in, ds, res)
  BY DEF Transition
<1>2. /\ res \in Event \cup {Panic}
      /\ nsteps < MaxCalls
      /\ ds \in Seq(Event)
  BY DispatchSeqsType DEF Transition
<1>3. TopPair(in, res) \in Seq(EventOrNil)
  <2>1. CASE res = Panic
    BY <2>1, EmptySeq DEF TopPair
  <2>2. CASE res # Panic
    <3>1. <<in, res>> \in [1..2 -> EventOrNil]
      BY <1>2, <2>2 DEF EventOrNil
    <3>2. QED
      BY <2>2, <3>1, SeqDef DEF TopPair
  <2>3. QED
    BY <2>1, <2>2
<1>4. nsteps + 1 \in Nat
  BY DEF AdapterTypeOK
<1>5. /\ hidden' = hidden \o TopPair(in, res)
      /\ visible' = (visible \o ds) \o TopPair(in, res)
      /\ vorigin' = (vorigin \o Tags(Len(ds), nsteps + 1, FALSE))
                    \o Tags(Len(TopPair(in, res)), nsteps + 1, TRUE)
      /\ nsteps' = nsteps + 1
      /\ sink' = "stderr"
      /\ rHandle' = TRUE
  BY <1>1 DEF Handle, Extend
<1>6. /\ hidden' \in Seq(EventOrNil)
      /\ visible' \in Seq(EventOrNil)
      /\ Len(visible') = Len(visible) + Len(ds) + Len(TopPair(in, res))
  BY <1>2, <1>3, <1>5, ConcatProperties, Concat3Type
  DEF AdapterTypeOK, EventOrNil
<1>7. /\ vorigin' \in Seq(Origin)
      /\ Len(vorigin') = Len(vorigin) + Len(ds) + Len(TopPair(in, res))
  <2>1. /\ Tags(Len(ds), nsteps + 1, FALSE) \in Seq(Origin)
        /\ Len(Tags(Len(ds), nsteps + 1, FALSE)) = Len(ds)
        /\ Tags(Len(TopPair(in, res)), nsteps + 1, TRUE) \in Seq(Origin)
        /\ Len(Tags(Len(TopPair(in, res)), nsteps + 1, TRUE))
           = Len(TopPair(in, res))
    BY <1>2, <1>3, <1>4, TagsType, LenProperties
  <2>2. vorigin \in Seq(Origin)
    BY DEF AdapterTypeOK
  <2>3. /\ vorigin \o Tags(Len(ds), nsteps + 1, FALSE) \in Seq(Origin)
        /\ Len(vorigin \o Tags(Len(ds), nsteps + 1, FALSE))
           = Len(vorigin) + Len(ds)
    BY <2>1, <2>2, ConcatOrigin
  <2>4. QED
    BY <1>5, <2>1, <2>3, ConcatOrigin
<1>8. nsteps' \in 0..MaxCalls
  BY <1>2, <1>5, BoundsAssumption DEF AdapterTypeOK
<1>9. Len(vorigin') = Len(visible')
  BY <1>6, <1>7 DEF AdapterTypeOK
<1>10. QED
  BY <1>5, <1>6, <1>7, <1>8, <1>9 DEF AdapterTypeOK, Sinks

(***************************************************************************)
(* The type invariant.                                                     *)
(***************************************************************************)

\* The initial state is well typed.
LEMMA InitType == Init => TypeOK
<1> SUFFICES ASSUME Init PROVE TypeOK
  OBVIOUS
<1>1. /\ << >> \in Seq(EventOrNil)
      /\ << >> \in Seq(Origin)
      /\ << >> \in Seq(TestInputs)
      /\ << >> \in Seq(TestOutputs)
      /\ << >> \in Seq(Props)
  BY EmptySeq
<1>2. AdapterTypeOK
  <2>1. hidden \in Seq(EventOrNil) /\ visible \in Seq(EventOrNil)
    BY <1>1 DEF Init, AdapterInit
  <2>2. vorigin \in Seq(Origin) /\ Len(vorigin) = Len(visible)
    BY <1>1 DEF Init, AdapterInit
  <2>3. sink \in Sinks /\ rHandle \in BOOLEAN
    BY DEF Init, AdapterInit, Sinks
  <2>4. nsteps \in 0..MaxCalls
    BY BoundsAssumption DEF Init, AdapterInit
  <2>5. QED
    BY <2>1, <2>2, <2>3, <2>4 DEF AdapterTypeOK
<1>3. ValidatorTypeOK
  <2>1. tc \in [inputs : Seq(TestInputs), outputs : Seq(TestOutputs),
               props : Seq(Props)]
    BY <1>1 DEF Init, NoTestCase
  <2>2. expected \in Seq(EventOrNil)
    BY <1>1 DEF Init
  <2>3. /\ vpc \in {"idle", "run", "check"}
        /\ panicked \in BOOLEAN
    BY DEF Init
  <2>6. /\ existing \in Nat
        /\ idx \in Nat \ {0}
        /\ nvalid \in 0..MaxValidations
    BY ValidatorBoundsAssumption DEF Init
  <2>4. verdict \in Verdicts
    BY DEF Init, Verdicts
  <2>5. QED
    BY <2>1, <2>2, <2>3, <2>4, <2>6 DEF ValidatorTypeOK
<1>4. QED
  BY <1>2, <1>3 DEF TypeOK

\* Every step of the validator, the adapter and the test code keeps the
\* state well typed.
LEMMA NextType == TypeOK /\ [Next]_vars => TypeOK'
<1> SUFFICES ASSUME TypeOK, [Next]_vars PROVE TypeOK'
  OBVIOUS
<1> USE DEF TypeOK
<1>1. CASE DirectTransition
  <2>1. PICK in \in TestInputs, res \in Event \cup {Panic} : Transition(in, res)
    BY <1>1 DEF DirectTransition
  <2>2. AdapterTypeOK'
    BY <2>1, TransitionType, TestEventsAssumption
  <2>3. QED
    BY <1>1, <2>2 DEF DirectTransition, validatorVars, ValidatorTypeOK
<1>2. CASE Reset
  BY <1>2, LenProperties, EmptySeq
  DEF Reset, ResetTrace, validatorVars, AdapterTypeOK, ValidatorTypeOK
<1>3. ASSUME NEW c \in TestCases,
             ValidateMalformed(c) \/ ValidateNilOutput(c) \/ ValidateBegin(c)
      PROVE  TypeOK'
  <2>1. c \in [inputs : Seq(TestInputs), outputs : Seq(TestOutputs),
               props : Seq(Props)]
    BY BSeqIsSeq, ValidatorBoundsAssumption DEF TestCases
  <2>2. AdapterTypeOK'
    BY <1>3 DEF ValidateMalformed, ValidateNilOutput, ValidateBegin,
                StartValidation, AdapterTypeOK, Sinks
  <2>3. CASE ValidateBegin(c)
    <3>1. expected' \in Seq(EventOrNil) /\ tc' \in TestCaseType
      BY <2>1, <2>3, ExpectedTraceType DEF ValidateBegin, TestCaseType
    <3>2. existing' \in Nat
      BY <2>3, LenProperties DEF ValidateBegin, AdapterTypeOK
    <3>3. nvalid' \in 0..MaxValidations
      BY <2>3, ValidatorBoundsAssumption
      DEF ValidateBegin, StartValidation, ValidatorTypeOK
    <3>4. /\ vpc' \in {"idle", "run", "check"}
          /\ idx' \in Nat \ {0}
          /\ panicked' \in BOOLEAN
          /\ verdict' \in Verdicts
      BY <2>3 DEF ValidateBegin, StartValidation, ValidatorTypeOK
    <3>5. QED
      BY <2>2, <3>1, <3>2, <3>3, <3>4 DEF ValidatorTypeOK, TestCaseType
  <2>4. CASE ValidateMalformed(c) \/ ValidateNilOutput(c)
    <3>1. nvalid' \in 0..MaxValidations
      BY <2>4, ValidatorBoundsAssumption
      DEF ValidateMalformed, ValidateNilOutput, StartValidation,
          ValidatorTypeOK
    <3>2. verdict' \in Verdicts
      BY <2>4 DEF ValidateMalformed, ValidateNilOutput, Verdicts,
                  RuntimeVerdicts
    <3>3. /\ vpc' \in {"idle", "run", "check"}
          /\ tc' \in TestCaseType
          /\ existing' \in Nat
          /\ expected' \in Seq(EventOrNil)
          /\ idx' \in Nat \ {0}
          /\ panicked' \in BOOLEAN
      BY <2>4 DEF ValidateMalformed, ValidateNilOutput, StartValidation,
                  ValidatorTypeOK, TestCaseType
    <3>4. QED
      BY <2>2, <3>1, <3>2, <3>3 DEF ValidatorTypeOK, TestCaseType
  <2>5. QED
    BY <1>3, <2>3, <2>4
<1>4. CASE RunStep
  <2>1. PICK res \in Event \cup {Panic} :
          /\ Transition(tc.inputs[idx], res)
          /\ IF res = Panic
             THEN /\ panicked' = TRUE
                  /\ vpc' = "check"
                  /\ UNCHANGED idx
             ELSE /\ idx' = idx + 1
                  /\ UNCHANGED <<panicked, vpc>>
    BY <1>4 DEF RunStep
  <2>2. tc.inputs[idx] \in EventOrNil
    BY <1>4, TestEventsAssumption DEF RunStep, ValidatorTypeOK
  <2>3. AdapterTypeOK'
    BY <2>1, <2>2, TransitionType
  <2>4. idx' \in Nat \ {0}
    BY <2>1 DEF ValidatorTypeOK
  <2>5. /\ vpc' \in {"idle", "run", "check"}
        /\ panicked' \in BOOLEAN
    BY <1>4, <2>1 DEF RunStep, ValidatorTypeOK
  <2>6. QED
    BY <1>4, <2>3, <2>4, <2>5 DEF RunStep, ValidatorTypeOK
<1>5. CASE RunDone
  BY <1>5 DEF RunDone, adapterVars, AdapterTypeOK, ValidatorTypeOK
<1>6. CASE Check
  <2>1. verdict' \in Verdicts
    BY <1>6, CheckVerdictType DEF Check
  <2>2. tc' \in TestCaseType /\ expected' \in Seq(EventOrNil)
    BY <1>6, EmptySeq DEF Check, NoTestCase, TestCaseType
  <2>3. AdapterTypeOK'
    BY <1>6 DEF Check, AdapterTypeOK, Sinks
  <2>4. /\ existing' \in Nat
        /\ idx' \in Nat \ {0}
        /\ nvalid' \in 0..MaxValidations
    BY <1>6 DEF Check, ValidatorTypeOK
  <2>6. vpc' \in {"idle", "run", "check"} /\ panicked' \in BOOLEAN
    BY <1>6, Zenon DEF Check
  <2>5. QED
    BY <2>1, <2>2, <2>3, <2>4, <2>6 DEF ValidatorTypeOK, TestCaseType
<1>7. CASE UNCHANGED vars
  BY <1>7 DEF vars, adapterVars, AdapterTypeOK, ValidatorTypeOK
<1>8. QED
  BY <1>1, <1>2, <1>3, <1>4, <1>5, <1>6, <1>7 DEF Next

(***************************************************************************)
(* Every reachable state is well typed: the traces are sequences of events *)
(* or nil, the history has one entry per visible event, and the locals of *)
(* ValidateAsExtension have the types the code gives them.                 *)
(***************************************************************************)
THEOREM TypeCorrect == Spec => []TypeOK
BY InitType, NextType, PTL DEF Spec


(***************************************************************************)
(* What ValidateAsExtension knows of its locals at each point: in idle the *)
(* loop has not started; during the run and the check the test case is    *)
(* well shaped, expected is its expected trace, and every input handled  *)
(* without a panic added one pair to the hidden trace since existing.     *)
(* A panic stops the loop at the input that panicked.                      *)
(***************************************************************************)
ValidationInv ==
  /\ vpc = "idle" => idx = 1 /\ ~panicked
  /\ vpc \in {"run", "check"} =>
       /\ ShapeOK(tc)
       /\ expected = ExpectedTrace(tc)
       /\ idx <= Len(tc.inputs) + 1
       /\ Len(hidden) = existing + 2 * (idx - 1)
  /\ vpc = "run" => ~panicked
  /\ vpc = "check" /\ panicked => idx <= Len(tc.inputs)
  /\ vpc = "check" /\ ~panicked => idx = Len(tc.inputs) + 1

\* What one transition adds to the hidden trace: a pair, or nothing after
\* a panic.
LEMMA TransitionHidden ==
  ASSUME AdapterTypeOK, NEW in \in EventOrNil, NEW res, Transition(in, res)
  PROVE  Len(hidden') = Len(hidden) + (IF res = Panic THEN 0 ELSE 2)
<1>1. PICK ds \in DispatchSeqs : Handle(in, ds, res)
  BY DEF Transition
<1>2. hidden' = hidden \o TopPair(in, res)
  BY <1>1 DEF Handle, Extend
<1>3. hidden \in Seq(EventOrNil)
  BY DEF AdapterTypeOK
<1>4. CASE res = Panic
  <2>1. TopPair(in, res) = << >>
    BY <1>4 DEF TopPair
  <2>2. QED
    BY <1>2, <1>3, <1>4, <2>1, ConcatEmptySeq
<1>5. CASE res # Panic
  <2>1. TopPair(in, res) = <<in, res>>
    BY <1>5 DEF TopPair
  <2>2. res \in Event
    BY <1>5 DEF Transition
  <2>3. <<in, res>> \in Seq(EventOrNil) /\ Len(<<in, res>>) = 2
    BY <2>2, SeqDef DEF EventOrNil
  <2>4. QED
    BY <1>2, <1>3, <1>5, <2>1, <2>3, ConcatProperties
<1>6. QED
  BY <1>4, <1>5

\* The test case a validation starts with has the type of TestCaseType.
LEMMA TestCasesType == TestCases \subseteq TestCaseType
BY BSeqIsSeq, ValidatorBoundsAssumption DEF TestCases, TestCaseType

\* Every step keeps what ValidateAsExtension knows of its locals.
LEMMA ValidationStep ==
  TypeOK /\ ValidationInv /\ [Next]_vars => ValidationInv'
<1> SUFFICES ASSUME TypeOK, ValidationInv, [Next]_vars PROVE ValidationInv'
  OBVIOUS
<1>1. CASE DirectTransition \/ Reset
  <2>1. /\ vpc = "idle" /\ vpc' = "idle"
        /\ idx' = idx /\ panicked' = panicked
    BY <1>1 DEF DirectTransition, Reset, validatorVars
  <2>2. QED
    BY <2>1, Zenon DEF ValidationInv
<1>2. ASSUME NEW c \in TestCases, ValidateMalformed(c) \/ ValidateNilOutput(c)
      PROVE  ValidationInv'
  <2>1. /\ vpc = "idle" /\ vpc' = "idle"
        /\ idx' = idx /\ panicked' = panicked
    BY <1>2 DEF ValidateMalformed, ValidateNilOutput, StartValidation
  <2>2. QED
    BY <2>1, Zenon DEF ValidationInv
<1>3. ASSUME NEW c \in TestCases, ValidateBegin(c)
      PROVE  ValidationInv'
  <2>1. /\ vpc = "idle" /\ vpc' = "run"
        /\ tc' = c /\ expected' = ExpectedTrace(c) /\ ShapeOK(c)
        /\ existing' = Len(hidden) /\ hidden' = hidden
        /\ idx' = idx /\ panicked' = panicked
    BY <1>3 DEF ValidateBegin, StartValidation
  <2>2. idx = 1 /\ ~panicked
    BY <2>1 DEF ValidationInv
  <2>3. Len(c.inputs) \in Nat /\ Len(hidden) \in Nat
    BY TestCasesType, LenProperties DEF TestCaseType, TypeOK, AdapterTypeOK
  <2>4. /\ idx' <= Len(tc'.inputs) + 1
        /\ Len(hidden') = existing' + 2 * (idx' - 1)
    BY <2>1, <2>2, <2>3
  <2>5. QED
    BY <2>1, <2>2, <2>4, Zenon DEF ValidationInv
<1>4. CASE RunStep
  <2>1. PICK res \in Event \cup {Panic} :
          /\ Transition(tc.inputs[idx], res)
          /\ IF res = Panic
             THEN /\ panicked' = TRUE
                  /\ vpc' = "check"
                  /\ UNCHANGED idx
             ELSE /\ idx' = idx + 1
                  /\ UNCHANGED <<panicked, vpc>>
    BY <1>4 DEF RunStep
  <2>2. /\ vpc = "run" /\ idx <= Len(tc.inputs)
        /\ tc' = tc /\ existing' = existing /\ expected' = expected
    BY <1>4 DEF RunStep
  <2>3. /\ ShapeOK(tc) /\ expected = ExpectedTrace(tc)
        /\ Len(hidden) = existing + 2 * (idx - 1)
        /\ ~panicked
    BY <2>2 DEF ValidationInv
  <2>4. tc.inputs[idx] \in EventOrNil
    <3>1. idx \in 1..Len(tc.inputs) /\ tc.inputs \in Seq(TestInputs)
      BY <2>2 DEF TypeOK, ValidatorTypeOK
    <3>2. QED
      BY <3>1, ElementOfSeq, TestEventsAssumption
  <2>5. Len(hidden') = Len(hidden) + (IF res = Panic THEN 0 ELSE 2)
    BY <2>1, <2>4, TransitionHidden DEF TypeOK
  <2>6. idx \in Nat /\ existing \in Nat /\ Len(tc.inputs) \in Nat
    BY LenProperties DEF TypeOK, ValidatorTypeOK
  <2>7. CASE res = Panic
    <3>1. panicked' /\ vpc' = "check" /\ idx' = idx
      BY <2>1, <2>7
    <3>2. Len(hidden') = existing' + 2 * (idx' - 1)
      BY <2>2, <2>3, <2>5, <2>6, <2>7, <3>1
    <3>3. QED
      BY <2>2, <2>3, <3>1, <3>2, Zenon DEF ValidationInv
  <2>8. CASE res # Panic
    <3>0. idx' = idx + 1 /\ panicked' = panicked /\ vpc' = vpc
      BY <2>1, <2>8
    <3>1. ~panicked' /\ vpc' = "run" /\ idx' = idx + 1
      BY <2>2, <2>3, <3>0, Zenon
    <3>2. /\ Len(hidden') = existing' + 2 * (idx' - 1)
          /\ idx' <= Len(tc'.inputs) + 1
      BY <2>2, <2>3, <2>5, <2>6, <2>8, <3>1
    <3>3. QED
      BY <2>2, <2>3, <3>1, <3>2, Zenon DEF ValidationInv
  <2>9. QED
    BY <2>7, <2>8
<1>5. CASE RunDone
  <2>1. /\ vpc = "run" /\ vpc' = "check" /\ idx > Len(tc.inputs)
        /\ UNCHANGED <<hidden, tc, existing, expected, idx, panicked>>
    BY <1>5 DEF RunDone, adapterVars
  <2>2. idx <= Len(tc.inputs) + 1 /\ ~panicked
    BY <2>1 DEF ValidationInv
  <2>3. idx' = Len(tc'.inputs) + 1
    BY <2>1, <2>2, LenProperties DEF TypeOK, ValidatorTypeOK
  <2>4. QED
    BY <2>1, <2>2, <2>3, Zenon DEF ValidationInv
<1>6. CASE Check
  <2>1. vpc' = "idle" /\ idx' = 1 /\ panicked' = FALSE
    BY <1>6 DEF Check
  <2>2. QED
    BY <2>1, Zenon DEF ValidationInv
<1>7. CASE UNCHANGED vars
  BY <1>7 DEF vars, adapterVars, ValidationInv, Extension
<1>8. QED
  BY <1>1, <1>2, <1>3, <1>4, <1>5, <1>6, <1>7 DEF Next

(***************************************************************************)
(* The locals of ValidateAsExtension stay consistent in every reachable    *)
(* state: in particular, when the verdict is computed, the hidden trace   *)
(* grew by one pair for each input handled without a panic.                *)
(***************************************************************************)
THEOREM ValidationInvariant == Spec => [](TypeOK /\ ValidationInv)
<1>1. Init => ValidationInv
  BY DEF Init, ValidationInv
<1>2. QED
  BY <1>1, InitType, NextType, ValidationStep, PTL DEF Spec

(***************************************************************************)
(* A passing verdict.                                                      *)
(***************************************************************************)

\* The expected trace has two entries per expected output.
LEMMA ExpectedTraceLen ==
  ASSUME NEW c \in TestCaseType, ShapeOK(c)
  PROVE  Len(ExpectedTrace(c)) = 2 * Len(c.outputs)
<1>1. ExpectedTrace(c) \in Seq(EventOrNil)
  BY ExpectedTraceType DEF TestCaseType
<1>2. DOMAIN ExpectedTrace(c) = 1..2 * Len(c.outputs)
  BY DEF ExpectedTrace
<1>3. 2 * Len(c.outputs) \in Nat
  BY LenProperties DEF TestCaseType
<1>4. QED
  BY <1>1, <1>2, <1>3, LenProperties

\* directMatch accepts only a trace that agrees with the reference on
\* their common prefix, entry by entry, with no nil entry.
LEMMA DirectMatchContained ==
  ASSUME NEW ref, NEW t,
         DirectMatch(ref, t) # EvalPanic, DirectMatch(ref, t) # Rejected
  PROVE  \A i \in 1..MinNat(Len(t), Len(ref)) :
           t[i] # Nil /\ Fp(t[i]) = Fp(ref[i])
BY DEF DirectMatch

\* When a validation of an empty trace ends with a pass, the run matched
\* the test case.
LEMMA OkMeansMatch ==
  ASSUME TypeOK, ValidationInv, vpc = "check", existing = 0,
         CheckVerdict = Ok
  PROVE  RunMatchesTestCase
<1> DEFINE n == Len(tc.outputs)
           nin == Len(tc.inputs)
<1>1. /\ ShapeOK(tc)
      /\ expected = ExpectedTrace(tc)
      /\ idx <= nin + 1
      /\ Len(hidden) = existing + 2 * (idx - 1)
      /\ panicked => idx <= nin
      /\ ~panicked => idx = nin + 1
  BY Zenon DEF ValidationInv, nin
<1>2. /\ n \in Nat /\ nin \in Nat /\ idx \in Nat \ {0}
      /\ hidden \in Seq(EventOrNil) /\ tc \in TestCaseType
  BY LenProperties DEF TypeOK, AdapterTypeOK, ValidatorTypeOK, TestCaseType
<1>3. Len(expected) = 2 * n /\ Len(hidden) = 2 * (idx - 1)
  BY <1>1, <1>2, ExpectedTraceLen DEF n
<1>4. Extension = hidden
  BY <1>2, SubSeqFull DEF Extension
<1>5. /\ DirectMatch(expected, Extension) # EvalPanic
      /\ DirectMatch(expected, Extension) # Rejected
      /\ ~(nin = n /\ panicked)
      /\ ~(nin = n + 1 /\ ~panicked)
      /\ ~(Len(hidden) < Len(expected))
  BY DEF CheckVerdict, DivergedVerdict, Ok
<1>6. idx - 1 = n /\ (panicked <=> nin = n + 1)
  <2>1. CASE nin = n
    <3>1. ~panicked
      BY <1>5, <2>1, Zenon
    <3>2. idx = nin + 1
      BY <1>1, <3>1, Zenon
    <3>3. QED
      BY <1>2, <2>1, <3>1, <3>2
  <2>2. CASE nin = n + 1
    <3>1. panicked
      BY <1>5, <2>2, Zenon
    <3>2. idx <= nin
      BY <1>1, <3>1, Zenon
    <3>3. ~(2 * (idx - 1) < 2 * n)
      BY <1>3, <1>5
    <3>4. QED
      BY <1>2, <2>2, <3>1, <3>2, <3>3
  <2>3. QED
    BY <1>1, <2>1, <2>2 DEF ShapeOK, n, nin
<1>7. Len(Extension) = 2 * n
  BY <1>1, <1>4, <1>6
<1>8. \A i \in 1..2 * n : Extension[i] # Nil /\ Fp(Extension[i]) = Fp(expected[i])
  BY <1>3, <1>5, <1>7, DirectMatchContained DEF MinNat
<1>9. QED
  BY <1>6, <1>7, <1>8 DEF RunMatchesTestCase

\* The only step of the system out of the check is Check.
LEMMA FromCheck ==
  ASSUME Next, vpc = "check"
  PROVE  Check
<1>1. ~DirectTransition /\ ~Reset /\ ~RunStep /\ ~RunDone
  BY DEF DirectTransition, Reset, RunStep, RunDone
<1>2. \A c \in TestCases : ~(ValidateMalformed(c) \/ ValidateNilOutput(c)
                              \/ ValidateBegin(c))
  BY DEF ValidateMalformed, ValidateNilOutput, ValidateBegin, StartValidation
<1>3. QED
  BY <1>1, <1>2 DEF Next

\* A step from the check back to idle is Check.
LEMMA CheckOkIsCheck ==
  ASSUME [Next]_vars, CheckOk
  PROVE  verdict' = CheckVerdict
<1>1. vpc = "check" /\ vpc' = "idle"
  BY DEF CheckOk
<1>2. ~UNCHANGED vars
  BY <1>1 DEF vars
<1>3. QED
  BY <1>1, <1>2, FromCheck DEF Check

(***************************************************************************)
(* ValidateAsExtension on an automaton whose trace is empty returns       *)
(* (nil, nil) only when the run produced exactly the expected pairs and   *)
(* panicked exactly when one input was left without an output.             *)
(***************************************************************************)
THEOREM ValidateSoundFreshCorrect == Spec => ValidateSoundFresh
<1>1. TypeOK /\ ValidationInv /\ [Next]_vars
        => [CheckOk /\ existing = 0 => RunMatchesTestCase]_vars
  <2> SUFFICES ASSUME TypeOK, ValidationInv, [Next]_vars,
                      CheckOk, existing = 0
               PROVE  RunMatchesTestCase
    OBVIOUS
  <2>1. CheckVerdict = Ok
    BY CheckOkIsCheck DEF CheckOk
  <2>2. QED
    BY <2>1, OkMeansMatch DEF CheckOk
<1>2. QED
  BY <1>1, ValidationInvariant, PTL DEF Spec, ValidateSoundFresh

(***************************************************************************)
(* Runtime errors after the run.                                           *)
(***************************************************************************)

\* directMatch never reports an evaluation error.
LEMMA DirectMatchNoError ==
  ASSUME NEW ref, NEW t
  PROVE  DirectMatch(ref, t) # EvalError
BY DEF DirectMatch, Contained, Rejected, EvalPanic, EvalError

\* The loop over the safety properties returns a runtime error only when
\* some property reported an error, and only the wrapper's checkWellFormed
\* does, on a trace holding nil.
LEMMA PropsVerdictRuntime ==
  ASSUME NEW ps \in Seq(Props), NEW t,
         PropsVerdict(ps, t) \in RuntimeVerdicts
  PROVE  ~WellFormed(t)
<1>1. \E k \in 1..Len(ps) : PropContains(ps[k], t) = EvalError
  BY DEF PropsVerdict, RuntimeVerdicts, Ok
<1>2. PICK k \in 1..Len(ps) : PropContains(ps[k], t) = EvalError
  BY <1>1
<1>3. ps[k].kind \in PropKinds
  BY ElementOfSeq, PropsAssumption
<1>4. ps[k].kind = "wrapper"
  BY <1>2, <1>3, DirectMatchNoError
  DEF PropContains, PropKinds, Contained, EvalPanic, EvalError
<1>5. WrapperContains(t) = EvalError
  BY <1>2, <1>4 DEF PropContains
<1>6. QED
  BY <1>5 DEF WrapperContains, EvalError, Rejected, Contained

\* A runtime verdict of the check comes from the loop over the properties.
LEMMA CheckVerdictRuntime ==
  ASSUME CheckVerdict \in RuntimeVerdicts
  PROVE  PropsVerdict(tc.props, hidden) \in RuntimeVerdicts
BY DEF CheckVerdict, DivergedVerdict, RuntimeVerdicts

(***************************************************************************)
(* Once the run is over, ValidateAsExtension returns a runtimeErr only    *)
(* when the hidden trace holds a nil event: a listener that misbehaves     *)
(* gets an invalidErr, never a runtime error.                              *)
(***************************************************************************)
THEOREM RuntimeOnlyFromHarnessCorrect == Spec => RuntimeOnlyFromHarness
<1>1. TypeOK /\ [Next]_vars
        => [vpc = "check" /\ verdict' \in RuntimeVerdicts
              => ~WellFormed(hidden)]_vars
  <2> SUFFICES ASSUME TypeOK, [Next]_vars
               PROVE  [vpc = "check" /\ verdict' \in RuntimeVerdicts
                         => ~WellFormed(hidden)]_vars
    OBVIOUS
  <2>1. CASE UNCHANGED vars
    BY <2>1
  <2>2. CASE Next /\ vpc = "check" /\ verdict' \in RuntimeVerdicts
    <3>1. CheckVerdict \in RuntimeVerdicts
      BY <2>2, FromCheck DEF Check
    <3>2. tc.props \in Seq(Props)
      BY DEF TypeOK, ValidatorTypeOK
    <3>3. QED
      BY <3>1, <3>2, CheckVerdictRuntime, PropsVerdictRuntime
  <2>3. QED
    BY <2>1, <2>2
<1>2. QED
  BY <1>1, TypeCorrect, PTL DEF Spec, RuntimeOnlyFromHarness


(***************************************************************************)
(* Panics that escape ValidateAsExtension.                                 *)
(***************************************************************************)

\* A panic of directMatch is a nil event in the candidate trace.
LEMMA DirectMatchPanic ==
  ASSUME NEW ref \in Seq(EventOrNil), NEW t \in Seq(EventOrNil),
         DirectMatch(ref, t) = EvalPanic
  PROVE  \E i \in 1..Len(t) : t[i] = Nil
<1>1. \E i \in 1..MinNat(Len(t), Len(ref)) : t[i] = Nil
  BY DEF DirectMatch, Contained, Rejected, EvalPanic
<1>2. 1..MinNat(Len(t), Len(ref)) \subseteq 1..Len(t)
  BY LenProperties DEF MinNat
<1>3. QED
  BY <1>1, <1>2

\* The entries of the extension are entries of the hidden trace.
LEMMA ExtensionEntries ==
  ASSUME NEW h \in Seq(EventOrNil), NEW e \in Nat
  PROVE  /\ SubSeq(h, e + 1, Len(h)) \in Seq(EventOrNil)
         /\ \A i \in 1..Len(SubSeq(h, e + 1, Len(h))) :
               /\ e + i \in 1..Len(h)
               /\ SubSeq(h, e + 1, Len(h))[i] = h[e + i]
<1>1. \A i \in (e + 1)..Len(h) : h[i] \in EventOrNil
  BY ElementOfSeq
<1>2. /\ SubSeq(h, e + 1, Len(h)) \in Seq(EventOrNil)
      /\ Len(SubSeq(h, e + 1, Len(h)))
         = IF e + 1 <= Len(h) THEN Len(h) - (e + 1) + 1 ELSE 0
      /\ \A i \in 1..Len(h) - (e + 1) + 1 :
           SubSeq(h, e + 1, Len(h))[i] = h[(e + 1) + i - 1]
  BY <1>1, LenProperties, SubSeqProperties
<1>3. QED
  BY <1>2, LenProperties

\* The least index of a nonempty set of indices.
LEMMA LeastIndex ==
  ASSUME NEW T \in SUBSET Nat, T # {}
  PROVE  \E x \in T : \A y \in T : ~(y < x)
<1>1. \E x \in T : \A y \in T : ~(<<y, x>> \in OpToRel(<, Nat))
  BY NatLessThanWellFounded, WFMin
<1>2. QED
  BY <1>1 DEF OpToRel

\* What PropContains returns.
LEMMA PropContainsRange ==
  ASSUME NEW p \in Props, NEW t
  PROVE  PropContains(p, t) \in {Contained, Rejected, EvalError, EvalPanic}
BY PropsAssumption DEF PropContains, PropKinds, DirectMatch, WrapperContains

(***************************************************************************)
(* The loop over the safety properties panics only through a property    *)
(* that panics first: a directMatch on a trace holding nil, or the        *)
(* wrapper around a directMatch.                                           *)
(***************************************************************************)
LEMMA PropsVerdictPanic ==
  ASSUME NEW ps \in Seq(Props), NEW t \in Seq(EventOrNil),
         PropsVerdict(ps, t) = "panic"
  PROVE  \/ ~WellFormed(t)
         \/ \E k \in 1..Len(ps) : ps[k].kind = "wrapDirect"
<1> DEFINE res(k) == PropContains(ps[k], t)
           T == {k \in 1..Len(ps) : res(k) # Contained}
<1>1. T # {}
  BY DEF PropsVerdict, Ok
<1>2. PICK x \in T : \A y \in T : ~(y < x)
  <2>1. T \in SUBSET Nat
    OBVIOUS
  <2>2. QED
    BY <1>1, <2>1, LeastIndex
<1>3. \A j \in 1..(x - 1) : res(j) = Contained
  BY <1>2
<1>4. res(x) \notin {EvalError, Rejected}
  BY <1>3 DEF PropsVerdict
<1>5. res(x) = EvalPanic
  <2>1. ps[x] \in Props
    BY ElementOfSeq
  <2>2. QED
    BY <1>4, <2>1, PropContainsRange
<1>6. ps[x].kind \in PropKinds /\ (ps[x].kind = "direct" => ps[x].ref \in Seq(Event))
  BY ElementOfSeq, PropsAssumption
<1>7. CASE ps[x].kind = "direct"
  <2>1. DirectMatch(ps[x].ref, t) = EvalPanic
    BY <1>5, <1>7 DEF PropContains
  <2>2. ps[x].ref \in Seq(EventOrNil)
    BY <1>6, <1>7 DEF EventOrNil
  <2>3. QED
    BY <2>1, <2>2, DirectMatchPanic DEF WellFormed
<1>8. CASE ps[x].kind # "direct"
  <2>1. ps[x].kind # "all"
    BY <1>5, <1>6 DEF PropContains, PropKinds, Contained, EvalPanic
  <2>2. ps[x].kind # "wrapper"
    <3>1. WrapperContains(t) # EvalPanic
      BY DEF WrapperContains, Contained, Rejected, EvalError, EvalPanic
    <3>2. QED
      BY <1>5, <1>6, <3>1 DEF PropContains, PropKinds
  <2>3. QED
    BY <1>6, <1>8, <2>1, <2>2 DEF PropKinds
<1>9. QED
  BY <1>7, <1>8

\* A panic verdict of the check comes from a contract violation.
LEMMA CheckVerdictPanic ==
  ASSUME TypeOK, CheckVerdict = "panic"
  PROVE  ContractViolation
<1>1. /\ hidden \in Seq(EventOrNil)
      /\ expected \in Seq(EventOrNil)
      /\ existing \in Nat
      /\ tc.props \in Seq(Props)
  BY DEF TypeOK, AdapterTypeOK, ValidatorTypeOK
\* A nil in the extension is a nil of the hidden trace.
<1>2. ASSUME \E i \in 1..Len(Extension) : Extension[i] = Nil
      PROVE  ContractViolation
  <2>1. PICK i \in 1..Len(Extension) : Extension[i] = Nil
    BY <1>2
  <2>2. existing + i \in 1..Len(hidden) /\ hidden[existing + i] = Nil
    BY <1>1, <2>1, ExtensionEntries DEF Extension
  <2>3. QED
    BY <2>2 DEF ContractViolation, WellFormed
\* The prefix match reached a nil (ComparableStr at 255).
<1>3. CASE DirectMatch(expected, Extension) = EvalPanic
  BY <1>1, <1>2, <1>3, ExtensionEntries, DirectMatchPanic DEF Extension
\* The divergence error formats the whole extension (ioTrace.String at 455).
<1>4. CASE DirectMatch(expected, Extension) = Rejected
  <2>1. ~WellFormed(Extension)
    BY <1>4 DEF CheckVerdict, DivergedVerdict, Rejected, EvalPanic
  <2>2. QED
    BY <1>2, <2>1 DEF WellFormed
\* The loop over the safety properties panicked.
<1>5. CASE DirectMatch(expected, Extension) \notin {EvalPanic, Rejected}
  <2>1. PropsVerdict(tc.props, hidden) = "panic"
    BY <1>5 DEF CheckVerdict
  <2>2. QED
    BY <1>1, <2>1, PropsVerdictPanic DEF ContractViolation
<1>6. QED
  BY <1>3, <1>4, <1>5

(***************************************************************************)
(* A panic escapes ValidateAsExtension only after the run, and only from  *)
(* one of the harness's contract violations, never from the listener.     *)
(***************************************************************************)
THEOREM PanicOnlyFromContractViolationCorrect ==
  Spec => PanicOnlyFromContractViolation
<1>1. TypeOK /\ [Next]_vars
        => [Returns /\ verdict' = "panic"
              => vpc = "check" /\ ContractViolation]_vars
  <2> SUFFICES ASSUME TypeOK, [Next]_vars, Returns, verdict' = "panic"
               PROVE  vpc = "check" /\ ContractViolation
    OBVIOUS
  <2>1. nvalid \in Nat
    BY DEF TypeOK, ValidatorTypeOK
  <2>2. CASE vpc = "check"
    <3>1. ~UNCHANGED vars
      BY <2>2 DEF Returns, vars
    <3>2. Check
      BY <2>2, <3>1, FromCheck
    <3>3. QED
      BY <2>2, <3>2, CheckVerdictPanic DEF Check
  <2>3. CASE vpc # "check"
    <3>1. vpc' = "idle" /\ nvalid' = nvalid + 1
      BY <2>3 DEF Returns
    <3>2. nvalid' # nvalid
      BY <2>1, <3>1
    <3>3. ~UNCHANGED vars /\ ~DirectTransition /\ ~Reset /\ ~RunStep
          /\ ~RunDone /\ ~Check
      BY <2>3, <3>1, <3>2 DEF vars, DirectTransition, Reset, RunStep,
                               RunDone, Check, validatorVars, adapterVars
    <3>4. \A c \in TestCases : ~(ValidateMalformed(c) \/ ValidateNilOutput(c)
                                 \/ ValidateBegin(c))
      BY <3>1 DEF ValidateMalformed, ValidateNilOutput, ValidateBegin
    <3>5. QED
      BY <3>3, <3>4 DEF Next
  <2>4. QED
    BY <2>2, <2>3
<1>2. QED
  BY <1>1, TypeCorrect, PTL DEF Spec, PanicOnlyFromContractViolation


(***************************************************************************)
(* The listener adapter implements the ioAutomata interface.               *)
(***************************************************************************)

\* One transition of the adapter is a step of the abstract trace: the
\* input and the output are appended, or nothing changes after a panic.
LEMMA TransitionRefines ==
  ASSUME AdapterTypeOK, NEW in \in EventOrNil, NEW res, Transition(in, res)
  PROVE  [Abstract!Next]_hidden
<1>1. PICK ds \in DispatchSeqs : Handle(in, ds, res)
  BY DEF Transition
<1>2. hidden' = hidden \o TopPair(in, res)
  BY <1>1 DEF Handle, Extend
<1>3. hidden \in Seq(EventOrNil)
  BY DEF AdapterTypeOK
<1>4. CASE res = Panic
  <2>1. hidden' = hidden
    BY <1>2, <1>3, <1>4, ConcatEmptySeq DEF TopPair
  <2>2. QED
    BY <2>1
<1>5. CASE res # Panic
  <2>1. res \in Event
    BY <1>5 DEF Transition
  <2>2. <<in>> \in Seq(EventOrNil) /\ <<res>> \in Seq(EventOrNil)
    BY <2>1 DEF EventOrNil
  <2>3. <<in>> \o <<res>> = <<in, res>>
    <3>1. /\ <<in>> \o <<res>> \in Seq(EventOrNil)
          /\ Len(<<in>> \o <<res>>) = 2
          /\ (<<in>> \o <<res>>)[1] = in
          /\ (<<in>> \o <<res>>)[2] = res
      BY <2>2, ConcatProperties
    <3>2. <<in, res>> \in Seq(EventOrNil) /\ Len(<<in, res>>) = 2
      BY <2>1 DEF EventOrNil
    <3>3. \A i \in 1..Len(<<in>> \o <<res>>) :
            (<<in>> \o <<res>>)[i] = <<in, res>>[i]
      BY <3>1
    <3>4. QED
      BY <3>1, <3>2, <3>3, SeqEqual, Zenon
  <2>4. hidden' = (hidden \o <<in>>) \o <<res>>
    <3>0. \A s, t, u \in Seq(EventOrNil) : (s \o t) \o u = s \o (t \o u)
      BY ConcatAssociative
    <3>1. (hidden \o <<in>>) \o <<res>> = hidden \o (<<in>> \o <<res>>)
      BY <1>3, <2>2, <3>0
    <3>2. hidden' = hidden \o <<in, res>>
      BY <1>2, <1>5 DEF TopPair
    <3>3. QED
      BY <2>3, <3>1, <3>2
  <2>5. <<res>> \in {<<e>> : e \in Event}
    BY <2>1
  <2>6. QED
    BY <2>4, <2>5 DEF Abstract!Next, Abstract!Step
<1>6. QED
  BY <1>4, <1>5

(***************************************************************************)
(* The hidden trace behaves as the ioAutomata interface promises, for     *)
(* every test case and every listener: only transition and resetTrace     *)
(* change it, the first by appending one input and its output.            *)
(***************************************************************************)
THEOREM ImplementsIOAutomatonCorrect == Spec => ImplementsIOAutomaton
<1>1. Init => Abstract!Init
  BY DEF Init, AdapterInit, Abstract!Init
<1>2. TypeOK /\ [Next]_vars => [Abstract!Next]_hidden
  <2> SUFFICES ASSUME TypeOK, [Next]_vars PROVE [Abstract!Next]_hidden
    OBVIOUS
  <2>1. CASE DirectTransition
    <3>1. PICK in \in TestInputs, res \in Event \cup {Panic} : Transition(in, res)
      BY <2>1 DEF DirectTransition
    <3>2. in \in EventOrNil
      BY TestEventsAssumption
    <3>3. QED
      BY <3>1, <3>2, TransitionRefines DEF TypeOK
  <2>2. CASE Reset
    BY <2>2 DEF Reset, ResetTrace, Abstract!Next, Abstract!Reset
  <2>3. CASE \E c \in TestCases : ValidateMalformed(c) \/ ValidateNilOutput(c)
                                   \/ ValidateBegin(c)
    BY <2>3 DEF ValidateMalformed, ValidateNilOutput, ValidateBegin,
                StartValidation
  <2>4. CASE RunStep
    <3>1. PICK res \in Event \cup {Panic} : Transition(tc.inputs[idx], res)
      BY <2>4 DEF RunStep
    <3>2. idx \in 1..Len(tc.inputs) /\ tc.inputs \in Seq(TestInputs)
      BY <2>4 DEF RunStep, TypeOK, ValidatorTypeOK
    <3>3. tc.inputs[idx] \in EventOrNil
      BY <3>2, ElementOfSeq, TestEventsAssumption
    <3>4. QED
      BY <3>1, <3>3, TransitionRefines DEF TypeOK
  <2>5. CASE RunDone
    BY <2>5 DEF RunDone, adapterVars
  <2>6. CASE Check
    BY <2>6 DEF Check
  <2>7. CASE UNCHANGED vars
    BY <2>7 DEF vars, adapterVars
  <2>8. QED
    BY <2>1, <2>2, <2>3, <2>4, <2>5, <2>6, <2>7 DEF Next
<1>3. QED
  BY <1>1, <1>2, TypeCorrect, PTL DEF Spec, ImplementsIOAutomaton, Abstract!Spec

=============================================================================
