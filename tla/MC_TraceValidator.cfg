CONSTANTS
  a = a
  a2 = a2
  b = b
  Nil = Nil
  Panic = Panic
  Event <- MCEvent
  RoutedEvent = {b}
  Fp <- MCFp
  WrappedAction = {}
  CheckerAccepts <- MCCheckerAccepts
  TestInputs <- MCTestInputs
  TestOutputs <- MCTestOutputs
  Props <- MCProps
  MaxDispatch = 1
  MaxCalls = 3
  MaxInputs = 2
  MaxProps = 1
  MaxValidations = 2
SPECIFICATION Spec
INVARIANT HiddenIsVisibleProjection
PROPERTY ValidateSoundFresh
PROPERTY RuntimeOnlyFromHarness
PROPERTY PanicOnlyFromContractViolation
PROPERTY ImplementsIOAutomaton
