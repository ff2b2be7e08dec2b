\* One validation of a player, at most 3 transitions, at most two
\* actions per transition.
CONSTANTS
  a = a
  a2 = a2
  b = b
  Nil = Nil
  Panic = Panic
  Event <- MCEvent
  Fp <- MCFp
  WrappedAction = {}
  CheckerAccepts <- MCCheckerAccepts
  TestInputs <- MCTestInputs
  TestOutputs <- MCTestOutputs
  Props <- MCProps
  MaxActions = 2
  MaxCalls = 3
  MaxInputs = 2
  MaxProps = 1
  MaxValidations = 1
SPECIFICATION Spec
PROPERTY PlayerPanicOnlyFromContractViolation
