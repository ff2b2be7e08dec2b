\* eventType.String on every value from -60 to 60: the negative renderings,
\* the 42 constants, the boundary value 42 and two-digit renderings beyond it.
CONSTANTS
  ProbeBound = 60
SPECIFICATION Spec
INVARIANT StringNamesConstant
INVARIANT StringNeverPanics
