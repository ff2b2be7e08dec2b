\* Two inputs, two outputs and one property; up to five Adds, so that every
\* slice grows past capacities 1, 2 and 4, and three Builds in between.
CONSTANTS
  Input = {i1, i2}
  Output = {o1, o2}
  Prop = {p1}
  MaxAdds = 5
  MaxBuilds = 3
SPECIFICATION Spec
INVARIANT BuiltCaseImmutable
PROPERTY ImplementsBuilderPromise
\* The builder is a passive object: a test may stop calling it at any point.
CHECK_DEADLOCK FALSE
