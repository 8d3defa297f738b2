\* Every codec over two texts and two values; every answer of the two methods
\* over a string, a u32, a number that is none, a bool and null; every simulation.
SPECIFICATION Spec
CONSTANTS
  t1 = t1
  x1 = x1
  x2 = x2
  v1 = v1
  v2 = v2
  one = one
  big = big
  str = str
  two = two
  str2 = str2
  n1 = n1
  n2 = n2
  Missing = Missing
  Unsupported = Unsupported
  IllTyped = IllTyped
  Types = {t1}
  Texts = {x1, x2}
  Values = {v1, v2}
  Numbers = {one, two, big}
  Strings = {str, str2}
  I64s = {one, two, big}
  U64s = {one, two, big}
  I32s = {one, two}
  U32s = {one, two}
  Needles = {n1, n2}
  Bodies <- AllBodies
INVARIANTS
  TypeOK
  XdrKindsAreCoherent
  MentionedFieldsDecide
  SimulationKindsAreCoherent
  ErrorsAreMissingEvidence
