\* The same answers; only RPC fixtures.
SPECIFICATION Spec
CONSTANTS
  t1 = t1
  x1 = x1
  x2 = x2
  v1 = v1
  v2 = v2
  one = one
  big = big
  str = str
  two = two
  str2 = str2
  n1 = n1
  n2 = n2
  Missing = Missing
  Unsupported = Unsupported
  IllTyped = IllTyped
  Types = {}
  Texts = {}
  Values = {}
  Numbers = {one, two, big}
  Strings = {str, str2}
  I64s = {one, two, big}
  U64s = {one, two, big}
  I32s = {one, two}
  U32s = {one, two}
  Needles = {n1, n2}
  Bodies <- RpcBodies
INVARIANTS
  AssertionsSeeTheResponse
