SPECIFICATION Spec

CONSTANTS
  Cabins = {c1}
  Orders = {o1}
  Inspectors = {i1}
  Blank = blank
  Calls = {h1, h2}
  Nobody = nobody
  MaxReadings = 1

INVARIANT AnswerIsConsistent
