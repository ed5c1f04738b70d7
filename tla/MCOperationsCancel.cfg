SPECIFICATION Spec

CONSTANTS
  Ops = {op1, op2}
  People = {d1, s1, s2}
  Blank = blank
  MaxAudit = 5

PROPERTY CancelsWhatIsOpen
