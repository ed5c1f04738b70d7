SPECIFICATION Spec

CONSTANTS
  Cabins = {c1, c2}
  Orders = {o1, o2}
  Engineers = {e1}
  Parties = {p1}
  Blank = blank
  Nil = nil
  Limits <- MCLimits
  Temps <- MCTemps
  MaxReports = 2

SYMMETRY Symmetry

PROPERTY IsARepairDesk
