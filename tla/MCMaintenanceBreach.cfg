SPECIFICATION Spec

CONSTANTS
  Cabins = {c1}
  Orders = {o1}
  Engineers = {e1}
  Parties = {p1}
  Blank = blank
  Nil = nil
  Limits <- MCLimits
  Temps <- MCTemps
  MaxReports = 1

PROPERTY BreachRaisesAlarm
