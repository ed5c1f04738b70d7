SPECIFICATION Spec

CONSTANTS
  Cabins = {c1}
  Orders = {o1, o2}
  Engineers = {e1, e2}
  Parties = {p1}
  Blank = blank
  Nil = nil
  Limits <- MCLimits
  Temps <- MCTemps
  MaxReports = 2

SYMMETRY Symmetry

INVARIANTS
  TypeOK
  OnlyOverdueIsTaken
  BothAreToldOnce

PROPERTIES
  ArrivedEngineerStays
