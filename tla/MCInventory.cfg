SPECIFICATION Spec

CONSTANTS
  Parts = {p1, p2}
  Requests = {r1, r2}
  Blank = blank
  IntMax = 31
  Stocks <- MCStocks
  Lines <- MCLines
  Quantities <- MCQuantities

INVARIANTS
  TypeOK
  OnePendingPerPart
  AnnouncedOnce
  NeverOverOrdered

PROPERTIES
  ShortageIsOrdered
  ShortPartsAreOrdered
  RequestsAreAnnounced
