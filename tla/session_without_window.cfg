\* Expected violation: a Session whose window did not open.
SPECIFICATION Spec
CONSTANTS
  Key = {k1}
  Col = {c1}
  Val = {v1}
  Absent = Absent
  Engine = "sqlite"
  Projections <- TableGrids
  MaxSessions = 1
  MaxChanges = 1
INVARIANTS EverySessionHasWindow
