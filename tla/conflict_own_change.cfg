\* Expected violation: the second Staged Change of one row is a Conflict.
SPECIFICATION Spec
CONSTANTS
  Key = {k1}
  Col = {c1}
  Val = {v1, v2}
  Absent = Absent
  Engine = "sqlite"
  Projections <- TableGrids
  MaxSessions = 1
  MaxChanges = 2
PROPERTIES ConflictMeansRowChanged
