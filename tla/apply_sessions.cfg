\* Two Sessions of the Client on one row of one SQLite file.
SPECIFICATION Spec
CONSTANTS
  Key = {k1}
  Col = {c1}
  Val = {v1, v2}
  Absent = Absent
  Engine = "sqlite"
  Projections <- TableGrids
  MaxSessions = 2
  MaxChanges = 1
INVARIANTS OwnWritesSeen NothingAppliedTwice
PROPERTIES NoLostUpdate ImplementsAtomicApply
SYMMETRY RowSymmetry
