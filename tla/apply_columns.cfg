\* Grids that show some columns of a row only, on MySQL.
SPECIFICATION Spec
CONSTANTS
  Key = {k1}
  Col = {c1, c2}
  Val = {v1, v2}
  Absent = Absent
  Engine = "mysql"
  Projections <- AllGrids
  MaxSessions = 1
  MaxChanges = 2
PROPERTIES NoLostUpdate EditedCellsOnly
SYMMETRY RowSymmetry
