\* Every handler returns, under the fairness of FairSpec.
SPECIFICATION FairSpec
CONSTANTS
  Key = {k1, k2}
  Col = {c1}
  Val = {v1}
  Absent = Absent
  Engine = "postgres"
  Projections <- TableGrids
  MaxSessions = 1
  MaxChanges = 2
PROPERTIES HandlersReturn
