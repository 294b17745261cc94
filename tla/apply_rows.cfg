\* One Session, two rows, other programs: atomicity, order, ids.
SPECIFICATION Spec
CONSTANTS
  Key = {k1, k2}
  Col = {c1}
  Val = {v1, v2}
  Absent = Absent
  Engine = "postgres"
  Projections <- TableGrids
  MaxSessions = 1
  MaxChanges = 2
INVARIANTS TypeOK TouchedAsStaged NothingAppliedTwice StagedIdsInOrder OwnWritesSeen
PROPERTIES NoLostUpdate StagedLeavesOnlyBy ImplementsAtomicApply
SYMMETRY RowSymmetry
