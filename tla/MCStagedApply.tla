--------------------------- MODULE MCStagedApply ---------------------------
(* Instances of StagedApply for TLC: the column sets a grid can show.      *)
EXTENDS ApplyRefinement, TLC

TableGrids        == {Col}
TableOrResultGrids == {Col, {}}
AllGrids          == SUBSET Col

RowSymmetry == Permutations(Key) \cup Permutations(Val)
=============================================================================
