--------------------------- MODULE MCSessionView ---------------------------
(* An instance of SessionView for TLC: one Table.  A user who edits cells  *)
(* has two Tabs on a Table of one row; a user who only looks, filters and  *)
(* runs SQL has three Tabs on a Table of three rows.                       *)
EXTENDS SessionView

Keys  == 1 .. 3
Texts == {Empty} \cup [do: {"one", "many", "write"}, table: Table]
Writing == {sql \in Texts : sql.do = "write"}
KeepX == {{"x"}}
Rows1To(n) == [t \in Table |-> [k \in Key |-> IF k <= n THEN [val |-> "x"] ELSE Absent]]

EditAndLook ==
  <<[db |-> Rows1To(1), keys |-> {1}, sql |-> Texts \ Writing, tabs |-> 2, grids |-> 2,
     opened |-> 2, staged |-> 1, filters |-> 0, own |-> 1, other |-> 1, clicks |-> TRUE],
    [db |-> Rows1To(3), keys |-> {1}, sql |-> Texts, tabs |-> 3, grids |-> 2,
     opened |-> 3, staged |-> 0, filters |-> 1, own |-> 1, other |-> 1, clicks |-> FALSE]>>
=============================================================================
