--------------------------- MODULE StagedChanges ---------------------------
(***************************************************************************)
(* Staged Changes (staged.rs) and the one SQL statement an Engine executes *)
(* for each of them when it applies them (apply_change of the three        *)
(* Engines).  A Table is a function from Row Identities to rows; the       *)
(* Row Identity of a row is its Key, its other columns are Col.            *)
(*                                                                         *)
(* Text of the statement, quoting, parameter numbering and the conversion  *)
(* of a Cell to a parameter are abstracted: what is kept is which rows the *)
(* WHERE clause built by push_row_predicate selects, what the statement    *)
(* writes, and how many rows the Engine says it affected.                  *)
(***************************************************************************)
EXTENDS Naturals

CONSTANTS
  Key,      \* Row Identities of the Table
  Col,      \* columns that are not part of the Row Identity
  Val,      \* cells
  Absent,   \* "no row with this Row Identity"
  Engine    \* "sqlite", "postgres" or "mysql" (connection_string.rs Engine)

ASSUME EngineAssumption == Engine \in {"sqlite", "postgres", "mysql"}

Row        == [Col -> Val]
ASSUME AbsentAssumption == Absent \notin Row
Slot       == Row \cup {Absent}
PartialRow == UNION {[C -> Val] : C \in SUBSET Col}

(***************************************************************************)
(* StagedChange.  `seen' is last_seen without the identity columns: every  *)
(* column of the grid the change was staged from, which for a Result Tab   *)
(* may be a part of the columns of the Table.  The cell edit of the grid   *)
(* gives new_values one column: a data column (`set') or a column of the   *)
(* Row Identity, which moves the row to the Row Identity `to'.             *)
(***************************************************************************)
Insert == [op: {"insert"}, id: Nat, key: Key, values: Row]
Update == [op: {"update"}, id: Nat, key: Key, seen: PartialRow,
           to: Key, set: PartialRow]
Delete == [op: {"delete"}, id: Nat, key: Key, seen: PartialRow]
StagedChange == Insert \cup Update \cup Delete

(***************************************************************************)
(* The WHERE clause: Row Identity and every last seen column still match.  *)
(***************************************************************************)
RowIdentityOnly(slot, seen) == slot # Absent   \* fault: last write wins

RowPredicate(slot, seen) ==
  /\ slot # Absent
  /\ \A c \in DOMAIN seen : slot[c] = seen[c]

AssignWholeRow(row, set) ==       \* fault: replaces the row, not the cell
  [c \in Col |-> IF c \in DOMAIN set THEN set[c] ELSE CHOOSE v \in Val : TRUE]

Assign(row, set) == [c \in Col |-> IF c \in DOMAIN set THEN set[c] ELSE row[c]]

\* The Row Identities whose rows the statement reads or writes.
Targets(ch) == IF ch.op = "update" THEN {ch.key, ch.to} ELSE {ch.key}

\* `changed' (SQLite, Postgres) or affected_rows() (MySQL, which counts only
\* the rows an UPDATE leaves different) is 1: the statement is no Conflict.
AffectsOneRow(ch, table) ==
  CASE ch.op = "insert" -> TRUE
    [] ch.op = "delete" -> RowPredicate(table[ch.key], ch.seen)
    [] ch.op = "update" ->
         /\ RowPredicate(table[ch.key], ch.seen)
         /\ \/ Engine # "mysql"
            \/ ch.to # ch.key
            \/ Assign(table[ch.key], ch.set) # table[ch.key]

\* The primary key or unique index of the Table refuses the statement.
ViolatesIdentity(ch, table) ==
  CASE ch.op = "insert" -> table[ch.key] # Absent
    [] ch.op = "delete" -> FALSE
    [] ch.op = "update" -> ch.to # ch.key /\ table[ch.to] # Absent

\* The statement is executed and the loop of apply_staged goes on.
Succeeds(ch, table) == AffectsOneRow(ch, table) /\ ~ViolatesIdentity(ch, table)

\* The Table after a statement that succeeds.
ApplyChange(ch, table) ==
  CASE ch.op = "insert" -> [table EXCEPT ![ch.key] = ch.values]
    [] ch.op = "delete" -> [table EXCEPT ![ch.key] = Absent]
    [] ch.op = "update" ->
         [table EXCEPT ![ch.key] = Absent,
                       ![ch.to] = Assign(table[ch.key], ch.set)]
=============================================================================
