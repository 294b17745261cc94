----------------------------- MODULE Browsing -----------------------------
(***************************************************************************)
(* What a Session window reads and writes by name: the Table list with its *)
(* Namespace picker, Create and Drop Table, a Table or a Query in front, a *)
(* cell edited there, Apply, and the Client's System Catalog preference    *)
(* with its file.  Other programs change rows and relations at any time,   *)
(* and the program can end at any point.                                   *)
(*                                                                         *)
(* The window is drawn in frames: a frame asks the Database for its Tables *)
(* and puts the selected Namespace right, and clicks are on the last frame *)
(* that was drawn.  Tabs, pages and the rest of the grid are in            *)
(* SessionView; the steps of Apply and its locks in StagedApply.           *)
(***************************************************************************)
EXTENDS Naturals, FiniteSets, Cells, Queries

CONSTANTS
  Engines,     \* the Engines to look at
  Relations,   \* the relations an Engine's Database starts with: a set of functions
  Created,     \* relations another program creates
  NewTable,    \* what Create Table makes of its columns
  NewName,     \* the name the user gives a new Table, or another program a relation
  Sql,         \* Queries the user runs on each Engine
  Typed,       \* texts the user types into a cell
  Written,     \* values other programs write
  Windows,     \* whether the build has cfg(windows)
  MaxOwn,      \* Applies and Schema Changes of the window (bounded)
  MaxOther     \* what other programs do (bounded)

NoRow    == [c \in ToSet(Columns) |-> Refused]
Row      == [ToSet(Columns) -> Stored]
Relation == [kind: {"table", "view"}, pk: Seq(Name), uniques: Seq(Seq(Name)),
             type: [ToSet(Columns) -> {"int", "text"} \cup OtherType], row: Row \cup {NoRow}]

\* Its columns have types of the Engine, the values of its row those types.
RelationOf(e) ==
  {r \in Relation : \A c \in ToSet(Columns) :
     r.type[c] \in ColumnType(e) /\ (r.row # NoRow => HasType(e, r.type[c], r.row[c]))}

IsDatabase(e, rs) ==
  \A t \in DOMAIN rs :
    /\ rs[t] \in RelationOf(e) \cup {Absent}
    /\ t \in [ns: ToSet(Namespaces[e]), name: Name]

ASSUME BrowsingAssumption ==
  /\ Engines \subseteq Engine /\ NewName \in Name /\ Typed \subseteq Text
  /\ \A e \in Engines : \A sql \in Sql[e] : sql \in Query
  /\ Written \subseteq Stored
  /\ \A e \in Engines : Created \cup {NewTable} \subseteq RelationOf(e)
  /\ \A e \in Engines : \A rs \in Relations[e] : IsDatabase(e, rs)

VARIABLES
  engine,              \* the Session's Engine
  relations,           \* external: the relations of its Database
  preference,          \* Client.system_catalogs
  file,                \* the preference in its file: or "missing", "torn"
  saving,              \* the next file operation of set_show_system_catalogs
  save_failed,         \* history: the last save did not end in a rename
  selected_namespace,  \* SessionView.selected_namespace
  drawn,               \* the last frame of the Table list
  dialog,              \* a Schema Change to confirm
  result,              \* the Tab in front: a Table, a Result or a Structure
  staged,              \* the Session's Staged Changes: one or none
  work                 \* Applies and Schema Changes, steps of other programs (bounded)

prefs == <<preference, file, saving, save_failed>>
list  == <<selected_namespace, drawn, dialog>>
grid  == <<result, staged>>
vars  == <<engine, relations, prefs, list, grid, work>>

(***************************************************************************)
(* Frames.                                                                 *)
(***************************************************************************)
NotDrawn  == [drawn |-> FALSE]
NoDialog  == [op |-> "none"]
NoResult  == [shown |-> "nothing"]
NoChange  == [staged |-> FALSE]

Spaces(tables) == {t.ns : t \in tables}

SelectedOnce(tables) ==   \* fault: what was selected is not looked for again
  IF selected_namespace = None THEN DefaultNamespace(engine, Spaces(tables))
                               ELSE selected_namespace

\* The Namespace a frame shows; with no Tables at all it draws no picker.
Selected(tables) ==
  CASE ~Grouped(engine) \/ tables = {} -> selected_namespace
    [] Grouped(engine) /\ tables # {}  ->
         IF selected_namespace \in Spaces(tables) THEN selected_namespace
                                                  ELSE DefaultNamespace(engine, Spaces(tables))

Draw ==
  LET tables == Listed(engine, relations, preference) IN
  /\ saving = "idle"
  /\ selected_namespace' = Selected(tables)
  /\ drawn' = [drawn |-> TRUE, hidden |-> preference = "Hidden", spaces |-> Spaces(tables),
               selected |-> Selected(tables),
               rows |-> {t \in tables : Grouped(engine) => t.ns = Selected(tables)}]
  /\ UNCHANGED <<engine, relations, prefs, dialog, grid, work>>

\* The UI thread is free, and a dialog covers the window behind it.
Free     == saving = "idle" /\ dialog = NoDialog
CanClick == Free /\ drawn.drawn
HasPicker == drawn.drawn /\ drawn.spaces # {}

SelectNamespace(ns) ==
  /\ CanClick /\ Grouped(engine) /\ ns \in drawn.spaces
  /\ selected_namespace' = ns
  /\ UNCHANGED <<engine, relations, prefs, drawn, dialog, grid, work>>

(***************************************************************************)
(* The System Catalog preference: memory first, then the file.             *)
(***************************************************************************)
Toggled(p) == IF p = "Hidden" THEN "Shown" ELSE "Hidden"

ToggleSystemCatalogs ==
  /\ CanClick /\ HasPicker
  /\ preference' = Toggled(preference)
  /\ saving' = "write"
  /\ save_failed' = TRUE
  /\ selected_namespace' = None
  /\ UNCHANGED <<engine, relations, file, drawn, dialog, grid, work>>

WriteInPlace ==   \* fault: no temporary file
  /\ saving = "write"
  /\ file' = "torn"
  /\ saving' = "rename"
  /\ UNCHANGED <<engine, relations, preference, save_failed, list, grid, work>>

\* create_dir_all and the temporary file; on Windows the file is removed then.
WriteTmp ==
  /\ saving = "write"
  /\ saving' = IF Windows /\ file # "missing" THEN "remove" ELSE "rename"
  /\ UNCHANGED <<engine, relations, preference, file, save_failed, list, grid, work>>

RemoveOnWindows ==
  /\ saving = "remove"
  /\ file' = "missing"
  /\ saving' = "rename"
  /\ UNCHANGED <<engine, relations, preference, save_failed, list, grid, work>>

Rename ==
  /\ saving = "rename"
  /\ file' = preference
  /\ saving' = "idle"
  /\ save_failed' = FALSE
  /\ UNCHANGED <<engine, relations, preference, list, grid, work>>

\* Any of the operations fails; the window says so, nothing is taken back.
SaveFails ==
  /\ saving # "idle"
  /\ saving' = "idle"
  /\ UNCHANGED <<engine, relations, preference, file, save_failed, list, grid, work>>

\* Client::open; a file that cannot be parsed is an error and the program does not start.
Loaded(f) == IF f = "missing" THEN "Hidden" ELSE f

\* The program ends, anywhere, and is started and the Connection opened again.
Restart ==
  /\ file # "torn"
  /\ preference' = Loaded(file)
  /\ saving' = "idle"
  /\ save_failed' = FALSE
  /\ selected_namespace' = None /\ drawn' = NotDrawn /\ dialog' = NoDialog
  /\ result' = NoResult /\ staged' = NoChange
  /\ UNCHANGED <<engine, relations, file, work>>

(***************************************************************************)
(* The grid in front: a Table, or the Result of a Query.                   *)
(***************************************************************************)
CellsOf(row, sources) ==
  [i \in DOMAIN sources |-> IF sources[i] = None THEN Integer(CHOOSE n \in Number : TRUE)
                                                 ELSE Decode(row[sources[i]])]

\* table_page, or query: staging first, then the rows.  `answerable', `from', `read'
\* and `faithful' are history: whether the Database has an answer, the relation and
\* row it came from, and whether each column is the relation's column of that name.
Page(rs, sql, tab) ==
  LET from    == IF tab THEN ReadQuoted(engine, rs, Table(sql.ns, sql.name))
                        ELSE Read(engine, rs, sql.ns, sql.name)
      sources == ResultSources(sql)
  IN  IF from = NoTable \/ (~tab /\ ~StagingKnown(engine, rs, sql))
        THEN [shown |-> "error", sql |-> sql, tab |-> tab, answerable |-> from # NoTable]
        ELSE [shown |-> "rows", sql |-> sql, tab |-> tab,
              columns  |-> ResultColumns(engine, sql),
              cells    |-> IF rs[from].row = NoRow THEN <<>> ELSE CellsOf(rs[from].row, sources),
              staging  |-> IF tab THEN from ELSE ResultStaging(engine, rs, sql),
              from     |-> from, relation |-> rs[from],
              faithful |-> NotRenamed(engine, sql)]

\* reload_all_grids: a Structure has no grid.
Reloaded(rs) == IF result.shown \in {"nothing", "structure"} THEN result
                                                        ELSE Page(rs, result.sql, result.tab)

AllOf(t) == [shape |-> "one", ns |-> t.ns, name |-> t.name, items |-> <<[expr |-> "star"]>>]

OpenTable(t) ==
  /\ CanClick /\ t \in drawn.rows
  /\ result' = Page(relations, AllOf(t), TRUE)
  /\ UNCHANGED <<engine, relations, prefs, list, staged, work>>

RunQuery(sql) ==
  /\ Free
  /\ result' = Page(relations, sql, FALSE)
  /\ UNCHANGED <<engine, relations, prefs, list, staged, work>>

\* row_identity and named_row take the first cell of a name.
CellNamed(column) ==
  result.cells[Min({i \in DOMAIN result.columns : result.columns[i] = column})]

\* The cells of the row by name: no column is given twice to push_row_predicate.
LastSeen == [c \in ToSet(result.columns) |-> CellNamed(c)]

\* An editor is opened on a cell, the text typed, and the input left.
StageUpdate(i, text) ==
  LET identity == IdentityColumnNames(engine, relations, result.staging)
      new      == CellFromInput(text)
  IN
  /\ Free /\ result.shown = "rows" /\ staged = NoChange
  /\ result.staging # NoTable /\ i \in DOMAIN result.cells \cap DOMAIN result.columns
  /\ new # result.cells[i]
  /\ identity # <<>> /\ ToSet(identity) \subseteq ToSet(result.columns)
  /\ staged' = [staged |-> TRUE, table |-> result.staging, last_seen |-> LastSeen,
                column |-> result.columns[i], new |-> new, text |-> text, result |-> result]
  /\ UNCHANGED <<engine, relations, prefs, list, result, work>>

DiscardAll ==
  /\ Free /\ staged # NoChange
  /\ staged' = NoChange
  /\ UNCHANGED <<engine, relations, prefs, list, result, work>>

(***************************************************************************)
(* Apply of the one Staged Change.                                         *)
(***************************************************************************)
\* External: the column of a relation a quoted name means.
ColumnOf(name) == IF engine = "postgres" THEN name ELSE Fold[name]

\* The WHERE clause of the update selects the row.
RowMatches(relation) ==
  /\ IsTable(relation) /\ relation.row # NoRow
  /\ \A name \in DOMAIN staged.last_seen :
       /\ ColumnOf(name) \in ToSet(Columns)
       /\ Matches(engine, relation.type[ColumnOf(name)], relation.row[ColumnOf(name)],
                  staged.last_seen[name])

NewValue(relation) == Store(engine, relation.type[ColumnOf(staged.column)], staged.new)

\* The parameter is taken, and one row is affected: MySQL counts those that change.
Succeeds(relation) ==
  /\ RowMatches(relation)
  /\ NewValue(relation) # Refused
  /\ engine = "mysql" => NewValue(relation) # relation.row[ColumnOf(staged.column)]

\* An Apply that fails is rolled back and keeps the bag: no step.
Apply ==
  LET t == Quoted(engine, staged.table) IN
  /\ Free /\ staged # NoChange /\ work.own < MaxOwn
  /\ t \in DOMAIN relations /\ Succeeds(relations[t])
  /\ relations' = [relations EXCEPT ![t].row[ColumnOf(staged.column)] = NewValue(relations[t])]
  /\ staged' = NoChange
  /\ result' = Reloaded(relations')
  /\ work' = [work EXCEPT !.own = @ + 1]
  /\ UNCHANGED <<engine, prefs, list>>

(***************************************************************************)
(* Schema Changes by name.                                                 *)
(***************************************************************************)
Browsed == IF Grouped(engine) THEN drawn.selected ELSE Here[engine]
DdlNamespace(ns) == IF Grouped(engine) THEN ns ELSE "main"

\* "Create Table" in the menu of the picker.  `browsed' is history.
OpenCreateTable ==
  /\ CanClick /\ HasPicker
  /\ dialog' = [op |-> "create", ns |-> DdlNamespace(drawn.selected), name |-> NewName,
                browsed |-> Browsed]
  /\ UNCHANGED <<engine, relations, prefs, selected_namespace, drawn, grid, work>>

\* A Structure Tab of a drawn Table, which stays in front whatever the picker does.
OpenStructure(t) ==
  /\ CanClick /\ t \in drawn.rows /\ t.name = NewName
  /\ result' = [shown |-> "structure", table |-> t, browsed |-> Browsed]
  /\ UNCHANGED <<engine, relations, prefs, list, staged, work>>

\* "Drop table" there, of the Table the Tab was opened on.
OpenDropTable ==
  /\ Free /\ result.shown = "structure"
  /\ dialog' = [op |-> "drop", ns |-> DdlNamespace(result.table.ns), name |-> result.table.name,
                browsed |-> result.browsed]
  /\ UNCHANGED <<engine, relations, prefs, selected_namespace, drawn, grid, work>>

CancelDialog ==
  /\ saving = "idle" /\ dialog # NoDialog
  /\ dialog' = NoDialog
  /\ UNCHANGED <<engine, relations, prefs, selected_namespace, drawn, grid, work>>

\* Confirmed; refused while there are Staged Changes, or by the Database.
RunSchemaChange ==
  LET t == QualifiedForCreate(engine, dialog.ns, dialog.name) IN
  /\ saving = "idle" /\ dialog # NoDialog /\ work.own < MaxOwn
  /\ staged = NoChange /\ t \in DOMAIN relations
  /\ IF dialog.op = "create" THEN relations[t] = Absent ELSE IsTable(relations[t])
  /\ relations' = [relations EXCEPT ![t] = IF dialog.op = "create" THEN NewTable ELSE Absent]
  /\ dialog' = NoDialog
  /\ result' = Reloaded(relations')
  /\ work' = [work EXCEPT !.own = @ + 1]
  /\ UNCHANGED <<engine, prefs, selected_namespace, drawn, staged>>

(***************************************************************************)
(* External: other programs.                                               *)
(***************************************************************************)
Others(t, relation) ==
  /\ work.other < MaxOther
  /\ relation # relations[t]
  /\ relations' = [relations EXCEPT ![t] = relation]
  /\ work' = [work EXCEPT !.other = @ + 1]
  /\ UNCHANGED <<engine, prefs, list, grid>>

\* Values a column of a type can have.
ValuesOf(type) == Written \cap (ValuesIn(type) \cup {Null})

OtherProgramWrites(t) ==
  /\ relations[t] # Absent /\ relations[t].row # NoRow
  /\ \/ \E v \in ValuesOf(relations[t].type["v"]) :
           Others(t, [relations[t] EXCEPT !.row["v"] = v])
     \/ Others(t, [relations[t] EXCEPT !.row = NoRow])

OtherProgramCreates(t) ==
  /\ relations[t] = Absent
  /\ \E relation \in Created : Others(t, relation)

OtherProgramDrops(t) == Others(t, Absent)

(***************************************************************************)
(* The system.                                                             *)
(***************************************************************************)
Init ==
  /\ engine \in Engines /\ relations \in Relations[engine]
  /\ preference = "Hidden" /\ file = "missing" /\ saving = "idle" /\ save_failed = FALSE
  /\ selected_namespace = None /\ drawn = NotDrawn /\ dialog = NoDialog
  /\ result = NoResult /\ staged = NoChange
  /\ work = [own |-> 0, other |-> 0]

ListAction ==
  \/ Draw \/ \E ns \in ToSet(Namespaces[engine]) : SelectNamespace(ns)
  \/ ToggleSystemCatalogs \/ WriteTmp \/ RemoveOnWindows \/ Rename \/ SaveFails \/ Restart
  \/ OpenCreateTable \/ OpenDropTable \/ CancelDialog \/ RunSchemaChange

GridAction ==
  \/ \E t \in DOMAIN relations : OpenTable(t) \/ OpenStructure(t)
  \/ \E sql \in Sql[engine] : RunQuery(sql)
  \/ result.shown = "rows" /\ \E i \in DOMAIN result.cells, text \in Typed : StageUpdate(i, text)
  \/ DiscardAll \/ Apply

OtherProgram ==
  \E t \in {u \in DOMAIN relations : u.name = NewName} :
    OtherProgramWrites(t) \/ OtherProgramCreates(t) \/ OtherProgramDrops(t)

Next == ListAction \/ GridAction \/ OtherProgram
Spec == Init /\ [][Next]_vars

(***************************************************************************)
(* Properties.                                                             *)
(***************************************************************************)
\* The types of the state; a grid holds cells, never values of the Database
\* that have no cell (postgres.rs:86-180), and as many as it has columns.
TypeOK ==
  /\ \A t \in DOMAIN relations : relations[t] \in Relation \cup {Absent}
  /\ preference \in {"Hidden", "Shown"} /\ file \in {"missing", "torn", "Hidden", "Shown"}
  /\ saving \in {"idle", "write", "remove", "rename"} /\ save_failed \in BOOLEAN
  /\ drawn.drawn => drawn.rows \subseteq DOMAIN relations
  /\ result.shown = "rows" =>
       /\ result.cells = <<>> \/ DOMAIN result.cells = DOMAIN result.columns
       /\ ToSet(result.cells) \subseteq Cell
       /\ result.staging \in {NoTable} \cup {Table(t.ns, n) : t \in DOMAIN relations, n \in Name}
  /\ staged # NoChange => staged.new \in Cell

\* The Namespace a frame says is browsed is one it lists, and no System Catalog
\* while those are hidden, whatever was dropped or hidden since it was selected
\* (session.rs:388-401, 1857-1873).
BrowsesAListedNamespace ==
  (drawn.drawn /\ Grouped(engine) /\ drawn.spaces # {}) =>
    /\ drawn.selected \in drawn.spaces
    /\ drawn.hidden => drawn.selected \notin SystemName
    /\ drawn.rows # {}

\* A confirmed Schema Change creates or drops the Table of that name in the
\* Namespace that was browsed when its form or its Structure Tab was opened, and
\* nothing else, whatever the picker has selected since: no fall-through to public (ADR 0030), unless the Namespace is called "main"
\* (schema_change.rs:174-188).
SchemaChangeWhereBrowsing ==
  [][(dialog # NoDialog /\ work'.own # work.own) =>
       \/ Grouped(engine) /\ dialog.browsed = "main"
       \/ \A t \in DOMAIN relations :
            relations'[t] # relations[t] <=> t = Table(dialog.browsed, dialog.name)]_vars

\* The preference in memory and the one the next start will read differ only
\* while it is being saved or after a save that failed, and the file is
\* never one the Client cannot be opened with (client.rs:82-122).
PreferenceOnDisk ==
  /\ file # "torn"
  /\ (saving = "idle" /\ ~save_failed) => Loaded(file) = preference

Applies == staged # NoChange /\ staged' = NoChange /\ relations' # relations

\* A grid of a Table of this Database, with columns of their own names.  A view of
\* the same name, another database of MySQL and a renamed column are not (query.rs:
\* 219-227, postgres.rs:836-880, mysql.rs:325-338); nor is, on Postgres, a name with
\* capitals in a Query: the Client keeps them, the Database folds them, and "T" and
\* "t" can both be Tables (query.rs:289-313).
ByItsNames(e, read) ==
  /\ read.faithful /\ IsTable(read.relation)
  /\ Grouped(e) \/ read.from.ns = Here[e]
  /\ (Grouped(e) /\ ~read.tab) => Fold[read.sql.name] = read.sql.name

\* An update staged on a Table, or on a Result of its columns by their names, is
\* applied to that Table and to the row that was read: what was shown is what is
\* overwritten.  (But for a column that has another type since then, when the
\* Table was dropped and made again: the parameter is converted to that type.)
StagedIsTheRowRead ==
  [][(Applies /\ ByItsNames(engine, staged.result)) =>
       LET read == staged.result IN
       \A t \in DOMAIN relations : relations'[t] # relations[t] =>
         /\ t = read.from
         /\ \A i \in DOMAIN read.cells :
              LET c == ColumnOf(read.columns[i])
              IN  relations[t].type[c] = read.relation.type[c] =>
                    Decode(relations[t].row[c]) = read.cells[i]]_vars

Shown(stored) == CellEditText(Decode(stored))

\* A text as it is shown once it was read as a cell.
Plain(typed) == IF typed \in DOMAIN Parsed THEN Printed[Parsed[typed]] ELSE typed

\* A number that is no i64 as it is written, in an integer column: converted to the
\* number it is, in MySQL to the nearest integer.
IsConverted(type, typed, stored) ==
  /\ engine \in {"sqlite", "mysql"} /\ type = "int"
  /\ typed \in DOMAIN Rounded \ DOMAIN Parsed
  /\ Shown(stored) \in DOMAIN Rounded /\ Rounded[Shown(stored)] = Rounded[typed]

\* A cell that is not of the column's type, in Postgres: its bytes are another value
\* there.  A value of an OtherType is not overwritten this way: its row is not found.
IsMisread(type, old) ==
  /\ engine = "postgres" /\ staged.new.is \notin {"null", type}
  /\ (type \in OtherType /\ ByItsNames(engine, staged.result)
      /\ staged.result.relation.type[ColumnOf(staged.column)] = type) => old = Null

\* What an Apply stores is shown as what was typed, or the integer it is, without the
\* blanks around it, but for the two cases above, which no step reports (session.rs:
\* 2488-2508, postgres.rs:449-479): "1.50" is 2 in a MySQL INT, and in Postgres 7 in an
\* empty TIMESTAMP seven microseconds, "f" in an empty BOOL true.
StoredAsTyped ==
  [][Applies =>
       LET t      == Quoted(engine, staged.table)
           c      == ColumnOf(staged.column)
           type   == relations[t].type[c]
           stored == relations'[t].row[c]
           typed  == Trim[staged.text]
       IN  \/ Shown(stored) = Plain(typed)
           \/ IsConverted(type, typed, stored)
           \/ IsMisread(type, relations[t].row[c])]_vars

\* A row nobody has written since it was read is found again by the update staged
\* on it, whatever its cells are (NULL, integers, texts, or text in an integer
\* column of SQLite), unless it has a value of an OtherType: such a row of Postgres
\* is never found, and takes no update (postgres.rs:449-479).
UnchangedRowMatches ==
  LET read == staged.result IN
  (staged # NoChange /\ ByItsNames(engine, read) /\ relations[read.from] = read.relation)
    => (RowMatches(relations[Quoted(engine, staged.table)]) <=>
          \A i \in DOMAIN read.cells :
            read.relation.type[ColumnOf(read.columns[i])] \in OtherType => read.cells[i] = Null)

\* "Queries can still select them while they are hidden" (CONTEXT.md:26, of
\* System Catalogs): a Query of a relation the Database answers is shown.
ReadsAlwaysRun == result.shown = "error" => ~result.answerable
=============================================================================
