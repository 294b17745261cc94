--------------------------- MODULE BrowsingProofs ---------------------------
(***************************************************************************)
(* Theorems about Browsing, for any relations, names, Queries and texts:   *)
(* the preference and its file, the Namespace that is browsed, the Table a *)
(* Schema Change is for, the text an Apply stores, and the Table and row   *)
(* it is stored in.                                                        *)
(***************************************************************************)
EXTENDS Browsing, IndexFacts

-----------------------------------------------------------------------------
(* The preference and its file.                                            *)

\* While a save is under way it counts as failed; the file is whole.
PreferenceInv ==
  /\ preference \in {"Hidden", "Shown"}
  /\ file \in {"missing", "Hidden", "Shown"}
  /\ saving # "idle" => save_failed
  /\ PreferenceOnDisk

LEMMA NextPreferenceInv == PreferenceInv /\ [Next]_vars => PreferenceInv'
<1>. USE DEF PreferenceInv, PreferenceOnDisk, Loaded
<1>1. SUFFICES ASSUME PreferenceInv, [Next]_vars  PROVE PreferenceInv'
  OBVIOUS
<1>2. CASE ToggleSystemCatalogs
  BY <1>1, <1>2 DEF ToggleSystemCatalogs, Toggled
<1>3. CASE WriteTmp \/ RemoveOnWindows \/ Rename \/ SaveFails
  BY <1>1, <1>3 DEF WriteTmp, RemoveOnWindows, Rename, SaveFails
<1>4. CASE Restart
  BY <1>1, <1>4 DEF Restart
<1>5. CASE UNCHANGED prefs
  BY <1>1, <1>5 DEF prefs
<1>6. ListAction => ToggleSystemCatalogs \/ WriteTmp \/ RemoveOnWindows \/ Rename \/ SaveFails
                      \/ Restart \/ UNCHANGED prefs
  BY DEF ListAction, Draw, SelectNamespace, OpenCreateTable, CancelDialog, RunSchemaChange,
         OpenDropTable
<1>7. GridAction => UNCHANGED prefs
  BY DEF GridAction, OpenTable, OpenStructure, RunQuery, StageUpdate, DiscardAll, Apply
<1>8. OtherProgram => UNCHANGED prefs
  BY DEF OtherProgram, OtherProgramWrites, OtherProgramCreates, OtherProgramDrops, Others
<1>9. UNCHANGED vars => UNCHANGED prefs
  BY DEF vars
<1>. QED  BY <1>1, <1>2, <1>3, <1>4, <1>5, <1>6, <1>7, <1>8, <1>9 DEF Next

\* The preference in memory is the one on the disk, but for a save under way or
\* one that failed (client.rs, set_show_system_catalogs).
THEOREM PreferenceIsOnDisk == Spec => []PreferenceOnDisk
<1>1. Init => PreferenceInv
  BY DEF Init, PreferenceInv, PreferenceOnDisk, Loaded
<1>2. PreferenceInv => PreferenceOnDisk
  BY DEF PreferenceInv
<1>. QED  BY <1>1, <1>2, NextPreferenceInv, PTL DEF Spec

-----------------------------------------------------------------------------
(* The relations keep their types.                                         *)

\* relations has the relations of one Engine; what is staged is a typed text.
RelationsInv ==
  /\ engine \in Engines
  /\ IsDatabase(engine, relations)
  /\ staged # NoChange => /\ staged.text \in Text /\ staged.new = CellFromInput(staged.text)
                          /\ staged.column \in DOMAIN staged.last_seen

\* What was typed becomes a cell.
LEMMA InputIsCell ==
  ASSUME NEW text \in Text
  PROVE  CellFromInput(text) \in Cell
BY CellsAssumption DEF CellFromInput, Cell, Null, Integer, TextOf

\* A cell is NULL, an integer or a text; its own form tells which.
LEMMA CellForms ==
  ASSUME NEW cell \in Cell
  PROVE  /\ cell.is \in {"null", "int", "text"} /\ Decode(cell) = cell
         /\ cell.is = "null" => cell = Null
         /\ cell.is = "int"  => cell.n \in Number /\ cell = Integer(cell.n)
         /\ cell.is = "text" => cell.t \in Text /\ cell = TextOf(cell.t)
BY ReadAssumption DEF Cell, Null, Integer, TextOf, Decode

\* The values of a type.
LEMMA ValuesStored ==
  ASSUME NEW type \in {"int", "text"} \cup OtherType, NEW v \in ValuesIn(type)
  PROVE  /\ v \in Stored /\ v.is = type /\ v # Refused /\ v # Null
         /\ type \in {"int", "text"} => v \in Cell
         /\ type \in OtherType => v.as \in ShownAs[type] /\ v = Other(type, v.as)
<1>1. CASE type = "int"
  BY <1>1, ReadAssumption DEF ValuesIn, Stored, Cell, Null, Integer, TextOf, Refused
<1>2. CASE type = "text"
  BY <1>2, ReadAssumption DEF ValuesIn, Stored, Cell, Null, Integer, TextOf, Refused
<1>3. CASE type \in OtherType
  <2>1. type \notin {"null", "int", "text", "refused"}
    BY <1>3, ReadAssumption
  <2>2. PICK cell \in ShownAs[type] : v = Other(type, cell)
    BY <2>1 DEF ValuesIn
  <2>3. v \in Stored
    BY <1>3, <2>2 DEF Stored
  <2>. QED  BY <2>1, <2>2, <2>3 DEF Other, Refused, Null
<1>. QED  BY <1>1, <1>2, <1>3

\* A stored value is shown as a cell, and there is one when it is stored.
LEMMA StoredShown ==
  ASSUME NEW v \in Stored
  PROVE  Decode(v) \in Cell /\ v # Refused
<1>1. CASE v \in Cell
  <2>1. v.is # "refused"
    BY <1>1, CellForms
  <2>. QED  BY <1>1, <2>1, CellForms DEF Refused
<1>2. ASSUME NEW type \in OtherType, NEW cell \in ShownAs[type], v = Other(type, cell)
      PROVE  Decode(v) \in Cell /\ v # Refused
  BY <1>2, ReadAssumption DEF Other, Decode, Refused
<1>. QED  BY <1>1, <1>2 DEF Stored

LEMMA RefusedIsNoValue == Refused \notin Stored
BY StoredShown

\* What an INTEGER column of SQLite makes of a text stays as it is.
LEMMA SqliteInteger ==
  ASSUME NEW t \in Text
  PROVE  LET v == StoreSqlite("int", TextOf(t))
         IN  \/ v \in {Integer(n) : n \in Number}
             \/ v \in {TextOf(u) : u \in Text} /\ StoreSqlite("int", v) = v
<1>1. CASE t \in DOMAIN Fraction
  <2>1. /\ StoreSqlite("int", TextOf(t)) = TextOf(Fraction[t]) /\ Fraction[t] \in Text
        /\ StoreSqlite("int", TextOf(Fraction[t])) = TextOf(Fraction[Fraction[t]])
    BY <1>1, CellsAssumption DEF StoreSqlite, TextOf
  <2>2. Fraction[Fraction[t]] = Fraction[t]
    BY <1>1, CellsAssumption
  <2>. QED  BY <2>1, <2>2
<1>2. CASE t \in DOMAIN Rounded \ DOMAIN Fraction
  <2>1. StoreSqlite("int", TextOf(t)) = Integer(Rounded[t])
    BY <1>2 DEF StoreSqlite, TextOf
  <2>2. Rounded[t] \in Number
    BY <1>2, CellsAssumption
  <2>. QED  BY <2>1, <2>2
<1>3. CASE t \notin DOMAIN Rounded /\ t \notin DOMAIN Fraction
  <2>1. StoreSqlite("int", TextOf(t)) = TextOf(t)
    BY <1>3 DEF StoreSqlite, TextOf
  <2>. QED  BY <2>1
<1>. QED  BY <1>1, <1>2, <1>3

\* What a column stores of a cell is a value of the column's type, or nothing.
LEMMA StoreHasType ==
  ASSUME NEW e \in Engine, NEW type \in ColumnType(e), NEW cell \in Cell,
         Store(e, type, cell) # Refused
  PROVE  Store(e, type, cell) \in Stored /\ HasType(e, type, Store(e, type, cell))
<1>1. CASE e = "postgres"
  <2>1. Store(e, type, cell) = StorePostgres(type, cell)
    BY <1>1 DEF Store
  <2>2. CASE cell.is = "null"
    <3>1. StorePostgres(type, cell) = Null
      BY <2>2, CellForms DEF StorePostgres
    <3>. QED  BY <2>1, <3>1 DEF HasType, Stored, Cell
  <2>3. CASE cell.is # "null"
    <3>1. /\ cell \in DOMAIN ReadAs[type]
          /\ Store(e, type, cell) = ReadAs[type][cell]
      BY <2>1, <2>3 DEF StorePostgres
    <3>2. ReadAs[type][cell] \in ValuesIn(type)
      BY <1>1, <3>1, ReadAssumption
    <3>3. type \in {"int", "text"} \cup OtherType
      BY <1>1 DEF ColumnType
    <3>. QED  BY <3>1, <3>2, <3>3, ValuesStored DEF HasType
  <2>. QED  BY <2>2, <2>3
<1>2. CASE e \in {"sqlite", "mysql"}
  <2>1. type \in {"int", "text"}
    BY <1>2 DEF ColumnType
  <2>2. ASSUME NEW v \in ValuesIn(type) \cup {Null}, Store(e, type, cell) = v
        PROVE  Store(e, type, cell) \in Stored /\ HasType(e, type, Store(e, type, cell))
    <3>1. Null \in Stored
      BY DEF Stored, Cell
    <3>2. v \in Stored
      BY <2>1, <3>1, ValuesStored
    <3>. QED  BY <2>2, <3>2 DEF HasType
  <2>3. CASE cell.is = "null"
    <3>1. Store(e, type, cell) = Null
      BY <1>2, <2>3, CellForms DEF Store, StoreSqlite, StoreMysql
    <3>. QED  BY <2>2, <3>1
  <2>4. CASE cell.is = "int"
    <3>1. cell = Integer(cell.n) /\ cell.n \in Number /\ Printed[cell.n] \in Text
      BY <2>4, CellForms, CellsAssumption
    <3>2. type = "int" => Store(e, type, cell) = cell
      BY <1>2, <2>4 DEF Store, StoreSqlite, StoreMysql
    <3>3. type = "text" => Store(e, type, cell) = TextOf(Printed[cell.n])
      BY <1>2, <2>4 DEF Store, StoreSqlite, StoreMysql
    <3>4. type = "int" => cell \in ValuesIn(type)
      BY <3>1 DEF ValuesIn
    <3>5. type = "text" => TextOf(Printed[cell.n]) \in ValuesIn(type)
      BY <3>1 DEF ValuesIn
    <3>. QED  BY <2>1, <2>2, <3>2, <3>3, <3>4, <3>5
  <2>5. CASE cell.is = "text" /\ type = "text"
    <3>1. cell \in ValuesIn(type)
      BY <2>5, CellForms DEF ValuesIn
    <3>2. Store(e, type, cell) = cell
      BY <1>2, <2>5 DEF Store, StoreSqlite, StoreMysql
    <3>. QED  BY <2>2, <3>1, <3>2
  <2>6. CASE cell.is = "text" /\ type = "int" /\ e = "mysql"
    <3>1. /\ cell.t \in DOMAIN Rounded
          /\ Store(e, type, cell) = Integer(Rounded[cell.t])
      BY <2>6 DEF Store, StoreMysql
    <3>2. Integer(Rounded[cell.t]) \in ValuesIn(type)
      BY <2>6, <3>1, CellsAssumption DEF ValuesIn
    <3>. QED  BY <2>2, <3>1, <3>2
  <2>7. CASE cell.is = "text" /\ type = "int" /\ e = "sqlite"
    <3>. DEFINE v == StoreSqlite("int", cell)
    <3>1. Store(e, type, cell) = v
      BY <2>7 DEF Store
    <3>2. cell = TextOf(cell.t) /\ cell.t \in Text
      BY <2>7, CellForms
    <3>3. \/ v \in {Integer(n) : n \in Number}
          \/ v \in {TextOf(u) : u \in Text} /\ StoreSqlite("int", v) = v
      BY <3>2, SqliteInteger
    <3>. HIDE DEF v
    <3>4. v \in {Integer(n) : n \in Number} => v \in ValuesIn(type)
      BY <2>7 DEF ValuesIn
    <3>5. v \in {TextOf(u) : u \in Text} => v.is = "text" /\ v \in Stored
      BY DEF TextOf, Stored, Cell
    <3>. QED  BY <2>2, <2>7, <3>1, <3>3, <3>4, <3>5 DEF HasType
  <2>. QED  BY <1>2, <2>1, <2>3, <2>4, <2>5, <2>6, <2>7, CellForms
<1>. QED  BY <1>1, <1>2 DEF Engine

\* A row with one value replaced.
LEMMA RowSet ==
  ASSUME NEW e, NEW r \in RelationOf(e), r.row # NoRow, NEW c \in ToSet(Columns),
         NEW v \in Stored, HasType(e, r.type[c], v)
  PROVE  /\ [r EXCEPT !.row[c] = v] \in RelationOf(e)
         /\ [r EXCEPT !.row[c] = v].row[c] = v
<1>. DEFINE row == [r.row EXCEPT ![c] = v]
            s   == [r EXCEPT !.row[c] = v]
<1>1. r \in Relation /\ r.row \in Row
  BY DEF RelationOf, Relation
<1>2. row \in Row /\ row[c] = v /\ \A d \in ToSet(Columns) \ {c} : row[d] = r.row[d]
  BY <1>1 DEF Row
<1>3. s = [r EXCEPT !.row = row]
  OBVIOUS
<1>4. s \in Relation /\ s.row = row /\ s.type = r.type
  <2>. HIDE DEF row, s
  <2>. QED  BY <1>1, <1>2, <1>3 DEF Relation
<1>. HIDE DEF row, s
<1>5. \A d \in ToSet(Columns) : s.type[d] \in ColumnType(e) /\ HasType(e, s.type[d], s.row[d])
  <2>1. \A d \in ToSet(Columns) : r.type[d] \in ColumnType(e) /\ HasType(e, r.type[d], r.row[d])
    BY DEF RelationOf
  <2>. QED  BY <1>2, <1>4, <2>1
<1>. QED  BY <1>2, <1>4, <1>5 DEF RelationOf, s

\* The Table an Apply writes, before and after.
LEMMA ApplyWrites ==
  ASSUME RelationsInv, Apply
  PROVE  LET t == Quoted(engine, staged.table)
             c == ColumnOf(staged.column)
             v == NewValue(relations[t])
         IN  /\ t \in DOMAIN relations /\ relations[t] \in Relation /\ c \in ToSet(Columns)
             /\ relations[t].type[c] \in ColumnType(engine)
             /\ v = Store(engine, relations[t].type[c], CellFromInput(staged.text))
             /\ v \in Stored /\ v # Refused
             /\ relations' = [relations EXCEPT ![t] = [relations[t] EXCEPT !.row[c] = v]]
             /\ relations'[t] \in RelationOf(engine) /\ relations'[t].row[c] = v
<1>. DEFINE t == Quoted(engine, staged.table)
            c == ColumnOf(staged.column)
            v == NewValue(relations[t])
            r == relations[t]
<1>1. /\ t \in DOMAIN relations /\ Succeeds(r) /\ staged # NoChange
      /\ relations' = [relations EXCEPT ![t].row[c] = v]
  BY DEF Apply
<1>2. /\ r \in RelationOf(engine) /\ r.row # NoRow /\ c \in ToSet(Columns) /\ v # Refused
      /\ r \in Relation /\ r.type[c] \in ColumnType(engine)
  <2>1. r \in RelationOf(engine) \cup {Absent} /\ staged.column \in DOMAIN staged.last_seen
    BY <1>1 DEF RelationsInv, IsDatabase
  <2>2. /\ r \in RelationOf(engine) /\ r.row # NoRow /\ c \in ToSet(Columns) /\ v # Refused
    BY <1>1, <2>1 DEF Succeeds, RowMatches, IsTable, Absent
  <2>. QED  BY <2>2 DEF RelationOf, Relation
<1>3. v = Store(engine, r.type[c], CellFromInput(staged.text))
  BY <1>1 DEF NewValue, RelationsInv
<1>4. v \in Stored /\ HasType(engine, r.type[c], v)
  <2>1. engine \in Engine /\ CellFromInput(staged.text) \in Cell
    BY <1>1, InputIsCell, BrowsingAssumption DEF RelationsInv
  <2>. HIDE DEF v, c, r
  <2>. QED  BY <1>2, <1>3, <2>1, StoreHasType
<1>5. relations' = [relations EXCEPT ![t] = [r EXCEPT !.row[c] = v]]
  BY <1>1
<1>6. [r EXCEPT !.row[c] = v] \in RelationOf(engine) /\ [r EXCEPT !.row[c] = v].row[c] = v
  <2>. HIDE DEF v, c, r
  <2>. QED  BY <1>2, <1>4, RowSet
<1>7. relations'[t] \in RelationOf(engine) /\ relations'[t].row[c] = v
  <2>. HIDE DEF v, c, t
  <2>. QED  BY <1>1, <1>5, <1>6
<1>. QED  BY <1>1, <1>2, <1>3, <1>4, <1>5, <1>7

\* A step that leaves one relation typed leaves them all.
LEMMA OneRelation ==
  ASSUME RelationsInv, NEW t, NEW r \in RelationOf(engine) \cup {Absent},
         relations' = [relations EXCEPT ![t] = r],
         engine' = engine, staged' \in {staged, NoChange}
  PROVE  RelationsInv'
BY DEF RelationsInv, IsDatabase

LEMMA NextRelationsInv == RelationsInv /\ [Next]_vars => RelationsInv'
<1>1. SUFFICES ASSUME RelationsInv, [Next]_vars  PROVE RelationsInv'
  OBVIOUS
<1>2. CASE Apply
  <2>. DEFINE t == Quoted(engine, staged.table)
              r == relations'[t]
  <2>1. /\ t \in DOMAIN relations /\ r \in RelationOf(engine)
        /\ relations' = [relations EXCEPT ![t] = r]
    BY <1>1, <1>2, ApplyWrites
  <2>2. engine' = engine /\ staged' = NoChange
    BY <1>2 DEF Apply
  <2>. HIDE DEF t, r
  <2>. QED  BY <1>1, <2>1, <2>2, OneRelation
<1>3. CASE RunSchemaChange
  <2>. DEFINE t == QualifiedForCreate(engine, dialog.ns, dialog.name)
              r == IF dialog.op = "create" THEN NewTable ELSE Absent
  <2>1. r \in RelationOf(engine) \cup {Absent} /\ relations' = [relations EXCEPT ![t] = r]
    BY <1>1, <1>3, BrowsingAssumption DEF RunSchemaChange, RelationsInv
  <2>2. engine' = engine /\ staged' = staged
    BY <1>3 DEF RunSchemaChange
  <2>. HIDE DEF t, r
  <2>. QED  BY <1>1, <2>1, <2>2, OneRelation
<1>4. CASE OtherProgram
  <2>1. PICK t \in DOMAIN relations :
          OtherProgramWrites(t) \/ OtherProgramCreates(t) \/ OtherProgramDrops(t)
    BY <1>4 DEF OtherProgram
  <2>2. PICK r \in RelationOf(engine) \cup {Absent} : Others(t, r)
    <3>1. relations[t] \in RelationOf(engine) \cup {Absent}
      BY <1>1 DEF RelationsInv, IsDatabase
    <3>2. CASE OtherProgramWrites(t)
      <4>1. relations[t] \in RelationOf(engine) /\ relations[t].row # NoRow
        BY <3>1, <3>2 DEF OtherProgramWrites
      <4>2. \A v \in ValuesOf(relations[t].type["v"]) :
              [relations[t] EXCEPT !.row["v"] = v] \in RelationOf(engine)
        <5>1. "v" \in ToSet(Columns)
          BY DEF ToSet, Columns
        <5>2. \A v \in ValuesOf(relations[t].type["v"]) :
                v \in Stored /\ HasType(engine, relations[t].type["v"], v)
          BY BrowsingAssumption DEF ValuesOf, HasType
        <5>. QED  BY <4>1, <5>1, <5>2, RowSet
      <4>3. [relations[t] EXCEPT !.row = NoRow] \in RelationOf(engine)
        BY <4>1 DEF RelationOf, Relation
      <4>. QED  BY <3>2, <4>2, <4>3 DEF OtherProgramWrites
    <3>3. CASE OtherProgramCreates(t)
      BY <1>1, <3>3, BrowsingAssumption DEF OtherProgramCreates, RelationsInv
    <3>4. CASE OtherProgramDrops(t)
      BY <3>4 DEF OtherProgramDrops
    <3>. QED  BY <2>1, <3>2, <3>3, <3>4
  <2>3. relations' = [relations EXCEPT ![t] = r] /\ engine' = engine /\ staged' = staged
    BY <2>2 DEF Others, grid
  <2>. QED  BY <1>1, <2>3, OneRelation
<1>5. ASSUME UNCHANGED <<engine, relations>>, staged' \in {staged, NoChange}
      PROVE  RelationsInv'
  BY <1>1, <1>5 DEF RelationsInv
<1>6. ASSUME NEW i, NEW text \in Typed, StageUpdate(i, text)
      PROVE  RelationsInv'
  <2>1. text \in Text
    BY BrowsingAssumption
  <2>2. /\ staged'.text = text /\ staged'.new = CellFromInput(text)
        /\ staged'.column = result.columns[i] /\ staged'.last_seen = LastSeen
    BY <1>6 DEF StageUpdate
  <2>3. result.columns[i] \in DOMAIN LastSeen
    BY <1>6 DEF StageUpdate, LastSeen, ToSet
  <2>4. UNCHANGED <<engine, relations>>
    BY <1>6 DEF StageUpdate
  <2>. QED  BY <1>1, <2>1, <2>2, <2>3, <2>4 DEF RelationsInv
<1>7. ListAction => RunSchemaChange \/ (UNCHANGED <<engine, relations>> /\ staged' \in {staged, NoChange})
  BY DEF ListAction, Draw, SelectNamespace, ToggleSystemCatalogs, WriteTmp, RemoveOnWindows,
         Rename, SaveFails, Restart, OpenCreateTable, CancelDialog, OpenDropTable, list, grid, prefs
<1>8. GridAction => \/ Apply
                    \/ \E i, text : text \in Typed /\ StageUpdate(i, text)
                    \/ UNCHANGED <<engine, relations>> /\ staged' \in {staged, NoChange}
  BY DEF GridAction, OpenTable, OpenStructure, RunQuery, DiscardAll
<1>9. UNCHANGED vars => UNCHANGED <<engine, relations>> /\ staged' \in {staged, NoChange}
  BY DEF vars, grid
<1>. QED  BY <1>1, <1>2, <1>3, <1>4, <1>5, <1>6, <1>7, <1>8, <1>9 DEF Next

LEMMA RelationsInvariant == Spec => []RelationsInv
<1>1. Init => RelationsInv
  BY BrowsingAssumption DEF Init, RelationsInv
<1>. QED  BY <1>1, NextRelationsInv, PTL DEF Spec

\* Only an Apply takes a Staged Change and writes.
LEMMA AppliesByApply ==
  ASSUME [Next]_vars, Applies
  PROVE  Apply
<1>1. ListAction \/ OtherProgram \/ UNCHANGED vars => UNCHANGED relations \/ staged' = staged
  BY DEF ListAction, Draw, SelectNamespace, ToggleSystemCatalogs, WriteTmp, RemoveOnWindows,
         Rename, SaveFails, Restart, OpenCreateTable, CancelDialog, OpenDropTable,
         RunSchemaChange, OtherProgram, OtherProgramWrites, OtherProgramCreates,
         OtherProgramDrops, Others, list, grid, prefs, vars
<1>2. GridAction => Apply \/ UNCHANGED relations
  BY DEF GridAction, OpenTable, OpenStructure, RunQuery, StageUpdate, DiscardAll
<1>. QED  BY <1>1, <1>2 DEF Next, Applies

-----------------------------------------------------------------------------
(* The Namespace that is browsed, and the Table a Schema Change is for.    *)

\* The default Namespace of some Namespaces of a Database is one of them.
LEMMA DefaultIsListed ==
  ASSUME NEW e \in Engine, NEW spaces \in SUBSET ToSet(Namespaces[e]), spaces # {}
  PROVE  DefaultNamespace(e, spaces) \in spaces
<1>. DEFINE order == Namespaces[e]
            at    == {i \in DOMAIN order : order[i] \in spaces}
<1>1. order \in Seq(STRING)
  BY QueriesAssumption
<1>2. Len(order) \in Nat /\ at \in SUBSET (0..Len(order))
  BY <1>1
<1>3. at # {}
  <2>1. PICK ns \in spaces : TRUE
    OBVIOUS
  <2>2. PICK i \in DOMAIN order : order[i] = ns
    BY <2>1 DEF ToSet
  <2>. QED  BY <2>1, <2>2
<1>4. Min(at) \in at
  <2>. HIDE DEF at
  <2>. QED  BY <1>2, <1>3, MinMax
<1>. QED  BY <1>3, <1>4 DEF DefaultNamespace, FirstNamespace

\* What a frame shows is of the Namespace it says; a form and a Structure carry the
\* Namespace that was browsed, where the Engine has more than one.
BrowseInv ==
  /\ work \in [own : Nat, other : Nat]
  /\ BrowsesAListedNamespace
  /\ drawn.drawn => \A t \in drawn.rows : Grouped(engine) => t.ns = drawn.selected
  /\ dialog # NoDialog => dialog.ns = DdlNamespace(dialog.browsed)
  /\ dialog # NoDialog => Grouped(engine) \/ dialog.browsed = Here[engine]
  /\ result.shown = "structure" => DdlNamespace(result.table.ns) = DdlNamespace(result.browsed)
  /\ result.shown = "structure" => Grouped(engine) \/ result.browsed = Here[engine]

\* A frame.
LEMMA DrawInv ==
  ASSUME RelationsInv, BrowseInv, Draw
  PROVE  BrowseInv'
<1>. DEFINE tables == Listed(engine, relations, preference)
            shown  == Selected(tables)
<1>1. engine \in Engine /\ engine' = engine /\ UNCHANGED <<work, dialog, result>>
  BY BrowsingAssumption DEF Draw, RelationsInv, grid
<1>2. drawn' = [drawn |-> TRUE, hidden |-> preference = "Hidden", spaces |-> Spaces(tables),
                selected |-> shown,
                rows |-> {t \in tables : Grouped(engine) => t.ns = shown}]
  BY DEF Draw
<1>3. ASSUME Grouped(engine), Spaces(tables) # {}
      PROVE  shown \in Spaces(tables)
  <2>1. tables # {}
    BY <1>3 DEF Spaces
  <2>2. Spaces(tables) \in SUBSET ToSet(Namespaces[engine])
    BY DEF Spaces, Listed, ListTables, RelationsInv, IsDatabase
  <2>. HIDE DEF tables
  <2>. QED  BY <1>1, <1>3, <2>1, <2>2, DefaultIsListed DEF Selected
<1>4. ASSUME Grouped(engine), Spaces(tables) # {}
      PROVE  /\ preference = "Hidden" => shown \notin SystemName
             /\ {t \in tables : Grouped(engine) => t.ns = shown} # {}
  <2>1. PICK t \in tables : t.ns = shown
    BY <1>3, <1>4 DEF Spaces
  <2>2. preference = "Hidden" => t.ns \notin SystemName
    BY <1>4, <2>1 DEF Listed, IsSystem
  <2>. HIDE DEF tables, shown
  <2>. QED  BY <2>1, <2>2
<1>. HIDE DEF tables, shown
<1>5. BrowsesAListedNamespace'
  BY <1>1, <1>2, <1>3, <1>4 DEF BrowsesAListedNamespace, Grouped
<1>6. (drawn.drawn => \A t \in drawn.rows : Grouped(engine) => t.ns = drawn.selected)'
  BY <1>1, <1>2 DEF Grouped
<1>. QED  BY <1>1, <1>5, <1>6 DEF BrowseInv, DdlNamespace, Grouped

\* A Schema Change is for the Table of its name in the Namespace that was browsed.
LEMMA WhereBrowsing ==
  ASSUME BrowseInv, dialog # NoDialog, ~(Grouped(engine) /\ dialog.browsed = "main")
  PROVE  QualifiedForCreate(engine, dialog.ns, dialog.name) = Table(dialog.browsed, dialog.name)
BY DEF BrowseInv, DdlNamespace, QualifiedForCreate

\* A step that keeps the window as it is, but for what is in front.
LEMMA SameWindow ==
  ASSUME BrowseInv, UNCHANGED <<engine, drawn, dialog>>, work' \in [own : Nat, other : Nat],
         result'.shown = "structure" => result' = result
  PROVE  BrowseInv'
BY DEF BrowseInv, BrowsesAListedNamespace, DdlNamespace, Grouped

\* What is in front after its grid was loaded again.
LEMMA ReloadedShows ==
  ASSUME NEW rs
  PROVE  Reloaded(rs).shown = "structure" => Reloaded(rs) = result
BY DEF Reloaded, Page

LEMMA NextBrowseInv == RelationsInv /\ BrowseInv /\ [Next]_vars => BrowseInv'
<1>1. SUFFICES ASSUME RelationsInv, BrowseInv, [Next]_vars  PROVE BrowseInv'
  OBVIOUS
<1>2. CASE Draw
  BY <1>1, <1>2, DrawInv
<1>3. CASE OpenCreateTable
  BY <1>1, <1>3 DEF OpenCreateTable, Browsed, Free, CanClick, grid, BrowseInv,
                    BrowsesAListedNamespace, DdlNamespace, Grouped
<1>4. CASE OpenDropTable
  BY <1>1, <1>4 DEF OpenDropTable, grid, BrowseInv, BrowsesAListedNamespace, DdlNamespace, Grouped
<1>5. CASE CancelDialog
  BY <1>1, <1>5 DEF CancelDialog, grid, BrowseInv, BrowsesAListedNamespace, DdlNamespace, Grouped
<1>6. CASE RunSchemaChange
  <2>1. /\ UNCHANGED <<engine, drawn>> /\ dialog' = NoDialog
        /\ work' = [work EXCEPT !.own = @ + 1]
        /\ result'.shown = "structure" => result' = result
    BY <1>6, ReloadedShows DEF RunSchemaChange
  <2>2. work' \in [own : Nat, other : Nat]
    BY <1>1, <2>1 DEF BrowseInv
  <2>. QED  BY <1>1, <2>1, <2>2 DEF BrowseInv, BrowsesAListedNamespace, DdlNamespace, Grouped
<1>7. CASE Restart
  BY <1>1, <1>7 DEF Restart, NotDrawn, NoResult, BrowseInv, BrowsesAListedNamespace
<1>8. CASE Apply
  <2>1. /\ UNCHANGED <<engine, drawn, dialog>> /\ work' = [work EXCEPT !.own = @ + 1]
        /\ result'.shown = "structure" => result' = result
    BY <1>8, ReloadedShows DEF Apply, list
  <2>2. work' \in [own : Nat, other : Nat]
    BY <1>1, <2>1 DEF BrowseInv
  <2>. QED  BY <1>1, <2>1, <2>2, SameWindow
<1>9. CASE OtherProgram
  <2>1. UNCHANGED <<engine, drawn, dialog, result>> /\ work' = [work EXCEPT !.other = @ + 1]
    BY <1>9 DEF OtherProgram, OtherProgramWrites, OtherProgramCreates, OtherProgramDrops,
                Others, list, grid
  <2>2. work' \in [own : Nat, other : Nat]
    BY <1>1, <2>1 DEF BrowseInv
  <2>. QED  BY <1>1, <2>1, <2>2, SameWindow
<1>10. ASSUME NEW t, OpenStructure(t)
       PROVE  BrowseInv'
  <2>1. /\ UNCHANGED <<engine, drawn, dialog, work>> /\ drawn.drawn /\ t \in drawn.rows
        /\ result' = [shown |-> "structure", table |-> t, browsed |-> Browsed]
    BY <1>10 DEF OpenStructure, CanClick, list
  <2>. QED  BY <1>1, <2>1 DEF Browsed, BrowseInv, BrowsesAListedNamespace, DdlNamespace, Grouped
<1>11. ASSUME UNCHANGED <<engine, drawn, dialog, work>>,
              result'.shown = "structure" => result' = result
       PROVE  BrowseInv'
  <2>1. work' \in [own : Nat, other : Nat]
    BY <1>1, <1>11 DEF BrowseInv
  <2>. QED  BY <1>1, <1>11, <2>1, SameWindow
<1>12. ListAction => \/ Draw \/ OpenCreateTable \/ OpenDropTable \/ CancelDialog
                     \/ RunSchemaChange \/ Restart \/ UNCHANGED <<engine, drawn, dialog, work, result>>
  BY DEF ListAction, SelectNamespace, ToggleSystemCatalogs, WriteTmp, RemoveOnWindows, Rename,
         SaveFails, list, grid
<1>13. GridAction => \/ Apply \/ \E t : OpenStructure(t)
                     \/ /\ UNCHANGED <<engine, drawn, dialog, work>>
                        /\ result'.shown = "structure" => result' = result
  BY DEF GridAction, OpenTable, RunQuery, StageUpdate, DiscardAll, list, Page
<1>14. UNCHANGED vars => UNCHANGED <<engine, drawn, dialog, work, result>>
  BY DEF vars, list, grid
<1>. QED
  BY <1>1, <1>2, <1>3, <1>4, <1>5, <1>6, <1>7, <1>8, <1>9, <1>10, <1>11, <1>12, <1>13, <1>14
     DEF Next

LEMMA BrowseInvariant == Spec => [](RelationsInv /\ BrowseInv)
<1>1. Init => BrowseInv
  BY DEF Init, BrowseInv, BrowsesAListedNamespace, NotDrawn, NoResult
<1>. QED  BY <1>1, NextBrowseInv, RelationsInvariant, PTL DEF Spec

\* The Namespace a frame browses is one it lists, with a Table in it, and no
\* System Catalog while those are hidden (session.rs, catalog.rs).
THEOREM BrowsesListed == Spec => []BrowsesAListedNamespace
<1>1. BrowseInv => BrowsesAListedNamespace
  BY DEF BrowseInv
<1>. QED  BY <1>1, BrowseInvariant, PTL

\* A Schema Change creates or drops the Table of its name where the user was
\* browsing when its form was opened, and no other (ADR 0030).
THEOREM SchemaChangesWhereBrowsing == Spec => SchemaChangeWhereBrowsing
<1>. DEFINE OnlyThere ==
       \/ Grouped(engine) /\ dialog.browsed = "main"
       \/ \A t \in DOMAIN relations :
            relations'[t] # relations[t] <=> t = Table(dialog.browsed, dialog.name)
<1>1. RelationsInv /\ BrowseInv /\ [Next]_vars
        => [(dialog # NoDialog /\ work'.own # work.own) => OnlyThere]_vars
  <2>1. SUFFICES ASSUME RelationsInv, BrowseInv, [Next]_vars,
                        dialog # NoDialog, work'.own # work.own,
                        ~(Grouped(engine) /\ dialog.browsed = "main")
                 PROVE  \A t \in DOMAIN relations :
                          relations'[t] # relations[t] <=> t = Table(dialog.browsed, dialog.name)
    OBVIOUS
  <2>2. RunSchemaChange
    <3>1. ListAction => RunSchemaChange \/ UNCHANGED work
      BY DEF ListAction, Draw, SelectNamespace, ToggleSystemCatalogs, WriteTmp, RemoveOnWindows,
             Rename, SaveFails, Restart, OpenCreateTable, CancelDialog, OpenDropTable
    <3>2. GridAction => dialog = NoDialog \/ UNCHANGED work
      BY DEF GridAction, OpenTable, OpenStructure, RunQuery, StageUpdate, DiscardAll, Apply, Free
    <3>3. OtherProgram => work'.own = work.own
      BY <2>1 DEF OtherProgram, OtherProgramWrites, OtherProgramCreates, OtherProgramDrops,
                  Others, BrowseInv
    <3>. QED  BY <2>1, <3>1, <3>2, <3>3 DEF Next, vars
  <2>. DEFINE there == Table(dialog.browsed, dialog.name)
              new   == IF dialog.op = "create" THEN NewTable ELSE Absent
  <2>3. /\ there \in DOMAIN relations /\ relations' = [relations EXCEPT ![there] = new]
        /\ IF dialog.op = "create" THEN relations[there] = Absent ELSE IsTable(relations[there])
    BY <2>1, <2>2, WhereBrowsing DEF RunSchemaChange
  <2>4. new # relations[there]
    <3>1. NewTable.kind # "absent" /\ Absent.kind = "absent"
      BY <2>1, BrowsingAssumption DEF RelationsInv, RelationOf, Relation, Absent
    <3>. QED  BY <2>3, <3>1 DEF IsTable
  <2>. HIDE DEF there, new
  <2>. QED  BY <2>3, <2>4 DEF there
<1>. QED  BY <1>1, BrowseInvariant, PTL DEF Spec, SchemaChangeWhereBrowsing

-----------------------------------------------------------------------------
(* Sequences put one after the other.                                      *)

\* all[i] is the first i sequences as one.
Flattens(all, seqs, n) ==
  all = [i \in 1..n |-> IF i = 1 THEN seqs[i] ELSE all[i - 1] \o seqs[i]]

\* FlattenSeq takes one sequence at a time.
LEMMA FlattenStepByStep ==
  ASSUME NEW S, NEW seqs \in Seq(Seq(S)), Len(seqs) # 0
  PROVE  \E all : Flattens(all, seqs, Len(seqs)) /\ FlattenSeq(seqs) = all[Len(seqs)]
<1>. DEFINE n == Len(seqs)
            Missed == {k \in 0..n : ~ \E f : Flattens(f, seqs, k)}
<1>0. n \in Nat
  OBVIOUS
<1>1. Missed = {}
  <2>1. SUFFICES ASSUME Missed # {} PROVE FALSE
    OBVIOUS
  <2>2. PICK k \in Missed : \A j \in Missed : k <= j
    <3>1. Missed \in SUBSET (0..n)
      OBVIOUS
    <3>. HIDE DEF Missed, n
    <3>. QED  BY <1>0, <2>1, <3>1, LeastMember
  <2>3. CASE k = 0
    <3>1. Flattens([i \in 1..0 |-> seqs], seqs, 0)
      BY DEF Flattens
    <3>. QED  BY <2>2, <2>3, <3>1
  <2>4. CASE k # 0
    <3>1. k \in 1..n /\ k - 1 \in 0..n
      BY <2>2, <2>4
    <3>2. PICK g : Flattens(g, seqs, k - 1)
      <4>1. k - 1 \notin Missed
        <5>. HIDE DEF Missed
        <5>. QED  BY <2>2, <3>1
      <4>. QED  BY <3>1, <4>1
    <3>. DEFINE f == [i \in 1..k |-> IF i = k THEN IF k = 1 THEN seqs[1] ELSE g[k - 1] \o seqs[k]
                                              ELSE g[i]]
                h == [i \in 1..k |-> IF i = 1 THEN seqs[i] ELSE f[i - 1] \o seqs[i]]
    <3>3. ASSUME NEW i \in 1..k  PROVE f[i] = h[i]
      <4>1. CASE i = k
        BY <3>1, <4>1
      <4>2. CASE i # k
        <5>1. i \in 1..(k - 1) /\ (i = 1 \/ (i - 1 \in 1..k /\ i - 1 # k))
          BY <3>1, <4>2
        <5>2. g[i] = IF i = 1 THEN seqs[i] ELSE g[i - 1] \o seqs[i]
          BY <3>2, <5>1 DEF Flattens
        <5>. QED  BY <4>2, <5>1, <5>2
      <4>. QED  BY <4>1, <4>2
    <3>4. f = [i \in 1..k |-> f[i]] /\ h = [i \in 1..k |-> h[i]]
      OBVIOUS
    <3>5. f = h
      <4>. HIDE DEF f, h
      <4>. QED  BY <3>3, <3>4
    <3>6. Flattens(f, seqs, k)
      BY <3>5 DEF Flattens
    <3>. QED  BY <2>2, <3>6
  <2>. QED  BY <2>3, <2>4
<1>2. \E f : Flattens(f, seqs, n)
  BY <1>0, <1>1
<1>3. FlattenSeq(seqs) = (CHOOSE f : Flattens(f, seqs, n))[n]
  BY DEF FlattenSeq, Flattens
<1>. HIDE DEF n
<1>. QED  BY <1>2, <1>3 DEF n

\* Put together, they are a sequence of the same elements.
LEMMA FlattenType ==
  ASSUME NEW S, NEW seqs \in Seq(Seq(S))
  PROVE  FlattenSeq(seqs) \in Seq(S)
<1>. DEFINE n == Len(seqs)
<1>1. CASE n = 0
  <2>1. FlattenSeq(seqs) = seqs
    BY <1>1 DEF FlattenSeq
  <2>2. seqs = <<>>
    BY <1>1
  <2>3. <<>> \in Seq(S)
    OBVIOUS
  <2>. QED  BY <2>1, <2>2, <2>3, Zenon
<1>2. CASE n # 0
  <2>0. n \in Nat
    OBVIOUS
  <2>1. PICK all : Flattens(all, seqs, n) /\ FlattenSeq(seqs) = all[n]
    BY <1>2, FlattenStepByStep
  <2>. DEFINE Missed == {i \in 1..n : all[i] \notin Seq(S)}
  <2>2. SUFFICES ASSUME Missed # {} PROVE FALSE
    BY <1>2, <2>0, <2>1
  <2>3. PICK i \in Missed : \A j \in Missed : i <= j
    <3>1. Missed \in SUBSET (0..n)
      OBVIOUS
    <3>. HIDE DEF Missed, n
    <3>. QED  BY <2>0, <2>2, <3>1, LeastMember
  <2>4. i \in 1..n /\ seqs[i] \in Seq(S) /\ all[i] \notin Seq(S)
    OBVIOUS
  <2>5. i # 1 => i - 1 \in 1..n /\ all[i - 1] \in Seq(S)
    <3>1. i # 1 => i - 1 \in 1..n /\ i - 1 \notin Missed
      <4>. HIDE DEF Missed
      <4>. QED  BY <2>3, <2>4
    <3>. QED  BY <3>1
  <2>6. all[i] = IF i = 1 THEN seqs[i] ELSE all[i - 1] \o seqs[i]
    BY <2>1, <2>4 DEF Flattens
  <2>. HIDE DEF n, Missed
  <2>. QED  BY <2>4, <2>5, <2>6
<1>. QED  BY <1>1, <1>2

\* Of sequences that are pairwise as long, the whole is as long.
LEMMA FlattenLength ==
  ASSUME NEW S, NEW s \in Seq(Seq(S)), NEW T, NEW t \in Seq(Seq(T)), Len(s) = Len(t),
         \A i \in 1..Len(s) : Len(s[i]) = Len(t[i])
  PROVE  Len(FlattenSeq(s)) = Len(FlattenSeq(t))
<1>. DEFINE n == Len(s)
<1>0. n \in Nat
  OBVIOUS
<1>1. CASE n = 0
  BY <1>1 DEF FlattenSeq
<1>2. CASE n # 0
  <2>1. PICK f : Flattens(f, s, n) /\ FlattenSeq(s) = f[n]
    BY <1>2, FlattenStepByStep
  <2>2. PICK g : Flattens(g, t, n) /\ FlattenSeq(t) = g[n]
    BY <1>2, FlattenStepByStep
  <2>. DEFINE Same(i) == f[i] \in Seq(S) /\ g[i] \in Seq(T) /\ Len(f[i]) = Len(g[i])
              Missed == {i \in 1..n : ~Same(i)}
  <2>3. SUFFICES ASSUME Missed # {} PROVE FALSE
    <3>1. n \in 1..n
      BY <1>0, <1>2
    <3>2. Missed = {} => Same(n)
      <4>. HIDE DEF Same
      <4>. QED  BY <3>1
    <3>. QED  BY <2>1, <2>2, <3>2
  <2>4. PICK i \in Missed : \A j \in Missed : i <= j
    <3>1. Missed \in SUBSET (0..n)
      OBVIOUS
    <3>. HIDE DEF Missed, n
    <3>. QED  BY <1>0, <2>3, <3>1, LeastMember
  <2>5. i \in 1..n /\ ~Same(i)
    <3>. HIDE DEF Same
    <3>. QED  OBVIOUS
  <2>6. s[i] \in Seq(S) /\ t[i] \in Seq(T) /\ Len(s[i]) = Len(t[i])
    BY <2>5
  <2>7. i # 1 => i - 1 \in 1..n /\ Same(i - 1)
    <3>1. i # 1 => i - 1 \in 1..n /\ i - 1 \notin Missed
      <4>. HIDE DEF Missed
      <4>. QED  BY <2>4, <2>5
    <3>. HIDE DEF Same
    <3>. QED  BY <3>1
  <2>8. /\ f[i] = IF i = 1 THEN s[i] ELSE f[i - 1] \o s[i]
        /\ g[i] = IF i = 1 THEN t[i] ELSE g[i - 1] \o t[i]
    BY <2>1, <2>2, <2>5 DEF Flattens
  <2>. HIDE DEF n, Missed
  <2>9. CASE i = 1
    BY <2>5, <2>6, <2>8, <2>9
  <2>10. CASE i # 1
    <3>. DEFINE a == f[i - 1]
                b == g[i - 1]
                x == s[i]
                y == t[i]
    <3>1. a \in Seq(S) /\ b \in Seq(T) /\ x \in Seq(S) /\ y \in Seq(T)
      BY <2>6, <2>7, <2>10
    <3>2. Len(a) = Len(b) /\ Len(x) = Len(y)
      BY <2>6, <2>7, <2>10
    <3>3. f[i] = a \o x /\ g[i] = b \o y
      BY <2>8, <2>10
    <3>. HIDE DEF a, b, x, y
    <3>4. /\ a \o x \in Seq(S) /\ Len(a \o x) = Len(a) + Len(x)
          /\ b \o y \in Seq(T) /\ Len(b \o y) = Len(b) + Len(y)
      BY <3>1
    <3>. QED  BY <2>5, <3>2, <3>3, <3>4
  <2>. QED  BY <2>9, <2>10
<1>. QED  BY <1>1, <1>2

-----------------------------------------------------------------------------
(* A page: its columns, its cells, and the Table it is staged on.          *)

ColumnName == Name \cup {"max"}
Source     == ToSet(Columns) \cup {None}

\* An item has a source for each of its columns.
LEMMA ItemTypes ==
  ASSUME NEW e, NEW item \in Item
  PROVE  /\ ItemColumns(e, item) \in Seq(ColumnName)
         /\ ItemSources(item) \in Seq(Source)
         /\ Len(ItemColumns(e, item)) = Len(ItemSources(item))
<1>1. ToSet(Columns) = {"id", "v"} /\ ToSet(Columns) \subseteq Name
  BY QueriesAssumption DEF ToSet, Columns
<1>2. CASE item.expr = "star"
  <2>1. ItemColumns(e, item) = Columns /\ ItemSources(item) = Columns
    BY <1>2 DEF ItemColumns, ItemSources
  <2>2. Columns \in Seq(ColumnName) /\ Columns \in Seq(Source)
    BY <1>1 DEF Columns, ColumnName, Source
  <2>. QED  BY <2>1, <2>2
<1>3. ASSUME item.expr # "star"
      PROVE  \E c \in ColumnName, s \in Source : ItemColumns(e, item) = <<c>> /\ ItemSources(item) = <<s>>
  <2>1. CASE item.expr = "aggregate"
    BY <2>1 DEF ItemColumns, ItemSources, ColumnName, Source
  <2>2. CASE item.expr = "computed"
    <3>1. item.as \in ColumnName /\ None \in Source
      BY <2>2 DEF Item, ColumnName, Source
    <3>2. ItemColumns(e, item) = <<item.as>> /\ ItemSources(item) = <<None>>
      BY <2>2 DEF ItemColumns, ItemSources
    <3>. QED  BY <3>1, <3>2
  <2>3. CASE item.expr = "column"
    <3>. DEFINE c == IF e = "mysql" \/ item.as # item.col THEN item.as ELSE Fold[item.as]
    <3>1. item.as \in Name /\ Fold[item.col] \in Source
      BY <2>3 DEF Item, Source
    <3>2. c \in ColumnName
      BY <3>1, QueriesAssumption DEF ColumnName
    <3>3. ItemColumns(e, item) = <<c>> /\ ItemSources(item) = <<Fold[item.col]>>
      BY <2>3 DEF ItemColumns, ItemSources
    <3>. HIDE DEF c
    <3>. QED  BY <3>1, <3>2, <3>3
  <2>. QED  BY <1>3, <2>1, <2>2, <2>3 DEF Item
<1>4. ASSUME item.expr # "star"
      PROVE  /\ ItemColumns(e, item) \in Seq(ColumnName)
             /\ ItemSources(item) \in Seq(Source)
             /\ Len(ItemColumns(e, item)) = Len(ItemSources(item))
  <2>1. PICK c \in ColumnName, s \in Source :
               ItemColumns(e, item) = <<c>> /\ ItemSources(item) = <<s>>
    BY <1>3, <1>4
  <2>. QED  BY <2>1
<1>. QED  BY <1>2, <1>4

\* So has the Result of a Query.
LEMMA ResultTypes ==
  ASSUME NEW e, NEW sql \in Query
  PROVE  /\ ResultColumns(e, sql) \in Seq(ColumnName)
         /\ ResultSources(sql) \in Seq(Source)
         /\ Len(ResultColumns(e, sql)) = Len(ResultSources(sql))
<1>. DEFINE n == Len(sql.items)
            columns == [i \in DOMAIN sql.items |-> ItemColumns(e, sql.items[i])]
            sources == [i \in DOMAIN sql.items |-> ItemSources(sql.items[i])]
<1>1. n \in Nat /\ DOMAIN sql.items = 1..n /\ \A i \in 1..n : sql.items[i] \in Item
  BY DEF Query
<1>2. \A i \in 1..n : /\ columns[i] \in Seq(ColumnName) /\ sources[i] \in Seq(Source)
                      /\ Len(columns[i]) = Len(sources[i])
  <2>. HIDE DEF n
  <2>. QED  BY <1>1, ItemTypes
<1>3. columns \in [1..n -> Seq(ColumnName)] /\ sources \in [1..n -> Seq(Source)]
  <2>1. columns = [i \in 1..n |-> columns[i]] /\ sources = [i \in 1..n |-> sources[i]]
    BY <1>1
  <2>. HIDE DEF n, columns, sources
  <2>. QED  BY <1>2, <2>1
<1>. HIDE DEF n, columns, sources
<1>4. columns \in Seq(Seq(ColumnName)) /\ sources \in Seq(Seq(Source))
      /\ Len(columns) = n /\ Len(sources) = n
  BY <1>1, <1>3
<1>5. Len(FlattenSeq(columns)) = Len(FlattenSeq(sources))
  BY <1>1, <1>2, <1>4, FlattenLength
<1>. QED  BY <1>4, <1>5, FlattenType DEF ResultColumns, ResultSources, columns, sources

\* The cells of a row.
LEMMA CellsTypes ==
  ASSUME NEW row \in Row, NEW sources \in Seq(Source)
  PROVE  LET cells == CellsOf(row, sources)
         IN  /\ DOMAIN cells = DOMAIN sources /\ ToSet(cells) \subseteq Cell
             /\ \A i \in DOMAIN sources :
                  sources[i] # None => cells[i] = Decode(row[sources[i]])
<1>1. \A stored \in Stored : Decode(stored) \in Cell
  BY StoredShown
<1>2. Integer(CHOOSE n \in Number : TRUE) \in Cell
  <2>1. (CHOOSE n \in Number : TRUE) \in Number
    BY CellsAssumption
  <2>. QED  BY <2>1 DEF Cell
<1>3. \A i \in DOMAIN sources : sources[i] # None => Decode(row[sources[i]]) \in Cell
  <2>1. \A i \in DOMAIN sources : sources[i] # None => sources[i] \in ToSet(Columns)
    BY DEF Source
  <2>. QED  BY <1>1, <2>1 DEF Row
<1>. QED  BY <1>2, <1>3 DEF CellsOf, ToSet

\* What a name in a Query means is a relation with that name.
LEMMA ReadIsNamed ==
  ASSUME NEW e, NEW rs, NEW ns, NEW name, Read(e, rs, ns, name) # NoTable
  PROVE  LET t == Read(e, rs, ns, name)
         IN  /\ t \in DOMAIN rs /\ rs[t] # Absent
             /\ t.ns = IF ns = None THEN Here[e] ELSE ns
             /\ t.name = IF e = "mysql" THEN name ELSE Fold[name]
<1>. DEFINE space == IF ns = None THEN Here[e] ELSE ns
            found == {t \in DOMAIN rs : /\ rs[t] # Absent /\ t.ns = space
                                        /\ t.name = (IF e = "mysql" THEN name ELSE Fold[name])}
<1>1. Read(e, rs, ns, name) = IF found = {} THEN NoTable ELSE CHOOSE t \in found : TRUE
  BY DEF Read
<1>2. Read(e, rs, ns, name) \in found
  <2>. HIDE DEF found
  <2>. QED  BY <1>1
<1>. QED  BY <1>2

\* What staging resolves is a Table of the Database.
LEMMA StagingIsKnown ==
  ASSUME NEW e \in Engine, NEW rs, IsDatabase(e, rs), NEW sql \in Query,
         ResultStaging(e, rs, sql) # NoTable
  PROVE  /\ ResultStaging(e, rs, sql) = ResolveTable(e, rs, sql)
         /\ Quoted(e, ResolveTable(e, rs, sql)) \in DOMAIN rs
BY DEF ResultStaging, IdentityColumnNames, IsTable, Absent

\* The Table a Query on Postgres is staged on.
LEMMA ResolvedGrouped ==
  ASSUME NEW e \in Engine, Grouped(e), NEW rs, IsDatabase(e, rs), NEW sql \in Query,
         ResolveTable(e, rs, sql) # NoTable
  PROVE  \E space : /\ ResolveTable(e, rs, sql) = Table(space, sql.name)
                    /\ \E t \in DOMAIN rs : t.ns = space
                    /\ sql.ns # None => space = sql.ns
                    /\ (\E t \in ListTables(e, rs) : t.name = sql.name /\ t.ns = "public"
                          /\ sql.ns \in {None, "public"}) => space = "public"
<1>. DEFINE found  == {t \in ListTables(e, rs) : t.name = sql.name /\ sql.ns \in {None, t.ns}}
            spaces == {t.ns : t \in found}
            space  == DefaultNamespace(e, spaces)
<1>1. found # {} /\ ResolveTable(e, rs, sql) = Table(space, sql.name)
  BY DEF ResolveTable
<1>2. found \subseteq DOMAIN rs /\ \A t \in DOMAIN rs : t.ns \in ToSet(Namespaces[e])
  BY DEF ListTables, IsDatabase
<1>3. spaces \in SUBSET ToSet(Namespaces[e]) /\ spaces # {}
  <2>1. PICK t \in found : TRUE
    BY <1>1
  <2>2. t.ns \in spaces
    OBVIOUS
  <2>. HIDE DEF found
  <2>. QED  BY <1>2, <2>2
<1>4. space \in spaces
  <2>. HIDE DEF spaces
  <2>. QED  BY <1>3, DefaultIsListed
<1>5. "public" \in spaces => space = "public"
  BY DEF DefaultNamespace
<1>6. PICK t \in found : t.ns = space
  <2>. HIDE DEF space
  <2>. QED  BY <1>4
<1>7. \A u \in ListTables(e, rs) : (u.name = sql.name /\ u.ns = "public"
                                      /\ sql.ns \in {None, "public"}) => "public" \in spaces
  OBVIOUS
<1>. HIDE DEF space, spaces
<1>. QED  BY <1>1, <1>2, <1>5, <1>6, <1>7

\* A Query that was read from a Table of this Database by its name is staged on it.
LEMMA StagedWhereRead ==
  ASSUME NEW e \in Engine, NEW rs, IsDatabase(e, rs), NEW sql \in Query, NEW from,
         from = Read(e, rs, sql.ns, sql.name), from # NoTable, IsTable(rs[from]),
         Grouped(e) \/ from.ns = Here[e], Grouped(e) => Fold[sql.name] = sql.name,
         ResultStaging(e, rs, sql) # NoTable
  PROVE  Quoted(e, ResultStaging(e, rs, sql)) = from
<1>1. /\ from \in DOMAIN rs /\ from = Table(from.ns, from.name)
      /\ from.ns = IF sql.ns = None THEN Here[e] ELSE sql.ns
      /\ from.name = IF e = "mysql" THEN sql.name ELSE Fold[sql.name]
  BY ReadIsNamed DEF IsDatabase, Table
<1>2. ResultStaging(e, rs, sql) = ResolveTable(e, rs, sql)
  BY StagingIsKnown
<1>3. CASE ~Grouped(e)
  <2>1. ResolveTable(e, rs, sql) = Table(Here[e], sql.name)
    BY <1>3 DEF ResolveTable
  <2>2. Quoted(e, Table(Here[e], sql.name)) = Table(Here[e], from.name)
    BY <1>1, <1>3 DEF Quoted, Table, Grouped, Engine
  <2>. QED  BY <1>1, <1>2, <1>3, <2>1, <2>2
<1>4. CASE Grouped(e)
  <2>1. e = "postgres" /\ Here[e] = "public"
    BY <1>4, QueriesAssumption DEF Grouped
  <2>2. from \in ListTables(e, rs)
    BY <1>1, <1>4 DEF ListTables
  <2>3. PICK space : /\ ResolveTable(e, rs, sql) = Table(space, sql.name)
                     /\ sql.ns # None => space = sql.ns
                     /\ (\E t \in ListTables(e, rs) : t.name = sql.name /\ t.ns = "public"
                           /\ sql.ns \in {None, "public"}) => space = "public"
    BY <1>2, <1>4, ResolvedGrouped
  <2>4. from.name = sql.name
    BY <1>1, <1>4, <2>1
  <2>5. space = from.ns
    BY <1>1, <2>1, <2>2, <2>3, <2>4
  <2>6. Quoted(e, Table(space, sql.name)) = Table(space, sql.name)
    BY <2>1 DEF Quoted, Table
  <2>. QED  BY <1>1, <1>2, <2>3, <2>4, <2>5, <2>6
<1>. QED  BY <1>3, <1>4

\* What staging resolves has a Namespace of the Database.
LEMMA StagingType ==
  ASSUME NEW e \in Engine, NEW rs, IsDatabase(e, rs), NEW sql \in Query
  PROVE  ResultStaging(e, rs, sql) \in {NoTable} \cup {Table(t.ns, n) : t \in DOMAIN rs, n \in Name}
<1>1. SUFFICES ASSUME ResultStaging(e, rs, sql) # NoTable
               PROVE  \E t \in DOMAIN rs : ResultStaging(e, rs, sql) = Table(t.ns, sql.name)
  BY DEF Query
<1>2. /\ ResultStaging(e, rs, sql) = ResolveTable(e, rs, sql)
      /\ Quoted(e, ResolveTable(e, rs, sql)) \in DOMAIN rs
  BY <1>1, StagingIsKnown
<1>3. CASE ~Grouped(e)
  <2>1. ResolveTable(e, rs, sql) = Table(Here[e], sql.name)
    BY <1>3 DEF ResolveTable
  <2>2. Quoted(e, Table(Here[e], sql.name)).ns = Here[e]
    BY DEF Quoted, Table
  <2>. QED  BY <1>2, <2>1, <2>2
<1>4. CASE Grouped(e)
  <2>1. PICK space : /\ ResolveTable(e, rs, sql) = Table(space, sql.name)
                     /\ \E t \in DOMAIN rs : t.ns = space
    BY <1>1, <1>2, <1>4, ResolvedGrouped
  <2>. QED  BY <1>2, <2>1
<1>. QED  BY <1>3, <1>4

\* A grid with rows, of a Database with these relations: its cells are those of the
\* row that was read, and it is staged on the Table that was read by its name.
IsGridOf(e, tables, r) ==
  /\ r.columns \in Seq(ColumnName)
  /\ r.cells = <<>> \/ DOMAIN r.cells = DOMAIN r.columns
  /\ ToSet(r.cells) \subseteq Cell
  /\ r.from \in tables /\ r.relation \in RelationOf(e)
  /\ r.cells # <<>> => r.relation.row \in Row
  /\ r.faithful => \A i \in DOMAIN r.columns :
       /\ r.columns[i] \in ToSet(Columns)
       /\ r.cells # <<>> => r.cells[i] = Decode(r.relation.row[r.columns[i]])
  /\ r.staging \in {NoTable} \cup {Table(t.ns, n) : t \in tables, n \in Name}
  /\ (r.staging # NoTable /\ ByItsNames(e, r)) => Quoted(e, r.staging) = r.from

\* What is in front: nothing, a Structure, an error, or such a grid, which can be
\* loaded again.
IsResultOf(e, tables, r) ==
  r.shown \notin {"nothing", "structure"} =>
    /\ r.shown \in {"rows", "error"} /\ r.sql \in Query /\ r.tab \in BOOLEAN
    /\ r.shown = "rows" => IsGridOf(e, tables, r)

\* The relation a page is read from.
FromOf(rs, sql, tab) ==
  IF tab THEN ReadQuoted(engine, rs, Table(sql.ns, sql.name))
         ELSE Read(engine, rs, sql.ns, sql.name)

LEMMA FromKnown ==
  ASSUME NEW rs, IsDatabase(engine, rs), NEW sql \in Query, NEW tab \in BOOLEAN,
         FromOf(rs, sql, tab) # NoTable
  PROVE  LET from == FromOf(rs, sql, tab)
         IN  /\ from \in DOMAIN rs /\ rs[from] \in RelationOf(engine)
             /\ from \in [ns: ToSet(Namespaces[engine]), name: Name]
<1>. DEFINE from == FromOf(rs, sql, tab)
<1>1. from \in DOMAIN rs /\ rs[from] # Absent
  <2>1. tab => from \in DOMAIN rs /\ rs[from] # Absent
    BY DEF FromOf, ReadQuoted
  <2>2. ~tab => from \in DOMAIN rs /\ rs[from] # Absent
    BY ReadIsNamed DEF FromOf
  <2>. QED  BY <2>1, <2>2
<1>. HIDE DEF from
<1>. QED  BY <1>1 DEF IsDatabase, from

\* A page of rows is such a grid, whatever Query or Table it is of.
LEMMA PageIsGrid ==
  ASSUME engine \in Engine, NEW rs, IsDatabase(engine, rs), NEW sql \in Query,
         NEW tab \in BOOLEAN, Page(rs, sql, tab).shown = "rows"
  PROVE  IsGridOf(engine, DOMAIN rs, Page(rs, sql, tab))
<1>. DEFINE from    == FromOf(rs, sql, tab)
            sources == ResultSources(sql)
            cells   == IF rs[from].row = NoRow THEN <<>> ELSE CellsOf(rs[from].row, sources)
            staging == IF tab THEN from ELSE ResultStaging(engine, rs, sql)
            r       == Page(rs, sql, tab)
<1>1. /\ from # NoTable
      /\ r = [shown |-> "rows", sql |-> sql, tab |-> tab, columns |-> ResultColumns(engine, sql),
              cells |-> cells, staging |-> staging, from |-> from, relation |-> rs[from],
              faithful |-> NotRenamed(engine, sql)]
  BY DEF Page, FromOf
<1>2. /\ r.sql = sql /\ r.tab = tab /\ r.columns = ResultColumns(engine, sql) /\ r.cells = cells
      /\ r.staging = staging /\ r.from = from /\ r.relation = rs[from]
      /\ r.faithful = NotRenamed(engine, sql)
  BY <1>1
<1>3. /\ from \in DOMAIN rs /\ rs[from] \in RelationOf(engine)
      /\ from \in [ns: ToSet(Namespaces[engine]), name: Name]
  BY <1>1, FromKnown
<1>4. /\ r.columns \in Seq(ColumnName) /\ sources \in Seq(Source)
      /\ DOMAIN r.columns = DOMAIN sources
  <2>1. /\ ResultColumns(engine, sql) \in Seq(ColumnName) /\ sources \in Seq(Source)
        /\ Len(ResultColumns(engine, sql)) = Len(sources)
    BY ResultTypes
  <2>. HIDE DEF sources, r
  <2>. QED  BY <1>2, <2>1
<1>5. cells # <<>> => /\ rs[from].row \in Row
                      /\ DOMAIN cells = DOMAIN sources /\ ToSet(cells) \subseteq Cell
                      /\ \A i \in DOMAIN sources :
                           sources[i] # None => cells[i] = Decode(rs[from].row[sources[i]])
  <2>1. cells # <<>> => rs[from].row \in Row /\ cells = CellsOf(rs[from].row, sources)
    BY <1>3 DEF RelationOf, Relation
  <2>. HIDE DEF cells, sources, from
  <2>. QED  BY <1>4, <2>1, CellsTypes
<1>6. r.faithful => r.columns = sources /\ \A i \in DOMAIN r.columns : sources[i] \in ToSet(Columns)
  <2>1. r.faithful => r.columns = sources
    BY <1>2 DEF NotRenamed
  <2>2. \A i \in DOMAIN sources : sources[i] \in ToSet(Columns) \cup {None}
    BY <1>4 DEF Source
  <2>3. \A i \in DOMAIN r.columns : r.columns[i] \in Name \cup {"max"}
    BY <1>4 DEF ColumnName
  <2>4. None \notin Name \cup {"max"}
    BY QueriesAssumption DEF None
  <2>. HIDE DEF r, sources
  <2>. QED  BY <2>1, <2>2, <2>3, <2>4
<1>7. staging \in {NoTable} \cup {Table(t.ns, n) : t \in DOMAIN rs, n \in Name}
  <2>1. from = Table(from.ns, from.name) /\ from.name \in Name
    BY <1>3 DEF Table
  <2>2. from \in {Table(t.ns, n) : t \in DOMAIN rs, n \in Name}
    <3>. HIDE DEF from
    <3>. QED  BY <1>3, <2>1
  <2>3. ResultStaging(engine, rs, sql) \in
          {NoTable} \cup {Table(t.ns, n) : t \in DOMAIN rs, n \in Name}
    BY StagingType
  <2>. HIDE DEF from
  <2>. QED  BY <2>2, <2>3
<1>8. (r.staging # NoTable /\ ByItsNames(engine, r)) => Quoted(engine, r.staging) = r.from
  <2>1. CASE tab
    <3>1. from = Quoted(engine, Table(sql.ns, sql.name))
      BY <1>1, <2>1 DEF FromOf, ReadQuoted
    <3>2. Quoted(engine, Quoted(engine, Table(sql.ns, sql.name))) = Quoted(engine, Table(sql.ns, sql.name))
      BY QueriesAssumption DEF Quoted, Table, Query
    <3>. QED  BY <1>2, <2>1, <3>1, <3>2
  <2>2. CASE ~tab
    <3>1. SUFFICES ASSUME ResultStaging(engine, rs, sql) # NoTable, IsTable(rs[from]),
                          Grouped(engine) \/ from.ns = Here[engine],
                          Grouped(engine) => Fold[sql.name] = sql.name
                   PROVE  Quoted(engine, ResultStaging(engine, rs, sql)) = from
      <4>. HIDE DEF from, r
      <4>. QED  BY <1>2, <2>2 DEF ByItsNames
    <3>2. from = Read(engine, rs, sql.ns, sql.name)
      BY <2>2 DEF FromOf
    <3>. HIDE DEF from
    <3>. QED  BY <1>1, <3>1, <3>2, StagedWhereRead
  <2>. QED  BY <2>1, <2>2
<1>9. ToSet(<<>>) \subseteq Cell
  BY DEF ToSet
<1>. HIDE DEF from, sources, cells, staging, r
<1>10. /\ r.cells = <<>> \/ DOMAIN r.cells = DOMAIN r.columns
       /\ ToSet(r.cells) \subseteq Cell /\ (r.cells # <<>> => r.relation.row \in Row)
  BY <1>2, <1>4, <1>5, <1>9
<1>11. r.faithful => \A i \in DOMAIN r.columns :
         /\ r.columns[i] \in ToSet(Columns)
         /\ r.cells # <<>> => r.cells[i] = Decode(r.relation.row[r.columns[i]])
  <2>1. \A c \in ToSet(Columns) : c # None
    BY QueriesAssumption
  <2>. QED  BY <1>2, <1>4, <1>5, <1>6, <2>1
<1>12. IsGridOf(engine, DOMAIN rs, r)
  BY <1>2, <1>3, <1>4, <1>7, <1>8, <1>10, <1>11 DEF IsGridOf
<1>. QED  BY <1>12 DEF r

LEMMA PageIsResult ==
  ASSUME engine \in Engine, NEW rs, IsDatabase(engine, rs), NEW sql \in Query, NEW tab \in BOOLEAN
  PROVE  IsResultOf(engine, DOMAIN rs, Page(rs, sql, tab))
<1>. DEFINE r == Page(rs, sql, tab)
<1>1. r.shown \in {"rows", "error"} /\ r.sql = sql /\ r.tab = tab
  BY DEF Page
<1>2. r.shown = "rows" => IsGridOf(engine, DOMAIN rs, r)
  BY PageIsGrid
<1>. HIDE DEF r
<1>. QED  BY <1>1, <1>2 DEF IsResultOf, r

-----------------------------------------------------------------------------
(* What is staged is the row that was read.                                *)

\* A Staged Change has the grid it was staged on, the Table of that grid, and of each
\* column a cell of that name.
IsStagedOn(e, tables, s) ==
  /\ IsGridOf(e, tables, s.result)
  /\ s.table = s.result.staging /\ s.table # NoTable
  /\ s.result.cells # <<>>
  /\ DOMAIN s.last_seen = ToSet(s.result.columns)
  /\ \A c \in ToSet(s.result.columns) : \E i \in DOMAIN s.result.columns :
       s.result.columns[i] = c /\ s.last_seen[c] = s.result.cells[i]

LEMMA StageUpdateInv ==
  ASSUME NEW tables, IsResultOf(engine, tables, result), NEW i, NEW text, StageUpdate(i, text)
  PROVE  IsStagedOn(engine, tables, staged')
<1>1. /\ result.shown = "rows" /\ IsGridOf(engine, tables, result)
      /\ result.staging # NoTable /\ result.cells # <<>>
  BY DEF StageUpdate, IsResultOf
<1>2. /\ staged'.table = result.staging /\ staged'.last_seen = LastSeen
      /\ staged'.result = result
  BY DEF StageUpdate
<1>3. ASSUME NEW c \in ToSet(result.columns)
      PROVE  \E j \in DOMAIN result.columns : result.columns[j] = c /\ LastSeen[c] = result.cells[j]
  <2>. DEFINE at == {j \in DOMAIN result.columns : result.columns[j] = c}
              n == Len(result.columns)
  <2>1. result.columns \in Seq(ColumnName)
    BY <1>1 DEF IsGridOf
  <2>2. n \in Nat /\ at \in SUBSET (0..n)
    BY <2>1
  <2>3. at # {}
    <3>1. PICK j \in DOMAIN result.columns : result.columns[j] = c
      BY DEF ToSet
    <3>. QED  BY <3>1
  <2>4. Min(at) \in at
    <3>. HIDE DEF at, n
    <3>. QED  BY <2>2, <2>3, MinMax
  <2>5. LastSeen[c] = result.cells[Min(at)]
    BY DEF LastSeen, CellNamed
  <2>. QED  BY <2>4, <2>5
<1>4. DOMAIN LastSeen = ToSet(result.columns)
  BY DEF LastSeen
<1>. QED  BY <1>1, <1>2, <1>3, <1>4 DEF IsStagedOn

\* The Database keeps its names; a frame shows some of its Tables, the grid in front
\* and the one that is staged are of it.
GridsInv ==
  /\ saving \in {"idle", "write", "remove", "rename"} /\ save_failed \in BOOLEAN
  /\ drawn.drawn => drawn.rows \subseteq DOMAIN relations
  /\ IsResultOf(engine, DOMAIN relations, result)
  /\ staged # NoChange => IsStagedOn(engine, DOMAIN relations, staged)

\* No step changes the Engine or the names.
LEMMA NamesStay ==
  ASSUME RelationsInv, [Next]_vars
  PROVE  engine' = engine /\ DOMAIN relations' = DOMAIN relations
<1>1. OtherProgram => engine' = engine /\ DOMAIN relations' = DOMAIN relations
  BY DEF OtherProgram, OtherProgramWrites, OtherProgramCreates, OtherProgramDrops, Others
<1>2. ListAction => engine' = engine /\ DOMAIN relations' = DOMAIN relations
  BY DEF ListAction, Draw, SelectNamespace, ToggleSystemCatalogs, WriteTmp, RemoveOnWindows,
         Rename, SaveFails, Restart, OpenCreateTable, CancelDialog, RunSchemaChange, OpenDropTable
<1>3. GridAction => engine' = engine /\ DOMAIN relations' = DOMAIN relations
  <2>1. Apply => engine' = engine /\ DOMAIN relations' = DOMAIN relations
    BY DEF Apply
  <2>. QED  BY <2>1 DEF GridAction, OpenTable, OpenStructure, RunQuery, StageUpdate, DiscardAll
<1>. QED  BY <1>1, <1>2, <1>3 DEF Next, vars

\* The grid in front, after a step.
LEMMA NextResult ==
  ASSUME RelationsInv, RelationsInv', GridsInv, [Next]_vars
  PROVE  IsResultOf(engine, DOMAIN relations, result')
<1>1. engine \in Engine /\ DOMAIN relations' = DOMAIN relations /\ engine' = engine
  BY NamesStay, BrowsingAssumption DEF RelationsInv
<1>2. IsDatabase(engine, relations) /\ IsDatabase(engine, relations')
  BY <1>1 DEF RelationsInv
<1>3. result' = Reloaded(relations') => IsResultOf(engine, DOMAIN relations, result')
  <2>1. CASE result.shown \in {"nothing", "structure"}
    BY <2>1 DEF Reloaded, IsResultOf
  <2>2. CASE result.shown \notin {"nothing", "structure"}
    <3>1. result.sql \in Query /\ result.tab \in BOOLEAN
      BY <2>2 DEF GridsInv, IsResultOf
    <3>2. IsResultOf(engine, DOMAIN relations', Page(relations', result.sql, result.tab))
      BY <1>1, <1>2, <3>1, PageIsResult
    <3>. QED  BY <1>1, <2>2, <3>2 DEF Reloaded
  <2>. QED  BY <2>1, <2>2
<1>4. ASSUME NEW t \in DOMAIN relations, OpenTable(t)
      PROVE  IsResultOf(engine, DOMAIN relations, result')
  <2>1. AllOf(t) \in Query
    <3>1. t.name \in Name /\ t.ns \in ToSet(Namespaces[engine])
      BY <1>2 DEF IsDatabase
    <3>2. t.ns \in STRING
      BY <1>1, <3>1, QueriesAssumption DEF ToSet
    <3>3. [expr |-> "star"] \in Item
      BY DEF Item
    <3>4. <<[expr |-> "star"]>> \in Seq(Item)
      BY <3>3
    <3>. QED  BY <3>1, <3>2, <3>4 DEF AllOf, Query
  <2>2. IsResultOf(engine, DOMAIN relations, Page(relations, AllOf(t), TRUE))
    BY <1>1, <1>2, <2>1, PageIsResult
  <2>. QED  BY <1>4, <2>2 DEF OpenTable
<1>5. ASSUME NEW sql \in Sql[engine], RunQuery(sql)
      PROVE  IsResultOf(engine, DOMAIN relations, result')
  <2>1. sql \in Query
    BY BrowsingAssumption DEF RelationsInv
  <2>2. IsResultOf(engine, DOMAIN relations, Page(relations, sql, FALSE))
    BY <1>1, <1>2, <2>1, PageIsResult
  <2>. QED  BY <1>5, <2>2 DEF RunQuery
<1>6. ASSUME result' = result \/ result'.shown \in {"nothing", "structure"}
      PROVE  IsResultOf(engine, DOMAIN relations, result')
  BY <1>6 DEF GridsInv, IsResultOf
<1>7. ListAction \/ OtherProgram => \/ result' = result \/ result'.shown = "nothing"
                                   \/ result' = Reloaded(relations')
  BY DEF ListAction, Draw, SelectNamespace, ToggleSystemCatalogs, WriteTmp, RemoveOnWindows,
         Rename, SaveFails, Restart, OpenCreateTable, CancelDialog, RunSchemaChange, OpenDropTable,
         OtherProgram, OtherProgramWrites, OtherProgramCreates, OtherProgramDrops, Others, grid,
         NoResult
<1>8. GridAction => \/ \E t \in DOMAIN relations : OpenTable(t)
                    \/ \E sql \in Sql[engine] : RunQuery(sql)
                    \/ result' = result \/ result'.shown = "structure"
                    \/ result' = Reloaded(relations')
  BY DEF GridAction, OpenStructure, StageUpdate, DiscardAll, Apply
<1>. QED  BY <1>3, <1>4, <1>5, <1>6, <1>7, <1>8 DEF Next, vars, grid

\* The Staged Change, after a step.
LEMMA NextStaged ==
  ASSUME GridsInv, [Next]_vars, staged' # NoChange
  PROVE  IsStagedOn(engine, DOMAIN relations, staged')
<1>1. ASSUME NEW i, NEW text, StageUpdate(i, text)
      PROVE  IsStagedOn(engine, DOMAIN relations, staged')
  BY <1>1, StageUpdateInv DEF GridsInv
<1>2. (\E i, text : StageUpdate(i, text)) \/ staged' \in {staged, NoChange}
  <2>1. ListAction \/ OtherProgram \/ UNCHANGED vars => staged' \in {staged, NoChange}
    BY DEF ListAction, Draw, SelectNamespace, ToggleSystemCatalogs, WriteTmp, RemoveOnWindows,
           Rename, SaveFails, Restart, OpenCreateTable, CancelDialog, RunSchemaChange,
           OpenDropTable, OtherProgram, OtherProgramWrites, OtherProgramCreates,
           OtherProgramDrops, Others, grid, vars
  <2>2. GridAction => (\E i, text : StageUpdate(i, text)) \/ staged' \in {staged, NoChange}
    BY DEF GridAction, OpenTable, OpenStructure, RunQuery, DiscardAll, Apply
  <2>. QED  BY <2>1, <2>2 DEF Next
<1>. QED  BY <1>1, <1>2 DEF GridsInv

\* The preference and the frame, after a step.
LEMMA NextList ==
  ASSUME GridsInv, [Next]_vars
  PROVE  /\ saving' \in {"idle", "write", "remove", "rename"} /\ save_failed' \in BOOLEAN
         /\ drawn'.drawn => drawn'.rows \subseteq DOMAIN relations
<1>. USE DEF GridsInv
<1>1. ListAction => saving' \in {"idle", "write", "remove", "rename"} /\ save_failed' \in BOOLEAN
  BY DEF ListAction, Draw, SelectNamespace, ToggleSystemCatalogs, WriteTmp, RemoveOnWindows,
         Rename, SaveFails, Restart, OpenCreateTable, CancelDialog, RunSchemaChange,
         OpenDropTable, prefs
<1>2. GridAction \/ OtherProgram \/ UNCHANGED vars => UNCHANGED <<prefs, list>>
  BY DEF GridAction, OpenTable, OpenStructure, RunQuery, StageUpdate, DiscardAll, Apply, OtherProgram,
         OtherProgramWrites, OtherProgramCreates, OtherProgramDrops, Others, vars
<1>3. ListAction => Draw \/ drawn' \in {drawn, NotDrawn}
  BY DEF ListAction, SelectNamespace, ToggleSystemCatalogs, WriteTmp, RemoveOnWindows, Rename,
         SaveFails, Restart, OpenCreateTable, CancelDialog, RunSchemaChange, OpenDropTable, list
<1>4. Draw => drawn'.rows \subseteq DOMAIN relations
  BY DEF Draw, Listed, ListTables
<1>. QED  BY <1>1, <1>2, <1>3, <1>4 DEF Next, prefs, list, NotDrawn

LEMMA NextGridsInv == RelationsInv /\ RelationsInv' /\ GridsInv /\ [Next]_vars => GridsInv'
<1>1. SUFFICES ASSUME RelationsInv, RelationsInv', GridsInv, [Next]_vars  PROVE GridsInv'
  OBVIOUS
<1>2. engine' = engine /\ DOMAIN relations' = DOMAIN relations
  BY <1>1, NamesStay
<1>3. IsResultOf(engine', DOMAIN relations', result')
  BY <1>1, <1>2, NextResult
<1>4. staged' # NoChange => IsStagedOn(engine', DOMAIN relations', staged')
  BY <1>1, <1>2, NextStaged
<1>. QED  BY <1>1, <1>2, <1>3, <1>4, NextList DEF GridsInv

LEMMA GridsInvariant == Spec => [](RelationsInv /\ GridsInv)
<1>1. Init => GridsInv
  <2>1. SUFFICES ASSUME Init PROVE GridsInv
    OBVIOUS
  <2>2. /\ saving = "idle" /\ save_failed = FALSE /\ drawn = NotDrawn
        /\ result = NoResult /\ staged = NoChange
    BY <2>1 DEF Init
  <2>3. IsResultOf(engine, DOMAIN relations, result)
    BY <2>2 DEF IsResultOf, NoResult
  <2>4. ~drawn.drawn
    BY <2>2 DEF NotDrawn
  <2>. QED  BY <2>2, <2>3, <2>4 DEF GridsInv
<1>. QED  BY <1>1, NextGridsInv, RelationsInvariant, PTL DEF Spec

\* The state is typed, and every cell of the grid is one the program can show
\* (postgres.rs, decode_cell; session.rs, DataGrid).
THEOREM BrowsingTypes == Spec => []TypeOK
<1>1. PreferenceInv /\ RelationsInv /\ GridsInv => TypeOK
  <2>1. SUFFICES ASSUME PreferenceInv, RelationsInv, GridsInv  PROVE TypeOK
    OBVIOUS
  <2>2. \A t \in DOMAIN relations : relations[t] \in Relation \cup {Absent}
    BY <2>1 DEF RelationsInv, IsDatabase, RelationOf
  <2>3. /\ preference \in {"Hidden", "Shown"} /\ file \in {"missing", "torn", "Hidden", "Shown"}
        /\ saving \in {"idle", "write", "remove", "rename"} /\ save_failed \in BOOLEAN
        /\ drawn.drawn => drawn.rows \subseteq DOMAIN relations
    BY <2>1 DEF PreferenceInv, GridsInv
  <2>4. result.shown = "rows" =>
          /\ result.cells = <<>> \/ DOMAIN result.cells = DOMAIN result.columns
          /\ ToSet(result.cells) \subseteq Cell
          /\ result.staging \in {NoTable} \cup {Table(t.ns, n) : t \in DOMAIN relations, n \in Name}
    <3>1. result.shown = "rows" => IsGridOf(engine, DOMAIN relations, result)
      BY <2>1 DEF GridsInv, IsResultOf
    <3>. QED  BY <3>1 DEF IsGridOf
  <2>5. staged # NoChange => staged.new \in Cell
    BY <2>1, InputIsCell DEF RelationsInv
  <2>. QED  BY <2>2, <2>3, <2>4, <2>5 DEF TypeOK
<1>2. Spec => []PreferenceInv
  <2>1. Init => PreferenceInv
    BY DEF Init, PreferenceInv, PreferenceOnDisk, Loaded
  <2>. QED  BY <2>1, NextPreferenceInv, PTL DEF Spec
<1>. QED  BY <1>1, <1>2, GridsInvariant, PTL

\* A value comes back to the column it was read from as what was stored there, but
\* for one of an OtherType, which is refused.
LEMMA ReadBack ==
  ASSUME NEW e \in Engine, NEW type \in ColumnType(e), NEW v \in Stored, HasType(e, type, v)
  PROVE  /\ Decode(v) \in Cell /\ (Decode(v) = Null <=> v = Null)
         /\ (type \notin OtherType \/ v = Null) => Decode(v) = v /\ Matches(e, type, v, Decode(v))
         /\ (type \in OtherType /\ v # Null) => Store(e, type, Decode(v)) = Refused
<1>1. CASE v = Null
  <2>1. Decode(v) = v /\ v \in Cell /\ v.is = "null"
    BY <1>1, ReadAssumption DEF Decode, Null, Cell
  <2>. QED  BY <1>1, <2>1 DEF Matches
<1>2. CASE v # Null /\ type \in OtherType
  <2>1. e = "postgres" /\ type \notin {"int", "text"}
    BY <1>2, ReadAssumption DEF ColumnType
  <2>2. v \in ValuesIn(type)
    BY <1>2, <2>1 DEF HasType
  <2>3. v.is = type /\ v.as \in ShownAs[type]
    BY <1>2, <2>2, ValuesStored
  <2>4. Decode(v) = v.as /\ v.as \in Cell /\ v.as # Null /\ v.as \notin DOMAIN ReadAs[type]
    BY <1>2, <2>3, ReadAssumption DEF Decode
  <2>5. v.as.is # "null"
    BY <2>4, CellForms
  <2>6. Store(e, type, v.as) = Refused
    BY <2>1, <2>4, <2>5 DEF Store, StorePostgres
  <2>. QED  BY <1>2, <2>4, <2>6
<1>3. CASE v \in ValuesIn(type) /\ type \in {"int", "text"}
  <2>1. v \in Cell /\ v.is = type /\ v # Null
    BY <1>3, ValuesStored
  <2>2. Decode(v) = v
    BY <2>1, CellForms
  <2>3. e = "postgres" => Store(e, type, v) = v
    BY <1>3, <2>1, ReadAssumption DEF Store, StorePostgres
  <2>4. e # "postgres" => Store(e, type, v) = v
    BY <1>3, <2>1 DEF Store, StoreMysql, StoreSqlite, Engine
  <2>. QED  BY <1>3, <2>1, <2>2, <2>3, <2>4, ReadAssumption DEF Matches
<1>4. CASE /\ e = "sqlite" /\ type = "int" /\ v.is = "text" /\ StoreSqlite(type, v) = v
  <2>1. v \in Cell
    BY <1>4, ReadAssumption DEF Stored, Other
  <2>2. Decode(v) = v
    BY <2>1, CellForms
  <2>3. Store(e, type, v) = v /\ v # Null
    BY <1>4 DEF Store, Null
  <2>. QED  BY <1>4, <2>1, <2>2, <2>3, ReadAssumption DEF Matches
<1>. QED  BY <1>1, <1>2, <1>3, <1>4 DEF HasType, ColumnType

\* A stored value that the cell of a value of the column matches is shown as that cell;
\* in a column of an OtherType both are NULL.
LEMMA MatchIsShown ==
  ASSUME NEW e \in Engine, NEW type \in ColumnType(e),
         NEW v \in Stored, HasType(e, type, v), NEW stored \in Stored,
         Matches(e, type, stored, Decode(v))
  PROVE  Decode(stored) = Decode(v) /\ (type \in OtherType => stored = Null)
<1>. DEFINE cell == Decode(v)
<1>1. /\ cell \in Cell /\ (cell = Null <=> v = Null)
      /\ (type \notin OtherType \/ v = Null) => cell = v /\ Matches(e, type, v, cell)
      /\ (type \in OtherType /\ v # Null) => Store(e, type, cell) = Refused
  BY ReadBack
<1>. HIDE DEF cell
<1>2. CASE cell.is = "null"
  <2>1. cell = Null
    BY <1>1, <1>2, CellForms
  <2>2. stored.is = "null"
    BY <1>2 DEF Matches, cell
  <2>3. stored = Null
    BY <2>2, ReadAssumption DEF Stored, Cell, Integer, TextOf, Other
  <2>. QED  BY <1>1, <2>1, <2>3 DEF cell
<1>3. CASE cell.is # "null"
  <2>1. Store(e, type, cell) = stored
    BY <1>3 DEF Matches, cell
  <2>2. Refused \notin Stored
    BY RefusedIsNoValue
  <2>3. v # Null
    BY <1>1, <1>3 DEF Null
  <2>4. type \notin OtherType
    BY <1>1, <2>1, <2>2, <2>3
  <2>5. Store(e, type, cell) = v
    BY <1>1, <1>3, <2>4 DEF Matches
  <2>. QED  BY <2>1, <2>4, <2>5
<1>. QED  BY <1>2, <1>3

\* A column of the relations has the name it is shown under.
LEMMA ColumnNames ==
  ASSUME NEW c \in ToSet(Columns)
  PROVE  ColumnOf(c) = c
BY QueriesAssumption DEF ColumnOf

\* A column of such a grid: what is compared is the value it was read from.
LEMMA StagedCells ==
  ASSUME RelationsInv, IsStagedOn(engine, DOMAIN relations, staged),
         ByItsNames(engine, staged.result)
  PROVE  LET read == staged.result
         IN  /\ Quoted(engine, staged.table) = read.from /\ read.from \in DOMAIN relations
             /\ read.relation \in RelationOf(engine) /\ read.relation.row \in Row
             /\ read.cells # <<>> /\ DOMAIN read.cells = DOMAIN read.columns
             /\ DOMAIN staged.last_seen = ToSet(read.columns)
             /\ \A i \in DOMAIN read.columns :
                  /\ read.columns[i] \in ToSet(Columns)
                  /\ ColumnOf(read.columns[i]) = read.columns[i]
                  /\ read.cells[i] = Decode(read.relation.row[read.columns[i]])
                  /\ staged.last_seen[read.columns[i]] = read.cells[i]
<1>. DEFINE read == staged.result
<1>1. /\ IsGridOf(engine, DOMAIN relations, read)
      /\ staged.table = read.staging /\ staged.table # NoTable /\ read.cells # <<>>
      /\ DOMAIN staged.last_seen = ToSet(read.columns)
      /\ \A c \in ToSet(read.columns) : \E i \in DOMAIN read.columns :
           read.columns[i] = c /\ staged.last_seen[c] = read.cells[i]
  BY DEF IsStagedOn
<1>. HIDE DEF read
<1>2. read.faithful /\ ByItsNames(engine, read)
  BY DEF ByItsNames, read
<1>3. /\ Quoted(engine, staged.table) = read.from /\ read.from \in DOMAIN relations
      /\ read.relation \in RelationOf(engine) /\ read.relation.row \in Row
      /\ DOMAIN read.cells = DOMAIN read.columns
      /\ \A i \in DOMAIN read.columns :
           /\ read.columns[i] \in ToSet(Columns)
           /\ read.cells[i] = Decode(read.relation.row[read.columns[i]])
  BY <1>1, <1>2 DEF IsGridOf
<1>4. ASSUME NEW i \in DOMAIN read.columns
      PROVE  /\ ColumnOf(read.columns[i]) = read.columns[i]
             /\ staged.last_seen[read.columns[i]] = read.cells[i]
  <2>1. read.columns[i] \in ToSet(read.columns)
    BY DEF ToSet
  <2>2. PICK j \in DOMAIN read.columns :
               read.columns[j] = read.columns[i] /\ staged.last_seen[read.columns[i]] = read.cells[j]
    BY <1>1, <2>1
  <2>. QED  BY <1>3, <2>2, ColumnNames
<1>. QED  BY <1>1, <1>3, <1>4 DEF read

\* A row of the relations is no missing row.
LEMMA RowIsThere == NoRow \notin Row
<1>1. "id" \in ToSet(Columns)
  BY DEF ToSet, Columns
<1>2. Refused \notin Stored
  BY RefusedIsNoValue
<1>. QED  BY <1>1, <1>2 DEF NoRow, Row

\* The types and values of a row that is there.
LEMMA RowTyped ==
  ASSUME NEW e, NEW r \in RelationOf(e), r.row # NoRow, NEW c \in ToSet(Columns)
  PROVE  /\ r.type[c] \in ColumnType(e) /\ r.row[c] \in Stored
         /\ HasType(e, r.type[c], r.row[c])
<1>1. /\ r \in Relation /\ r.row \in Row
      /\ r.type[c] \in ColumnType(e) /\ HasType(e, r.type[c], r.row[c])
  BY DEF RelationOf, Relation
<1>. QED  BY <1>1 DEF Row

\* A row that has not changed since it was read is found by the update staged on it
\* (sqlite.rs, mysql.rs, postgres.rs: push_row_predicate), for every Query of its
\* Table by its names and all values, exactly when each of its cells that has a type
\* with a binary format of its own is NULL (postgres.rs, SqlParam::to_sql).
THEOREM UnchangedRowIsFound == Spec => []UnchangedRowMatches
<1>1. RelationsInv /\ GridsInv => UnchangedRowMatches
  <2>. DEFINE read == staged.result
              r    == relations[Quoted(engine, staged.table)]
              Readable == \A i \in DOMAIN read.cells :
                 read.relation.type[ColumnOf(read.columns[i])] \in OtherType => read.cells[i] = Null
  <2>1. SUFFICES ASSUME RelationsInv, GridsInv, staged # NoChange, ByItsNames(engine, read),
                        relations[read.from] = read.relation
                 PROVE  RowMatches(r) <=> Readable
    BY DEF UnchangedRowMatches
  <2>2. engine \in Engine
    BY <2>1, BrowsingAssumption DEF RelationsInv
  <2>3. /\ Quoted(engine, staged.table) = read.from
        /\ read.relation \in RelationOf(engine) /\ read.relation.row \in Row
        /\ DOMAIN read.cells = DOMAIN read.columns
        /\ DOMAIN staged.last_seen = ToSet(read.columns)
        /\ \A i \in DOMAIN read.columns :
             /\ read.columns[i] \in ToSet(Columns)
             /\ ColumnOf(read.columns[i]) = read.columns[i]
             /\ read.cells[i] = Decode(read.relation.row[read.columns[i]])
             /\ staged.last_seen[read.columns[i]] = read.cells[i]
    <3>1. IsStagedOn(engine, DOMAIN relations, staged)
      BY <2>1 DEF GridsInv
    <3>. QED  BY <2>1, <3>1, StagedCells
  <2>4. /\ r = read.relation /\ IsTable(r) /\ r \in RelationOf(engine) /\ r.row \in Row
        /\ r.row # NoRow
    BY <2>1, <2>3, RowIsThere DEF ByItsNames
  <2>. HIDE DEF read, r
  <2>5. ASSUME NEW i \in DOMAIN read.columns
        PROVE  LET c == read.columns[i]
               IN  /\ c \in DOMAIN staged.last_seen
                   /\ c \in ToSet(Columns) /\ ColumnOf(c) = c
                   /\ staged.last_seen[c] = read.cells[i]
                   /\ Matches(engine, r.type[c], r.row[c], read.cells[i])
                        <=> (r.type[c] \in OtherType => read.cells[i] = Null)
    <3>. DEFINE c == read.columns[i]
    <3>1. /\ c \in ToSet(read.columns) /\ c \in ToSet(Columns) /\ ColumnOf(c) = c
          /\ staged.last_seen[c] = read.cells[i] /\ read.cells[i] = Decode(r.row[c])
      BY <2>3, <2>4 DEF ToSet
    <3>. HIDE DEF c
    <3>2. r.type[c] \in ColumnType(engine) /\ r.row[c] \in Stored
          /\ HasType(engine, r.type[c], r.row[c])
      BY <2>4, <3>1, RowTyped
    <3>3. /\ Decode(r.row[c]) = Null <=> r.row[c] = Null
          /\ (r.type[c] \notin OtherType \/ r.row[c] = Null)
               => Matches(engine, r.type[c], r.row[c], Decode(r.row[c]))
      BY <2>2, <3>2, ReadBack
    <3>4. Matches(engine, r.type[c], r.row[c], Decode(r.row[c]))
            => (r.type[c] \in OtherType => r.row[c] = Null)
      BY <2>2, <3>2, MatchIsShown
    <3>5. Matches(engine, r.type[c], r.row[c], read.cells[i])
            <=> (r.type[c] \in OtherType => read.cells[i] = Null)
      BY <3>1, <3>3, <3>4
    <3>. QED  BY <2>3, <3>1, <3>5 DEF c
  <2>6. RowMatches(r) <=> \A name \in DOMAIN staged.last_seen :
           /\ ColumnOf(name) \in ToSet(Columns)
           /\ Matches(engine, r.type[ColumnOf(name)], r.row[ColumnOf(name)], staged.last_seen[name])
    BY <2>4 DEF RowMatches
  <2>7. \A name \in DOMAIN staged.last_seen : \E i \in DOMAIN read.columns : read.columns[i] = name
    BY <2>3 DEF ToSet
  <2>8. ASSUME RowMatches(r)  PROVE Readable
    <3>1. SUFFICES ASSUME NEW i \in DOMAIN read.cells,
                          read.relation.type[ColumnOf(read.columns[i])] \in OtherType
                   PROVE  read.cells[i] = Null
      OBVIOUS
    <3>2. i \in DOMAIN read.columns
      BY <2>3
    <3>. QED  BY <2>4, <2>5, <2>6, <2>8, <3>1, <3>2
  <2>9. ASSUME Readable  PROVE RowMatches(r)
    <3>1. ASSUME NEW name \in DOMAIN staged.last_seen
          PROVE  /\ ColumnOf(name) \in ToSet(Columns)
                 /\ Matches(engine, r.type[ColumnOf(name)], r.row[ColumnOf(name)],
                            staged.last_seen[name])
      <4>1. PICK i \in DOMAIN read.columns : read.columns[i] = name
        BY <2>7
      <4>2. r.type[name] \in OtherType => read.cells[i] = Null
        BY <2>3, <2>4, <2>9, <4>1
      <4>. QED  BY <2>5, <4>1, <4>2
    <3>. QED  BY <2>6, <3>1
  <2>. QED  BY <2>8, <2>9
<1>. QED  BY <1>1, GridsInvariant, PTL

\* An Apply overwrites the Table and the row that were read, as they were shown
\* (query.rs, result_staging; the row predicates of the Engines): for any relations
\* and Queries, whatever other programs do in between.
THEOREM AppliesToTheRowRead == Spec => StagedIsTheRowRead
<1>. DEFINE read == staged.result
            Column(i) == ColumnOf(read.columns[i])
            RowRead(t) == /\ t = read.from
                          /\ \A i \in DOMAIN read.cells :
                               relations[t].type[Column(i)] = read.relation.type[Column(i)] =>
                                 Decode(relations[t].row[Column(i)]) = read.cells[i]
            OnlyRowRead == \A t \in DOMAIN relations : relations'[t] # relations[t] => RowRead(t)
<1>1. RelationsInv /\ GridsInv /\ [Next]_vars
        => [(Applies /\ ByItsNames(engine, staged.result)) => OnlyRowRead]_vars
  <2>1. SUFFICES ASSUME RelationsInv, GridsInv, [Next]_vars, Applies,
                        ByItsNames(engine, staged.result), NEW t \in DOMAIN relations,
                        relations'[t] # relations[t]
                 PROVE  RowRead(t)
    OBVIOUS
  <2>2. Apply
    BY <2>1, AppliesByApply
  <2>3. engine \in Engine /\ staged # NoChange
    BY <2>1, BrowsingAssumption DEF RelationsInv, Applies
  <2>. DEFINE r == relations[t]
  <2>4. /\ read.from \in DOMAIN relations /\ Quoted(engine, staged.table) = read.from
        /\ read.relation \in RelationOf(engine) /\ read.relation.row \in Row
        /\ DOMAIN read.cells = DOMAIN read.columns
        /\ DOMAIN staged.last_seen = ToSet(read.columns)
        /\ \A i \in DOMAIN read.columns :
             /\ read.columns[i] \in ToSet(Columns)
             /\ ColumnOf(read.columns[i]) = read.columns[i]
             /\ read.cells[i] = Decode(read.relation.row[read.columns[i]])
             /\ staged.last_seen[read.columns[i]] = read.cells[i]
    <3>1. IsStagedOn(engine, DOMAIN relations, staged)
      BY <2>1, <2>3 DEF GridsInv
    <3>. QED  BY <2>1, <3>1, StagedCells
  <2>5. t = Quoted(engine, staged.table)
    <3>. DEFINE u == Quoted(engine, staged.table)
                new == [relations[u] EXCEPT !.row[ColumnOf(staged.column)] = NewValue(relations[u])]
    <3>1. relations' = [relations EXCEPT ![u] = new]
      BY <2>1, <2>2, ApplyWrites
    <3>. HIDE DEF new, u
    <3>2. t = u
      BY <2>1, <3>1
    <3>. QED  BY <3>2 DEF u
  <2>6. RowMatches(r)
    BY <2>2, <2>5 DEF Apply, Succeeds
  <2>7. r \in RelationOf(engine) /\ r.row # NoRow
    BY <2>1, <2>6 DEF RowMatches, RelationsInv, IsDatabase, IsTable, Absent
  <2>8. read.relation.row # NoRow
    BY <2>4, RowIsThere
  <2>. HIDE DEF read, r
  <2>9. ASSUME NEW i \in DOMAIN read.cells,
               r.type[Column(i)] = read.relation.type[Column(i)]
        PROVE  Decode(r.row[Column(i)]) = read.cells[i]
    <3>. DEFINE c == read.columns[i]
    <3>1. /\ c \in ToSet(Columns) /\ Column(i) = c /\ ColumnOf(c) = c
          /\ read.cells[i] = Decode(read.relation.row[c]) /\ staged.last_seen[c] = read.cells[i]
          /\ c \in DOMAIN staged.last_seen
      BY <2>4 DEF ToSet
    <3>. HIDE DEF c, Column
    <3>2. Matches(engine, r.type[c], r.row[c], Decode(read.relation.row[c]))
      BY <2>6, <3>1 DEF RowMatches
    <3>3. r.row[c] \in Stored
      BY <2>7, <3>1, RowTyped
    <3>4. /\ read.relation.type[c] \in ColumnType(engine) /\ read.relation.row[c] \in Stored
          /\ HasType(engine, read.relation.type[c], read.relation.row[c])
      BY <2>4, <2>8, <3>1, RowTyped
    <3>5. r.type[c] = read.relation.type[c]
      BY <2>9, <3>1
    <3>6. Decode(r.row[c]) = Decode(read.relation.row[c])
      BY <2>3, <3>2, <3>3, <3>4, <3>5, MatchIsShown
    <3>. QED  BY <3>1, <3>6
  <2>. QED  BY <2>4, <2>5, <2>9 DEF r
<1>. QED  BY <1>1, GridsInvariant, PTL DEF Spec, StagedIsTheRowRead

-----------------------------------------------------------------------------
(* What an Apply stores.                                                   *)

\* What an Apply of a typed text stores in a column: that text or the integer it is,
\* the number it is in an integer column of SQLite or MySQL, or in Postgres what the
\* column reads in the bytes of a cell that is not of its type.
LEMMA ShownAsTyped ==
  ASSUME NEW e \in Engine, NEW type \in ColumnType(e), NEW text \in Text,
         Store(e, type, CellFromInput(text)) # Refused
  PROVE  LET stored == Store(e, type, CellFromInput(text))
             typed  == Trim[text]
         IN  \/ Shown(stored) = Plain(typed)
             \/ /\ e \in {"sqlite", "mysql"} /\ type = "int"
                /\ typed \in DOMAIN Rounded \ DOMAIN Parsed
                /\ Shown(stored) \in DOMAIN Rounded /\ Rounded[Shown(stored)] = Rounded[typed]
             \/ e = "postgres" /\ CellFromInput(text).is \notin {"null", type}
<1>. DEFINE typed  == Trim[text]
            cell   == CellFromInput(text)
            stored == Store(e, type, cell)
<1>1. /\ typed = EmptyText => cell = Null
      /\ (typed # EmptyText /\ typed \in DOMAIN Parsed) => cell = Integer(Parsed[typed])
      /\ (typed # EmptyText /\ typed \notin DOMAIN Parsed) => cell = TextOf(typed)
  BY CellsAssumption DEF CellFromInput
<1>2. /\ cell \in Cell /\ typed \in Text /\ EmptyText \notin DOMAIN Parsed
      /\ \A t \in DOMAIN Parsed : Parsed[t] \in Number
  BY InputIsCell, CellsAssumption
<1>3. Shown(cell) = Plain(typed)
  <2>1. Decode(cell) = cell
    BY <1>2, CellForms
  <2>. HIDE DEF cell, typed
  <2>. QED  BY <1>1, <1>2, <2>1 DEF Shown, Plain, CellEditText, Null, Integer, TextOf
<1>4. CASE e = "postgres"
  <2>1. cell.is = "null" => stored = cell
    BY <1>4 DEF Store, StorePostgres
  <2>2. cell.is = type => stored = cell
    <3>1. SUFFICES ASSUME cell.is = type  PROVE stored = cell
      OBVIOUS
    <3>2. cell.is \in {"null", "int", "text"} /\ type \notin OtherType \cap {"null", "int", "text"}
      BY <1>2, CellForms, ReadAssumption
    <3>3. type \in {"int", "text"} /\ cell \in ValuesIn(type)
      <4>. HIDE DEF cell
      <4>1. type \in {"int", "text"}
        BY <1>4, <3>1, <3>2 DEF ColumnType
      <4>. QED  BY <1>2, <3>1, <4>1, CellForms DEF ValuesIn
    <3>4. cell \in DOMAIN ReadAs[type] /\ ReadAs[type][cell] = cell /\ cell.is # "null"
      BY <3>1, <3>3, ReadAssumption
    <3>. QED  BY <1>4, <3>4 DEF Store, StorePostgres
  <2>. HIDE DEF cell, stored, typed
  <2>3. CASE cell.is \in {"null", type}
    BY <1>3, <2>1, <2>2, <2>3 DEF stored, cell, typed
  <2>4. CASE cell.is \notin {"null", type}
    BY <1>4, <2>4 DEF cell
  <2>. QED  BY <2>3, <2>4
<1>5. CASE e \in {"sqlite", "mysql"}
  <2>1. type \in {"int", "text"}
    BY <1>5 DEF ColumnType
  <2>2. CASE cell.is = "int" /\ type = "text"
    <3>1. cell.n \in Number /\ cell = Integer(cell.n)
      BY <1>2, <2>2, CellForms
    <3>2. stored = TextOf(Printed[cell.n]) /\ Printed[cell.n] \in Text
      BY <1>5, <2>2, <3>1, CellsAssumption DEF Store, StoreMysql, StoreSqlite
    <3>. HIDE DEF cell, stored, typed
    <3>3. Decode(stored) = stored
      BY <3>2, CellForms DEF Cell
    <3>4. Shown(stored) = Printed[cell.n] /\ Shown(cell) = Printed[cell.n]
      <4>1. Decode(cell) = cell
        BY <1>2, CellForms
      <4>. QED  BY <2>2, <3>2, <3>3, <4>1 DEF Shown, CellEditText, TextOf
    <3>. QED  BY <1>3, <3>4 DEF stored, cell, typed
  <2>3. CASE cell.is = "text" /\ type = "int" /\ typed \in DOMAIN Rounded
    <3>1. /\ cell = TextOf(typed) /\ typed \notin DOMAIN Parsed
      <4>. HIDE DEF cell, typed
      <4>. QED  BY <1>1, <2>3 DEF Null, Integer
    <3>2. \/ stored = Integer(Rounded[typed])
          \/ stored = TextOf(Fraction[typed]) /\ typed \in DOMAIN Fraction
      <4>. HIDE DEF cell, typed
      <4>. QED  BY <1>5, <2>3, <3>1 DEF stored, Store, StoreMysql, StoreSqlite, TextOf, cell
    <3>. HIDE DEF cell, stored, typed
    <3>3. CASE stored = Integer(Rounded[typed])
      <4>. DEFINE n == Rounded[typed]
      <4>1. n \in Number
        BY <2>3, CellsAssumption
      <4>. HIDE DEF n
      <4>2. Decode(Integer(n)) = Integer(n)
        BY <4>1, CellForms DEF Cell
      <4>3. Shown(stored) = Printed[n]
        BY <3>3, <4>2 DEF Shown, CellEditText, Integer, n
      <4>4. Printed[n] \in DOMAIN Rounded /\ Rounded[Printed[n]] = n
        BY <4>1, CellsAssumption
      <4>. QED  BY <1>5, <2>3, <3>1, <4>3, <4>4 DEF stored, cell, typed, n
    <3>4. CASE stored = TextOf(Fraction[typed]) /\ typed \in DOMAIN Fraction
      <4>. DEFINE u == Fraction[typed]
      <4>1. u \in Text /\ u \in DOMAIN Rounded /\ Rounded[u] = Rounded[typed]
        BY <3>4, CellsAssumption
      <4>. HIDE DEF u
      <4>2. Decode(TextOf(u)) = TextOf(u)
        BY <4>1, CellForms DEF Cell
      <4>3. Shown(stored) = u
        BY <3>4, <4>2 DEF Shown, CellEditText, TextOf, u
      <4>. QED  BY <1>5, <2>3, <3>1, <4>1, <4>3 DEF stored, cell, typed
    <3>. QED  BY <3>2, <3>3, <3>4
  <2>4. CASE ~(cell.is = "int" /\ type = "text") /\ ~(cell.is = "text" /\ type = "int" /\ typed \in DOMAIN Rounded)
    <3>1. stored = cell
      <4>1. (cell.is = "text" /\ type = "int") => cell.t = typed
        <5>. HIDE DEF cell, typed
        <5>. QED  BY <1>1 DEF Null, Integer, TextOf
      <4>2. (cell.is = "text" /\ type = "int") => cell.t \notin DOMAIN Rounded /\ cell.t \notin DOMAIN Fraction
        BY <2>4, <4>1, CellsAssumption
      <4>3. stored # Refused
        OBVIOUS
      <4>. HIDE DEF cell, typed
      <4>. QED  BY <1>5, <2>1, <2>4, <4>2, <4>3 DEF stored, Store, StoreMysql, StoreSqlite
    <3>. HIDE DEF cell, stored, typed
    <3>. QED  BY <1>3, <3>1 DEF stored, cell, typed
  <2>. QED  BY <2>2, <2>3, <2>4
<1>. QED  BY <1>4, <1>5 DEF Engine

\* In a column of an OtherType that is still of the type it had when its row was read,
\* an Apply overwrites only NULL.
LEMMA OnlyNullIsMisread ==
  ASSUME RelationsInv, GridsInv, Apply, ByItsNames(engine, staged.result),
         LET r == relations[Quoted(engine, staged.table)]
             c == ColumnOf(staged.column)
         IN  r.type[c] \in OtherType /\ staged.result.relation.type[c] = r.type[c]
  PROVE  relations[Quoted(engine, staged.table)].row[ColumnOf(staged.column)] = Null
<1>. DEFINE read == staged.result
            r    == relations[Quoted(engine, staged.table)]
            c    == ColumnOf(staged.column)
<1>1. engine \in Engine /\ staged # NoChange /\ staged.column \in DOMAIN staged.last_seen
  BY BrowsingAssumption DEF RelationsInv, Apply
<1>2. /\ Quoted(engine, staged.table) \in DOMAIN relations /\ RowMatches(r)
  BY DEF Apply, Succeeds
<1>3. r \in RelationOf(engine) /\ r.row # NoRow
  BY <1>2 DEF RowMatches, RelationsInv, IsDatabase, IsTable, Absent
<1>4. /\ read.relation \in RelationOf(engine) /\ read.relation.row \in Row
      /\ DOMAIN staged.last_seen = ToSet(read.columns)
      /\ \A i \in DOMAIN read.columns :
           /\ read.columns[i] \in ToSet(Columns)
           /\ ColumnOf(read.columns[i]) = read.columns[i]
           /\ read.cells[i] = Decode(read.relation.row[read.columns[i]])
           /\ staged.last_seen[read.columns[i]] = read.cells[i]
  <2>1. IsStagedOn(engine, DOMAIN relations, staged)
    BY <1>1 DEF GridsInv
  <2>. QED  BY <2>1, StagedCells
<1>5. read.relation.row # NoRow
  BY <1>4, RowIsThere
<1>. HIDE DEF read, r
<1>6. PICK i \in DOMAIN read.columns : read.columns[i] = staged.column
  BY <1>1, <1>4 DEF ToSet
<1>7. /\ c \in ToSet(Columns) /\ c = staged.column
      /\ staged.last_seen[c] = Decode(read.relation.row[c])
  BY <1>4, <1>6
<1>8. Matches(engine, r.type[c], r.row[c], Decode(read.relation.row[c]))
  BY <1>1, <1>2, <1>7 DEF RowMatches
<1>9. r.type[c] \in OtherType /\ read.relation.type[c] = r.type[c]
  BY DEF read, r
<1>. HIDE DEF c
<1>10. /\ r.type[c] \in ColumnType(engine) /\ r.row[c] \in Stored
       /\ read.relation.row[c] \in Stored
       /\ HasType(engine, r.type[c], read.relation.row[c])
  BY <1>3, <1>4, <1>5, <1>7, <1>9, RowTyped
<1>11. r.row[c] = Null
  BY <1>1, <1>8, <1>9, <1>10, MatchIsShown
<1>. QED  BY <1>11 DEF r, c

\* An Apply stores what was typed, in any column of any Table, or converts it as the
\* Engine converts numbers; only in Postgres is it read as something else, and there
\* it takes the place of no value with a format of its own (session.rs,
\* cell_from_input; postgres.rs, SqlParam::to_sql).
THEOREM AppliesStoreAsTyped == Spec => StoredAsTyped
<1>. DEFINE t      == Quoted(engine, staged.table)
            c      == ColumnOf(staged.column)
            type   == relations[t].type[c]
            stored == relations'[t].row[c]
            typed  == Trim[staged.text]
            AsTyped == \/ Shown(stored) = Plain(typed)
                       \/ IsConverted(type, typed, stored)
                       \/ IsMisread(type, relations[t].row[c])
<1>1. RelationsInv /\ GridsInv /\ [Next]_vars => [Applies => AsTyped]_vars
  <2>1. SUFFICES ASSUME RelationsInv, GridsInv, [Next]_vars, Applies  PROVE AsTyped
    OBVIOUS
  <2>2. Apply
    BY <2>1, AppliesByApply
  <2>3. /\ type \in ColumnType(engine) /\ stored # Refused
        /\ stored = Store(engine, type, CellFromInput(staged.text))
    BY <2>1, <2>2, ApplyWrites
  <2>4. engine \in Engine /\ staged.text \in Text /\ staged.new = CellFromInput(staged.text)
    BY <2>1, BrowsingAssumption DEF RelationsInv, Applies
  <2>5. (/\ ByItsNames(engine, staged.result) /\ type \in OtherType
         /\ staged.result.relation.type[c] = type) => relations[t].row[c] = Null
    BY <2>1, <2>2, OnlyNullIsMisread
  <2>. HIDE DEF t, stored, type
  <2>6. \/ Shown(stored) = Plain(typed)
        \/ IsConverted(type, typed, stored)
        \/ engine = "postgres" /\ staged.new.is \notin {"null", type}
    BY <2>3, <2>4, ShownAsTyped DEF IsConverted
  <2>. QED  BY <2>5, <2>6 DEF IsMisread
<1>. QED  BY <1>1, GridsInvariant, PTL DEF Spec, StoredAsTyped
=============================================================================
