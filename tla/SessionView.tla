---------------------------- MODULE SessionView ----------------------------
(***************************************************************************)
(* One Session window (session.rs): its Tabs, the grid each of them shows, *)
(* the one text input all grids share, the dialogs, and what the buttons   *)
(* do.  Client, Engine and Database are one step away: they answer a call  *)
(* at once, with the effect the Staged Changes have by StagedChanges.      *)
(*                                                                         *)
(* A Table is a Blob Row Identity (Key, which the grid shows and cannot    *)
(* edit) and one column "val".  Pages are ordered by Key.  A dialog covers *)
(* the window, so while one is open only its own buttons are clicked.      *)
(*                                                                         *)
(* GPUI tells the input that it lost the focus in a later frame, before or *)
(* after the click that took the focus is handled, and a click into an     *)
(* open cell gives it back: while the active grid draws the input, text    *)
(* can be typed into it and Enter or Blur can come at any time.            *)
(***************************************************************************)
EXTENDS Integers, FiniteSets, SequencesExt

CONSTANTS
  Table,       \* Tables of the Database
  Key,         \* Row Identities, natural numbers
  Val,         \* texts a cell can hold
  Null,        \* Cell::Null, and the empty text of the input
  Absent,      \* no row with this Row Identity
  Dropped,     \* the Table does not exist
  Sql,         \* texts of a Query Tab's editor
  Filter,      \* Filters, as the sets of cells they keep
  PageSize,    \* TABLE_PAGE_SIZE
  Bounds       \* what a behaviour is bounded by, one of a sequence: see Bound

Cell == Val \cup {Null}
DB   == INSTANCE StagedChanges WITH Col <- {"val"}, Val <- Cell, Engine <- "sqlite"

\* A text of the editor: a Query on one Table with its Row Identity, a Query
\* that is more than one Table, a statement that writes, one that does not
\* parse, nothing.
SqlText == [do: {"one", "many", "write"}, table: Table] \cup [do: {"broken", "empty"}]
Empty   == [do |-> "empty"]

\* The Tables when the Session opens, the Row Identities new rows can have and
\* the texts of the editors; the most Tabs, Tabs with a grid, Tabs
\* opened so far, Staged Changes, Filters of a Tab and writes (of this window and
\* of others) of a behaviour; whether its user clicks cells.
Bound == [db: [Table -> [Key -> DB!Slot]], keys: SUBSET Key, sql: SUBSET Sql,
          tabs: Nat, grids: Nat, opened: Nat, staged: Nat, filters: Nat,
          own: Nat, other: Nat, clicks: BOOLEAN]

ASSUME SessionViewAssumption ==
  /\ Key \subseteq Nat /\ IsFiniteSet(Key) /\ PageSize \in Nat \ {0}
  /\ Null \notin Val /\ Dropped \notin [Key -> DB!Slot]
  /\ Empty \in Sql /\ Sql \subseteq SqlText /\ Filter \subseteq SUBSET Cell
  /\ Bounds \in Seq(Bound)

VARIABLES
  bound,       \* the bounds of this behaviour, an index of Bounds
  db,          \* external: the Tables as the Database has them
  tabs,        \* SessionView.tabs
  active_tab,  \* counted from 1, and 0 when there is no Tab
  next_tab_id,
  input,       \* edit_input: its text
  dialog,      \* the open dialog
  staged,      \* the Session's Staged Changes
  writes,      \* writes so far, of this window and of other programs (bounded)
  typed_for,   \* history: the Tab and row begin_edit filled edit_input for
  left         \* history: Tabs that were left while one of their cells was open

Limit   == Bounds[bound]
history == <<typed_for, left>>
vars    == <<bound, db, tabs, active_tab, next_tab_id, input, dialog, staged, writes, history>>

(***************************************************************************)
(* Grids.  Rows and columns are counted from 1; `editing' and `selected'   *)
(* are rows, 0 for none; the row after the last one is the draft of an     *)
(* insert.  `source' and `picked' are history: the Table the rows were     *)
(* read from, and the row that was clicked.                                *)
(***************************************************************************)
NoDraft == [draft |-> FALSE]
Draft(cell) == [draft |-> TRUE, val |-> cell]

FromPage(rows, editable, source) ==
  [rows |-> rows, shown |-> TRUE, editable |-> editable, selected |-> 0,
   editing |-> 0, pending_insert |-> NoDraft, source |-> source, picked |-> NoDraft]

NoGrid == [FromPage(<<>>, FALSE, "none") EXCEPT !.shown = FALSE]

FromPageKeepsSelection(rows, editable, source, old) ==   \* fault: reuses the old delegate
  [FromPage(rows, editable, source) EXCEPT
     !.selected = old.selected, !.editing = old.editing, !.picked = old.picked]

ShowPage(rows, editable, source, old) == FromPage(rows, editable, source)

RowCount(grid) == Len(grid.rows) + IF grid.pending_insert.draft THEN 1 ELSE 0
IsDraft(grid, r) == r > Len(grid.rows)
RowCell(grid, r) ==
  IF IsDraft(grid, r) THEN grid.pending_insert.val ELSE grid.rows[r].val

(***************************************************************************)
(* table_page and query: one page and one row more are fetched.            *)
(***************************************************************************)
Passes(row, filters) == \A f \in ToSet(filters) : row.val \in f

\* ORDER BY the Row Identity: the i-th key is the one with i - 1 keys below it.  A
\* Query has its own order; the model's Queries ask for this one.
InKeyOrder(keys) ==
  [i \in 1 .. Cardinality(keys) |->
     CHOOSE k \in keys : Cardinality({j \in keys : j < k}) = i - 1]

Matching(table, filters) ==
  LET keys  == {k \in Key : table[k] # Absent /\ Passes(table[k], filters)}
      order == InKeyOrder(keys)
  IN  [i \in 1 .. Cardinality(keys) |-> [key |-> order[i], val |-> table[order[i]].val]]

LimitOffset(rows, limit, offset) ==
  SubSeq(rows, offset + 1, Min({offset + limit, Len(rows)}))

FetchedOnePage(table, filters, page) ==   \* fault: no row more is fetched
  LimitOffset(Matching(table, filters), PageSize, page * PageSize)

Fetched(table, filters, page) ==
  LimitOffset(Matching(table, filters), PageSize + 1, page * PageSize)

HasNext(fetched)  == Len(fetched) > PageSize
PageRows(fetched) == IF HasNext(fetched) THEN SubSeq(fetched, 1, PageSize) ELSE fetched

ReadOnly == [staged |-> FALSE]
StagedOn(table) == [staged |-> TRUE, table |-> table]

IsGridTab(tab) == tab.kind # "structure"

\* The Table a Tab reads; the empty SQL of a Query Tab that never ran is an error.
Reads(tab)    == IF tab.kind = "table" THEN tab.table ELSE tab.sql.table
CanRead(d, tab) ==
  /\ tab.kind = "query" => tab.sql # Empty
  /\ d[Reads(tab)] # Dropped

\* reload of one Tab: what table_page or query answers, and what it leaves shown.
Reloaded(d, tab) ==
  LET filters == IF tab.kind = "table" THEN tab.filters ELSE <<>>
      fetched == Fetched(d[Reads(tab)], filters, tab.page)
      on      == IF tab.kind = "query" /\ tab.sql.do = "one"
                   THEN StagedOn(Reads(tab)) ELSE ReadOnly
      shown   == [tab EXCEPT !.has_next = HasNext(fetched),
                             !.grid = ShowPage(PageRows(fetched),
                                               tab.kind = "table" \/ on.staged,
                                               Reads(tab), tab.grid)]
  IN CASE ~IsGridTab(tab) -> tab
       [] IsGridTab(tab) /\ ~CanRead(d, tab) ->
            [tab EXCEPT !.has_next = FALSE, !.grid = ShowPage(<<>>, FALSE, "none", tab.grid)]
       [] tab.kind = "table" /\ CanRead(d, tab) -> shown
       [] tab.kind = "query" /\ CanRead(d, tab) -> [shown EXCEPT !.staging = on]

(***************************************************************************)
(* The active Tab.                                                         *)
(***************************************************************************)
HasActive == active_tab # 0
Active    == tabs[active_tab]
ActiveIs(kind) == HasActive /\ Active.kind = kind

\* active_table: where Staged Changes of the active Tab go.
ActiveStaging ==
  CASE ActiveIs("table") -> StagedOn(Active.table)
    [] ActiveIs("query") -> Active.staging
    [] OTHER             -> ReadOnly

ActiveGrid == IF HasActive /\ IsGridTab(Active) THEN Active.grid ELSE NoGrid

WithGrid(grid) == [tabs EXCEPT ![active_tab].grid = grid]

\* The Tabs of ts with an open cell.
Open(ts) == {ts[i].id : i \in {j \in DOMAIN ts : IsGridTab(ts[j]) /\ ts[j].grid.editing # 0}}

\* History when the Tabs become ts and the active one is left, or stays.
Remember(ts, leaving) ==
  /\ left' = Open(ts) \cap (left \cup leaving)
  /\ typed_for' = IF Open(ts) = {} THEN NoDraft ELSE typed_for
Leaving(ts) == Remember(ts, IF HasActive THEN {Active.id} ELSE {})
Staying(ts) == Remember(ts, {})

NoDialog == [kind |-> "none"]
Init ==
  /\ bound \in DOMAIN Bounds
  /\ db = Limit.db
  /\ tabs = <<>> /\ active_tab = 0 /\ next_tab_id = 1
  /\ input = Null
  /\ dialog = NoDialog
  /\ staged = <<>> /\ writes = [own |-> 0, other |-> 0]
  /\ typed_for = NoDraft /\ left = {}

(***************************************************************************)
(* Tabs.                                                                   *)
(***************************************************************************)
GridTabs == {i \in DOMAIN tabs : IsGridTab(tabs[i])}

PushTab(tab) ==
  /\ dialog = NoDialog
  /\ Len(tabs) < Limit.tabs /\ next_tab_id <= Limit.opened
  /\ IsGridTab(tab) => Cardinality(GridTabs) < Limit.grids
  /\ tabs' = Append(tabs, Reloaded(db, tab))
  /\ active_tab' = Len(tabs) + 1
  /\ next_tab_id' = next_tab_id + 1
  /\ Leaving(tabs')
  /\ UNCHANGED <<db, input, dialog, staged, writes>>

\* A click on a Table of the list, which was drawn before the Table was dropped or not.
AddTableTab(t) ==
  PushTab([kind |-> "table", id |-> next_tab_id, table |-> t, filters |-> <<>>,
           page |-> 0, has_next |-> FALSE, grid |-> NoGrid])

AddStructureTab(t) == PushTab([kind |-> "structure", id |-> next_tab_id, table |-> t])

\* A new Query Tab is not reloaded: it shows no grid until it runs.
AddQueryTab ==
  /\ dialog = NoDialog
  /\ Len(tabs) < Limit.tabs /\ next_tab_id <= Limit.opened /\ Cardinality(GridTabs) < Limit.grids
  /\ tabs' = Append(tabs, [kind |-> "query", id |-> next_tab_id, sql |-> Empty,
                           staging |-> ReadOnly, page |-> 0,
                           has_next |-> FALSE, grid |-> NoGrid])
  /\ active_tab' = Len(tabs) + 1
  /\ next_tab_id' = next_tab_id + 1
  /\ Leaving(tabs')
  /\ UNCHANGED <<db, input, dialog, staged, writes>>

SelectTab(i) ==
  /\ dialog = NoDialog
  /\ i # active_tab
  /\ active_tab' = i
  /\ Leaving(tabs)
  /\ UNCHANGED <<db, tabs, next_tab_id, input, dialog, staged, writes>>

ActiveAfterCloseUnchanged(i, count) == active_tab   \* fault
ActiveAfterCloseKeepsIndex(i, count) == IF active_tab > count THEN count ELSE active_tab   \* fault

ActiveAfterClose(i, count) ==
  CASE active_tab > count                    -> count
    [] active_tab <= count /\ active_tab > i -> active_tab - 1
    [] OTHER                                 -> active_tab

CloseTab(i) ==
  /\ dialog = NoDialog
  /\ tabs' = RemoveAt(tabs, i)
  /\ active_tab' = ActiveAfterClose(i, Len(tabs) - 1)
  /\ IF i = active_tab THEN Leaving(tabs') ELSE Staying(tabs')
  /\ UNCHANGED <<db, next_tab_id, input, dialog, staged, writes>>

(***************************************************************************)
(* Pages and Filters of the active Tab.                                    *)
(***************************************************************************)
ReloadActive(tab) ==
  /\ tabs' = [tabs EXCEPT ![active_tab] = Reloaded(db, tab)]
  /\ Staying(tabs')
  /\ UNCHANGED <<db, active_tab, next_tab_id, input, staged, writes>>

NextPage ==
  /\ dialog = NoDialog
  /\ HasActive /\ IsGridTab(Active) /\ Active.has_next
  /\ ReloadActive([Active EXCEPT !.page = @ + 1])
  /\ UNCHANGED dialog

PrevPage ==
  /\ dialog = NoDialog
  /\ HasActive /\ IsGridTab(Active) /\ Active.page > 0
  /\ ReloadActive([Active EXCEPT !.page = @ - 1])
  /\ UNCHANGED dialog

OpenFilterDialog ==
  /\ dialog = NoDialog
  /\ ActiveIs("table") /\ Len(Active.filters) < Limit.filters
  /\ dialog' = [kind |-> "filter"]
  /\ UNCHANGED <<db, tabs, active_tab, next_tab_id, input, staged, writes, history>>

FilteredKeepsPage(tab, filters) == [tab EXCEPT !.filters = filters]   \* fault

Filtered(tab, filters) == [tab EXCEPT !.filters = filters, !.page = 0]

\* Equals, contains and null all keep the rows whose cell is in a set.
AddFilter(cells) ==
  /\ dialog.kind = "filter"
  /\ ReloadActive(Filtered(Active, Append(Active.filters, cells)))
  /\ dialog' = NoDialog

RemoveFilter(i) ==
  /\ dialog = NoDialog
  /\ ReloadActive(Filtered(Active, RemoveAt(Active.filters, i)))
  /\ UNCHANGED dialog

CancelDialog ==
  /\ dialog # NoDialog
  /\ dialog' = NoDialog
  /\ UNCHANGED <<db, tabs, active_tab, next_tab_id, input, staged, writes, history>>

(***************************************************************************)
(* Writes of this window: every Table and Query Tab is reloaded, the       *)
(* active Tab stays active.                                                *)
(***************************************************************************)
ReloadActiveGridOnly(d) ==   \* fault: only the Tab in front is reloaded
  [i \in DOMAIN tabs |-> IF i = active_tab THEN Reloaded(d, tabs[i]) ELSE tabs[i]]

ReloadAllGrids(d) == [i \in DOMAIN tabs |-> Reloaded(d, tabs[i])]

Wrote(d) ==
  /\ writes.own < Limit.own
  /\ writes' = [writes EXCEPT !.own = @ + 1]
  /\ db' = d
  /\ tabs' = ReloadAllGrids(d)
  /\ Staying(tabs')
  /\ UNCHANGED <<active_tab, next_tab_id, input>>

Refused == UNCHANGED <<db, tabs, active_tab, next_tab_id, input, staged, writes, history>>

RunTab(tab, sql) == [tab EXCEPT !.sql = sql, !.staging = ReadOnly, !.page = 0]

\* run_sql of a Query, whatever the editor holds by now; run_query.
RunQuery(sql) ==
  /\ dialog = NoDialog
  /\ ActiveIs("query") /\ sql.do \in {"one", "many"}
  /\ ReloadActive(RunTab(Active, sql))
  /\ UNCHANGED dialog

\* run_sql of a statement that writes.  A broken or empty text is only an error.
ConfirmMutating(sql) ==
  /\ dialog = NoDialog
  /\ ActiveIs("query") /\ sql.do = "write"
  /\ dialog' = [kind |-> "run", sql |-> sql]
  /\ UNCHANGED <<db, tabs, active_tab, next_tab_id, input, staged, writes, history>>

\* "Run" of the dialog: refused while there are Staged Changes, and when the
\* Database refuses it; here it deletes one row.
ExecuteMutating ==
  /\ dialog.kind = "run"
  /\ dialog' = NoDialog
  /\ LET t == dialog.sql.table IN
     \/ /\ staged = <<>> /\ db[t] # Dropped
        /\ \E k \in Key : /\ db[t][k] # Absent
                          /\ Wrote([db EXCEPT ![t][k] = Absent])
        /\ UNCHANGED staged
     \/ Refused

(***************************************************************************)
(* Schema Changes: the buttons of a Structure Tab, or "Create Table" of    *)
(* the Table list; form, preview of the DDL, confirm.                      *)
(***************************************************************************)
OpenForm(op, t) ==
  /\ dialog = NoDialog
  /\ IF op = "create" THEN db[t] = Dropped
                      ELSE ActiveIs("structure") /\ Active.table = t /\ db[t] # Dropped
  /\ dialog' = [kind |-> IF op = "drop" THEN "schema" ELSE "form", op |-> op, table |-> t]
  /\ UNCHANGED <<db, tabs, active_tab, next_tab_id, input, staged, writes, history>>

PreviewDdl ==
  /\ dialog.kind = "form"
  /\ dialog' = [dialog EXCEPT !.kind = "schema"]
  /\ UNCHANGED <<db, tabs, active_tab, next_tab_id, input, staged, writes, history>>

\* The rows are those of the Table before, or none.
SchemaChanged(op, t) ==
  CASE op = "drop"   -> [db EXCEPT ![t] = Dropped]
    [] op = "create" -> [db EXCEPT ![t] = [k \in Key |-> Absent]]
    [] op = "alter"  -> db

RunSchemaChange ==
  /\ dialog.kind = "schema"
  /\ dialog' = NoDialog
  /\ \/ /\ staged = <<>>
        /\ (dialog.op = "create") = (db[dialog.table] = Dropped)
        /\ Wrote(SchemaChanged(dialog.op, dialog.table))
        /\ UNCHANGED staged
     \/ Refused

(***************************************************************************)
(* The grid of the active Tab.                                             *)
(***************************************************************************)
Grid == ActiveGrid
PickedRow(r) == IF IsDraft(Grid, r) THEN NoDraft ELSE Grid.rows[r]

\* A click on the Row Identity (a Blob), or on any cell of a read-only grid.
SelectRow(r) ==
  /\ dialog = NoDialog
  /\ Grid.shown /\ r <= RowCount(Grid) /\ r # Grid.selected
  /\ tabs' = WithGrid([Grid EXCEPT !.selected = r, !.picked = PickedRow(r)])
  /\ UNCHANGED <<db, active_tab, next_tab_id, input, dialog, staged, writes, history>>

\* A click on cell "val" of a grid that can be edited.
BeginEdit(r) ==
  /\ dialog = NoDialog
  /\ Grid.shown /\ Grid.editable /\ r <= RowCount(Grid) /\ r # Grid.editing
  /\ tabs' = WithGrid([Grid EXCEPT !.selected = r, !.editing = r, !.picked = PickedRow(r)])
  /\ input' = RowCell(Grid, r)
  /\ typed_for' = [id |-> Active.id, row |-> PickedRow(r)]
  /\ left' = left \ {Active.id}
  /\ UNCHANGED <<db, active_tab, next_tab_id, dialog, staged, writes>>

\* The open cell draws the input.
InputIsDrawn == Grid.shown /\ Grid.editing \in 1 .. RowCount(Grid)

TypeText(text) ==
  /\ dialog = NoDialog
  /\ InputIsDrawn /\ text # input
  /\ input' = text
  /\ UNCHANGED <<db, tabs, active_tab, next_tab_id, dialog, staged, writes, history>>

Update(row, text) ==
  [table |-> ActiveStaging.table,
   ch |-> [op |-> "update", key |-> row.key, seen |-> [val |-> row.val], to |-> row.key,
           set |-> [val |-> text]]]
Delete(row) ==
  [table |-> ActiveStaging.table,
   ch |-> [op |-> "delete", key |-> row.key, seen |-> [val |-> row.val]]]
Insert(key, cell) ==
  [table |-> ActiveStaging.table,
   ch |-> [op |-> "insert", key |-> key, values |-> [val |-> cell]]]

CanStage == Len(staged) < Limit.staged

OpenRowIsSelected(grid) == grid.selected   \* fault: the row under the selection

OpenRow(grid) == grid.editing

\* commit_cell, of an Enter in the input or of the Blur that follows its focus,
\* which can come when a dialog is already open.
CommitCell ==
  LET r == OpenRow(Grid)
      closed == [Grid EXCEPT !.editing = 0] IN
  /\ ActiveStaging.staged /\ InputIsDrawn
  /\ \/ /\ IsDraft(Grid, r)
        /\ tabs' = WithGrid([closed EXCEPT !.pending_insert = Draft(input)])
        /\ UNCHANGED staged
     \/ /\ ~IsDraft(Grid, r) /\ input = RowCell(Grid, r)
        /\ tabs' = WithGrid(closed)
        /\ UNCHANGED staged
     \/ /\ ~IsDraft(Grid, r) /\ input # RowCell(Grid, r) /\ CanStage
        /\ tabs' = WithGrid(closed)
        /\ staged' = Append(staged, Update(Grid.rows[r], input))
  /\ Staying(tabs')
  /\ UNCHANGED <<db, active_tab, next_tab_id, input, dialog, writes>>

\* The Row Identities a new row can get.
NewKeys(t) == {k \in Limit.keys : db[t] = Dropped \/ db[t][k] = Absent}

StartInsertRow ==
  /\ dialog = NoDialog
  /\ ActiveStaging.staged /\ Grid.shown
  /\ NewKeys(ActiveStaging.table) # {}   \* bound
  /\ tabs' = WithGrid([Grid EXCEPT !.pending_insert = Draft(Null), !.editing = 0,
                                   !.selected = Len(Grid.rows) + 1, !.picked = NoDraft])
  /\ Staying(tabs')
  /\ UNCHANGED <<db, active_tab, next_tab_id, input, dialog, staged, writes>>

\* The draft is taken whether or not it has a value to stage.  Its Row Identity
\* is the column's default.
StageInsertRow ==
  /\ dialog = NoDialog
  /\ ActiveStaging.staged /\ Grid.shown
  /\ tabs' = WithGrid([Grid EXCEPT !.pending_insert = NoDraft])
  /\ \/ /\ Grid.pending_insert \in {NoDraft, Draft(Null)}
        /\ UNCHANGED staged
     \/ /\ Grid.pending_insert \notin {NoDraft, Draft(Null)} /\ CanStage
        /\ \E k \in NewKeys(ActiveStaging.table) :
             staged' = Append(staged, Insert(k, Grid.pending_insert.val))
  /\ UNCHANGED <<db, active_tab, next_tab_id, input, dialog, writes, history>>

StageDeleteRow ==
  /\ dialog = NoDialog
  /\ ActiveStaging.staged /\ Grid.shown /\ Grid.selected # 0
  /\ \/ /\ IsDraft(Grid, Grid.selected)
        /\ tabs' = WithGrid([Grid EXCEPT !.pending_insert = NoDraft, !.selected = 0])
        /\ UNCHANGED staged
     \/ /\ ~IsDraft(Grid, Grid.selected) /\ CanStage
        /\ staged' = Append(staged, Delete(Grid.rows[Grid.selected]))
        /\ UNCHANGED tabs
  /\ UNCHANGED <<db, active_tab, next_tab_id, input, dialog, writes, history>>

UnstageOne(i) ==
  /\ dialog = NoDialog
  /\ staged' = RemoveAt(staged, i)
  /\ UNCHANGED <<db, tabs, active_tab, next_tab_id, input, dialog, writes, history>>

DiscardAll ==
  /\ dialog = NoDialog /\ staged # <<>>
  /\ staged' = <<>>
  /\ UNCHANGED <<db, tabs, active_tab, next_tab_id, input, dialog, writes, history>>

Executed(d, change) ==
  IF d # Dropped /\ d[change.table] # Dropped /\ DB!Succeeds(change.ch, d[change.table])
    THEN [d EXCEPT ![change.table] = DB!ApplyChange(change.ch, d[change.table])]
    ELSE Dropped

\* The Apply button: one transaction, rolled back when one statement fails.
AppliedDb == FoldLeft(Executed, db, staged)
ApplyChanges ==
  /\ dialog = NoDialog
  /\ staged # <<>>
  /\ \/ /\ AppliedDb # Dropped
        /\ Wrote(AppliedDb)
        /\ staged' = <<>>
     \/ Refused
  /\ UNCHANGED dialog

\* External: another program changes, removes or adds a row.
OtherProgramWrites(t, k) ==
  /\ writes.other < Limit.other
  /\ db[t] # Dropped
  /\ \E slot \in DB!Slot \ {db[t][k]} : db' = [db EXCEPT ![t][k] = slot]
  /\ writes' = [writes EXCEPT !.other = @ + 1]
  /\ UNCHANGED <<tabs, active_tab, next_tab_id, input, dialog, staged, history>>

TabAction ==
  \/ \E t \in Table : AddTableTab(t) \/ AddStructureTab(t)
  \/ AddQueryTab
  \/ \E i \in DOMAIN tabs : SelectTab(i) \/ CloseTab(i)
  \/ NextPage \/ PrevPage \/ OpenFilterDialog \/ CancelDialog
  \/ \E cells \in Filter : AddFilter(cells)
  \/ HasActive /\ Active.kind = "table" /\ \E i \in DOMAIN Active.filters : RemoveFilter(i)

WriteAction ==
  \/ \E sql \in Limit.sql : RunQuery(sql) \/ ConfirmMutating(sql)
  \/ ExecuteMutating
  \/ \E op \in {"create", "alter", "drop"}, t \in Table : OpenForm(op, t)
  \/ PreviewDdl \/ RunSchemaChange \/ ApplyChanges

GridAction ==
  \/ \E r \in 1 .. RowCount(Grid) : SelectRow(r) \/ BeginEdit(r)
  \/ (\E text \in Cell : TypeText(text)) \/ CommitCell
  \/ StartInsertRow \/ StageInsertRow \/ StageDeleteRow
  \/ (\E i \in DOMAIN staged : UnstageOne(i)) \/ DiscardAll

OtherProgram == \E t \in Table, k \in Limit.keys : OtherProgramWrites(t, k)

Next == /\ \/ TabAction \/ WriteAction \/ OtherProgram
           \/ Limit.clicks /\ GridAction
        /\ UNCHANGED bound

Spec == Init /\ [][Next]_vars

(***************************************************************************)
(* Properties.                                                             *)
(***************************************************************************)
GridType(grid) ==
  /\ \A i \in DOMAIN grid.rows : grid.rows[i] \in [key : Key, val : Cell]
  /\ Len(grid.rows) <= PageSize
  /\ {grid.editable, grid.shown} \subseteq BOOLEAN
  /\ {grid.selected, grid.editing} \subseteq 0 .. Len(grid.rows) + 1
  /\ grid.pending_insert \in {NoDraft} \cup {Draft(c) : c \in Cell}

\* The state's types; the active Tab exists while there is one, and a row that
\* is selected or open is one the grid shows or its draft (session.rs:56-64).
TypeOK ==
  /\ active_tab \in 1 .. Len(tabs) \/ (active_tab = 0 /\ tabs = <<>>)
  /\ \A t \in Table : db[t] \in [Key -> DB!Slot] \cup {Dropped}
  /\ \A i \in GridTabs : GridType(tabs[i].grid) /\ tabs[i].page \in Nat
  /\ \A i, j \in DOMAIN tabs : tabs[i].id = tabs[j].id => i = j
  /\ input \in Cell
  /\ \A i \in DOMAIN staged : staged[i].ch.key \in Key /\ staged[i].table \in Table

\* A Staged Change goes to the Table its grid's rows were read from, and a
\* staged delete is of the row that was clicked, as it was shown then: no
\* reload, page, Filter or Run in between makes it another row, and a Query
\* Tab never keeps the staging of an older Query over newer rows
\* (session.rs:699-708, 744-757, 933-969, 1069-1113).
StagesThePickedRow ==
  [][Len(staged') > Len(staged) =>
       LET change == Last(staged') IN
       /\ change.table = Grid.source
       /\ Active.kind = "query" => Active.sql.do = "one"
       /\ change.ch.op = "delete" =>
            /\ Grid.picked # NoDraft
            /\ change.ch.key = Grid.picked.key
            /\ change.ch.seen.val = Grid.picked.val]_vars

\* The text a staged update writes was put in the input for the cell of that
\* row and Tab, unless the Tab was left while the cell was open: then the
\* shared input holds whatever was typed since (session.rs:129-154, 818-882).
CommitsOwnText ==
  [][(Len(staged') > Len(staged) /\ Last(staged').ch.op = "update") =>
       \/ Active.id \in left
       \/ LET ch == Last(staged').ch IN
          typed_for = [id |-> Active.id, row |-> [key |-> ch.key, val |-> ch.seen.val]]]_vars

ActiveId == IF HasActive THEN Active.id ELSE 0

\* Only opening or selecting a Tab, or closing the active one, changes which
\* Tab is active: closing another one and reloading all of them keep it
\* (session.rs:464-477, 802-816).
ActiveTabStays ==
  [][ActiveId' # ActiveId =>
       \/ next_tab_id' # next_tab_id
       \/ tabs' = tabs /\ active_tab' # active_tab
       \/ \A i \in DOMAIN tabs' : tabs'[i].id # ActiveId]_vars

Rows(table) == {[key |-> k, val |-> table[k].val] : k \in {j \in Key : table[j] # Absent}}
Below(row, rows) == Cardinality({r \in rows : r.key < row.key})

\* The rows a Tab is a view of, on all its pages.
Shows(d, tab) ==
  {r \in Rows(d[Reads(tab)]) : tab.kind = "table" => Passes(r, tab.filters)}

\* A page without LIMIT, OFFSET or the row more: each of the rows of `all' with start
\* to start + PageSize - 1 rows below it, at its place, and whether there are others.
IsPage(all, start, rows, has_next) ==
  /\ ToSet(rows) = {r \in all : Below(r, all) \in start .. start + PageSize - 1}
  /\ \A i \in DOMAIN rows : Below(rows[i], all) = start + i - 1
  /\ has_next <=> \E r \in all : Below(r, all) >= start + PageSize

\* The Tab shows its page of the Tables d, or that they cannot be read.
ShowsPage(d, tab) ==
  IF CanRead(d, tab)
    THEN IsPage(Shows(d, tab), tab.page * PageSize, tab.grid.rows, tab.has_next)
    ELSE tab.grid.rows = <<>> /\ ~tab.grid.editable /\ ~tab.has_next

\* After a write of this window (Apply, SQL that writes, a Schema Change) no
\* Tab shows older rows (session.rs:784-816, 995-1013, 1177-1199).
OwnWritesRefreshEveryGrid ==
  [][writes'.own # writes.own =>
       \A i \in GridTabs' : ShowsPage(db', tabs'[i])]_vars

View(tab) == CASE tab.kind = "table" -> <<tab.page, tab.filters>>
               [] tab.kind = "query" -> <<tab.page, tab.sql>>
               [] OTHER              -> <<>>

\* A Tab that was opened, turned to another page, filtered or run shows that
\* page of the rows the Database has now, and offers a next page if and only
\* if there is one (session.rs:403-417, 496-576, 744-757).
NavigationShowsItsPage ==
  [][\A i \in GridTabs' :
       (/\ Len(tabs') >= Len(tabs)
        /\ i \notin DOMAIN tabs \/ View(tabs[i]) # View(tabs'[i])
        /\ tabs'[i].grid.shown) => ShowsPage(db', tabs'[i])]_tabs

\* Adding or removing a Filter never shows an empty page while rows match
\* (session.rs:496-540).
FilteringShowsMatches ==
  [][\A i \in DOMAIN tabs' :
       (/\ Len(tabs') = Len(tabs)
        /\ tabs'[i].kind = "table" /\ tabs'[i].filters # tabs[i].filters
        /\ CanRead(db', tabs'[i])) =>
          (tabs'[i].grid.rows = <<>> <=>
             \A r \in Rows(db'[tabs'[i].table]) : ~Passes(r, tabs'[i].filters))]_tabs
=============================================================================
