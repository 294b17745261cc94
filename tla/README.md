# OpenDB, verified

TLA+ models of OpenDB: a desktop program (`crates/opendb-desktop`, GPUI) over a
library (`crates/opendb`) that opens Databases on three Engines (Postgres,
SQLite, MySQL), shows Tables in grids, collects edits as Staged Changes and
applies them in one transaction. The models are checked with TLC on small
instances, and the core of them is proved with TLAPS for every instance.
`PROJECT.json` maps each definition to the lines it models and lists the
hazards, line by line, with the properties aimed at them.

## Inventory

| Component | State it keeps | Operations | Talks to |
|---|---|---|---|
| Client and Sessions (`client.rs`) | `Client`: `sessions`, `next_id`, System Catalog preference. `Session`: connection, `staged`, `next_change_id` | `open_session`, `close_session`, `stage_insert/update/delete`, `unstage`, `discard_staged_changes`, `apply`, `execute_mutating`, `execute_schema_change`, reads | called by the windows; calls the Engines |
| Staged Changes (`staged.rs`) | the three kinds of change, values only | none of its own | carried from grid to bag to Engine |
| Engines (`engine/*.rs`) | one connection each, opened once | `apply_staged`, `apply_change`, `execute_mutating`, `table_page`, catalogs | the Database, other programs through it |
| Session window (`session.rs`) | Tabs, grids, filters, drafts, one `edit_input`, dialogs, the close prompt, a status line | `commit_cell`, insert/delete row, unstage, discard, `apply_changes`, close, SQL, Schema Changes, paging | the Client, on the one UI thread |
| Connection List (`list.rs`, `connection.rs`) | ordered Connections, unique by string | `add`, `merge`, bundles, `rename` (unused) | the store, the list window |
| Store (`store.rs`) | list file, temporary file, preference file | `load`, `save` | the file system |
| Connection List window (`main.rs`) | the list in memory, `selected`, the filter, a status line | add, import, export, filter, select, open | the Client, the store |
| Connection String (`connection_string.rs`) | none | parse, normalise, Engine | list, Engines |
| Queries and Result staging (`query.rs`) | none | classify SQL, find the Row Identity in a Result | Client, Session window |
| Table pages (`table_page.rs`), catalog (`catalog.rs`), Schema Changes (`schema_change.rs`) | none | page, filter, group, generate DDL | Engines, Session window |
| Chrome and layout (`window_chrome.rs`, `chrome_layout.rs`) | none | sizes and options of windows | |

What must be right, component by component:

- **Client and Sessions**: bags are independent; ids name one change for the
  life of a Session; the three ways to write (Apply, SQL, Schema Changes) do
  not mix; a Session has a window that can close it.
- **Apply**: all of a bag or none of it, in order (ADR 0005); no row another
  program wrote since it was read is overwritten (ADR 0016); a failed Apply
  loses no Staged Change; a bag is not applied twice.
- **Session window**: a change leaves its bag only because the user asked or
  it took effect, whatever the close prompt, a failing reload or a stale
  button does; a handler that waits for the Database returns.
- **Session window, Tabs and grids**: what is staged is the row that was clicked
  and the text that was typed into it, whatever page, Filter, Tab or reload came
  between; every grid shows its page, and no older rows after the window's own
  writes.
- **Names and cells** (Table list, Queries, Schema Changes): the name a change is
  staged, created or dropped under leads back to the relation the user looked at;
  a value survives the way to the grid, through the editor and back.
- **Connection List, preference and store**: one Connection per string; what
  was saved stays saved; the row that is drawn is the row that is opened.

What is hard here. Everything in the program runs on the UI thread, so two
handlers never interleave; the concurrency is with the Database. Between any
two statements of Apply other programs lock, write and commit; the server can
commit and its answer be lost; a statement can wait for a lock while no window
answers; the grid a change was staged from is older than the Table it is
applied to. On the other side is the file system: a save is four operations,
each of which can fail, and the program can end between any two of them. Inside the
window it is order: clicks are on the frame that was drawn last, which is older
than the state they change; GPUI tells the one text input that it lost the
focus in a later frame, before or after the click that took it; and rows, Tabs and
Namespaces are found again by index or by name.

## Modules

| Module | What it is |
|---|---|
| `StagedChanges` | operators: a Staged Change, which row its statement selects, what it writes, how many rows the Engine says it affected |
| `StagedApply` | the Client, its Sessions and their windows, the transaction of Apply, other programs |
| `AtomicApply` | the abstract promise: a bag takes effect in one step or not at all |
| `ApplyRefinement` | `StagedApply` implements `AtomicApply` |
| `SessionView` | one Session window: Tabs, pages, Filters, the shared cell editor, drafts, dialogs, reloads |
| `Cells` | operators: a value on its way to the grid, through the editor and back, on each Engine |
| `Queries` | operators: the Table list and its Namespaces, what a name means to the Client and to the Database, which Results can be staged |
| `Browsing` | what a window reads and writes by name, the System Catalog preference, frames, other programs |
| `ConnectionStore` | the list in memory, its file, and the list window |
| `DurableList` | the abstract promise: a list that lives on from launch to launch |
| `MCStagedApply`, `MCSessionView`, `MCBrowsing`, `MCConnectionStore` | instances for TLC: column sets, bounds, relations and Queries, bundles, symmetry |
| `StagedApplyProofs`, `ApplyRefinementProofs`, `BrowsingProofs`, `ConnectionStoreProofs`, `SessionViewProofs` | theorems about the modules they are named for |
| `SessionPagesProofs` | theorems about what the grids of `SessionView` show |
| `IndexFacts`, `FoldFacts` | what the proofs use of sets of indices (least members, ranks) and of folds (one step at a time) |

`StagedApply` extends `StagedChanges`; `AtomicApply` extends it too and knows
nothing else of the program; `ApplyRefinement` instantiates `AtomicApply` in
`StagedApply`, and `ConnectionStore` instantiates `DurableList`. `SessionView` instantiates `StagedChanges` for the effect of its
Applies; `Browsing` extends `Cells` and `Queries`. The three models of a Session cut
the program in different places: `StagedApply` has every step of a transaction and
one grid, `SessionView` has every step of the window and a Database that answers at
once, `Browsing` has names, types and Engines and one Staged Change. An operator or action whose comment begins with `fault:` is not part
of any specification: it is the neighbouring definition with a plausible bug, kept
to show that the properties notice it.

### StagedChanges

A Table is a function from Row Identities (`Key`) to rows over the other
columns (`Col`), or `Absent`. `RowPredicate` is the `WHERE` clause that
`push_row_predicate` builds: the Row Identity and every last seen column.
`AffectsOneRow` is the test after the statement (`!= 1` is a Conflict),
`ViolatesIdentity` the primary key or unique index, `ApplyChange` the effect.
One cell is edited at a time, so an update either sets a data column (`set`) or
changes a column of the Row Identity and moves the row (`to`).

The Engines differ in one place. SQLite and Postgres count the rows an UPDATE
matched. The MySQL driver is opened without `CLIENT_FOUND_ROWS`, so the
server counts only rows that differ afterwards, and an update that stores what
is already there affects none. That flag is the driver's default, which is
outside this repository: it is an assumption of the model.

### StagedApply

| Variables | Code |
|---|---|
| `sessions`, `next_id`, `staged`, `next_change_id` | fields of `Client` and `Session` |
| `alive` | the Session's connection; never reopened once lost |
| `windows`, `prompt`, `grid` | the OS window, the close prompt, the rows the grids show |
| `at`, `who`, `closing` | which handler the UI thread is in, whose, and whether the close prompt started it |
| `done`, `touched`, `work`, `waiting` | the transaction of `apply_staged`: position in the loop, rows read or written, uncommitted rows, a statement waiting for a lock |
| `db`, `held` | committed rows, rows locked by other programs |
| `committed`, `unseen` | history, read by properties only: changes whose effect is in the Table, and rows the Session wrote since its grids last read them |

A handler that only reads or changes memory is one action. A handler that writes
is cut where others can get in: `BeginApply`, one `ApplyStatement` per
Staged Change (or `ApplyWait`, `ApplyConflict`, `ApplyRefused`, `ApplyError`),
`ApplyCommit` or `ApplyCommitUnknown`, and `ReloadAfterWrite`, which is
`reload_all_grids` and, for the Apply of the close prompt, the removal of the
window. `ExecuteMutating` and `ExecuteSchemaChange` end in the same reload.

Decisions a reader should know:

- All Sessions are on one Database, the case in which they can disturb each
  other. A Session has one grid over the whole Table; a Result Tab that shows
  some columns is a member of `Projections`.
- Locks are per row in Postgres and MySQL and one for the file in SQLite
  (`Locks`). Statements of Apply see the newest committed row once they hold its
  lock (`View`): READ COMMITTED in Postgres, current reads of UPDATE and DELETE in
  InnoDB, the write lock in SQLite. This is how the servers work and an
  assumption here.
- A transaction of another program locks one row and, at its end, has written it
  or left it. Deadlocks between programs reach Apply as a statement that
  fails (`ApplyError`).
- `ApplyCommitUnknown` is a commit that took effect and whose answer was lost.
  The Session keeps its bag, and its connection can never be used again.
- `commit_cell` is also called when the cell editor loses focus, which the close
  prompt causes: `StageUpdate` and `StageRekey` are enabled under the prompt,
  the other edits are not.
- A cell read as text and typed as a number differs from the cell read and
  stores the same value: `StageUpdate` may set the value seen.
- SQL of the Session writes one row. SQL that fails or is refused is rolled back
  and does nothing, so it is no step; SQL that waits for a lock is a step not
  yet taken. What DDL does to columns is not represented.
- Status lines, Tabs and pages are left out.

### SessionView

| Variables | Code |
|---|---|
| `tabs`, `active_tab`, `next_tab_id` | fields of `SessionView`; a Tab has its Table, Filters, page and grid, or its SQL, `ResultStaging` and grid |
| a Tab's `grid` | `TableGridDelegate`: rows, `editing`, `selected`, `pending_insert`, whether it can be edited |
| `input` | the text of `edit_input`, which all grids share |
| `dialog` | the Filter dialog, the confirmation of SQL that writes, the form of a Schema Change and the preview of its DDL |
| `staged`, `db` | the Session's bag; the Tables in the Database |
| `bound`, `writes` | bounds |
| `typed_for`, `left`, a grid's `source` and `picked` | history, read by properties only |

One action per handler: opening, selecting and closing Tabs, `next_page` and
`prev_page`, Filters, `run_sql`, the forms, `begin_edit`, `commit_cell`,
`start_insert_row`, `stage_insert_row`, `stage_delete_row`, Unstage, Discard,
Apply. A handler that ends in `reload_active` or `reload_all_grids` has the reload in it
(`Reloaded`, `Wrote`). Decisions a reader should know:

- `CommitCell` is Enter, or the Blur of the input, which GPUI delivers in a later
  frame: before or after the click that caused it is handled, and also while a dialog
  is already open. It acts on whatever the active grid has open by then.
- A dialog covers the window, so the buttons behind it are not clicked.
- A Table has a Blob Row Identity, which the grid shows and does not edit, and one
  column; pages are ordered by the Row Identity, and so are the rows of a Query: to the
  SQL of a Query Tab the Client adds no ORDER BY (sqlite.rs:337-345), so the Queries of
  the model are those that ask for that order. Columns, types and names are in
  `Browsing`, the steps of Apply in `StagedApply`.
- `Bound` is chosen at the start of a behaviour and never changes; that is how one run
  has both a user who edits and one who looks around.

### Cells, Queries, Browsing

| Variables | Code |
|---|---|
| `engine`, `relations` | the Session's Engine; the relations of its Database, with kind, primary key, unique indexes, column types and at most one row |
| `preference`, `file`, `saving` | `Client.system_catalogs`, its file, the next operation of `set_show_system_catalogs` |
| `selected_namespace`, `drawn` | the field of `SessionView`; the last frame of the Table list |
| `dialog` | a Schema Change to confirm |
| `result`, `staged` | the Tab in front: a grid with what it was read from, or a Structure with its Table; one Staged Change or none |
| `save_failed`, parts of `result`, `dialog` and `staged` | history, named where they are defined |
| `work` | bounds |

`Cells` follows a value: `Decode` is what a page has for it, `CellEditText` the text
in the editor, `CellFromInput` the cell a typed text becomes (blanks trimmed, empty is
NULL, an integer whatever the type of the column), `Store` what a column makes of the
parameter, `Matches` one conjunct of the optimistic predicate. `Queries` has the
Table list (`Listed`, `DefaultNamespace`, ADR 0029 and 0030), the meaning of a name in SQL
(`Read`) and of a quoted one in the Client's statements (`Quoted`, `ReadQuoted`), and Result staging
(`IsOneTable`, `IdentityPresent`, `ResolveTable`). `Browsing` composes them: frames of
the list (`Draw`), the picker, the toggle and its file, Create Table, a Structure Tab
and its Drop Table, a Table or a Result in front, one cell edited there, Apply, other
programs.

What is assumed of the Engines, because it is outside this repository: that SQLite's
type affinity stores a text that is a number as that number in an INTEGER column
(`Fraction`, `Rounded`) and an integer as a text in a TEXT column; that MySQL rounds such a
text, in its strict mode refuses any other in an integer column, and counts only changed
rows; that the Postgres driver's parameters arrive in binary format with the type of
the column, and what each type reads in the bytes of each cell, if it can (`ReadAs`); how
unquoted names are folded; that `search_path` starts with `public`.
Other programs create and drop only relations of the name `NewName`. Column types are
integer, text and, on Postgres, any set of types with a binary format of their own
(`OtherType`). What is shown of a value of those (`ShownAs`) never has the type's format: a
DATE is shown in ten characters and read from four bytes, a BOOL is shown as an integer and
read from one byte, a TIME of eight characters is out of its range. REAL and FLOAT columns,
Blobs, JSON (whose text is its format, and which has no `=`) and the other types of SQLite
and MySQL are left out; in an INTEGER column of SQLite a REAL is the text it prints. The build is the
one for Windows in the run, which has one file operation more.

### ConnectionStore

| Variables | Code |
|---|---|
| `file`, `tmp` | `connection-list.json` and `.tmp`: `Missing`, `Torn`, or a list |
| `list`, `selected`, `filter` | fields of `ConnectionListView`; `selected` counts from 1, 0 is `None`; `filter` is the set of strings the text matches |
| `step`, `adding` | the next file operation of `FileStore::save`, and which handler asked for it |
| `platform` | whether the build has `cfg(windows)` |
| `saved` | history: what the window said was saved |

`Add` and `Import` change the list; `CreateTmp`, `WriteTmp`, `RemoveFile`
(Windows) and `Rename` are the save; `SaveFails` is an error of any of them,
`Exit` the end of the program anywhere. One program runs at a time. Power loss,
where a write that returned is not on the disk, is not modelled; the code
calls no fsync and promises nothing for that case. Names are left out.

`DurableList` has no files: a list on the disk (`ListOnDisk`, what the next launch will
show), a list in the window, and whether the program runs. A launch shows the one, adds and
imports let the other grow at its end, a save makes them the same in one step. Two exceptions
are part of it, since the code has them: a list that cannot be read is shown as empty
(`Unreadable`), and on Windows the disk is emptied first.

## Runs

| Run | Instance | What it asks |
|---|---|---|
| `apply_rows` | Postgres, 1 Session, 2 rows, 1 column, 2 values, 2 changes | types, atomicity (`ImplementsAtomicApply`), no lost update (`NoLostUpdate`, `TouchedAsStaged`), no change lost or repeated (`StagedLeavesOnlyBy`, `NothingAppliedTwice`), ids (`StagedIdsInOrder`), write paths that do not mix (`OwnWritesSeen`) |
| `apply_sessions` | SQLite, 2 Sessions, 1 row, 2 values, 1 change each | the same for two Sessions on the same row, under the file lock |
| `apply_columns` | MySQL, 1 Session, 1 row, 2 columns, 2 values, 2 changes, every projection | a grid that shows some columns never overwrites the others (`EditedCellsOnly`) |
| `apply_returns` | Postgres, 1 Session, 2 rows, 1 value, 2 changes, with fairness | every writing handler returns (`HandlersReturn`) |
| `store_crash` | 3 strings, 1 text that does not parse, every bundle of up to 2 texts, both platforms | the list and its file through failures and ends of the program; the list lives on as it was saved (`ImplementsDurableList`) |
| `session_view` | 1 Table, 1 value, pages of 1 row; 2 Tabs on 1 row with edits, or 3 Tabs on 3 rows with Filters and SQL | what is staged is the row that was picked (`StagesThePickedRow`) and the text typed for it (`CommitsOwnText`); every grid shows its page after navigation (`NavigationShowsItsPage`, `FilteringShowsMatches`) and after the window's writes (`OwnWritesRefreshEveryGrid`); `ActiveTabStays` |
| `browsing` | 3 Engines, 1 name in up to 2 Namespaces, up to 16 starts, 11 Queries and 4 texts on each | the Table list is of a listed Namespace (`BrowsesAListedNamespace`), DDL goes where the user browses (`SchemaChangeWhereBrowsing`), the preference is on the disk (`PreferenceOnDisk`), an Apply overwrites the row that was read (`StagedIsTheRowRead`), stores what was typed or what the Engine makes of it (`StoredAsTyped`), and finds an unchanged row exactly when it can (`UnchangedRowMatches`) |
| `reads_always_run` | Postgres, 2 Queries of System Catalogs | violated: see Findings |
| `conflict_own_change` | SQLite, 1 Session, 1 row, 2 changes | violated: see Findings |
| `session_without_window` | SQLite, 1 Session | violated: see Findings |
| `store_unreadable`, `store_windows` | as `store_crash` | violated: see Findings |

Bounds. `MaxSessions` and `MaxChanges` bound what is ever opened and staged. Two
changes are the least for which Apply can fail in the middle, for two changes of one
row, for a move onto another row and for the order of ids; two rows let another
program hold one lock while Apply holds the other; two values tell a written row
from the one read. Two Sessions with a change each are enough for one to commit
between the other's reading and applying. Three strings and bundles of two give
duplicates within a bundle, between bundle and list, and a list longer than any
bundle. What the bounds cut off for `StagedApply`, the theorems cover, except for
`HandlersReturn`; for the other models they cover every property.

`session_view` has two users, because each alone already has 10^5 states: one who
clicks cells has two Tabs on one row and the row that can be inserted, enough for an open
cell to meet another Tab, a reload, a draft and a row another program wrote or removed;
one who only looks has three Tabs, the least with a Tab before, at and after the one
that is closed, and three rows on pages of one, the least with a first, a middle and a last
page. One write of the window and one of another program put a reload between any two
other steps. `browsing` starts in every combination of a relation in the Namespace of
unqualified names (none, four kinds of Table, a Table without Row Identity) and a plain Table
or none in another, and looks at one thing at a time (`OneAtATime`): relations that change
together with the preference, or with forms, or with a grid in front. These
parts share no variable but `relations`, which all of them only read between an
Apply and a Schema Change; one write of the window and one of others are enough for what
was read, drawn or opened to be older than what it is used on.

Symmetry of rows and values is used only in runs without liveness; no
definition of the specification chooses among them.

Deadlock is checked in the runs of `StagedApply` and `ConnectionStore`: a user can always
open, close or reload. In `session_view`, `browsing` and `reads_always_run` it is
not, because their behaviours may end where a bound does.

### Fairness

`FairSpec` assumes that the UI thread runs the handler it is in, that a statement
on a lost connection fails, that a statement on a locked SQLite file fails in the
end (its busy timeout), and that other programs end their transactions. No user
action is fair, and no failure that is not forced. The last assumption is about
other programs, and needed: the code sets no statement timeout for Postgres and
MySQL, so against a transaction that never ends the window waits for as long.
A row lock queue is first come, first served (`Queued`): a program that arrives
while Apply waits gets the lock after it. SQLite polls, has no queue, and relies on
the timeout instead.

### Findings

- `conflict_own_change`: a cell edited twice before Apply, or a row edited and
  then deleted, fails with "a row changed since it was read" although nobody else
  wrote it: the second change carries the last seen values of the first, and the
  first has changed them when the second is executed.
- `session_without_window`: `open_selected` opens the Session before the window;
  when the window fails to open, the Session and its connection stay.
- `store_unreadable`: a list that cannot be read at launch is taken for an empty
  one, and the next save writes over it.
- `store_windows`: on Windows the list is removed before the rename; if the program
  ends, or the rename fails, in between, the next launch is empty and the next save
  truncates the temporary file that held everything.

- `reads_always_run`: Postgres settles the staging of a Result before it runs the Query
  and fails when the one relation in it is no base Table of that exact name, so `SELECT *
  FROM information_schema.tables` is refused, while CONTEXT.md:26 says of hidden System
  Catalogs that "Queries can still select them while they are hidden".

Where the models had to leave a case out of a property, the code does something a
user would not expect. These have no run of their own:

- *The relation that is staged.* `StagedIsTheRowRead` excludes Results with renamed
  columns (`SELECT id AS v, v AS id` swaps the Row Identity), views, and a MySQL or SQLite
  Query of another database, whose Namespace `Table::flat` drops
  (query.rs:219-227). On Postgres an unqualified name means `public` to the Client and the
  first hit of `search_path` to the server. A Postgres Query keeps the spelling of a name and drops
  its quotes (query.rs:292-313), so `SELECT * FROM T` reads `t` and is staged on `"T"` if there is
  one. And what was shown of a column is compared as a parameter of the type the column has
  *now*: a Table dropped and made again with another type there can match with another value.
- *Schema Changes.* A Postgres Namespace called `main` is taken for SQLite's and left
  unwritten (schema_change.rs:174-188), the exception in `SchemaChangeWhereBrowsing`;
  `DropIndex` writes no Namespace at all (154-156).
- *Cells.* Leading zeros are lost: `007` typed into a text column of SQLite or MySQL is
  stored as `7`, and opening and leaving a text cell that holds `007` stages a change
  (session.rs:2488). An integer column of MySQL stores `1.50` as 2 (`IsConverted` in
  `StoredAsTyped`). Postgres gets a cell as the binary form of the column's type
  (postgres.rs:449-479), which has two effects. While a BOOL, UUID, NUMERIC,
  TIMESTAMP or DATE cell among the last seen ones is not NULL, its row can be neither updated
  nor deleted from a grid (`UnchangedRowMatches`). And where a cell can be stored,
  it may be another value without any error (`IsMisread` in `StoredAsTyped`): an integer is sent
  as eight bytes, so 5 typed into a NULL NUMERIC is stored as 0.00000 and into a NULL
  TIMESTAMP as five microseconds after 2000; a text is sent as its own bytes, so `f` in a NULL
  BOOL is true, and `1.50` in an INT4 is 825111856, whatever was there. `browsing` reaches
  the last two and the TIMESTAMP. The property says when this happens, not that it does not:
  no document of the repository promises what a cell stores. A FLOAT8 that is NULL takes the
  eight bytes of an integer too, but is left out with the REAL columns. `decode_numeric` drops trailing groups of zero digits: 10000 is
  shown as 1 (postgres.rs:282). A MySQL DATETIME loses its microseconds and then conflicts with
  itself.
- *The cell editor.* A Tab left while its cell is open keeps it open, and the cell later
  takes whatever was typed elsewhere: the `left` exception of `CommitsOwnText`. A draft row is
  removed before it is known whether it can be staged (session.rs:893).
- *Reach.* A Database with no visible Table draws no picker, and Show System
  Catalogs is only in its menu (session.rs:1849). A Postgres page without rows has
  no columns, so nothing can be inserted there (postgres.rs:564). Pages are ordered by every
  column, so a Table with a `json` column cannot be opened.
- *Outside the models.* The optimistic predicate compares with MySQL's collation, which
  is case-insensitive by default; the unique index of a Postgres Table is looked up by
  its bare name (postgres.rs:946); MySQL reads `ESCAPE '\'` as an unfinished text
  (mysql.rs:120); the status line is cleared by each reload, with the error of the one
  before.

Elsewhere the properties hold. `SavedStaysSavedOnPosix` and `store_crash` say what is
left of the promise of the store once the two cases above are set aside.

## Proofs

Twenty-nine theorems, for every value of the constants that satisfies the named
assumptions of the modules: the Engine is one of three, `Absent` is no row, bounds are
naturals, projections are sets of columns, folding a name twice is folding it once, what is
printed of an integer is parsed as that integer, a number in another notation has a nearest
integer and prints as the same number, a Postgres column of integers or texts reads them as
themselves, no cell of an `OtherType` has its binary format, a Database starts with values of the types of
their columns and gets only such from other programs, the Namespace of unqualified names is
one of those an Engine lists (`public` on Postgres), and the Queries are those of the set
`Query`, with the names of the columns written as they are folded. Only the Row Identities of `SessionView`
are assumed finite, for a page is counted.

| Module | Theorem | Property | Argument |
|---|---|---|---|
| `StagedApplyProofs` | `TypeCorrect` | `TypeOK` | inductive as it stands, over lemmas about what `Without`, `ApplyChange`, `View`, `Drop` and `Push` return |
| | `TouchedStaysAsStaged` | `TouchedAsStaged` | `TransactionInv` |
| | `OptimisticApply` | `NoLostUpdate` | `TransactionInv` at the step of the commit (`CommitIsCovered`) |
| | `AtMostOnce` | `NothingAppliedTwice` | `HistoryInv` |
| | `IdsInOrder` | `StagedIdsInOrder` | `HistoryInv` |
| | `StagedAfterOwnWrites` | `OwnWritesSeen` | `OwnWritesInv` |
| | `NoStagedChangeLost` | `StagedLeavesOnlyBy` | `ReloadInv`, and what `Without` keeps |
| `ApplyRefinementProofs` | `ApplyIsAtomic` | `ImplementsAtomicApply` | `RunInv` |
| | `OnlyEditedCells` | `EditedCellsOnly` | `RunInv` at the step of the commit |
| `ConnectionStoreProofs` | `StoreTypeCorrect`, `OneConnection`, `RowsStay` | `TypeOK`, `OneConnectionPerString`, `RowIndexStable` | the steps of `merge`, then `StoreInv` |
| | `SavesAdd`, `StaysSaved` | `SaveOnlyAdds`, `SavedStaysSavedOnPosix` | `KeptInv` |
| | `ListLivesOn` | `ImplementsDurableList` | `LivesInv`, and that a list is read as it was saved (`LoadsAsSaved`) |
| `BrowsingProofs` | `PreferenceIsOnDisk` | `PreferenceOnDisk` | `PreferenceInv` |
| | `BrowsesListed`, `SchemaChangesWhereBrowsing` | `BrowsesAListedNamespace`, `SchemaChangeWhereBrowsing` | `BrowseInv` |
| | `BrowsingTypes` | `TypeOK` | `GridsInv`, from what `FlattenSeq` makes of the items of any Query |
| | `UnchangedRowIsFound` | `UnchangedRowMatches` | `GridsInv`, then which values come back as what is stored (`ReadBack`) |
| | `AppliesToTheRowRead` | `StagedIsTheRowRead` | `GridsInv`, then that what matches a cell is shown as that cell (`MatchIsShown`) |
| | `AppliesStoreAsTyped` | `StoredAsTyped` | `RelationsInv`, then Engine by Engine (`ShownAsTyped`); `GridsInv` for what is overwritten (`OnlyNullIsMisread`) |
| `SessionViewProofs` | `StagedRowIsPicked` | `StagesThePickedRow` | `TabsInv` |
| | `CommittedTextIsOwn` | `CommitsOwnText` | `TypedInv`, over `TabsInv` |
| | `TabInFrontStays` | `ActiveTabStays` | `TabsInv`, and where `RemoveAt` moves each Tab |
| `SessionPagesProofs` | `SessionTypes` | `TypeOK` | `TypesInv`, over `TabsInv` |
| | `EveryGridIsRefreshed`, `NavigationReadsThePage` | `OwnWritesRefreshEveryGrid`, `NavigationShowsItsPage` | what one page is (`FetchedPage`), then which Tabs a step reads (`StepPages`), over `PagesInv` |
| | `FilteredTabShowsMatches` | `FilteringShowsMatches` | the same, and that a first page is empty only when all are (`FirstPage`) |

`TransactionInv`. That a row was checked when its statement ran says nothing of the
commit, unless nobody writes it in between. The invariant adds what makes that so:
no row a transaction has touched is locked by another program
(`held \cap Locks(touched) = {}`), the transaction has not run past its bag, and
outside Apply nothing is touched. A statement adds rows it has just found as some
Staged Change expects them (`SucceedsCovers`; a row touched twice keeps the
committed value, so the first change still covers it), and a step of another
program changes only rows it holds. The commit writes `View`, which differs from the
Table only in touched rows.

`HistoryInv`. `NothingAppliedTwice` is not inductive: a fresh id might be one that was
committed. The invariant adds that committed ids are below `next_change_id`, that bags are
ordered and below it too, that Session ids are below `next_id`, and that a Session that is
not in the Client has neither connection nor bag. A lost answer leaves ids in
the bag that are committed, and at the same step ends the connection.

`OwnWritesInv`. A usable Session with a write its grids do not show is in the
reload at the end of a handler, and its bag is empty. Nothing can be staged there, for
the UI thread is not idle; afterwards the grids are read.

`ReloadInv`. The one step that drops a bag without asking is the reload at the end of a
close prompt's Apply; there the bag is empty, because only the commit and the two other
writes lead to it. Elsewhere `WithoutKeeps` shows that Unstage removes one id and no other.

`RunInv`, the refinement. `AtomicApply` executes a bag in one step on the Table as it is
at the commit; the statements of `StagedApply` were executed earlier, each on the
Table of its moment. The invariant says that the transaction is a run of the executed changes
on the Table *as it is now*, and that the run stays within the touched rows. A step
of another program writes a row it holds, which by `TransactionInv` is none of those,
and `WriteElsewhere` lets that write pass before or after every statement of the run;
at the commit the run is the fold `AtomicApply` uses (`SameRun`). Every other step changes
nothing `AtomicApply` sees, or is one of its steps; a Schema Change is its Apply of an empty bag.
`OnlyEditedCells` follows the same run: a statement leaves each cell of a row that stays,
unless its change edits it (`StatementKeepsCell`, `RunKeepsCell`).

The store. `add` and `merge` are folds over data, and no induction theorem can be
instantiated here. `FoldFacts` has the operator that is folded as a constant instead, and is
instantiated once for `add` and once for `Executed` of `SessionView`; it recovers the steps: if
there were a number of elements for which the fold is not a chain of single steps there would
be a least one (`LeastMember` of `IndexFacts`), and it would be neither 0 nor the successor of
another.
What a chain keeps is shown the same way. `StoreInv` is that every list, in memory, in the file
and in the temporary file, has one Connection per string. `KeptInv` holds while the file can be read: the
list in memory has everything the file has, so a rename only adds.
`ListLivesOn` is about order too. A launch reads the file through `add`, which would drop a
second Connection with the same string; a file has none, so what is read is what was saved
(`LoadsAsSaved`, by the same steps). `LivesInv` adds that what is on the disk is the
beginning of what is shown: a removal on Windows is of a list the window still has, and a
save keeps every row where it was. An unreadable list breaks that, and only that: the
refinement holds there too, with the exception `DurableList` makes.

Browsing. `PreferenceInv` counts a save under way as failed. `BrowseInv` says of an open form
and of a Structure that it names the Namespace that was browsed, and of the last frame that its Namespace is
one it lists and its rows are in it. `RelationsInv` adds to the types that a staged cell is `CellFromInput`
of a text that was typed, and that the values of a column are of its type (`HasType`): an
Apply keeps that on every Engine, by what `Store` makes of a cell (`StoreHasType`).

Names and rows. `GridsInv` ties the grid in front, and the one a Staged Change was staged on, to
what they were read from. That a grid has a cell for each column, and of which column of the
relation, comes from its Query: each item has as many columns as sources (`ItemTypes`), and
`FlattenSeq`, a recursive function whose steps are recovered like those of a fold
(`FlattenStepByStep`), keeps that. That its Table is the one that was read is shown by Engine
(`StagedWhereRead`): on SQLite and MySQL both are of the Namespace of unqualified names; on
Postgres the Table that was read is one of those `ResolveTable` finds, so that the one it prefers,
`public` or the Namespace that was written, is the same. This is where the exceptions of
`ByItsNames` are needed. The names of a Database stay while relations come and go under them
(`NamesStay`), so what is staged still names what was read. `UnchangedRowIsFound` and
`AppliesToTheRowRead` are then about one value: sent as a parameter it is what the column stores
(`ReadBack`), unless it has an `OtherType`, and is then refused; and a stored value it is equal to
is shown the same (`MatchIsShown`), for every Engine and type of column. In a column of an
`OtherType` only NULL is equal to anything, so an Apply that misreads its parameter there
overwrites nothing else (`OnlyNullIsMisread`).

The Session window. None of the three properties of `SessionViewProofs` is inductive: that the change staged now
is right depends on every reload, page, Filter and Run since the click. `IsGrid` ties the
selected row to the one that was picked, and `IsTableTab` and `IsQueryTab` tie the grid to
the Table its Staged Changes go to, unless the grid is `Blank` and has nothing to stage (a
Query Tab whose Table is gone keeps its old staging, over no rows). `TabsInv` adds that every
Tab has an id of its own below `next_tab_id`, that the one in front exists, and that a Filter
dialog belongs to a Table Tab. `TypedInv` says of the shared input that at most one Tab that was
not left has an open cell, the one in front, and that the input was filled for its row; a
reload closes the cell before the row could become another (`StillOpen`). A step
stays in place and opens no cell (`Placed`: reloads, writes and staging), or it opens, selects
or closes a Tab, or opens a cell; each kind has its lemma.

The pages. `Matching` sorts the Row Identities that pass the Filters by counting those below each
(`InKeyOrder`), `LimitOffset` cuts, and `PageRows` drops the row more; the properties say of the
rows alone which of them a page has. `Ranks` of `IndexFacts` connects the two: in a finite set of
numbers, how many are below is a number below the size, another one for each member, and every
such number occurs. So the i-th sorted row has i - 1 rows below it (`MatchingInOrder`), a cut has
consecutive ones and ends where the page or the rows end (`PageCut`), and the page that is shown
is the page of the property, with a next one exactly if rows are left (`FetchedPage`). `ReloadedShows`
is that for a Tab. What is left is which Tabs a step reloads: `StepPages` sorts every step
into those that leave each Tab on its page with its Filters and SQL (`KeepsViews`), those that turn one
Tab and reload it, back at the first page when its Filters differ (`TurnsOne`), those that open
one (`OpensOne`) and those that close one; a write of the window reloads all (`WroteShows`).
`TypesInv` is the invariant for the types: it adds to `TypeOK` that Staged Changes write typed rows,
so that an Apply leaves typed Tables, that a Tab reads a Table that is in `Table`, and that a dialog
has what its confirmation uses. TLC checked `PagesInv`, which is all of this, on the 606,640 states
of `session_view` before it was proved.

Only model-checked: `HandlersReturn`, since liveness under fairness is out of the prover's
reach. Every other property of a passing run is stated by a theorem.

## Plan

1. *Done*: Staged Changes, Sessions, Apply and its abstract specification; the
   Connection List and its file.
2. *Done*: `SessionView` (Tabs, pages, Filters, the shared editor, drafts, dialogs) and
   `Browsing` over `Cells` and `Queries` (names, Result staging, values, the preference).
3. *Done*: theorems for every safety property of `StagedApply` and `ConnectionStore`, the
   two refinements among them.
4. *Done*: theorems for every property of `SessionView`: what a Session window stages, which
   Tab is in front, and what a page shows, from what `Matching` and `LimitOffset` make of every
   Table.
5. *Done*: theorems for every property of `Browsing`, for every relation, Query and Engine.
6. Two programs on one list file.

## Not modelled

- The text of SQL and DDL, quoting, formatting, layout, colours, wording, the status
  line, the search field of the Table list.
- The grammar of Connection Strings and URLs, and the binary formats the Postgres decoders
  read: pure functions of what a user types or a server sends. `Cells` has what they return.
- What DDL other than Create and Drop Table does to columns and indexes: a Table keeps its
  columns in the models.
- Two programs on one list or preference file, and power loss during a save.
- Window chrome: sizes and options, no state.
