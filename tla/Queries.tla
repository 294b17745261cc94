------------------------------ MODULE Queries ------------------------------
(***************************************************************************)
(* Names and SQL: which relation a name means to the Database and which to *)
(* the Client, the Table list and its Namespaces, and which Results can be *)
(* staged (query.rs, catalog.rs, schema_change.rs, the Engines' catalogs). *)
(*                                                                         *)
(* A relation is known by its Namespace and name: a schema of Postgres, a  *)
(* database of MySQL, "main" in SQLite.  It has the columns "id" and "v",  *)
(* at most one row, and unique indexes in the order of their names.        *)
(***************************************************************************)
EXTENDS Sequences, SequencesExt

CONSTANTS
  Name,        \* names as they are spelled
  Fold,        \* to_ascii_lowercase, of every name
  Namespaces,  \* the Namespaces of each Engine's Database, in catalog order
  Here,        \* the one an unqualified name is in: search_path, main, DATABASE()
  SystemName   \* Namespaces and Tables that are System Catalogs by their name

Engine  == {"postgres", "sqlite", "mysql"}
Grouped(engine) == engine = "postgres"
Columns == <<"id", "v">>
None    == "none"

ASSUME QueriesAssumption ==
  /\ Fold \in [Name -> Name] /\ \A n \in Name : Fold[Fold[n]] = Fold[n]
  /\ None \notin Name /\ ToSet(Columns) \subseteq Name /\ \A c \in ToSet(Columns) : Fold[c] = c
  /\ Namespaces \in [Engine -> Seq(STRING)] /\ Here \in [Engine -> STRING]
  /\ \A e \in Engine : Here[e] \in ToSet(Namespaces[e]) /\ None \notin ToSet(Namespaces[e])
  /\ Here["postgres"] = "public"

SameName(a, b) == Fold[a] = Fold[b]

Table(ns, name) == [ns |-> ns, name |-> name]
NoTable  == Table(None, None)
Absent   == [kind |-> "absent"]
IsTable(relation) == relation.kind = "table"

(***************************************************************************)
(* The Table list.                                                         *)
(***************************************************************************)
IsSystem(engine, table) ==
  IF Grouped(engine) THEN table.ns \in SystemName ELSE table.name \in SystemName

\* list_tables: views are no Tables, and the flat lists have one Namespace.
ListTables(engine, relations) ==
  {t \in DOMAIN relations : IsTable(relations[t]) /\ (Grouped(engine) \/ t.ns = Here[engine])}

\* assemble_grouped, assemble_flat
Listed(engine, relations, preference) ==
  {t \in ListTables(engine, relations) : preference = "Shown" \/ ~IsSystem(engine, t)}

\* The first of a set of Namespaces in catalog order.
FirstNamespace(engine, spaces) ==
  LET at == {i \in DOMAIN Namespaces[engine] : Namespaces[engine][i] \in spaces}
  IN  IF at = {} THEN None ELSE Namespaces[engine][Min(at)]

DefaultNamespace(engine, spaces) ==
  IF "public" \in spaces THEN "public" ELSE FirstNamespace(engine, spaces)

(***************************************************************************)
(* What the Database makes of a name.                                      *)
(***************************************************************************)
\* In SQL a user wrote, without quotes; NoTable when there is no such relation.
Read(engine, relations, ns, name) ==
  LET space == IF ns = None THEN Here[engine] ELSE ns
      found == {t \in DOMAIN relations :
                  /\ relations[t] # Absent /\ t.ns = space
                  /\ t.name = (IF engine = "mysql" THEN name ELSE Fold[name])}
  IN  IF found = {} THEN NoTable ELSE CHOOSE t \in found : TRUE

\* In a statement of the Client, quoted: Postgres and MySQL take it as it is.
Quoted(engine, table) ==
  Table(table.ns, IF engine = "sqlite" THEN Fold[table.name] ELSE table.name)

\* What it reads of such a Table, or NoTable.
ReadQuoted(engine, relations, table) ==
  LET t == Quoted(engine, table)
  IN  IF t \in DOMAIN relations /\ relations[t] # Absent THEN t ELSE NoTable

QualifiedForCreateUnqualified(engine, ns, name) ==   \* fault: the Namespace is not written
  Table(Here[engine], name)

\* qualified_table_for_create: a Namespace called "main" is not written.
QualifiedForCreate(engine, ns, name) ==
  Table(IF ns = "main" THEN Here[engine] ELSE ns, name)

(***************************************************************************)
(* Result staging.  A Query is one Table with its projection, or anything  *)
(* else (joined, grouped, derived, more than one statement): a record with *)
(* shape "one" or "other", ns, name, and items.  An item is a "star", an   *)
(* "aggregate", a "column" col with the name `as' it has in the Result, or *)
(* "computed" with that name.                                              *)
(***************************************************************************)
Item ==
  [expr: {"star", "aggregate"}] \cup [expr: {"computed"}, as: Name]
    \cup [expr: {"column"}, col: {n \in Name : Fold[n] \in ToSet(Columns)}, as: Name]
Query == [shape: {"one", "other"}, ns: STRING, name: Name, items: Seq(Item)]

ItemsOf(sql, expr) == {i \in ToSet(sql.items) : i.expr = expr}

\* projection_from_select: TRUE and the columns it names, or all of them.
IsOneTable(sql) == sql.shape = "one" /\ ItemsOf(sql, "aggregate") = {}
IsAll(sql)      == ItemsOf(sql, "star") # {}
Projected(sql)  == {i.col : i \in ItemsOf(sql, "column")}

IdentityPresent(identity, sql) ==
  IsAll(sql) \/ \A c \in ToSet(identity) : \E p \in Projected(sql) : SameName(c, p)

\* identity_column_names: the primary key, or the first unique index; <<>> for none.
IdentityColumnNames(engine, relations, table) ==
  LET t == Quoted(engine, table)
      relation == IF t \in DOMAIN relations THEN relations[t] ELSE Absent
  IN  CASE ~IsTable(relation) -> <<>>
        [] IsTable(relation) /\ relation.pk # <<>> -> relation.pk
        [] OTHER -> IF relation.uniques = <<>> THEN <<>> ELSE relation.uniques[1]

ResolveIgnoresNamespace(engine, relations, sql) ==   \* fault: always by the bare name
  LET found == {t \in ListTables(engine, relations) : t.name = sql.name}
      space == DefaultNamespace(engine, {t.ns : t \in found})
  IN  IF ~Grouped(engine) THEN Table(Here[engine], sql.name)
      ELSE IF found = {} THEN NoTable ELSE Table(space, sql.name)

\* Table::flat drops the Namespace and asks nobody; resolve_table of Postgres looks
\* for a Table of exactly this name, and prefers public when there is no Namespace.
ResolveTable(engine, relations, sql) ==
  LET found == {t \in ListTables(engine, relations) :
                  t.name = sql.name /\ sql.ns \in {None, t.ns}}
  IN  CASE ~Grouped(engine) -> Table(Here[engine], sql.name)
        [] Grouped(engine) /\ found = {} -> NoTable
        [] Grouped(engine) /\ found # {} ->
             Table(DefaultNamespace(engine, {t.ns : t \in found}), sql.name)

\* result_staging: FALSE when it fails, and with it the Query.
StagingKnown(engine, relations, sql) ==
  IsOneTable(sql) => ResolveTable(engine, relations, sql) # NoTable

\* The Table, or NoTable for ResultStaging::ReadOnly.
ResultStaging(engine, relations, sql) ==
  LET table    == ResolveTable(engine, relations, sql)
      identity == IdentityColumnNames(engine, relations, table)
  IN  IF IsOneTable(sql) /\ identity # <<>> /\ IdentityPresent(identity, sql)
        THEN table ELSE NoTable

(***************************************************************************)
(* External: the columns and cells of a Result's row.                      *)
(***************************************************************************)
\* MySQL names a column as the Query spells it, the others as it is declared.
ItemColumns(engine, item) ==
  CASE item.expr = "star"      -> Columns
    [] item.expr = "column"    -> <<IF engine = "mysql" \/ item.as # item.col
                                      THEN item.as ELSE Fold[item.as]>>
    [] item.expr = "computed"  -> <<item.as>>
    [] item.expr = "aggregate" -> <<"max">>

\* Where the cell of each column comes from: a column of the relation, or None.
ItemSources(item) ==
  CASE item.expr = "star"   -> Columns
    [] item.expr = "column" -> <<Fold[item.col]>>
    [] OTHER                -> <<None>>

ResultColumns(engine, sql) ==
  FlattenSeq([i \in DOMAIN sql.items |-> ItemColumns(engine, sql.items[i])])
ResultSources(sql) ==
  FlattenSeq([i \in DOMAIN sql.items |-> ItemSources(sql.items[i])])

\* Each column of the Result holds the column of the relation it is named for.
NotRenamed(engine, sql) == ResultColumns(engine, sql) = ResultSources(sql)
=============================================================================
