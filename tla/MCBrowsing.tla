---------------------------- MODULE MCBrowsing ----------------------------
(* An instance of Browsing for TLC.                                        *)
EXTENDS Browsing

Micros(n) == "2000-01-01 + " \o ToString(n)   \* microseconds
Numbers == {0, 1, 2, 7, 825111856}
Texts   == {"", "07", "x", " x", "1.5", "1.50"}
             \cup {ToString(n) : n \in Numbers} \cup {Micros(n) : n \in Numbers}
TrimOf  == [t \in Texts |-> IF t = " x" THEN "x" ELSE t]
PrintedAs == [n \in Numbers |-> ToString(n)]
ParsedAs  == [t \in {"07"} \cup Range(PrintedAs) |->
                IF t = "07" THEN 7 ELSE CHOOSE n \in Numbers : PrintedAs[n] = t]
RoundedTo == [t \in DOMAIN ParsedAs \cup {"1.5", "1.50"} |->
                IF t \in DOMAIN ParsedAs THEN ParsedAs[t] ELSE 2]
Fractions == [t \in {"1.5", "1.50"} |-> "1.5"]

OtherTypes == {"bool", "timestamp"}
OtherCells == [type \in OtherTypes |-> IF type = "bool" THEN {Integer(0), Integer(1)}
                                                   ELSE {TextOf(Micros(n)) : n \in Numbers}]
True == Other("bool", Integer(1))
Having(type) == {cell \in Cell : cell.is = type}
\* An INT4 has four bytes, a BOOL one, a TIMESTAMP eight like any integer parameter.
ReadFrom == [type \in {"int", "text"} \cup OtherTypes |->
  CASE type = "int"  -> [cell \in Having("int") \cup {TextOf("1.50")} |->
                           IF cell = TextOf("1.50") THEN Integer(825111856) ELSE cell]
    [] type = "text" -> [cell \in Having("text") |-> cell]
    [] type = "bool" -> [cell \in {TextOf("x")} |-> True]
    [] type = "timestamp" -> [cell \in Having("int") |->
                                Other("timestamp", TextOf(Micros(cell.n)))]]

Names  == {"t", "T", "pg_class", "tables", "sqlite_sequence", "id", "ID", "v", "w"}
Lower  == [n \in Names |-> CASE n = "T" -> "t" [] n = "ID" -> "id" [] OTHER -> n]
SpacesOf == [e \in Engine |-> CASE e = "postgres" ->
                                    <<"app", "information_schema", "pg_catalog", "public">>
                               [] e = "sqlite"   -> <<"main">>
                               [] e = "mysql"    -> <<"db", "other">>]
Default == [e \in Engine |-> CASE e = "postgres" -> "public" [] e = "sqlite" -> "main"
                               [] e = "mysql" -> "db"]

Is(kind, pk, uniques, type, v) ==
  [kind |-> kind, pk |-> pk, uniques |-> uniques,
   type |-> [c \in {"id", "v"} |-> IF c = "id" THEN "int" ELSE type],
   row  |-> [c \in {"id", "v"} |-> IF c = "id" THEN Integer(1) ELSE v]]

Keyed(type, v) == Is("table", <<"id">>, <<>>, type, v)
View  == Is("view", <<>>, <<>>, "text", TextOf("x"))
New   == [Keyed("text", Null) EXCEPT !.row = NoRow]
MadeByOthers == {View, Keyed("text", TextOf("x"))}
Class == Is("table", <<"id">>, <<>>, "int", Integer(1))

With(ts, t, relation) == [u \in DOMAIN ts \cup {t} |-> IF u = t THEN relation ELSE ts[u]]
Slots(e) == {Table(ns, "t") : ns \in Range(SpacesOf[e]) \ {"information_schema", "pg_catalog"}}
Systems(e, ts) == CASE e = "postgres" -> With(With(ts, Table("pg_catalog", "pg_class"), Class),
                                              Table("information_schema", "tables"), View)
                    [] e = "sqlite"   -> With(ts, Table("main", "sqlite_sequence"), Class)
                    [] e = "mysql"    -> ts
Ordinary == Keyed("text", TextOf("x"))
\* In the Namespace of unqualified names any Table or none, in the other one a plain Table or none.
Start == [e \in Engine |->
  {Systems(e, ts) : ts \in
    {[t \in Slots(e) |-> IF t.ns = Default[e] THEN here ELSE there] :
       here \in {Absent, Ordinary, Keyed("int", Integer(7)),
                 Is("table", <<>>, <<<<"v">>>>, "text", TextOf("7")),
                 Is("table", <<>>, <<>>, "text", TextOf("x")),
                 Keyed("int", Null)}
                \cup (IF e = "postgres" THEN {Keyed("bool", Null), Keyed("bool", True),
                                             Keyed("timestamp", Null)} ELSE {}),
       there \in {Absent, Ordinary}}}]
Values == {Null, TextOf("x"), Integer(7), True}

Col(c, as) == [expr |-> "column", col |-> c, as |-> as]
Star == [expr |-> "star"]
Lists == {<<Star>>, <<Col("ID", "ID"), Col("v", "v")>>, <<Col("id", "id")>>, <<Col("v", "v")>>,
          <<Col("id", "id"), Col("v", "w")>>, <<Col("id", "v"), Col("v", "id")>>,
          <<Col("id", "id"), [expr |-> "computed", as |-> "v"]>>,
          <<[expr |-> "aggregate"]>>}
Select(ns, name, items) == [shape |-> "one", ns |-> ns, name |-> name, items |-> items]
Elsewhere(e) == CASE e = "postgres" -> {"public", "app"} [] e = "sqlite" -> {"main"}
                  [] e = "mysql" -> {"other"}
QueriesOf == [e \in Engine |->
  {Select(None, "t", items) : items \in Lists}
  \cup {Select(ns, "t", <<Star>>) : ns \in Elsewhere(e)}
  \cup {[Select(None, "t", <<Star>>) EXCEPT !.shape = "other"]}]
Catalogs == [e \in Engine |-> IF e = "postgres"
  THEN {Select("pg_catalog", "pg_class", <<Star>>), Select("information_schema", "tables", <<Star>>)}
  ELSE {}]

\* What is looked at together: relations that change, with the preference, with
\* forms, or with a grid in front.  A Query is run before the list is drawn; what
\* is in front of a Staged Change is the grid it was staged on.
AtRest == preference = "Hidden" /\ saving = "idle" /\ ~save_failed /\ file = "missing"
OneAtATime ==
  /\ result.shown \in {"rows", "error"} =>
       AtRest /\ dialog = NoDialog /\ drawn.drawn = result.tab
  /\ result.shown = "structure" => AtRest
  /\ ~AtRest => dialog = NoDialog /\ work.own = 0
  /\ staged # NoChange => result = staged.result
=============================================================================
