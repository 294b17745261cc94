------------------------------- MODULE Cells -------------------------------
(***************************************************************************)
(* A cell on its way from the Database to the grid, through the editor and *)
(* back: what is shown of a stored value, what a typed text becomes, what  *)
(* an Engine makes of the parameter.  Nothing checks a parameter against   *)
(* its column before the Database does, and the Engines differ: SQLite     *)
(* converts or keeps what it gets, MySQL converts or refuses it, Postgres  *)
(* gets the bytes of the cell as if they had the column's binary format.   *)
(*                                                                         *)
(* Columns are "int", "text", or of an OtherType of Postgres.  A stored    *)
(* value and a cell are records with the same forms; integers fit their    *)
(* column, those of Postgres are of one width, and texts differ when = of  *)
(* the Database says so.  REAL columns, Blobs, JSON and the other types of *)
(* SQLite and MySQL are left out.                                          *)
(***************************************************************************)
CONSTANTS
  Text,      \* texts that are stored or typed
  Number,    \* integers that are stored or typed
  EmptyText, \* ""
  Trim,      \* str::trim, of every text
  Parsed,    \* parse::<i64>, of the texts that are integers
  Printed,   \* to_string, of every integer
  Rounded,   \* external: the nearest integer, of the texts that are numbers ("1e3", "1.50")
  Fraction,  \* external: the number as it is printed, of the texts that are no whole number
  OtherType, \* external: types of Postgres with a binary format of their own (BOOL, DATE)
  ShownAs,   \* the cells the values of an OtherType are shown as
  ReadAs     \* external: what each type of Postgres reads in the bytes of a cell, if it can

Null       == [is |-> "null"]
Integer(n) == [is |-> "int", n |-> n]
TextOf(t)  == [is |-> "text", t |-> t]
Refused    == [is |-> "refused"]
\* A value of an OtherType; those that are shown alike are one here.
Other(type, cell) == [is |-> type, as |-> cell]

Cell   == {Null} \cup {Integer(n) : n \in Number} \cup {TextOf(t) : t \in Text}
Stored == Cell \cup UNION {{Other(type, cell) : cell \in ShownAs[type]} : type \in OtherType}

ColumnType(engine) == {"int", "text"} \cup (IF engine = "postgres" THEN OtherType ELSE {})

\* The values of a type, but for NULL.
ValuesIn(type) ==
  CASE type = "int"                -> {Integer(n) : n \in Number}
    [] type = "text"               -> {TextOf(t) : t \in Text}
    [] type \notin {"int", "text"} -> {Other(type, cell) : cell \in ShownAs[type]}

ASSUME CellsAssumption ==
  /\ EmptyText \in Text /\ Number # {}
  /\ Trim \in [Text -> Text] /\ \A t \in Text : Trim[Trim[t]] = Trim[t]
  /\ \A t \in DOMAIN Parsed : t \in DOMAIN Rounded /\ Parsed[t] = Rounded[t]
  /\ Printed \in [Number -> Text] /\ \A n \in Number : Printed[n] \in DOMAIN Parsed
  /\ \A n \in Number : Parsed[Printed[n]] = n /\ Trim[Printed[n]] = Printed[n]
  /\ DOMAIN Rounded \subseteq Text \ {EmptyText}
  /\ \A t \in DOMAIN Rounded : Rounded[t] \in Number
  /\ DOMAIN Fraction \subseteq DOMAIN Rounded \ DOMAIN Parsed
  /\ \A t \in DOMAIN Fraction : /\ Fraction[t] \in DOMAIN Fraction
                              /\ Fraction[Fraction[t]] = Fraction[t]
                              /\ Rounded[Fraction[t]] = Rounded[t]

\* Integers and texts are read as themselves in their own columns.  The cell of an
\* OtherType never has its format: BOOL is shown as an integer of eight bytes and read
\* from one, DATE as ten characters and read from four.
ASSUME ReadAssumption ==
  /\ OtherType \cap {"null", "int", "text", "refused"} = {}
  /\ \A type \in OtherType : /\ ShownAs[type] \subseteq Cell \ {Null}
                            /\ DOMAIN ReadAs[type] \cap ShownAs[type] = {}
  /\ \A type \in {"int", "text"} : \A cell \in ValuesIn(type) :
       cell \in DOMAIN ReadAs[type] /\ ReadAs[type][cell] = cell
  /\ \A type \in ColumnType("postgres") : \A cell \in DOMAIN ReadAs[type] :
       cell \in Cell \ {Null} /\ ReadAs[type][cell] \in ValuesIn(type)

DecodeRaw(stored) == stored   \* fault: the other types are left as they come

\* What a page has for a stored value.
Decode(stored) == IF stored.is \in OtherType THEN stored.as ELSE stored

\* The text of a cell in the grid, and in the editor when it is opened.
CellEditText(cell) ==
  CASE cell.is = "null" -> EmptyText
    [] cell.is = "int"  -> Printed[cell.n]
    [] cell.is = "text" -> cell.t

CellFromInputZero(text) ==   \* fault: what is no integer is 0, here some integer
  IF Trim[text] = EmptyText THEN Null
  ELSE IF Trim[text] \in DOMAIN Parsed THEN Integer(Parsed[Trim[text]])
       ELSE Integer(CHOOSE n \in Number : TRUE)

\* The same for a cell that was an integer, a text or NULL: the type of the column
\* is not asked.
CellFromInput(text) ==
  CASE Trim[text] = EmptyText      -> Null
    [] Trim[text] \in DOMAIN Parsed -> Integer(Parsed[Trim[text]])
    [] OTHER                       -> TextOf(Trim[text])

\* External: what a column stores of a parameter.  In SQLite an INTEGER column stores
\* a text that is a number as that number; a REAL is kept here as the text it prints.
StoreSqlite(type, cell) ==
  CASE type = "int" /\ cell.is = "text" /\ cell.t \in DOMAIN Fraction -> TextOf(Fraction[cell.t])
    [] type = "int" /\ cell.is = "text" /\ cell.t \in DOMAIN Rounded \ DOMAIN Fraction ->
         Integer(Rounded[cell.t])
    [] type = "text" /\ cell.is = "int" -> TextOf(Printed[cell.n])
    [] OTHER -> cell

\* MySQL rounds it, and in its strict mode refuses any other text.
StoreMysql(type, cell) ==
  IF type = "int" /\ cell.is = "text"
    THEN IF cell.t \in DOMAIN Rounded THEN Integer(Rounded[cell.t]) ELSE Refused
    ELSE StoreSqlite(type, cell)

\* The bytes of the cell, eight of an integer that is not for an integer column:
\* what the type reads in them, or an error.
StorePostgres(type, cell) ==
  IF cell.is = "null" THEN cell
  ELSE IF cell \in DOMAIN ReadAs[type] THEN ReadAs[type][cell] ELSE Refused

Store(engine, type, cell) ==
  CASE engine = "sqlite"   -> StoreSqlite(type, cell)
    [] engine = "mysql"    -> StoreMysql(type, cell)
    [] engine = "postgres" -> StorePostgres(type, cell)

\* External: a column of a type has only these values.  An INTEGER column of SQLite
\* also has the texts it does not convert.
HasType(engine, type, stored) ==
  \/ stored = Null \/ stored \in ValuesIn(type)
  \/ engine = "sqlite" /\ type = "int" /\ stored.is = "text" /\ StoreSqlite(type, stored) = stored

MatchesByEquality(engine, type, stored, cell) ==   \* fault: = for NULL too, which is never true
  cell.is # "null" /\ Store(engine, type, cell) = stored

\* One conjunct of push_row_predicate: IS NULL, or = with a parameter.
Matches(engine, type, stored, cell) ==
  IF cell.is = "null" THEN stored.is = "null"
                      ELSE Store(engine, type, cell) = stored
=============================================================================
