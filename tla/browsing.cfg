\* The Table list, Queries, cells and the System Catalog preference, on three Engines.
SPECIFICATION Spec
CONSTANTS
  Text <- Texts
  Number <- Numbers
  EmptyText = ""
  Trim <- TrimOf
  Parsed <- ParsedAs
  Printed <- PrintedAs
  Rounded <- RoundedTo
  Fraction <- Fractions
  OtherType <- OtherTypes
  ShownAs <- OtherCells
  ReadAs <- ReadFrom
  Name <- Names
  Fold <- Lower
  Namespaces <- SpacesOf
  Here <- Default
  SystemName = {"information_schema", "pg_catalog", "sqlite_sequence"}
  Engines = {"postgres", "sqlite", "mysql"}
  Relations <- Start
  Created <- MadeByOthers
  NewTable <- New
  NewName = "t"
  Sql <- QueriesOf
  Typed = {"", "07", " x", "1.50"}
  Written <- Values
  Windows = TRUE
  MaxOwn = 1
  MaxOther = 1
CONSTRAINT OneAtATime
INVARIANTS TypeOK BrowsesAListedNamespace PreferenceOnDisk UnchangedRowMatches
PROPERTIES SchemaChangeWhereBrowsing StagedIsTheRowRead StoredAsTyped
CHECK_DEADLOCK FALSE
