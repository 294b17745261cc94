\* A Query of a relation that is no Table, against what the documents say of reads.
SPECIFICATION Spec
CONSTANTS
  Text <- Texts
  Number <- Numbers
  EmptyText = ""
  Trim <- TrimOf
  Parsed <- ParsedAs
  Printed <- PrintedAs
  Rounded <- RoundedTo
  Fraction <- Fractions
  OtherType <- OtherTypes
  ShownAs <- OtherCells
  ReadAs <- ReadFrom
  Name <- Names
  Fold <- Lower
  Namespaces <- SpacesOf
  Here <- Default
  SystemName = {"information_schema", "pg_catalog", "sqlite_sequence"}
  Engines = {"postgres"}
  Relations <- Start
  Created <- MadeByOthers
  NewTable <- New
  NewName = "t"
  Sql <- Catalogs
  Typed = {"", "07", " x", "1.50"}
  Written <- Values
  Windows = TRUE
  MaxOwn = 1
  MaxOther = 1
CONSTRAINT OneAtATime
INVARIANTS ReadsAlwaysRun
CHECK_DEADLOCK FALSE
