\* One operator or function over six fields of all types, declared with every type, and
\* deeper ones; two records of four rows.
SPECIFICATION WriterSpec
CONSTANTS
  MinInt <- LowestInt
  MaxInt = 9999
  Top <- TopValues
  Bottom <- BottomValues
  Width = 6
  Defs <- SomeDefs
  TypeOfField <- TypesOfFields
  Rows <- SomeRows
  Now = 5
  SampleText <- Twelve
  MaxRows = 2
  MaxGroup = 2
INVARIANT TrialsFindTypes
INVARIANT RowsFailOnValuesOnly
INVARIANT KeysFollowOrder
CHECK_DEADLOCK FALSE
