\* One key with several rowids, a row that fails: the key worker waits
\* for rowid workers that have left.
SPECIFICATION FairSpec
CONSTANTS
  LeftPages <- OnePage
  KeyOf <- KeyOfLeft
  RowidsOf <- ManyRowids
  Data <- RightRows
  Passing <- PassingRows
  NoHaving = {}
  PageSize = 2
  KeyWorkers = {k1}
  RowidWorkers = {r1, r2}
  Fields <- FieldNames
  FnOf <- FunctionOf
  ArgsOf <- Arguments
  DefaultOf <- Defaults
  Modes <- OneMode
  None = None
  FaultKinds = {"row"}
  MaxFaults = 1
  MinInt <- Min4
  MaxInt <- Max4
  Top <- TopOf
  Bottom <- BottomOf
  Sep <- Comma
PROPERTY LookupEnds
