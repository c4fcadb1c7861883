SPECIFICATION FairSpec
CONSTANTS
  LeftPages <- TwoPages
  KeyOf <- KeyOfLeft
  RowidsOf <- FewRowids
  Data <- RightRows
  Passing <- PassingRows
  NoHaving = {2}
  PageSize = 2
  KeyWorkers = {k1, k2}
  RowidWorkers = {r1, r2}
  Fields <- FieldNames
  FnOf <- FunctionOf
  ArgsOf <- Arguments
  DefaultOf <- Defaults
  Modes <- AllModes
  None = None
  FaultKinds = {"left", "index", "row", "eval", "epilogue"}
  MaxFaults = 1
  MinInt <- Min4
  MaxInt <- Max4
  Top <- TopOf
  Bottom <- BottomOf
  Sep <- Comma
INVARIANT JoinIsExact
INVARIANT ErrorNeverLost
PROPERTY EndsOrStarves
