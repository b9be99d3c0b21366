SPECIFICATION Spec
CONSTANTS
  Configured = {"wasm", "accounting"}
  KeyLen <- Keys
  ValueLen <- Lengths
  MaxDepth = 4
  MaxFrames = 6
  MaxEntries = 4
  MaxBytes = 24
  MaxKeyLen = 1
  MaxValueLen = 1
  MaxWriteSet = 12
  U64 = 40
  Ratio <- Ratios
  MaxU64 = 40
  MaxSupply = 30
  MaxOpen = 1
  MaxHistory = 4
  MaxCallDepth = 4
  MaxEvents = 2
  MaxEffectBytes = 2
  MaxEffectFrames = 6
  MaxEventBytes = 1
  Address = {"w", "v", "x", "o"}
  Kind <- Kinds
  Dispatch = {"w", "v"}
  Request <- Requests
  LocalKey = {"k"}
  StoredValue = {{1}}
  EventBytes = {1}
  ReturnLen = {0, 2, 3}
  CallSpec <- Calls
  VmUnits = {1}
  MaxReturn = 2
  Cost <- Costs
  Intrinsic = 1
  MaxPublished = 2
  InitState <- Contents
INVARIANTS
  
  ValueConserved
PROPERTIES
  FailureCostsOnlyFee
  CallsAllOrNothing
CHECK_DEADLOCK FALSE
