\* The escrow book stops when its history is full.
CHECK_DEADLOCK FALSE
SPECIFICATION Spec
CONSTANTS
  Configured = {"wasm", "accounting"}
  KeyLen <- Keys
  ValueLen <- Lengths
  MaxDepth = 3
  MaxFrames = 4
  MaxEntries = 3
  MaxBytes = 5
  MaxKeyLen = 1
  MaxValueLen = 1
  MaxWriteSet = 3
  Slot <- Slots
  Value <- Values
  InitState <- States
  U64 = 31
  Ratio <- Ratios
  MaxWeight = 14
  Intrinsic = 1
  Units = {0, 1, 2, 5, 29}
  CommonWeight = {0, 1, 3}
  MaxU64 = 15
  MaxSupply = 12
  MaxOpen = 2
  MaxHistory = 2
  TxId = {"t1", "t2"}
  Capability <- Capabilities
  Terms <- AllTerms
  Key = {"a", "b", "c"}
  TreeValue = {1, 2}
  Depth = 3
  KeyPath <- Paths
  WriteList <- Lists
  MaxWrites = 2
  MaxApplied = 2
  MaxFaults = 1
  TargetWeight = 4
  MaxTransactionWeight = 5
  AdjustmentDenominator = 3
  MinBaseFee = 2
  MaxBaseFee = 30
  Weights = {0, 1, 3, 5, 6}
INVARIANTS
  SplitIndependent
  SettleNeverStuck
  RootIsCanonical
  ReadsFailClosed
  ProofsTellTruth
PROPERTIES
  ImplementsStack
  FullBlocksReachCeiling
