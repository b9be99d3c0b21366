SPECIFICATION Spec
CONSTANTS
  Tips <- ThreeTips
  MaxCrashes = 3
  MAX_SUPPLY = 2
  U64_MAX = 3
  Amount = {0, 1, 2}
  Natives <- MCNatives
  MAX_STEPS = 3
  Width = 8
  InitialTarget = 100
  PowLimit = 255
  GenesisTimestamp = 20
  BlockSeconds = 1
  HalfLife = 2
  RadixBits = 4
  Cubic <- Coefficients
  CubicBits = 12
  Window = 3
  KeyEpoch = 2
  KeyDelay = 1
  Timestamps = {0, 20, 21, 22, 23, 24, 25, 28, 30, 44}
  Instants = {0, 1, 3, 4, 9, 14, 19, 20, 21, 22, 25, 30, 39, 40, 41, 44}
  PowHashes = {0, 100, 255}
  MaxHeight = 5
  Base = 4
  Kind = {"transaction", "block", "inventory", "get_headers", "headers", "utxo", "undo"}
  Limits <- EachLimit
  Content = {0, 1}
  MaxAmount = 2
INVARIANTS
  MedianAdvances
  LaterIsEasier
  UniqueEncoding
PROPERTIES
  ComesUp
  ImplementsPool
CHECK_DEADLOCK FALSE
