\* Two processes, an asset that is at its place, at the old one or linked.
SPECIFICATION Spec
CONSTANTS
  Procs = {p, q}
  Assets = {a}
  NoEntry = NoEntry
  Nothing = Nothing
  MaxVersion = 2
  MaxEdits = 1
  MaxRuns = 3
  MaxTrouble = 1
SYMMETRY InitializationSymmetry
CHECK_DEADLOCK FALSE
INVARIANTS
  LockExclusion
PROPERTIES
  CustomizationKept
  ResetSettled
