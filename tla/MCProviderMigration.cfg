\* Two processes, a task, two Conversations: what one migration leaves is what
\* another, or the retry of it, finds.
SPECIFICATION Spec
CONSTANTS
  Procs = {m, n}
  Tasks = {a}
  Owners = {c, d}
  Original = Original
  Receipt = Receipt
  NoOwner = NoOwner
  MaxEdits = 1
  MaxCalls = 2
  MaxTrouble = 2
SYMMETRY MigrationSymmetry
CHECK_DEADLOCK FALSE
INVARIANTS
  NothingLost
  OwnersFollow
PROPERTIES
  NobodyStranded
  ReportTruthful
