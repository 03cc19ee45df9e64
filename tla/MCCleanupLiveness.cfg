CONSTANTS
  r = r
  a = a
  b = b
  Sessions = {r, a, b}
  Root = r
  Ancestors <- Lineage
  Elsewhere = {b}
  Heads = {terminal, later}
  Expected = terminal
  Absent = Absent
  MaxTrouble = 2
SPECIFICATION FairSpec
PROPERTY CleanupCompletes
CHECK_DEADLOCK FALSE
