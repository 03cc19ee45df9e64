CONSTANTS
  r = r
  a = a
  b = b
  Sessions = {r, a}
  Root = r
  Ancestors <- Lineage
  Elsewhere = {}
  Heads = {terminal, later}
  Expected = terminal
  Absent = Absent
  MaxTrouble = 2
SPECIFICATION Spec
PROPERTY CloneBytesKept
CHECK_DEADLOCK FALSE
