CONSTANTS
  r = r
  a = a
  b = b
  Sessions = {r, a, b}
  Root = r
  Ancestors <- Lineage
  Elsewhere = {}
  Heads = {terminal, later}
  Expected = terminal
  Absent = Absent
  MaxTrouble = 3
SPECIFICATION Spec
INVARIANTS
  RemoteIdentifiable
PROPERTIES
  OwnershipRemovedLast
  OnlyTerminalRefsDeleted
  WorktreeBytesKept
CHECK_DEADLOCK FALSE
