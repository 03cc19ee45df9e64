SPECIFICATION FairSpec
CONSTANTS
  c1 = c1
  c2 = c2
  t = t
  a = a
  b = b
  v = v
  Owners = {c1, c2}
  Tasks = {t}
  Agents = {a, b, v}
  Visitors = {v}
  None = None
  NoEntry = NoEntry
  MaxTrouble = 2
INVARIANTS
  NoDuplicates
  Reconcilable
  ActiveIsAssigned
PROPERTIES
  EvidenceKept
  CreationCompletes
