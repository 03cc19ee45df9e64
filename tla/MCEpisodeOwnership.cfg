CONSTANTS
  Migrators = {c1}
  Owners = {c1, c2}
  Tasks = {t1, t2}
  Paths = {p1}
  Sources = {s1}
  Episodes = {e1}
  Contents = {x1}
  None = None
  NoRecord = NoRecord
SPECIFICATION FairSpec
INVARIANTS
  TypeOK
  LockExclusion
  ActiveBindingsUnique
  RetiredProviderUnowned
PROPERTIES
  ImplementsRegistry
  OperationsEnd
