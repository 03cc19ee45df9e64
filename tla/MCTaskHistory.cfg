SPECIFICATION Spec
CONSTANTS
  Kinds = {"published", "tracked", "beads"}
  Procs = {p1, p2}
  Primary = primary
  Worktrees = {w}
  Tasks = {a, b}
  Selected = {a}
  Marker = marker
  NoClone = NoClone
  MaxEdits = 5
  MaxCalls = 2
  MaxTrouble = 1
SYMMETRY ProcSymmetry
INVARIANTS
  DraftsStayLocal
  EditPublished
  RelocatedConfigPublished
  CalmPrepared
PROPERTIES
  ImplementsTaskLog
  LocalWorkKept
CHECK_DEADLOCK FALSE
