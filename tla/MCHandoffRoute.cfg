CONSTANTS
  Modes = {"published", "beads"}
  NoUndo = NoUndo
  MaxCalls = 1
  MaxTrouble = 2
SPECIFICATION Spec
PROPERTIES
  RefreshedRouteRecorded
CHECK_DEADLOCK FALSE
