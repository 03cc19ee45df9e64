CONSTANTS
  NoUndo = NoUndo
  Modes = {"folder", "branch", "published", "beads"}
  MaxCalls = 2
  MaxTrouble = 3
SPECIFICATION FairSpec
INVARIANTS
  ExecuteFollowsHandoff
  ReportTruthful
  CalmAdmitted
PROPERTIES
  EvidenceAfterAdmission
  SwitchKept
  CallsEnd
CHECK_DEADLOCK FALSE
