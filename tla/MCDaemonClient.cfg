CONSTANTS
  Requests = {list, prompt, kill}
  Mutations = {prompt, kill}
  Nobody = Nobody
  MaxSockets = 2
SPECIFICATION FairSpec
INVARIANTS
  TypeOK
  AckedOnlyAnswered
  OpenerNegotiates
PROPERTIES
  ImplementsCommands
  RequestsSettle
CHECK_DEADLOCK FALSE
