SPECIFICATION FairSpec
CONSTANTS
  Clients = {button}
  Servers = {save}
  MaxId = 5
CHECK_DEADLOCK FALSE
INVARIANTS
  ImportsFirst
  FailureContained
PROPERTIES
  StreamSpec
  RenderEnds
