SPECIFICATION Spec
CONSTANTS
  Names <- MCNames
  Canonical = "svc"
  Prefixed <- MCPrefixed
  Lookalikes <- MCLookalikes
  Left <- MCLeft
  MaxPolls = 2
  MaxTries = 2
CHECK_DEADLOCK FALSE
INVARIANTS
  InstalledIsAlone
  UninstallIsComplete
PROPERTIES
  
  CommandEnds
