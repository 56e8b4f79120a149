CONSTANTS
  Nodes <- MCNodes
  MaxMessages = 2
  Steps = 2
  CrashQuota = 2
  ClientRequests = 1
SPECIFICATION GenSpec
INVARIANT GenWellFormed
