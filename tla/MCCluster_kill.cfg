CONSTANTS
  Nodes <- MCNodes
  Schedules <- MCSchedules
  ExitCodes = {1}
  MaxSent = 1
  Data = {}
  MaxMsgs = 2
  MaxTrace = 1
SPECIFICATION FairSpec
INVARIANT NoErrorFromKill
