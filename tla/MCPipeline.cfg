CONSTANTS
  Nodes <- MCNodes
  Inputs = {}
  MaxMessages = 2
  Steps = 2
  CrashQuota = 1
  ClientRequests = 1
  MutatorTypes = {"all", "swap_nodes", "swap_crash_nodes", "swap_crash_steps", "swap_max_messages"}
  MutationCount = 2
SPECIFICATION PipeSpec
INVARIANT GenTypeOK
INVARIANT GenWellFormed
INVARIANT MutTypeOK
INVARIANT MutKeepsSteps
