CONSTANTS
  Nodes <- MCNodes
  Inputs <- MCInputs
  MaxMessages = 2
  MutatorTypes = {"swap_crash_nodes", "swap_crash_steps"}
  MutationCount = 2
  Steps = 2
  CrashQuota = 1
SPECIFICATION MutSpec
INVARIANT MutPreservesPairing
