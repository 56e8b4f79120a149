CONSTANTS
  Fuzzers <- MCFuzzers
  Workers = 2
  Iterations = 6
  SeedFrequencies = {3, 4}
  SeedPopulation = 2
  MutationsPerSchedule = 1
  Keys = {k1, k2, k3}
  Traces <- MCTraces
  Experiments = 2
  FloatRangeRaises = FALSE
  MutatorType = "all"
  MutationCount = 1
  Steps = 2
  CrashQuotas = {0, 1}
SPECIFICATION DrvSpec
INVARIANT DrvTypeOK
INVARIANT CoverageMonotone
INVARIANT ReseedPeriod
INVARIANT TraceClasses
