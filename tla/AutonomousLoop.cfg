CONSTANTS
  r1 = r1
  r2 = r2
  Repositories <- MCRepositories
  Fact <- MCFact
  Tick = {t1, t2}
  CHRONIC_CYCLE_THRESHOLD = 2
  MaxCycles = 3
  MaxFaults = 2
  None = None
SPECIFICATION Spec
INVARIANTS CyclesAreConsecutive StreakIsTrue
PROPERTIES AttemptsAreSpaced
