CONSTANTS
  r1 = r1
  r2 = r2
  Repositories <- MCRepositories
  Fact = {"risky"}
  Tick = {t1, t2}
  MaxPerInterval = 1
  Hours = 2
  StartHour = 1
  EndHour = 0
  MaxDisturbances = 2
  None = None
SPECIFICATION RuntimeSpec
INVARIANTS NotifiedWithinLimits
PROPERTIES ToldOncePerStreak UrgentIsNoticed
