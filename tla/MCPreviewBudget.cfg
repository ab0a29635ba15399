SPECIFICATION Spec
CONSTANTS
  s1 = s1
  s2 = s2
  Services <- MCServices
  MaxDaily = 1
  MaxJobs = 2
  MaxDay = 0
INVARIANTS
  DailyLimit
