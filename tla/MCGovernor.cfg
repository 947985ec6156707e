CONSTANTS
  Callers = {c1, c2, c3}
  InFlight = 2
  PerSecond = 2
  PerMinute = 1
  Second = 1
  Minute = 2
  DailyBudget = 2
  MaxViolations = 1
  FlushInterval = 2
  LastDay = 2
SPECIFICATION Spec
SYMMETRY MCSymmetry
INVARIANTS GovernorInv RateKept
PROPERTIES BlockedDaySpendsNothing
