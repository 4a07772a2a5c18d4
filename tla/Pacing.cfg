\* One and two threads, a limit of 8 or none, frames that take 2 or 9, two sessions.
SPECIFICATION FairSpec
CONSTANTS
  MaxStep = 2
  MinShift = 1
  HoldTicks = 1
  Margin = 1
  Periods = {0, 8}
  Loads = {2, 9}
  Drifts <- SmallDrifts
  MaxSessions = 2
INVARIANTS OwnShifts NoOvershoot PeriodKept
PROPERTIES DebtPaid
