SPECIFICATION Spec
CONSTANTS
  DayLength = 4
  MaxOffset = 2
  MaxDaysAhead = 3
  MaxWindows = 2
CHECK_DEADLOCK FALSE
INVARIANTS TypeOK AnswersTheFirstOpening ScheduledReadsAStart
