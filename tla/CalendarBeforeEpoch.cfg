SPECIFICATION CalendarSpec
CONSTANTS
  FirstYear = 1968
  LastYear = 1971
INVARIANTS
  CountsTheDays
CHECK_DEADLOCK FALSE
