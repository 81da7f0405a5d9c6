CONSTANTS
  CkDates <- MCDates
  CkTimes <- MCTimes
SPECIFICATION CkSpec
INVARIANT ClockRight
CHECK_DEADLOCK FALSE
