SPECIFICATION TimeSpec

CONSTANTS
  DayLength = 4
  WeekLength = 2
  LongMonth = 3
  ShortMonth = 2
  Shortest = 2
  Longest = 4
  Minutes = {2}
  Starts = {}
  Gaps = {5}
  Folds = {17}
  Horizon = 22
  Never = Never

INVARIANT WallClockKept

CHECK_DEADLOCK FALSE
