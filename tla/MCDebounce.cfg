\* Three changes of three files, times in units of the shorter debounce.
CONSTANTS
  fast = fast
  slow = slow
  goFile = goFile
  sqlFile = sqlFile
  modFile = modFile
  Files <- MCFiles
  Tasks <- MCTasks
  TasksOf <- MCTasksOf
  Wait <- MCWait
  Times = {1, 2}
  MaxNotes = 3
  MaxTime = 9
SPECIFICATION FairSpec
CHECK_DEADLOCK FALSE
INVARIANTS
  OneTimerIsLeft
PROPERTIES
  QuietPeriod
  FeedSpec
  EventuallyHanded
