CONSTANTS
  Tasks = 2
  Worker = {w1, w2}
  NoOne = NoOne
  Gone = Gone
  Target <- MCTarget
  Finalize <- MCFinalize
  MaxStalls = 2
  MaxCrashes = 1
  MaxCommands = 1
SPECIFICATION FairSpec
INVARIANTS CompletedTaskIsDone TaskInv
PROPERTIES TasksMoveForward TasksSettle CancellationTakesEffect
CHECK_DEADLOCK FALSE
