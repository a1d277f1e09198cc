SPECIFICATION FairSpec
CONSTANTS
  e1 = e1
  e2 = e2
  Executions = {e1, e2}
  UniqueCronId = ""
  FirstSleep = 2
  MaxSleepTime = 3
  ClockTicks = TRUE
INVARIANTS TypeOK OneOdpPerExecution SuccessRunsTheCommand GivesUpAfterMaxSleep
PROPERTIES EveryStartEnds ImplementsCronExecution
CHECK_DEADLOCK FALSE
