SPECIFICATION Spec
CONSTANTS
  Words <- WordSet
  Fields = {"*"}
  Macros = {"@midnight"}
  Letters = {"*"}
  Escaped <- EscapedWords
  Ahead <- AheadOf
  Lines <- SomeLines
  Envs <- Assignments
  NameOrder <- Sorted
  TZ <- TZName
  CRON_TZ <- CronTZName
  POD_CMD <- Cmd
  POD_USERNAME <- Username
  Owner <- User
  TimeZones <- Zones
  Images = {1, 2}
  MaxEdits = 1
  MaxDeploys = 1
INVARIANTS RequestsCarryTheLine LinesAreServed JobsAreCurrent
CHECK_DEADLOCK FALSE
