SPECIFICATION Spec
CONSTANTS
  MaxLines = 4
  Keys <- MCKeys
  Values <- MCValues
  Texts <- MCTexts
  EnvStrings <- MCEnvStrings
  MapAsString <- ConvertMapToString
  Files <- MCFiles
  Outcomes <- MCOutcomes
INVARIANTS TypeOK CommandsKeepTheirEnvironment RecomputedIdentifier ResultsAgree
CHECK_DEADLOCK FALSE
