SPECIFICATION MatchSpec
CONSTANTS
  LevelsMax = 5
  MaxTokens = 5
  Documents <- MCDocuments
  Paths <- MCPaths
  Options <- MCOptions
INVARIANTS MatchTypeOK ExpectsHold LocationsInDocument MatchIsNamed
PROPERTIES LocationStands SearchReturns
