SPECIFICATION LanguageSpec
CONSTANTS
  LevelsMax = 4
  MaxText = 10
  Chunk <- MCChunk
  Families <- MCFamilies
  CallbackLevel = {0, 2, 4}
INVARIANTS JsonslTypeOK StackMirrorsText KeysPairWithValues CallbackSeesItsState
  AcceptsJson AcceptsOnlyLoose StackIsNesting CountsAgree
PROPERTY FeedReturns
