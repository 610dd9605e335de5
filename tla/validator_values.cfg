SPECIFICATION ValidatorSpec
CONSTANTS
  LevelsMax = 5
  MaxTokens = 3
  Values <- MCValues
  Depths <- MCDepths
  Modes <- MCModes
INVARIANTS ValidatorTypeOK ValueStaysInside ValidIsShallow FlagsHold JsonIsValid
PROPERTY ValidateReturns
