SPECIFICATION KeySpec
CONSTANTS
  Symbols <- MCSymbols
  MaxKey = 6
INVARIANTS SameTextMatches
