SPECIFICATION TreeSpec
CONSTANTS
  LevelsMax = 5
  MaxComponents = 4
  IntMax = 127
  Callers <- MCUnique
INVARIANT ExistsMeansExists
