SPECIFICATION TreeSpec
CONSTANTS
  LevelsMax = 5
  MaxComponents = 4
  IntMax = 127
  Callers <- MCCallers
INVARIANTS SegmentsInOrder StaysInReach NewRootFits
PROPERTIES ImplementsSubdoc ExecReturns
