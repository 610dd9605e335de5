SPECIFICATION TreeSpec
CONSTANTS
  LevelsMax = 6
  Trees <- MCTrees
  Spacing <- MCSpacing
  Paths <- MCPaths
  Uniques <- MCUniques
INVARIANTS VerdictIsRight MatchIsExact SiblingsAreCounted
  DeepestParentIsExact UniqueIsDecided
