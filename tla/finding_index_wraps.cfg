SPECIFICATION LanguageSpec
CONSTANTS
  MaxComponents = 4
  IntMax = 127
  MaxInUse = 3
  Texts <- MCTexts
  Families <- MCNumbers
INVARIANT IndexFits
