SPECIFICATION LanguageSpec
CONSTANTS
  MaxComponents = 4
  IntMax = 127
  MaxInUse = 3
  Texts <- MCTexts
  Families <- MCFamilies
INVARIANTS PathTypeOK KeysFit ShapeIsRight StringsAreApart ParseIsRight
PROPERTIES KeysStand ParseReturns
