SPECIFICATION Spec
CONSTANTS
  Words <- MCWords
  PageFiles <- MCPageFiles
  Exprs <- RepeatedExprs
  MoreTexts <- NoMoreTexts
  SkipBitsLess = 0
INVARIANT
  MatchInOneDocument
