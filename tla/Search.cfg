SPECIFICATION Spec
CONSTANTS
  Words <- MCWords
  PageFiles <- MCPageFiles
  Exprs <- MCExprs
  MoreTexts <- MCMoreTexts
  SkipBitsLess = 0
INVARIANTS
  EachDocumentOnce
  AnswersExact
  SeeksInTable
  GrammarUnderstood
