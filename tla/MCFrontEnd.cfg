CONSTANTS
  RawTexts <- MCTexts
  Programs <- MCPrograms
  Letters <- MCLetters
  Keywords <- MCKeywords
SPECIFICATION Spec
CHECK_DEADLOCK FALSE
INVARIANTS
  TypeOK
  TokensInPlace
  LongestTokens
  TypesReadBack
  MethodsByMeaning
