CONSTANTS
  Texts <- MCTexts
  Grammars <- MCGrammars
  MaxPairs = 1
  ShortLength = 2
  CommentLength = 3
  LongLength = 2
CHECK_DEADLOCK FALSE
SPECIFICATION Spec
INVARIANTS
  TextAccounted
  LinesRight
  StoreRight
  LookupsRight
  CommentsBlank
