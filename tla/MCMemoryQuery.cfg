SPECIFICATION FairSpec
CONSTANTS
  Memories <- MCMemories
  Content <- MCContent
  Position <- MCPosition
  WordsOf <- MCWordsOf
  VectorScores <- MCVectorScores
  Requests <- MCRequests
INVARIANT TypeOK
INVARIANT RetrievalIsJustified
INVARIANT ContextIsJustified
INVARIANT AnswerIsCurrent
PROPERTY EveryQueryEnds
CHECK_DEADLOCK FALSE
