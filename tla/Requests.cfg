SPECIFICATION ReqFairSpec
CONSTANTS
  MaxReqs = 2
  Texts <- MCTexts
  RBuf = 6
  Cap = 2
  Tries = 2
INVARIANTS
  LevelIsKept
  LostToNeighbour
  AnswerIsWhole
PROPERTY
  EveryRequestEnds
