SPECIFICATION FairSpec
CONSTANTS
  None = None
  Items = 3
  Key <- ThreeTables
  Names <- Spellings
  Fold <- FoldOf
  Tails <- TailsOf
  Costs = {1, 4}
  BatchChars = 3
  BatchMax = 2
  Workers = 2
  MaxAnswers = 2
INVARIANTS
  TypeOK
  BatchesFit
  EachBatchOnce
  AnswersArrive
  MeantFor
PROPERTIES
  ImplementsDescribing
  Finishes
CHECK_DEADLOCK FALSE
