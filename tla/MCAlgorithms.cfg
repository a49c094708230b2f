CONSTANTS
  Width = 2
  MaxN = 4
  Corpora <- MCCorpora
  Bits = 1
  Word = 8
  Levels <- MCLevels
  IntRange = 8
  FrameLengths <- MCLengths
  MaxSamples = 133
  Words <- MCWords
SPECIFICATION MCSpec
INVARIANTS
  NgramsDistinct
  PrecisionsClipped
  ScoreDefined
  SumFits
  MeanClose
  ResultFits
  ScriptIsEdit
  ScriptIsShortest
CHECK_DEADLOCK FALSE
