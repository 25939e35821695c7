SPECIFICATION FairSpec
CONSTANTS
  Page = 10
  MaxPages = 2
  InitPages = 1
  HeapBase = 10
  PcapLen = 1
  ArenaLen = 1
  LexerLen = 1
  StringLens = {1, 2, 7, 8, 9, 10, 11}
  Sizes = {1, 2}
  Snaplens <- MCSnaplens
  MaxSteps = 3
  MaxLong = 2
INVARIANTS
  TypeOK
  ErrorsAreTold
  NoErrorIsLost
  FailedIsOpen
  BlocksApart
  OnlyTheResultRemains
  CompileInv
PROPERTIES
  EveryCompileEnds
CHECK_DEADLOCK FALSE
