SPECIFICATION FairRun
CONSTANTS
  ByteBase = 2
  WordBits = 4
  MaxInsns = 4
  MemSlots = 1
  MaxBack = 2
  BitAnd <- MCAnd
  BitOr <- MCOr
  BitXor <- MCXor
  Shl <- MCShl
  Shr <- MCShr
  Instruction <- MCInstruction
  BufSize = 4
  Content <- MCContent
  WireLength <- MCWireLength
INVARIANTS
  RunTypeOK
  StopsOnPurpose
  StaleBytesInvisible
PROPERTIES
  EveryStepAdvances
  EveryRunEnds
CHECK_DEADLOCK FALSE
