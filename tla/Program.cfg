SPECIFICATION FairSpec
CONSTANTS
  ByteBase = 2
  WordBits = 4
  MaxInsns = 6
  MemSlots = 1
  MaxBack = 2
  BitAnd <- MCAnd
  BitOr <- MCOr
  BitXor <- MCXor
  Shl <- MCShl
  Shr <- MCShr
  Goroutine = {g1, g2}
  NoOne = NoOne
  Snaplen = 2
  Filter <- MCFilter
  Packet <- MCPacket
INVARIANTS
  TypeOK
  BuffersAreMine
  AsIfAlone
PROPERTIES
  IsFilterObject
  EveryCallReturns
