SPECIFICATION Spec
CONSTANTS
  ByteBase = 4
  WordBits = 8
  MaxInsns = 120
  MemSlots = 4
  MaxBack = 2
  BitAnd <- MCAnd
  BitOr <- MCOr
  BitXor <- MCXor
  Shl <- MCShl
  Shr <- MCShr
  Snaplen = 7
  OffLinkHdr = 0
  OffLinkType = 2
  OffLinkPl = 4
  OffNl = 0
  OffProto = 3
  OffFrag = 1
  FragMask = 7
  EtherIP = 8
  ProtoTCP = 2
  Exprs <- MCExprs
  Prefixed <- MCPrefixed
  Packets <- MCPackets
  Garbage = {3}
INVARIANTS
  GraphMeansExpression
  InstructionsMeanGraph
  ProgramIsWhole
  RefusedRejectsAll
  RegistersHaveOneOwner
PROPERTIES
  CompileEnds
