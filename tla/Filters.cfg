SPECIFICATION Spec
CONSTANTS
  Frames <- MCFrames
  BitAnd <- MCBitAnd
  Names <- MCNames
  Numbers <- MCNumbers
  Hosts <- MCHosts
  Hosts6 <- MCHosts6
  Ports <- MCPorts
  StationTests <- MCStations
  NamedHosts <- MCNamedHosts
  NamedStations <- MCNamedStations
  Gateways <- MCGateways
  Groups <- MCGroups
  LlcTests <- MCLlc
  WlanTests <- MCWlan
  DecnetHosts <- MCDecnet
  Ids <- MCIds
  MaxSaid = 4
INVARIANTS
  FilterMeansFrame
  OffsetsFollowTheLayers
  ClippedFramesAreNotMisread
  UnknownHostsAreRefused
CHECK_DEADLOCK FALSE
