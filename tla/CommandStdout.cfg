SPECIFICATION Spec
CONSTANTS
  MaskBits = 4
  Types <- MCTypes
  Supported <- MCSupported
  Snaplens <- MCSnaplens
  MaskFlags <- MCMaskFlags
  Names <- MCNames
  Asked = "host"
  Files <- MCFiles
  DefaultLinkType = 1
  DefaultSnaplen = 7
  BitAnd <- MCAnd
INVARIANT RawIsOnlyBytes
CHECK_DEADLOCK FALSE
