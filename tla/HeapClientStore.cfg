SPECIFICATION Spec
CONSTANTS
  Page = 3
  MaxPages = 2
  InitPages = 1
  HeapBase = 1
  Request <- MCRequest
  Value = {0, 1}
  Zero = 0
INVARIANTS
  HeapInv
PROPERTIES
  ImplementsStore
