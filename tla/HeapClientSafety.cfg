SPECIFICATION Spec
CONSTANTS
  Page = 3
  MaxPages = 4
  InitPages = 1
  HeapBase = 1
  Request <- MCRequest
  Value = {0}
  Zero = 0
INVARIANTS
  TypeOK
  NoOverlap
  LastIsTop
  RefusedOnlyWhenFull
  RefusalChangesNothing
