\* One channel that software clears while transfers are enqueued.
SPECIFICATION Spec
CONSTANTS
  N = 1
  Datasize <- DatasizeDef
  Transfers <- Short
  BUFFER_DEPTH = 2
  CLEAR_BUSY = TRUE
  None = None
INVARIANT
  PendingMeansEnabled
