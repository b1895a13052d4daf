\* Two channels; software that looks before it enqueues or clears.
SPECIFICATION FairSpec
CONSTANTS
  N = 2
  Datasize <- DatasizeDef
  Transfers <- Mixed
  BUFFER_DEPTH = 2
  CLEAR_BUSY = FALSE
  None = None
INVARIANTS
  TypeOK
  GrantHasTransfer
PROPERTIES
  ImplementsTransferQueue
  TransfersEnd
