SPECIFICATION FairSpec
CONSTANTS
  PER_EVNT_NUM = 2
  APB_EVNT_NUM = 1
  REG_WIDTH = 2
  FC_FIFO_DEPTH = 2
  HANDLER_MIN = 2
  Sources = {0, 1}
  ApbOps <- LiveOps
  ClReady = {TRUE}
  LsLevels = {FALSE}
  MaxArrivals = 5
PROPERTIES
  EventsDrain
  FifoDrains
