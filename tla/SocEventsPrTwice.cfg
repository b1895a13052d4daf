SPECIFICATION Spec
CONSTANTS
  PER_EVNT_NUM = 2
  APB_EVNT_NUM = 1
  REG_WIDTH = 2
  FC_FIFO_DEPTH = 4
  HANDLER_MIN = 2
  Sources = {0}
  ApbOps <- TwoChannelOps
  ClReady = {TRUE}
  LsLevels = {FALSE}
  MaxArrivals = 10
INVARIANTS
  TakenMeansPopped
