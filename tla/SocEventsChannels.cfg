SPECIFICATION Spec
CONSTANTS
  PER_EVNT_NUM = 2
  APB_EVNT_NUM = 1
  REG_WIDTH = 2
  FC_FIFO_DEPTH = 2
  HANDLER_MIN = 2
  Sources = {0}
  ApbOps <- AllOps
  ClReady = {TRUE, FALSE}
  LsLevels = {FALSE}
  MaxArrivals = 4
INVARIANTS
  TypeOK
  Conservation
  FcDelivery
  LossesStayVisible
PROPERTIES
  AckMeansEvent
