CONSTANTS
  NSig = 2
  RtMin = 3
  SIGSEGV = 1
  Faults = {1}
  SaMask <- MCSaMask
  NoDefer = {}
  Masks <- MCMasks
  Actions = {"fn"}
  QueueSize = 0
  MaxArrivals = 2
SPECIFICATION Spec
CHECK_DEADLOCK FALSE
PROPERTIES SignalsAreDelivered
