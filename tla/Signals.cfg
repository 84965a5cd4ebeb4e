CONSTANTS
  NSig = 3
  RtMin = 3
  SIGSEGV = 1
  Faults = {1, 2}
  SaMask <- MCSaMask
  NoDefer = {3}
  Masks <- MCMasks
  Actions = {"fn", "once", "ign"}
  QueueSize = 1
  MaxArrivals = 3
SPECIFICATION Spec
CHECK_DEADLOCK FALSE
INVARIANTS DequeueFindsEntry StandardSignalsKept
PROPERTIES DeliveredUnlessStranded
