CONSTANTS
  PKT_BUFFER_SIZE = 4
  Packet = {p, q}
  NoPacket = NoPacket
SPECIFICATION Spec
INVARIANT PollStaysValid
PROPERTIES ImplementsFifo SendReturns
