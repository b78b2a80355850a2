\* Two viewers of one output pin; the server can be woken.
CONSTANTS
  NoPin = NoPin
  NoPut = NoPut
  p1 = p1
  p2 = p2
  clk = clk
  led = led
  sw = sw
  Conn = {c1, c2}
  Pin = {p1}
  Net = {led}
  Input = {}
  Clock = {}
  Width <- LedWidth
  PinNet <- LedPinNet
  PinIndex <- LedPinIndex
  MaxPending = 1
SPECIFICATION WakeableSpec
INVARIANTS StaleIsAnnounced HandlerTracksConnections
PROPERTIES ViewersCatchUp DuePinsAreRead PostedJobsAreTaken ShutIsDeleted ImplementsFeed
