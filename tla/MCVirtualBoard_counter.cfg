\* One viewer of the clock and a two-bit output of up_counter.
CONSTANTS
  NoPin = NoPin
  NoPut = NoPut
  p1 = p1
  p2 = p2
  clk = clk
  led = led
  sw = sw
  Conn = {c1}
  Pin = {p1, p2}
  Net = {clk, led}
  Input = {clk}
  Clock = {clk}
  Width <- CounterWidth
  PinNet <- CounterPinNet
  PinIndex <- CounterPinIndex
  MaxPending = 1
SPECIFICATION Spec
INVARIANTS TypeOK StaleIsAnnounced HandlerTracksConnections
