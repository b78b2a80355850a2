\* A viewer changes one of two pins on a two-bit input.
CONSTANTS
  NoPin = NoPin
  NoPut = NoPut
  p1 = p1
  p2 = p2
  clk = clk
  led = led
  sw = sw
  Conn = {c1}
  Pin = {p1, p2}
  Net = {sw}
  Input = {sw}
  Clock = {}
  Width <- SwitchWidth
  PinNet <- SwitchPinNet
  PinIndex <- SwitchPinIndex
  MaxPending = 1
SPECIFICATION Spec
PROPERTIES ChangeTouchesOnePin
