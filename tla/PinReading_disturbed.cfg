\* The pin is the first bit of a net of two.
CONSTANTS
  PinSize = 2
  Index = 0
  CoutSize = 2
  PortSize = 2
SPECIFICATION ReadSpec
INVARIANTS PinReadsItsNet
