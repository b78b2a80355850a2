\* Two requests at a time on ports of two bits, so that Limit is 1.
CONSTANTS
  Request = {r1, r2}
  Width = 2
  Value <- MCValue
  Missing = Missing
  NoPut = NoPut
SPECIFICATION HttpSpec
INVARIANTS HttpTypeOK ReadIsOfThePort WriteIsKept
SYMMETRY Symmetry
