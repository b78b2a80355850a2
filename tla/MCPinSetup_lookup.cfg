\* A pin of the board with the name of a port.
CONSTANTS
  A0 = A0
  LED0 = LED0
  S0 = S0
  SW0 = SW0
  Other = Other
  cout = cout
  enable = enable
  state = state
  nosuch = nosuch
  InPort = InPort
  OutPort = OutPort
  Absent = Absent
  Label = {A0, LED0, S0, SW0, Other, enable}
  Signal = {cout, enable, state, nosuch, InPort, OutPort}
  Boards <- MCBoards
  Configs <- MCConfigs
  Tops <- MCTops
SPECIFICATION SetupSpec
INVARIANTS IdsReachTheirPin
