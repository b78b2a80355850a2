\* A page, loaded again and again, of one led and two switches, of which one
\* is on the board.
CONSTANTS
  Viewer = {c1}
  Pin = {ledr, sw}
  NoPin = NoPin
  Led = {ledr}
  Switch = {sw, sw9}
  None = None
  MaxMessage = 2
SPECIFICATION FairUiSpec
INVARIANTS UiTypeOK LedIsAnnounced SwitchOfLastIsRight
PROPERTIES LedsCatchUp
