\* Two versions of a top entity file named with .vhdl.
CONSTANTS
  MaxVersion = 3
  Matching = {1, 3}
  VhdName = TRUE
  TopVhdl = TRUE
SPECIFICATION RunSpec
INVARIANTS ScriptTypeOK SourcesAreKept ConvertedIsWhole RunTypeOK SimulatedIsOfTheProject
