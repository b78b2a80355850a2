\* The file names of the readme of UsbPort, source.vhd and the like.
CONSTANTS
  MaxVersion = 1
  Matching = {1}
  VhdName = TRUE
  TopVhdl = FALSE
SPECIFICATION RunSpec
INVARIANTS VhdlFilesAreAnalysed
