\* All files of three characters within a context, for both programs.
CONSTANTS
  MaxDigits = 2
  MaxLen = 3
  Inputs <- ReaderInputs
SPECIFICATION ReadersSpec
INVARIANTS CfgTypeOK BoardReadsAsWritten QsfReadsAsWritten
