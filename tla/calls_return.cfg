\* A file opened for appending: every call returns, output goes to its end.
CONSTANTS
  Kind = "append"
  InitFile <- ThreeBytes
  InitWriting = TRUE
  BlockSize = 2
  VBufSizes = {1}
  Strategies = {"nbf", "lbf", "fbf"}
  MaxRequest = 3
  SeekOffsets <- Offsets
  Ops = {"read", "write", "getline", "fseek", "fflush", "setvbuf"}
  MaxCalls = 3
  Faults = {"read", "seek", "alloc", "event", "zero", "close"}
  MaxFaults = 1
SPECIFICATION FairSpec
PROPERTIES CallsReturn ImplementsFile
