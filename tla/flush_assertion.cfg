\* Does the assertion of es_flush hold on a file that is read and written?
CONSTANTS
  Kind = "file"
  InitFile <- ThreeBytes
  InitWriting = TRUE
  BlockSize = 2
  VBufSizes = {1}
  Strategies = {"nbf", "lbf", "fbf"}
  MaxRequest = 3
  SeekOffsets <- Offsets
  Ops = {"read", "write", "getline", "fseek", "fflush", "setvbuf"}
  MaxCalls = 4
  Faults = {}
  MaxFaults = 1
SPECIFICATION Spec
INVARIANT FlushAssertHolds
