\* A terminal or socket that is read, then written.
CONSTANTS
  Kind = "pipe"
  InitFile <- ThreeBytes
  InitWriting = TRUE
  BlockSize = 2
  VBufSizes = {1}
  Strategies = {"nbf", "lbf", "fbf"}
  MaxRequest = 3
  SeekOffsets <- Offsets
  Ops = {"read", "write", "fflush"}
  MaxCalls = 4
  Faults = {}
  MaxFaults = 1
SPECIFICATION Spec
INVARIANT InputDiscarded
