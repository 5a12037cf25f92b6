\* Input that cannot be sought back in: everything read once, in order.
CONSTANTS
  Kind = "pipe"
  InitFile <- ThreeBytes
  InitWriting = FALSE
  BlockSize = 2
  VBufSizes = {1}
  Strategies = {"nbf", "lbf", "fbf"}
  MaxRequest = 3
  SeekOffsets <- Offsets
  Ops = {"read", "getline", "fseek", "fflush", "setvbuf", "clearerr"}
  MaxCalls = 4
  Faults = {"read", "alloc"}
  MaxFaults = 1
SPECIFICATION Spec
PROPERTY ImplementsFile
