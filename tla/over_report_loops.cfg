\* The same write function: does every call return?
CONSTANTS
  Kind = "noseek"
  InitFile <- NoBytes
  InitWriting = TRUE
  BlockSize = 2
  VBufSizes = {1}
  Strategies = {}
  MaxRequest = 3
  SeekOffsets <- Offsets
  Ops = {"write", "fflush"}
  MaxCalls = 4
  Faults = {"over"}
  MaxFaults = 1
SPECIFICATION FairSpec
PROPERTY CallsReturn
