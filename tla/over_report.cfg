\* A user's write function that reports more than it was given.
CONSTANTS
  Kind = "noseek"
  InitFile <- NoBytes
  InitWriting = TRUE
  BlockSize = 2
  VBufSizes = {1}
  Strategies = {}
  MaxRequest = 3
  SeekOffsets <- Offsets
  Ops = {"write", "fflush"}
  MaxCalls = 3
  Faults = {"over", "write"}
  MaxFaults = 1
SPECIFICATION FairSpec
PROPERTY FlushEnds
