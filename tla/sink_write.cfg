\* Output to an object without a seek function whose writes fail and fall short.
CONSTANTS
  Kind = "noseek"
  InitFile <- NoBytes
  InitWriting = TRUE
  BlockSize = 2
  VBufSizes = {1}
  Strategies = {"nbf", "lbf", "fbf"}
  MaxRequest = 3
  SeekOffsets <- Offsets
  Ops = {"write", "fflush", "setvbuf", "fseek"}
  MaxCalls = 4
  Faults = {"write", "event", "zero", "close"}
  MaxFaults = 2
SPECIFICATION Spec
INVARIANTS OutputExact OutputKept NoSilentFault
