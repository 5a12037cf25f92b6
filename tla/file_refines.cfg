\* A seekable file, every call, short transfers, failing reads, seeks, allocations.
CONSTANTS
  Kind = "file"
  InitFile <- ThreeBytes
  InitWriting = TRUE
  BlockSize = 2
  VBufSizes = {1}
  Strategies = {"nbf", "lbf", "fbf"}
  MaxRequest = 3
  SeekOffsets <- Offsets
  Ops = {"read", "write", "getline", "fseek", "fflush", "setvbuf"}
  MaxCalls = 4
  Faults = {"read", "seek", "alloc", "event", "zero", "close"}
  MaxFaults = 1
SPECIFICATION Spec
INVARIANTS TypeOK BufferBounds ShortOnlyAtEnd NoSilentFault
PROPERTY ImplementsFile
