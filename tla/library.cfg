CONSTANTS
  SET_LEN = 1
  SET_LEN_INCR = 2
  Umasks <- MCUmasks
  OldModes <- MCOldModes
  Absolutes <- MCAbsolutes
  ModeLetters = {"u", "o", "a", "+", "-", "=", "r", "x", "X", "t", ","}
  MaxModeString = 5
  Nodes <- MCNodes
  NodeKey <- MCNodeKey
  NULL = NULL
  Local = Local
  SplayNodes = {1, 2, 3, 4, 5, 7}
  VisFlags <- MCVisFlags
  FirstChars = {0, 7, 9, 10, 27, 32, 33, 35, 37, 42, 48, 57, 77, 92, 97, 110, 126, 127, 128, 137, 155, 159, 160, 192, 220, 255}
  NextChars = {0, 7, 10, 32, 42, 48, 56, 92, 94, 220}
  MaxVis = 3
  VisSizes = {0, 2, 3, 4, 5, 6, 8, 11}
  DEFAULT_MAX_ARGSPECS = 1
  ARGSPECS_BUMP_VALUE = 1
  DEFAULT_MAX_VALUES = 1
  PAD = 2
  BLOCK = 3
  SIZE_MOD = 65536
  FormatChars = {"%", "1", "2", "$", "*", ".", "d", "m", "n"}
  MaxFormat = 7
  LongFormats <- MCLongFormats
  MaxNumber = 12
  Arguments <- MCArguments
  BufSizes = {0, 1, 2, 3, 4, 5, 7}
  FieldFlags <- MCFieldFlags
  FieldWidths <- MCFieldWidths
  FieldPrecisions <- MCFieldPrecisions
  FieldSpecs = {"d", "u", "x", "o", "f", "s"}
  FieldValues <- MCFieldValues
  SL_CHUNKSIZE = 2
  SlStrings = {"s1", "s2", "s3", "s4"}
  SlName <- MCSlName
  BUFSIZ = 2
  LineSizes = {2, 3, 5}
  Texts <- MCTexts
  Dates <- MCDates
  INT_MAX = 536870911
  TimeTypes = {"long", "int"}
  RootSize = 4
  LLONG_MAX = 3
  ENTROPY_MAX = 3
  EntropySizes = {0, 1, 3, 4}
SPECIFICATION LibrarySpec
INVARIANTS
  LibraryTypeOK
  ArrayHolds
  MaskProtected
  CompressKeeps
  ModeMeaning
  RBSound
  RBFinds
  SplaySound
  VisRoundTrip
  StrnvisFits
  ArgumentsFit
  FieldMeaning
  OutputBuffered
  GrowthKeeps
  CalendarAgrees
  NumbersExact
  CallsAccounted
CHECK_DEADLOCK FALSE
