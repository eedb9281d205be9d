CONSTANTS
  Keys = {1, 2, 3, 4}
  Hash <- MCHash
  FirstBuckets = 3
  Nodes = {1, 2, 3, 4, 5, 6, 7, 8}
  IndexedNodes = {1, 2, 3, 4, 5, 6}
  RingSize = 3
  RingValues = {"a", "b"}
  PM_Kinds = 2
  PM_CategorySize = 2
  PM_Pointers = {"p", "q"}
  PM_Data = {"d"}
  AL_Elements = {0, 1, 2}
  AL_MaxSize = 4
  NA_Bases = {10, 30}
  NA_MaxSize = 3
  HP_Elements = {1, 2, 3}
  HP_MaxSize = 6
  EXNames = {"x", "y"}
  EXVectors <- MCVectors
  EXRecords = {1, 2, 3}
  STWidth = 3
  STValues <- MCNumbers
  STWord = 2
  STMaxBits = 3
  WIWord = 4
  WIDigit = 3
  WIMaxHigh = 2
  WIFields <- MCFields
  TX_Pieces <- MCPieces
  TX_MaxPieces <- MCMax
  TX_Names <- MCNames
  TX_Tree <- MCTree
  TX_FirstSize = 2
  TX_Replaced <- MCReplaced
  SM_Names = {"x", "y"}
  SM_Lists <- MCLengths
  SM_Stars = {0, 1}
  SM_FieldNames <- MCFieldNames
  SM_BaseTypes <- MCBases
  SM_Levels <- MCLevels
  SM_MaxLevels = 3
  SM_MaxNodes = 4
  SM_Strings <- MCStringRanks
  SM_NamesOfBases <- MCNamesOfBases
  SM_Dimensions <- MCDimensions
  SM_Fields <- MCFieldsCompared
  SM_Enums <- MCEnums
  SM_Widths <- MCWidths
  SM_Rooms = {5, 8, 12, 15, 19}
  SM_MaxScopes = 3
  SM_MaxSymbols = 3
  FM_Pieces <- MCWritten
  FM_MaxPieces <- MCWrittenMax
  FM_Permissions <- MCPermissions
  FM_Variables <- MCVariables
  FM_Bounds = {4, 5, 6, 7}
  FM_Lower <- MCLower
  FM_Bucket <- MCBucket
  FM_Years <- MCYears
  ES_Attributes <- MCAttributes
  ES_MaxErrors = 2
  ES_MaxCommands = 4
SPECIFICATION SuiteSpec
INVARIANTS
  WellLinked RingKept ArraysHold ValuesHold EX_RaiseFindsFrame
  FormatsHold SM_TableHolds
PROPERTIES ImplementsKeyTable ImplementsOrderedTable PositionsKept
CHECK_DEADLOCK FALSE
