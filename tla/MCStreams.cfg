CONSTANTS
  Values = {"a", "b"}
  MaxItems = 6
  LB_MaxSize = 3
  LB_MaxLines = 2
  LB_CopyLines = 3
  LB_CopySize = 2
  LB_TabStops = 2
  LB_LastLine = 4
  LB_Strings <- MCStrings
  IB_MaxDepth = 2
  IB_MaxRead = 3
  IB_Calls = 8
  IB_Length = 3
  IB_TabStops = 4
  IB_MaxUnread = 2
  IB_Texts <- MCTexts
  PL_Ios = {"p", "q"}
  PL_Data = {"a", "b"}
  PL_MinSize = 1
  PL_MaxAdds = 3
  EP_Fds = {0, 1}
  EP_Data = {"a", "b"}
  EP_MaxEvents = {1, 2}
  AI_Pairs <- MCPairs
  AI_OldActions = {"default"}
  FC_Blocks = 2
  FI_Capacity = 3
  FI_Backlog = 2
  FI_MaxLine = 2
  FI_MaxLines = 4
  MA_Greetings = {1, 2}
  ABTexts <- MCPrinted
  ABSize = 2
  ABCalls = 5
  BISource <- MCSource
  BILengths = {0, 1, 2}
  MFFiles = {1, 2}
  MFLimit <- MCLimits
  MFCapacity = 2
  MFWritten = 3
  MD_Threads = {"s", "t"}
  MD_Blocks = {1, 2, 3, 4}
  MD_MaxBookkeeping = 10
  MD_FirstRoom = 2
  MD_FirstBuckets = 2
  MD_Slop = {0, 1}
  MD_MaxCalls = 3
  SK_Sockets = {"s", "c"}
  SK_Addrs = {"x", "y"}
  SK_Ports = {1}
  SK_Pools = {1, 2, 3, 4, 5}
  SK_Calls = 5
  PD_Processes = {1, 2}
  PD_Base = 2
  PD_Values = {0, 1, 2, 4}
  PD_Calls = 4
  PD_Kinds <- MCKinds
  TR_Block = 2
  TR_Name = 3
  TR_Prefix = 5
  TR_Entries <- MCEntries
  TR_MaxEntries = 2
  PG_Lines <- MCLines
  PG_Flags <- MCFlags
  PG_MaxLines = 4
  PG_Indent = 1
SPECIFICATION SuiteSpec
INVARIANTS
  DurableIsWhole Bracketed MarksMatch
  LinesWhole IB_PositionTrue PL_SetFollowsClient EP_ReportsEachOnce AI_ReadyCalledOnce FC_NothingLost
  FI_NeverStuck MA_TruthTold AB_Arrives BI_InOrder MF_StringStands MD_RecordsTrue
  SK_NothingDangles PD_Found TR_ReadsWritten
PROPERTY DurablePrefixKept
CHECK_DEADLOCK FALSE
