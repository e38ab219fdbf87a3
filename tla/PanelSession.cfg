SPECIFICATION PanelSpec
CONSTANTS
  None = None  Gone = Gone  MaxCalls = 2
  chat = chat  tool = tool  nl = nl  begin1 = begin1  end1 = end1
  begin2 = begin2  end2 = end2  other = other
  Services <- TwoServices  Chats <- OneChat  Streaming <- OneChat
  NL = nl  DataLines <- Lines  Replies <- Streams
  MaxSends = 2  MaxMounts = 3
  s1 = s1  s2 = s2  Ids <- DialogIds  Stored <- StoredIds
  card1 = card1  group1 = group1  Cards <- OneCard  GroupIds <- OneGroup
  key1 = key1  slug1 = slug1  KeyIds <- OneKey  Slugs <- OneSlug  All = All
  day = day  week = week  unfiltered = unfiltered  errors = errors  log1 = log1  log2 = log2
  Periods <- TwoPeriods  Day = day  Queries <- TwoQueries  Unfiltered = unfiltered
  Logs <- TwoLogs
  ann = ann  bob = bob  tab1 = tab1  tab2 = tab2  Users <- TwoUsers  Tabs <- TwoTabs
  llm = llm  Admins <- TwoUsers  Llms <- OneLlm
INVARIANTS TypeOK WaitsForOwn Paired OwnService StreamWhole
  PanelTypeOK FormOfItsOwn HealthOfItsOwn BoardSettled ReadingsAgree
  ShowsSelection TextsFit SpinnersTurn SavedWhole 
CHECK_DEADLOCK FALSE
