SPECIFICATION Spec
CONSTANTS
  a = a  b = b  none = none  blue = blue  Root = Root
  LongDocs = 0
  WideDocs = 0
  CharsPerToken = 2
  MinTokens = 3
  TargetTokens = 6
  HardTokens = 9
  Places <- AllPlaces
  Links <- AllLinks
  VaultRoot <- TheRoot
  Docs <- ShortTexts
  Configs <- AllConfigs
  Requests <- AllRequests
  Queries <- AllQueries
  DebugQueries <- AllDebugQueries
  Setups <- AllSetups
  Broken = Broken  NoConfig = NoConfig  Absent = Absent  NoAnswer = NoAnswer
INVARIANTS
  SearchAppliesGuardrails
