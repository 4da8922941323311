\* A feed from a stranger or from another instance, cut anywhere, read under
\* every kind of configuration.
SPECIFICATION Spec
CONSTANTS
  None = None
  Clean <- MCClean
  HttpURLs <- MCHttpURLs
  SafeURLs <- MCSafeURLs
  Configs <- MCConfigs
  Feeds <- MCFeeds
  Calendars <- MCCalendars
  Tokens <- MCTokens
  Names <- MCNames
  Times <- MCTimes
  Zones <- MCZones
  InZone <- MCInZone
  TwoHours <- MCTwoHours
  ZeroTime = "0"
  Lower <- MCLower
  WebAddress = {"https://x"}
  MaxToken = 8
INVARIANTS
  FeedTypeOK
  SectionsRead
  FeedRead
  FoldsRead
  RoundTrip
  FilteredFeed
  SourcesEnabled
CHECK_DEADLOCK FALSE
