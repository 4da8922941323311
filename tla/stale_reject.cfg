\* A sync stores a verification between a rejection's load and its write.
CONSTANTS
  None = None
  Talk = Talk
  talkRespelled = talkRespelled
  Hall = Hall
  Loft = Loft
  page = page
  quote = quote
  idA = idA
  Text <- MCText
  Fold <- MCFold
  Urls = {u1}
  NumSources = 1
  FeedIds = {}
  FeedItems <- NoItems
  Answers <- OneAnswer
  DefaultDuration = 1
  MaxTime = 0
  MaxFaults = 0
  Procs = {server}
  Server = server
  Configs <- WithVerifier
  Disabled <- NoSources
  Discovery <- Source1
  FeedSources <- NoSources
  MaxGeminiCandidates = 1
  Reviewers = {r1}
SPECIFICATION Spec
PROPERTIES
  ReviewWritesOnlyMetadata
