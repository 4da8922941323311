\* A feed item changes its venue and nothing else.
CONSTANTS
  None = None
  Talk = Talk
  talkRespelled = talkRespelled
  Hall = Hall
  Loft = Loft
  page = page
  quote = quote
  idA = idA
  Text <- MCText
  Fold <- MCFold
  Urls = {u1}
  NumSources = 1
  FeedIds = {idA}
  FeedItems <- FeedMoves
  Answers <- OneAnswer
  DefaultDuration = 1
  MaxTime = 0
  MaxFaults = 0
  Procs = {server}
  Server = server
  Configs <- WithVerifier
  Disabled <- NoSources
  Discovery <- NoSources
  FeedSources <- Source1
  MaxGeminiCandidates = 1
  Reviewers = {}
SPECIFICATION Spec
PROPERTIES
  FetchedEventStored
