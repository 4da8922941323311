\* A feed, a discovery source with one page and a disabled source, a reviewer, one
\* store error, restarts with its search alone, under the fairness of FairSpec.
CONSTANTS
  None = None
  Talk = Talk
  talkRespelled = talkRespelled
  Hall = Hall
  Loft = Loft
  page = page
  quote = quote
  idA = idA
  Text <- MCText
  Fold <- MCFold
  Urls = {u1}
  NumSources = 3
  FeedIds = {}
  FeedItems <- NoItems
  Answers <- SoonAnswer
  DefaultDuration = 1
  MaxTime = 1
  MaxFaults = 1
  Procs = {server}
  Server = server
  Configs <- ServerConfigs
  Disabled <- Source3
  Discovery <- Source2
  FeedSources <- Source1
  MaxGeminiCandidates = 1
  Reviewers = {r1}
SPECIFICATION FairSpec
INVARIANTS
  TypeOK
PROPERTIES
  SuccessfulSyncIsHealthy
  SyncEnds
  ReviewAnswered
  StaleIsPruned
