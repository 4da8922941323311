\* Two concurrent review requests for one page, racing the server's sync; any one statement may fail.
CONSTANTS
  None = None
  Talk = Talk
  talkRespelled = talkRespelled
  Hall = Hall
  Loft = Loft
  page = page
  quote = quote
  idA = idA
  Text <- MCText
  Fold <- MCFold
  Urls = {u1}
  NumSources = 1
  FeedIds = {}
  FeedItems <- NoItems
  Answers <- ProvenOrNot
  DefaultDuration = 1
  MaxTime = 2
  MaxFaults = 1
  Procs = {server}
  Server = server
  Configs <- WithVerifier
  Disabled <- NoSources
  Discovery <- Source1
  FeedSources <- NoSources
  MaxGeminiCandidates = 1
  Reviewers = {r1, r2}
SYMMETRY ReviewersAlike
SPECIFICATION Spec
INVARIANTS
  IInv
PROPERTIES
  ApprovalAtomic
  PrunedWasUnapprovable
