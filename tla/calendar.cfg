\* A feed and a discovery source report the same talk, spelled differently;
\* the talk changes its venue in both, and processes restart; one store error.
CONSTANTS
  None = None
  Talk = Talk
  talkRespelled = talkRespelled
  Hall = Hall
  Loft = Loft
  page = page
  quote = quote
  idA = idA
  Text <- MCText
  Fold <- MCFold
  Urls = {u1}
  NumSources = 2
  FeedIds = {idA}
  FeedItems <- FeedMoves
  Answers <- RelocatedAnswers
  DefaultDuration = 1
  MaxTime = 1
  MaxFaults = 1
  Procs = {server}
  Server = server
  Configs <- WithVerifier
  Disabled <- NoSources
  Discovery <- Source2
  FeedSources <- Source1
  MaxGeminiCandidates = 1
  Reviewers = {r1}
SPECIFICATION Spec
INVARIANTS
  ApprovedIsPublished
PROPERTIES
  EventIdentityStable
  ImplementsModeration
