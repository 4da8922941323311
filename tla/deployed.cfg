\* The server and a digest command sync the same page at once, whose talk starts
\* before the clock stops and may be moved to another day and venue; a reviewer
\* acts on whatever they store, and the command may fail or be killed.
CONSTANTS
  None = None
  Talk = Talk
  talkRespelled = talkRespelled
  Hall = Hall
  Loft = Loft
  page = page
  quote = quote
  idA = idA
  Text <- MCText
  Fold <- MCFold
  Urls = {u1}
  NumSources = 1
  FeedIds = {}
  FeedItems <- NoItems
  Answers <- SoonOrLater
  DefaultDuration = 1
  MaxTime = 1
  MaxFaults = 0
  Procs = {server, command}
  Server = server
  Configs <- WithVerifier
  Disabled <- NoSources
  Discovery <- Source1
  FeedSources <- NoSources
  MaxGeminiCandidates = 1
  Reviewers = {r1}
  Digests = {command}
  Horizon = 3
  MaxLost = 1
  MaxMails = 1
SPECIFICATION DeployedSpec
INVARIANTS
  EvidenceCoherent
  PublishedWithEvidence
  MailedWithEvidence
  MailedIsListed
PROPERTIES
  ImplementsDigest
