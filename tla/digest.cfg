\* One digest command at a time, while other processes store events.
CONSTANTS
  None = None
  Talk = Talk
  Meetup = Meetup
  Hall = Hall
  idA = idA
  idB = idB
  Text <- MCText
  Fold <- MCFold
  Urls = {}
  NumSources = 1
  FeedIds = {idA, idB}
  FeedItems <- NoItems
  Answers <- NoItems
  DefaultDuration = 1
  MaxTime = 2
  MaxFaults = 2
  Digests = {d1}
  Horizon = 2
  Reports <- MCReports
  MaxMails = 6
SPECIFICATION Spec
INVARIANTS
  DigestTypeOK
  MarkedWasMailed
  RepeatsAreExcused
  QuietMeansInformed
