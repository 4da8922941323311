\* The constants of radar.go, and up to one candidate more than the batch takes.
\* verifyCandidates ends: the last state has no successor.
CONSTANTS
  MaxFound = 9
  maxGeminiCandidates = 8
  geminiVerificationConcurrency = 3
SPECIFICATION Spec
INVARIANTS
  FanoutInv
  ConcurrencyBounded
  ReturnedComplete
PROPERTIES
  Returns
CHECK_DEADLOCK FALSE
