\* Two browsers, two requests at a time, rows that last to the end of their second.
CONSTANTS
  None = None
  operator = operator
  member = member
  memberAddress = memberAddress
  MemberAddress = MemberAddress
  corp = corp
  Browsers = {b1, b2}
  Requests = {q1, q2}
  Claims <- MCClaims
  Lower <- MCLower
  Domain <- MCDomain
  Allowlists <- MCAllowlists
  PreAuthTTL = 0
  SessionTTL = 0
  MaxIds = 3
  MaxCodes = 1
  MaxTime = 1
  MaxFaults = 1
SPECIFICATION Spec
SYMMETRY Alike
INVARIANTS
  SessionsTypeOK
  SessionsEarned
PROPERTIES
  GoodRowsStay
  ImplementsAccess
