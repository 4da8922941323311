\* A callback is delivered twice, with two grants to one login.
CONSTANTS
  None = None
  operator = operator
  member = member
  memberAddress = memberAddress
  MemberAddress = MemberAddress
  corp = corp
  Browsers = {b1}
  Requests = {q1, q2}
  Claims <- MCClaims
  Lower <- MCLower
  Domain <- MCDomain
  Allowlists <- MCAllowlists
  PreAuthTTL = 1
  SessionTTL = 1
  MaxIds = 3
  MaxCodes = 2
  MaxTime = 0
  MaxFaults = 0
SPECIFICATION Spec
INVARIANTS
  PreAuthSingleUse
