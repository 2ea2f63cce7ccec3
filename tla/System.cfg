\* One verifier and two services, of which either may also claim to be the other.
SPECIFICATION Spec
CONSTANTS
  TrustDomainText <- DomainTexts
  SegmentText <- PathTexts
  TrustDomain <- Home
  Names <- Services
  Verifiers <- Checkers
  Keys = {k1, k2}
  NoName = NoName
  NoKey = NoKey
  Unreadable = Unreadable
  Absent = Absent
  Null = Null
  Array = Array
  OtherType = OtherType
  KeyLess = KeyLess
  Scalar = Scalar
  Unusable = Unusable
  Listed = Listed
  Leeway = 1
  TTL = 2
  MaxSkew = 1
  MaxTime = 2
  MaxInFlight = 1
INVARIANTS
  Authentic
  RevocationHolds
  OverlapHolds
PROPERTIES
  Converges
  RevocationReaches
