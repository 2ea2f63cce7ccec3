\* One Python producer, killed anywhere, two services and one verifier.
SPECIFICATION DeploymentSpec
CONSTANTS
  TrustDomainText <- DomainTexts
  SegmentText <- PathTexts
  TrustDomain <- Home
  Names <- Services
  Below <- Flat
  Producers = {p1}
  Verifiers <- Checkers
  Keys = {k1, k2}
  NoName = NoName
  NoKey = NoKey
  TornKey = TornKey
  Recursive = FALSE
  Unreadable = Unreadable
  Absent = Absent
  Null = Null
  Array = Array
  OtherType = OtherType
  KeyLess = KeyLess
  Scalar = Scalar
  Unusable = Unusable
  Listed = Listed
  Leeway = 1
  TTL = 2
  MaxSkew = 1
  MaxTime = 2
  MaxInFlight = 1
INVARIANTS
  RotationUnnoticed
