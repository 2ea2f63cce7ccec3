\* The tokens of Verify.cfg against one bundle, asked about iat.
SPECIFICATION Spec
CONSTANTS
  k1 = k1
  k2 = k2
  TrustDomainText <- DomainTexts
  SegmentText <- PathTexts
  Keys = {k1, k2}
  Absent = Absent
  Null = Null
  Array = Array
  OtherType = OtherType
  KeyLess = KeyLess
  Scalar = Scalar
  Unusable = Unusable
  Listed = Listed
  Unset = Unset
  NoToken = NoToken
  Leeway = 1
  Setups <- OneSetup
  Subs <- Claimed
  Auds <- Wanted
  Times = {2, 4}
  Now = 2
INVARIANTS
  FutureRejected
\* A verification is a single call.
CHECK_DEADLOCK FALSE
