\* Every token of a small vocabulary against every small bundle, and every small
\* environment; with Now = 2 and Leeway = 1, exp = 1 is the last tick and iat = 4
\* the first in the future.
SPECIFICATION Spec
CONSTANTS
  k1 = k1
  k2 = k2
  TrustDomainText <- DomainTexts
  SegmentText <- PathTexts
  Keys = {k1, k2}
  Absent = Absent
  Null = Null
  Array = Array
  OtherType = OtherType
  KeyLess = KeyLess
  Scalar = Scalar
  Unusable = Unusable
  Listed = Listed
  Unset = Unset
  NoToken = NoToken
  Leeway = 1
  Setups <- AllSetups
  Subs <- Claimed
  Auds <- Wanted
  Times = {1, 2, 4}
  Now = 2
INVARIANTS
  OnlyBoundKeys
  PythonIsStrictest
  Parity
  HonestAccepted
  RewritingKeepsVerdicts
  StartsAlike
\* A verification is a single call.
CHECK_DEADLOCK FALSE
