CONSTANTS
  p1 = p1
  p2 = p2
  c1 = c1
  devcode = devcode
  w1 = w1
  w2 = w2
  o1 = o1
  o2 = o2
  u1 = u1
  u2 = u2
  t1 = t1
  t2 = t2
  None = None
  Phones <- OnePhone
  Codes <- CodeAndDevCode
  Workers <- TwoWorkers
  OtpIds <- OneOtp
  UserIds <- TwoUsers
  Tokens <- TwoTokens
  OtpTTL = 1
  OtpGrace = 0
  RefreshTTL = 2
  RequestLimit = 1
  RequestWindow = 5
  VerifyLimit = 2
  VerifyWindow = 1
  DevCode = devcode
  ReviewPhone = None
  Dev = FALSE
  MaxTime = 1
SPECIFICATION Spec
INVARIANTS
  OtpSingleUse
