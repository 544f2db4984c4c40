CONSTANTS
  p1 = p1
  p2 = p2
  c1 = c1
  devcode = devcode
  w1 = w1
  w2 = w2
  o1 = o1
  o2 = o2
  u1 = u1
  u2 = u2
  t1 = t1
  t2 = t2
  None = None
  Phones <- TwoPhones
  Codes <- DevCodeOnly
  Workers <- TwoWorkers
  OtpIds <- TwoOtps
  UserIds <- TwoUsers
  Tokens <- TwoTokens
  OtpTTL = 1
  OtpGrace = 0
  RefreshTTL = 1
  RequestLimit = 1
  RequestWindow = 5
  VerifyLimit = 1
  VerifyWindow = 5
  DevCode = devcode
  ReviewPhone = p1
  Dev = FALSE
  MaxTime = 0
SPECIFICATION Spec
INVARIANT SessionBacked
SYMMETRY Symmetry
CONSTRAINT CleanupAway
