CONSTANTS
  ann = ann
  ben = ben
  aria = aria
  w1 = w1
  w2 = w2
  a0 = a0
  a1 = a1
  a2 = a2
  l0 = l0
  l1 = l1
  d1 = d1
  i1 = i1
  i2 = i2
  trek = trek
  peak = peak
  running = running
  s1 = s1
  s2 = s2
  p1 = p1
  p2 = p2
  strava = strava
  phone = phone
  run50 = run50
  None = None
  NoPlan = NoPlan
  Seeded = a0
  SeededLog = l0
  People <- TwoPeople
  Demo <- OneClimber
  Asked <- EachOther
  Workers <- TwoWorkers
  AscentIds <- ThreeAscents
  LogIds <- TwoLogs
  Sources <- OneItem
  Interests <- OneInterest
  Parents <- NoParent
  MaxTime = 2
  DuelIds <- OneDuel
  Opponents <- BenOrAria
  Days = 1
  Challenges <- OneChallenge
  ChallengeInterest <- RunInterest
  Target <- RunTarget
  BaseProgress <- RunBase
  WishIds <- TwoWishes
  Items <- TwoItems
  Snapshots <- TwoSnapshots
  Plans <- TwoPlans
  Apps <- OneApp
  Tokens <- OneToken
SPECIFICATION MCSpec
INVARIANT DedupReturnsExisting
CONSTRAINT Focus
CHECK_DEADLOCK FALSE
