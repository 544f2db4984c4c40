CONSTANTS
  c1 = c1
  c2 = c2
  k1 = k1
  k2 = k2
  v2 = v2
  v1 = v1
  trek = trek
  run = run
  yoga = yoga
  art = art
  chess = chess
  t1 = t1
  t2 = t2
  guide = guide
  card = card
  pic = pic
  r1 = r1
  r2 = r2
  r3 = r3
  p1 = p1
  p2 = p2
  m1 = m1
  m2 = m2
  feedList = feedList
  CacheMax = 1
  Callers <- TwoCallers
  Keys <- TwoKeys
  Contents <- TwoContents
  Nothing = Nothing
  Timeout = 1
  Ttl <- ShortTtls
  MaxTime = 4
  Rails <- TwoRails
  Categories <- FourCategories
  PerCategory = 1
  Found <- NoneOrMany
  HobbyRows <- SomeHobbies
  NoHobby = NoHobby
  Defaults <- DefaultHobbies
  Trek = trek
  TrailIds <- TwoTrails
  NearYou = 1
  Cards <- TrekAndPlace
  Curated <- OneTrek
  Pictures <- TwoPictures
  Stock = Stock
  CommonsUrl = CommonsUrl
  NoUrl = NoUrl
  RowIds <- ThreeRows
  PerMs = 2
  MaxMicros = 6
  Lists <- OneList
  DefLimit <- LimitOne
  MaxLimit <- LimitTwo
  Asks <- AskNoneOrMany
  Processes <- TwoProcesses
  Files <- OldAndNew
  Starts = 3
SPECIFICATION MCSpec
INVARIANTS
  TypeOK
  CachedWasSaid
  CachesBounded
  FeedOrdered
  HeroFirst
  MigratedInOrder
  WalkShowsAll
PROPERTY FeedAnswers
CHECK_DEADLOCK FALSE
