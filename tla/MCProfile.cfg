CONSTANTS
  c1 = c1
  c2 = c2
  c3 = c3
  climbing = climbing
  music = music
  None = None
  Calls <- ThreeCalls
  Interests <- TwoInterests
  Lists <- ListsSent
SPECIFICATION FairSpec
INVARIANTS
  TypeOK
  HobbiesStored
  SurvivorsOverlapped
  OnboardingAtomic
  OnboardingNeverDeadlocks
  NothingWithoutAccount
PROPERTIES
  EveryCallEnds
CHECK_DEADLOCK FALSE
