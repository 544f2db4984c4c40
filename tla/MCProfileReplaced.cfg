CONSTANTS
  c1 = c1
  c2 = c2
  c3 = c3
  climbing = climbing
  music = music
  None = None
  Calls <- TwoCalls
  Interests <- TwoInterests
  Lists <- DisjointLists
SPECIFICATION Spec
INVARIANTS
  HobbiesReplaced
CHECK_DEADLOCK FALSE
