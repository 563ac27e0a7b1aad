\* One child, one message of a person, one message to the child.
CONSTANTS
  r = r  k1 = k1
  Root = r
  Kids = {k1}
  MaxUser = 1
  MaxTold = 1
SPECIFICATION FairSpec
INVARIANTS DelegationInv
PROPERTIES RunningChildrenStop ReportsArrive
CHECK_DEADLOCK FALSE
