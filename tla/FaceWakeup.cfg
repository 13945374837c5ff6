\* Two triggers, the second one while the loop of the first decides to stop.
SPECIFICATION FairSpec
CONSTANTS
  p1 = p1
  p2 = p2
  h1 = h1
  h2 = h2
  h3 = h3
  anna = anna
  ben = ben
  Paths = {p1, p2}
  Hashes = {h1, h2, h3}
  Who = {anna, ben}
  Content <- Album
  Shows <- Cast
  DimsOf <- Dimensions
  Callers = {c1}
  MaxMtime = 2
  MaxChanges = 0
  MaxTriggers = 2
  MaxMerges = 0
  MaxReloads = 1
  MaxCrashes = 0
  MaxFaults = 0
PROPERTY MarkIsTakenUp
\* Clients need not come.
CHECK_DEADLOCK FALSE
