\* A merge of two persons while a pass runs.
SPECIFICATION Spec
CONSTANTS
  p1 = p1
  p2 = p2
  h1 = h1
  h2 = h2
  h3 = h3
  anna = anna
  ben = ben
  Paths = {p1, p2}
  Hashes = {h1, h2, h3}
  Who = {anna, ben}
  Content <- Album
  Shows <- Cast
  DimsOf <- Dimensions
  Callers = {c1}
  MaxMtime = 2
  MaxChanges = 1
  MaxTriggers = 2
  MaxMerges = 2
  MaxReloads = 1
  MaxCrashes = 0
  MaxFaults = 0
INVARIANT FacesHavePersons
\* Clients need not come.
CHECK_DEADLOCK FALSE
