\* Two requests, an indication and a response; stops when all are finished.
SPECIFICATION GFairSpec
CONSTANTS
  r1 = r1  r2 = r2  i1 = i1  p1 = p1
  None = None
  Reqs = {r1, r2}
  Inds = {i1}
  Rsps = {p1}
  Cmds = {}
INVARIANTS TypeOK HeldOnce WriterAwake Tracked
PROPERTIES FollowsLine EveryRequestEnds CancelEnds
CHECK_DEADLOCK FALSE
