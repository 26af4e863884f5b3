\* Three requests on two controllers and two handlers; stops when all is freed.
SPECIFICATION FairSpec
CONSTANTS
  r1 = r1  r2 = r2  r3 = r3  n1 = n1  n2 = n2
  None = None
  Requests = {r1, r2, r3}
  Key <- MCKey
  Index <- MCIndex
  Notifies = {n1, n2}
  Wanted <- MCWanted
  IndexOf <- MCIndexOf
  IndexNone = 65535
INVARIANTS TypeOK HeldOnce WriterAwake EveryoneHears
PROPERTIES OwnCompletion EveryRequestEnds
CHECK_DEADLOCK FALSE
