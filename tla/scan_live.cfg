SPECIFICATION FairSpec
CONSTANTS
  c1 = c1  c2 = c2  w1 = w1  w2 = w2  d1 = d1  d2 = d2  o1 = o1  o2 = o2
  None = None
  Callers = {c1, c2}
  Workers = {w1, w2}
  DevThreads = {d1}
  Objs = {o1}
  AddrOf <- TwoAddresses
  Ops <- TimedOps
  Untimely = {o1}
  Forces = {FALSE}
INVARIANT ConnectLockFreed
  
CHECK_DEADLOCK FALSE
