SPECIFICATION Spec
CONSTANTS
  c1 = c1  c2 = c2  w1 = w1  w2 = w2  d1 = d1  d2 = d2  o1 = o1  o2 = o2
  None = None
  Callers = {c1, c2}
  Workers = {w1, w2}
  DevThreads = {d1}
  Objs = {o1}
  AddrOf <- TwoAddresses
  Ops <- ScanOps
  Untimely = {}
  Forces = {TRUE, FALSE}
INVARIANTS TypeOK ScanExclusion ScanOnExact StarterNotStranded
PROPERTIES ResultsKept FollowsCycle
SYMMETRY Sym
CHECK_DEADLOCK FALSE
