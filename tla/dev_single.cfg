\* One command thread and two keep timers; stops when MaxLocks is reached.
SPECIFICATION FairSpec
CONSTANTS
  c1 = c1  c2 = c2  w1 = w1  w2 = w2  l1 = l1  o1 = o1  o2 = o2
  None = None
  Commands = {c1}
  Timers = {w1, w2}
  Listeners = {}
  Devs = {o1}
  AddrOf <- OneAddress
  Forces = {TRUE, FALSE}
  Keeps = {TRUE, FALSE}
  Retries = 1
  MaxLocks = 1
INVARIANT TypeOK
PROPERTY CommandsReturn
CHECK_DEADLOCK FALSE
