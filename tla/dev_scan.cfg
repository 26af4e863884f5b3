\* One command thread, keep timer and notification listener; a second object is made
\* for the address when a scan has dropped the first; stops when MaxLocks is reached.
SPECIFICATION Spec
CONSTANTS
  c1 = c1  c2 = c2  w1 = w1  w2 = w2  l1 = l1  o1 = o1  o2 = o2
  None = None
  Commands = {c1}
  Timers = {w1}
  Listeners = {l1}
  Devs = {o1, o2}
  AddrOf <- OneAddress
  Forces = {TRUE, FALSE}
  Keeps = {TRUE, FALSE}
  Retries = 0
  MaxLocks = 1
INVARIANT QuietIsFree
CHECK_DEADLOCK FALSE
