SPECIFICATION Spec
CONSTANTS
  Proc = {p1, l1}
  l1 = l1
  Listener = {l1}
  a1 = a1
  a2 = a2
  Did = {a1, a2}
  Msg = {m1, m2}
  Limit = 3
  Scenario <- MCStopped
  MaxFaults = 0
  None = None
INVARIANTS ServiceStoresOpened
