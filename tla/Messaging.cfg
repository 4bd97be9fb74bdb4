SPECIFICATION Spec
CONSTANTS
  Proc = {p1, p2}
  Listener = {}
  Local = {a1, a2}
  r1 = r1
  Remote = {r1}
  Group = {g1}
  Alias = {h1}
  Bound <- MCBound
  Msg = {m1, m2}
  Limit = 2
  Broadcast = TRUE
  Faulty = {"register", "send", "store", "fetch", "rows", "contact"}
  MaxFaults = 1
  None = None
SYMMETRY Symmetry
INVARIANTS IInv LossesAreFailures
PROPERTIES MailboxSpec
