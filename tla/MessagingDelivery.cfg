SPECIFICATION FairSpec
CONSTANTS
  Proc = {p1, p2}
  Listener = {p2}
  Local = {a1}
  r1 = r1
  Remote = {r1}
  Group = {}
  Alias = {}
  Bound <- MCBound
  Msg = {m1, m2, m3}
  Limit = 2
  Broadcast = TRUE
  Faulty = {"fetch", "rows", "contact"}
  MaxFaults = 1
  None = None
INVARIANTS NoGaps
PROPERTIES Arrives
