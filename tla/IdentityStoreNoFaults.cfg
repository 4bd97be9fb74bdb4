SPECIFICATION FairSpec
CONSTANTS
  Proc = {p1, p2}
  Name = {n1, n2}
  Gen = {g1, g2}
  Handle = {h1}
  Email = {}
  Phone = {}
  None = None
  Torn = Torn
  LastKey = 2
  Blocking = TRUE
  MayFail = FALSE
INVARIANTS OnDiskIffListed
PROPERTIES CallsReturn
