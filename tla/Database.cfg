SPECIFICATION FairSpec
CONSTANTS
  Proc = {p1, p2}
  u1 = u1
  u2 = u2
  Url = {u1, u2}
  AdJson <- MCAdJson
  d1 = d1
  Did = {d1}
  NoDid = NoDid
  Doc <- MCDoc
  Scenario <- MCScenario
  MaxTold = 2
  None = None
INVARIANTS TypeOK OpenedIsCurrent IndexIsTrue
PROPERTIES VersionReturns
