SPECIFICATION Spec
CONSTANTS
  Proc = {p1, p2}
  Local = {a1}
  Peer = r1
  Att = {t1, t2}
  Msg = {m1, m2}
  c1 = c1
  c2 = c2
  c3 = c3
  n1 = n1
  n2 = n2
  Content = {c1, c2, c3}
  SizeOf <- MCSizeOf
  Name = {n1, n2}
  NameOf <- MCNameOf
  Limit = 2
  Scenario <- MCScenario
  MaxFaults = 2
  Text = Text
  None = None
INVARIANTS ManifestsBacked Authentic 
PROPERTIES DownloadsSucceed ParcelsSpec
SYMMETRY Symmetry
