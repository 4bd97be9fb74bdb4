SPECIFICATION Spec
CONSTANTS
  Proc = {p1, p2}
  Registrar = {q1}
  Name = {n1, n2}
  Gen = {d1, d2}
  Handle = {h1}
  Email = {}
  Peer = {d3}
  CodePoint <- MCCodePoint
  At <- MCAt
  Continue <- MCContinue
  Spelled <- MCSpelled
  Group = {g1}
  Key = {k1, k2}
  Val = {v1}
  Scenario <- MCScenario
  MaxFaults = 1
  None = None
INVARIANTS TypeOK HandlesAreOurs MembersByHandle VersionsTellStates AnswersKeepUp MentionsPoint
PROPERTIES RegistrySpec
SYMMETRY Symmetry
