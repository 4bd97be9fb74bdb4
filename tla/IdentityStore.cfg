SPECIFICATION Spec
CONSTANTS
  Proc = {p1, p2}
  Name = {n1, n2}
  Gen = {g1, g2}
  Handle = {h1}
  Email = {e1}
  Phone = {}
  None = None
  Torn = Torn
  LastKey = 4
  Blocking = FALSE
  MayFail = TRUE
SYMMETRY Symmetry
INVARIANTS KeysComplete LoadSound IInv
PROPERTIES IdentityKept OrphansAreForever RegistrySpec
