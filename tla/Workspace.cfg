SPECIFICATION Spec
CONSTANTS
  Proc = {p1, p2}
  Command = {"init", "use", "set", "whoami"}
  Name = {n1, n2}
  n1 = n1
  other = other
  OtherName = {}
  Rewritten <- MCRewritten
  Gen = {g1}
  Field = {f1}
  Value = {v1}
  Handle = {}
  Email = {}
  Phone = {}
  None = None
  Malformed = Malformed
  InitialConfig = {None, Malformed}
  Existing = {}
  Blocking = FALSE
  MayFail = TRUE
SYMMETRY ProcSymmetry
INVARIANTS WhoamiFinds IInv
PROPERTIES UpdatesApply
