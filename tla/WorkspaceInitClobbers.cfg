SPECIFICATION Spec
CONSTANTS
  Proc = {p1, p2}
  Command = {"init", "set"}
  Name = {n1}
  n1 = n1
  other = other
  OtherName = {}
  Rewritten <- MCRewritten
  Gen = {g1}
  Field = {f1}
  Value = {v1}
  Handle = {}
  Email = {}
  Phone = {}
  None = None
  Malformed = Malformed
  InitialConfig = {None}
  Existing = {}
  Blocking = TRUE
  MayFail = FALSE
PROPERTIES SettingsKept
