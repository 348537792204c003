SPECIFICATION Spec
CONSTANTS
  t = t
  u = u
  g = g
  code = code
  NoTask = NoTask
  Tasks = {t}
  Gates = {g}
  Edits = {}
  Worlds <- OneGate
PROPERTY WritesToLatest
