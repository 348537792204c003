SPECIFICATION Spec
CONSTANTS
  t = t
  u = u
  g = g
  code = code
  NoTask = NoTask
  Tasks = {t, u}
  Gates = {g}
  Edits = {code}
  Worlds <- Small
INVARIANTS TypeOK   HonestReport
PROPERTIES EditsKept DeliverySpec
