CONSTANTS
  a = a
  b = b
  x = x
  y = y
  v = v
  w = w
  Tags = {a, b}
  Configs = {x, y}
  Types = {"vless", "shadowtls", "direct"}
  MaxRows = 3
  MaxTls = 1
  Versions = {v, w}
SPECIFICATION Spec
SYMMETRY Symmetry
INVARIANTS TypeOK RunningIsBuilt OfferedLinksOpen ServedIsOffered OfferedOutboundsOpen
CHECK_DEADLOCK FALSE
