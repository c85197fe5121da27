CONSTANTS
  Conn = {c1, c2}
  Site = {s1, s2}
  NoSite = NoSite
  Kinds = {s1, s2, "delete"}
  Faults = {}
  Polite = TRUE
  MaxSend = 3
  IcoCap = 1
SPECIFICATION Spec
CHECK_DEADLOCK FALSE
SYMMETRY Symmetry
INVARIANTS
  DeletedStaysDeleted
