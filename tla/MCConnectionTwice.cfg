CONSTANTS
  Conn = {c1}
  Site = {s1, s2}
  NoSite = NoSite
  Kinds = {s1, s2, "favicon", "garbled"}
  Faults = {"client_gone"}
  Polite = FALSE
  MaxSend = 3
  IcoCap = 1
SPECIFICATION Spec
CHECK_DEADLOCK FALSE
SYMMETRY Symmetry
INVARIANTS
  NoRequestForwardedTwice
