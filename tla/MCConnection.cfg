CONSTANTS
  Conn = {c1}
  Site = {s1, s2}
  NoSite = NoSite
  Kinds = {s1, s2, "post", "favicon", "garbled"}
  Faults = {"client_gone", "half_close", "connect", "server_reset", "idle_reset", "server_eof"}
  Polite = FALSE
  MaxSend = 3
  IcoCap = 1
SPECIFICATION FairSpec
CHECK_DEADLOCK FALSE
INVARIANTS
  TypeOK
  RoutedBySite
  DeliveredInOrder
  AnsweredOnceInOrder
  NothingSkipped
PROPERTIES
  LeaversEnd
