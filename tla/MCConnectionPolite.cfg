CONSTANTS
  Conn = {c1}
  Site = {s1, s2}
  NoSite = NoSite
  Kinds = {s1, s2, "get", "bad_post", "other", "favicon", "garbled", "panic", "special", "delete", "bad_delete"}
  Faults = {"client_gone", "connect", "path_header", "server_reset", "half_close", "accept"}
  Polite = TRUE
  MaxSend = 3
  IcoCap = 1
SPECIFICATION FairSpec
CHECK_DEADLOCK FALSE
INVARIANTS
  AnswersMatch
PROPERTIES
  EveryRequestAnswered
