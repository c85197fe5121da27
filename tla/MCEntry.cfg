CONSTANTS
  Thread = {t1, t2}
  NoThread = NoThread
  Addr = {a1, a2, a3}
  NULL = NULL
  EXPUNGED = EXPUNGED
  MaxCalls = 5
SPECIFICATION FairSpec
INVARIANTS
  TypeOK
  OneOwner
PROPERTIES
  Atomic
  EveryCallReturns
