CONSTANTS
  Thread = {t1, t2}
  NoThread = NoThread
  Key = {k1, k2}
  NoKey = NoKey
  Ops = {"load", "store", "load_or_store", "load_and_delete", "range"}
  MaxCalls = 4
SPECIFICATION FairSpec
PROPERTY EveryCallReturns
