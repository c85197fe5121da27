CONSTANTS
  Thread = {t1, t2}
  NoThread = NoThread
  Key = {k1, k2}
  NoKey = NoKey
  Ops = {"load", "store", "load_or_store", "load_and_delete", "range"}
  MaxCalls = 5
SPECIFICATION LinSpec
SYMMETRY Symmetry
INVARIANTS
  TypeOK
  DirtyMirrorsRead
  MissesBounded
  NoValueLost
  BoxOwnership
PROPERTY Linearizable
