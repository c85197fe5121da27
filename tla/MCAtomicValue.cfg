CONSTANTS
  Thread = {t1, t2, t3}
  FreeAtEveryDrop = FALSE
  MaxBoxes = 4
SPECIFICATION Spec
CHECK_DEADLOCK FALSE
SYMMETRY Symmetry
INVARIANTS
  BoxesAccounted
  NoDoubleFree
