SPECIFICATION Spec
CONSTANTS
  Items = {i1, i2}
  NoItem = NoItem
  Last = 2
  Ops = {o1, o2}
  MaxActions = 3
  MaxTroubles = 1
SYMMETRY Symmetry
INVARIANTS TypeOK ShownWhereItIs UndoRestores SpinnerEnds
CHECK_DEADLOCK FALSE
