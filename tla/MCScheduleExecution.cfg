SPECIFICATION Spec
CONSTANTS
  RingSizes = {2, 3, 4, 5}
  ButterflySizes = {2, 4}
  NhrSizes = {2, 3, 4}
  HierarchicalSizes = {3, 4}
  MeshSizes = {2, 3, 4}
  GroupSize = 2
  Fanout = 1
CHECK_DEADLOCK FALSE
INVARIANTS
  TypeOK
  Complete
  RingExactlyOnce
PROPERTIES
  NothingLost
