SPECIFICATION Spec
CONSTANTS
  RingSizes = {}
  ButterflySizes = {}
  NhrSizes = {}
  HierarchicalSizes = {5}
  MeshSizes = {}
  GroupSize = 2
  Fanout = 1
CHECK_DEADLOCK FALSE
INVARIANT Complete
