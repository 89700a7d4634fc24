SPECIFICATION Spec
CONSTANTS
  nodeA = nodeA
  nodeB = nodeB
  cl1 = cl1
  cl2 = cl2
  cl3 = cl3
  Client = {cl1, cl2, cl3}
  Node = {nodeA, nodeB}
  Slot <- NamesSlot
  HALF = 4
  Path <- NamesPath
  SlotOf <- NamesSlotOf
  CqOf <- SharedCq
  Workload <- NamesWorkload
  DirCount = 2
  FileCount = 2
  BlockCount = 1
  BLOCK_SIZE = 2
INVARIANT EntriesKept
CHECK_DEADLOCK FALSE
