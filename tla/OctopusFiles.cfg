SPECIFICATION FairSpec
CONSTANTS
  nodeA = nodeA
  nodeB = nodeB
  cl1 = cl1
  cl2 = cl2
  cl3 = cl3
  Client = {cl1, cl2}
  Node = {nodeA, nodeB}
  Slot <- NamesSlot
  HALF = 4
  Path <- FilesPath
  SlotOf <- FilesSlotOf
  CqOf <- OwnCq
  Workload <- FilesWorkload
  DirCount = 1
  FileCount = 3
  BlockCount = 4
  BLOCK_SIZE = 2
INVARIANTS LocksReturned HandlersLocked TreeExact BlocksOwned BlocksAccounted PositionsSound
PROPERTIES CallsReturn
CHECK_DEADLOCK FALSE
