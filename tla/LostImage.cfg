SPECIFICATION Spec
CONSTANTS
  Byte = {0, 1, 2, 3, 4, 5, 6, 7, 8, 9, 10, 11, 12}
  Zero = 0
  NLines = 2
  NWords = 2
  Strobes = {{0}}
  MaxStores = 1
INVARIANTS ImageThere
CHECK_DEADLOCK FALSE
