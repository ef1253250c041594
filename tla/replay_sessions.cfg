SPECIFICATION Spec
CONSTANTS
  Sessions = {s1, s2}
  None = None
  MaxVer = 2
  MaxQueue = 2
SYMMETRY Symmetry
INVARIANTS   NoTaskIsForgotten
 
