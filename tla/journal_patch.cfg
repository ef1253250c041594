SPECIFICATION Spec
SYMMETRY Symmetry
CONSTANTS
  Accounts = {a1}
  Requests = {r1, r2}
  Times = {1, 2}
  None = None
  Absent = Absent
  MaxTrades = 1
  MaxBatch = 1
  ConcurrentPatches = 1
 
PROPERTIES TrashFrozen
