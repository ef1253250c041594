SPECIFICATION FairSpec
CONSTANTS
  Accounts = {a1}
  Requests = {r1, r2}
  Times = {1}
  None = None
  Absent = Absent
  MaxTrades = 3
  MaxBatch = 2
  ConcurrentPatches = 0
INVARIANTS TypeOK NoSttConflict SttDense SttFollowsInsertion
PROPERTIES EveryCallAnswered ImplementsLog
