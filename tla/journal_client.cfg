SPECIFICATION Spec
CONSTANTS
  Accounts = {"a", "b"}
  Periods = {"mon"}
  Notes = {"", "x"}
  First <- MCFirst
  Remembered <- MCRemembered
  Pages = {"trades", "days", "dashboard", "trash", "import", "accounts"}
  Ops = {"trade", "import", "flow", "account", "newAccount", "note", "reorder", "template"}
  None = None
  MaxSteps = 3
  MaxFails = 1
INVARIANTS FreshIsTrue OwnNoteStays
PROPERTY ReorderIsOneSwap
CHECK_DEADLOCK FALSE
