SPECIFICATION Spec
CONSTANTS
  Tabs = {t1, t2}
  Emails = {e1}
  Nobody = Nobody
  MaxTokens = 2
  MaxLoads = 2
SYMMETRY Symmetry
INVARIANTS ReplayHasCause  NobodyForgotten
