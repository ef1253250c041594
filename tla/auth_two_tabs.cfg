SPECIFICATION Spec
CONSTANTS
  Tabs = {t1, t2}
  Emails = {e1}
  Nobody = Nobody
  MaxTokens = 2
  MaxLoads = 1
INVARIANTS NoSelfReplay
