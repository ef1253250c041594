SPECIFICATION Spec
CONSTANTS
  Pane <- MCPane
  PaneSym <- MCPaneSym
  Tools = {"trend", "brush", "path", "text"}
  Places = {0, 1}
  Styles = {"plain", "red"}
  Texts = {"a"}
  Sessions <- MCSessions
  Default = "plain"
  None = None
  UndoCap = 2
  MaxShapes = 3
  MaxSteps = 6
INVARIANTS GestureIsOneStep SavedIsShown
PROPERTY GoneStaysGone
CHECK_DEADLOCK FALSE
