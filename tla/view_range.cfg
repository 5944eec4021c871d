SPECIFICATION WidgetSpec
CHECK_DEADLOCK FALSE
CONSTANTS
  None = None
  Types = {"BarChart"}
  Tops <- MCTops
  MayFail = FALSE
  MaxEvents = 2
INVARIANT NothingDropped
