SPECIFICATION Spec
CHECK_DEADLOCK FALSE
CONSTANTS
  Opened <- MCOpened
  MaxSources = 3
  MaxGenerators = 3
  MaxWidgets = 3
  MaxEdits = 3
  MaxSaves = 2
  Pipelines = {p, q}
  MaxDeletes = 3
  MaxTouches = 2
  MaxForms = 2
  Found <- MCFound
  Offered = {1, 2, 3}
  MaxSteps = 5
INVARIANTS
  DialogsMeanThis
  SavesAreWhole
  InputIsUsed
PROPERTIES
  OnlyTouchedChange
  SpinnerGivesWay
