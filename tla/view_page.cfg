SPECIFICATION Spec
CHECK_DEADLOCK FALSE
CONSTANTS
  None = None
  Types <- MCTypes
  Tops <- MCTops
  MayFail = TRUE
  MaxEvents = 3
  Layouts <- MCLayouts
  Matches <- MCMatches
  Initial = 1
  Suggested = 2
  MaxInputs = 5
  MaxTexts = 3
  MaxQuestions = 3
  PointSets <- MCPointSets
  Epsilons = {1, 2}
  MinPts = {2, 3}
  Drawings <- MCDrawings
  EdgeLengths = {0, 1, 2, 5, 9, 10, 16, 24, 25, 26, 50}
  Spacings = {1, 2, 3, 4, 7}
  Triangles <- MCTriangles
  Meshes <- MCMeshes
  Frames <- MCFrames
INVARIANTS
  QuietShowsCurrent
  PagingDropsNothing
  DrawingsAgree
  ReadyIsHonest
  SearchIsExact
  ChatIsWhole
  ComputedRight
PROPERTIES
  PageSettles
