SPECIFICATION Spec
CONSTANTS
  Width = 4
  Height = 3
  CacheWidth = 3
  CacheHeight = 2
  Coords <- MCCoords
  Sizes <- MCSizes
  Shapes <- MCShapes
  Shadow = 1
INVARIANTS
  DrawsInsideItsBuffer
PROPERTIES
  SwapShowsEverything
