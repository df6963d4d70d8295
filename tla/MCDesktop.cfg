SPECIFICATION Spec
CONSTANTS
  Sessions <- MCSessions
  Words = {"ls"}
  Programs = {}
  Files = {}
  InputSize = 0
  PadSize = 1
  Full = 1
  LongMax = 20
  Figures = {7}
  MaxKeys = 1
  NumApps = 1
  PaintApp = 0
  Colours = {"white"}
  Width = 1
  Height = 1
  FreeTasks = 0
  Places = {0, 1}
  Restless <- MCRestless
  Seconds = 2
  Minutes = 1
  Hours = 2
  Formats <- MCFormats
INVARIANTS
  FrameShowsItsChanges
  WrongTimeIsNoticed
PROPERTIES
  ScreenCatchesUp
