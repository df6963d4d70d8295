SPECIFICATION SpecApps
CONSTANTS
  Sessions <- MCSessions
  Words = {"ls", "dns ", "cat ", "write ", "run ", "app.elf"}
  Programs = {"app.elf"}
  Files = {"ls"}
  InputSize = 2
  PadSize = 1
  Full = 10
  LongMax = 255
  Figures = {0, 1, 6}
  MaxKeys = 6
  NumApps = 2
  PaintApp = 1
  Colours = {"black", "white"}
  Width = 3
  Height = 3
  FreeTasks = 1
INVARIANTS
  TypeOKApps
  CalculatorIsExact
  NoDivisionTraps
  KeysDoWhatTheyShow
PROPERTIES
  BrushStaysNearPointer
