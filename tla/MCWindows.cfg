SPECIFICATION Spec
CONSTANTS
  WindowIds <- MCWindowIds
  WinWidth <- MCWidth
  WinHeight <- MCHeight
  StartX <- MCStartX
  StartY <- MCStartY
  StartOpen <- MCStartOpen
  DesktopWidth = 5
  DesktopHeight = 4
  Columns <- MCColumns
  Rows <- MCRows
  TitleHeight = 1
  CloseBox <- MCCloseBox
  IconAt <- MCIconAt
  MenuArea <- MCMenuArea
  MenuItems <- MCMenuItems
  StartButton <- MCStart
  PowerButtons <- MCPower
  MaxZ = 6
CHECK_DEADLOCK FALSE
INVARIANTS
  WindowsStayOnDesktop
  ClickFindsWhatIsSeen
  DraggedIsInFront
PROPERTIES
  OnlyTheFrontCloses
