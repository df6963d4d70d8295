SPECIFICATION Spec
CONSTANTS
  Keys <- MCKeys
  PlainChar <- MCPlain
  ShiftChar <- MCShift
  Capital <- MCCapital
  Accents <- MCAccents
  Composed <- MCComposed
  MaxTyped = 2
  ScreenWidth = 3
  ScreenHeight = 2
  Headers = {9}
  Motions = {1, 255}
  Acknowledge = 250
INVARIANTS
  TypeOK
  KeysTakenOnceInOrder
PROPERTIES
  WaitingKeyIsTaken
  StaysInStep
