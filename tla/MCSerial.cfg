SPECIFICATION SpecSerial
CONSTANTS
  Text = {"cat ", "send ", "teste.txt", " "}
  Space = " "
  Cat = "cat "
  Send = "send "
  Files <- MCFiles
  RxBufSize = 4
  LogSize = 8
  FifoSize = 2
  MaxGuest = 1
  MaxBytes = 5
INVARIANTS
  BothEndsAgree
