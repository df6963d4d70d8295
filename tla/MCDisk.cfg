SPECIFICATION Spec
CONSTANTS
  Clients = {"desktop", "program"}
  Main = "desktop"
  Lbas = {1, 2}
  Values = {0, 1}
  Words = 2
  Zero = 0
INVARIANTS
  KeptOnceFlushed
PROPERTIES
  StoreSpec
  TransfersEnd
