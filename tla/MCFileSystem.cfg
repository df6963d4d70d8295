SPECIFICATION SpecFiles
CONSTANTS
  NumSlots = 2
  Names <- MCNames
  Sizes <- MCSizes
  Contents = {first, second}
  Longest = 2
  Linked <- MCLinked
  LinkedFirst <- MCLinkedFirst
SYMMETRY MCSymmetry
INVARIANTS
  TypeOK
  LostOnlyToOverrun
  PlainNamesReadBack
