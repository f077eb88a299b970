\* LoadBootImage, with and without DDR, and the second stage boot loader.
SPECIFICATION BootSpec
CONSTANTS
  MaxPart <- MCMaxPart
  Images <- MCImages
  Boots <- MCBoots
INVARIANTS
  TypeOK
  LoadedInClear
  ProtectedIntact
  GoodImageAccepted
  HandoffSound
  
PROPERTIES
  BounceSafe
  BootEnds
\* The boot ends.
CHECK_DEADLOCK FALSE
