\* Without DDR, the decryption of protected partitions works on the flash.
SPECIFICATION BootSpec
CONSTANTS
  MaxPart <- MCMaxPart
  Images <- MCImages
  Boots <- MCBoots
INVARIANTS
  MovedInClear
CHECK_DEADLOCK FALSE
