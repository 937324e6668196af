\* A tarball of three blocks and one of two that replaces it, and the reverse.
CONSTANTS
  Versions = {1, 2}
  Size <- Blocks
  NoFile = NoFile
  MaxBlocks = 6
SPECIFICATION Spec
INVARIANTS
  TypeOK
  TrueMeansWhole
PROPERTY WholeStaysWhole
