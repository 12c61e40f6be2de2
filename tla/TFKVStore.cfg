SPECIFICATION Spec
CONSTANTS
  writer = writer
  reader = reader
  Keys <- MCKeys
  Characters <- MCCharacters
  Moves <- MCMoves
  WriterOf <- MCWriterOf
  ValuesOf <- MCValuesOf
  SPLIT_SIZE = 2
  Sessions = {writer, reader}
  MaxWrites = 5
INVARIANTS
  TypeOK
  QuietReadsAreExact
  NoStaleFragments
