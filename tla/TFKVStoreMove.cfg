SPECIFICATION Spec
CONSTANTS
  writer = writer
  reader = reader
  Keys <- MCKeys
  Characters <- MCCharacters
  Moves <- Migration
  WriterOf <- MCWriterOf
  ValuesOf <- MCValuesOf
  SPLIT_SIZE = 2
  Sessions = {writer}
  MaxWrites = 2
PROPERTIES
  MoveKeepsValue
