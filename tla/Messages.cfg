\* Every raw operation on arrays of nodes of 2 and 3 bytes; every value of
\* 5-bit integers (in groups of 2 bits), of 2-byte integers and of strings;
\* requests and responses of any length, in up to three pieces.
CONSTANTS
  Bases = {1, 2, 3}
  Byte = {0, 1, 2, 3, 4, 5, 6, 7}
  Junk = Junk
  Strings <- MCStrings
  MaxBytes = 6
  GroupBits = 2
  VarBits = 5
  Wide = 2
  Values <- MCValues
  MaxValues = 2
  Modes = {"raw", "values", "http"}
  MaxPieces = 3
SPECIFICATION MessagesSpec
CHECK_DEADLOCK FALSE
INVARIANT ReadsBack
INVARIANT OnlyCutPartsSuffer
INVARIANT ResponseCuts
PROPERTY FlatSpec
PROPERTY BreaksOnlyWhen
