SPECIFICATION MCSpec
CONSTANTS
  Bits = 5
  e = 5
  Byte = 4
  CHUNKSIZE = 3
  Room = 4
  Messages <- MCMessages
  Octet = {97, 98, 99}
  MaxText = 6
  MaxLen = 200
  KeyLen = {0, 1, 64, 65, 256, 257, 320}
INVARIANTS ValuesAreEqual
CHECK_DEADLOCK FALSE
