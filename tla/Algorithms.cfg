SPECIFICATION MCSpec
CONSTANTS
  Bits = 5
  e = 5
  Byte = 4
  CHUNKSIZE = 3
  Room = 4
  Messages <- MCMessages
  Octet = {72, 130, 143}
  MaxText = 6
  MaxLen = 200
  KeyLen = {0, 1, 64, 65, 256, 257, 320}
INVARIANTS PrimesArePrime Bezout KeysAreInverse RoundTrip ElGamalDecodes ElGamalVerifies FiatLastRound
           TextsComeBack Sha256Reads Hmac256Reads StreebogReads
CHECK_DEADLOCK FALSE
