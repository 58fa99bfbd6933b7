SPECIFICATION Spec
CONSTANTS
  B = 4
  HALF = 2
  BYTE = 2
  U32_MAX = 16
  OCT = 4
  DEC = 3
  HEX = 4
  MaxRadix = 7
INVARIANT ArithmeticExact
INVARIANT DivisionExact
INVARIANT BitsExact
INVARIANT TextRoundTrip
