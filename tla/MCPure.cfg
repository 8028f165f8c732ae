SPECIFICATION Spec
CONSTANTS
  Half = 2048
  Values <- AllNumbers
  Bases = {10, 16}
  MinDigits = {0, 1, 6, 19, 20}
  Characters <- Limits
  OctetValues <- OctetLimits
  MaxText = 3
  MaxOctets = 4
  PerSecond = 4
  SecondsKept = 8
  Unsigned = 64
  MaxTime = 70
  MaxString = 7
  MaxPath = 7
  MaxUrl = 7
INVARIANT NumbersRoundTrip
INVARIANT Utf8Exact
INVARIANT NeverLate
INVARIANT TextExact
CHECK_DEADLOCK FALSE
