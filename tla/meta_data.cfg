CONSTANTS
  IntBits = 9
  LongBits = 16
  Seqs = {0, 127, 128, 16383, 16384, 65535}
  Hashes = {0, 127, 128, 255, 256, 511}
  Methods = {0, 128, 255}
  Lengths = {0, 127, 511}
SPECIFICATION Spec
INVARIANTS ParsedAsSent SizeIsWritten SizeTellsParsed ServiceIdSurvives
CHECK_DEADLOCK FALSE
