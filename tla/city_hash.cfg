CONSTANT MaxLen = 400
SPECIFICATION Spec
INVARIANTS InBounds EveryByteRead
CHECK_DEADLOCK FALSE
