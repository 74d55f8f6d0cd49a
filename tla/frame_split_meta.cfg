SPECIFICATION Spec
CONSTANTS
  Streams <- MCStreams
  NumMetaSizeBytes = 4
  MaxFrames = 2
  BufferSize = 8
CHECK_DEADLOCK FALSE
INVARIANT
  SplitMetaIsHandled
