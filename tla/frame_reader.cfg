SPECIFICATION FairSpec
CONSTANTS
  Streams <- MCStreams
  NumMetaSizeBytes = 4
  MaxFrames = 3
  BufferSize = 16
CHECK_DEADLOCK FALSE
INVARIANTS
  DeliveredAsSent
  OnlySplitMetaAborts
PROPERTIES
  AllDelivered
