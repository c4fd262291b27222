SPECIFICATION RingSpec
CONSTANTS
  Bytes = {0, 1}
  TCP_BUFFER_SIZE = 3
  MAX_SEGMENT = 4
  MAX_READ = 3
INVARIANT
  RingTypeOK
PROPERTIES
  ImplementsByteQueue
  SegmentKept
