\* The medium is full after two bytes, the buffer holds three.
CONSTANTS
  Kinds = {"out"}
  FileLen = 6
  UserLength = 6
  MediumLen = 6
  Capacity = 2
  BufferSize = 3
  MaxSize = 5
  MaxCalls = 2
  Faults = {"full"}
SPECIFICATION MCSpec
PROPERTY CallsReturn
