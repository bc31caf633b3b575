\* A medium of six bytes that is read, one of six that can hold five that is
\* written, a buffer of three; every function may fail or do less than asked for.
CONSTANTS
  Kinds = {"in", "out"}
  FileLen = 6
  UserLength = 6
  MediumLen = 6
  Capacity = 5
  BufferSize = 3
  MaxSize = 5
  MaxCalls = 4
  Faults = {"read", "write", "skip", "seek", "short", "full"}
SPECIFICATION MCSpec
INVARIANT Positioned
INVARIANT CountsReturned
INVARIANT OffsetIsPosition
INVARIANT WriteReturnsCount
PROPERTY ImplementsByteSource
PROPERTY ImplementsByteSink
PROPERTY CallsReturn
