\* Packet headers in PPT markers, two areas of a single-tile image.
SPECIFICATION Spec
CONSTANTS
  NumBlocks = 3
  CompOf <- MCCompOf
  Windows <- MCWindows
  Levels = 1
  Lines = 3
  MaxCalls = 2
  Corrupt = {}
  Threads = {2}
  PackedHeaders = TRUE
  Faults = {}
INVARIANTS
  SuccessIsComplete
