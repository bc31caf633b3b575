\* Pools of 0, 1 and 2 threads; block 3 is corrupt; every allocation may
\* fail, and the pool may refuse a job.
SPECIFICATION FairSpec
CONSTANTS
  NumBlocks = 3
  CompOf <- MCCompOf
  Windows <- MCWindows
  Levels = 1
  Lines = 3
  MaxCalls = 2
  Corrupt = {3}
  Threads = {0, 1, 2}
  PackedHeaders = FALSE
  Faults = {"tile", "job", "block", "handle", "line", "finish", "submit"}
INVARIANTS
  NoJobOutlivesItsStep
  DecodedComplete
  KeptBlocksSound
  PassExact
PROPERTIES
  CallsReturn
