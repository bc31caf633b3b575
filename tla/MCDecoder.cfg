\* Codestreams of one to three tiles and up to six tile-parts, conformant or not.
CONSTANTS
  Streams <- MCStreams
  Modes = {"default", "strict", "lenient"}
  Faults = {"tile"}
  MaxCalls = 3
SPECIFICATION FairSpec
INVARIANT AreaExact
INVARIANT TileExact
INVARIANT CallsSucceed
INVARIANT PartsInOrder
INVARIANT LeftBehind
PROPERTY CallsReturn
