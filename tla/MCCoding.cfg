\* Tiles of one to three resolutions, precincts of one to four blocks in two
\* layers, blocks of three runs in two passes, two calls on a file, lines of up to eleven
\* samples and planes of up to six by four in up to three resolutions,
\* images of two components in one to six tiles, with two calls for a tile.
CONSTANTS
  Kinds = {"parts", "packets", "block", "boxes", "windows", "areas"}
  Tasks <- AllTasks
  None = None
SPECIFICATION Spec
CHECK_DEADLOCK FALSE
INVARIANT PartsReadBack
INVARIANT PacketsReadBack
INVARIANT SegmentsReadBack
INVARIANT Jp2Sound
INVARIANT WindowExact
INVARIANT ImageExact
