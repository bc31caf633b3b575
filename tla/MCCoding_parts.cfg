\* One tile whose origin is not on the grid of its precincts, in three tile-parts.
CONSTANTS
  Kinds = {"parts"}
  Tasks <- LostTasks
  None = None
SPECIFICATION Spec
CHECK_DEADLOCK FALSE
INVARIANT AllWritten
