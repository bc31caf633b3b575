\* One codestream with TLM markers, interleaved tile-parts and no TNsot.
CONSTANTS
  Streams <- MCPlanned
  Modes = {"default"}
  Faults = {}
  MaxCalls = 3
SPECIFICATION Spec
INVARIANT OrderCheckValid
