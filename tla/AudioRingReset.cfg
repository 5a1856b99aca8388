SPECIFICATION Spec
CONSTANTS
  Capacity = 3
  Block = 2
  Batches = {1, 3}
  MaxFrames = 5
  MaxResets = 1
PROPERTY NothingStaleHeard
