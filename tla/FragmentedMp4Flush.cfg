CONSTANTS
  Tracks = {1, 2}
  Video = {2}
  Versions = {1, 2}
  Clock = 2
  Rate = 3
  MaxSamples = 3
  FirstTimes = {0}
  MaxPackets = 4
  MaxConfigs = 3
  BackLimit = 1
  MaxFaults = 0
SPECIFICATION DemuxSpec
INVARIANT NothingLeftBehind
\* Input ends.
CHECK_DEADLOCK FALSE
