SPECIFICATION Spec
CONSTANTS
  GGPO_MAX_PREDICTION_FRAMES = 2
  Delay = 1
  SNAPSHOT_EVERY = 2
  SETTLED = 3
  HOLD_CAP = 1
  Checkpointing = {}
  Drifting = {1}
  IdleFrames = {0}
  OverAt = 3
  ResultAt = 5
  LastFrame = 5
  MaxMatches = 2
  MaxFaults = 2
CHECK_DEADLOCK FALSE
PROPERTIES ForksReported
