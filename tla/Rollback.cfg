SPECIFICATION FairSpec
CONSTANTS
  GGPO_MAX_PREDICTION_FRAMES = 2
  Delay = 1
  SNAPSHOT_EVERY = 2
  SETTLED = 3
  HOLD_CAP = 1
  Checkpointing = {1, 2}
  Drifting = {1}
  IdleFrames = {0, 2}
  OverAt = 4
  ResultAt = 5
  LastFrame = 5
  MaxMatches = 2
  MaxFaults = 1
CHECK_DEADLOCK FALSE
INVARIANTS TypeOK NoFalseDesync StatesKept ResultStands
PROPERTIES MatchGoesOn ForkEndsBoth
