SPECIFICATION Spec
CONSTANTS
  Keys = {k1}
  Globals = flow
  f1 = f1
  f2 = f2
  Values <- BattleStates
  Buffers = {1, 2, 3, 4, 5}
  GGPO_MAX_PREDICTION_FRAMES = 2
  MaxSyncFrames = 6
SYMMETRY Interchangeable
VIEW BuffersAside
INVARIANTS OneOwner WhatWasSaved NoStrays RingHeld NoFalseMismatch LoadBringsBack
