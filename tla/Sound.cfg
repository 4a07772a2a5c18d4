\* A battle of three frames on two adapters, going back up to two frames.
SPECIFICATION Spec
CONSTANTS
  NumAdapters = 2
  Cues = {"hit", "voice"}
  Interrupting = {"hit"}
  Prediction = 2
  MaxFrame = 4
  MaxCalls = 1
VIEW View
PROPERTIES Mirrored PlaysOn
