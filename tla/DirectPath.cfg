SPECIFICATION FairSpec
CONSTANTS
  Peers = {p1, p2}
  MAX_ATTEMPTS = 4
  MaxMatches = 2
  MaxFailures = 1
  MaxInFlight = 1
CHECK_DEADLOCK FALSE
INVARIANTS DirectMet OnePairing
PROPERTIES Repaired
