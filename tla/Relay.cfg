SPECIFICATION FairSpec
CONSTANTS
  a1 = a1
  a2 = a2
  b1 = b1
  w1 = w1
  Players = {a1, a2, b1}
  Spectators = {w1}
  Ip <- SharedIp
  MaxChanges = 5
  MaxFaults = 1
  MaxInFlight = 1
CHECK_DEADLOCK FALSE
INVARIANTS SlotsApart StaysInside
PROPERTIES PlayersMeet SpectatorFed
