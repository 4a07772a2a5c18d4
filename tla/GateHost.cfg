SPECIFICATION FairSpec
CONSTANTS
  p1 = p1
  p2 = p2
  ryu = ryu
  ken = ken
  Nobody = Nobody
  NoPick = NoPick
  Clients = {p1, p2}
  Host = p1
  Picks = {ryu, ken}
  MaxInFlight = 2
  MaxQuits = 1
  Patient = TRUE
INVARIANTS SameGame
PROPERTIES Meets CallsEnd
CHECK_DEADLOCK FALSE
