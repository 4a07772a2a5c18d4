SPECIFICATION Spec
CONSTANTS
  p1 = p1
  p2 = p2
  ryu = ryu
  ken = ken
  Nobody = Nobody
  NoPick = NoPick
  Clients = {p1, p2}
  Host = Nobody
  Picks = {ryu}
  MaxInFlight = 2
  MaxQuits = 0
  Patient = TRUE
PROPERTIES Meets
