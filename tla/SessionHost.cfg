\* A lobby in a host's game: players and spectators, picks, readiness, rotation.
SPECIFICATION Spec
CONSTANTS
  c1 = c1
  c2 = c2
  c3 = c3
  s1 = s1
  s2 = s2
  Conns = {c1, c2, c3}
  NameOf <- OwnName
  IpOf <- SameIp
  BuildOf <- SameBuild
  Charas = {0, 1, 2}
  Stages = {3}
  Seeds = {7}
  RequestsOf <- AllAutomatic
  DirectPlayers = {}
  Secrets = {}
  HostBuild = "ours"
  MaxUsers = 3
  MaxSpectators = 2
  SpectatorSlots = 0
  MaxDesyncReports = 1
  Dedicated = FALSE
  ReadyInOnePoll = TRUE
  Nobody = Nobody
VIEW SeatView
SYMMETRY ConnSymmetry
CHECK_DEADLOCK FALSE
INVARIANTS TypeOK Seating SeatsDescribeTheirPlayers
PROPERTIES ReadinessSurvives
