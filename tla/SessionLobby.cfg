\* The lobby server hands one lobby out twice: secrets, names, pipes, delays, pairs.
SPECIFICATION Spec
CONSTANTS
  c1 = c1
  c2 = c2
  c3 = c3
  s1 = s1
  s2 = s2
  Conns = {c1, c2, c3}
  NameOf <- SharedName
  IpOf <- SameIp
  BuildOf <- SameBuild
  Charas = {1}
  Stages = {}
  Seeds = {}
  RequestsOf <- OneWantsMore
  DirectPlayers = {c1, c2, c3}
  Secrets = {s1, s2}
  HostBuild <- AnyBuild
  MaxUsers = 3
  MaxSpectators = 2
  SpectatorSlots = 2
  MaxDesyncReports = 0
  Dedicated = TRUE
  ReadyInOnePoll = TRUE
  Nobody = Nobody
VIEW StateView
SYMMETRY SecretSymmetry
CHECK_DEADLOCK FALSE
INVARIANTS Seating DelayAgreed SameLobby DirectPairing MembersUpToDate
