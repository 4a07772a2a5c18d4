SPECIFICATION FairSpec
CONSTANTS
  c1 = c1
  c2 = c2
  k1 = k1
  k2 = k2
  Clients = {c1, c2}
  IpOf <- SameIp
  BuildOf <- SameBuild
  Codes = {k1}
  NUM_LOBBIES = 2
  MAX_LOBBIES_PER_IP = 1
  MAX_PLAYERS_PER_LOBBY = 2
  MAX_ATTEMPTS = 2
  MaxCreated = 2
  MaxCreates <- OnlyFirst
  MaxJoins <- OnlySecond
  MaxReplies = 1
  Fresh = {c1}
  NoCode = NoCode
  Nobody = Nobody
CHECK_DEADLOCK FALSE
INVARIANTS SameTenure
PROPERTIES WaitingEnds LobbiesReturn
