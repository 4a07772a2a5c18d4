---------------------------- MODULE MCMatchmaking ----------------------------
EXTENDS Matchmaking, TLC
CONSTANTS c1, c2, k1, k2
SameIp == [c \in Clients |-> "home"]
SameBuild == [c \in Clients |-> "ours"]
OnlyFirst == [c \in Clients |-> IF c = c1 THEN 2 ELSE 0]
Once == [c \in Clients |-> 1]
OnlySecond == [c \in Clients |-> IF c = c1 THEN 0 ELSE 1]
CodeSymmetry == Permutations(Codes)
=============================================================================
