-------------------------- MODULE MCSessionServer --------------------------
(***************************************************************************)
(* Small instances of SessionServer for TLC.                               *)
(***************************************************************************)
EXTENDS SessionServer

CONSTANTS c1, c2, c3, s1, s2

(* Every client has a name of its own and the same build; two share an     *)
(* address.                                                                *)
OwnName == [c \in Conns |-> c]
SameIp == [c \in Conns |-> "home"]
SameBuild == [c \in Conns |-> "ours"]

(* c1 and c2 call themselves the same.                                     *)
SharedName == [c \in Conns |-> IF c = c1 THEN c2 ELSE c]

(* One seat lets the server choose the delay, one wants too much of it.    *)
AutoRequest == [inputDelay |-> 0, serverPingMs |-> 30, directRoundTripMs |-> -1]
HighRequest == [inputDelay |-> 9, serverPingMs |-> 30, directRoundTripMs |-> 40]

AllAutomatic == [c \in Conns |-> {AutoRequest}]
OneWantsMore == [c \in Conns |-> IF c = c1 THEN {AutoRequest} ELSE {HighRequest}]

(* `out` is only read by properties about messages.                        *)
StateView == <<spent, accepted, cidMap, lobbyVars, matchVars, directExchanged, desyncReports,
               gateVars, dataDirty, stepVars, told, peer, readying>>

(* Who sits where, with what: without MembersUpToDate, of the last update  *)
(* only its members are read, and without DelayAgreed, of the match only   *)
(* picks and readiness.                                                    *)
SeatView == <<spent, accepted, cidMap, lobbyVars, matchData.chara, matchData.ready, charaOwner,
              directExchanged, desyncReports, gateVars, dataDirty, stepVars,
              [c \in Conns |-> told[c].members], peer, readying>>

ConnSymmetry == Permutations(Conns)
SecretSymmetry == Permutations(Secrets)
=============================================================================
