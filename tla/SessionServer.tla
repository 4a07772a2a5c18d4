--------------------------- MODULE SessionServer ---------------------------
(***************************************************************************)
(* One session server: the lobby it hosts, the seats, the picks and the    *)
(* readiness it keeps for them, and what it tells its members.             *)
(*                                                                         *)
(* The server is single threaded.  Its owner alternates connection         *)
(* callbacks and matchmaker calls with Step; Step drains the messages that *)
(* have arrived (one handler action each, inStep from the first one on)    *)
(* and ends with FinishStep, which repairs the seats, pairs the players    *)
(* and broadcasts what changed.  A connection handle is used once, by one  *)
(* client: its name, address and build go with it.                         *)
(*                                                                         *)
(* Clients are the senders of the handler actions and follow their own     *)
(* protocol: only players ready up, load when called, report once back.    *)
(***************************************************************************)
EXTENDS SessionProtocol, Sequences, FiniteSets, SequencesExt

CONSTANTS
  Conns,            \* connection handles
  NameOf,           \* the display name of each, after RegisterToWait's clean-up
  IpOf,             \* the IPv4 address of each
  BuildOf,          \* the sidecar hash of each
  Charas,           \* character ids a client may pick
  Stages, Seeds,    \* stages and RNG seeds seat 0 may send
  RequestsOf,       \* what each client may send with its ready
  DirectPlayers,    \* connections whose players turned direct play on
  Secrets,          \* join secrets the matchmaker may draw, each once
  HostBuild,        \* the hash the server is constructed with
  MaxUsers,         \* MAX_SF4E_PROTOCOL_USERS
  MaxSpectators,    \* MAX_SF4E_SPECTATORS
  SpectatorSlots,   \* relay pipes; 0 when spectators reach P1 directly
  MaxDesyncReports, \* reports relayed per lobby
  Dedicated,        \* the lobby server (secrets required) or a host's process
  ReadyInOnePoll,   \* what one SendReady writes is drained by one Step
  Nobody            \* no connection

MaxPlayers == 2
AnyBuild == "any build"
NoSecret == "no secret"
NoIp == "no address"
NoData == [members |-> <<>>, matchData |-> ClearMatchData(Nobody)]

ASSUME ServerAssumption ==
  /\ Nobody \notin Conns
  /\ IsFiniteSet(Conns)
  /\ Charas \subseteq Nat /\ Stages \subseteq Nat /\ Seeds \subseteq Nat
  /\ RequestsOf \in [Conns -> SUBSET ReadyRequest]
  /\ DirectPlayers \subseteq Conns
  /\ MaxUsers \in Nat /\ MaxUsers >= MaxPlayers
  /\ MaxSpectators \in Nat /\ SpectatorSlots \in Nat /\ MaxDesyncReports \in Nat
  /\ Dedicated \in BOOLEAN /\ ReadyInOnePoll \in BOOLEAN
  /\ \A c \in Conns : IpOf[c] # NoIp
  /\ NoSecret \notin Secrets

VARIABLES
  spent,           \* handles that have connected at least once
  accepted,        \* _accepted: the address of each accepted connection
  cidMap,          \* connections that completed HELLO
  clients,         \* the members' connections, in seat order
  member,          \* per connection, the SessionMember behind it
  matchData,       \* _matchData
  charaOwner,      \* _charaOwner
  readyRequest,    \* _readyRequest
  directExchanged, \* _directExchanged
  desyncReports,   \* _desyncReports
  joinSecret,      \* _joinSecret
  drawn,           \* secrets already given out
  sidecarHash,     \* _sidecarHash
  dataDirty,       \* _dataDirty
  inStep,          \* Step has taken messages and not finished
  allReadyDue,     \* bSendLobbyAllReady
  syncedDue,       \* bSendBattleSynced
  told,            \* per connection, the last data update sent to it
  peer,            \* per connection, whose endpoint it was last sent
  readying,        \* clients whose SETCHARA is in and whose READY follows
  out              \* per connection, the messages the last action sent

lobbyVars == <<clients, member>>
matchVars == <<matchData, charaOwner, readyRequest>>
netVars   == <<spent, accepted, cidMap>>
gateVars  == <<joinSecret, drawn, sidecarHash>>
stepVars  == <<inStep, allReadyDue, syncedDue>>
vars == <<spent, accepted, cidMap, clients, member, matchData, charaOwner,
          readyRequest, directExchanged, desyncReports, joinSecret, drawn,
          sidecarHash, dataDirty, inStep, allReadyDue, syncedDue, told, peer,
          readying, out>>

-----------------------------------------------------------------------------
(* Members and seats.                                                      *)

NoSlot == -1

(* `loaded` is MF_BATTLE_LOADED and `offered` a direct port.  The last     *)
(* three belong to the client: where it is in the match cycle ("waiting"   *)
(* is g_sentReady), the last pick it sent, the secret it joined with.      *)
Phases == {"lobby", "waiting", "loading", "fighting", "reporting"}
MemberRecord ==
  [spectator : BOOLEAN, watching : BOOLEAN, loaded : BOOLEAN, slot : Nat \cup {NoSlot},
   offered : BOOLEAN, phase : Phases, picked : Charas \cup {ZeroChara},
   secret : Secrets \cup {NoSecret}]
NoMember == [spectator |-> FALSE, watching |-> FALSE, loaded |-> FALSE,
             slot |-> NoSlot, offered |-> FALSE,
             phase |-> "lobby", picked |-> ZeroChara, secret |-> NoSecret]

Members == {clients[i] : i \in 1 .. Len(clients)}
IsMember(c) == c \in Members
IsPlayer(c) == c \in Members /\ ~member[c].spectator

PlayerCount == Cardinality({i \in 1 .. Len(clients) : ~member[clients[i]].spectator})
SpectatorCount == Len(clients) - PlayerCount

PlaceOf(c) == CHOOSE i \in 1 .. Len(clients) : clients[i] = c
SideOf(c) == PlaceOf(c) - 1
SitsAt(c, side) == Len(clients) > side /\ clients[side + 1] = c
SeatTaken(side) == Len(clients) > side /\ ~member[clients[side + 1]].spectator

(* The client has been told of the lobby, and plays.                       *)
Plays(c) == IsPlayer(c) /\ told[c] # NoData

(* What a data update carries.  The name, the address and the port are     *)
(* those of the connection; MF_BATTLE_LOADED is left out: no client reads  *)
(* it.                                                                     *)
PublicMember(c, m) == [conn |-> c, spectator |-> m.spectator,
                       watching |-> m.watching, slot |-> m.slot]
SessionData(members, match) ==
  [members   |-> [i \in 1 .. Len(clients) |-> PublicMember(clients[i], members[clients[i]])],
   matchData |-> match]

-----------------------------------------------------------------------------
(* Messages.                                                               *)

Silence == [c \in Conns |-> <<>>]
ToOne(c, msg) == [d \in Conns |-> IF d = c THEN <<msg>> ELSE <<>>]
ToOthers(c, msg) == [d \in Conns |-> IF d \in Members \ {c} THEN <<msg>> ELSE <<>>]

HelloResp == [type |-> "hello_resp"]
JoinReject(reason) == [type |-> "join_rej", result |-> reason]
DataUpdate(data) == [type |-> "data_update", data |-> data]
AllReady == [type |-> "lobby_allready"]
BattleSynced == [type |-> "battle_synced"]
Snapshot(c) == [type |-> "battle_snapshot", from |-> c]
DesyncReport(c) == [type |-> "desync_report", from |-> c]
DirectPeer(c) == [type |-> "direct_peer", of |-> c]
Forwarded == [type |-> "forward"]

Told(c, type) == \E i \in 1 .. Len(out[c]) : out[c][i].type = type

-----------------------------------------------------------------------------
Init ==
  /\ spent = {} /\ cidMap = {}
  /\ accepted = [c \in Conns |-> NoIp]
  /\ clients = <<>>
  /\ member = [c \in Conns |-> NoMember]
  /\ matchData = ClearMatchData(Nobody)
  /\ charaOwner = [s \in Sides |-> Nobody]
  /\ readyRequest = [s \in Sides |-> NoRequest]
  /\ directExchanged = FALSE
  /\ desyncReports = 0
  /\ joinSecret = NoSecret /\ drawn = {} /\ sidecarHash = HostBuild
  /\ dataDirty = FALSE
  /\ inStep = FALSE /\ allReadyDue = FALSE /\ syncedDue = FALSE
  /\ told = [c \in Conns |-> NoData]
  /\ peer = [c \in Conns |-> Nobody]
  /\ readying = {}
  /\ out = Silence

-----------------------------------------------------------------------------
(* Connection callbacks, delivered between two Steps.                      *)

(* Connecting: the caps on pending and active connections, then accept.    *)
(* A refused handle is closed and never heard of again.                    *)
Connect(c) ==
  LET live == {d \in Conns : accepted[d] # NoIp}
      room == /\ Cardinality(live) < 2 * MaxUsers
              /\ Cardinality({d \in live : accepted[d] = IpOf[c]}) < MaxUsers
  IN  /\ ~inStep
      /\ c \notin spent
      /\ spent' = spent \cup {c}
      /\ accepted' = IF room THEN [accepted EXCEPT ![c] = IpOf[c]] ELSE accepted
      /\ out' = Silence
      /\ UNCHANGED <<cidMap, lobbyVars, matchVars, gateVars, stepVars, directExchanged,
                     desyncReports, dataDirty, told, peer, readying>>

(* Closed by the peer or lost: a member leaves its place, the ones behind  *)
(* it move up, and the pairing is forgotten.  Picks and readiness stay for *)
(* FinishStep to judge.                                                    *)
Close(c) ==
  /\ ~inStep
  /\ accepted[c] # NoIp
  /\ accepted' = [accepted EXCEPT ![c] = NoIp]
  /\ cidMap' = cidMap \ {c}
  /\ clients' = IF IsMember(c) THEN RemoveAt(clients, PlaceOf(c)) ELSE clients
  /\ member' = [member EXCEPT ![c] = NoMember]
  /\ directExchanged' = (directExchanged /\ ~IsMember(c))
  /\ dataDirty' = (dataDirty \/ IsMember(c))
  /\ told' = [told EXCEPT ![c] = NoData]
  /\ peer' = [peer EXCEPT ![c] = Nobody]
  /\ readying' = readying \ {c}
  /\ out' = Silence
  /\ UNCHANGED <<spent, matchVars, gateVars, stepVars, desyncReports>>

-----------------------------------------------------------------------------
(* The matchmaker hands the lobby out and takes it back, between Steps.    *)

(* DisconnectAll and ResetLobby.  Owners and ready requests are kept.      *)
EmptyLobby ==
  /\ accepted' = [c \in Conns |-> NoIp]
  /\ cidMap' = {}
  /\ clients' = <<>>
  /\ member' = [c \in Conns |-> NoMember]
  /\ matchData' = ClearMatchData(Nobody)
  /\ directExchanged' = (directExchanged /\ clients = <<>>)
  /\ desyncReports' = 0
  /\ dataDirty' = TRUE
  /\ told' = [c \in Conns |-> NoData]
  /\ peer' = [c \in Conns |-> Nobody]
  /\ readying' = {}
  /\ out' = Silence
  /\ UNCHANGED <<spent, charaOwner, readyRequest, stepVars>>

(* create: a free lobby gets a fresh secret and the creator's build.       *)
Assign(secret, build) ==
  /\ Dedicated /\ ~inStep
  /\ joinSecret = NoSecret
  /\ secret \in Secrets \ drawn
  /\ joinSecret' = secret /\ drawn' = drawn \cup {secret}
  /\ sidecarHash' = build
  /\ EmptyLobby

(* Left empty, too old, or reused by its creator.                          *)
Release ==
  /\ Dedicated /\ ~inStep
  /\ joinSecret # NoSecret
  /\ joinSecret' = NoSecret /\ sidecarHash' = AnyBuild
  /\ UNCHANGED drawn
  /\ EmptyLobby

-----------------------------------------------------------------------------
(* Messages, in the order Step polls them.                                 *)

(* HELLO opens the session; anything else from a stranger is dropped.      *)
Hello(c) ==
  /\ accepted[c] # NoIp /\ c \notin cidMap
  /\ cidMap' = cidMap \cup {c}
  /\ inStep' = TRUE
  /\ out' = ToOne(c, HelloResp)
  /\ UNCHANGED <<spent, accepted, lobbyVars, matchVars, gateVars, allReadyDue, syncedDue,
                 directExchanged, desyncReports, dataDirty, told, peer, readying>>

(* The matchmaker's secret; before it has drawn one nobody can join.       *)
SecretUnset(secret) == secret = joinSecret   \* broken: no test that one is set
SecretOK(secret) == joinSecret # NoSecret /\ secret = joinSecret

(* RegisterToWait's checks, in its order.                                  *)
JoinResult(c, spectator, secret) ==
  IF Dedicated /\ ~SecretOK(secret) THEN "secret_invalid"
  ELSE IF sidecarHash # AnyBuild /\ BuildOf[c] # sidecarHash THEN "hash_invalid"
  ELSE IF \/ Len(clients) >= MaxUsers
          \/ ~spectator /\ PlayerCount >= MaxPlayers
          \/ spectator /\ SpectatorCount >= MaxSpectators
          \/ spectator /\ SpectatorSlots # 0 /\ SpectatorCount >= SpectatorSlots
       THEN "lobby_full"
  ELSE IF \E d \in Members : NameOf[d] = NameOf[c] THEN "name_taken"
  ELSE "ok"

NextSlot == SpectatorCount   \* broken: taken when a lower slot was given up

(* Lowest free pipe; a slot sticks to its member.                          *)
LowestFreeSlot ==
  CHOOSE k \in 0 .. Len(clients) :
    /\ \A d \in Members : member[d].slot # k
    /\ \A j \in 0 .. k - 1 : \E d \in Members : member[d].slot = j

NewMember(spectator, secret) ==
  [NoMember EXCEPT !.spectator = spectator, !.secret = secret,
                   !.slot = IF spectator /\ SpectatorSlots # 0 THEN LowestFreeSlot ELSE NoSlot]

(* Spectators go last, players right behind the players; a new player also *)
(* undoes the pairing.                                                     *)
TakePlace(c, spectator, secret) ==
  /\ clients' = IF spectator THEN Append(clients, c)
                             ELSE InsertAt(clients, PlayerCount + 1, c)
  /\ member' = [member EXCEPT ![c] = NewMember(spectator, secret)]
  /\ directExchanged' = (directExchanged /\ spectator)
  /\ out' = Silence

JoinUnannounced(c, spectator, secret) ==   \* broken: news of players only
  TakePlace(c, spectator, secret) /\ dataDirty' = (dataDirty \/ ~spectator)
Join(c, spectator, secret) ==
  TakePlace(c, spectator, secret) /\ dataDirty' = TRUE

JoinReq(c, spectator, secret) ==
  LET result == JoinResult(c, spectator, secret)
  IN  /\ c \in cidMap
      /\ secret \in drawn \cup {NoSecret}
      /\ inStep' = TRUE
      /\ \/ result = "ok" /\ Join(c, spectator, secret)
         \/ /\ result # "ok"
            /\ out' = ToOne(c, JoinReject(result))
            /\ UNCHANGED <<lobbyVars, directExchanged, dataDirty>>
      /\ UNCHANGED <<netVars, matchVars, gateVars, allReadyDue, syncedDue,
                     desyncReports, told, peer, readying>>

(* The pick a client sends when its player presses READY, first of the     *)
(* burst its READY ends.  It has no READY outstanding.                     *)
SetChara(c, chara) ==
  /\ Plays(c) /\ member[c].phase = "lobby"
  /\ matchData' = [matchData EXCEPT !.chara[SideOf(c)] = chara]
  /\ charaOwner' = [charaOwner EXCEPT ![SideOf(c)] = c]
  /\ member' = [member EXCEPT ![c].phase = "waiting", ![c].picked = chara]
  /\ readying' = readying \cup {c}
  /\ dataDirty' = TRUE /\ inStep' = TRUE
  /\ out' = Silence
  /\ UNCHANGED <<netVars, clients, readyRequest, gateVars, allReadyDue, syncedDue,
                 directExchanged, desyncReports, told, peer>>

(* Environment and stage, from the first seat only.                        *)
SetPreBattle(c, match) ==
  /\ c \in readying /\ SitsAt(c, 0)
  /\ matchData' = match
  /\ dataDirty' = TRUE /\ inStep' = TRUE
  /\ out' = Silence
  /\ UNCHANGED <<netVars, lobbyVars, charaOwner, readyRequest, gateVars, allReadyDue,
                 syncedDue, directExchanged, desyncReports, told, peer, readying>>

SetEnv(c, seed) == SetPreBattle(c, [matchData EXCEPT !.rngSeed = seed])
SetStage(c, stage) == SetPreBattle(c, [matchData EXCEPT !.stageID = stage])

(* READY: the seat is ready, and the second one fixes the shared delay.    *)
Ready(c, req) ==
  LET side  == SideOf(c)
      ready == [matchData.ready EXCEPT ![side] = c]
      reqs  == [readyRequest EXCEPT ![side] = req]
      all   == \A s \in Sides : ready[s] # Nobody
  IN  /\ c \in readying
      /\ matchData' = [matchData EXCEPT
           !.ready = ready,
           !.inputDelay = IF all THEN [s \in Sides |-> SharedInputDelay(reqs)]
                                 ELSE [@ EXCEPT ![side] = req.inputDelay]]
      /\ readyRequest' = reqs
      /\ allReadyDue' = (allReadyDue \/ all)
      /\ readying' = readying \ {c}
      /\ dataDirty' = TRUE /\ inStep' = TRUE
      /\ out' = Silence
      /\ UNCHANGED <<netVars, lobbyVars, charaOwner, gateVars, syncedDue,
                     directExchanged, desyncReports, told, peer>>

(* Back to not ready, unless the match is already starting.                *)
Unready(c) ==
  /\ Plays(c) /\ c \notin readying
  /\ member[c].phase = "waiting"
  /\ member' = [member EXCEPT ![c].phase = "lobby"]
  /\ inStep' = TRUE
  /\ out' = Silence
  /\ \/ /\ IsAllReady(matchData, Nobody)
        /\ UNCHANGED <<matchData, readyRequest, dataDirty>>
     \/ /\ ~IsAllReady(matchData, Nobody)
        /\ matchData' = [matchData EXCEPT !.ready[SideOf(c)] = Nobody,
                                          !.inputDelay[SideOf(c)] = NoDelay]
        /\ readyRequest' = [readyRequest EXCEPT ![SideOf(c)] = NoRequest]
        /\ dataDirty' = TRUE
  /\ UNCHANGED <<netVars, clients, charaOwner, gateVars, allReadyDue, syncedDue,
                 directExchanged, desyncReports, told, peer, readying>>

-----------------------------------------------------------------------------
(* Messages of the match itself.                                           *)

(* A client called into a match has loaded it.  The due flag is the one of *)
(* the last such message of the poll.                                      *)
BattleLoaded(c) ==
  /\ IsMember(c) /\ member[c].phase = "loading"
  /\ member' = [member EXCEPT ![c].loaded = TRUE, ![c].phase = "fighting"]
  /\ syncedDue' = \A d \in Members : member'[d].spectator \/ member'[d].loaded
  /\ dataDirty' = TRUE /\ inStep' = TRUE
  /\ out' = Silence
  /\ UNCHANGED <<netVars, clients, matchVars, gateVars, allReadyDue, directExchanged,
                 desyncReports, told, peer, readying>>

(* The seat this client reads off its last data update.                    *)
BelievesFirst(c) == \E i \in DOMAIN told[c].members :
                      /\ told[c].members[i].conn = c
                      /\ \A j \in 1 .. i - 1 : told[c].members[j].spectator

RotateToTheBack(loser) ==   \* broken: the loser goes behind the spectators, too
  IF loser < PlayerCount /\ PlayerCount > 1
  THEN /\ clients' = Append(RemoveAt(clients, loser + 1), clients[loser + 1])
       /\ matchData' = [matchData EXCEPT !.ready = [s \in Sides |-> Nobody]]
       /\ UNCHANGED charaOwner
  ELSE /\ matchData' = [matchData EXCEPT !.ready = [s \in Sides |-> Nobody]]
       /\ UNCHANGED <<clients, charaOwner>>

RotateOwnersOnly(loser) ==   \* broken: the picks stay where they are
  IF loser < PlayerCount /\ PlayerCount > 1
  THEN /\ clients' = InsertAt(RemoveAt(clients, loser + 1), PlayerCount, clients[loser + 1])
       /\ charaOwner' = IF PlayerCount = 2 /\ loser = 0
                        THEN [s \in Sides |-> charaOwner[Other(s)]] ELSE charaOwner
       /\ matchData' = [matchData EXCEPT !.ready = [s \in Sides |-> Nobody]]
  ELSE /\ matchData' = [matchData EXCEPT !.ready = [s \in Sides |-> Nobody]]
       /\ UNCHANGED <<clients, charaOwner>>

(* HandleResults: winner stays as P1, the loser moves behind the players,  *)
(* and what is kept by seat follows a change of seats.                     *)
Rotate(loser) ==
  IF loser < PlayerCount /\ PlayerCount > 1
  THEN /\ clients' = InsertAt(RemoveAt(clients, loser + 1), PlayerCount, clients[loser + 1])
       /\ LET swapped == PlayerCount = 2 /\ loser = 0
              At(f) == IF swapped THEN [s \in Sides |-> f[Other(s)]] ELSE f
          IN  /\ matchData' = [matchData EXCEPT !.chara = At(@),
                                                !.ready = [s \in Sides |-> Nobody]]
              /\ charaOwner' = At(charaOwner)
  ELSE /\ matchData' = [matchData EXCEPT !.ready = [s \in Sides |-> Nobody]]
       /\ UNCHANGED <<clients, charaOwner>>

(* A client comes back from a battle, and has a result to report if it     *)
(* takes itself for P1.                                                    *)
Return(c) ==
  /\ ~inStep
  /\ IsMember(c) /\ member[c].phase = "fighting"
  /\ member' = [member EXCEPT ![c].phase =
                   IF Plays(c) /\ BelievesFirst(c) THEN "reporting" ELSE "lobby"]
  /\ out' = Silence
  /\ UNCHANGED <<netVars, clients, matchVars, gateVars, stepVars, directExchanged,
                 desyncReports, dataDirty, told, peer, readying>>

ReportResults(c, loser) ==
  /\ Plays(c) /\ member[c].phase = "reporting"
  /\ Rotate(loser)
  /\ member' = [d \in Conns |-> [member[d] EXCEPT !.watching = FALSE,
                                    !.phase = IF d = c THEN "lobby" ELSE @]]
  /\ dataDirty' = TRUE /\ inStep' = TRUE
  /\ out' = Silence
  /\ UNCHANGED <<netVars, readyRequest, gateVars, allReadyDue, syncedDue, directExchanged,
                 desyncReports, told, peer, readying>>

(* A state to compare against, passed on to everyone else.                 *)
SnapshotMsg(c) ==
  /\ Plays(c) /\ member[c].phase = "fighting"
  /\ inStep' = TRUE
  /\ out' = ToOthers(c, Snapshot(c))
  /\ UNCHANGED <<netVars, lobbyVars, matchVars, gateVars, allReadyDue, syncedDue,
                 directExchanged, desyncReports, dataDirty, told, peer, readying>>

(* A match forked: recorded up to a cap, and every other member is told.   *)
ReportUpTo(cap, c) ==
  /\ Plays(c) /\ member[c].phase = "fighting"
  /\ desyncReports < cap
  /\ desyncReports' = desyncReports + 1
  /\ inStep' = TRUE
  /\ out' = ToOthers(c, DesyncReport(c))
  /\ UNCHANGED <<netVars, lobbyVars, matchVars, gateVars, allReadyDue, syncedDue,
                 directExchanged, dataDirty, told, peer, readying>>

DesyncOverCap(c) == ReportUpTo(MaxDesyncReports + 1, c)   \* broken: one too many
ReportDesync(c) == ReportUpTo(MaxDesyncReports, c)

(* A message for another member: it is sent back where it came from.       *)
Forward(c) ==
  /\ c \in cidMap /\ Members # {}
  /\ inStep' = TRUE
  /\ out' = ToOne(c, Forwarded)
  /\ UNCHANGED <<netVars, lobbyVars, matchVars, gateVars, allReadyDue, syncedDue,
                 directExchanged, desyncReports, dataDirty, told, peer, readying>>

-----------------------------------------------------------------------------
(* Direct play.                                                            *)

(* Both players are in and both offered an endpoint.                       *)
PairDue(members) ==
  PlayerCount >= MaxPlayers /\ members[clients[1]].offered /\ members[clients[2]].offered

(* Each player is sent the other's endpoint, spectators nothing.           *)
Paired == [peer EXCEPT ![clients[1]] = clients[2], ![clients[2]] = clients[1]]
PairMessages ==
  [c \in Conns |-> IF SitsAt(c, 0) THEN <<DirectPeer(clients[2])>>
                   ELSE IF SitsAt(c, 1) THEN <<DirectPeer(clients[1])>> ELSE <<>>]

(* A client offers when it arms direct play, again after every match, and  *)
(* holds no peer then.                                                     *)
Offer(c) ==
  /\ Plays(c) /\ c \in DirectPlayers
  /\ member[c].phase \in {"lobby", "waiting"}
  /\ inStep' = TRUE
  /\ member' = [member EXCEPT ![c].offered = TRUE]
  /\ UNCHANGED <<netVars, clients, matchVars, gateVars, allReadyDue, syncedDue,
                 desyncReports, dataDirty, told, readying>>
Unpaired(c) == peer' = [peer EXCEPT ![c] = Nobody] /\ out' = Silence

OfferPairsOnce(c) ==   \* broken: what was exchanged once stays exchanged
  Offer(c) /\ Unpaired(c) /\ UNCHANGED directExchanged

(* Every offer pairs afresh.                                               *)
DirectOffer(c) ==
  /\ Offer(c)
  /\ \/ PairDue(member') /\ directExchanged' = TRUE /\ peer' = Paired /\ out' = PairMessages
     \/ ~PairDue(member') /\ directExchanged' = FALSE /\ Unpaired(c)

-----------------------------------------------------------------------------
(* The end of a Step.                                                      *)

(* A pick that no longer belongs to the player in its seat.  A zeroed pick *)
(* reads as no pick at all.                                                *)
Vacated(side) ==
  /\ matchData.chara[side] # ZeroChara
  /\ ~(SeatTaken(side) /\ charaOwner[side] = clients[side + 1])

WipedMatch ==   \* broken: one vacated seat unreadies both
  [matchData EXCEPT
     !.chara = [s \in Sides |-> IF Vacated(s) THEN ZeroChara ELSE @[s]],
     !.ready = [s \in Sides |-> IF \E t \in Sides : Vacated(t) THEN Nobody ELSE @[s]]]

(* DropCharaFromVacatedSeats.                                              *)
KeptMatch ==
  [matchData EXCEPT
     !.chara = [s \in Sides |-> IF Vacated(s) THEN ZeroChara ELSE @[s]],
     !.ready = [s \in Sides |-> IF Vacated(s) THEN Nobody ELSE @[s]]]

(* The spectators in the room when a match is called will be waited for;   *)
(* every client on the menu goes and loads it.                             *)
Called ==
  [c \in Conns |-> IF IsMember(c)
                   THEN [member[c] EXCEPT !.watching = @ \/ member[c].spectator,
                           !.phase = IF @ \in {"lobby", "waiting"} THEN "loading" ELSE @]
                   ELSE member[c]]

When(cond, msgs) == IF cond THEN msgs ELSE <<>>

FinishStep ==
  LET pairing == ~directExchanged /\ PairDue(member)
      dirty   == dataDirty \/ \E s \in Sides : Vacated(s)
      before  == SessionData(member, KeptMatch)
      after   == SessionData(member', KeptMatch)
  IN  /\ ReadyInOnePoll => readying = {}
      /\ matchData' = KeptMatch
      /\ charaOwner' = [s \in Sides |-> IF Vacated(s) THEN Nobody ELSE charaOwner[s]]
      /\ directExchanged' = (directExchanged \/ pairing)
      /\ peer' = IF pairing THEN Paired ELSE peer
      /\ member' = IF allReadyDue THEN Called ELSE member
      /\ told' = [c \in Conns |-> IF IsMember(c) /\ (dirty \/ allReadyDue) THEN after ELSE told[c]]
      /\ out' = [c \in Conns |->
                   When(pairing, PairMessages[c])
                   \o When(dirty /\ IsMember(c), <<DataUpdate(before)>>)
                   \o When(allReadyDue /\ IsMember(c), <<DataUpdate(after), AllReady>>)
                   \o When(syncedDue /\ IsMember(c), <<BattleSynced>>)]
      /\ dataDirty' = FALSE
      /\ inStep' = FALSE /\ allReadyDue' = FALSE /\ syncedDue' = FALSE
      /\ UNCHANGED <<netVars, clients, readyRequest, gateVars, desyncReports, readying>>

(* The host's own game leaves a battle: nobody has loaded any more.        *)
ResetBattleSync ==
  /\ ~Dedicated /\ ~inStep
  /\ member' = [c \in Conns |-> [member[c] EXCEPT !.loaded = FALSE]]
  /\ out' = Silence
  /\ UNCHANGED <<netVars, clients, matchVars, gateVars, stepVars, directExchanged,
                 desyncReports, dataDirty, told, peer, readying>>

-----------------------------------------------------------------------------
Owner(c) == Connect(c) \/ Close(c)

Handle(c) ==
  \/ Hello(c)
  \/ \E spectator \in BOOLEAN, secret \in Secrets \cup {NoSecret} : JoinReq(c, spectator, secret)
  \/ \E chara \in Charas : SetChara(c, chara)
  \/ \E seed \in Seeds : SetEnv(c, seed)
  \/ \E stage \in Stages : SetStage(c, stage)
  \/ \E req \in RequestsOf[c] : Ready(c, req)
  \/ Unready(c)
  \/ BattleLoaded(c)
  \/ Return(c)
  \/ \E loser \in Sides : ReportResults(c, loser)
  \/ SnapshotMsg(c)
  \/ ReportDesync(c)
  \/ DirectOffer(c)
  \/ Forward(c)

Next ==
  \/ \E c \in Conns : Owner(c) \/ Handle(c)
  \/ \E secret \in Secrets, c \in Conns : Assign(secret, BuildOf[c])
  \/ Release
  \/ ResetBattleSync
  \/ FinishStep

Spec == Init /\ [][Next]_vars
-----------------------------------------------------------------------------
(* Between two Steps, with nothing left to broadcast.                      *)
Settled == ~inStep /\ ~dataDirty

TypeOK ==
  /\ spent \subseteq Conns /\ cidMap \subseteq Conns /\ readying \subseteq Conns
  /\ accepted \in [Conns -> {IpOf[c] : c \in Conns} \cup {NoIp}]
  /\ clients \in Seq(Conns)
  /\ member \in [Conns -> MemberRecord]
  /\ matchData \in MatchDataOf(Conns \cup {Nobody}, Charas, Stages, Seeds)
  /\ charaOwner \in [Sides -> Conns \cup {Nobody}]
  /\ readyRequest \in [Sides -> ReadyRequest]
  /\ directExchanged \in BOOLEAN /\ dataDirty \in BOOLEAN
  /\ desyncReports \in 0 .. MaxDesyncReports
  /\ joinSecret \in Secrets \cup {NoSecret} /\ drawn \subseteq Secrets
  /\ inStep \in BOOLEAN /\ allReadyDue \in BOOLEAN /\ syncedDue \in BOOLEAN
  /\ peer \in [Conns -> Conns \cup {Nobody}]
  /\ DOMAIN told = Conns /\ DOMAIN out = Conns

(* The members are distinct live connections; players come first and fill  *)
(* at most two places, the spectators stay within their limit, and no two  *)
(* spectators share a relay pipe (RegisterToWait, HandleResults and the    *)
(* closing callback all move members about).                               *)
Seating ==
  /\ Members \subseteq cidMap /\ \A c \in cidMap : accepted[c] # NoIp
  /\ \A i, j \in 1 .. Len(clients) : i # j => NameOf[clients[i]] # NameOf[clients[j]]
  /\ \A i \in 1 .. Len(clients) : ~member[clients[i]].spectator <=> i <= PlayerCount
  /\ PlayerCount <= MaxPlayers /\ SpectatorCount <= MaxSpectators
  /\ SpectatorSlots # 0 =>
       \A i, j \in PlayerCount + 1 .. Len(clients) :
         /\ member[clients[i]].slot \in 0 .. SpectatorSlots - 1
         /\ i # j => member[clients[i]].slot # member[clients[j]].slot

(* What the clients are told of a seat is about the player sitting in it:  *)
(* a pick is the last one that player sent, a ready flag beside a pick its *)
(* own, and who is shown ready is shown with its own pick, character 0     *)
(* included (DropCharaFromVacatedSeats, the swap in HandleResults).        *)
SeatsDescribeTheirPlayers ==
  Settled => \A s \in Sides :
    /\ matchData.chara[s] # ZeroChara =>
         /\ SeatTaken(s) /\ matchData.chara[s] = member[clients[s + 1]].picked
         /\ matchData.ready[s] \in {clients[s + 1], Nobody}
    /\ SeatTaken(s) /\ matchData.ready[s] = clients[s + 1] =>
         matchData.chara[s] = member[clients[s + 1]].picked

(* Whenever both seats are ready they are given the same delay, inside the *)
(* range the game supports, whatever was chosen and measured.              *)
DelayAgreed ==
  IsAllReady(matchData, Nobody) =>
    /\ matchData.inputDelay[0] = matchData.inputDelay[1]
    /\ matchData.inputDelay[0] \in 1 .. INPUT_DELAY_MAX

(* Nothing a member can see changes without a broadcast: between Steps,    *)
(* what each of them was last sent is what the server holds (_dataDirty).  *)
MembersUpToDate ==
  Settled => \A c \in Members : told[c] = SessionData(member, matchData)

(* Between Steps, two players who both opted in hold each other's endpoint *)
(* and nobody else's, and no spectator holds one                           *)
(* (MaybeExchangeDirectEndpoints, OnMembershipChanged).                    *)
DirectPairing ==
  /\ \A c \in Members : member[c].spectator => peer[c] = Nobody
  /\ Settled /\ PairDue(member) =>
       peer[clients[1]] = clients[2] /\ peer[clients[2]] = clients[1]

(* A player who readied up stays ready through every join and departure of *)
(* somebody else: only its own message, a result or the end of the lobby   *)
(* takes the flag away while it keeps its seat (OnMembershipChanged).      *)
ReadinessSurvives ==
  [][\A c \in Conns, s \in Sides :
       /\ matchData.ready[s] = c /\ SitsAt(c, s) /\ SitsAt(c, s)'
       /\ matchData'.ready[s] # c
       => Unready(c) \/ \E d \in Conns, loser \in Sides : ReportResults(d, loser)]_vars

(* Everyone in the lobby joined with the secret this lobby was handed out  *)
(* with and runs its creator's build: nobody is left over from an earlier  *)
(* lobby on the same server (Assign, Release, RegisterToWait).             *)
SameLobby ==
  \A c \in Members : /\ Dedicated => member[c].secret = joinSecret /\ joinSecret # NoSecret
                     /\ sidecarHash # AnyBuild => BuildOf[c] = sidecarHash
=============================================================================
