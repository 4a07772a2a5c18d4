----------------------------- MODULE BattleGate -----------------------------
(***************************************************************************)
(* From READY to the battle and back, over any number of matches: two      *)
(* players, their session server, and the reliable, ordered connections    *)
(* between them, whose delays decide what a client knows when it acts.     *)
(*                                                                         *)
(* SessionServer has the server's handlers in full; here they are cut down *)
(* to what the match cycle reads, and the clients are modelled instead:    *)
(* the lobby screen, the events of the game that load a battle, and the    *)
(* wait in HasInitialized for the server's word that both have loaded.     *)
(***************************************************************************)
EXTENDS Naturals, Sequences, FiniteSets, SequencesExt

CONSTANTS
  Clients,      \* the two players
  Host,         \* the one whose game runs the server; Nobody: a lobby server
  Picks,        \* the characters they choose from
  MaxInFlight,  \* messages under way on a connection
  MaxQuits,     \* players who vanish for good
  Patient,      \* players wait for the lobby to show their last press
  Nobody, NoPick

ASSUME GateAssumption ==
  /\ IsFiniteSet(Clients) /\ Cardinality(Clients) = 2 /\ Nobody \notin Clients /\ NoPick \notin Picks
  /\ Host \in Clients \cup {Nobody}
  /\ MaxInFlight \in Nat /\ MaxQuits \in Nat /\ Patient \in BOOLEAN

VARIABLES
  seats,      \* the server: its members in seat order
  ready,      \* readiness by seat
  chara,      \* pick by seat
  loaded,     \* MF_BATTLE_LOADED
  dirty,      \* _dataDirty
  callDue,    \* bSendLobbyAllReady
  syncedDue,  \* bSendBattleSynced
  up, down,   \* messages under way to the server and to each client
  scene,      \* a client: which event of the game it is in
  view,       \* its last data update
  sentReady,  \* g_sentReady
  synced,     \* bSessionSynced
  game,       \* the seats and picks it loaded its battle with
  running,    \* GGPO has reached RUNNING in it
  loser       \* the seat that lost the battle it has just fought

match == <<ready, chara>>
due == <<dirty, callDue, syncedDue>>
server == <<seats, match, loaded, due>>
client == <<scene, view, sentReady, synced>>
battle == <<game, running, loser>>
vars == <<server, up, down, client, battle>>

Sides == {0, 1}
NoSide == 2
Scenes == {"menu", "called", "loading", "gate", "battle", "returning", "gone"}
Other(c) == CHOOSE d \in Clients : d # c

Members == ToSet(seats)
SideIn(members, c) == (CHOOSE i \in 1 .. Len(members) : members[i] = c) - 1
MySide(c) == SideIn(view[c].seats, c)
InBattle(c) == scene[c] \in {"loading", "gate", "battle"}
Paired(c) == Len(game[c].seats) = 2   \* and so it has a GGPO session

Data == [seats |-> seats, ready |-> ready, chara |-> chara]
NoGame == [seats |-> <<>>, chara |-> [s \in Sides |-> NoPick]]

Ready(pick) == [type |-> "ready", chara |-> pick]   \* with its SETCHARA
Unready == [type |-> "unready"]
Loaded == [type |-> "battle_loaded"]
Results(side) == [type |-> "report_results", loser |-> side]
Update == [type |-> "data_update", data |-> Data]
AllReady == [type |-> "lobby_allready"]
Synced == [type |-> "battle_synced"]

Send(c, msg) ==
  /\ Len(up[c]) < MaxInFlight
  /\ up' = [up EXCEPT ![c] = Append(@, msg)]

(* Both players have joined and been told of each other.                   *)
Init ==
  /\ seats \in SetToSeqs(Clients)
  /\ ready = [s \in Sides |-> FALSE] /\ chara = [s \in Sides |-> NoPick]
  /\ loaded = [c \in Clients |-> FALSE]
  /\ dirty = FALSE /\ callDue = FALSE /\ syncedDue = FALSE
  /\ up = [c \in Clients |-> <<>>] /\ down = [c \in Clients |-> <<>>]
  /\ scene = [c \in Clients |-> "menu"]
  /\ view = [c \in Clients |-> Data]
  /\ sentReady = [c \in Clients |-> FALSE] /\ synced = [c \in Clients |-> FALSE]
  /\ game = [c \in Clients |-> NoGame]
  /\ running = [c \in Clients |-> FALSE] /\ loser = [c \in Clients |-> NoSide]

-----------------------------------------------------------------------------
(* The server.  A Step takes messages off the connections, one Receive     *)
(* each, and ends with its broadcasts.                                     *)

OnReady(c, pick) ==
  /\ chara' = [chara EXCEPT ![SideIn(seats, c)] = pick]
  /\ ready' = [ready EXCEPT ![SideIn(seats, c)] = TRUE]
  /\ callDue' = (callDue \/ \A s \in Sides : ready'[s])
  /\ dirty' = TRUE
  /\ UNCHANGED <<seats, loaded, syncedDue>>

(* Too late when the match is already starting.                            *)
OnUnready(c) ==
  /\ \/ /\ \A s \in Sides : ready[s]
        /\ UNCHANGED <<ready, dirty>>
     \/ /\ \E s \in Sides : ~ready[s]
        /\ ready' = [ready EXCEPT ![SideIn(seats, c)] = FALSE]
        /\ dirty' = TRUE
  /\ UNCHANGED <<seats, chara, loaded, callDue, syncedDue>>

LoadedBefore(c) ==   \* broken: asks before it has noted the sender
  /\ loaded' = [loaded EXCEPT ![c] = TRUE]
  /\ syncedDue' = \A d \in Members : loaded[d]
  /\ dirty' = TRUE
  /\ UNCHANGED <<seats, match, callDue>>

OnLoaded(c) ==
  /\ loaded' = [loaded EXCEPT ![c] = TRUE]
  /\ syncedDue' = \A d \in Members : loaded'[d]
  /\ dirty' = TRUE
  /\ UNCHANGED <<seats, match, callDue>>

(* HandleResults with two players: the loser moves to the second seat.     *)
OnResults(side) ==
  /\ ready' = [s \in Sides |-> FALSE]
  /\ IF Len(seats) = 2 /\ side = 0
     THEN seats' = Reverse(seats) /\ chara' = [s \in Sides |-> chara[1 - s]]
     ELSE UNCHANGED <<seats, chara>>
  /\ dirty' = TRUE
  /\ UNCHANGED <<loaded, callDue, syncedDue>>

Receive(c) ==
  LET msg == Head(up[c])
  IN  /\ c \in Members /\ up[c] # <<>>
      /\ up' = [up EXCEPT ![c] = Tail(@)]
      /\ \/ msg.type = "ready" /\ OnReady(c, msg.chara)
         \/ msg.type = "unready" /\ OnUnready(c)
         \/ msg.type = "battle_loaded" /\ OnLoaded(c)
         \/ msg.type = "report_results" /\ OnResults(msg.loser)
      /\ UNCHANGED <<down, client, battle>>

CallFirst ==   \* broken: calls the match before it has told of the last READY
  (IF callDue THEN <<AllReady>> ELSE <<>>) \o <<Update>>
    \o (IF syncedDue THEN <<Synced>> ELSE <<>>)

(* The first update of a Step that calls a match and the one that goes     *)
(* with the call differ in who watches only: one stands for both.          *)
News == <<Update>> \o (IF callDue THEN <<AllReady>> ELSE <<>>)
                   \o (IF syncedDue THEN <<Synced>> ELSE <<>>)

Connected == {c \in Members : scene[c] # "gone"}

FinishStep ==
  /\ dirty
  /\ \A c \in Connected : Len(down[c]) < MaxInFlight
  /\ down' = [c \in Clients |-> IF c \in Connected THEN down[c] \o News ELSE <<>>]
  /\ dirty' = FALSE /\ callDue' = FALSE /\ syncedDue' = FALSE
  /\ UNCHANGED <<seats, match, loaded, up, client, battle>>

CloseShrinks(c) ==   \* broken: keeps no more seats than members
  LET side == SideIn(seats, c)
  IN  /\ ~dirty /\ c \in Members /\ scene[c] = "gone"
      /\ seats' = RemoveAt(seats, side + 1)
      /\ ready' = [s \in 0 .. side - 1 |-> ready[s]]
      /\ chara' = [s \in 0 .. side - 1 |-> chara[s]]
      /\ loaded' = [loaded EXCEPT ![c] = FALSE]
      /\ dirty' = TRUE
      /\ UNCHANGED <<callDue, syncedDue, up, down, client, battle>>

(* The connection of a player who is gone times out: the place is given    *)
(* up, and every seat from it on changes hands and loses its pick and      *)
(* readiness before the next broadcast.                                    *)
Close(c) ==
  LET side == SideIn(seats, c)
  IN  /\ ~dirty /\ c \in Members /\ scene[c] = "gone"
      /\ seats' = RemoveAt(seats, side + 1)
      /\ ready' = [s \in Sides |-> s < side /\ ready[s]]
      /\ chara' = [s \in Sides |-> IF s < side THEN chara[s] ELSE NoPick]
      /\ loaded' = [loaded EXCEPT ![c] = FALSE]
      /\ dirty' = TRUE
      /\ UNCHANGED <<callDue, syncedDue, up, down, client, battle>>

-----------------------------------------------------------------------------
(* The lobby screen.                                                       *)

Shown(c) == view[c].ready[MySide(c)]

(* The lobby takes READY again at once, also before the result of the last *)
(* match has cleared the flag it shows.                                    *)
PressReady(c, pick) ==
  /\ scene[c] = "menu" /\ ~sentReady[c]
  /\ Patient => ~Shown(c)
  /\ Send(c, Ready(pick))
  /\ sentReady' = [sentReady EXCEPT ![c] = TRUE]
  /\ UNCHANGED <<server, down, scene, view, synced, battle>>

PressBack(c) ==
  /\ scene[c] = "menu" /\ sentReady[c]
  /\ Patient => Shown(c)
  /\ Send(c, Unready)
  /\ sentReady' = [sentReady EXCEPT ![c] = FALSE]
  /\ UNCHANGED <<server, down, scene, view, synced, battle>>

(* A message from the server.  A call is heeded on the menu only; the word *)
(* that both have loaded is noted wherever the game is.                    *)
Deliver(c) ==
  LET msg == Head(down[c])
  IN  /\ down[c] # <<>> /\ scene[c] # "gone"
      /\ down' = [down EXCEPT ![c] = Tail(@)]
      /\ view' = IF msg.type = "data_update" THEN [view EXCEPT ![c] = msg.data] ELSE view
      /\ scene' = IF msg.type = "lobby_allready" /\ scene[c] = "menu"
                  THEN [scene EXCEPT ![c] = "called"] ELSE scene
      /\ synced' = [synced EXCEPT ![c] = @ \/ msg.type = "battle_synced"]
      /\ UNCHANGED <<server, up, sentReady, battle>>

-----------------------------------------------------------------------------
(* The battle.                                                             *)

(* Both sides are set up from the last data update; without two players in *)
(* it no GGPO session is opened.                                           *)
LoadBattle(c) ==
  /\ scene[c] = "called"
  /\ scene' = [scene EXCEPT ![c] = "loading"]
  /\ game' = [game EXCEPT ![c] = [seats |-> view[c].seats, chara |-> view[c].chara]]
  /\ UNCHANGED <<server, up, down, view, sentReady, synced, running, loser>>

(* HasInitialized, first poll: report, and wait unless told already.       *)
FinishLoading(c) ==
  /\ scene[c] = "loading"
  /\ Send(c, Loaded)
  /\ scene' = [scene EXCEPT ![c] = IF synced[c] THEN "battle" ELSE "gate"]
  /\ UNCHANGED <<server, down, view, sentReady, synced, battle>>

PassGate(c) ==
  /\ scene[c] = "gate" /\ synced[c]
  /\ scene' = [scene EXCEPT ![c] = "battle"]
  /\ UNCHANGED <<server, up, down, view, sentReady, synced, battle>>

(* GGPO's own handshake, which goes on behind the loading screen.          *)
Connect ==
  /\ \A c \in Clients : InBattle(c) /\ Paired(c) /\ ~running[c]
  /\ running' = [c \in Clients |-> TRUE]
  /\ UNCHANGED <<server, up, down, client, game, loser>>

(* Rollback keeps both games the same: one of the seats loses in both.     *)
Fight(side) ==
  /\ \A c \in Clients : scene[c] = "battle" /\ running[c] /\ loser[c] = NoSide
  /\ loser' = [c \in Clients |-> side]
  /\ UNCHANGED <<server, up, down, client, game, running>>

KeepFlags(c) == loaded' = loaded   \* broken: the next match finds them set

(* ResetBattleSync: only the host's game has a server to call it on.       *)
ResetFlags(c) == loaded' = IF c = Host THEN [d \in Clients |-> FALSE] ELSE loaded

(* ExitForeground: the battle is decided, the other side's packets have    *)
(* stopped for ten seconds, or no session was opened.                      *)
LeaveBattle(c) ==
  /\ scene[c] = "battle"
  /\ \/ loser[c] # NoSide
     \/ running[c] /\ ~InBattle(Other(c))
     \/ ~Paired(c)
  /\ c = Host => ~dirty
  /\ scene' = [scene EXCEPT ![c] = "returning"]
  /\ synced' = [synced EXCEPT ![c] = FALSE]
  /\ running' = [running EXCEPT ![c] = FALSE]
  /\ ResetFlags(c)
  /\ UNCHANGED <<seats, match, due, up, down, view, sentReady, game, loser>>

(* Back on the menu: whoever takes itself for P1 reports who lost; without *)
(* a result, the second seat.                                              *)
ReturnToMenu(c) ==
  /\ scene[c] = "returning"
  /\ scene' = [scene EXCEPT ![c] = "menu"]
  /\ IF MySide(c) = 0
     THEN Send(c, Results(IF loser[c] = NoSide THEN 1 ELSE loser[c]))
     ELSE UNCHANGED up
  /\ sentReady' = [sentReady EXCEPT ![c] = FALSE]
  /\ loser' = [loser EXCEPT ![c] = NoSide]
  /\ game' = [game EXCEPT ![c] = NoGame]
  /\ UNCHANGED <<server, down, view, synced, running>>

(* A guest's game ends or loses its connection, wherever it is.            *)
Quit(c) ==
  /\ c # Host /\ scene[c] # "gone"
  /\ Cardinality({d \in Clients : scene[d] = "gone"}) < MaxQuits
  /\ scene' = [scene EXCEPT ![c] = "gone"]
  /\ up' = [up EXCEPT ![c] = <<>>] /\ down' = [down EXCEPT ![c] = <<>>]
  /\ running' = [running EXCEPT ![c] = FALSE]
  /\ UNCHANGED <<server, view, sentReady, synced, game, loser>>

-----------------------------------------------------------------------------
Next ==
  \/ \E c \in Clients :
        \/ Receive(c) \/ Close(c) \/ Deliver(c)
        \/ LoadBattle(c) \/ FinishLoading(c) \/ PassGate(c)
        \/ LeaveBattle(c) \/ ReturnToMenu(c)
        \/ PressBack(c) \/ Quit(c)
        \/ \E pick \in Picks : PressReady(c, pick)
  \/ FinishStep \/ Connect
  \/ \E side \in Sides : Fight(side)

Spec == Init /\ [][Next]_vars

(* What happens by itself, polled every frame; nobody has to press READY.  *)
(* Steps, closed connections and the host's game take turns on one thread, *)
(* so that no Step keeps the others waiting for ever.                      *)
Fairness ==
  /\ \A c \in Clients :
        /\ WF_vars(Receive(c)) /\ WF_vars(Deliver(c)) /\ SF_vars(Close(c))
        /\ WF_vars(LoadBattle(c)) /\ WF_vars(FinishLoading(c)) /\ WF_vars(PassGate(c))
        /\ SF_vars(LeaveBattle(c)) /\ WF_vars(ReturnToMenu(c))
  /\ WF_vars(FinishStep) /\ WF_vars(Connect)
  /\ WF_vars(\E side \in Sides : Fight(side))

FairSpec == Spec /\ Fairness

-----------------------------------------------------------------------------
GameOf == [seats : Seq(Clients), chara : [Sides -> Picks \cup {NoPick}]]
DataOf == [seats : Seq(Clients), ready : [Sides -> BOOLEAN],
           chara : [Sides -> Picks \cup {NoPick}]]

TypeOK ==
  /\ Data \in DataOf /\ loaded \in [Clients -> BOOLEAN]
  /\ dirty \in BOOLEAN /\ callDue \in BOOLEAN /\ syncedDue \in BOOLEAN
  /\ \A c \in Clients : Len(up[c]) <= MaxInFlight /\ Len(down[c]) <= MaxInFlight + 2
  /\ scene \in [Clients -> Scenes] /\ view \in [Clients -> DataOf]
  /\ sentReady \in [Clients -> BOOLEAN] /\ synced \in [Clients -> BOOLEAN]
  /\ game \in [Clients -> GameOf] /\ running \in [Clients -> BOOLEAN]
  /\ loser \in [Clients -> Sides \cup {NoSide}]

(* Nobody is in a battle before both have loaded it, and nobody is called  *)
(* to the next one while the other is still in this one: the rendezvous    *)
(* the gate in HasInitialized, the flags and the readiness add up to.      *)
Place(c) == CASE scene[c] \in {"menu", "returning"} -> "lobby"
              [] scene[c] \in {"called", "loading"} -> "called"
              [] scene[c] = "gate" -> "arrived"
              [] scene[c] = "battle" -> "fighting"
              [] scene[c] = "gone" -> "gone"
R == INSTANCE Rendezvous WITH Players <- Clients, place <- [c \in Clients |-> Place(c)]
Meets == R!Spec

(* The two players of a match have loaded it with the same players in the  *)
(* same seats and the same picks, however the last update reached them.    *)
SameGame == \A c, d \in Clients : InBattle(c) /\ InBattle(d) => game[c] = game[d]

(* Whoever is called to a match comes back from it, if nobody vanishes.    *)
CallsEnd == \A c \in Clients :
  scene[c] = "called" ~> scene[c] = "menu" \/ \E d \in Clients : scene[d] = "gone"
=============================================================================
