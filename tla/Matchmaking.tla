----------------------------- MODULE Matchmaking -----------------------------
(***************************************************************************)
(* How players come to sit in the same lobby: the lobby server's table of  *)
(* lobbies, its matchmaker port, the matchmaker client of every player's   *)
(* lobby screen, and the screens it drives.                                *)
(*                                                                         *)
(* Requests and replies are datagrams without a number: they get lost, a   *)
(* client repeats its request until it has an answer, and an answer may    *)
(* come in any time later.  What a lobby's session server does with those  *)
(* inside is in SessionServer; here it only lets them in and out.          *)
(***************************************************************************)
EXTENDS Integers, FiniteSets, FiniteSetsExt

CONSTANTS
  Clients,              \* players, each with one game
  IpOf, BuildOf,        \* the address and the build of each
  Codes,                \* lobby codes
  NUM_LOBBIES, MAX_LOBBIES_PER_IP, MAX_PLAYERS_PER_LOBBY, MAX_ATTEMPTS,
  MaxCreated,           \* lobbies given out
  MaxCreates, MaxJoins, \* times each player asks for a lobby of its own, and for another's
  MaxReplies,           \* answers under way
  Fresh,                \* players who have yet to hear whether the server is there
  NoCode, Nobody

ASSUME MatchmakingAssumption ==
  /\ NoCode \notin Codes /\ IsFiniteSet(Clients) /\ Nobody \notin Clients
  /\ NUM_LOBBIES \in Nat \ {0} /\ MAX_LOBBIES_PER_IP \in Nat /\ MAX_ATTEMPTS \in Nat \ {0}
  /\ MAX_PLAYERS_PER_LOBBY \in Nat /\ MaxCreated \in Nat
  /\ DOMAIN IpOf = Clients /\ DOMAIN BuildOf = Clients

VARIABLES
  lobby,         \* the server's table
  created,       \* how many lobbies it has given out: numbers the secrets
  requests,      \* datagrams on their way to the matchmaker port
  replies,       \* and back
  screen,        \* g_screen
  serverStatus,  \* g_serverStatus
  pingInFlight,  \* g_pingInFlight
  mm,            \* g_mm
  session,       \* netplay: the connection to a lobby's session server
  asked          \* how often each player has asked for either

server == <<lobby, created>>
network == <<requests, replies>>
ui == <<screen, serverStatus, pingInFlight>>
vars == <<server, network, ui, mm, session, asked>>

Lobbies == 1 .. NUM_LOBBIES
Screens == {"home", "connecting", "lobby"}
NoSecret == 0

(* A lobby nobody has; its session server takes no secret at all.          *)
FreeLobby == [active |-> FALSE, code |-> NoCode, secret |-> NoSecret, hash |-> Nobody,
              creator |-> Nobody, members |-> {}, entered |-> FALSE]

Ping(c) == [from |-> c, op |-> "ping", code |-> NoCode]
Create(c) == [from |-> c, op |-> "create", code |-> NoCode]
Join(c, code) == [from |-> c, op |-> "join", code |-> code]
NoRequest == [from |-> Nobody, op |-> "none", code |-> NoCode]

Found(c, code, i, secret) ==
  [to |-> c, ok |-> TRUE, code |-> code, port |-> i, secret |-> secret]
Pong(c) == Found(c, NoCode, 0, NoSecret)
Error(c) == [Pong(c) EXCEPT !.ok = FALSE]

(* The connection to a session server: on its way there, asking to be let  *)
(* in, in, or closed by the server, which the client has yet to notice.    *)
NoSession == [port |-> 0, secret |-> NoSecret, link |-> "none"]
Connect(port, secret) == [port |-> port, secret |-> secret, link |-> "connecting"]
Inside(c, i) == session[c].port = i /\ session[c].link = "joined"

Init ==
  /\ lobby = [i \in Lobbies |-> FreeLobby] /\ created = 0
  /\ requests = {} /\ replies = {}
  /\ screen = [c \in Clients |-> "home"]
  /\ serverStatus = [c \in Clients |-> IF c \in Fresh THEN -1 ELSE 1] /\ pingInFlight = [c \in Clients |-> FALSE]
  /\ mm = [c \in Clients |-> [state |-> "idle", pending |-> NoRequest, attempts |-> 0,
                              code |-> NoCode]]
  /\ session = [c \in Clients |-> NoSession] /\ asked = [c \in Clients |-> [create |-> 0, join |-> 0]]

-----------------------------------------------------------------------------
(* The lobby server.                                                       *)

(* Everyone at the doors of these lobbies is turned away, inside or not.   *)
DisconnectAll(places) == session' = [c \in Clients |->
  IF session[c].port \in places /\ session[c].link \in {"asked", "joined"}
  THEN [session[c] EXCEPT !.link = "closed"] ELSE session[c]]

EmptyOf(ip) == {i \in Lobbies : lobby[i].creator = ip /\ lobby[i].members = {}}

WithoutEmpty(ip) == [i \in Lobbies |-> IF i \in EmptyOf(ip) THEN FreeLobby ELSE lobby[i]]

Held(table, ip) == Cardinality({i \in Lobbies : table[i].creator = ip})

AtCap(table, ip) == Held(table, ip) >= MAX_LOBBIES_PER_IP

NewCode(table, code) == \A i \in Lobbies : table[i].active => table[i].code # code

(* A new lobby goes to whoever asks, in the first place that is free, and  *)
(* its creator's other lobbies go if nobody is in them.                    *)
HandleCreate(c) ==
  LET table == WithoutEmpty(IpOf[c])
      free == {i \in Lobbies : ~table[i].active}
  IN  /\ DisconnectAll(EmptyOf(IpOf[c]))
      /\ \/ /\ AtCap(table, IpOf[c]) \/ free = {}
            /\ lobby' = table
            /\ replies' = replies \cup {Error(c)}
            /\ UNCHANGED created
         \/ /\ ~AtCap(table, IpOf[c]) /\ free # {} /\ created < MaxCreated
            /\ created' = created + 1
            /\ \E code \in Codes :
                 /\ NewCode(table, code)
                 /\ lobby' = [table EXCEPT ![Min(free)] =
                                [FreeLobby EXCEPT !.active = TRUE, !.code = code, !.secret = created',
                                                  !.hash = BuildOf[c], !.creator = IpOf[c]]]
                 /\ replies' = replies \cup {Found(c, code, Min(free), created')}

HandleJoin(c, code) ==
  /\ \/ \E i \in Lobbies :
          /\ lobby[i].active /\ lobby[i].code = code /\ lobby[i].hash = BuildOf[c]
          /\ Cardinality(lobby[i].members) < MAX_PLAYERS_PER_LOBBY
          /\ replies' = replies \cup {Found(c, code, i, lobby[i].secret)}
     \/ /\ \A i \in Lobbies : lobby[i].active /\ lobby[i].code = code =>
             \/ lobby[i].hash # BuildOf[c]
             \/ Cardinality(lobby[i].members) >= MAX_PLAYERS_PER_LOBBY
        /\ replies' = replies \cup {Error(c)}
  /\ UNCHANGED <<server, session>>

HandlePing(c) == replies' = replies \cup {Pong(c)} /\ UNCHANGED <<server, session>>

HandleMatchmaker(req) ==
  /\ Cardinality(replies) < MaxReplies
  /\ requests' = requests \ {req}
  /\ \/ req.op = "create" /\ HandleCreate(req.from)
     \/ req.op = "join" /\ HandleJoin(req.from, req.code)
     \/ req.op = "ping" /\ HandlePing(req.from)
  /\ UNCHANGED <<ui, mm, asked>>

(* Lost, or more than AllowMatchmaker takes from one address.              *)
DropRequest(req) ==
  /\ requests' = requests \ {req}
  /\ UNCHANGED <<server, replies, ui, mm, session, asked>>

KeepsMembers(i) ==   \* broken: forgets DisconnectAll
  /\ lobby' = [lobby EXCEPT ![i] = [FreeLobby EXCEPT !.members = lobby[i].members]]
  /\ UNCHANGED session

ResetLobby(i) == lobby' = [lobby EXCEPT ![i] = FreeLobby] /\ DisconnectAll({i})

EmptiedTimeout(i) ==   \* broken: the clock starts when the last player leaves
  /\ lobby[i].active /\ lobby[i].members = {} /\ lobby[i].entered
  /\ ResetLobby(i)
  /\ UNCHANGED <<created, network, ui, mm, asked>>

(* Nobody has been in it for EMPTY_LOBBY_TIMEOUT_MS.                       *)
EmptyTimeout(i) ==
  /\ lobby[i].active /\ lobby[i].members = {}
  /\ ResetLobby(i)
  /\ UNCHANGED <<created, network, ui, mm, asked>>

(* It is MAX_LOBBY_AGE_MS old, whoever is in it.                           *)
TooOld(i) ==
  /\ lobby[i].active
  /\ ResetLobby(i)
  /\ UNCHANGED <<created, network, ui, mm, asked>>

AdmittedByPort(i, c) ==   \* broken: asks for no secret
  lobby[i].active /\ lobby[i].hash = BuildOf[c] /\ c \notin lobby[i].members

(* The secret tells the joiners of this lobby from those of an earlier one *)
(* in the same place.                                                      *)
Admitted(i, c) ==
  /\ lobby[i].secret # NoSecret /\ session[c].secret = lobby[i].secret
  /\ lobby[i].hash = BuildOf[c]
  /\ c \notin lobby[i].members
  /\ Cardinality(lobby[i].members) < MAX_PLAYERS_PER_LOBBY

LetIn(c) ==
  /\ session[c].link = "asked" /\ Admitted(session[c].port, c)
  /\ lobby' = [lobby EXCEPT ![session[c].port].members = @ \cup {c},
                            ![session[c].port].entered = TRUE]

RegisterToWait(c) ==
  /\ LetIn(c)
  /\ session' = [session EXCEPT ![c].link = "joined"]
  /\ UNCHANGED <<created, network, ui, mm, asked>>

(* The server notices that a connection has gone.                          *)
NoticeGone(c, i) ==
  /\ c \in lobby[i].members /\ ~Inside(c, i)
  /\ lobby' = [lobby EXCEPT ![i].members = @ \ {c}]
  /\ UNCHANGED <<created, network, ui, mm, session, asked>>

-----------------------------------------------------------------------------
(* The matchmaker client: one request at a time, on one socket.            *)

(* Send, with the transmission its Poll starts with.                       *)
Send(c, req) ==
  /\ mm' = [mm EXCEPT ![c] = [state |-> "waiting", pending |-> req, attempts |-> 1,
                              code |-> NoCode]]
  /\ requests' = requests \cup {req}

Cancel(c) == mm' = [mm EXCEPT ![c] = [@ EXCEPT !.state = "idle", !.pending = NoRequest,
                                               !.attempts = 0]]

(* The screens that poll.                                                  *)
Polled(c) ==
  /\ mm[c].state = "waiting"
  /\ screen[c] = "connecting" \/ (screen[c] = "home" /\ pingInFlight[c])

RepeatUncounted(c) ==   \* broken: repeats for ever
  /\ Polled(c) /\ mm[c].attempts < MAX_ATTEMPTS
  /\ requests' = requests \cup {mm[c].pending}
  /\ UNCHANGED <<server, replies, ui, mm, session, asked>>

(* RETRY_MS without an answer.                                             *)
Repeat(c) ==
  /\ Polled(c) /\ mm[c].attempts < MAX_ATTEMPTS
  /\ requests' = requests \cup {mm[c].pending}
  /\ mm' = [mm EXCEPT ![c].attempts = @ + 1]
  /\ UNCHANGED <<server, replies, ui, session, asked>>

GiveUp(c) ==
  /\ Polled(c) /\ mm[c].attempts >= MAX_ATTEMPTS
  /\ mm' = [mm EXCEPT ![c].state = "failed"]
  /\ UNCHANGED <<server, network, ui, session, asked>>

(* A connection to the lobby that was found, and its screen.               *)
ConnectFromMatchmaker(c, reply) ==
  /\ session' = [session EXCEPT ![c] = Connect(reply.port, reply.secret)]
  /\ screen' = [screen EXCEPT ![c] = "lobby"]

(* A datagram from the server is the answer, whatever it answers.          *)
Answer(c, reply) ==
  /\ Polled(c) /\ reply.to = c
  /\ replies' = replies \ {reply}
  /\ mm' = [mm EXCEPT ![c].state = IF reply.ok THEN "done" ELSE "failed",
                      ![c].code = IF reply.ok THEN reply.code ELSE @]
  /\ IF reply.ok /\ screen[c] = "connecting"
     THEN ConnectFromMatchmaker(c, reply)
     ELSE UNCHANGED <<session, screen>>
  /\ UNCHANGED <<server, requests, serverStatus, pingInFlight, asked>>

-----------------------------------------------------------------------------
(* The lobby screen.                                                       *)

(* DrawHome asks whether the server is there as long as it does not know.  *)
HomePing(c) ==
  /\ screen[c] = "home" /\ serverStatus[c] = -1 /\ ~pingInFlight[c]
  /\ pingInFlight' = [pingInFlight EXCEPT ![c] = TRUE]
  /\ Send(c, Ping(c))
  /\ UNCHANGED <<server, replies, screen, serverStatus, session, asked>>

(* And takes whatever state the matchmaker is in for the answer.           *)
HomeStatus(c) ==
  /\ screen[c] = "home" /\ pingInFlight[c] /\ mm[c].state \in {"done", "failed"}
  /\ serverStatus' = [serverStatus EXCEPT ![c] = IF mm[c].state = "done" THEN 1 ELSE 0]
  /\ pingInFlight' = [pingInFlight EXCEPT ![c] = FALSE]
  /\ Cancel(c)
  /\ UNCHANGED <<server, network, screen, session, asked>>

CreateLobby(c) ==
  /\ screen[c] = "home" /\ serverStatus[c] # 0
  /\ screen' = [screen EXCEPT ![c] = "connecting"]
  /\ Send(c, Create(c))
  /\ asked[c].create < MaxCreates[c] /\ asked' = [asked EXCEPT ![c].create = @ + 1]
  /\ UNCHANGED <<server, replies, serverStatus, pingInFlight, session>>

(* A look at the list, which other matchmaker objects ask for.             *)
OpenBrowse(c) ==
  /\ screen[c] = "home" /\ serverStatus[c] # 0
  /\ pingInFlight' = [pingInFlight EXCEPT ![c] = FALSE]
  /\ Cancel(c)
  /\ UNCHANGED <<server, network, screen, serverStatus, session, asked>>

(* A code typed in, or picked from a list that may be out of date.  The    *)
(* screens where that is done poll nothing and are one with home here.     *)
JoinCode(c, code) ==
  /\ screen[c] = "home"
  /\ screen' = [screen EXCEPT ![c] = "connecting"]
  /\ Send(c, Join(c, code))
  /\ asked[c].join < MaxJoins[c] /\ asked' = [asked EXCEPT ![c].join = @ + 1]
  /\ UNCHANGED <<server, replies, serverStatus, pingInFlight, session>>

(* B while waiting.                                                        *)
StopWaiting(c) ==
  /\ screen[c] = "connecting" /\ mm[c].state = "waiting"
  /\ screen' = [screen EXCEPT ![c] = "home"]
  /\ Cancel(c)
  /\ UNCHANGED <<server, network, serverStatus, pingInFlight, session, asked>>

(* B after COULD NOT CONNECT.                                              *)
Failed(c) ==
  /\ screen[c] = "connecting" /\ mm[c].state = "failed"
  /\ screen' = [screen EXCEPT ![c] = "home"]
  /\ UNCHANGED <<server, network, serverStatus, pingInFlight, mm, session, asked>>

Disconnect(c) == session' = [session EXCEPT ![c] = NoSession]

(* LEAVE LOBBY.  A request to be let in that was sent before still arrives *)
(* before the connection goes.                                             *)
LeaveLobby(c) ==
  /\ screen[c] = "lobby" /\ session[c].link # "none"
  /\ LetIn(c) \/ UNCHANGED lobby
  /\ Disconnect(c)
  /\ screen' = [screen EXCEPT ![c] = "home"]
  /\ Cancel(c)
  /\ UNCHANGED <<created, network, serverStatus, pingInFlight, asked>>

(* The connection is accepted, the client says hello, and with the answer  *)
(* to that it asks to be let in.                                           *)
JoinRequest(c) ==
  /\ session[c].link = "connecting" /\ session[c].port # 0
  /\ session' = [session EXCEPT ![c].link = "asked"]
  /\ UNCHANGED <<server, network, ui, mm, asked>>

JoinRejected(c) == session[c].link = "asked" /\ ~Admitted(session[c].port, c)

(* The server sent the join back: OnJoinFailed, and the session is gone.   *)
OnJoinFailed(c) ==
  /\ JoinRejected(c)
  /\ Disconnect(c)
  /\ screen' = [screen EXCEPT ![c] = IF @ = "connecting" THEN "home" ELSE @]
  /\ Cancel(c)
  /\ UNCHANGED <<server, network, serverStatus, pingInFlight, asked>>

(* No server at that port, or it has closed the connection: the next Step  *)
(* of the client fails and its session is deleted.                         *)
ConnectionLost(c) ==
  /\ session[c].link = "closed" \/ (session[c].link = "connecting" /\ session[c].port = 0)
  /\ Disconnect(c)
  /\ UNCHANGED <<server, network, ui, mm, asked>>

(* "Connection lost": B.                                                   *)
LeaveLost(c) ==
  /\ screen[c] = "lobby" /\ session[c].link = "none"
  /\ screen' = [screen EXCEPT ![c] = "home"]
  /\ UNCHANGED <<server, network, serverStatus, pingInFlight, mm, session, asked>>

(* Close and Open: the lobby screen starts over, its matchmaker does not.  *)
Reopen(c) ==
  /\ screen[c] = "home" /\ c \in Fresh
  /\ serverStatus' = [serverStatus EXCEPT ![c] = -1]
  /\ pingInFlight' = [pingInFlight EXCEPT ![c] = FALSE]
  /\ UNCHANGED <<server, network, screen, mm, session, asked>>

-----------------------------------------------------------------------------
Next ==
  \/ \E req \in requests : HandleMatchmaker(req) \/ DropRequest(req)
  \/ \E i \in Lobbies :
        \/ EmptyTimeout(i) \/ TooOld(i)
        \/ \E c \in Clients : NoticeGone(c, i)
  \/ \E c \in Clients :
        \/ Repeat(c) \/ GiveUp(c)
        \/ \E reply \in replies : Answer(c, reply)
        \/ HomePing(c) \/ HomeStatus(c) \/ CreateLobby(c)
        \/ OpenBrowse(c) \/ \E code \in Codes : JoinCode(c, code)
        \/ StopWaiting(c) \/ Failed(c) \/ LeaveLobby(c)
        \/ JoinRequest(c) \/ RegisterToWait(c) \/ OnJoinFailed(c) \/ ConnectionLost(c) \/ LeaveLost(c)
        \/ Reopen(c)

Spec == Init /\ [][Next]_vars

(* The screens poll every frame, and the server goes round its lobbies and *)
(* its connections every two milliseconds.  Datagrams may all get lost.    *)
FairSpec ==
  /\ Spec
  /\ \A c \in Clients : WF_vars(Repeat(c)) /\ WF_vars(GiveUp(c))
  /\ \A i \in Lobbies : WF_vars(EmptyTimeout(i))
  /\ \A i \in Lobbies, c \in Clients : WF_vars(NoticeGone(c, i))

-----------------------------------------------------------------------------
(* Whoever believes to be in a lobby is among its members, and was given   *)
(* the secret of the lobby that is in this place now: not of an earlier    *)
(* one, however late the answer came, and not of one released since.       *)
SameTenure == \A i \in Lobbies :
  /\ lobby[i].members # {} => lobby[i].active
  /\ \A c \in Clients : Inside(c, i) =>
       c \in lobby[i].members /\ session[c].secret = lobby[i].secret

(* Nobody is left looking at "Contacting the server".                      *)
WaitingEnds == \A c \in Clients :
  screen[c] = "connecting" ~> screen[c] # "connecting" \/ mm[c].state = "failed"

(* A lobby without players comes back to the pool, also one whose creator  *)
(* never got there, and one that players left without a word.              *)
LobbiesReturn == \A i \in Lobbies :
  (\A c \in Clients : session[c].port # i) ~>
     ~lobby[i].active \/ \E c \in Clients : session[c].port = i
=============================================================================
