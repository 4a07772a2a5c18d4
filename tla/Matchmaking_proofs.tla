-------------------------- MODULE Matchmaking_proofs -------------------------
(***************************************************************************)
(* Theorems about Matchmaking, for every value of its constants.           *)
(***************************************************************************)
EXTENDS Matchmaking, WellFoundedInduction, TLAPS

(* Every non-empty set of naturals has a least element.                    *)
LEMMA LeastNatural ==
  ASSUME NEW T \in SUBSET Nat, T # {}
  PROVE  \E x \in T : \A y \in T : x <= y
<1> DEFINE R == OpToRel(<, Nat)
<1>1. IsWellFoundedOn(R, Nat)
  BY NatLessThanWellFounded
<1>2. \A x, y \in Nat : <<y, x>> \in R <=> y < x
  BY DEF OpToRel
<1> HIDE DEF R
<1>3. PICK x \in T : \A y \in T : ~(<<y, x>> \in R)
  BY <1>1, WFMin
<1>4. ASSUME NEW y \in T PROVE x <= y
  <2>1. x \in Nat /\ y \in Nat /\ ~(<<y, x>> \in R)
    BY <1>3
  <2>2. ~(y < x)
    BY <1>2, <2>1
  <2> QED BY <2>1, <2>2
<1> QED BY <1>4

-----------------------------------------------------------------------------
(* The inductive invariant.                                                *)

Ips == {IpOf[c] : c \in Clients} \cup {Nobody}
Builds == {BuildOf[c] : c \in Clients} \cup {Nobody}
AnyCode == Codes \cup {NoCode}

LobbyOf == [active : BOOLEAN, code : AnyCode, secret : Nat, hash : Builds, creator : Ips,
            members : SUBSET Clients, entered : BOOLEAN]
RequestOf == [from : Clients, op : {"ping", "create", "join"}, code : AnyCode]
ReplyOf == [to : Clients, ok : BOOLEAN, code : AnyCode, port : Lobbies \cup {0}, secret : Nat]
SessionOf == [port : Lobbies \cup {0}, secret : Nat, link : {"none", "connecting", "asked", "joined", "closed"}]
PendingOf == [state : {"idle", "waiting", "done", "failed"}, pending : RequestOf \cup {NoRequest},
              attempts : Nat, code : AnyCode]

PlaceTypes ==
  /\ lobby \in [Lobbies -> LobbyOf] /\ created \in Nat
  /\ session \in [Clients -> SessionOf]
  /\ \A c \in Clients : session[c].link \in {"asked", "joined"} => session[c].port \in Lobbies

MailTypes ==
  /\ requests \subseteq RequestOf /\ replies \subseteq ReplyOf
  /\ mm \in [Clients -> PendingOf]
  /\ \A c \in Clients : mm[c].state = "waiting" => mm[c].pending \in RequestOf

(* A place that nobody has is empty and takes nobody.  In all others every *)
(* lobby has a secret of its own, one of those drawn so far.               *)
Tenures == \A i \in Lobbies :
  /\ ~lobby[i].active => lobby[i] = FreeLobby
  /\ lobby[i].active => lobby[i].secret \in 1 .. created
  /\ \A j \in Lobbies : lobby[i].active /\ lobby[j].active /\ lobby[i].secret = lobby[j].secret
                          => i = j

Inv == PlaceTypes /\ MailTypes /\ Tenures /\ SameTenure

-----------------------------------------------------------------------------
(* The operators of the model.                                             *)

LEMMA FreeLobbyType == FreeLobby \in LobbyOf /\ ~FreeLobby.active /\ FreeLobby.members = {}
BY DEF FreeLobby, LobbyOf, AnyCode, Builds, Ips, NoSecret

LEMMA MinIsFirst ==
  ASSUME NEW free \in SUBSET Lobbies, free # {}
  PROVE  Min(free) \in free
<1>1. free \in SUBSET Nat
  BY DEF Lobbies
<1>2. \E x \in free : \A y \in free : x <= y
  BY <1>1, LeastNatural
<1> QED BY <1>2 DEF Min

LEMMA DisconnectAllProperties ==
  ASSUME PlaceTypes, NEW places, DisconnectAll(places)
  PROVE  /\ session' \in [Clients -> SessionOf]
         /\ \A c \in Clients : session'[c].link \in {"asked", "joined"} => session'[c].port \in Lobbies
         /\ \A c \in Clients : session'[c].secret = session[c].secret
         /\ \A c \in Clients : \A i : Inside(c, i)' <=> Inside(c, i) /\ i \notin places
<1>1. ASSUME NEW c \in Clients
      PROVE  /\ session'[c] \in SessionOf /\ session'[c].secret = session[c].secret
             /\ session'[c].port = session[c].port
             /\ session'[c].link = IF session[c].port \in places /\ session[c].link \in {"asked", "joined"}
                                   THEN "closed" ELSE session[c].link
             /\ session[c].link \in {"asked", "joined"} => session[c].port \in Lobbies
  <2>1. /\ session[c] \in SessionOf
        /\ session[c].link \in {"asked", "joined"} => session[c].port \in Lobbies
    BY DEF PlaceTypes
  <2>2. session'[c] = IF session[c].port \in places /\ session[c].link \in {"asked", "joined"}
                      THEN [session[c] EXCEPT !.link = "closed"] ELSE session[c]
    BY DEF DisconnectAll
  <2> QED BY <2>1, <2>2 DEF SessionOf
<1>2. session' \in [Clients -> SessionOf]
  BY <1>1 DEF DisconnectAll
<1> QED BY <1>1, <1>2 DEF Inside

(* A step that lets nobody in, and leaves the lobbies alone.               *)
LEMMA OnlyLeaving ==
  ASSUME PlaceTypes, Tenures, SameTenure, UNCHANGED <<lobby, created>>,
         session' \in [Clients -> SessionOf],
         \A c \in Clients : session'[c].link \in {"asked", "joined"} => session'[c].port \in Lobbies,
         \A c \in Clients, i \in Lobbies : Inside(c, i)' =>
           Inside(c, i) /\ session'[c].secret = session[c].secret
  PROVE  PlaceTypes' /\ Tenures' /\ SameTenure'
<1>1. PlaceTypes'
  BY DEF PlaceTypes
<1>2. Tenures'
  BY DEF Tenures
<1>3. SameTenure'
  BY DEF SameTenure
<1> QED BY <1>1, <1>2, <1>3

(* A step that releases lobbies, all in them turned away or gone.          *)
LEMMA OnlyReleasing ==
  ASSUME PlaceTypes, Tenures, SameTenure, UNCHANGED created, NEW places \in SUBSET Lobbies,
         lobby' = [i \in Lobbies |-> IF i \in places THEN FreeLobby ELSE lobby[i]],
         DisconnectAll(places)
  PROVE  PlaceTypes' /\ Tenures' /\ SameTenure'
<1>1. /\ session' \in [Clients -> SessionOf]
      /\ \A c \in Clients : session'[c].link \in {"asked", "joined"} => session'[c].port \in Lobbies
      /\ \A c \in Clients : session'[c].secret = session[c].secret
      /\ \A c \in Clients : \A i : Inside(c, i)' <=> Inside(c, i) /\ i \notin places
  BY DisconnectAllProperties
<1>2. \A i \in Lobbies : lobby'[i] = IF i \in places THEN FreeLobby ELSE lobby[i]
  OBVIOUS
<1>3. PlaceTypes'
  BY <1>1, <1>2, FreeLobbyType DEF PlaceTypes
<1>4. Tenures'
  BY <1>2, FreeLobbyType DEF Tenures
<1>5. SameTenure'
  BY <1>1, <1>2, FreeLobbyType DEF SameTenure
<1> QED BY <1>3, <1>4, <1>5

-----------------------------------------------------------------------------
(* The steps that move somebody into or out of a lobby, or give one out.   *)

LEMMA HandleCreateKeeps ==
  ASSUME Inv, NEW c \in Clients, HandleCreate(c)
  PROVE  PlaceTypes' /\ Tenures' /\ SameTenure'
<1> DEFINE table == WithoutEmpty(IpOf[c])
           gone == EmptyOf(IpOf[c])
           free == {i \in Lobbies : ~table[i].active}
<1>1. DisconnectAll(gone) /\ gone \in SUBSET Lobbies
  BY DEF HandleCreate, EmptyOf
<1>2. table = [i \in Lobbies |-> IF i \in gone THEN FreeLobby ELSE lobby[i]]
  BY DEF WithoutEmpty
<1>3. CASE lobby' = table /\ UNCHANGED created
  BY <1>1, <1>2, <1>3, OnlyReleasing DEF Inv
<1>4. ASSUME NEW code \in Codes, free # {}, created' = created + 1,
             lobby' = [table EXCEPT ![Min(free)] =
                         [FreeLobby EXCEPT !.active = TRUE, !.code = code, !.secret = created',
                                           !.hash = BuildOf[c], !.creator = IpOf[c]]]
      PROVE  PlaceTypes' /\ Tenures' /\ SameTenure'
  <2> DEFINE first == Min(free)
             new == [FreeLobby EXCEPT !.active = TRUE, !.code = code, !.secret = created',
                                      !.hash = BuildOf[c], !.creator = IpOf[c]]
  <2>1. first \in Lobbies /\ ~table[first].active
    BY <1>4, MinIsFirst
  <2>2. created \in Nat /\ created' \in Nat /\ created' = created + 1
    BY <1>4 DEF Inv, PlaceTypes
  <2>3. new \in LobbyOf /\ new.active /\ new.secret = created' /\ new.members = {}
    BY <2>2 DEF FreeLobby, LobbyOf, AnyCode, Builds, Ips
  <2> HIDE DEF first, new, gone, free
  <2>4. lobby' = [table EXCEPT ![first] = new]
    BY <1>4 DEF first, new
  <2>5. \A i \in Lobbies : lobby'[i] = IF i = first THEN new
                                       ELSE IF i \in gone THEN FreeLobby ELSE lobby[i]
    BY <1>2, <2>1, <2>4
  <2>6. lobby[first].members = {}
    <3>1. first \in gone => lobby[first].members = {}
      BY DEF gone, EmptyOf
    <3> QED BY <1>2, <2>1, <3>1, FreeLobbyType DEF Inv, Tenures
  <2>7. /\ session' \in [Clients -> SessionOf]
        /\ \A d \in Clients : session'[d].link \in {"asked", "joined"} => session'[d].port \in Lobbies
        /\ \A d \in Clients : session'[d].secret = session[d].secret
        /\ \A d \in Clients : \A i : Inside(d, i)' <=> Inside(d, i) /\ i \notin gone
    BY <1>1, DisconnectAllProperties DEF Inv
  <2>8. PlaceTypes'
    <3>1. lobby' \in [Lobbies -> LobbyOf]
      BY <1>2, <2>3, <2>4, <2>5, FreeLobbyType DEF Inv, PlaceTypes
    <3> QED BY <2>2, <2>7, <3>1 DEF PlaceTypes
  <2>9. \A i \in Lobbies : lobby'[i].active /\ i # first => lobby[i].active /\ lobby'[i] = lobby[i]
    BY <2>5, FreeLobbyType
  <2>10. Tenures'
    <3>1. \A i \in Lobbies : lobby[i].active => lobby[i].secret \in 1 .. created
      BY DEF Inv, Tenures
    <3>2. \A i \in Lobbies : ~lobby'[i].active => lobby'[i] = FreeLobby
      BY <2>3, <2>5 DEF Inv, Tenures
    <3>3. \A i \in Lobbies : lobby'[i].active => lobby'[i].secret \in 1 .. created'
      BY <2>2, <2>3, <2>5, <2>9, <3>1
    <3>4. \A i \in Lobbies : lobby'[i].active /\ i # first => lobby'[i].secret # lobby'[first].secret
      BY <2>1, <2>2, <2>3, <2>5, <2>9, <3>1
    <3>5. \A i, j \in Lobbies : lobby'[i].active /\ lobby'[j].active /\ lobby'[i].secret = lobby'[j].secret
             => i = j
      BY <2>9, <3>4 DEF Inv, Tenures
    <3> QED BY <3>2, <3>3, <3>5 DEF Tenures
  <2>11. SameTenure'
    <3>1. \A d \in Clients : ~Inside(d, first)
      BY <2>1, <2>6 DEF Inv, SameTenure
    <3> QED BY <2>3, <2>5, <2>7, <3>1, FreeLobbyType DEF Inv, SameTenure
  <2> QED BY <2>8, <2>10, <2>11
<1>5. \/ lobby' = table /\ UNCHANGED created
      \/ /\ free # {} /\ created' = created + 1
         /\ \E code \in Codes :
              lobby' = [table EXCEPT ![Min(free)] =
                          [FreeLobby EXCEPT !.active = TRUE, !.code = code, !.secret = created',
                                            !.hash = BuildOf[c], !.creator = IpOf[c]]]
  BY DEF HandleCreate
<1> HIDE DEF table, free
<1> QED BY <1>3, <1>4, <1>5

LEMMA ResetLobbyKeeps ==
  ASSUME Inv, NEW i \in Lobbies, ResetLobby(i), UNCHANGED created
  PROVE  PlaceTypes' /\ Tenures' /\ SameTenure'
<1>1. lobby' = [j \in Lobbies |-> IF j \in {i} THEN FreeLobby ELSE lobby[j]]
  BY DEF ResetLobby, Inv, PlaceTypes
<1>2. DisconnectAll({i})
  BY DEF ResetLobby
<1> QED BY <1>1, <1>2, OnlyReleasing DEF Inv

(* Who is let in has the secret of the place, so that somebody has it.     *)
LEMMA LetInProperties ==
  ASSUME Inv, NEW c \in Clients, LetIn(c)
  PROVE  LET i == session[c].port
         IN  /\ i \in Lobbies /\ lobby[i].active /\ session[c].secret = lobby[i].secret
             /\ lobby' \in [Lobbies -> LobbyOf]
             /\ \A j \in Lobbies : j # i => lobby'[j] = lobby[j]
             /\ lobby'[i].members = lobby[i].members \cup {c}
             /\ lobby'[i].active = lobby[i].active /\ lobby'[i].secret = lobby[i].secret
<1> DEFINE i == session[c].port
<1>1. i \in Lobbies /\ Admitted(i, c)
  BY DEF LetIn, Inv, PlaceTypes
<1>2. lobby[i].secret # NoSecret /\ session[c].secret = lobby[i].secret
  BY <1>1 DEF Admitted
<1>3. lobby[i].active
  BY <1>1, <1>2 DEF Inv, Tenures, FreeLobby
<1>4. lobby[i] \in LobbyOf /\ lobby \in [Lobbies -> LobbyOf]
  BY <1>1 DEF Inv, PlaceTypes
<1> HIDE DEF i
<1>5. lobby' = [lobby EXCEPT ![i] = [lobby[i] EXCEPT !.members = @ \cup {c}, !.entered = TRUE]]
  <2>1. lobby' = [lobby EXCEPT ![i].members = @ \cup {c}, ![i].entered = TRUE]
    BY DEF LetIn, i
  <2> QED BY <1>1, <1>4, <2>1
<1>6. /\ [lobby[i] EXCEPT !.members = @ \cup {c}, !.entered = TRUE] \in LobbyOf
      /\ [lobby[i] EXCEPT !.members = @ \cup {c}, !.entered = TRUE].members = lobby[i].members \cup {c}
      /\ [lobby[i] EXCEPT !.members = @ \cup {c}, !.entered = TRUE].active = lobby[i].active
      /\ [lobby[i] EXCEPT !.members = @ \cup {c}, !.entered = TRUE].secret = lobby[i].secret
  BY <1>4 DEF LobbyOf
<1> QED BY <1>1, <1>2, <1>3, <1>4, <1>5, <1>6 DEF i

LEMMA LetInKeeps ==
  ASSUME Inv, NEW c \in Clients, LetIn(c), UNCHANGED created,
         session' \in [Clients -> SessionOf],
         \A d \in Clients : d # c => session'[d] = session[d],
         session'[c].link \in {"asked", "joined"} => session'[c] = [session[c] EXCEPT !.link = "joined"]
  PROVE  PlaceTypes' /\ Tenures' /\ SameTenure'
<1> DEFINE i == session[c].port
<1>1. /\ i \in Lobbies /\ lobby[i].active /\ session[c].secret = lobby[i].secret
      /\ lobby' \in [Lobbies -> LobbyOf]
      /\ \A j \in Lobbies : j # i => lobby'[j] = lobby[j]
      /\ lobby'[i].members = lobby[i].members \cup {c}
      /\ lobby'[i].active = lobby[i].active /\ lobby'[i].secret = lobby[i].secret
  BY LetInProperties
<1>2. session'[c].link \in {"asked", "joined"} =>
        session'[c].port = i /\ session'[c].secret = session[c].secret
  BY DEF Inv, PlaceTypes, SessionOf
<1> HIDE DEF i
<1>3. PlaceTypes'
  BY <1>1, <1>2 DEF Inv, PlaceTypes
<1>4. Tenures'
  <2>1. \A j \in Lobbies : lobby'[j].active = lobby[j].active /\ lobby'[j].secret = lobby[j].secret
    BY <1>1
  <2> QED BY <1>1, <2>1 DEF Inv, Tenures
<1>5. SameTenure'
  <2> SUFFICES ASSUME NEW j \in Lobbies
               PROVE  /\ lobby'[j].members # {} => lobby'[j].active
                      /\ \A d \in Clients : Inside(d, j)' =>
                           d \in lobby'[j].members /\ session'[d].secret = lobby'[j].secret
    BY DEF SameTenure
  <2>1. lobby'[j].members # {} => lobby'[j].active
    BY <1>1 DEF Inv, SameTenure
  <2>2. ASSUME NEW d \in Clients, Inside(d, j)'
        PROVE  d \in lobby'[j].members /\ session'[d].secret = lobby'[j].secret
    <3>1. CASE d = c
      BY <1>1, <1>2, <2>2, <3>1 DEF Inside
    <3>2. CASE d # c
      <4>1. Inside(d, j) /\ session'[d] = session[d]
        BY <2>2, <3>2 DEF Inside
      <4> QED BY <1>1, <4>1 DEF Inv, SameTenure
    <3> QED BY <3>1, <3>2
  <2> QED BY <2>1, <2>2
<1> QED BY <1>3, <1>4, <1>5

LEMMA NoticeGoneKeeps ==
  ASSUME Inv, NEW c \in Clients, NEW i \in Lobbies, NoticeGone(c, i)
  PROVE  PlaceTypes' /\ Tenures' /\ SameTenure'
<1>1. /\ ~Inside(c, i) /\ lobby[i].active /\ UNCHANGED <<session, created>>
      /\ lobby' = [lobby EXCEPT ![i].members = lobby[i].members \ {c}]
  BY DEF NoticeGone, Inv, SameTenure
<1>2. lobby[i] \in LobbyOf /\ lobby \in [Lobbies -> LobbyOf]
  BY DEF Inv, PlaceTypes
<1>3. /\ lobby' \in [Lobbies -> LobbyOf]
      /\ \A j \in Lobbies : j # i => lobby'[j] = lobby[j]
      /\ lobby'[i].members = lobby[i].members \ {c}
      /\ lobby'[i].active = lobby[i].active /\ lobby'[i].secret = lobby[i].secret
  BY <1>1, <1>2 DEF LobbyOf
<1>4. PlaceTypes'
  BY <1>1, <1>3 DEF Inv, PlaceTypes
<1>5. Tenures'
  <2>1. \A j \in Lobbies : lobby'[j].active = lobby[j].active /\ lobby'[j].secret = lobby[j].secret
    BY <1>3
  <2> QED BY <1>1, <1>3, <2>1 DEF Inv, Tenures
<1>6. SameTenure'
  <2>1. \A d \in Clients, j \in Lobbies : Inside(d, j)' = Inside(d, j)
    BY <1>1 DEF Inside
  <2> QED BY <1>1, <1>3, <2>1 DEF Inv, SameTenure
<1> QED BY <1>4, <1>5, <1>6

(* A client's connection goes, or a new one sets out.                      *)
LEMMA NewSessionKeeps ==
  ASSUME Inv, NEW c \in Clients, NEW s \in SessionOf, s.link \notin {"asked", "joined"},
         session' = [session EXCEPT ![c] = s], UNCHANGED <<lobby, created>>
  PROVE  PlaceTypes' /\ Tenures' /\ SameTenure'
<1>1. session' \in [Clients -> SessionOf]
  BY DEF Inv, PlaceTypes
<1>2. \A d \in Clients : session'[d] = IF d = c THEN s ELSE session[d]
  BY DEF Inv, PlaceTypes
<1>3. \A d \in Clients : session'[d].link \in {"asked", "joined"} => session'[d].port \in Lobbies
  BY <1>2 DEF Inv, PlaceTypes
<1>4. \A d \in Clients, i \in Lobbies : Inside(d, i)' =>
        Inside(d, i) /\ session'[d].secret = session[d].secret
  BY <1>2 DEF Inside
<1> QED BY <1>1, <1>3, <1>4, OnlyLeaving DEF Inv

LEMMA JoinRequestKeeps ==
  ASSUME Inv, NEW c \in Clients, JoinRequest(c)
  PROVE  PlaceTypes' /\ Tenures' /\ SameTenure'
<1>1. /\ session[c] \in SessionOf /\ session \in [Clients -> SessionOf] /\ session[c].port # 0
      /\ session' = [session EXCEPT ![c].link = "asked"] /\ UNCHANGED <<lobby, created>>
  BY DEF JoinRequest, server, Inv, PlaceTypes
<1>2. /\ session' \in [Clients -> SessionOf]
      /\ session'[c].port \in Lobbies /\ session'[c].link = "asked"
      /\ \A d \in Clients : d # c => session'[d] = session[d]
  BY <1>1 DEF SessionOf
<1>3. \A d \in Clients : session'[d].link \in {"asked", "joined"} => session'[d].port \in Lobbies
  BY <1>2 DEF Inv, PlaceTypes
<1>4. \A d \in Clients, i \in Lobbies : Inside(d, i)' =>
        Inside(d, i) /\ session'[d].secret = session[d].secret
  BY <1>2 DEF Inside
<1> QED BY <1>1, <1>2, <1>3, <1>4, OnlyLeaving DEF Inv

-----------------------------------------------------------------------------
(* Requests and replies.                                                   *)

LEMMA MessageTypes ==
  /\ \A c \in Clients : Ping(c) \in RequestOf /\ Create(c) \in RequestOf
  /\ \A c \in Clients, code \in Codes : Join(c, code) \in RequestOf
  /\ \A c \in Clients : Pong(c) \in ReplyOf /\ Error(c) \in ReplyOf
  /\ \A c \in Clients, code \in AnyCode, i \in Lobbies, secret \in Nat :
       Found(c, code, i, secret) \in ReplyOf
<1>1. ASSUME NEW c \in Clients
      PROVE  Pong(c) \in ReplyOf /\ Error(c) \in ReplyOf
  <2>1. Pong(c) \in ReplyOf
    BY DEF Pong, Found, ReplyOf, AnyCode, NoSecret
  <2>2. [Pong(c) EXCEPT !.ok = FALSE] \in ReplyOf
    BY <2>1 DEF ReplyOf
  <2> QED BY <2>1, <2>2 DEF Error
<1> QED BY <1>1 DEF Ping, Create, Join, Found, RequestOf, ReplyOf, AnyCode

LEMMA RepliesTyped ==
  ASSUME Inv, NEW req \in requests, HandleMatchmaker(req)
  PROVE  req.from \in Clients /\ replies' \subseteq ReplyOf
<1> DEFINE c == req.from
<1>1. c \in Clients /\ req.code \in AnyCode /\ replies \subseteq ReplyOf
  BY DEF Inv, MailTypes, RequestOf
<1>2. \A i \in Lobbies : lobby[i].secret \in Nat
  BY DEF Inv, PlaceTypes, LobbyOf
<1>3. CASE HandleCreate(c)
  <2>1. \/ replies' = replies \cup {Error(c)}
        \/ \E code \in Codes, free \in SUBSET Lobbies :
             /\ free # {} /\ created' = created + 1
             /\ replies' = replies \cup {Found(c, code, Min(free), created')}
    BY <1>3 DEF HandleCreate
  <2>2. CASE replies' = replies \cup {Error(c)}
    BY <1>1, <2>2, MessageTypes
  <2>3. ASSUME NEW code \in Codes, NEW free \in SUBSET Lobbies, free # {}, created' = created + 1,
               replies' = replies \cup {Found(c, code, Min(free), created')}
        PROVE  replies' \subseteq ReplyOf
    <3>1. Min(free) \in Lobbies /\ created' \in Nat /\ code \in AnyCode
      BY <2>3, MinIsFirst DEF Inv, PlaceTypes, AnyCode
    <3>2. Found(c, code, Min(free), created') \in ReplyOf
      BY <1>1, <3>1, MessageTypes
    <3> QED BY <1>1, <2>3, <3>2
  <2> QED BY <1>1, <2>1, <2>2, <2>3
<1>4. CASE HandleJoin(c, req.code)
  <2>1. \/ replies' = replies \cup {Error(c)}
        \/ \E i \in Lobbies : replies' = replies \cup {Found(c, req.code, i, lobby[i].secret)}
    BY <1>4 DEF HandleJoin
  <2> QED BY <1>1, <1>2, <2>1, MessageTypes
<1>5. CASE HandlePing(c)
  BY <1>1, <1>5, MessageTypes DEF HandlePing
<1> QED BY <1>1, <1>3, <1>4, <1>5 DEF HandleMatchmaker

LEMMA SendTypes ==
  ASSUME MailTypes, NEW c \in Clients, NEW req \in RequestOf, Send(c, req), UNCHANGED replies
  PROVE  MailTypes'
<1>1. [state |-> "waiting", pending |-> req, attempts |-> 1, code |-> NoCode] \in PendingOf
  BY DEF PendingOf, AnyCode
<1> QED BY <1>1 DEF Send, MailTypes

LEMMA CancelTypes ==
  ASSUME MailTypes, NEW c \in Clients, Cancel(c), UNCHANGED network
  PROVE  MailTypes'
<1>1. [mm[c] EXCEPT !.state = "idle", !.pending = NoRequest, !.attempts = 0] \in PendingOf
  BY DEF PendingOf, MailTypes
<1>2. [mm[c] EXCEPT !.state = "idle", !.pending = NoRequest, !.attempts = 0].state = "idle"
  BY DEF PendingOf, MailTypes
<1> QED BY <1>1, <1>2 DEF Cancel, MailTypes, network

LEMMA PollTypes ==
  ASSUME MailTypes, NEW c \in Clients,
         \/ Repeat(c) \/ GiveUp(c) \/ \E reply \in replies : Answer(c, reply)
  PROVE  MailTypes'
<1>1. mm \in [Clients -> PendingOf] /\ mm[c] \in PendingOf
  BY DEF MailTypes
<1>2. CASE Repeat(c)
  <2>1. mm[c].pending \in RequestOf
    BY <1>2 DEF MailTypes, Repeat, Polled
  <2>2. requests' \subseteq RequestOf /\ replies' \subseteq ReplyOf
    BY <1>2, <2>1 DEF Repeat, MailTypes
  <2>3. mm' = [mm EXCEPT ![c] = [mm[c] EXCEPT !.attempts = @ + 1]]
    BY <1>2 DEF Repeat
  <2>4. /\ [mm[c] EXCEPT !.attempts = @ + 1] \in PendingOf
        /\ [mm[c] EXCEPT !.attempts = @ + 1].state = mm[c].state
        /\ [mm[c] EXCEPT !.attempts = @ + 1].pending = mm[c].pending
    BY <1>1 DEF PendingOf
  <2> QED BY <1>1, <2>2, <2>3, <2>4 DEF MailTypes
<1>3. CASE GiveUp(c)
  <2>1. mm' = [mm EXCEPT ![c] = [mm[c] EXCEPT !.state = "failed"]]
    BY <1>3 DEF GiveUp
  <2>2. /\ [mm[c] EXCEPT !.state = "failed"] \in PendingOf
        /\ [mm[c] EXCEPT !.state = "failed"].state = "failed"
    BY <1>1 DEF PendingOf
  <2> QED BY <1>1, <1>3, <2>1, <2>2 DEF MailTypes, GiveUp, network
<1>4. ASSUME NEW reply \in replies, Answer(c, reply)
      PROVE  MailTypes'
  <2> DEFINE state == IF reply.ok THEN "done" ELSE "failed"
             code == IF reply.ok THEN reply.code ELSE mm[c].code
  <2>1. state \in {"done", "failed"} /\ code \in AnyCode
    BY <1>1 DEF MailTypes, ReplyOf, PendingOf
  <2>2. mm' = [mm EXCEPT ![c] = [mm[c] EXCEPT !.state = state, !.code = code]]
    <3>1. mm' = [mm EXCEPT ![c].state = IF reply.ok THEN "done" ELSE "failed",
                           ![c].code = IF reply.ok THEN reply.code ELSE @]
      BY <1>4 DEF Answer
    <3> QED BY <1>1, <3>1 DEF PendingOf
  <2> HIDE DEF state, code
  <2>3. /\ [mm[c] EXCEPT !.state = state, !.code = code] \in PendingOf
        /\ [mm[c] EXCEPT !.state = state, !.code = code].state = state
    BY <1>1, <2>1 DEF PendingOf
  <2>4. requests' = requests /\ replies' \subseteq replies
    BY <1>4 DEF Answer
  <2> QED BY <1>1, <2>1, <2>2, <2>3, <2>4 DEF MailTypes
<1> QED BY <1>2, <1>3, <1>4

-----------------------------------------------------------------------------
(* The steps, of the server and of a client.                               *)

LEMMA InvInit == Init => Inv
<1> SUFFICES ASSUME Init PROVE Inv
  OBVIOUS
<1>1. \A i \in Lobbies : lobby[i] = FreeLobby
  BY DEF Init
<1>2. NoSession \in SessionOf /\ NoSession.link = "none"
  BY DEF NoSession, SessionOf, NoSecret
<1>3. PlaceTypes
  BY <1>2, FreeLobbyType DEF Init, PlaceTypes
<1>4. MailTypes
  <2>1. [state |-> "idle", pending |-> NoRequest, attempts |-> 0, code |-> NoCode] \in PendingOf
    BY DEF PendingOf, AnyCode
  <2> QED BY <2>1 DEF Init, MailTypes
<1>5. Tenures
  BY <1>1, FreeLobbyType DEF Tenures
<1>6. SameTenure
  BY <1>1, <1>2, FreeLobbyType DEF Init, SameTenure, Inside
<1> QED BY <1>3, <1>4, <1>5, <1>6 DEF Inv

LEMMA ServerKeeps ==
  ASSUME Inv,
         \/ \E req \in requests : HandleMatchmaker(req) \/ DropRequest(req)
         \/ \E i \in Lobbies : \/ EmptyTimeout(i) \/ TooOld(i)
                               \/ \E c \in Clients : NoticeGone(c, i)
         \/ \E c \in Clients : RegisterToWait(c)
  PROVE  Inv'
<1>1. ASSUME NEW req \in requests, HandleMatchmaker(req)
      PROVE  Inv'
  <2>1. req.from \in Clients /\ replies' \subseteq ReplyOf
    BY <1>1, RepliesTyped
  <2>2. MailTypes'
    BY <1>1, <2>1 DEF Inv, MailTypes, HandleMatchmaker
  <2>3. CASE HandleCreate(req.from)
    BY <2>1, <2>2, <2>3, HandleCreateKeeps DEF Inv
  <2>4. CASE HandleJoin(req.from, req.code) \/ HandlePing(req.from)
    BY <2>2, <2>4 DEF HandleJoin, HandlePing, server, Inv, PlaceTypes, Tenures, SameTenure, Inside
  <2> QED BY <1>1, <2>3, <2>4 DEF HandleMatchmaker
<1>2. ASSUME NEW req \in requests, DropRequest(req)
      PROVE  Inv'
  BY <1>2 DEF DropRequest, server, Inv, PlaceTypes, MailTypes, Tenures, SameTenure, Inside
<1>3. ASSUME NEW i \in Lobbies, EmptyTimeout(i) \/ TooOld(i)
      PROVE  Inv'
  <2>1. ResetLobby(i) /\ UNCHANGED <<created, network, mm>>
    BY <1>3 DEF EmptyTimeout, TooOld
  <2> QED BY <2>1, ResetLobbyKeeps DEF Inv, MailTypes, network
<1>4. ASSUME NEW i \in Lobbies, NEW c \in Clients, NoticeGone(c, i)
      PROVE  Inv'
  <2>1. UNCHANGED <<network, mm>>
    BY <1>4 DEF NoticeGone
  <2> QED BY <1>4, <2>1, NoticeGoneKeeps DEF Inv, MailTypes, network
<1>5. ASSUME NEW c \in Clients, RegisterToWait(c)
      PROVE  Inv'
  <2>1. /\ LetIn(c) /\ UNCHANGED <<created, network, mm>>
        /\ session' = [session EXCEPT ![c] = [session[c] EXCEPT !.link = "joined"]]
    BY <1>5 DEF RegisterToWait
  <2>2. /\ [session[c] EXCEPT !.link = "joined"] \in SessionOf
        /\ session \in [Clients -> SessionOf]
    BY DEF Inv, PlaceTypes, SessionOf
  <2>3. /\ session' \in [Clients -> SessionOf]
        /\ session'[c] = [session[c] EXCEPT !.link = "joined"]
        /\ \A d \in Clients : d # c => session'[d] = session[d]
    BY <2>1, <2>2
  <2>4. PlaceTypes' /\ Tenures' /\ SameTenure'
    BY <2>1, <2>3, LetInKeeps
  <2> QED BY <2>1, <2>4 DEF Inv, MailTypes, network
<1> QED BY <1>1, <1>2, <1>3, <1>4, <1>5

(* The steps of a client that leave its connection as it is.               *)
LEMMA ScreenKeeps ==
  ASSUME Inv, NEW c \in Clients,
         \/ Repeat(c) \/ GiveUp(c) \/ HomePing(c) \/ HomeStatus(c) \/ CreateLobby(c)
         \/ OpenBrowse(c) \/ \E code \in Codes : JoinCode(c, code)
         \/ StopWaiting(c) \/ Failed(c) \/ LeaveLost(c) \/ Reopen(c)
  PROVE  Inv'
<1>1. UNCHANGED <<server, session>>
  BY DEF Repeat, GiveUp, HomePing, HomeStatus, CreateLobby, OpenBrowse, JoinCode, StopWaiting,
         Failed, LeaveLost, Reopen
<1>2. MailTypes'
  <2>1. CASE Repeat(c) \/ GiveUp(c)
    BY <2>1, PollTypes DEF Inv
  <2>2. CASE HomePing(c)
    BY <2>2, SendTypes, MessageTypes DEF Inv, HomePing
  <2>3. CASE CreateLobby(c)
    BY <2>3, SendTypes, MessageTypes DEF Inv, CreateLobby
  <2>4. ASSUME NEW code \in Codes, JoinCode(c, code)
        PROVE  MailTypes'
    BY <2>4, SendTypes, MessageTypes DEF Inv, JoinCode
  <2>5. CASE HomeStatus(c) \/ OpenBrowse(c) \/ StopWaiting(c)
    BY <2>5, CancelTypes DEF Inv, HomeStatus, OpenBrowse, StopWaiting
  <2>6. CASE Failed(c) \/ LeaveLost(c) \/ Reopen(c)
    BY <2>6 DEF Inv, MailTypes, Failed, LeaveLost, Reopen, network
  <2> QED BY <2>1, <2>2, <2>3, <2>4, <2>5, <2>6
<1> QED BY <1>1, <1>2 DEF server, Inv, PlaceTypes, Tenures, SameTenure, Inside

LEMMA AnswerKeeps ==
  ASSUME Inv, NEW c \in Clients, NEW reply \in replies, Answer(c, reply)
  PROVE  Inv'
<1>1. MailTypes'
  BY PollTypes DEF Inv
<1>2. UNCHANGED <<lobby, created>>
  BY DEF Answer, server
<1>3. CASE UNCHANGED session
  BY <1>1, <1>2, <1>3 DEF Inv, PlaceTypes, Tenures, SameTenure, Inside
<1>4. CASE ConnectFromMatchmaker(c, reply)
  <2>1. Connect(reply.port, reply.secret) \in SessionOf
    BY DEF Connect, SessionOf, Inv, MailTypes, ReplyOf
  <2>2. Connect(reply.port, reply.secret).link = "connecting"
    BY DEF Connect
  <2>3. session' = [session EXCEPT ![c] = Connect(reply.port, reply.secret)]
    BY <1>4 DEF ConnectFromMatchmaker
  <2> HIDE DEF Connect
  <2> QED BY <1>1, <1>2, <2>1, <2>2, <2>3, NewSessionKeeps DEF Inv
<1> QED BY <1>3, <1>4 DEF Answer

LEMMA DisconnectKeeps ==
  ASSUME Inv, NEW c \in Clients,
         LeaveLobby(c) \/ OnJoinFailed(c) \/ ConnectionLost(c)
  PROVE  Inv'
<1>1. session' = [session EXCEPT ![c] = NoSession] /\ UNCHANGED created
  BY DEF LeaveLobby, OnJoinFailed, ConnectionLost, Disconnect, server
<1>2. NoSession \in SessionOf /\ NoSession.link = "none"
  BY DEF NoSession, SessionOf, NoSecret
<1>3. MailTypes'
  <2>1. CASE LeaveLobby(c) \/ OnJoinFailed(c)
    BY <2>1, CancelTypes DEF Inv, LeaveLobby, OnJoinFailed
  <2>2. CASE ConnectionLost(c)
    BY <2>2 DEF Inv, MailTypes, ConnectionLost, network
  <2> QED BY <2>1, <2>2
<1>4. CASE UNCHANGED lobby
  BY <1>1, <1>2, <1>3, <1>4, NewSessionKeeps DEF Inv
<1>5. CASE LetIn(c)
  <2>1. /\ session' \in [Clients -> SessionOf] /\ session'[c] = NoSession
        /\ \A d \in Clients : d # c => session'[d] = session[d]
    BY <1>1, <1>2 DEF Inv, PlaceTypes
  <2>2. PlaceTypes' /\ Tenures' /\ SameTenure'
    BY <1>1, <1>2, <1>5, <2>1, LetInKeeps
  <2> QED BY <1>3, <2>2 DEF Inv
<1> QED BY <1>4, <1>5 DEF LeaveLobby, OnJoinFailed, ConnectionLost, server

LEMMA InvNext == Inv /\ [Next]_vars => Inv'
<1> SUFFICES ASSUME Inv, [Next]_vars PROVE Inv'
  OBVIOUS
<1>1. ASSUME NEW c \in Clients, JoinRequest(c)
      PROVE  Inv'
  <2>1. UNCHANGED <<network, mm>>
    BY <1>1 DEF JoinRequest
  <2> QED BY <1>1, <2>1, JoinRequestKeeps DEF Inv, MailTypes, network
<1>2. ASSUME NEW c \in Clients, NEW reply \in replies, Answer(c, reply)
      PROVE  Inv'
  BY <1>2, AnswerKeeps
<1>3. ASSUME NEW c \in Clients,
             \/ Repeat(c) \/ GiveUp(c) \/ HomePing(c) \/ HomeStatus(c) \/ CreateLobby(c)
             \/ OpenBrowse(c) \/ \E code \in Codes : JoinCode(c, code)
             \/ StopWaiting(c) \/ Failed(c) \/ LeaveLost(c) \/ Reopen(c)
      PROVE  Inv'
  BY <1>3, ScreenKeeps
<1>4. ASSUME NEW c \in Clients, LeaveLobby(c) \/ OnJoinFailed(c) \/ ConnectionLost(c)
      PROVE  Inv'
  BY <1>4, DisconnectKeeps
<1>5. CASE UNCHANGED vars
  BY <1>5 DEF vars, server, network, Inv, PlaceTypes, MailTypes, Tenures, SameTenure, Inside
<1> QED BY <1>1, <1>2, <1>3, <1>4, <1>5, ServerKeeps DEF Next

(* However late a code, an answer or a join arrives, whoever is inside a   *)
(* lobby has the secret of the lobby that is there now, and no two lobbies *)
(* have the same.                                                          *)
THEOREM TenureCorrect == Spec => [](SameTenure /\ Tenures)
<1>1. Init => Inv
  BY InvInit
<1>2. Inv /\ [Next]_vars => Inv'
  BY InvNext
<1>3. Inv => SameTenure /\ Tenures
  BY DEF Inv
<1> QED BY <1>1, <1>2, <1>3, PTL DEF Spec
=============================================================================
