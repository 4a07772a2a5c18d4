------------------------- MODULE BattleGate_proofs -------------------------
(***************************************************************************)
(* Theorems about BattleGate, for every value of its constants.            *)
(***************************************************************************)
EXTENDS BattleGate, FiniteSetTheorems, SequenceTheorems, TLAPS

(* RemoveAt drops one place and moves the ones behind it up.               *)
LEMMA RemoveAtProperties ==
  ASSUME NEW S, NEW seq \in Seq(S), NEW i \in 1 .. Len(seq)
  PROVE  /\ RemoveAt(seq, i) \in Seq(S)
         /\ Len(RemoveAt(seq, i)) = Len(seq) - 1
         /\ \A j \in 1 .. Len(seq) - 1 :
              RemoveAt(seq, i)[j] = IF j < i THEN seq[j] ELSE seq[j + 1]
<1> DEFINE front == SubSeq(seq, 1, i - 1)
           back  == SubSeq(seq, i + 1, Len(seq))
<1>0. Len(seq) \in Nat /\ \A j \in 1 .. Len(seq) : seq[j] \in S
  BY LenProperties
<1>1. /\ front \in Seq(S) /\ Len(front) = i - 1
      /\ \A j \in 1 .. i - 1 : front[j] = seq[j]
  BY <1>0, SubSeqProperties
<1>2. /\ back \in Seq(S) /\ Len(back) = Len(seq) - i
      /\ \A j \in 1 .. Len(seq) - i : back[j] = seq[j + i]
  BY <1>0, SubSeqProperties
<1> HIDE DEF front, back
<1>3. /\ front \o back \in Seq(S)
      /\ Len(front \o back) = Len(front) + Len(back)
      /\ \A j \in 1 .. Len(front) + Len(back) :
           (front \o back)[j] = IF j <= Len(front) THEN front[j] ELSE back[j - Len(front)]
  BY <1>1, <1>2, ConcatProperties
<1>4. RemoveAt(seq, i) = front \o back
  BY DEF RemoveAt, front, back
<1>5. ASSUME NEW j \in 1 .. Len(seq) - 1
      PROVE  RemoveAt(seq, i)[j] = IF j < i THEN seq[j] ELSE seq[j + 1]
  <2>1. CASE j < i
    BY <2>1, <1>0, <1>1, <1>2, <1>3, <1>4
  <2>2. CASE j >= i
    <3>1. j - (i - 1) \in 1 .. Len(seq) - i /\ ~(j <= i - 1)
      BY <2>2, <1>0
    <3>2. RemoveAt(seq, i)[j] = back[j - (i - 1)]
      BY <3>1, <1>0, <1>1, <1>2, <1>3, <1>4
    <3>3. back[j - (i - 1)] = seq[j - (i - 1) + i]
      BY <3>1, <1>2
    <3> QED BY <3>1, <3>2, <3>3, <1>0
  <2> QED BY <2>1, <2>2, <1>0
<1>6. RemoveAt(seq, i) \in Seq(S)
  BY <1>3, <1>4
<1>7. Len(RemoveAt(seq, i)) = Len(seq) - 1
  <2>1. Len(front \o back) = Len(front) + Len(back)
    BY <1>3
  <2>2. i \in Int /\ Len(front) = i - 1 /\ Len(back) = Len(seq) - i /\ Len(seq) \in Nat
    BY <1>0, <1>1, <1>2
  <2> QED BY <2>1, <2>2, <1>4
<1> QED BY <1>5, <1>6, <1>7

-----------------------------------------------------------------------------
(* Types.                                                                  *)

UpMsg == {Ready(pick) : pick \in Picks} \cup {Unready, Loaded} \cup {Results(side) : side \in Sides}
DownMsg == [type : {"data_update"}, data : DataOf] \cup {AllReady, Synced}

Typed ==
  /\ TypeOK
  /\ up \in [Clients -> Seq(UpMsg)] /\ down \in [Clients -> Seq(DownMsg)]

(* There is somebody else, and nobody but the two.                         *)
LEMMA TwoClients ==
  ASSUME NEW c \in Clients
  PROVE  /\ Other(c) \in Clients /\ Other(c) # c
         /\ \A d \in Clients : d = c \/ d = Other(c)
<1>1. IsFiniteSet(Clients \ {c}) /\ Cardinality(Clients \ {c}) = 1
  BY GateAssumption, FS_RemoveElement
<1>2. PICK d : Clients \ {c} = {d}
  BY <1>1, FS_Singleton
<1>3. d \in Clients /\ d # c /\ \A e \in Clients : e = c \/ e = d
  BY <1>2
<1>4. Other(c) = d
  BY <1>3 DEF Other
<1> QED BY <1>3, <1>4

(* What a message sent does to its connection.                             *)
LEMMA Sent ==
  ASSUME Typed, NEW c \in Clients, NEW msg \in UpMsg, Send(c, msg)
  PROVE  /\ up' = [up EXCEPT ![c] = up'[c]] /\ up'[c] \in Seq(UpMsg)
         /\ Len(up[c]) \in Nat /\ Len(up[c]) < MaxInFlight /\ Len(up'[c]) = Len(up[c]) + 1
         /\ \A i \in 1 .. Len(up[c]) : up'[c][i] = up[c][i]
         /\ up'[c][Len(up[c]) + 1] = msg
<1>1. up[c] \in Seq(UpMsg) /\ up'[c] = Append(up[c], msg) /\ up' = [up EXCEPT ![c] = Append(up[c], msg)]
  BY DEF Typed, Send
<1>2. Len(up[c]) \in Nat /\ Len(up[c]) < MaxInFlight
  BY <1>1, LenProperties DEF Send
<1>3. /\ Append(up[c], msg) \in Seq(UpMsg) /\ Len(Append(up[c], msg)) = Len(up[c]) + 1
      /\ \A i \in 1 .. Len(up[c]) : Append(up[c], msg)[i] = up[c][i]
      /\ Append(up[c], msg)[Len(up[c]) + 1] = msg
  BY <1>1, <1>2
<1> QED BY <1>1, <1>2, <1>3

(* What is left when the first message is taken.                           *)
LEMMA Taken ==
  ASSUME NEW S, NEW q \in Seq(S), q # <<>>
  PROVE  /\ Len(q) \in Nat \ {0} /\ Head(q) = q[1] /\ q[1] \in S
         /\ Tail(q) \in Seq(S) /\ Len(Tail(q)) = Len(q) - 1
         /\ \A i \in 1 .. Len(q) - 1 : Tail(q)[i] = q[i + 1]
<1>1. Len(q) \in Nat \ {0}
  BY EmptySeq
<1>2. q[1] \in S /\ Head(q) = q[1]
  BY <1>1, ElementOfSeq
<1> QED BY <1>1, <1>2, HeadTailProperties

(* What a Step broadcasts.                                                 *)
LEMMA NewsHas ==
  ASSUME Typed
  PROVE  /\ News \in Seq(DownMsg) /\ Len(News) \in 1 .. 3
         /\ News[1] = Update
         /\ \A i \in 1 .. Len(News) :
              /\ News[i].type = "data_update" <=> i = 1
              /\ News[i].type = "lobby_allready" <=> (i = 2 /\ callDue)
              /\ News[i].type = "battle_synced" <=> (i = Len(News) /\ syncedDue)
         /\ callDue => Len(News) >= 2
<1>0. Update \in DownMsg /\ AllReady \in DownMsg /\ Synced \in DownMsg
  BY DEF Typed, TypeOK, DownMsg, Update
<1> DEFINE r == IF callDue THEN <<AllReady>> ELSE <<>>
           t == IF syncedDue THEN <<Synced>> ELSE <<>>
           u == <<Update>>
           front == u \o r
<1>1. /\ Update.type = "data_update" /\ AllReady.type = "lobby_allready"
      /\ Synced.type = "battle_synced"
  BY DEF Update, AllReady, Synced
<1>2. callDue \in BOOLEAN /\ syncedDue \in BOOLEAN
  BY DEF Typed, TypeOK
<1>3. u \in Seq(DownMsg) /\ Len(u) = 1 /\ u[1] = Update
  BY <1>0
<1>4. r \in Seq(DownMsg) /\ Len(r) = (IF callDue THEN 1 ELSE 0) /\ (callDue => r[1] = AllReady)
  BY <1>0, <1>2
<1>5. t \in Seq(DownMsg) /\ Len(t) = (IF syncedDue THEN 1 ELSE 0) /\ (syncedDue => t[1] = Synced)
  BY <1>0, <1>2
<1>6. News = front \o t
  BY DEF News
<1> HIDE DEF r, t, u
<1>7. /\ front \in Seq(DownMsg) /\ Len(front) = 1 + Len(r)
      /\ \A i \in 1 .. 1 + Len(r) : front[i] = IF i <= 1 THEN u[i] ELSE r[i - 1]
  BY <1>3, <1>4, ConcatProperties
<1> HIDE DEF front
<1>8. /\ News \in Seq(DownMsg) /\ Len(News) = Len(front) + Len(t)
      /\ \A i \in 1 .. Len(front) + Len(t) :
           News[i] = IF i <= Len(front) THEN front[i] ELSE t[i - Len(front)]
  BY <1>5, <1>6, <1>7, ConcatProperties
<1>9. /\ Len(News) = 1 + Len(r) + Len(t) /\ Len(News) \in 1 .. 3 /\ News[1] = Update
      /\ callDue => Len(News) >= 2
  BY <1>2, <1>3, <1>4, <1>5, <1>7, <1>8
<1>10. ASSUME NEW i \in 1 .. Len(News)
       PROVE  News[i] = IF i = 1 THEN Update ELSE IF i = 2 /\ callDue THEN AllReady ELSE Synced
  <2>1. CASE i = 1
    BY <1>9, <2>1
  <2>2. CASE i = 2 /\ callDue
    BY <1>2, <1>3, <1>4, <1>5, <1>7, <1>8, <1>9, <2>2
  <2>3. CASE i # 1 /\ ~(i = 2 /\ callDue)
    BY <1>2, <1>3, <1>4, <1>5, <1>7, <1>8, <1>9, <2>3
  <2> QED BY <2>1, <2>2, <2>3
<1>11. \A i \in 1 .. Len(News) :
         /\ News[i].type = "data_update" <=> i = 1
         /\ News[i].type = "lobby_allready" <=> (i = 2 /\ callDue)
         /\ News[i].type = "battle_synced" <=> (i = Len(News) /\ syncedDue)
  BY <1>1, <1>2, <1>4, <1>5, <1>9, <1>10
<1> QED BY <1>8, <1>9, <1>11

(* Where the broadcast lands.                                              *)
LEMMA Broadcast ==
  ASSUME Typed, NEW c \in Clients
  PROVE  LET q == down[c] \o News IN
         /\ q \in Seq(DownMsg) /\ Len(q) = Len(down[c]) + Len(News)
         /\ \A i \in 1 .. Len(down[c]) : q[i] = down[c][i]
         /\ q[Len(down[c]) + 1] = Update
         /\ \A i \in Len(down[c]) + 1 .. Len(q) :
              /\ q[i].type = "data_update" <=> i = Len(down[c]) + 1
              /\ q[i].type = "lobby_allready" <=> (i = Len(down[c]) + 2 /\ callDue)
              /\ q[i].type = "battle_synced" <=> (i = Len(q) /\ syncedDue)
<1> DEFINE q == down[c] \o News
           n == Len(down[c])
<1>1. down[c] \in Seq(DownMsg) /\ n \in Nat
  BY LenProperties DEF Typed
<1>2. /\ q \in Seq(DownMsg) /\ Len(q) = n + Len(News)
      /\ \A i \in 1 .. n + Len(News) : q[i] = IF i <= n THEN down[c][i] ELSE News[i - n]
  BY <1>1, NewsHas, ConcatProperties
<1> HIDE DEF q, n
<1>3. /\ \A i \in 1 .. n : q[i] = down[c][i]
      /\ q[n + 1] = News[1]
  BY <1>1, <1>2, NewsHas
<1>4. ASSUME NEW i \in n + 1 .. Len(q)
      PROVE  /\ q[i].type = "data_update" <=> i = n + 1
             /\ q[i].type = "lobby_allready" <=> (i = n + 2 /\ callDue)
             /\ q[i].type = "battle_synced" <=> (i = Len(q) /\ syncedDue)
  <2>1. i - n \in 1 .. Len(News) /\ q[i] = News[i - n]
    BY <1>1, <1>2, NewsHas
  <2>2. /\ News[i - n].type = "data_update" <=> i - n = 1
        /\ News[i - n].type = "lobby_allready" <=> (i - n = 2 /\ callDue)
        /\ News[i - n].type = "battle_synced" <=> (i - n = Len(News) /\ syncedDue)
    BY <2>1, NewsHas
  <2> QED BY <1>1, <1>2, <2>1, <2>2, NewsHas
<1> QED BY <1>2, <1>3, <1>4, NewsHas DEF q, n

(* Where a member sits, counted from 0.                                    *)
LEMMA SideOfMember ==
  ASSUME NEW q \in Seq(Clients), NEW c \in ToSet(q)
  PROVE  SideIn(q, c) + 1 \in 1 .. Len(q) /\ q[SideIn(q, c) + 1] = c
<1>1. PICK i \in 1 .. Len(q) : q[i] = c
  BY LenProperties DEF ToSet
<1> DEFINE k == CHOOSE j \in 1 .. Len(q) : q[j] = c
<1>2. k \in 1 .. Len(q) /\ q[k] = c
  BY <1>1
<1>3. SideIn(q, c) = k - 1
  BY DEF SideIn
<1> HIDE DEF k
<1>4. k \in Int /\ Len(q) \in Nat
  BY <1>2, LenProperties
<1> QED BY <1>2, <1>3, <1>4

LEMMA ReverseType ==
  ASSUME NEW q \in Seq(Clients)
  PROVE  Reverse(q) \in Seq(Clients)
<1>1. Len(q) \in Nat /\ \A i \in 1 .. Len(q) : q[i] \in Clients
  BY LenProperties
<1>2. \A i \in 1 .. Len(q) : (Len(q) - i) + 1 \in 1 .. Len(q)
  BY <1>1
<1>3. Reverse(q) \in [1 .. Len(q) -> Clients]
  BY <1>1, <1>2 DEF Reverse
<1> QED BY <1>1, <1>3

LEMMA TypedInit == Init => Typed
<1> SUFFICES ASSUME Init PROVE Typed
  OBVIOUS
<1>1. seats \in Seq(Clients)
  <2>1. seats \in [1 .. Cardinality(Clients) -> Clients]
    BY DEF Init, SetToSeqs
  <2>2. Cardinality(Clients) = 2
    BY GateAssumption
  <2>3. seats \in [1 .. 2 -> Clients]
    BY <2>1, <2>2, Zenon
  <2>4. seats = <<seats[1], seats[2]>> /\ seats[1] \in Clients /\ seats[2] \in Clients
    BY <2>3
  <2> QED BY <2>4
<1>2. Data \in DataOf
  BY <1>1 DEF Init, Data, DataOf, Sides
<1>3. NoGame \in GameOf
  BY DEF NoGame, GameOf, Sides
<1>4. up \in [Clients -> Seq(UpMsg)] /\ down \in [Clients -> Seq(DownMsg)]
      /\ \A c \in Clients : Len(up[c]) = 0 /\ Len(down[c]) = 0
  BY DEF Init
<1>5. \A c \in Clients : Len(up[c]) <= MaxInFlight /\ Len(down[c]) <= MaxInFlight + 2
  BY <1>4, GateAssumption
<1> QED BY <1>2, <1>3, <1>4, <1>5 DEF Init, Typed, TypeOK, Scenes

LEMMA TypedNext == Typed /\ [Next]_vars => Typed'
<1> SUFFICES ASSUME Typed, [Next]_vars PROVE Typed'
  OBVIOUS
<1> DEFINE ServerTyped == /\ Data \in DataOf /\ loaded \in [Clients -> BOOLEAN]
                          /\ dirty \in BOOLEAN /\ callDue \in BOOLEAN /\ syncedDue \in BOOLEAN
           UpTyped == /\ up \in [Clients -> Seq(UpMsg)]
                      /\ \A c \in Clients : Len(up[c]) <= MaxInFlight
           DownTyped == /\ down \in [Clients -> Seq(DownMsg)]
                        /\ \A c \in Clients : Len(down[c]) <= MaxInFlight + 2
           ClientTyped == /\ scene \in [Clients -> Scenes] /\ view \in [Clients -> DataOf]
                          /\ sentReady \in [Clients -> BOOLEAN] /\ synced \in [Clients -> BOOLEAN]
                          /\ game \in [Clients -> GameOf] /\ running \in [Clients -> BOOLEAN]
                          /\ loser \in [Clients -> Sides \cup {NoSide}]
<1>0. /\ ServerTyped /\ UpTyped /\ DownTyped /\ ClientTyped
      /\ ServerTyped' /\ UpTyped' /\ DownTyped' /\ ClientTyped' => Typed'
  BY DEF Typed, TypeOK
<1>00. Data.seats = seats /\ Data.ready = ready /\ Data.chara = chara
       /\ seats \in Seq(Clients) /\ ready \in [Sides -> BOOLEAN]
       /\ chara \in [Sides -> Picks \cup {NoPick}]
       /\ (seats' \in Seq(Clients) /\ ready' \in [Sides -> BOOLEAN]
            /\ chara' \in [Sides -> Picks \cup {NoPick}] => Data' \in DataOf)
  BY <1>0 DEF Data, DataOf
<1>01. ASSUME NEW c \in Clients, NEW msg \in UpMsg, Send(c, msg) PROVE UpTyped'
  <2>1. up' = [up EXCEPT ![c] = up'[c]] /\ up'[c] \in Seq(UpMsg) /\ Len(up'[c]) <= MaxInFlight
    BY <1>01, Sent, GateAssumption
  <2> QED BY <1>0, <2>1
<1>1. ASSUME NEW c \in Clients, Receive(c) PROVE Typed'
  <2> DEFINE msg == Head(up[c])
  <2>0. /\ UNCHANGED <<down, client, battle>> /\ up[c] # <<>> /\ up' = [up EXCEPT ![c] = Tail(up[c])]
        /\ \/ msg.type = "ready" /\ OnReady(c, msg.chara)
           \/ msg.type = "unready" /\ OnUnready(c)
           \/ msg.type = "battle_loaded" /\ OnLoaded(c)
           \/ msg.type = "report_results" /\ OnResults(msg.loser)
    BY <1>1 DEF Receive
  <2>1. /\ msg \in UpMsg /\ Tail(up[c]) \in Seq(UpMsg) /\ Len(Tail(up[c])) = Len(up[c]) - 1
        /\ Len(up[c]) \in Nat
    BY <1>0, <2>0, Taken
  <2>2. UpTyped'
    BY <1>0, <2>0, <2>1, GateAssumption
  <2>3. DownTyped' /\ ClientTyped'
    BY <1>0, <2>0 DEF client, battle, InBattle
  <2>4. CASE msg.type = "ready" /\ OnReady(c, msg.chara)
    <3>1. msg.chara \in Picks
      BY <2>1, <2>4 DEF UpMsg, Ready, Unready, Loaded, Results
    <3> QED BY <1>0, <1>00, <2>2, <2>3, <2>4, <3>1 DEF OnReady
  <2>5. CASE msg.type = "unready" /\ OnUnready(c)
    BY <1>0, <1>00, <2>2, <2>3, <2>5 DEF OnUnready
  <2>6. CASE msg.type = "battle_loaded" /\ OnLoaded(c)
    BY <1>0, <1>00, <2>2, <2>3, <2>6 DEF OnLoaded, match
  <2>7. CASE msg.type = "report_results" /\ OnResults(msg.loser)
    <3>1. Reverse(seats) \in Seq(Clients)
      BY <1>00, ReverseType
    <3>2. ready' \in [Sides -> BOOLEAN] /\ seats' \in Seq(Clients)
      BY <1>00, <2>7, <3>1 DEF OnResults
    <3>3. chara' \in [Sides -> Picks \cup {NoPick}]
      BY <1>00, <2>7 DEF OnResults, Sides
    <3> QED BY <1>0, <1>00, <2>2, <2>3, <2>7, <3>2, <3>3 DEF OnResults
  <2> QED BY <2>0, <2>4, <2>5, <2>6, <2>7
<1>2. ASSUME NEW c \in Clients, Close(c) PROVE Typed'
  <2>1. UpTyped' /\ DownTyped' /\ ClientTyped'
    BY <1>0, <1>2 DEF Close, client, battle
  <2>2. seats' \in Seq(Clients)
    <3>1. SideIn(seats, c) + 1 \in 1 .. Len(seats)
      BY <1>00, <1>2, SideOfMember DEF Close, Members
    <3> QED BY <1>00, <1>2, <3>1, RemoveAtProperties DEF Close
  <2>3. ready' \in [Sides -> BOOLEAN] /\ chara' \in [Sides -> Picks \cup {NoPick}]
    <3>1. ready' = [s \in Sides |-> s < SideIn(seats, c) /\ ready[s]]
      BY <1>2 DEF Close
    <3>2. chara' = [s \in Sides |-> IF s < SideIn(seats, c) THEN chara[s] ELSE NoPick]
      BY <1>2 DEF Close
    <3> QED BY <1>00, <3>1, <3>2
  <2> QED BY <1>0, <1>00, <1>2, <2>1, <2>2, <2>3 DEF Close
<1>3. ASSUME NEW c \in Clients, Deliver(c) PROVE Typed'
  <2> DEFINE msg == Head(down[c])
  <2>1. /\ msg \in DownMsg /\ Tail(down[c]) \in Seq(DownMsg) /\ Len(Tail(down[c])) = Len(down[c]) - 1
        /\ Len(down[c]) \in Nat
    BY <1>0, <1>3, Taken DEF Deliver
  <2>2. msg.type = "data_update" => msg.data \in DataOf
    BY <2>1 DEF DownMsg, AllReady, Synced
  <2>3. DownTyped'
    BY <1>0, <1>3, <2>1, GateAssumption DEF Deliver
  <2>4. ServerTyped' /\ UpTyped'
    BY <1>0, <1>3 DEF Deliver, server, match, due, Data
  <2>5. ClientTyped'
    BY <1>0, <1>3, <2>2 DEF Deliver, battle, Scenes
  <2> QED BY <1>0, <2>3, <2>4, <2>5
<1>4. CASE FinishStep
  <2>1. DownTyped'
    <3>1. ASSUME NEW c \in Clients PROVE down'[c] \in Seq(DownMsg) /\ Len(down'[c]) <= MaxInFlight + 2
      <4>1. CASE c \in Connected
        <5>1. /\ down[c] \o News \in Seq(DownMsg)
              /\ Len(down[c] \o News) = Len(down[c]) + Len(News)
          BY Broadcast
        <5>2. Len(down[c]) \in Nat /\ Len(down[c]) < MaxInFlight /\ Len(News) \in 1 .. 3
          BY <1>0, <1>4, <4>1, LenProperties, NewsHas DEF FinishStep
        <5>3. down'[c] = down[c] \o News
          BY <1>4, <4>1 DEF FinishStep
        <5> DEFINE n == Len(down[c])
                   k == Len(News)
                   all == Len(down[c] \o News)
        <5>4. all = n + k /\ n \in Nat /\ n < MaxInFlight /\ k \in 1 .. 3 /\ MaxInFlight \in Nat
          BY <5>1, <5>2, GateAssumption
        <5> HIDE DEF n, k, all
        <5>5. all <= MaxInFlight + 2
          BY <5>4
        <5> QED BY <5>1, <5>3, <5>5 DEF all
      <4>2. CASE c \notin Connected
        <5>1. down'[c] = <<>>
          BY <1>4, <4>2 DEF FinishStep
        <5> QED BY <5>1, GateAssumption
      <4> QED BY <4>1, <4>2
    <3>2. down' = [c \in Clients |-> down'[c]]
      BY <1>4 DEF FinishStep
    <3> QED BY <3>1, <3>2
  <2>2. ServerTyped' /\ UpTyped' /\ ClientTyped'
    BY <1>0, <1>4 DEF FinishStep, match, client, battle, Data
  <2> QED BY <1>0, <2>1, <2>2
<1>5. ASSUME NEW c \in Clients, NEW pick \in Picks, PressReady(c, pick) PROVE Typed'
  <2>1. UpTyped'
    BY <1>5, <1>01 DEF PressReady, UpMsg
  <2>2. ServerTyped' /\ DownTyped' /\ ClientTyped'
    BY <1>0, <1>5 DEF PressReady, server, match, due, battle, Data
  <2> QED BY <1>0, <2>1, <2>2
<1>6. ASSUME NEW c \in Clients, PressBack(c) PROVE Typed'
  <2>1. UpTyped'
    BY <1>6, <1>01 DEF PressBack, UpMsg
  <2>2. ServerTyped' /\ DownTyped' /\ ClientTyped'
    BY <1>0, <1>6 DEF PressBack, server, match, due, battle, Data
  <2> QED BY <1>0, <2>1, <2>2
<1>7. ASSUME NEW c \in Clients, FinishLoading(c) PROVE Typed'
  <2>1. UpTyped'
    BY <1>7, <1>01 DEF FinishLoading, UpMsg
  <2>2. ServerTyped' /\ DownTyped' /\ ClientTyped'
    BY <1>0, <1>7 DEF FinishLoading, server, match, due, battle, Data, Scenes
  <2> QED BY <1>0, <2>1, <2>2
<1>8. ASSUME NEW c \in Clients, ReturnToMenu(c) PROVE Typed'
  <2>0. loser[c] # NoSide => loser[c] \in Sides
    BY <1>0
  <2>1. UpTyped'
    <3>1. (IF loser[c] = NoSide THEN 1 ELSE loser[c]) \in Sides
      BY <2>0 DEF Sides
    <3>2. Results(IF loser[c] = NoSide THEN 1 ELSE loser[c]) \in UpMsg
      BY <3>1 DEF UpMsg
    <3>3. CASE MySide(c) = 0
      BY <1>8, <1>01, <3>2, <3>3 DEF ReturnToMenu
    <3>4. CASE MySide(c) # 0
      BY <1>0, <1>8, <3>4 DEF ReturnToMenu
    <3> QED BY <3>3, <3>4
  <2>2. NoGame \in GameOf
    BY DEF NoGame, GameOf, Sides
  <2>3. ServerTyped' /\ DownTyped' /\ ClientTyped'
    BY <1>0, <1>8, <2>2 DEF ReturnToMenu, server, match, due, Data, Scenes
  <2> QED BY <1>0, <2>1, <2>3
<1>9. ASSUME NEW c \in Clients, LoadBattle(c) PROVE Typed'
  <2>1. [seats |-> view[c].seats, chara |-> view[c].chara] \in GameOf
    BY <1>0 DEF DataOf, GameOf
  <2>2. ServerTyped' /\ UpTyped' /\ DownTyped'
    BY <1>0, <1>9 DEF LoadBattle, server, match, due, Data
  <2>3. ClientTyped'
    BY <1>0, <1>9, <2>1 DEF LoadBattle, Scenes
  <2> QED BY <1>0, <2>2, <2>3
<1>10. ASSUME NEW c \in Clients, PassGate(c) PROVE Typed'
  <2>1. ServerTyped' /\ UpTyped' /\ DownTyped' /\ ClientTyped'
    BY <1>0, <1>10 DEF PassGate, server, match, due, battle, Data, Scenes
  <2> QED BY <1>0, <2>1
<1>11. ASSUME NEW c \in Clients, LeaveBattle(c) PROVE Typed'
  <2>1. ServerTyped' /\ UpTyped' /\ DownTyped'
    BY <1>0, <1>11 DEF LeaveBattle, ResetFlags, match, due, Data
  <2>2. ClientTyped'
    BY <1>0, <1>11 DEF LeaveBattle, Scenes
  <2> QED BY <1>0, <2>1, <2>2
<1>12. ASSUME NEW c \in Clients, Quit(c) PROVE Typed'
  <2>1. ServerTyped' /\ ClientTyped'
    BY <1>0, <1>12 DEF Quit, server, match, due, Data, Scenes
  <2>2. <<>> \in Seq(UpMsg) /\ <<>> \in Seq(DownMsg) /\ Len(<<>>) = 0 /\ MaxInFlight \in Nat
    BY GateAssumption
  <2>3. up' = [up EXCEPT ![c] = <<>>] /\ down' = [down EXCEPT ![c] = <<>>]
    BY <1>12 DEF Quit
  <2>4. UpTyped'
    BY <1>0, <2>2, <2>3
  <2>5. DownTyped'
    BY <1>0, <2>2, <2>3
  <2> QED BY <1>0, <2>1, <2>4, <2>5
<1>13. ASSUME Connect \/ \E side \in Sides : Fight(side) PROVE Typed'
  <2>1. ServerTyped' /\ UpTyped' /\ DownTyped'
    BY <1>0, <1>13 DEF Connect, Fight, server, match, due, Data
  <2>2. ClientTyped'
    BY <1>0, <1>13 DEF Connect, Fight, client
  <2> QED BY <1>0, <2>1, <2>2
<1>14. CASE UNCHANGED vars
  <2>1. ServerTyped' /\ UpTyped' /\ DownTyped' /\ ClientTyped'
    BY <1>0, <1>14 DEF vars, server, match, due, client, battle, Data
  <2> QED BY <1>0, <2>1
<1> QED
  BY <1>1, <1>2, <1>3, <1>4, <1>5, <1>6, <1>7, <1>8, <1>9, <1>10, <1>11, <1>12, <1>13, <1>14
     DEF Next

(* Everything keeps its type and the connections their limits.             *)
THEOREM TypeCorrect == Spec => []TypeOK
<1>1. Typed => TypeOK
  BY DEF Typed
<1> QED BY <1>1, TypedInit, TypedNext, PTL DEF Spec

-----------------------------------------------------------------------------
(* What holds of every client, and of two that are both still here.        *)

Present(c) == scene[c] # "gone"
BothHere == \A c \in Clients : Present(c)
AllSet == \A s \in Sides : ready[s]

Has(q, type) == \E i \in 1 .. Len(q) : q[i].type = type
Once(q, type) == \A i, j \in 1 .. Len(q) : q[i].type = type /\ q[j].type = type => i = j

(* Two seats, or the host's alone.                                         *)
Full(q) == Len(q) = 2 /\ q[1] # q[2]
Seating(q) == q \in Seq(Clients) /\ (Full(q) \/ (Len(q) = 1 /\ q[1] = Host))

Seated ==
  /\ Present(Host) /\ Seating(seats)
  /\ BothHere => Full(seats)
  /\ \A c \in Clients :
       /\ ~Present(c) => up[c] = <<>>
       /\ Present(c) =>
            /\ Seating(view[c].seats)
            /\ \A i \in 1 .. Len(down[c]) :
                 down[c][i].type = "data_update" => Seating(down[c][i].data.seats)
       /\ BothHere =>
            /\ Full(view[c].seats) /\ (InBattle(c) => Full(game[c].seats))
            /\ \A i \in 1 .. Len(down[c]) :
                 down[c][i].type = "data_update" => Full(down[c][i].data.seats)

(* What a client is told of its own readiness: by what it shows, by what   *)
(* is on its way, and by what the server holds.                            *)
Mine(c, d) == IF d.ready[SideIn(d.seats, c)] THEN "set" ELSE "clear"
End(c) == Len(down[c]) + 1
Told(c) == [i \in 0 .. End(c) |->
  IF i = 0 THEN Mine(c, view[c])
  ELSE IF i = End(c) THEN Mine(c, Data)
  ELSE IF down[c][i].type = "data_update" THEN Mine(c, down[c][i].data)
  ELSE "nothing"]

NeverSet(t, n) == \A i \in 0 .. n : t[i] # "set"
StaysClear(t, n) == \A i, j \in 0 .. n : i < j /\ t[i] = "clear" => t[j] # "set"
SetOnce(t, n) ==
  \A i, j, k \in 0 .. n : i < j /\ j < k /\ t[i] = "set" /\ t[j] = "clear" => t[k] # "set"

(* The readiness of a client is set by its READY alone and cleared for     *)
(* good: while a READY is on its way nothing says it is set, and one that  *)
(* has not sent any since will not find it set again.                      *)
Flags(c) ==
  /\ SetOnce(Told(c), End(c))
  /\ ~sentReady[c] \/ scene[c] # "menu" => StaysClear(Told(c), End(c))
  /\ Has(up[c], "ready") =>
       scene[c] = "menu" /\ sentReady[c] /\ NeverSet(Told(c), End(c))
  /\ \A i \in 1 .. Len(down[c]) :
       down[c][i].type = "lobby_allready" => Told(c)[i - 1] = "set"

(* Called, or about to be, and not told yet that both have loaded.         *)
Coming(c) == callDue \/ Has(down[c], "lobby_allready")
Sync(c) == syncedDue \/ Has(down[c], "battle_synced") \/ synced[c]
Early(c) == \/ Coming(c) \/ scene[c] \in {"called", "loading"}
            \/ (scene[c] = "gate" /\ ~Sync(c))

Uplink(c) ==
  /\ \A i \in 1 .. Len(up[c]) : up[c][i].type \in {"ready", "battle_loaded"} => i = Len(up[c])
  /\ Early(c) => ~Has(up[c], "ready") /\ ~Has(up[c], "report_results")

(* A call finds its client on the menu; the word that both have loaded     *)
(* comes once, to one that waits for it at the gate.                       *)
Calls(c) ==
  /\ Coming(c) => scene[c] = "menu"
  /\ callDue => ~Has(down[c], "lobby_allready")
  /\ Once(down[c], "lobby_allready")
  /\ Coming(c) \/ scene[c] \in {"called", "loading"} =>
       ~Has(up[c], "battle_loaded") /\ ~loaded[c] /\ ~Sync(c)
  /\ Has(up[c], "battle_loaded") => scene[c] = "gate" /\ ~loaded[c] /\ ~Sync(c)
  /\ c = Host /\ loaded[c] => scene[c] \in {"gate", "battle"}

Word(c) ==
  /\ syncedDue \/ Has(down[c], "battle_synced") => scene[c] = "gate" /\ ~synced[c]
  /\ syncedDue => ~Has(down[c], "battle_synced")
  /\ Once(down[c], "battle_synced")
  /\ synced[c] => scene[c] \in {"gate", "battle"}
  /\ scene[c] = "battle" => synced[c]

Alone(c) == Flags(c) /\ Uplink(c) /\ Calls(c) /\ Word(c)

(* The match that starts is one and the same for both, and neither gets    *)
(* into the next one before the other.                                     *)
Current(d) == d.seats = seats /\ d.chara = chara
CurrentFrom(c, k) == \A j \in 1 .. Len(down[c]) :
  j >= k /\ down[c][j].type = "data_update" => Current(down[c][j].data)
Starting(c) ==
  /\ \A i \in 1 .. Len(down[c]) : down[c][i].type = "lobby_allready" =>
       (i = 1 => Current(view[c])) /\ CurrentFrom(c, i - 1)
  /\ scene[c] = "called" => Current(view[c]) /\ CurrentFrom(c, 1)
  /\ InBattle(c) /\ Early(c) => Current(game[c])

Joint(c, d) ==
  /\ Early(c) => Early(d) /\ AllSet
  /\ scene[c] = "gate" /\ ~Early(c) => scene[d] \in {"gate", "battle"}
  /\ loser[c] # NoSide =>
       scene[c] \in {"battle", "returning"} /\ scene[d] \in {"battle", "returning", "menu"}
  /\ ready[SideIn(seats, c)] /\ ~AllSet =>
       scene[c] = "menu" /\ \A i \in 1 .. Len(up[c]) : up[c][i].type = "unready"
  /\ loaded[c] => scene[c] = "gate" \/ scene[Host] \in {"gate", "battle"}
  /\ InBattle(c) /\ InBattle(d) => game[c] = game[d]

Inv ==
  /\ Typed /\ Seated
  /\ (callDue => dirty /\ AllSet) /\ (syncedDue => dirty)
  /\ \A c \in Clients : Present(c) => Alone(c)
  /\ BothHere => \A c \in Clients : Starting(c) /\ Joint(c, Other(c))

-----------------------------------------------------------------------------
(* Messages on a connection.                                               *)

LEMMA HasSent ==
  ASSUME NEW q, NEW r, NEW msg, Len(q) \in Nat, Len(r) = Len(q) + 1,
         \A i \in 1 .. Len(q) : r[i] = q[i], r[Len(q) + 1] = msg
  PROVE  \A type : Has(r, type) <=> Has(q, type) \/ type = msg.type
<1>1. ASSUME NEW type, Has(r, type) PROVE Has(q, type) \/ type = msg.type
  <2>1. PICK i \in 1 .. Len(r) : r[i].type = type
    BY <1>1 DEF Has
  <2>2. CASE i = Len(q) + 1
    BY <2>1, <2>2
  <2>3. CASE i # Len(q) + 1
    <3>1. i \in 1 .. Len(q) /\ q[i].type = type
      BY <2>1, <2>3
    <3> QED BY <3>1 DEF Has
  <2> QED BY <2>2, <2>3
<1>2. ASSUME NEW type, Has(q, type) PROVE Has(r, type)
  <2>1. PICK i \in 1 .. Len(q) : q[i].type = type
    BY <1>2 DEF Has
  <2>2. i \in 1 .. Len(r) /\ r[i].type = type
    BY <2>1
  <2> QED BY <2>2 DEF Has
<1>3. Has(r, msg.type)
  <2>1. Len(q) + 1 \in 1 .. Len(r)
    OBVIOUS
  <2> QED BY <2>1 DEF Has
<1> QED BY <1>1, <1>2, <1>3

(* Taking one message adds none.                                           *)
LEMMA HasTaken ==
  ASSUME NEW S, NEW q \in Seq(S), q # <<>>
  PROVE  /\ Has(q, Head(q).type)
         /\ \A type : Has(Tail(q), type) => Has(q, type)
         /\ \A type : Has(q, type) => Has(Tail(q), type) \/ type = Head(q).type
         /\ \A type : Once(q, type) => Once(Tail(q), type)
         /\ Once(q, Head(q).type) => ~Has(Tail(q), Head(q).type)
<1> DEFINE r == Tail(q)
           h == Head(q)
<1>1. /\ Len(q) \in Nat \ {0} /\ h = q[1] /\ Len(r) = Len(q) - 1
      /\ \A i \in 1 .. Len(q) - 1 : r[i] = q[i + 1]
  BY Taken
<1> HIDE DEF r, h
<1>2. \A i \in 1 .. Len(r) : i + 1 \in 1 .. Len(q) /\ i + 1 # 1 /\ r[i] = q[i + 1]
  BY <1>1
<1>3. 1 \in 1 .. Len(q)
  BY <1>1
<1>4. Has(q, h.type)
  BY <1>1, <1>3 DEF Has
<1>5. \A type : Has(r, type) => Has(q, type)
  BY <1>2 DEF Has
<1>6. ASSUME NEW type, Has(q, type) PROVE Has(r, type) \/ type = h.type
  <2>1. PICK i \in 1 .. Len(q) : q[i].type = type
    BY <1>6 DEF Has
  <2>2. CASE i = 1
    BY <2>1, <2>2, <1>1
  <2>3. CASE i # 1
    <3>1. i - 1 \in 1 .. Len(r) /\ r[i - 1] = q[i]
      BY <1>1, <2>1, <2>3
    <3> QED BY <2>1, <3>1 DEF Has
  <2> QED BY <2>2, <2>3
<1>7. ASSUME NEW type, Once(q, type) PROVE Once(r, type)
  <2> SUFFICES ASSUME NEW i \in 1 .. Len(r), NEW k \in 1 .. Len(r),
                      r[i].type = type, r[k].type = type
               PROVE  i = k
    BY DEF Once
  <2>1. i + 1 = k + 1
    BY <1>2, <1>7 DEF Once
  <2> QED BY <2>1
<1>8. Once(q, h.type) => ~Has(r, h.type)
  BY <1>1, <1>2, <1>3 DEF Once, Has
<1> QED BY <1>4, <1>5, <1>6, <1>7, <1>8 DEF r, h

(* What a broadcast adds.                                                  *)
LEMMA HasNews ==
  ASSUME Typed, NEW c \in Clients
  PROVE  LET q == down[c] \o News IN
         /\ Has(q, "lobby_allready") <=> Has(down[c], "lobby_allready") \/ callDue
         /\ Has(q, "battle_synced") <=> Has(down[c], "battle_synced") \/ syncedDue
         /\ Once(down[c], "lobby_allready") /\ (callDue => ~Has(down[c], "lobby_allready"))
              => Once(q, "lobby_allready")
         /\ Once(down[c], "battle_synced") /\ (syncedDue => ~Has(down[c], "battle_synced"))
              => Once(q, "battle_synced")
<1> DEFINE q == down[c] \o News
           n == Len(down[c])
<1>1. n \in Nat /\ Len(News) \in 1 .. 3 /\ (callDue => Len(News) >= 2) /\ Len(q) = n + Len(News)
  BY NewsHas, Broadcast, LenProperties DEF Typed
<1>2. /\ \A i \in 1 .. n : q[i] = down[c][i]
      /\ \A i \in n + 1 .. Len(q) :
           /\ q[i].type = "lobby_allready" <=> (i = n + 2 /\ callDue)
           /\ q[i].type = "battle_synced" <=> (i = Len(q) /\ syncedDue)
  BY Broadcast
<1> HIDE DEF q, n
<1>3. \A i \in 1 .. Len(q) : i \in 1 .. n \/ i \in n + 1 .. Len(q)
  BY <1>1
<1>4. \A i \in 1 .. n : i \in 1 .. Len(q)
  BY <1>1
<1>5. /\ callDue => n + 2 \in n + 1 .. Len(q) /\ n + 2 \in 1 .. Len(q)
      /\ Len(q) \in n + 1 .. Len(q) /\ Len(q) \in 1 .. Len(q)
  BY <1>1
<1>6. 1 .. n = 1 .. Len(down[c])
  BY DEF n
<1>7. Has(q, "lobby_allready") <=> Has(down[c], "lobby_allready") \/ callDue
  BY <1>2, <1>3, <1>4, <1>5, <1>6 DEF Has
<1>8. Has(q, "battle_synced") <=> Has(down[c], "battle_synced") \/ syncedDue
  BY <1>2, <1>3, <1>4, <1>5, <1>6 DEF Has
<1>9. Once(down[c], "lobby_allready") /\ (callDue => ~Has(down[c], "lobby_allready"))
        => Once(q, "lobby_allready")
  BY <1>2, <1>3, <1>6 DEF Has, Once
<1>10. Once(down[c], "battle_synced") /\ (syncedDue => ~Has(down[c], "battle_synced"))
        => Once(q, "battle_synced")
  BY <1>2, <1>3, <1>6 DEF Has, Once
<1> QED BY <1>7, <1>8, <1>9, <1>10 DEF q

-----------------------------------------------------------------------------
(* What a client is told of its readiness.                                 *)

(* Saying the same things in the same order, some of them more than once.  *)
LEMMA SaidAgain ==
  ASSUME NEW n \in Nat, NEW m \in Nat, NEW t, NEW u, NEW f,
         \A i \in 0 .. m : f[i] \in 0 .. n,
         \A i, j \in 0 .. m : i < j => f[i] <= f[j],
         \A i \in 0 .. m : u[i] \in {"set", "clear"} => u[i] = t[f[i]]
  PROVE  /\ NeverSet(t, n) => NeverSet(u, m)
         /\ StaysClear(t, n) => StaysClear(u, m)
         /\ SetOnce(t, n) => SetOnce(u, m)
<1>1. NeverSet(t, n) => NeverSet(u, m)
  BY DEF NeverSet
<1>2. ASSUME NEW i \in 0 .. m, NEW j \in 0 .. m, i < j,
             u[i] \in {"set", "clear"}, u[j] \in {"set", "clear"}, u[i] # u[j]
      PROVE  f[i] \in 0 .. n /\ f[j] \in 0 .. n /\ f[i] < f[j]
  BY <1>2
<1>3. ASSUME StaysClear(t, n) PROVE StaysClear(u, m)
  <2> SUFFICES ASSUME NEW i \in 0 .. m, NEW j \in 0 .. m, i < j, u[i] = "clear", u[j] = "set"
               PROVE  FALSE
    BY DEF StaysClear
  <2>1. f[i] \in 0 .. n /\ f[j] \in 0 .. n /\ f[i] < f[j]
    BY <1>2
  <2> QED BY <1>3, <2>1 DEF StaysClear
<1>4. ASSUME SetOnce(t, n) PROVE SetOnce(u, m)
  <2> SUFFICES ASSUME NEW i \in 0 .. m, NEW j \in 0 .. m, NEW k \in 0 .. m, i < j, j < k,
                      u[i] = "set", u[j] = "clear", u[k] = "set"
               PROVE  FALSE
    BY DEF SetOnce
  <2>1. f[i] \in 0 .. n /\ f[j] \in 0 .. n /\ f[i] < f[j]
    BY <1>2
  <2>2. f[k] \in 0 .. n /\ f[j] < f[k]
    BY <1>2
  <2>3. t[f[i]] = "set" /\ t[f[j]] = "clear" /\ t[f[k]] = "set"
    OBVIOUS
  <2> QED BY <1>4, <2>1, <2>2, <2>3 DEF SetOnce
<1> QED BY <1>1, <1>3, <1>4

(* The last word changes, to "clear" or not at all.                        *)
LEMMA Cleared ==
  ASSUME NEW n \in Nat, NEW t, NEW u,
         \A i \in 0 .. n : i # n => u[i] = t[i], u[n] \in {t[n], "clear"}
  PROVE  /\ NeverSet(t, n) => NeverSet(u, n)
         /\ StaysClear(t, n) => StaysClear(u, n)
         /\ SetOnce(t, n) => SetOnce(u, n)
BY DEF NeverSet, StaysClear, SetOnce

LEMMA FirstSet ==
  ASSUME NEW n \in Nat, NEW t, NEW u,
         \A i \in 0 .. n : i # n => u[i] = t[i], NeverSet(t, n)
  PROVE  SetOnce(u, n)
BY DEF NeverSet, SetOnce

(* What is on its way and shown stays: the server has a new last word.     *)
LEMMA LastWord ==
  ASSUME Typed, NEW c \in Clients, view'[c] = view[c], down'[c] = down[c]
  PROVE  /\ End(c) \in Nat \ {0} /\ End(c)' = End(c)
         /\ \A i \in 0 .. End(c) : i # End(c) => Told(c)'[i] = Told(c)[i]
         /\ Told(c)[End(c)] = Mine(c, Data) /\ Told(c)'[End(c)] = Mine(c, Data)'
         /\ Told(c)[0] = Mine(c, view[c])
         /\ \A i \in 1 .. Len(down[c]) : Told(c)'[i - 1] = Told(c)[i - 1]
<1>1. Len(down[c]) \in Nat
  BY LenProperties DEF Typed
<1>2. End(c) \in Nat \ {0} /\ End(c)' = End(c) /\ End(c) = Len(down[c]) + 1
  BY <1>1 DEF End
<1>3. ASSUME NEW i \in 0 .. End(c), i # End(c) PROVE Told(c)'[i] = Told(c)[i]
  <2>1. Told(c)[i] = IF i = 0 THEN Mine(c, view[c])
          ELSE IF down[c][i].type = "data_update" THEN Mine(c, down[c][i].data) ELSE "nothing"
    BY <1>2, <1>3 DEF Told
  <2>2. Told(c)'[i] = IF i = 0 THEN Mine(c, view'[c])
          ELSE IF down'[c][i].type = "data_update" THEN Mine(c, down'[c][i].data) ELSE "nothing"
    BY <1>2, <1>3 DEF Told, Mine
  <2> QED BY <2>1, <2>2
<1>4. Told(c)[End(c)] = Mine(c, Data) /\ Told(c)[0] = Mine(c, view[c])
  BY <1>2 DEF Told
<1>5. Told(c)'[End(c)] = Mine(c, Data)'
  BY <1>2 DEF Told
<1>6. \A i \in 1 .. Len(down[c]) : i - 1 \in 0 .. End(c) /\ i - 1 # End(c)
  BY <1>1, <1>2
<1> QED BY <1>2, <1>3, <1>4, <1>5, <1>6

(* A message taken moves all that follow one place forward.                *)
LEMMA ToldDelivered ==
  ASSUME Typed, NEW c \in Clients, Deliver(c)
  PROVE  /\ End(c) \in Nat \ {0} /\ End(c)' = End(c) - 1 /\ End(c)' \in Nat \ {0}
         /\ \A i \in 1 .. End(c)' : Told(c)'[i] = Told(c)[i + 1]
         /\ Told(c)'[0] = IF Head(down[c]).type = "data_update" THEN Told(c)[1] ELSE Told(c)[0]
<1> DEFINE n == Len(down[c])
           msg == Head(down[c])
<1>1. /\ n \in Nat \ {0} /\ msg = down[c][1] /\ down'[c] = Tail(down[c])
      /\ Len(down'[c]) = n - 1 /\ \A i \in 1 .. n - 1 : down'[c][i] = down[c][i + 1]
  BY Taken DEF Deliver, Typed
<1>2. /\ UNCHANGED Data
      /\ view'[c] = IF msg.type = "data_update" THEN msg.data ELSE view[c]
  BY DEF Deliver, server, match, Data, Typed, TypeOK
<1>3. n = Len(down[c])
  OBVIOUS
<1> HIDE DEF n, msg
<1>4. End(c) = n + 1 /\ End(c)' = n
  BY <1>1, <1>3 DEF End
<1>5. ASSUME NEW i \in 1 .. n PROVE Told(c)'[i] = Told(c)[i + 1]
  <2>1. Told(c)[i + 1] = IF i = n THEN Mine(c, Data)
          ELSE IF down[c][i + 1].type = "data_update" THEN Mine(c, down[c][i + 1].data) ELSE "nothing"
    BY <1>1, <1>4 DEF Told
  <2>2. Told(c)'[i] = IF i = n THEN Mine(c, Data')
          ELSE IF down'[c][i].type = "data_update" THEN Mine(c, down'[c][i].data) ELSE "nothing"
    BY <1>1, <1>4 DEF Told, Mine
  <2>3. i # n => down'[c][i] = down[c][i + 1]
    BY <1>1
  <2> QED BY <1>2, <2>1, <2>2, <2>3
<1>6. Told(c)'[0] = Mine(c, view'[c])
  BY <1>1, <1>4 DEF Told, Mine
<1>7. /\ Told(c)[0] = Mine(c, view[c])
      /\ msg.type = "data_update" => Told(c)[1] = Mine(c, msg.data)
  BY <1>1, <1>4 DEF Told
<1> QED BY <1>1, <1>2, <1>4, <1>5, <1>6, <1>7 DEF msg

LEMMA DeliveredFlags ==
  ASSUME Typed, NEW c \in Clients, Deliver(c)
  PROVE  /\ NeverSet(Told(c), End(c)) => NeverSet(Told(c)', End(c)')
         /\ StaysClear(Told(c), End(c)) => StaysClear(Told(c)', End(c)')
         /\ SetOnce(Told(c), End(c)) => SetOnce(Told(c)', End(c)')
<1> DEFINE m == End(c)'
           t == Told(c)
           u == Told(c)'
           update == Head(down[c]).type = "data_update"
           f == [i \in 0 .. m |-> IF i = 0 THEN IF update THEN 1 ELSE 0 ELSE i + 1]
<1>1. /\ m \in Nat \ {0} /\ End(c) = m + 1
      /\ \A i \in 1 .. m : u[i] = t[i + 1]
      /\ u[0] = IF update THEN t[1] ELSE t[0]
  BY ToldDelivered
<1> HIDE DEF m, t, u, update
<1>2. \A i \in 0 .. m : f[i] \in 0 .. m + 1
  BY <1>1
<1>3. \A i, j \in 0 .. m : i < j => f[i] <= f[j]
  BY <1>1
<1>4. \A i \in 0 .. m : u[i] = t[f[i]]
  BY <1>1
<1> HIDE DEF f
<1> DEFINE n == m + 1
<1>5. n = m + 1 /\ n \in Nat /\ \A i \in 0 .. m : f[i] \in 0 .. n
  BY <1>1, <1>2
<1> HIDE DEF n
<1>6. /\ NeverSet(t, n) => NeverSet(u, m)
      /\ StaysClear(t, n) => StaysClear(u, m)
      /\ SetOnce(t, n) => SetOnce(u, m)
  <2>1. m \in Nat
    BY <1>1
  <2>2. \A i \in 0 .. m : u[i] \in {"set", "clear"} => u[i] = t[f[i]]
    BY <1>4
  <2> QED BY <1>3, <1>5, <2>1, <2>2, SaidAgain
<1>7. n = End(c)
  BY <1>1, <1>5
<1> QED BY <1>6, <1>7 DEF m, t, u

(* A broadcast repeats what the server holds.                              *)
LEMMA ToldBroadcast ==
  ASSUME Typed, NEW c \in Clients, UNCHANGED <<view, seats, ready, chara>>,
         down'[c] = down[c] \o News
  PROVE  /\ End(c) \in Nat \ {0} /\ End(c)' \in Nat \ {0} /\ End(c)' = End(c) + Len(News)
         /\ Len(News) \in 1 .. 3
         /\ \A i \in 0 .. End(c) : Told(c)'[i] = Told(c)[i]
         /\ \A i \in End(c) + 1 .. End(c)' - 1 : Told(c)'[i] = "nothing"
         /\ Told(c)'[End(c)'] = Told(c)[End(c)]
<1> DEFINE n == Len(down[c])
           k == Len(News)
<1>1. /\ n \in Nat /\ k \in 1 .. 3 /\ Len(down'[c]) = n + k
      /\ \A i \in 1 .. n : down'[c][i] = down[c][i]
      /\ down'[c][n + 1] = Update
      /\ \A i \in n + 1 .. n + k : down'[c][i].type = "data_update" <=> i = n + 1
  BY Broadcast, NewsHas, LenProperties DEF Typed
<1>2. End(c) = n + 1 /\ End(c)' = n + k + 1 /\ UNCHANGED Data
  BY <1>1 DEF End, Data
<1>3. n = Len(down[c]) /\ k = Len(News)
  OBVIOUS
<1> HIDE DEF n, k
<1>40. view'[c] = view[c]
  OBVIOUS
<1>41. Told(c)[n + 1] = Mine(c, Data)
  BY <1>1, <1>2 DEF Told
<1>42. Told(c)'[n + k + 1] = Mine(c, Data)
  <2>1. End(c)' \in Nat \ {0}
    BY <1>1, <1>2
  <2>2. Told(c)'[End(c)'] = Mine(c, Data)'
    BY <2>1 DEF Told
  <2>3. Mine(c, Data)' = Mine(c, Data)
    BY <1>2 DEF Mine
  <2> QED BY <1>2, <2>2, <2>3
<1>4. /\ Told(c)[n + 1] = Mine(c, Data)
      /\ Told(c)'[n + k + 1] = Mine(c, Data)
  BY <1>41, <1>42
<1>5. \A i \in 0 .. n : Told(c)[i] = IF i = 0 THEN Mine(c, view[c])
          ELSE IF down[c][i].type = "data_update" THEN Mine(c, down[c][i].data) ELSE "nothing"
  BY <1>1, <1>2 DEF Told
<1>6. \A i \in 0 .. n + k : Told(c)'[i] = IF i = 0 THEN Mine(c, view[c])
          ELSE IF down'[c][i].type = "data_update" THEN Mine(c, down'[c][i].data) ELSE "nothing"
  <2> SUFFICES ASSUME NEW i \in 0 .. n + k
      PROVE Told(c)'[i] = IF i = 0 THEN Mine(c, view[c])
          ELSE IF down'[c][i].type = "data_update" THEN Mine(c, down'[c][i].data) ELSE "nothing"
    OBVIOUS
  <2>1. i \in 0 .. End(c)' /\ i # End(c)'
    BY <1>1, <1>2
  <2>2. Told(c)'[i] = IF i = 0 THEN Mine(c, view'[c])
          ELSE IF down'[c][i].type = "data_update" THEN Mine(c, down'[c][i].data) ELSE "nothing"
    BY <2>1 DEF Told, Mine
  <2> QED BY <1>40, <2>2
<1>7. ASSUME NEW i \in 0 .. n PROVE Told(c)'[i] = Told(c)[i]
  <2>1. i # 0 => down'[c][i] = down[c][i]
    BY <1>1
  <2>2. i \in 0 .. n + k
    BY <1>1
  <2> QED BY <1>5, <1>6, <2>1, <2>2
<1>8. Told(c)'[n + 1] = Mine(c, Data)
  <2>1. n + 1 \in 0 .. n + k /\ n + 1 # 0 /\ n + 1 \in n + 1 .. n + k
    BY <1>1
  <2>2. down'[c][n + 1].type = "data_update" /\ down'[c][n + 1].data = Data
    BY <1>1, <2>1 DEF Update
  <2> QED BY <1>6, <2>1, <2>2
<1>9. ASSUME NEW i \in n + 2 .. n + k PROVE Told(c)'[i] = "nothing"
  <2>1. i \in 0 .. n + k /\ i # 0 /\ i \in n + 1 .. n + k /\ i # n + 1
    BY <1>1
  <2>2. down'[c][i].type # "data_update"
    BY <1>1, <2>1
  <2> QED BY <1>6, <2>1, <2>2
<1>10. /\ 0 .. End(c) = (0 .. n) \cup {n + 1} /\ End(c) + 1 .. End(c)' - 1 = n + 2 .. n + k
  BY <1>1, <1>2
<1> QED BY <1>1, <1>2, <1>3, <1>4, <1>7, <1>8, <1>9, <1>10

LEMMA BroadcastFlags ==
  ASSUME Typed, NEW c \in Clients, UNCHANGED <<view, seats, ready, chara>>,
         down'[c] = down[c] \o News
  PROVE  /\ NeverSet(Told(c), End(c)) => NeverSet(Told(c)', End(c)')
         /\ StaysClear(Told(c), End(c)) => StaysClear(Told(c)', End(c)')
         /\ SetOnce(Told(c), End(c)) => SetOnce(Told(c)', End(c)')
<1> DEFINE n == End(c)
           m == End(c)'
           t == Told(c)
           u == Told(c)'
           f == [i \in 0 .. m |-> IF i <= n THEN i ELSE n]
<1>1. /\ n \in Nat /\ m \in Nat /\ m > n
      /\ \A i \in 0 .. n : u[i] = t[i]
      /\ \A i \in n + 1 .. m - 1 : u[i] = "nothing"
      /\ u[m] = t[n]
  <2> DEFINE k == Len(News)
  <2>1. n \in Nat /\ m \in Nat /\ m = n + k /\ k \in 1 .. 3
    BY ToldBroadcast
  <2>2. /\ \A i \in 0 .. n : u[i] = t[i]
        /\ \A i \in n + 1 .. m - 1 : u[i] = "nothing"
    BY ToldBroadcast
  <2>3. u[m] = t[n]
    BY ToldBroadcast
  <2> HIDE DEF n, m, t, u, k
  <2>4. m > n
    BY <2>1
  <2> QED BY <2>1, <2>2, <2>3, <2>4
<1> HIDE DEF n, m, t, u
<1>2. \A i \in 0 .. m : f[i] \in 0 .. n
  BY <1>1
<1>3. \A i, j \in 0 .. m : i < j => f[i] <= f[j]
  BY <1>1
<1>4. \A i \in 0 .. m : u[i] \in {"set", "clear"} => u[i] = t[f[i]]
  BY <1>1
<1> HIDE DEF f
<1> QED BY <1>1, <1>2, <1>3, <1>4, SaidAgain DEF n, m, t, u

-----------------------------------------------------------------------------
(* Seats.                                                                  *)

LEMMA SeatIn ==
  ASSUME Host \in Clients, NEW q, Seating(q), NEW c \in Clients, Full(q) \/ c = Host
  PROVE  /\ SideIn(q, c) \in Sides /\ SideIn(q, c) + 1 \in 1 .. Len(q)
         /\ q[SideIn(q, c) + 1] = c
         /\ Len(q) = 2 => \A i \in 1 .. Len(q) : q[i] = c => i = SideIn(q, c) + 1
         /\ c \in ToSet(q)
<1>1. /\ q \in Seq(Clients) /\ Len(q) \in Nat /\ DOMAIN q = 1 .. Len(q)
      /\ Len(q) \in {1, 2} /\ (Len(q) = 2 => q[1] # q[2])
  BY LenProperties DEF Seating, Full
<1>2. PICK i \in 1 .. Len(q) : q[i] = c
  <2>1. CASE Full(q)
    <3>1. 1 \in 1 .. Len(q) /\ 2 \in 1 .. Len(q) /\ q[1] \in Clients /\ q[2] \in Clients
      BY <2>1, <1>1 DEF Full
    <3>2. q[1] = c \/ q[2] = c
      BY <2>1, <3>1, TwoClients DEF Full
    <3> QED BY <3>1, <3>2
  <2>2. CASE ~Full(q)
    BY <2>2, <1>1 DEF Seating
  <2> QED BY <2>1, <2>2
<1>3. c \in ToSet(q)
  BY <1>1, <1>2 DEF ToSet
<1>4. SideIn(q, c) + 1 \in 1 .. Len(q) /\ q[SideIn(q, c) + 1] = c
  BY <1>1, <1>3, SideOfMember
<1> DEFINE k == SideIn(q, c)
<1>5. k \in Int
  BY <1>2 DEF SideIn
<1> HIDE DEF k
<1>6. k \in Sides
  BY <1>1, <1>4, <1>5 DEF Sides, k
<1>7. ASSUME Len(q) = 2, NEW j \in 1 .. Len(q), q[j] = c PROVE j = SideIn(q, c) + 1
  <2>1. j \in {1, 2} /\ k + 1 \in {1, 2} /\ q[k + 1] = c
    BY <1>1, <1>4, <1>5, <1>7 DEF k
  <2> QED BY <1>1, <1>7, <2>1 DEF k
<1> QED BY <1>3, <1>4, <1>6, <1>7 DEF k

(* Two members sit in the two seats.                                       *)
LEMMA TwoSides ==
  ASSUME Host \in Clients, NEW q, Seating(q), Full(q), NEW c \in Clients
  PROVE  /\ SideIn(q, c) # SideIn(q, Other(c))
         /\ \A s \in Sides : s = SideIn(q, c) \/ s = SideIn(q, Other(c))
<1>1. /\ SideIn(q, c) \in Sides /\ SideIn(q, Other(c)) \in Sides
      /\ q[SideIn(q, c) + 1] = c /\ q[SideIn(q, Other(c)) + 1] = Other(c)
  BY SeatIn, TwoClients
<1>2. c # Other(c)
  BY TwoClients
<1> QED BY <1>1, <1>2 DEF Sides

(* Whoever is here has a seat.                                             *)
LEMMA HasSeat ==
  ASSUME Host \in Clients, Seated, NEW c \in Clients, Present(c)
  PROVE  /\ SideIn(seats, c) \in Sides /\ c \in Members
         /\ BothHere \/ (c = Host /\ ~Present(Other(c)))
         /\ BothHere <=> Present(Other(c))
<1>1. \A d \in Clients : d = c \/ d = Other(c)
  BY TwoClients
<1>2. BothHere <=> Present(Other(c))
  BY <1>1, TwoClients DEF BothHere
<1>3. BothHere \/ (c = Host /\ ~Present(Other(c)))
  BY <1>1, <1>2 DEF Seated
<1>4. Seating(seats) /\ (Full(seats) \/ c = Host)
  BY <1>3 DEF Seated
<1> QED BY <1>2, <1>3, <1>4, SeatIn DEF Members

-----------------------------------------------------------------------------
(* Whoever a step does not touch.                                          *)

Untouched(d) ==
  /\ scene'[d] = scene[d] /\ view'[d] = view[d] /\ sentReady'[d] = sentReady[d]
  /\ synced'[d] = synced[d] /\ up'[d] = up[d] /\ down'[d] = down[d]

LEMMA SameTold ==
  ASSUME NEW d, view'[d] = view[d], down'[d] = down[d], UNCHANGED <<seats, ready, chara>>
  PROVE  Told(d)' = Told(d) /\ End(d)' = End(d)
<1>1. End(d)' = End(d) /\ UNCHANGED Data
  BY DEF End, Data
<1> QED BY <1>1 DEF Told, Mine

LEMMA StillAlone ==
  ASSUME NEW d \in Clients, Untouched(d), UNCHANGED <<seats, ready, chara, callDue, syncedDue>>,
         loaded'[d] => loaded[d], Alone(d)
  PROVE  Alone(d)'
<1>1. Told(d)' = Told(d) /\ End(d)' = End(d)
  BY SameTold DEF Untouched
<1>2. Flags(d)'
  BY <1>1 DEF Alone, Flags, Untouched, Has, NeverSet, StaysClear, SetOnce
<1>3. Uplink(d)'
  BY DEF Alone, Uplink, Untouched, Has, Early, Coming, Sync
<1>4. Calls(d)'
  BY DEF Alone, Calls, Untouched, Has, Once, Coming, Sync
<1>5. Word(d)'
  BY DEF Alone, Word, Untouched, Has, Once
<1> QED BY <1>2, <1>3, <1>4, <1>5 DEF Alone

LEMMA StillEarly ==
  ASSUME NEW d, scene'[d] = scene[d], synced'[d] = synced[d], down'[d] = down[d],
         UNCHANGED <<callDue, syncedDue>>
  PROVE  Early(d)' <=> Early(d)
BY DEF Early, Coming, Sync, Has

LEMMA StillStarting ==
  ASSUME NEW d, Untouched(d), game'[d] = game[d],
         UNCHANGED <<seats, chara, callDue, syncedDue>>, Starting(d)
  PROVE  Starting(d)'
<1>1. Early(d)' <=> Early(d)
  BY StillEarly DEF Untouched
<1> QED BY <1>1 DEF Starting, Untouched, Current, CurrentFrom, InBattle

-----------------------------------------------------------------------------
(* The invariant holds at first.                                           *)

LEMMA OtherTwice ==
  ASSUME NEW c \in Clients
  PROVE  Other(Other(c)) = c
BY TwoClients

LEMMA InvInit ==
  ASSUME Host \in Clients, Init
  PROVE  Inv
<1>1. Typed
  BY TypedInit
<1>2. /\ \A c \in Clients : /\ scene[c] = "menu" /\ up[c] = <<>> /\ down[c] = <<>>
                            /\ view[c] = Data /\ ~sentReady[c] /\ ~synced[c] /\ ~loaded[c]
                            /\ loser[c] = NoSide
      /\ ~callDue /\ ~syncedDue /\ \A s \in Sides : ~ready[s]
  BY DEF Init
<1>3. Full(seats) /\ Seating(seats)
  <2> DEFINE D == 1 .. Cardinality(Clients)
  <2>1. seats \in [D -> Clients] /\ \A i, j \in D : i # j => seats[i] # seats[j]
    BY DEF Init, SetToSeqs
  <2>2. seats \in Seq(Clients) /\ Len(seats) = 2 /\ seats[1] # seats[2]
    <3>1. Cardinality(Clients) = 2
      BY GateAssumption
    <3>2. seats \in [1 .. 2 -> Clients]
      BY <2>1, <3>1, Zenon
    <3>3. seats = <<seats[1], seats[2]>>
      BY <3>2
    <3>4. seats[1] # seats[2]
      BY <2>1, <3>1
    <3>5. seats \in Seq(Clients)
      BY <1>1 DEF Typed, TypeOK, Data, DataOf
    <3> QED BY <3>3, <3>4, <3>5
  <2> QED BY <2>2 DEF Full, Seating
<1>4. \A c \in Clients : Present(c) /\ Len(up[c]) = 0 /\ Len(down[c]) = 0
                         /\ view[c].seats = seats /\ view[c].chara = chara
  BY <1>2 DEF Present, Data
<1>5. Seated
  BY <1>2, <1>3, <1>4 DEF Seated, InBattle
<1>6. ASSUME NEW c \in Clients PROVE Alone(c) /\ Starting(c) /\ Joint(c, Other(c))
  <2>1. SideIn(seats, c) \in Sides
    BY <1>3, SeatIn
  <2>2. End(c) = 1 /\ Told(c)[0] = "clear" /\ Told(c)[1] = "clear"
    <3>1. End(c) = 1
      BY <1>4 DEF End
    <3>2. Mine(c, Data) = "clear" /\ view[c] = Data
      BY <1>2, <2>1 DEF Mine, Data
    <3> QED BY <3>1, <3>2 DEF Told
  <2>3. \A type : ~Has(up[c], type) /\ ~Has(down[c], type) /\ Once(down[c], type)
    BY <1>4 DEF Has, Once
  <2>4. Flags(c)
    <3>1. \A i \in 0 .. 1 : Told(c)[i] # "set"
      BY <2>2
    <3>2. StaysClear(Told(c), End(c)) /\ SetOnce(Told(c), End(c))
      BY <2>2, <3>1 DEF StaysClear, SetOnce
    <3> QED BY <1>4, <2>3, <3>2 DEF Flags
  <2>5. ~Early(c) /\ ~Coming(c) /\ ~Sync(c)
    BY <1>2, <2>3 DEF Early, Coming, Sync
  <2>6. Alone(c)
    BY <1>2, <1>4, <2>3, <2>4, <2>5 DEF Alone, Uplink, Calls, Word
  <2>7. Starting(c)
    BY <1>2, <1>4, <2>5 DEF Starting, InBattle, CurrentFrom
  <2>8. Joint(c, Other(c))
    BY <1>2, <2>1, <2>5 DEF Joint, InBattle
  <2> QED BY <2>6, <2>7, <2>8
<1> QED BY <1>1, <1>2, <1>5, <1>6 DEF Inv

-----------------------------------------------------------------------------
(* One step.                                                               *)

(* The invariant, taken apart and put together again.                      *)
LEMMA Parts ==
  ASSUME Inv, NEW c \in Clients
  PROVE  /\ Typed /\ Seated /\ (callDue => dirty /\ AllSet) /\ (syncedDue => dirty)
         /\ Other(c) \in Clients /\ Other(c) # c
         /\ Present(c) => Alone(c)
         /\ Present(Other(c)) => Alone(Other(c))
         /\ BothHere => /\ Present(c) /\ Present(Other(c))
                        /\ Starting(c) /\ Starting(Other(c))
                        /\ Joint(c, Other(c)) /\ Joint(Other(c), c)
BY TwoClients, OtherTwice DEF Inv, BothHere

LEMMA Whole ==
  ASSUME NEW c \in Clients, Typed', Seated', (callDue => dirty /\ AllSet)', (syncedDue => dirty)',
         Present(c)' => Alone(c)', Present(Other(c))' => Alone(Other(c))',
         BothHere' => /\ Starting(c)' /\ Starting(Other(c))'
                      /\ Joint(c, Other(c))' /\ Joint(Other(c), c)'
  PROVE  Inv'
<1>1. \A d \in Clients : d = c \/ d = Other(c)
  BY TwoClients
<1>2. \A d \in Clients : Present(d)' => Alone(d)'
  BY <1>1
<1>3. BothHere' => \A d \in Clients : Starting(d)' /\ Joint(d, Other(d))'
  BY <1>1, OtherTwice
<1> QED BY <1>2, <1>3 DEF Inv

LEMMA SentHas ==
  ASSUME Typed, NEW c \in Clients, NEW msg \in UpMsg, Send(c, msg)
  PROVE  /\ \A type : Has(up'[c], type) <=> Has(up[c], type) \/ type = msg.type
         /\ Len(up[c]) \in Nat /\ Len(up'[c]) = Len(up[c]) + 1
         /\ \A i \in 1 .. Len(up[c]) : up'[c][i] = up[c][i]
         /\ up'[c][Len(up[c]) + 1] = msg
         /\ \A d \in Clients : d # c => up'[d] = up[d]
<1>1. /\ up' = [up EXCEPT ![c] = up'[c]]
      /\ Len(up[c]) \in Nat /\ Len(up'[c]) = Len(up[c]) + 1
      /\ \A i \in 1 .. Len(up[c]) : up'[c][i] = up[c][i]
      /\ up'[c][Len(up[c]) + 1] = msg
  BY Sent
<1>2. \A type : Has(up'[c], type) <=> Has(up[c], type) \/ type = msg.type
  <2> DEFINE q == up[c]
             r == up'[c]
  <2>1. /\ Len(q) \in Nat /\ Len(r) = Len(q) + 1
        /\ \A i \in 1 .. Len(q) : r[i] = q[i]
        /\ r[Len(q) + 1] = msg
    BY <1>1
  <2> HIDE DEF q, r
  <2>2. \A type : Has(r, type) <=> Has(q, type) \/ type = msg.type
    BY <2>1, HasSent
  <2> QED BY <2>2 DEF q, r
<1>3. \A d \in Clients : d # c => up'[d] = up[d]
  BY <1>1 DEF Typed
<1> QED BY <1>1, <1>2, <1>3

LEMMA StillSeated ==
  ASSUME Seated, UNCHANGED <<seats, view, down>>,
         \A e \in Clients : Present(e)' <=> Present(e),
         \A e \in Clients : ~Present(e) => up'[e] = up[e],
         \A e \in Clients : BothHere /\ InBattle(e)' => Full(game'[e].seats),
         Host \in Clients
  PROVE  Seated' /\ (BothHere' <=> BothHere)
<1>1. BothHere' <=> BothHere
  BY DEF BothHere
<1>2. /\ Present(Host)' /\ Seating(seats)'
      /\ (BothHere => Full(seats))'
  BY <1>1 DEF Seated
<1>3. ASSUME NEW c \in Clients
      PROVE  /\ ~Present(c)' => up'[c] = <<>>
             /\ Present(c)' =>
                  /\ Seating(view'[c].seats)
                  /\ \A i \in 1 .. Len(down'[c]) :
                       down'[c][i].type = "data_update" => Seating(down'[c][i].data.seats)
             /\ BothHere' =>
                  /\ Full(view'[c].seats) /\ (InBattle(c)' => Full(game'[c].seats))
                  /\ \A i \in 1 .. Len(down'[c]) :
                       down'[c][i].type = "data_update" => Full(down'[c][i].data.seats)
  BY <1>1 DEF Seated
<1> QED BY <1>1, <1>2, <1>3 DEF Seated

(* A step of one client leaves the other one as it was.                    *)
LEMMA OtherStays ==
  ASSUME Inv, NEW c \in Clients, Untouched(Other(c)), game'[Other(c)] = game[Other(c)],
         UNCHANGED <<seats, ready, chara, callDue, syncedDue>>,
         loaded'[Other(c)] => loaded[Other(c)]
  PROVE  /\ Present(Other(c))' <=> Present(Other(c))
         /\ Present(Other(c))' => Alone(Other(c))'
         /\ BothHere => Starting(Other(c))'
         /\ Early(Other(c))' <=> Early(Other(c))
         /\ AllSet' <=> AllSet
<1>1. Other(c) \in Clients
  BY TwoClients
<1>2. Present(Other(c))' <=> Present(Other(c))
  BY DEF Present, Untouched
<1>3. Present(Other(c)) => Alone(Other(c))'
  BY <1>1, Parts, StillAlone
<1>4. BothHere => Starting(Other(c))'
  BY <1>1, Parts, StillStarting
<1>5. Early(Other(c))' <=> Early(Other(c))
  BY <1>1, StillEarly DEF Untouched
<1>6. AllSet' <=> AllSet
  BY DEF AllSet
<1> QED BY <1>2, <1>3, <1>4, <1>5, <1>6

(* What the server holds for a client is the last it is told.              *)
LEMMA OwnFlag ==
  ASSUME Typed, NEW c \in Clients
  PROVE  /\ End(c) \in Nat \ {0} /\ Len(down[c]) \in Nat /\ End(c) = Len(down[c]) + 1
         /\ Told(c)[0] = Mine(c, view[c]) /\ Told(c)[End(c)] = Mine(c, Data)
         /\ Shown(c) <=> Told(c)[0] = "set"
         /\ ~Shown(c) <=> Told(c)[0] = "clear"
         /\ ready[SideIn(seats, c)] <=> Told(c)[End(c)] = "set"
<1>1. Len(down[c]) \in Nat /\ End(c) = Len(down[c]) + 1
  BY LenProperties DEF Typed, End
<1>2. Told(c)[0] = Mine(c, view[c]) /\ Told(c)[End(c)] = Mine(c, Data)
  BY <1>1 DEF Told
<1>3. Shown(c) <=> view[c].ready[SideIn(view[c].seats, c)]
  BY DEF Shown, MySide
<1> QED BY <1>1, <1>2, <1>3 DEF Mine, Data

-----------------------------------------------------------------------------
(* The lobby screen.                                                       *)

LEMMA PressReadyKeeps ==
  ASSUME Host \in Clients, Patient, Inv, NEW c \in Clients, NEW pick \in Picks, PressReady(c, pick)
  PROVE  Inv'
<1> DEFINE d == Other(c)
           t == Told(c)
           n == End(c)
<1>0. d \in Clients /\ d # c
  BY TwoClients
<1>1. /\ scene[c] = "menu" /\ ~sentReady[c] /\ ~Shown(c) /\ Send(c, Ready(pick))
      /\ sentReady' = [sentReady EXCEPT ![c] = TRUE]
      /\ UNCHANGED <<seats, ready, chara, loaded, dirty, callDue, syncedDue>>
      /\ UNCHANGED <<down, scene, view, synced, game, running, loser>>
  BY DEF PressReady, server, match, due, battle
<1>2. Present(c) /\ Alone(c) /\ Typed /\ Seated
  BY <1>1, Parts DEF Present
<1> DEFINE msg == Ready(pick)
<1>3. msg \in UpMsg /\ msg.type = "ready" /\ Send(c, msg)
  BY <1>1 DEF UpMsg, Ready
<1> HIDE DEF msg
<1>4. /\ \A type : Has(up'[c], type) <=> Has(up[c], type) \/ type = "ready"
      /\ Len(up[c]) \in Nat /\ Len(up'[c]) = Len(up[c]) + 1
      /\ \A i \in 1 .. Len(up[c]) : up'[c][i] = up[c][i]
      /\ up'[d] = up[d]
  BY <1>0, <1>2, <1>3, SentHas
<1>5. t' = t /\ n' = n /\ n \in Nat \ {0} /\ n = Len(down[c]) + 1 /\ Len(down[c]) \in Nat
  BY <1>1, <1>2, SameTold, OwnFlag
<1>6. NeverSet(t, n) /\ SetOnce(t, n)
  <2>1. t[0] = "clear" /\ StaysClear(t, n) /\ SetOnce(t, n)
    BY <1>1, <1>2, OwnFlag DEF Alone, Flags
  <2> HIDE DEF t, n
  <2>2. \A i \in 0 .. n : i # 0 => t[i] # "set"
    BY <1>5, <2>1 DEF StaysClear
  <2> QED BY <2>1, <2>2 DEF NeverSet
<1>7. /\ ~ready[SideIn(seats, c)] /\ ~AllSet
      /\ ~Has(down[c], "lobby_allready")
  <2>1. ~ready[SideIn(seats, c)]
    <3>1. t[n] # "set"
      BY <1>5, <1>6 DEF NeverSet
    <3> QED BY <1>2, <3>1, OwnFlag
  <2>2. SideIn(seats, c) \in Sides
    BY <1>2, HasSeat
  <2>3. ASSUME NEW i \in 1 .. Len(down[c]), down[c][i].type = "lobby_allready" PROVE FALSE
    <3>1. t[i - 1] = "set"
      BY <1>2, <2>3 DEF Alone, Flags
    <3>2. i - 1 \in 0 .. n
      BY <1>5
    <3> QED BY <1>6, <3>1, <3>2 DEF NeverSet
  <2> QED BY <2>1, <2>2, <2>3 DEF AllSet, Has
<1>8. ~Coming(c) /\ ~Early(c) /\ ~Coming(c)' /\ ~Early(c)' /\ ~callDue
  <2>1. ~callDue
    BY <1>7, Parts
  <2>2. ~Coming(c) /\ ~Early(c)
    BY <1>1, <1>7, <2>1 DEF Coming, Early
  <2> QED BY <1>1, <2>1, <2>2 DEF Coming, Early, Has
<1>9. ~Has(up[c], "ready") /\ ~Has(up[c], "battle_loaded")
  BY <1>1, <1>2 DEF Alone, Flags, Calls
<1>10. Typed'
  BY <1>2, TypedNext DEF Next
<1>11. Untouched(d)
  BY <1>0, <1>1, <1>2, <1>4 DEF Untouched, Typed, TypeOK
<1>12. /\ Present(d)' => Alone(d)'
       /\ BothHere => Starting(d)'
       /\ Early(d)' <=> Early(d)
       /\ AllSet' <=> AllSet
  BY <1>1, <1>11, OtherStays
<1>13. Seated' /\ (BothHere' <=> BothHere)
  <2>1. \A e \in Clients : ~Present(e) => up'[e] = up[e]
    BY <1>2, <1>3, <1>1, SentHas
  <2>2. \A e \in Clients : BothHere /\ InBattle(e)' => Full(game'[e].seats)
    BY <1>1, <1>2 DEF Seated, InBattle
  <2>3. \A e \in Clients : Present(e)' <=> Present(e)
    BY <1>1 DEF Present
  <2> QED BY <1>1, <1>2, <2>1, <2>2, <2>3, StillSeated
<1>14. Alone(c)'
  <2>1. Flags(c)'
    <3>1. SetOnce(t', n') /\ NeverSet(t', n')
      BY <1>5, <1>6
    <3>2. sentReady'[c] /\ scene'[c] = "menu"
      BY <1>1, <1>2 DEF Typed, TypeOK
    <3>3. \A i \in 1 .. Len(down'[c]) : down'[c][i].type # "lobby_allready"
      BY <1>1, <1>7 DEF Has
    <3> QED BY <3>1, <3>2, <3>3 DEF Flags
  <2>2. Uplink(c)'
    <3>1. \A i \in 1 .. Len(up[c]) : up[c][i].type \notin {"ready", "battle_loaded"}
      BY <1>9 DEF Has
    <3>2. ASSUME NEW i \in 1 .. Len(up'[c]), up'[c][i].type \in {"ready", "battle_loaded"}
          PROVE  i = Len(up'[c])
      <4>1. i \notin 1 .. Len(up[c])
        BY <1>4, <3>1, <3>2
      <4> QED BY <1>4, <4>1
    <3> QED BY <1>8, <3>2 DEF Uplink
  <2>3. Calls(c)'
    <3>1. ~Has(up'[c], "battle_loaded")
      BY <1>4, <1>9
    <3>2. Once(down[c], "lobby_allready") /\ (c = Host /\ loaded[c] => scene[c] \in {"gate", "battle"})
      BY <1>2 DEF Alone, Calls
    <3> QED BY <1>1, <1>8, <3>1, <3>2 DEF Calls, Once
  <2>4. Word(c)'
    BY <1>1, <1>2 DEF Alone, Word, Has, Once
  <2> QED BY <2>1, <2>2, <2>3, <2>4 DEF Alone
<1>15. ASSUME BothHere PROVE Starting(c)' /\ Joint(c, d)' /\ Joint(d, c)'
  <2>1. Starting(c) /\ Joint(c, d) /\ Joint(d, c)
    BY <1>15, Parts
  <2>2. Starting(c)'
    BY <1>1, <1>8, <2>1 DEF Starting, Current, CurrentFrom, InBattle
  <2>3. Joint(c, d)'
    BY <1>1, <1>7, <1>8, <1>12, <2>1 DEF Joint, InBattle
  <2>4. Joint(d, c)'
    BY <1>1, <1>4, <1>8, <1>12, <2>1 DEF Joint, InBattle
  <2> QED BY <2>2, <2>3, <2>4
<1>16. (callDue => dirty /\ AllSet)' /\ (syncedDue => dirty)'
  BY <1>1, <1>8, Parts
<1> QED BY <1>0, <1>10, <1>12, <1>13, <1>14, <1>15, <1>16, Whole

LEMMA PressBackKeeps ==
  ASSUME Host \in Clients, Patient, Inv, NEW c \in Clients, PressBack(c)
  PROVE  Inv'
<1> DEFINE d == Other(c)
           t == Told(c)
           n == End(c)
<1>0. d \in Clients /\ d # c
  BY TwoClients
<1>1. /\ scene[c] = "menu" /\ sentReady[c] /\ Shown(c) /\ Send(c, Unready)
      /\ sentReady' = [sentReady EXCEPT ![c] = FALSE]
      /\ UNCHANGED <<seats, ready, chara, loaded, dirty, callDue, syncedDue>>
      /\ UNCHANGED <<down, scene, view, synced, game, running, loser>>
  BY DEF PressBack, server, match, due, battle
<1>2. Present(c) /\ Alone(c) /\ Typed /\ Seated
  BY <1>1, Parts DEF Present
<1>3. Unready \in UpMsg
  BY DEF UpMsg
<1>4. /\ \A type : Has(up'[c], type) <=> Has(up[c], type) \/ type = "unready"
      /\ Len(up[c]) \in Nat /\ Len(up'[c]) = Len(up[c]) + 1
      /\ \A i \in 1 .. Len(up[c]) : up'[c][i] = up[c][i]
      /\ up'[c][Len(up[c]) + 1].type = "unready" /\ up'[d] = up[d]
  BY <1>0, <1>1, <1>2, <1>3, SentHas DEF Unready
<1>5. t' = t /\ n' = n /\ n \in Nat \ {0}
  BY <1>1, <1>2, SameTold, OwnFlag
<1>6. StaysClear(t, n) /\ SetOnce(t, n) /\ ~NeverSet(t, n)
  <2>1. t[0] = "set" /\ SetOnce(t, n)
    BY <1>1, <1>2, OwnFlag DEF Alone, Flags
  <2> HIDE DEF t, n
  <2>2. 0 \in 0 .. n
    BY <1>5
  <2>3. StaysClear(t, n)
    BY <2>1, <2>2 DEF StaysClear, SetOnce
  <2> QED BY <2>1, <2>2, <2>3 DEF NeverSet
<1>7. ~Has(up[c], "ready") /\ ~Has(up[c], "battle_loaded")
  BY <1>1, <1>2, <1>6 DEF Alone, Flags, Calls
<1>8. Early(c)' <=> Early(c)
  BY <1>1, StillEarly
<1>10. Typed'
  BY <1>2, TypedNext DEF Next
<1>11. Untouched(d)
  BY <1>0, <1>1, <1>2, <1>4 DEF Untouched, Typed, TypeOK
<1>12. /\ Present(d)' => Alone(d)'
       /\ BothHere => Starting(d)'
       /\ Early(d)' <=> Early(d)
       /\ AllSet' <=> AllSet
  BY <1>1, <1>11, OtherStays
<1>13. Seated' /\ (BothHere' <=> BothHere)
  <2>1. \A e \in Clients : ~Present(e) => up'[e] = up[e]
    BY <1>2, <1>3, <1>1, SentHas
  <2>2. \A e \in Clients : BothHere /\ InBattle(e)' => Full(game'[e].seats)
    BY <1>1, <1>2 DEF Seated, InBattle
  <2>3. \A e \in Clients : Present(e)' <=> Present(e)
    BY <1>1 DEF Present
  <2> QED BY <1>1, <1>2, <2>1, <2>2, <2>3, StillSeated
<1>14. Alone(c)'
  <2>1. Flags(c)'
    <3>1. StaysClear(t', n') /\ SetOnce(t', n')
      BY <1>5, <1>6
    <3>2. ~Has(up'[c], "ready")
      BY <1>4, <1>7
    <3>3. \A i \in 1 .. Len(down'[c]) : down'[c][i].type = "lobby_allready" => t'[i - 1] = "set"
      BY <1>1, <1>2, <1>5 DEF Alone, Flags
    <3> QED BY <3>1, <3>2, <3>3 DEF Flags
  <2>2. Uplink(c)'
    <3>1. \A i \in 1 .. Len(up[c]) : up[c][i].type \notin {"ready", "battle_loaded"}
      BY <1>7 DEF Has
    <3>2. ASSUME NEW i \in 1 .. Len(up'[c]), up'[c][i].type \in {"ready", "battle_loaded"}
          PROVE  i = Len(up'[c])
      <4>1. i \notin 1 .. Len(up[c])
        BY <1>4, <3>1, <3>2
      <4> QED BY <1>4, <4>1
    <3>3. Early(c)' => ~Has(up'[c], "ready") /\ ~Has(up'[c], "report_results")
      BY <1>2, <1>4, <1>8 DEF Alone, Uplink
    <3> QED BY <3>2, <3>3 DEF Uplink
  <2>3. Calls(c)'
    <3>1. ~Has(up'[c], "battle_loaded")
      BY <1>4, <1>7
    <3> QED BY <1>1, <1>2, <3>1 DEF Alone, Calls, Once, Coming, Sync, Has
  <2>4. Word(c)'
    BY <1>1, <1>2 DEF Alone, Word, Has, Once
  <2> QED BY <2>1, <2>2, <2>3, <2>4 DEF Alone
<1>15. ASSUME BothHere PROVE Starting(c)' /\ Joint(c, d)' /\ Joint(d, c)'
  <2>1. Starting(c) /\ Joint(c, d) /\ Joint(d, c)
    BY <1>15, Parts
  <2>2. Starting(c)'
    BY <1>1, <1>8, <2>1 DEF Starting, Current, CurrentFrom, InBattle
  <2>3. ready[SideIn(seats, c)] /\ ~AllSet => \A i \in 1 .. Len(up'[c]) : up'[c][i].type = "unready"
    <3>1. ASSUME ready[SideIn(seats, c)], ~AllSet, NEW i \in 1 .. Len(up'[c])
          PROVE  up'[c][i].type = "unready"
      <4>1. i \in 1 .. Len(up[c]) => up'[c][i].type = "unready"
        BY <1>4, <2>1, <3>1 DEF Joint
      <4>2. i \notin 1 .. Len(up[c]) => i = Len(up[c]) + 1
        BY <1>4
      <4> QED BY <1>4, <4>1, <4>2
    <3> QED BY <3>1
  <2>4. Joint(c, d)'
    BY <1>1, <1>8, <1>12, <2>1, <2>3 DEF Joint, InBattle
  <2>5. Joint(d, c)'
    BY <1>1, <1>4, <1>8, <1>12, <2>1 DEF Joint, InBattle
  <2> QED BY <2>2, <2>4, <2>5
<1>16. (callDue => dirty /\ AllSet)' /\ (syncedDue => dirty)'
  BY <1>1, <1>12, Parts
<1> QED BY <1>0, <1>10, <1>12, <1>13, <1>14, <1>15, <1>16, Whole

-----------------------------------------------------------------------------
(* The battle.                                                             *)

LEMMA LoadBattleKeeps ==
  ASSUME Host \in Clients, Inv, NEW c \in Clients, LoadBattle(c)
  PROVE  Inv'
<1> DEFINE d == Other(c)
<1>0. d \in Clients /\ d # c /\ \A e \in Clients : e = c \/ e = d
  BY TwoClients
<1>1. /\ scene[c] = "called" /\ scene' = [scene EXCEPT ![c] = "loading"]
      /\ game' = [game EXCEPT ![c] = [seats |-> view[c].seats, chara |-> view[c].chara]]
      /\ UNCHANGED <<seats, ready, chara, loaded, dirty, callDue, syncedDue>>
      /\ UNCHANGED <<up, down, view, sentReady, synced, running, loser>>
  BY DEF LoadBattle, server, match, due
<1>2. Present(c) /\ Alone(c) /\ Typed /\ Seated
  BY <1>1, Parts DEF Present
<1>3. /\ scene'[c] = "loading" /\ scene'[d] = scene[d] /\ game'[d] = game[d]
      /\ game'[c].seats = view[c].seats /\ game'[c].chara = view[c].chara
      /\ game[d] = [seats |-> game[d].seats, chara |-> game[d].chara]
      /\ game'[c] = [seats |-> game'[c].seats, chara |-> game'[c].chara]
  BY <1>0, <1>1, <1>2 DEF Typed, TypeOK, GameOf
<1>4. Early(c) /\ Early(c)' /\ ~Coming(c) /\ ~Coming(c)' /\ ~Sync(c) /\ ~Sync(c)'
  BY <1>1, <1>2, <1>3 DEF Early, Coming, Sync, Alone, Calls, Has
<1>5. Typed'
  BY <1>2, TypedNext DEF Next
<1>6. Untouched(d)
  BY <1>1, <1>3 DEF Untouched
<1>7. /\ Present(d)' => Alone(d)'
      /\ BothHere => Starting(d)'
      /\ Early(d)' <=> Early(d)
      /\ AllSet' <=> AllSet
  BY <1>1, <1>3, <1>6, OtherStays
<1>8. Seated' /\ (BothHere' <=> BothHere)
  <2>1. \A e \in Clients : Present(e)' <=> Present(e)
    BY <1>0, <1>1, <1>3 DEF Present
  <2>2. ASSUME NEW e \in Clients, BothHere, InBattle(e)' PROVE Full(game'[e].seats)
    <3>1. CASE e = c
      BY <1>2, <1>3, <2>2, <3>1 DEF Seated
    <3>2. CASE e = d
      BY <1>2, <1>3, <2>2, <3>2 DEF Seated, InBattle
    <3> QED BY <1>0, <3>1, <3>2
  <2> QED BY <1>1, <1>2, <2>1, <2>2, StillSeated
<1>9. Alone(c)'
  <2>1. Told(c)' = Told(c) /\ End(c)' = End(c)
    BY <1>1, SameTold
  <2>2. Flags(c)'
    BY <1>1, <1>2, <1>3, <2>1 DEF Alone, Flags, Has, NeverSet, StaysClear, SetOnce
  <2>3. Uplink(c)'
    BY <1>1, <1>2, <1>4 DEF Alone, Uplink, Has
  <2>4. Calls(c)'
    BY <1>1, <1>2, <1>3, <1>4 DEF Alone, Calls, Has, Once
  <2>5. Word(c)'
    BY <1>1, <1>2, <1>3 DEF Alone, Word, Has, Once
  <2> QED BY <2>2, <2>3, <2>4, <2>5 DEF Alone
<1>10. ASSUME BothHere PROVE Starting(c)' /\ Joint(c, d)' /\ Joint(d, c)'
  <2>1. Starting(c) /\ Starting(d) /\ Joint(c, d) /\ Joint(d, c) /\ Early(d) /\ AllSet
    BY <1>4, <1>10, Parts DEF Joint
  <2>2. game'[c].seats = seats /\ game'[c].chara = chara
    BY <1>1, <1>3, <2>1 DEF Starting, Current
  <2>3. Starting(c)'
    BY <1>1, <1>3, <1>4, <2>2 DEF Starting, Coming, Has, Current
  <2>4. InBattle(d) => game'[c] = game'[d]
    BY <1>1, <1>3, <2>1, <2>2 DEF Starting, Current
  <2>5. Joint(c, d)'
    <3>1. loser[c] = NoSide /\ ~loaded[c]
      BY <1>1, <1>2, <2>1 DEF Joint, Alone, Calls
    <3> QED BY <1>1, <1>3, <1>7, <2>1, <2>4, <3>1 DEF Joint, InBattle
  <2>6. Joint(d, c)'
    <3>1. loser[d] = NoSide /\ ~(scene[d] = "gate" /\ ~Early(d))
      BY <1>1, <2>1 DEF Joint
    <3>2. loaded[d] => scene[d] = "gate" \/ (Host = d /\ scene[d] \in {"gate", "battle"})
      BY <1>0, <1>1, <2>1 DEF Joint
    <3> QED BY <1>1, <1>3, <1>4, <1>7, <2>1, <2>4, <3>1, <3>2 DEF Joint, InBattle
  <2> QED BY <2>3, <2>5, <2>6
<1>11. (callDue => dirty /\ AllSet)' /\ (syncedDue => dirty)'
  BY <1>1, <1>7, Parts
<1> QED BY <1>0, <1>5, <1>7, <1>8, <1>9, <1>10, <1>11, Whole

LEMMA FinishLoadingKeeps ==
  ASSUME Host \in Clients, Inv, NEW c \in Clients, FinishLoading(c)
  PROVE  Inv'
<1> DEFINE d == Other(c)
<1>0. d \in Clients /\ d # c /\ \A e \in Clients : e = c \/ e = d
  BY TwoClients
<1>1. /\ scene[c] = "loading" /\ Send(c, Loaded)
      /\ scene' = [scene EXCEPT ![c] = IF synced[c] THEN "battle" ELSE "gate"]
      /\ UNCHANGED <<seats, ready, chara, loaded, dirty, callDue, syncedDue>>
      /\ UNCHANGED <<down, view, sentReady, synced, game, running, loser>>
  BY DEF FinishLoading, server, match, due, battle
<1>2. Present(c) /\ Alone(c) /\ Typed /\ Seated
  BY <1>1, Parts DEF Present
<1>3. Loaded \in UpMsg
  BY DEF UpMsg
<1>4. /\ \A type : Has(up'[c], type) <=> Has(up[c], type) \/ type = "battle_loaded"
      /\ Len(up[c]) \in Nat /\ Len(up'[c]) = Len(up[c]) + 1
      /\ \A i \in 1 .. Len(up[c]) : up'[c][i] = up[c][i]
      /\ up'[d] = up[d]
  BY <1>0, <1>1, <1>2, <1>3, SentHas DEF Loaded
<1>5. ~Coming(c) /\ ~Sync(c) /\ Early(c) /\ ~Has(up[c], "ready") /\ ~Has(up[c], "battle_loaded")
      /\ ~Has(up[c], "report_results") /\ ~loaded[c] /\ ~synced[c]
  BY <1>1, <1>2 DEF Alone, Flags, Calls, Uplink, Early, Sync
<1>6. scene'[c] = "gate" /\ scene'[d] = scene[d]
  BY <1>0, <1>1, <1>2, <1>5 DEF Typed, TypeOK
<1>7. ~Coming(c)' /\ ~Sync(c)' /\ Early(c)'
  BY <1>1, <1>5, <1>6 DEF Coming, Sync, Early
<1>8. Typed'
  BY <1>2, TypedNext DEF Next
<1>9. Untouched(d)
  BY <1>1, <1>4, <1>6 DEF Untouched
<1>10. /\ Present(d)' => Alone(d)'
       /\ BothHere => Starting(d)'
       /\ Early(d)' <=> Early(d)
       /\ AllSet' <=> AllSet
  BY <1>1, <1>9, OtherStays
<1>11. Seated' /\ (BothHere' <=> BothHere)
  <2>1. \A e \in Clients : Present(e)' <=> Present(e)
    BY <1>0, <1>1, <1>6 DEF Present
  <2>2. \A e \in Clients : ~Present(e) => up'[e] = up[e]
    BY <1>1, <1>2, <1>3, SentHas
  <2>3. \A e \in Clients : InBattle(e)' => InBattle(e)
    BY <1>0, <1>1, <1>6 DEF InBattle
  <2>4. \A e \in Clients : BothHere /\ InBattle(e)' => Full(game'[e].seats)
    BY <1>1, <1>2, <2>3 DEF Seated
  <2> QED BY <1>1, <1>2, <2>1, <2>2, <2>4, StillSeated
<1>12. Alone(c)'
  <2>1. Told(c)' = Told(c) /\ End(c)' = End(c)
    BY <1>1, SameTold
  <2>2. Flags(c)'
    <3>1. /\ SetOnce(Told(c)', End(c)') /\ StaysClear(Told(c)', End(c)')
          /\ \A i \in 1 .. Len(down'[c]) : down'[c][i].type = "lobby_allready" => Told(c)'[i - 1] = "set"
      BY <1>1, <1>2, <2>1 DEF Alone, Flags
    <3>2. ~Has(up'[c], "ready")
      BY <1>4, <1>5
    <3> QED BY <3>1, <3>2 DEF Flags
  <2>3. Uplink(c)'
    <3>1. \A i \in 1 .. Len(up[c]) : up[c][i].type \notin {"ready", "battle_loaded"}
      BY <1>5 DEF Has
    <3>2. ASSUME NEW i \in 1 .. Len(up'[c]), up'[c][i].type \in {"ready", "battle_loaded"}
          PROVE  i = Len(up'[c])
      <4>1. i \notin 1 .. Len(up[c])
        BY <1>4, <3>1, <3>2
      <4> QED BY <1>4, <4>1
    <3> QED BY <1>4, <1>5, <3>2 DEF Uplink
  <2>4. Calls(c)'
    <3>1. Once(down[c], "lobby_allready")
      BY <1>2 DEF Alone, Calls
    <3> QED BY <1>1, <1>5, <1>6, <1>7, <3>1 DEF Calls, Once, Coming
  <2>5. Word(c)'
    BY <1>1, <1>2, <1>5, <1>6 DEF Alone, Word, Has, Once, Sync
  <2> QED BY <2>2, <2>3, <2>4, <2>5 DEF Alone
<1>13. ASSUME BothHere PROVE Starting(c)' /\ Joint(c, d)' /\ Joint(d, c)'
  <2>1. Starting(c) /\ Joint(c, d) /\ Joint(d, c) /\ Early(d) /\ AllSet
    BY <1>5, <1>13, Parts DEF Joint
  <2>2. Starting(c)'
    BY <1>1, <1>5, <1>6, <2>1 DEF Starting, Current, CurrentFrom, InBattle, Coming, Has
  <2>3. Joint(c, d)'
    <3>1. loser[c] = NoSide
      BY <1>1, <2>1 DEF Joint
    <3> QED BY <1>1, <1>5, <1>6, <1>7, <1>10, <2>1, <3>1 DEF Joint, InBattle
  <2>4. Joint(d, c)'
    <3>1. loser[d] = NoSide
      BY <1>1, <2>1 DEF Joint
    <3>2. loaded[d] => scene[d] = "gate" \/ (Host = d /\ scene[d] \in {"gate", "battle"})
      BY <1>0, <1>1, <2>1 DEF Joint
    <3>3. ready[SideIn(seats, d)] /\ ~AllSet => FALSE
      BY <2>1
    <3> QED BY <1>1, <1>6, <1>7, <1>10, <2>1, <3>1, <3>2, <3>3 DEF Joint, InBattle
  <2> QED BY <2>2, <2>3, <2>4
<1>14. (callDue => dirty /\ AllSet)' /\ (syncedDue => dirty)'
  BY <1>1, <1>10, Parts
<1> QED BY <1>0, <1>8, <1>10, <1>11, <1>12, <1>13, <1>14, Whole

LEMMA PassGateKeeps ==
  ASSUME Host \in Clients, Inv, NEW c \in Clients, PassGate(c)
  PROVE  Inv'
<1> DEFINE d == Other(c)
<1>0. d \in Clients /\ d # c /\ \A e \in Clients : e = c \/ e = d
  BY TwoClients
<1>1. /\ scene[c] = "gate" /\ synced[c] /\ scene' = [scene EXCEPT ![c] = "battle"]
      /\ UNCHANGED <<seats, ready, chara, loaded, dirty, callDue, syncedDue>>
      /\ UNCHANGED <<up, down, view, sentReady, synced, game, running, loser>>
  BY DEF PassGate, server, match, due, battle
<1>2. Present(c) /\ Alone(c) /\ Typed /\ Seated
  BY <1>1, Parts DEF Present
<1>3. scene'[c] = "battle" /\ scene'[d] = scene[d]
  BY <1>0, <1>1, <1>2 DEF Typed, TypeOK
<1>4. ~Coming(c) /\ ~Early(c) /\ ~Has(up[c], "battle_loaded") /\ ~syncedDue
      /\ ~Has(down[c], "battle_synced")
  BY <1>1, <1>2 DEF Alone, Calls, Word, Early, Sync
<1>5. ~Coming(c)' /\ ~Early(c)'
  BY <1>1, <1>3, <1>4 DEF Coming, Early
<1>6. Typed'
  BY <1>2, TypedNext DEF Next
<1>7. Untouched(d)
  BY <1>1, <1>3 DEF Untouched
<1>8. /\ Present(d)' => Alone(d)'
      /\ BothHere => Starting(d)'
      /\ Early(d)' <=> Early(d)
      /\ AllSet' <=> AllSet
  BY <1>1, <1>7, OtherStays
<1>9. Seated' /\ (BothHere' <=> BothHere)
  <2>1. \A e \in Clients : (Present(e)' <=> Present(e)) /\ (InBattle(e)' => InBattle(e))
    BY <1>0, <1>1, <1>3 DEF Present, InBattle
  <2>2. \A e \in Clients : BothHere /\ InBattle(e)' => Full(game'[e].seats)
    BY <1>1, <1>2, <2>1 DEF Seated
  <2> QED BY <1>1, <1>2, <2>1, <2>2, StillSeated
<1>10. Alone(c)'
  <2>1. Told(c)' = Told(c) /\ End(c)' = End(c)
    BY <1>1, SameTold
  <2>2. Flags(c)'
    BY <1>1, <1>2, <1>3, <2>1 DEF Alone, Flags, Has, NeverSet, StaysClear, SetOnce
  <2>3. Uplink(c)'
    BY <1>1, <1>2, <1>5 DEF Alone, Uplink, Has
  <2>4. Calls(c)'
    <3>1. ~Has(up'[c], "battle_loaded") /\ Once(down'[c], "lobby_allready")
      BY <1>1, <1>2, <1>4 DEF Alone, Calls
    <3> QED BY <1>3, <1>5, <3>1 DEF Calls, Coming
  <2>5. Word(c)'
    BY <1>1, <1>2, <1>3, <1>4 DEF Alone, Word, Has, Once
  <2> QED BY <2>2, <2>3, <2>4, <2>5 DEF Alone
<1>11. ASSUME BothHere PROVE Starting(c)' /\ Joint(c, d)' /\ Joint(d, c)'
  <2>1. Starting(c) /\ Joint(c, d) /\ Joint(d, c) /\ ~Early(d) /\ scene[d] \in {"gate", "battle"}
    BY <1>1, <1>4, <1>11, Parts DEF Joint
  <2>2. Starting(c)'
    BY <1>1, <1>3, <1>4, <1>5, <2>1 DEF Starting, Coming, Has
  <2>3. scene'[Host] \in {"gate", "battle"}
    BY <1>0, <1>1, <1>3, <2>1
  <2>4. Joint(c, d)'
    <3>1. loser[c] = NoSide /\ ~(ready[SideIn(seats, c)] /\ ~AllSet)
      BY <1>1, <2>1 DEF Joint
    <3> QED BY <1>1, <1>3, <1>5, <1>8, <2>1, <2>3, <3>1 DEF Joint, InBattle
  <2>5. Joint(d, c)'
    <3>1. loser[d] = NoSide
      BY <1>1, <2>1 DEF Joint
    <3> QED BY <1>1, <1>3, <1>5, <1>8, <2>1, <2>3, <3>1 DEF Joint, InBattle
  <2> QED BY <2>2, <2>4, <2>5
<1>12. (callDue => dirty /\ AllSet)' /\ (syncedDue => dirty)'
  BY <1>1, <1>8, Parts
<1> QED BY <1>0, <1>6, <1>8, <1>9, <1>10, <1>11, <1>12, Whole

LEMMA ReturnToMenuKeeps ==
  ASSUME Host \in Clients, Inv, NEW c \in Clients, ReturnToMenu(c)
  PROVE  Inv'
<1> DEFINE d == Other(c)
<1>0. d \in Clients /\ d # c /\ \A e \in Clients : e = c \/ e = d
  BY TwoClients
<1>1. /\ scene[c] = "returning" /\ scene' = [scene EXCEPT ![c] = "menu"]
      /\ sentReady' = [sentReady EXCEPT ![c] = FALSE]
      /\ loser' = [loser EXCEPT ![c] = NoSide] /\ game' = [game EXCEPT ![c] = NoGame]
      /\ UNCHANGED <<seats, ready, chara, loaded, dirty, callDue, syncedDue>>
      /\ UNCHANGED <<down, view, synced, running>>
  BY DEF ReturnToMenu, server, match, due
<1>2. Present(c) /\ Alone(c) /\ Typed /\ Seated
  BY <1>1, Parts DEF Present
<1>3. /\ scene'[c] = "menu" /\ scene'[d] = scene[d] /\ ~sentReady'[c] /\ sentReady'[d] = sentReady[d]
      /\ loser'[c] = NoSide /\ loser'[d] = loser[d] /\ game'[d] = game[d]
  BY <1>0, <1>1, <1>2 DEF Typed, TypeOK
<1>4. /\ \A type : type \in {"ready", "battle_loaded"} => (Has(up'[c], type) <=> Has(up[c], type))
      /\ \A e \in Clients : e # c => up'[e] = up[e]
  <2>1. CASE MySide(c) = 0
    <3> DEFINE msg == Results(IF loser[c] = NoSide THEN 1 ELSE loser[c])
    <3>1. (IF loser[c] = NoSide THEN 1 ELSE loser[c]) \in Sides
      BY <1>2 DEF Typed, TypeOK, Sides
    <3>2. msg \in UpMsg /\ msg.type = "report_results"
      BY <3>1 DEF UpMsg, Results
    <3>3. Send(c, msg)
      BY <2>1 DEF ReturnToMenu
    <3> HIDE DEF msg
    <3>4. /\ \A type : Has(up'[c], type) <=> Has(up[c], type) \/ type = "report_results"
          /\ \A e \in Clients : e # c => up'[e] = up[e]
      BY <1>2, <3>2, <3>3, SentHas
    <3> QED BY <3>4
  <2>2. CASE MySide(c) # 0
    BY <2>2 DEF ReturnToMenu
  <2> QED BY <2>1, <2>2
<1>5. ~Coming(c) /\ ~Early(c) /\ ~Has(up[c], "ready") /\ ~Has(up[c], "battle_loaded")
      /\ ~synced[c] /\ ~syncedDue /\ ~Has(down[c], "battle_synced")
  BY <1>1, <1>2 DEF Alone, Flags, Calls, Early, Word
<1>6. ~Coming(c)' /\ ~Early(c)'
  BY <1>1, <1>3, <1>5 DEF Coming, Early
<1>7. Typed'
  BY <1>2, TypedNext DEF Next
<1>8. Untouched(d)
  BY <1>0, <1>1, <1>3, <1>4 DEF Untouched
<1>9. /\ Present(d)' => Alone(d)'
      /\ BothHere => Starting(d)'
      /\ Early(d)' <=> Early(d)
      /\ AllSet' <=> AllSet
  BY <1>1, <1>3, <1>8, OtherStays
<1>10. Seated' /\ (BothHere' <=> BothHere)
  <2>1. \A e \in Clients : Present(e)' <=> Present(e)
    BY <1>0, <1>1, <1>3 DEF Present
  <2>2. ASSUME NEW e \in Clients, BothHere, InBattle(e)' PROVE Full(game'[e].seats)
    <3>1. e = d /\ InBattle(d)
      BY <1>0, <1>3, <2>2 DEF InBattle
    <3> QED BY <1>2, <1>3, <2>2, <3>1 DEF Seated
  <2>3. \A e \in Clients : ~Present(e) => up'[e] = up[e]
    BY <1>2, <1>4
  <2> QED BY <1>1, <1>2, <2>1, <2>2, <2>3, StillSeated
<1>11. Alone(c)'
  <2>1. Told(c)' = Told(c) /\ End(c)' = End(c)
    BY <1>1, SameTold
  <2>2. Flags(c)'
    <3>1. /\ SetOnce(Told(c)', End(c)') /\ StaysClear(Told(c)', End(c)')
          /\ \A i \in 1 .. Len(down'[c]) : down'[c][i].type = "lobby_allready" => Told(c)'[i - 1] = "set"
      BY <1>1, <1>2, <2>1 DEF Alone, Flags
    <3>2. ~Has(up'[c], "ready")
      BY <1>4, <1>5
    <3> QED BY <3>1, <3>2 DEF Flags
  <2>3. Uplink(c)'
    <3>1. \A i \in 1 .. Len(up'[c]) : up'[c][i].type \notin {"ready", "battle_loaded"}
      BY <1>4, <1>5 DEF Has
    <3> QED BY <1>6, <3>1 DEF Uplink
  <2>4. Calls(c)'
    <3>1. ~Has(up'[c], "battle_loaded") /\ Once(down'[c], "lobby_allready")
      BY <1>1, <1>2, <1>4, <1>5 DEF Alone, Calls
    <3>2. ~(c = Host /\ loaded[c])
      BY <1>1, <1>2 DEF Alone, Calls
    <3> QED BY <1>1, <1>3, <1>6, <3>1, <3>2 DEF Calls, Coming
  <2>5. Word(c)'
    BY <1>1, <1>2, <1>3, <1>5 DEF Alone, Word, Has, Once
  <2> QED BY <2>2, <2>3, <2>4, <2>5 DEF Alone
<1>12. ASSUME BothHere PROVE Starting(c)' /\ Joint(c, d)' /\ Joint(d, c)'
  <2>1. Starting(c) /\ Joint(c, d) /\ Joint(d, c) /\ ~Early(d) /\ scene[d] # "gate"
    BY <1>1, <1>5, <1>12, Parts DEF Joint
  <2>2. Starting(c)'
    BY <1>1, <1>3, <1>5, <1>6, <2>1 DEF Starting, Coming, Has
  <2>3. \A e \in Clients : loaded[e] => scene'[Host] \in {"gate", "battle"}
    BY <1>0, <1>1, <1>3, <2>1 DEF Joint
  <2>4. Joint(c, d)'
    <3>1. ~(ready[SideIn(seats, c)] /\ ~AllSet)
      BY <1>1, <2>1 DEF Joint
    <3> QED BY <1>1, <1>3, <1>6, <1>9, <2>3, <3>1 DEF Joint, InBattle
  <2>5. Joint(d, c)'
    <3>1. /\ loser[d] # NoSide => scene[d] \in {"battle", "returning"}
          /\ ready[SideIn(seats, d)] /\ ~AllSet =>
               scene[d] = "menu" /\ \A i \in 1 .. Len(up[d]) : up[d][i].type = "unready"
      BY <2>1 DEF Joint
    <3> QED BY <1>0, <1>1, <1>3, <1>4, <1>6, <1>9, <2>1, <2>3, <3>1 DEF Joint, InBattle
  <2> QED BY <2>2, <2>4, <2>5
<1>13. (callDue => dirty /\ AllSet)' /\ (syncedDue => dirty)'
  BY <1>1, <1>9, Parts
<1> QED BY <1>0, <1>7, <1>9, <1>10, <1>11, <1>12, <1>13, Whole

(* The other side of a battle that is left has started it too.             *)
LEMMA LeaveFinds ==
  ASSUME Host \in Clients, Inv, NEW c \in Clients, LeaveBattle(c), Present(Other(c))
  PROVE  scene[Other(c)] \in {"menu", "battle", "returning"}
<1> DEFINE d == Other(c)
<1>1. scene[c] = "battle" /\ (loser[c] # NoSide \/ (running[c] /\ ~InBattle(d)) \/ ~Paired(c))
  BY DEF LeaveBattle
<1>2. BothHere
  BY <1>1, TwoClients DEF BothHere, Present
<1>3. Typed /\ Seated /\ Alone(c) /\ Joint(c, d) /\ Joint(d, c)
  BY <1>2, Parts
<1>4. ~Early(c) /\ ~Early(d)
  BY <1>1, <1>3 DEF Alone, Calls, Early, Joint
<1>5. Paired(c)
  BY <1>1, <1>2, <1>3 DEF Seated, InBattle, Full, Paired
<1>6. scene[d] # "gate"
  BY <1>1, <1>3, <1>5 DEF Joint, InBattle
<1>7. scene[d] \in Scenes /\ scene[d] # "gone" /\ scene[d] \notin {"called", "loading"}
  BY <1>3, <1>4, TwoClients DEF Typed, TypeOK, Early, Present
<1> QED BY <1>6, <1>7 DEF Scenes

LEMMA LeaveBattleKeeps ==
  ASSUME Host \in Clients, Inv, NEW c \in Clients, LeaveBattle(c)
  PROVE  Inv'
<1> DEFINE d == Other(c)
<1>0. d \in Clients /\ d # c /\ \A e \in Clients : e = c \/ e = d
  BY TwoClients
<1>1. /\ scene[c] = "battle" /\ scene' = [scene EXCEPT ![c] = "returning"]
      /\ synced' = [synced EXCEPT ![c] = FALSE]
      /\ loser[c] # NoSide \/ (running[c] /\ ~InBattle(d)) \/ ~Paired(c)
      /\ UNCHANGED <<seats, ready, chara, dirty, callDue, syncedDue>>
      /\ UNCHANGED <<up, down, view, sentReady, game, loser>>
  BY DEF LeaveBattle, match, due
<1>2. Present(c) /\ Alone(c) /\ Typed /\ Seated
  BY <1>1, Parts DEF Present
<1>3. /\ scene'[c] = "returning" /\ scene'[d] = scene[d] /\ ~synced'[c] /\ synced'[d] = synced[d]
      /\ \A e \in Clients : loaded'[e] => loaded[e] /\ c # Host
  BY <1>0, <1>1, <1>2 DEF Typed, TypeOK, LeaveBattle, ResetFlags
<1>4. ~Coming(c) /\ ~Early(c) /\ ~Has(up[c], "battle_loaded") /\ ~Has(up[c], "ready")
      /\ ~syncedDue /\ ~Has(down[c], "battle_synced")
  BY <1>1, <1>2 DEF Alone, Flags, Calls, Word, Early
<1>5. ~Coming(c)' /\ ~Early(c)'
  BY <1>1, <1>3, <1>4 DEF Coming, Early
<1>6. Typed'
  BY <1>2, TypedNext DEF Next
<1>7. Untouched(d)
  BY <1>1, <1>3 DEF Untouched
<1>8. /\ Present(d)' => Alone(d)'
      /\ BothHere => Starting(d)'
      /\ Early(d)' <=> Early(d)
      /\ AllSet' <=> AllSet
  BY <1>0, <1>1, <1>3, <1>7, OtherStays
<1>9. Seated' /\ (BothHere' <=> BothHere)
  <2>1. \A e \in Clients : (Present(e)' <=> Present(e)) /\ (InBattle(e)' => InBattle(e))
    BY <1>0, <1>1, <1>3 DEF Present, InBattle
  <2>2. \A e \in Clients : BothHere /\ InBattle(e)' => Full(game'[e].seats)
    BY <1>1, <1>2, <2>1 DEF Seated
  <2> QED BY <1>1, <1>2, <2>1, <2>2, StillSeated
<1>10. Alone(c)'
  <2>1. Told(c)' = Told(c) /\ End(c)' = End(c)
    BY <1>1, SameTold
  <2>2. Flags(c)'
    BY <1>1, <1>2, <1>3, <2>1 DEF Alone, Flags, Has, NeverSet, StaysClear, SetOnce
  <2>3. Uplink(c)'
    BY <1>1, <1>2, <1>5 DEF Alone, Uplink, Has
  <2>4. Calls(c)'
    <3>1. ~Has(up'[c], "battle_loaded") /\ Once(down'[c], "lobby_allready")
      BY <1>1, <1>2, <1>4 DEF Alone, Calls
    <3>2. ~(c = Host /\ loaded'[c])
      BY <1>3
    <3> QED BY <1>3, <1>5, <3>1, <3>2 DEF Calls, Coming
  <2>5. Word(c)'
    BY <1>1, <1>2, <1>3, <1>4 DEF Alone, Word, Has, Once
  <2> QED BY <2>2, <2>3, <2>4, <2>5 DEF Alone
<1>11. ASSUME BothHere PROVE Starting(c)' /\ Joint(c, d)' /\ Joint(d, c)'
  <2>1. Starting(c) /\ Joint(c, d) /\ Joint(d, c) /\ ~Early(d)
    BY <1>4, <1>11, Parts DEF Joint
  <2>2. scene[d] # "gate"
    BY <1>11, Parts, LeaveFinds
  <2>3. Starting(c)'
    BY <1>1, <1>3, <1>4, <1>5, <2>1 DEF Starting, Coming, Has, InBattle
  <2>4. \A e \in Clients : loaded'[e] => scene'[Host] \in {"gate", "battle"}
    BY <1>0, <1>1, <1>3, <2>1, <2>2 DEF Joint
  <2>5. Joint(c, d)'
    <3>1. /\ loser[c] # NoSide => scene[d] \in {"battle", "returning", "menu"}
          /\ ~(ready[SideIn(seats, c)] /\ ~AllSet)
      BY <1>1, <2>1 DEF Joint
    <3> QED BY <1>0, <1>1, <1>3, <1>5, <1>8, <2>4, <3>1 DEF Joint, InBattle
  <2>6. Joint(d, c)'
    <3>1. /\ loser[d] # NoSide => scene[d] \in {"battle", "returning"}
          /\ ready[SideIn(seats, d)] /\ ~AllSet =>
               scene[d] = "menu" /\ \A i \in 1 .. Len(up[d]) : up[d][i].type = "unready"
      BY <2>1 DEF Joint
    <3> QED BY <1>0, <1>1, <1>3, <1>5, <1>8, <2>1, <2>2, <2>4, <3>1 DEF Joint, InBattle
  <2> QED BY <2>3, <2>5, <2>6
<1>12. (callDue => dirty /\ AllSet)' /\ (syncedDue => dirty)'
  BY <1>1, <1>8, Parts
<1> QED BY <1>0, <1>6, <1>8, <1>9, <1>10, <1>11, <1>12, Whole

(* GGPO's handshake, the battle itself and a step that does nothing.       *)
LEMMA BattleKeeps ==
  ASSUME Host \in Clients, Inv,
         Connect \/ (\E side \in Sides : Fight(side)) \/ UNCHANGED vars
  PROVE  Inv'
<1> USE DEF server, match, due, client, battle
<1>1. /\ UNCHANGED <<seats, ready, chara, loaded, dirty, callDue, syncedDue>>
      /\ UNCHANGED <<up, down, scene, view, sentReady, synced, game>>
      /\ loser' = loser \/ \A c \in Clients : scene[c] = "battle"
  BY DEF Connect, Fight, vars
<1>2. Typed /\ Seated /\ (callDue => dirty /\ AllSet) /\ (syncedDue => dirty)
  BY DEF Inv
<1>3. Typed'
  BY <1>2, TypedNext DEF Next
<1>4. Seated' /\ (BothHere' <=> BothHere)
  <2>1. \A e \in Clients : BothHere /\ InBattle(e)' => Full(game'[e].seats)
    BY <1>1, <1>2 DEF Seated, InBattle
  <2> QED BY <1>1, <1>2, <2>1, StillSeated DEF Present
<1>5. \A c \in Clients : Untouched(c)
  BY <1>1 DEF Untouched
<1>6. ASSUME NEW c \in Clients, Present(c)' PROVE Alone(c)'
  <2>1. Alone(c)
    BY <1>1, <1>6 DEF Inv, Present
  <2> QED BY <1>1, <1>5, <2>1, StillAlone
<1>7. ASSUME NEW c \in Clients, BothHere' PROVE Starting(c)' /\ Joint(c, Other(c))'
  <2>1. Starting(c) /\ Joint(c, Other(c)) /\ Other(c) \in Clients
    BY <1>4, <1>7, TwoClients DEF Inv
  <2>2. Starting(c)'
    BY <1>1, <1>5, <2>1, StillStarting
  <2>3. (Early(c)' <=> Early(c)) /\ (Early(Other(c))' <=> Early(Other(c)))
    BY <1>1, StillEarly
  <2>4. loser'[c] # NoSide =>
          scene[c] \in {"battle", "returning"} /\ scene[Other(c)] \in {"battle", "returning", "menu"}
    BY <1>1, <2>1 DEF Joint
  <2>5. Joint(c, Other(c))'
    BY <1>1, <2>1, <2>3, <2>4 DEF Joint, AllSet, InBattle
  <2> QED BY <2>2, <2>5
<1>8. (callDue => dirty /\ AllSet)' /\ (syncedDue => dirty)'
  BY <1>1, <1>2 DEF AllSet
<1> QED BY <1>3, <1>4, <1>6, <1>7, <1>8 DEF Inv

-----------------------------------------------------------------------------
(* A player who vanishes.                                                  *)

LEMMA QuitKeeps ==
  ASSUME Host \in Clients, Inv, NEW c \in Clients, Quit(c)
  PROVE  Inv'
<1> DEFINE d == Other(c)
<1>0. d \in Clients /\ d # c /\ d = Host /\ \A e \in Clients : e = c \/ e = d
  BY TwoClients DEF Quit
<1>1. /\ scene' = [scene EXCEPT ![c] = "gone"]
      /\ up' = [up EXCEPT ![c] = <<>>] /\ down' = [down EXCEPT ![c] = <<>>]
      /\ UNCHANGED <<seats, ready, chara, loaded, dirty, callDue, syncedDue>>
      /\ UNCHANGED <<view, sentReady, synced, game, loser>>
  BY DEF Quit, server, match, due
<1>2. Typed /\ Seated
  BY Parts
<1>3. scene'[c] = "gone" /\ up'[c] = <<>> /\ scene'[d] = scene[d] /\ up'[d] = up[d] /\ down'[d] = down[d]
  BY <1>0, <1>1, <1>2 DEF Typed, TypeOK
<1>4. Typed'
  BY <1>2, TypedNext DEF Next
<1>5. Untouched(d)
  BY <1>1, <1>3 DEF Untouched
<1>6. /\ Present(d)' => Alone(d)'
      /\ AllSet' <=> AllSet
  BY <1>1, <1>5, OtherStays
<1>7. ~Present(c)' /\ ~BothHere'
  BY <1>3 DEF Present, BothHere
<1>8. Seated'
  <2>1. /\ Present(Host)' /\ Seating(seats)'
    BY <1>0, <1>1, <1>2, <1>3 DEF Seated, Present
  <2>2. /\ Seating(view'[d].seats)
        /\ \A i \in 1 .. Len(down'[d]) :
             down'[d][i].type = "data_update" => Seating(down'[d][i].data.seats)
    BY <1>0, <1>1, <1>2, <1>3 DEF Seated
  <2> QED BY <1>0, <1>3, <1>7, <2>1, <2>2 DEF Seated
<1>9. (callDue => dirty /\ AllSet)' /\ (syncedDue => dirty)'
  BY <1>1, <1>6, Parts
<1> QED BY <1>4, <1>6, <1>7, <1>8, <1>9, Whole

(* The place given up: the host stays, alone.                              *)
LEMMA ClosedSeats ==
  ASSUME Host \in Clients, Seated, NEW c \in Clients, c # Host, c \in Members
  PROVE  LET rest == RemoveAt(seats, SideIn(seats, c) + 1) IN
         /\ Full(seats) /\ SideIn(seats, c) \in Sides /\ SideIn(seats, Host) \in Sides
         /\ SideIn(seats, c) # SideIn(seats, Host)
         /\ Seating(rest) /\ SideIn(rest, Host) = 0
<1>1. Seating(seats)
  BY DEF Seated
<1>2. Full(seats)
  <2>1. CASE Len(seats) = 1 /\ seats[1] = Host
    <3>1. PICK i \in 1 .. Len(seats) : seats[i] = c
      BY <1>1, LenProperties DEF Members, ToSet, Seating
    <3> QED BY <2>1, <3>1
  <2> QED BY <1>1, <2>1 DEF Seating
<1>3. /\ SideIn(seats, c) \in Sides /\ SideIn(seats, Host) \in Sides
      /\ seats[SideIn(seats, c) + 1] = c /\ seats[SideIn(seats, Host) + 1] = Host
  BY <1>1, <1>2, SeatIn
<1> DEFINE k == SideIn(seats, c)
           h == SideIn(seats, Host)
           p == k + 1
           rest == RemoveAt(seats, p)
<1>4. k \in {0, 1} /\ h \in {0, 1} /\ k # h /\ seats[k + 1] = c /\ seats[h + 1] = Host
  BY <1>3 DEF Sides
<1>5. seats \in Seq(Clients) /\ Len(seats) = 2
  BY <1>1, <1>2 DEF Seating, Full
<1> HIDE DEF k, h
<1>6. p \in 1 .. Len(seats)
  BY <1>4, <1>5
<1>7. p = k + 1
  OBVIOUS
<1> HIDE DEF p
<1>8. /\ rest \in Seq(Clients) /\ Len(rest) = Len(seats) - 1
      /\ \A i \in 1 .. Len(seats) - 1 : rest[i] = IF i < p THEN seats[i] ELSE seats[i + 1]
  BY <1>5, <1>6, RemoveAtProperties
<1> HIDE DEF rest
<1>9. Len(rest) = 1 /\ rest[1] = Host
  <2>1. Len(rest) = 1 /\ rest[1] = IF 1 < p THEN seats[1] ELSE seats[2]
    BY <1>5, <1>8
  <2>2. CASE k = 0
    BY <1>4, <1>7, <2>1, <2>2
  <2>3. CASE k = 1
    BY <1>4, <1>7, <2>1, <2>3
  <2> QED BY <1>4, <2>2, <2>3
<1>10. Seating(rest)
  BY <1>8, <1>9 DEF Seating
<1>11. SideIn(rest, Host) = 0
  <2>1. SideIn(rest, Host) + 1 \in 1 .. Len(rest) /\ SideIn(rest, Host) \in Sides
    BY <1>10, SeatIn
  <2> QED BY <1>9, <2>1 DEF Sides
<1> QED BY <1>2, <1>3, <1>4, <1>10, <1>11 DEF rest, p, k, h

(* A client whose readiness is cleared, and from whom at most a message    *)
(* has been taken, is as it was.                                           *)
LEMMA AloneCleared ==
  ASSUME Typed, NEW e \in Clients, Alone(e),
         scene'[e] = scene[e], view'[e] = view[e], sentReady'[e] = sentReady[e],
         synced'[e] = synced[e], down'[e] = down[e], UNCHANGED <<callDue, syncedDue>>,
         loaded'[e] => loaded[e], ready'[SideIn(seats', e)] => ready[SideIn(seats, e)],
         \A type : Has(up'[e], type) => Has(up[e], type),
         \A i \in 1 .. Len(up'[e]) :
           up'[e][i].type \in {"ready", "battle_loaded"} => i = Len(up'[e])
  PROVE  Alone(e)'
<1> DEFINE t == Told(e)
           u == Told(e)'
           n == End(e)
<1>1. /\ n \in Nat \ {0} /\ End(e)' = n
      /\ \A i \in 0 .. n : i # n => u[i] = t[i]
      /\ \A i \in 1 .. Len(down[e]) : u[i - 1] = t[i - 1]
      /\ t[n] = Mine(e, Data) /\ u[n] = Mine(e, Data)'
  BY LastWord
<1>2. u[n] \in {t[n], "clear"}
  <2>1. Mine(e, Data) = IF ready[SideIn(seats, e)] THEN "set" ELSE "clear"
    BY DEF Mine, Data
  <2>2. Mine(e, Data)' = IF ready'[SideIn(seats', e)] THEN "set" ELSE "clear"
    BY DEF Mine, Data
  <2> QED BY <1>1, <2>1, <2>2
<1> HIDE DEF t, u, n
<1>3. /\ NeverSet(t, n) => NeverSet(u, n)
      /\ StaysClear(t, n) => StaysClear(u, n)
      /\ SetOnce(t, n) => SetOnce(u, n)
  BY <1>1, <1>2, Cleared
<1>4. Flags(e)'
  <2>1. Flags(e)
    BY DEF Alone
  <2>2. /\ SetOnce(u, n) /\ (~sentReady[e] \/ scene[e] # "menu" => StaysClear(u, n))
        /\ Has(up[e], "ready") => scene[e] = "menu" /\ sentReady[e] /\ NeverSet(u, n)
    BY <1>3, <2>1 DEF Flags, t, n
  <2>3. \A i \in 1 .. Len(down[e]) : down[e][i].type = "lobby_allready" => u[i - 1] = "set"
    BY <1>1, <2>1 DEF Flags, t
  <2> QED BY <1>1, <2>2, <2>3 DEF Flags, u
<1>5. (Coming(e)' <=> Coming(e)) /\ (Sync(e)' <=> Sync(e)) /\ (Early(e)' <=> Early(e))
  BY DEF Coming, Sync, Early, Has
<1>6. Uplink(e)'
  BY <1>5 DEF Alone, Uplink
<1>7. Calls(e)'
  <2>1. \A type : Has(down'[e], type) <=> Has(down[e], type)
    BY DEF Has
  <2>2. Once(down'[e], "lobby_allready")
    BY DEF Alone, Calls, Once
  <2> QED BY <1>5, <2>1, <2>2 DEF Alone, Calls
<1>8. Word(e)'
  BY DEF Alone, Word, Has, Once
<1> QED BY <1>4, <1>6, <1>7, <1>8 DEF Alone

LEMMA CloseKeeps ==
  ASSUME Host \in Clients, Inv, NEW c \in Clients, Close(c)
  PROVE  Inv'
<1> DEFINE d == Other(c)
<1>1. /\ ~dirty /\ c \in Members /\ scene[c] = "gone"
      /\ seats' = RemoveAt(seats, SideIn(seats, c) + 1)
      /\ ready' = [s \in Sides |-> s < SideIn(seats, c) /\ ready[s]]
      /\ loaded' = [loaded EXCEPT ![c] = FALSE] /\ dirty' = TRUE
      /\ UNCHANGED <<callDue, syncedDue, up, down>>
      /\ UNCHANGED <<scene, view, sentReady, synced, game, running, loser>>
  BY DEF Close, client, battle
<1>2. Typed /\ Seated /\ ~callDue /\ ~syncedDue
  BY <1>1, Parts
<1>3. c # Host /\ d \in Clients /\ d # c /\ d = Host /\ \A e \in Clients : e = c \/ e = d
  BY <1>1, <1>2, TwoClients DEF Seated, Present
<1>4. /\ Full(seats) /\ SideIn(seats, c) \in Sides /\ SideIn(seats, d) \in Sides
      /\ SideIn(seats, c) # SideIn(seats, d)
      /\ Seating(seats') /\ SideIn(seats', d) = 0
  BY <1>1, <1>2, <1>3, ClosedSeats
<1>5. ready'[SideIn(seats', d)] => ready[SideIn(seats, d)]
  <2>1. ready'[0] => 0 < SideIn(seats, c) /\ ready[0]
    BY <1>1 DEF Sides
  <2> QED BY <1>4, <2>1 DEF Sides
<1>6. ~Present(c)' /\ ~BothHere' /\ Present(d) /\ Alone(d)
  BY <1>1, <1>2, <1>3, Parts DEF Present, BothHere, Seated
<1>7. Typed'
  BY <1>2, TypedNext DEF Next
<1>8. Seated'
  <2>1. Present(Host)' /\ Seating(seats)'
    BY <1>1, <1>2, <1>4, <1>3 DEF Seated, Present
  <2>2. \A e \in Clients :
          /\ ~Present(e)' => up'[e] = <<>>
          /\ Present(e)' =>
               /\ Seating(view'[e].seats)
               /\ \A i \in 1 .. Len(down'[e]) :
                    down'[e][i].type = "data_update" => Seating(down'[e][i].data.seats)
    BY <1>1, <1>2 DEF Seated, Present
  <2> QED BY <1>6, <2>1, <2>2 DEF Seated
<1>9. Alone(d)'
  <2>1. loaded'[d] = loaded[d]
    BY <1>1, <1>2, <1>3 DEF Typed, TypeOK
  <2>2. \A i \in 1 .. Len(up'[d]) :
          up'[d][i].type \in {"ready", "battle_loaded"} => i = Len(up'[d])
    BY <1>1, <1>6 DEF Alone, Uplink
  <2> QED BY <1>1, <1>2, <1>3, <1>5, <1>6, <2>1, <2>2, AloneCleared
<1>10. (callDue => dirty /\ AllSet)' /\ (syncedDue => dirty)'
  BY <1>1, <1>2
<1> QED BY <1>3, <1>6, <1>7, <1>8, <1>9, <1>10, Whole

-----------------------------------------------------------------------------
(* The broadcast of a Step.                                                *)

LEMMA Broadcasted ==
  ASSUME Host \in Clients, Inv, FinishStep, NEW c \in Clients, Present(c)
  PROVE  /\ down'[c] = down[c] \o News
         /\ Coming(c)' <=> Coming(c)
         /\ Sync(c)' <=> Sync(c)
         /\ Early(c)' <=> Early(c)
<1>1. Typed /\ Seated
  BY Parts
<1>2. down'[c] = down[c] \o News
  <2>1. c \in Members
    BY <1>1, HasSeat
  <2> QED BY <2>1 DEF FinishStep, Connected, Present
<1>3. /\ ~callDue' /\ ~syncedDue' /\ synced' = synced /\ scene' = scene
  BY DEF FinishStep, client
<1>4. /\ Has(down'[c], "lobby_allready") <=> Has(down[c], "lobby_allready") \/ callDue
      /\ Has(down'[c], "battle_synced") <=> Has(down[c], "battle_synced") \/ syncedDue
  BY <1>1, <1>2, HasNews
<1>5. (Coming(c)' <=> Coming(c)) /\ (Sync(c)' <=> Sync(c))
  BY <1>3, <1>4 DEF Coming, Sync
<1> QED BY <1>2, <1>3, <1>5 DEF Early

LEMMA FinishStepKeeps ==
  ASSUME Host \in Clients, Inv, FinishStep
  PROVE  Inv'
<1>1. /\ ~callDue' /\ ~syncedDue'
      /\ UNCHANGED <<seats, ready, chara, loaded, up, scene, view, sentReady, synced, game, running, loser>>
  BY DEF FinishStep, match, client, battle
<1>2. Typed /\ Seated /\ (callDue => dirty /\ AllSet) /\ (syncedDue => dirty)
  BY DEF Inv
<1>3. Typed'
  BY <1>2, TypedNext DEF Next
<1>4. BothHere' <=> BothHere
  BY <1>1 DEF BothHere, Present
<1>5. ASSUME NEW c \in Clients, Present(c)
      PROVE  /\ down'[c] = down[c] \o News /\ Len(down[c]) \in Nat /\ Len(down'[c]) \in Nat
             /\ \A i \in 1 .. Len(down[c]) : i \in 1 .. Len(down'[c]) /\ down'[c][i] = down[c][i]
             /\ \A i \in 1 .. Len(down'[c]) :
                  /\ i \notin 1 .. Len(down[c]) /\ down'[c][i].type = "data_update" =>
                       i = Len(down[c]) + 1 /\ down'[c][i] = Update
                  /\ i \notin 1 .. Len(down[c]) /\ down'[c][i].type = "lobby_allready" =>
                       i = Len(down[c]) + 2 /\ callDue
  <2> DEFINE n == Len(down[c])
             m == Len(News)
  <2>1. down'[c] = down[c] \o News
    BY <1>5, Broadcasted
  <2>20. Typed /\ n \in Nat
    BY <1>2, LenProperties DEF Typed
  <2> DEFINE q == down[c] \o News
  <2>21. /\ Len(q) = n + m
         /\ \A i \in 1 .. n : q[i] = down[c][i]
         /\ q[n + 1] = Update
         /\ \A i \in n + 1 .. Len(q) :
              /\ q[i].type = "data_update" <=> i = n + 1
              /\ q[i].type = "lobby_allready" <=> (i = n + 2 /\ callDue)
    BY <2>20, Broadcast
  <2>22. down'[c] = q
    BY <2>1
  <2> HIDE DEF q
  <2>2. /\ Len(down'[c]) = n + m
        /\ \A i \in 1 .. n : down'[c][i] = down[c][i]
        /\ down'[c][n + 1] = Update
        /\ \A i \in n + 1 .. Len(down'[c]) :
             /\ down'[c][i].type = "data_update" <=> i = n + 1
             /\ down'[c][i].type = "lobby_allready" <=> (i = n + 2 /\ callDue)
    BY <2>21, <2>22
  <2>3. m \in Nat /\ n \in Nat
    BY <1>2, <2>20, NewsHas
  <2>4. n = Len(down[c])
    OBVIOUS
  <2> HIDE DEF n, m
  <2>5. \A i \in 1 .. Len(down'[c]) : i \notin 1 .. n => i \in n + 1 .. Len(down'[c])
    BY <2>2, <2>3
  <2>6. \A i \in 1 .. n : i \in 1 .. Len(down'[c])
    BY <2>2, <2>3
  <2>7. Len(down'[c]) \in Nat
    BY <2>2, <2>3
  <2> QED BY <2>1, <2>2, <2>4, <2>5, <2>6, <2>7
<1>6. Seated'
  <2>1. Present(Host)' /\ Seating(seats)' /\ (BothHere' => Full(seats)')
    BY <1>1, <1>2, <1>4 DEF Seated, Present
  <2>2. ASSUME NEW c \in Clients
        PROVE  /\ ~Present(c)' => up'[c] = <<>>
               /\ Present(c)' =>
                    /\ Seating(view'[c].seats)
                    /\ \A i \in 1 .. Len(down'[c]) :
                         down'[c][i].type = "data_update" => Seating(down'[c][i].data.seats)
               /\ BothHere' =>
                    /\ Full(view'[c].seats) /\ (InBattle(c)' => Full(game'[c].seats))
                    /\ \A i \in 1 .. Len(down'[c]) :
                         down'[c][i].type = "data_update" => Full(down'[c][i].data.seats)
    <3>1. CASE ~Present(c)
      BY <1>1, <1>2, <1>4, <3>1 DEF Seated, Present, BothHere
    <3>2. CASE Present(c)
      <4>1. ASSUME NEW i \in 1 .. Len(down'[c]), down'[c][i].type = "data_update"
            PROVE  /\ Seating(down'[c][i].data.seats)
                   /\ BothHere => Full(down'[c][i].data.seats)
        <5>1. CASE i \in 1 .. Len(down[c])
          <6>1. down'[c][i] = down[c][i]
            BY <1>5, <3>2, <5>1
          <6> QED BY <1>2, <3>2, <4>1, <5>1, <6>1 DEF Seated
        <5>2. CASE i \notin 1 .. Len(down[c])
          <6>1. down'[c][i] = Update
            BY <1>5, <3>2, <4>1, <5>2
          <6>2. down'[c][i].data.seats = seats
            BY <6>1 DEF Update, Data
          <6> QED BY <1>2, <6>2 DEF Seated
        <5> QED BY <5>1, <5>2
      <4> QED BY <1>1, <1>2, <1>4, <3>2, <4>1 DEF Seated, Present, InBattle
    <3> QED BY <3>1, <3>2
  <2> QED BY <2>1, <2>2 DEF Seated
<1>7. ASSUME NEW c \in Clients, Present(c) PROVE Alone(c)'
  <2>0. Alone(c) /\ down'[c] = down[c] \o News
        /\ (Early(c)' <=> Early(c)) /\ (Coming(c)' <=> Coming(c)) /\ (Sync(c)' <=> Sync(c))
    BY <1>7, Broadcasted DEF Inv
  <2>1. /\ NeverSet(Told(c), End(c)) => NeverSet(Told(c)', End(c)')
        /\ StaysClear(Told(c), End(c)) => StaysClear(Told(c)', End(c)')
        /\ SetOnce(Told(c), End(c)) => SetOnce(Told(c)', End(c)')
    BY <1>1, <1>2, <2>0, BroadcastFlags
  <2>2. ASSUME NEW i \in 1 .. Len(down'[c]), down'[c][i].type = "lobby_allready"
        PROVE  Told(c)'[i - 1] = "set"
    <3>1. /\ \A j \in 0 .. End(c) : Told(c)'[j] = Told(c)[j]
          /\ End(c) = Len(down[c]) + 1 /\ End(c) \in Nat \ {0} /\ Len(down[c]) \in Nat
      BY <1>1, <1>2, <2>0, ToldBroadcast, OwnFlag
    <3>2. CASE i \in 1 .. Len(down[c])
      <4>1. Told(c)[i - 1] = "set"
        BY <1>5, <1>7, <2>0, <2>2, <3>2 DEF Alone, Flags
      <4>2. i - 1 \in 0 .. End(c)
        BY <3>1, <3>2
      <4> QED BY <3>1, <4>1, <4>2
    <3>3. CASE i \notin 1 .. Len(down[c])
      <4>1. i = Len(down[c]) + 2 /\ callDue
        BY <1>5, <1>7, <2>2, <3>3
      <4>2. Told(c)[End(c)] = "set"
        <5>1. SideIn(seats, c) \in Sides
          BY <1>2, <1>7, HasSeat
        <5> QED BY <1>2, <4>1, <5>1, OwnFlag DEF AllSet
      <4>3. i - 1 = End(c) /\ End(c) \in 0 .. End(c)
        BY <3>1, <4>1
      <4> QED BY <3>1, <4>2, <4>3
    <3> QED BY <3>2, <3>3
  <2>3. Flags(c)'
    BY <1>1, <2>0, <2>1, <2>2 DEF Alone, Flags
  <2>4. Uplink(c)'
    BY <1>1, <2>0 DEF Alone, Uplink
  <2>5. Once(down'[c], "lobby_allready") /\ Once(down'[c], "battle_synced")
    BY <1>2, <2>0, HasNews DEF Alone, Calls, Word
  <2>6. Calls(c)'
    BY <1>1, <2>0, <2>5 DEF Alone, Calls
  <2>7. Has(down'[c], "battle_synced") <=> Has(down[c], "battle_synced") \/ syncedDue
    BY <1>2, <2>0, HasNews
  <2>8. Word(c)'
    BY <1>1, <2>0, <2>5, <2>7 DEF Alone, Word
  <2> QED BY <2>3, <2>4, <2>6, <2>8 DEF Alone
<1>8. ASSUME BothHere, NEW c \in Clients PROVE Starting(c)' /\ Joint(c, Other(c))'
  <2>1. /\ Starting(c) /\ Joint(c, Other(c)) /\ Present(c) /\ Present(Other(c))
        /\ (Early(c)' <=> Early(c)) /\ (Early(Other(c))' <=> Early(Other(c)))
    BY <1>8, TwoClients, Broadcasted DEF Inv, BothHere
  <2>2. \A k : (k \in Nat /\ CurrentFrom(c, k)) => CurrentFrom(c, k)'
    <3> SUFFICES ASSUME NEW k \in Nat, CurrentFrom(c, k),
                        NEW j \in 1 .. Len(down'[c]), j >= k, down'[c][j].type = "data_update"
                 PROVE  down'[c][j].data.seats = seats /\ down'[c][j].data.chara = chara
      BY <1>1 DEF CurrentFrom, Current
    <3>1. CASE j \in 1 .. Len(down[c])
      <4>1. down'[c][j] = down[c][j]
        BY <1>5, <2>1, <3>1
      <4> QED BY <3>1, <4>1 DEF CurrentFrom, Current
    <3>2. CASE j \notin 1 .. Len(down[c])
      <4>1. down'[c][j] = Update
        BY <1>5, <2>1, <3>2
      <4> QED BY <4>1 DEF Update, Data
    <3> QED BY <3>1, <3>2
  <2>3. CurrentFrom(c, Len(down[c]) + 1)
    BY <1>5, <2>1 DEF CurrentFrom
  <2>4. ASSUME NEW i \in 1 .. Len(down'[c]), down'[c][i].type = "lobby_allready"
        PROVE  (i = 1 => Current(view[c])) /\ CurrentFrom(c, i - 1)'
    <3>1. CASE i \in 1 .. Len(down[c])
      <4>1. (i = 1 => Current(view[c])) /\ CurrentFrom(c, i - 1) /\ i - 1 \in Nat
        BY <1>5, <2>1, <2>4, <3>1 DEF Starting
      <4> QED BY <2>2, <4>1
    <3>2. CASE i \notin 1 .. Len(down[c])
      <4>1. i = Len(down[c]) + 2 /\ Len(down[c]) \in Nat
        BY <1>5, <2>1, <2>4, <3>2
      <4>2. i # 1 /\ i - 1 = Len(down[c]) + 1 /\ Len(down[c]) + 1 \in Nat
        BY <4>1
      <4> QED BY <2>2, <2>3, <4>2
    <3> QED BY <3>1, <3>2
  <2>5. Starting(c)'
    <3>1. scene[c] = "called" => Current(view[c]) /\ CurrentFrom(c, 1)'
      BY <2>1, <2>2 DEF Starting
    <3>2. Current(view[c])' <=> Current(view[c])
      BY <1>1 DEF Current
    <3>3. InBattle(c)' /\ Early(c)' => Current(game[c])'
      BY <1>1, <2>1 DEF Starting, InBattle, Current
    <3> QED BY <1>1, <2>4, <3>1, <3>2, <3>3 DEF Starting
  <2>6. Joint(c, Other(c))'
    BY <1>1, <2>1 DEF Joint, AllSet, InBattle
  <2> QED BY <2>5, <2>6
<1>9. \A c \in Clients : Present(c)' => Present(c)
  BY <1>1 DEF Present
<1> QED BY <1>1, <1>3, <1>4, <1>6, <1>7, <1>8, <1>9 DEF Inv

-----------------------------------------------------------------------------
(* A message delivered.                                                    *)

LEMMA SetFirst ==
  ASSUME NEW n \in Nat, NEW t, t[0] = "set", SetOnce(t, n)
  PROVE  StaysClear(t, n) /\ ~NeverSet(t, n)
<1>1. 0 \in 0 .. n
  OBVIOUS
<1>2. StaysClear(t, n)
  BY <1>1 DEF StaysClear, SetOnce
<1> QED BY <1>1, <1>2 DEF NeverSet

(* What each message finds, and what it changes.                           *)
LEMMA Delivered ==
  ASSUME Inv, NEW c \in Clients, Deliver(c)
  PROVE  LET msg == Head(down[c]) IN
         /\ Present(c) /\ Alone(c) /\ Typed /\ Seated
         /\ Len(down[c]) \in Nat \ {0} /\ msg = down[c][1] /\ Len(down'[c]) = Len(down[c]) - 1
         /\ \A i \in 1 .. Len(down'[c]) : down'[c][i] = down[c][i + 1]
         /\ \/ /\ msg.type = "data_update" /\ scene'[c] = scene[c]
               /\ view'[c] = msg.data /\ synced'[c] = synced[c]
            \/ /\ msg.type = "lobby_allready" /\ scene[c] = "menu" /\ scene'[c] = "called"
               /\ view'[c] = view[c] /\ synced'[c] = synced[c] /\ Coming(c) /\ ~Coming(c)'
            \/ /\ msg.type = "battle_synced" /\ scene[c] = "gate" /\ scene'[c] = "gate"
               /\ view'[c] = view[c] /\ synced'[c] /\ Sync(c) /\ ~Coming(c)
               /\ ~syncedDue /\ ~Has(down'[c], "battle_synced")
         /\ Coming(c)' => Coming(c)
         /\ Sync(c)' <=> Sync(c)
         /\ Early(c)' <=> Early(c)
<1> DEFINE msg == Head(down[c])
           q == down[c]
<1>1. Present(c) /\ Alone(c) /\ Typed /\ Seated /\ q # <<>>
  BY Parts DEF Deliver, Present
<1>2. /\ q \in Seq(DownMsg) /\ down'[c] = Tail(q)
      /\ scene'[c] = IF msg.type = "lobby_allready" /\ scene[c] = "menu" THEN "called" ELSE scene[c]
      /\ synced'[c] = (synced[c] \/ msg.type = "battle_synced")
      /\ view'[c] = IF msg.type = "data_update" THEN msg.data ELSE view[c]
      /\ UNCHANGED <<callDue, syncedDue>>
  BY <1>1 DEF Deliver, Typed, TypeOK, server, due
<1>3. /\ Len(q) \in Nat \ {0} /\ msg = q[1] /\ msg \in DownMsg /\ Len(Tail(q)) = Len(q) - 1
      /\ \A i \in 1 .. Len(q) - 1 : Tail(q)[i] = q[i + 1]
  BY <1>1, <1>2, Taken
<1>4. /\ Has(q, msg.type)
      /\ \A type : Has(down'[c], type) => Has(q, type)
      /\ \A type : Has(q, type) => Has(down'[c], type) \/ type = msg.type
      /\ Once(q, msg.type) => ~Has(down'[c], msg.type)
  BY <1>1, <1>2, HasTaken
<1>5. msg.type \in {"data_update", "lobby_allready", "battle_synced"}
  BY <1>3 DEF DownMsg, AllReady, Synced
<1> HIDE DEF msg
<1>6. CASE msg.type = "data_update"
  <2>1. (Coming(c)' <=> Coming(c)) /\ (Sync(c)' <=> Sync(c))
    BY <1>2, <1>4, <1>6 DEF Coming, Sync
  <2>2. Early(c)' <=> Early(c)
    BY <1>2, <1>6, <2>1 DEF Early
  <2> QED BY <1>1, <1>2, <1>3, <1>6, <2>1, <2>2 DEF msg, Typed, TypeOK
<1>7. CASE msg.type = "lobby_allready"
  <2>1. Coming(c) /\ scene[c] = "menu" /\ ~callDue /\ ~Coming(c)'
    BY <1>1, <1>2, <1>4, <1>7 DEF Coming, Alone, Calls
  <2>2. Sync(c)' <=> Sync(c)
    BY <1>1, <1>2, <1>4, <1>7 DEF Sync
  <2>3. Early(c) /\ Early(c)'
    BY <1>2, <1>7, <2>1 DEF Early
  <2> QED BY <1>1, <1>2, <1>3, <1>7, <2>1, <2>2, <2>3 DEF msg, Typed, TypeOK
<1>8. CASE msg.type = "battle_synced"
  <2>1. Sync(c) /\ scene[c] = "gate" /\ ~syncedDue /\ ~Has(down'[c], "battle_synced")
    BY <1>1, <1>4, <1>8 DEF Sync, Alone, Word
  <2>2. ~Coming(c) /\ ~Coming(c)' /\ Sync(c)'
    BY <1>1, <1>2, <1>4, <1>8, <2>1 DEF Coming, Sync, Alone, Calls
  <2>3. ~Early(c) /\ ~Early(c)'
    BY <1>2, <1>8, <2>1, <2>2 DEF Early
  <2> QED BY <1>1, <1>2, <1>3, <1>8, <2>1, <2>2, <2>3 DEF msg
<1> QED BY <1>5, <1>6, <1>7, <1>8

LEMMA DeliverKeeps ==
  ASSUME Host \in Clients, Inv, NEW c \in Clients, Deliver(c)
  PROVE  Inv'
<1> DEFINE d == Other(c)
           msg == Head(down[c])
           t == Told(c)
           u == Told(c)'
           Shows == msg.type = "data_update" /\ scene'[c] = scene[c] /\ view'[c] = msg.data
                      /\ synced'[c] = synced[c]
           IsCall == /\ msg.type = "lobby_allready" /\ scene[c] = "menu" /\ scene'[c] = "called"
                     /\ view'[c] = view[c] /\ synced'[c] = synced[c] /\ Coming(c) /\ ~Coming(c)'
           IsWord == /\ msg.type = "battle_synced" /\ scene[c] = "gate" /\ scene'[c] = "gate"
                     /\ view'[c] = view[c] /\ synced'[c] /\ Sync(c) /\ ~Coming(c)
                     /\ ~syncedDue /\ ~Has(down'[c], "battle_synced")
<1>0. d \in Clients /\ d # c /\ \A e \in Clients : e = c \/ e = d
  BY TwoClients
<1>1. /\ down[c] # <<>> /\ down' = [down EXCEPT ![c] = Tail(down[c])]
      /\ scene' = scene \/ scene' = [scene EXCEPT ![c] = "called"]
      /\ view' = view \/ view' = [view EXCEPT ![c] = msg.data]
      /\ UNCHANGED <<seats, ready, chara, loaded, dirty, callDue, syncedDue>>
      /\ UNCHANGED <<up, sentReady, game, running, loser>>
  BY DEF Deliver, server, match, due, battle
<1>2. /\ Present(c) /\ Alone(c) /\ Typed /\ Seated
      /\ Len(down[c]) \in Nat \ {0} /\ msg = down[c][1] /\ Len(down'[c]) = Len(down[c]) - 1
      /\ \A i \in 1 .. Len(down'[c]) : down'[c][i] = down[c][i + 1]
  BY Delivered
<1>3. Shows \/ IsCall \/ IsWord
  BY Delivered
<1>4. (Coming(c)' => Coming(c)) /\ (Sync(c)' <=> Sync(c)) /\ (Early(c)' <=> Early(c))
  BY Delivered
<1> HIDE DEF msg
<1>5. /\ \A type : Has(down'[c], type) => Has(down[c], type)
      /\ \A type : Once(down[c], type) => Once(down'[c], type)
  <2>1. down'[c] = Tail(down[c]) /\ down[c] \in Seq(DownMsg)
    BY <1>1, <1>2 DEF Typed
  <2> QED BY <1>1, <2>1, HasTaken
<1>6. \A i \in 1 .. Len(down'[c]) : i + 1 \in 1 .. Len(down[c]) /\ i \in Nat \ {0}
  BY <1>2
<1>7. Typed'
  BY <1>2, TypedNext DEF Next
<1>8. Untouched(d)
  BY <1>0, <1>1, <1>2 DEF Untouched, Deliver, Typed, TypeOK
<1>9. /\ Present(d)' => Alone(d)'
      /\ BothHere => Starting(d)'
      /\ Early(d)' <=> Early(d)
      /\ AllSet' <=> AllSet
  BY <1>1, <1>8, OtherStays
<1>10. BothHere' <=> BothHere
  BY <1>0, <1>2, <1>3, <1>8 DEF BothHere, Present, Untouched
<1>11. Seated'
  <2>1. Present(Host)' /\ Seating(seats)' /\ (BothHere' => Full(seats)')
    <3>1. \A e \in Clients : Present(e)' <=> Present(e)
      BY <1>0, <1>2, <1>3, <1>8 DEF Present, Untouched
    <3> QED BY <1>1, <1>2, <1>10, <3>1 DEF Seated
  <2>2. /\ ~Present(d)' => up'[d] = <<>>
        /\ Present(d)' =>
             /\ Seating(view'[d].seats)
             /\ \A i \in 1 .. Len(down'[d]) :
                  down'[d][i].type = "data_update" => Seating(down'[d][i].data.seats)
        /\ BothHere' =>
             /\ Full(view'[d].seats) /\ (InBattle(d)' => Full(game'[d].seats))
             /\ \A i \in 1 .. Len(down'[d]) :
                  down'[d][i].type = "data_update" => Full(down'[d][i].data.seats)
    BY <1>0, <1>1, <1>2, <1>8, <1>10 DEF Seated, Present, InBattle, Untouched
  <2>3. Present(c)'
    BY <1>2, <1>3 DEF Present
  <2>4. \A i \in 1 .. Len(down[c]) : down[c][i].type = "data_update" =>
          Seating(down[c][i].data.seats) /\ (BothHere => Full(down[c][i].data.seats))
    BY <1>2 DEF Seated
  <2>5. Seating(view'[c].seats) /\ (BothHere => Full(view'[c].seats))
    <3>1. CASE Shows
      <4>1. 1 \in 1 .. Len(down[c])
        BY <1>2
      <4> QED BY <1>2, <2>4, <3>1, <4>1
    <3>2. CASE IsCall \/ IsWord
      BY <1>2, <3>2 DEF Seated
    <3> QED BY <1>3, <3>1, <3>2
  <2>6. \A i \in 1 .. Len(down'[c]) : down'[c][i].type = "data_update" =>
          Seating(down'[c][i].data.seats) /\ (BothHere => Full(down'[c][i].data.seats))
    BY <1>2, <1>6, <2>4
  <2>7. BothHere /\ InBattle(c)' => Full(game'[c].seats)
    BY <1>1, <1>2, <1>3 DEF Seated, InBattle
  <2>8. \A e \in Clients :
          /\ ~Present(e)' => up'[e] = <<>>
          /\ Present(e)' =>
               /\ Seating(view'[e].seats)
               /\ \A i \in 1 .. Len(down'[e]) :
                    down'[e][i].type = "data_update" => Seating(down'[e][i].data.seats)
          /\ BothHere' =>
               /\ Full(view'[e].seats) /\ (InBattle(e)' => Full(game'[e].seats))
               /\ \A i \in 1 .. Len(down'[e]) :
                    down'[e][i].type = "data_update" => Full(down'[e][i].data.seats)
    BY <1>0, <1>10, <2>2, <2>3, <2>5, <2>6, <2>7
  <2> QED BY <2>1, <2>8 DEF Seated
<1>12. Flags(c)'
  <2>1. /\ NeverSet(t, End(c)) => NeverSet(u, End(c)')
        /\ StaysClear(t, End(c)) => StaysClear(u, End(c)')
        /\ SetOnce(u, End(c)')
    BY <1>2, DeliveredFlags DEF Alone, Flags
  <2>2. /\ End(c) = Len(down[c]) + 1 /\ End(c)' = End(c) - 1 /\ End(c)' \in Nat \ {0}
        /\ \A i \in 1 .. End(c)' : u[i] = t[i + 1]
        /\ u[0] = IF msg.type = "data_update" THEN t[1] ELSE t[0]
    BY <1>2, ToldDelivered, OwnFlag DEF msg
  <2>3. IsCall => u[0] = "set" /\ t[0] = "set"
    <3>1. IsCall => t[1 - 1] = "set"
      <4>1. 1 \in 1 .. Len(down[c])
        BY <1>2
      <4> QED BY <1>2, <4>1 DEF Alone, Flags
    <3> QED BY <2>2, <3>1
  <2>4. IsCall => StaysClear(u, End(c)') /\ ~NeverSet(t, End(c))
    <3>1. IsCall => StaysClear(u, End(c)')
      <4> DEFINE m == End(c)'
      <4>1. m \in Nat /\ SetOnce(u, m)
        BY <2>1, <2>2
      <4> HIDE DEF m, u
      <4>2. IsCall => StaysClear(u, m)
        BY <2>3, <4>1, SetFirst
      <4> QED BY <4>2 DEF m
    <3>2. IsCall => ~NeverSet(t, End(c))
      <4>1. 0 \in 0 .. End(c)
        BY <1>2, <2>2
      <4> QED BY <2>3, <4>1 DEF NeverSet
    <3> QED BY <3>1, <3>2
  <2>5. ~sentReady[c] \/ scene'[c] # "menu" => StaysClear(u, End(c)')
    BY <1>2, <1>3, <2>1, <2>4 DEF Alone, Flags
  <2>6. Has(up[c], "ready") => scene'[c] = "menu" /\ sentReady[c] /\ NeverSet(u, End(c)')
    BY <1>2, <1>3, <2>1, <2>4 DEF Alone, Flags
  <2>7. ASSUME NEW i \in 1 .. Len(down'[c]), down'[c][i].type = "lobby_allready"
        PROVE  u[i - 1] = "set"
    <3>1. i + 1 \in 1 .. Len(down[c]) /\ down[c][i + 1].type = "lobby_allready" /\ (i + 1) - 1 = i
      BY <1>2, <1>6, <2>7
    <3>2. t[i] = "set"
      BY <1>2, <3>1 DEF Alone, Flags
    <3>3. CASE i = 1
      <4>1. t[1] = IF down[c][1].type = "data_update" THEN Mine(c, down[c][1].data) ELSE "nothing"
        <5>1. 1 \in 0 .. End(c) /\ 1 # End(c) /\ 1 # 0
          BY <1>2, <2>2, <3>1, <3>3
        <5> QED BY <5>1 DEF Told
      <4>2. msg.type = "data_update"
        BY <1>2, <3>2, <3>3, <4>1
      <4> QED BY <2>2, <3>2, <3>3, <4>2
    <3>4. CASE i # 1
      <4>1. i - 1 \in 1 .. End(c)' /\ (i - 1) + 1 = i
        BY <1>2, <2>2, <3>4
      <4> QED BY <2>2, <3>2, <4>1
    <3> QED BY <3>3, <3>4
  <2> QED BY <1>1, <2>1, <2>5, <2>6, <2>7 DEF Flags
<1>13. Alone(c)'
  <2>1. Uplink(c)'
    BY <1>1, <1>2, <1>4 DEF Alone, Uplink
  <2>2. Calls(c)'
    BY <1>1, <1>2, <1>3, <1>4, <1>5 DEF Alone, Calls
  <2>3. Word(c)'
    BY <1>1, <1>2, <1>3, <1>5 DEF Alone, Word
  <2> QED BY <1>12, <2>1, <2>2, <2>3 DEF Alone
<1>14. ASSUME BothHere PROVE Starting(c)' /\ Joint(c, d)' /\ Joint(d, c)'
  <2>1. Starting(c) /\ Joint(c, d) /\ Joint(d, c) /\ Alone(d)
    BY <1>14, Parts
  <2>2. 1 \in 1 .. Len(down[c])
    BY <1>2
  <2>3. ASSUME NEW k \in Nat, CurrentFrom(c, k + 1) PROVE CurrentFrom(c, k)'
    <3> SUFFICES ASSUME NEW j \in 1 .. Len(down'[c]), j >= k, down'[c][j].type = "data_update"
                 PROVE  down'[c][j].data.seats = seats /\ down'[c][j].data.chara = chara
      BY <1>1 DEF CurrentFrom, Current
    <3>1. j + 1 \in 1 .. Len(down[c]) /\ down'[c][j] = down[c][j + 1] /\ j + 1 >= k + 1
      BY <1>2, <1>6
    <3> QED BY <2>3, <3>1 DEF CurrentFrom, Current
  <2>4. ASSUME CurrentFrom(c, 1), ~IsCall, ~IsWord PROVE Current(view'[c])
    <3>1. down[c][1].type = "data_update" /\ view'[c] = down[c][1].data
      BY <1>2, <1>3, <2>4
    <3> QED BY <2>2, <2>4, <3>1 DEF CurrentFrom
  <2>5. ASSUME NEW i \in 1 .. Len(down'[c]), down'[c][i].type = "lobby_allready"
        PROVE  (i = 1 => Current(view'[c])) /\ CurrentFrom(c, i - 1)'
    <3>1. i + 1 \in 1 .. Len(down[c]) /\ down[c][i + 1].type = "lobby_allready" /\ (i + 1) - 1 = i
      BY <1>2, <1>6, <2>5
    <3>2. CurrentFrom(c, i) /\ i - 1 \in Nat /\ (i - 1) + 1 = i
      BY <1>6, <2>1, <3>1 DEF Starting
    <3>3. Coming(c) /\ Coming(c)'
      BY <1>4, <2>5 DEF Coming, Has
    <3> QED BY <2>3, <2>4, <3>2, <3>3
  <2>6. scene'[c] = "called" => Current(view'[c]) /\ CurrentFrom(c, 1)'
    <3>1. CASE IsCall
      <4>1. Current(view[c]) /\ CurrentFrom(c, 1 - 1)
        BY <1>2, <2>1, <2>2, <3>1 DEF Starting
      <4>2. CurrentFrom(c, 1 + 1)
        BY <4>1 DEF CurrentFrom
      <4> QED BY <2>3, <3>1, <4>1, <4>2
    <3>2. CASE Shows /\ scene[c] = "called"
      <4>1. CurrentFrom(c, 1)
        BY <2>1, <3>2 DEF Starting
      <4>2. CurrentFrom(c, 1 + 1)
        BY <4>1 DEF CurrentFrom
      <4> QED BY <2>3, <2>4, <3>2, <4>1, <4>2
    <3> QED BY <1>3, <3>1, <3>2
  <2>7. Starting(c)'
    <3>1. Current(view[c])' <=> Current(view'[c])
      BY <1>1 DEF Current
    <3>2. InBattle(c)' /\ Early(c)' => Current(game[c])'
      BY <1>1, <1>3, <1>4, <2>1 DEF Starting, InBattle, Current
    <3> QED BY <2>5, <2>6, <3>1, <3>2 DEF Starting
  <2>8. scene'[d] = scene[d]
    BY <1>8 DEF Untouched
  <2>9. IsCall => Early(c) /\ Early(d) /\ AllSet /\ loser[d] = NoSide /\ loser[c] = NoSide
    <3>1. IsCall => Early(c) /\ Early(d) /\ AllSet /\ loser[c] = NoSide
      BY <2>1 DEF Early, Joint
    <3>2. Early(d) => scene[d] \in {"menu", "called", "loading", "gate"}
      BY <2>1 DEF Early, Alone, Calls
    <3> QED BY <2>1, <3>1, <3>2 DEF Joint
  <2>10. /\ scene[c] = "gate" <=> scene'[c] = "gate"
         /\ scene'[c] # scene[c] => IsCall
         /\ scene[Host] \in {"gate", "battle"} => scene'[Host] \in {"gate", "battle"}
    BY <1>0, <1>3, <2>8
  <2>11. Joint(c, d)'
    BY <1>0, <1>1, <1>4, <1>9, <2>1, <2>8, <2>9, <2>10 DEF Joint, InBattle
  <2>12. Joint(d, c)'
    BY <1>0, <1>1, <1>4, <1>9, <2>1, <2>8, <2>9, <2>10 DEF Joint, InBattle
  <2> QED BY <2>7, <2>11, <2>12
<1>15. (callDue => dirty /\ AllSet)' /\ (syncedDue => dirty)'
  BY <1>1, <1>9, Parts
<1> QED BY <1>0, <1>7, <1>9, <1>10, <1>11, <1>13, <1>14, <1>15, Whole

-----------------------------------------------------------------------------
(* A message received by the server.                                       *)

(* What is taken off a connection, and what is left.                       *)
LEMMA Received ==
  ASSUME Host \in Clients, Inv, NEW c \in Clients, Receive(c)
  PROVE  LET msg == Head(up[c]) IN
         /\ Present(c) /\ Alone(c) /\ Typed /\ Seated /\ Typed'
         /\ SideIn(seats, c) \in Sides /\ c \in Members
         /\ UNCHANGED <<down, scene, view, sentReady, synced, game, running, loser>>
         /\ \A e \in Clients : e # c => up'[e] = up[e]
         /\ msg \in UpMsg /\ Has(up[c], msg.type)
         /\ \A type : Has(up'[c], type) => Has(up[c], type)
         /\ \A i \in 1 .. Len(up'[c]) :
              /\ up'[c][i] = up[c][i + 1] /\ i + 1 \in 1 .. Len(up[c])
              /\ up'[c][i].type \in {"ready", "battle_loaded"} => i = Len(up'[c])
         /\ msg.type \in {"ready", "battle_loaded"} =>
              \A type : ~Has(up'[c], type) /\ \A i \in 1 .. Len(up'[c]) : FALSE
<1> DEFINE msg == Head(up[c])
           q == up[c]
<1>1. Typed /\ Seated /\ q # <<>> /\ up' = [up EXCEPT ![c] = Tail(up[c])] /\ q \in Seq(UpMsg)
  BY Parts DEF Receive, Typed
<1>2. Present(c) /\ Alone(c)
  BY <1>1, Parts DEF Seated
<1>3. Typed' /\ SideIn(seats, c) \in Sides /\ c \in Members
  BY <1>1, <1>2, TypedNext, HasSeat DEF Next
<1>4. UNCHANGED <<down, scene, view, sentReady, synced, game, running, loser>>
  BY DEF Receive, client, battle
<1>5. up'[c] = Tail(q) /\ \A e \in Clients : e # c => up'[e] = up[e]
  BY <1>1 DEF Typed
<1>6. /\ Len(q) \in Nat \ {0} /\ msg = q[1] /\ msg \in UpMsg /\ Len(up'[c]) = Len(q) - 1
      /\ \A i \in 1 .. Len(q) - 1 : up'[c][i] = q[i + 1]
  <2> DEFINE r == Tail(q)
  <2>1. /\ Len(q) \in Nat \ {0} /\ msg = q[1] /\ msg \in UpMsg /\ Len(r) = Len(q) - 1
        /\ \A i \in 1 .. Len(q) - 1 : r[i] = q[i + 1]
    BY <1>1, Taken
  <2>2. up'[c] = r
    BY <1>5
  <2> HIDE DEF r, msg
  <2> QED BY <2>1, <2>2
<1>7. Has(q, msg.type) /\ \A type : Has(up'[c], type) => Has(q, type)
  BY <1>1, <1>5, HasTaken
<1> HIDE DEF msg
<1>8. \A i \in 1 .. Len(up'[c]) : up'[c][i] = up[c][i + 1] /\ i + 1 \in 1 .. Len(up[c])
  BY <1>6
<1>9. \A i \in 1 .. Len(up[c]) : up[c][i].type \in {"ready", "battle_loaded"} => i = Len(up[c])
  BY <1>2 DEF Alone, Uplink
<1>10. \A i \in 1 .. Len(up'[c]) :
         up'[c][i].type \in {"ready", "battle_loaded"} => i = Len(up'[c])
  <2> SUFFICES ASSUME NEW i \in 1 .. Len(up'[c]), up'[c][i].type \in {"ready", "battle_loaded"}
               PROVE  i = Len(up'[c])
    OBVIOUS
  <2>1. i + 1 = Len(up[c])
    BY <1>8, <1>9
  <2> QED BY <1>6, <2>1
<1>11. ASSUME msg.type \in {"ready", "battle_loaded"} PROVE Len(up'[c]) = 0
  <2>1. 1 \in 1 .. Len(up[c])
    BY <1>6
  <2>2. 1 = Len(up[c])
    BY <1>6, <1>9, <1>11, <2>1
  <2> QED BY <1>6, <2>2
<1>12. msg.type \in {"ready", "battle_loaded"} =>
         \A type : ~Has(up'[c], type) /\ \A i \in 1 .. Len(up'[c]) : FALSE
  BY <1>11 DEF Has
<1> QED BY <1>1, <1>2, <1>3, <1>4, <1>5, <1>6, <1>7, <1>8, <1>10, <1>12 DEF msg

(* Taking a message off moves nobody and changes no battle.                *)
LEMMA ReceiveSeated ==
  ASSUME Host \in Clients, Inv, NEW c \in Clients, Receive(c), seats' = seats
  PROVE  Seated' /\ (BothHere' <=> BothHere)
<1>1. /\ Present(c) /\ Seated
      /\ UNCHANGED <<down, scene, view, game>>
      /\ \A e \in Clients : e # c => up'[e] = up[e]
  BY Received
<1>2. \A e \in Clients : BothHere /\ InBattle(e)' => Full(game'[e].seats)
  BY <1>1 DEF Seated, InBattle
<1> QED BY <1>1, <1>2, StillSeated DEF Present

LEMMA UnreadyKeeps ==
  ASSUME Host \in Clients, Inv, NEW c \in Clients, Receive(c), OnUnready(c)
  PROVE  Inv'
<1> DEFINE d == Other(c)
<1>0. d \in Clients /\ d # c /\ \A e \in Clients : e = c \/ e = d
  BY TwoClients
<1>1. /\ \/ AllSet /\ ready' = ready /\ dirty' = dirty
         \/ /\ ~AllSet /\ ready' = [ready EXCEPT ![SideIn(seats, c)] = FALSE] /\ dirty' = TRUE
      /\ UNCHANGED <<seats, chara, loaded, callDue, syncedDue>>
  BY DEF OnUnready, AllSet
<1>2. /\ Present(c) /\ Alone(c) /\ Typed /\ Seated /\ Typed'
      /\ SideIn(seats, c) \in Sides
      /\ UNCHANGED <<down, scene, view, sentReady, synced, game, running, loser>>
      /\ up'[d] = up[d]
      /\ \A type : Has(up'[c], type) => Has(up[c], type)
      /\ \A i \in 1 .. Len(up'[c]) :
           /\ up'[c][i] = up[c][i + 1] /\ i + 1 \in 1 .. Len(up[c])
           /\ up'[c][i].type \in {"ready", "battle_loaded"} => i = Len(up'[c])
  BY <1>0, Received
<1>3. /\ \A s \in Sides : ready'[s] => ready[s]
      /\ ~ready'[SideIn(seats, c)] \/ AllSet
      /\ AllSet => AllSet'
      /\ AllSet' => AllSet
  BY <1>1, <1>2 DEF AllSet, Typed, TypeOK, Data, DataOf
<1>4. Seated' /\ (BothHere' <=> BothHere)
  BY <1>1, ReceiveSeated
<1>5. \A e \in Clients : Early(e)' <=> Early(e)
  BY <1>1, <1>2, StillEarly
<1>6. Alone(c)'
  BY <1>1, <1>2, <1>3, AloneCleared
<1>7. Present(d)' => Alone(d)'
  <2> SUFFICES ASSUME Present(d) PROVE Alone(d)'
    BY <1>2 DEF Present
  <2>1. Alone(d) /\ SideIn(seats, d) \in Sides
    BY <1>0, <1>2, Parts, HasSeat
  <2>2. \A i \in 1 .. Len(up'[d]) :
          up'[d][i].type \in {"ready", "battle_loaded"} => i = Len(up'[d])
    BY <1>2, <2>1 DEF Alone, Uplink
  <2> QED BY <1>0, <1>1, <1>2, <1>3, <2>1, <2>2, AloneCleared
<1>8. ASSUME BothHere, NEW e \in Clients PROVE Starting(e)' /\ Joint(e, Other(e))'
  <2>1. /\ Starting(e) /\ Joint(e, Other(e)) /\ Other(e) \in Clients
        /\ SideIn(seats, e) \in Sides
    BY <1>2, <1>8, TwoClients, HasSeat DEF Inv, BothHere
  <2>2. Starting(e)'
    BY <1>1, <1>2, <1>5, <2>1 DEF Starting, Current, CurrentFrom, InBattle
  <2>3. ready'[SideIn(seats, e)] /\ ~AllSet' =>
          scene[e] = "menu" /\ \A i \in 1 .. Len(up'[e]) : up'[e][i].type = "unready"
    <3>1. CASE e = c
      BY <1>3, <3>1
    <3>2. CASE e = d
      BY <1>2, <1>3, <2>1, <3>2 DEF Joint
    <3> QED BY <1>0, <3>1, <3>2
  <2>4. Joint(e, Other(e))'
    BY <1>1, <1>2, <1>3, <1>5, <2>1, <2>3 DEF Joint, InBattle
  <2> QED BY <2>2, <2>4
<1>9. (callDue => dirty /\ AllSet)' /\ (syncedDue => dirty)'
  BY <1>1, <1>3, Parts
<1>10. BothHere => Starting(c)' /\ Starting(d)' /\ Joint(c, d)' /\ Joint(d, c)'
  BY <1>0, <1>8, OtherTwice
<1> QED BY <1>0, <1>2, <1>4, <1>6, <1>7, <1>9, <1>10, Whole

LEMMA LoadedKeeps ==
  ASSUME Host \in Clients, Inv, NEW c \in Clients, Receive(c),
         Head(up[c]).type = "battle_loaded", OnLoaded(c)
  PROVE  Inv'
<1> DEFINE d == Other(c)
<1>0. d \in Clients /\ d # c /\ \A e \in Clients : e = c \/ e = d
  BY TwoClients
<1>1. /\ loaded' = [loaded EXCEPT ![c] = TRUE] /\ (syncedDue' <=> \A m \in Members : loaded'[m])
      /\ dirty' = TRUE /\ UNCHANGED <<seats, ready, chara, callDue>>
  BY DEF OnLoaded, match
<1>2. /\ Present(c) /\ Alone(c) /\ Typed /\ Seated /\ Typed'
      /\ UNCHANGED <<down, scene, view, sentReady, synced, game, running, loser>>
      /\ up'[d] = up[d] /\ Has(up[c], "battle_loaded")
      /\ \A type : ~Has(up'[c], type) /\ \A i \in 1 .. Len(up'[c]) : FALSE
  BY <1>0, Received
<1>3. loaded'[c] /\ loaded'[d] = loaded[d]
  BY <1>0, <1>1, <1>2 DEF Typed, TypeOK
<1>4. /\ scene[c] = "gate" /\ ~Sync(c) /\ ~syncedDue /\ ~synced[c] /\ ~Has(down[c], "battle_synced")
      /\ ~Coming(c) /\ ~Coming(c)' /\ ~callDue /\ Early(c)
  BY <1>1, <1>2 DEF Alone, Calls, Sync, Coming, Early
<1>5. Early(c)' <=> ~syncedDue'
  BY <1>2, <1>4 DEF Early, Sync
<1>6. Seated' /\ (BothHere' <=> BothHere)
  BY <1>1, ReceiveSeated
<1>7. AllSet' <=> AllSet
  BY <1>1 DEF AllSet
<1>8. \A e \in Clients : /\ Told(e)' = Told(e) /\ End(e)' = End(e)
                         /\ (Coming(e)' <=> Coming(e)) /\ (Early(e)' => Early(e))
  <2> SUFFICES ASSUME NEW e \in Clients
               PROVE  /\ Told(e)' = Told(e) /\ End(e)' = End(e)
                      /\ (Coming(e)' <=> Coming(e)) /\ (Early(e)' => Early(e))
    OBVIOUS
  <2>1. Told(e)' = Told(e) /\ End(e)' = End(e)
    BY <1>1, <1>2, SameTold
  <2> QED BY <1>1, <1>2, <1>4, <2>1 DEF Coming, Early, Sync
<1>9. Alone(c)'
  <2>1. Flags(c)'
    BY <1>1, <1>2, <1>8 DEF Alone, Flags
  <2>2. Uplink(c)'
    BY <1>2 DEF Uplink
  <2>3. Once(down'[c], "lobby_allready") /\ Once(down'[c], "battle_synced")
    BY <1>2 DEF Alone, Calls, Word
  <2>4. Calls(c)'
    BY <1>1, <1>2, <1>3, <1>4, <2>3 DEF Calls, Coming
  <2>5. Word(c)'
    BY <1>1, <1>2, <1>4, <2>3 DEF Word
  <2> QED BY <2>1, <2>2, <2>4, <2>5 DEF Alone
<1>10. ASSUME BothHere
       PROVE  /\ Alone(d) /\ Starting(c) /\ Starting(d) /\ Joint(c, d) /\ Joint(d, c)
              /\ Early(d) /\ AllSet
              /\ syncedDue' => loaded[d] /\ scene[d] = "gate" /\ ~Sync(d) /\ ~Coming(d)
  <2>1. /\ Alone(d) /\ Starting(c) /\ Starting(d) /\ Joint(c, d) /\ Joint(d, c)
        /\ Early(d) /\ AllSet
    BY <1>4, <1>10, Parts DEF Joint
  <2>2. d \in Members
    BY <1>0, <1>2, <1>10, HasSeat DEF BothHere
  <2>3. syncedDue' => loaded[d]
    BY <1>1, <1>3, <2>2
  <2>4. loaded[d] => scene[d] = "gate" /\ ~Sync(d) /\ ~Coming(d)
    BY <2>1 DEF Early, Alone, Calls
  <2> QED BY <2>1, <2>3, <2>4
<1>11. Present(d)' => Alone(d)'
  <2> SUFFICES ASSUME Present(d) PROVE Alone(d)'
    BY <1>2 DEF Present
  <2>1. BothHere
    BY <1>0, <1>2 DEF BothHere
  <2>2. /\ Alone(d)
        /\ syncedDue' => loaded[d] /\ scene[d] = "gate" /\ ~Sync(d) /\ ~Coming(d)
    BY <1>10, <2>1
  <2>3. Flags(d)'
    BY <1>0, <1>1, <1>2, <1>8, <2>2 DEF Alone, Flags
  <2>4. Uplink(d)'
    BY <1>0, <1>2, <1>8, <2>2 DEF Alone, Uplink
  <2>5. ~syncedDue' => (Sync(d)' <=> Sync(d))
    BY <1>2, <1>4 DEF Sync
  <2>6. Once(down'[d], "lobby_allready") /\ Once(down'[d], "battle_synced")
    BY <1>2, <2>2 DEF Alone, Calls, Word
  <2>7. Calls(d)'
    BY <1>0, <1>1, <1>2, <1>3, <1>8, <2>2, <2>5, <2>6 DEF Alone, Calls
  <2>8. Word(d)'
    BY <1>2, <1>4, <2>2, <2>6 DEF Alone, Word, Sync
  <2> QED BY <2>3, <2>4, <2>7, <2>8 DEF Alone
<1>12. ASSUME BothHere PROVE Starting(c)' /\ Starting(d)' /\ Joint(c, d)' /\ Joint(d, c)'
  <2>1. Starting(c)' /\ Starting(d)'
    BY <1>0, <1>1, <1>2, <1>8, <1>10, <1>12 DEF Starting, Current, CurrentFrom, InBattle
  <2>2. Early(d)' <=> ~syncedDue'
    BY <1>1, <1>2, <1>4, <1>10, <1>12 DEF Early, Coming, Sync
  <2>3. Joint(c, d)'
    BY <1>1, <1>2, <1>3, <1>4, <1>5, <1>7, <1>10, <1>12, <2>2 DEF Joint, InBattle
  <2>4. Joint(d, c)'
    BY <1>1, <1>2, <1>3, <1>4, <1>5, <1>7, <1>10, <1>12, <2>2 DEF Joint, InBattle
  <2> QED BY <2>1, <2>3, <2>4
<1>13. (callDue => dirty /\ AllSet)' /\ (syncedDue => dirty)'
  BY <1>1, <1>4
<1> QED BY <1>0, <1>2, <1>6, <1>9, <1>11, <1>12, <1>13, Whole

LEMMA ReverseSeating ==
  ASSUME NEW q, Seating(q), Len(q) = 2
  PROVE  Seating(Reverse(q)) /\ Full(Reverse(q))
<1>1. q \in Seq(Clients) /\ Full(q)
  BY DEF Seating
<1>2. Reverse(q) = [i \in 1 .. 2 |-> q[(2 - i) + 1]]
  BY DEF Reverse
<1>3. Len(Reverse(q)) = 2 /\ Reverse(q)[1] = q[2] /\ Reverse(q)[2] = q[1]
  BY <1>2
<1>4. Reverse(q) \in Seq(Clients)
  BY <1>1, ReverseType
<1> QED BY <1>1, <1>3, <1>4 DEF Full, Seating

LEMMA ResultsKeeps ==
  ASSUME Host \in Clients, Inv, NEW c \in Clients, NEW side, Receive(c),
         Head(up[c]).type = "report_results", OnResults(side)
  PROVE  Inv'
<1> DEFINE d == Other(c)
<1>0. d \in Clients /\ d # c /\ \A e \in Clients : e = c \/ e = d
  BY TwoClients
<1>1. /\ ready' = [s \in Sides |-> FALSE] /\ dirty' = TRUE
      /\ seats' = seats \/ (Len(seats) = 2 /\ seats' = Reverse(seats))
      /\ UNCHANGED <<loaded, callDue, syncedDue>>
  BY DEF OnResults
<1>2. /\ Present(c) /\ Alone(c) /\ Typed /\ Seated /\ Typed'
      /\ UNCHANGED <<down, scene, view, sentReady, synced, game, running, loser>>
      /\ up'[d] = up[d] /\ Has(up[c], "report_results")
      /\ \A type : Has(up'[c], type) => Has(up[c], type)
      /\ \A i \in 1 .. Len(up'[c]) :
           up'[c][i].type \in {"ready", "battle_loaded"} => i = Len(up'[c])
  BY <1>0, Received
<1>3. ~Early(c) /\ ~Coming(c) /\ ~callDue
  BY <1>2 DEF Alone, Uplink, Early, Coming
<1>4. \A e \in Clients : (Early(e)' <=> Early(e)) /\ (Coming(e)' <=> Coming(e))
  BY <1>1, <1>2 DEF Early, Coming, Sync, Has
<1>5. BothHere' <=> BothHere
  BY <1>2 DEF BothHere, Present
<1>6. Seating(seats') /\ (BothHere => Full(seats'))
  BY <1>1, <1>2, ReverseSeating DEF Seated
<1>7. Seated'
  <2>1. Present(Host)' /\ Seating(seats)' /\ (BothHere' => Full(seats)')
    BY <1>2, <1>5, <1>6 DEF Seated, Present
  <2>2. \A e \in Clients :
          /\ ~Present(e)' => up'[e] = <<>>
          /\ Present(e)' =>
               /\ Seating(view'[e].seats)
               /\ \A i \in 1 .. Len(down'[e]) :
                    down'[e][i].type = "data_update" => Seating(down'[e][i].data.seats)
          /\ BothHere' =>
               /\ Full(view'[e].seats) /\ (InBattle(e)' => Full(game'[e].seats))
               /\ \A i \in 1 .. Len(down'[e]) :
                    down'[e][i].type = "data_update" => Full(down'[e][i].data.seats)
    BY <1>0, <1>2, <1>5 DEF Seated, Present, InBattle
  <2> QED BY <2>1, <2>2 DEF Seated
<1>8. \A e \in Clients : Present(e) => SideIn(seats', e) \in Sides /\ ~ready'[SideIn(seats', e)]
  <2> SUFFICES ASSUME NEW e \in Clients, Present(e) PROVE SideIn(seats', e) \in Sides
    BY <1>1
  <2>1. Present(e)'
    BY <1>2 DEF Present
  <2>2. Full(seats') \/ e = Host
    BY <1>0, <1>2, <1>6 DEF BothHere, Seated
  <2> QED BY <1>6, <2>2, SeatIn
<1>9. Alone(c)'
  BY <1>1, <1>2, <1>8, AloneCleared
<1>10. Present(d)' => Alone(d)'
  <2> SUFFICES ASSUME Present(d) PROVE Alone(d)'
    BY <1>2 DEF Present
  <2>1. Alone(d)
    BY Parts
  <2>2. \A i \in 1 .. Len(up'[d]) :
          up'[d][i].type \in {"ready", "battle_loaded"} => i = Len(up'[d])
    BY <1>2, <2>1 DEF Alone, Uplink
  <2> QED BY <1>0, <1>1, <1>2, <1>8, <2>1, <2>2, AloneCleared
<1>11. ASSUME BothHere, NEW e \in Clients PROVE Starting(e)' /\ Joint(e, Other(e))'
  <2>1. Joint(e, Other(e)) /\ Present(e) /\ Other(e) \in Clients
    BY <1>11, TwoClients DEF Inv, BothHere
  <2>2. ~Early(e)
    <3>1. e = c \/ (e = d /\ Other(e) = c)
      BY <1>0, OtherTwice
    <3> QED BY <1>3, <2>1, <3>1 DEF Joint
  <2>3. ~Early(e)' /\ ~Coming(e)'
    BY <1>4, <2>2 DEF Early
  <2>4. Starting(e)'
    BY <1>2, <2>3 DEF Starting, Coming, Has, Early
  <2>5. Joint(e, Other(e))'
    BY <1>1, <1>2, <1>8, <2>1, <2>2, <2>3 DEF Joint, InBattle
  <2> QED BY <2>4, <2>5
<1>12. BothHere => Starting(c)' /\ Starting(d)' /\ Joint(c, d)' /\ Joint(d, c)'
  BY <1>0, <1>11, OtherTwice
<1>13. (callDue => dirty /\ AllSet)' /\ (syncedDue => dirty)'
  BY <1>1, <1>3
<1> QED BY <1>0, <1>2, <1>5, <1>7, <1>9, <1>10, <1>12, <1>13, Whole

LEMMA ReadyKeeps ==
  ASSUME Host \in Clients, Inv, NEW c \in Clients, NEW pick, Receive(c),
         Head(up[c]).type = "ready", OnReady(c, pick)
  PROVE  Inv'
<1> DEFINE d == Other(c)
<1>0. d \in Clients /\ d # c /\ \A e \in Clients : e = c \/ e = d
  BY TwoClients
<1>1. /\ ready' = [ready EXCEPT ![SideIn(seats, c)] = TRUE] /\ dirty' = TRUE
      /\ callDue' <=> callDue \/ AllSet'
      /\ UNCHANGED <<seats, loaded, syncedDue>>
  BY DEF OnReady, AllSet
<1>2. /\ Present(c) /\ Alone(c) /\ Typed /\ Seated /\ Typed' /\ SideIn(seats, c) \in Sides
      /\ UNCHANGED <<down, scene, view, sentReady, synced, game, running, loser>>
      /\ up'[d] = up[d] /\ Has(up[c], "ready")
      /\ \A type : ~Has(up'[c], type) /\ \A i \in 1 .. Len(up'[c]) : FALSE
  <2>1. /\ Present(c) /\ Alone(c) /\ Typed /\ Seated /\ Typed' /\ SideIn(seats, c) \in Sides
        /\ UNCHANGED <<down, scene, view, sentReady, synced, game, running, loser>>
    BY Received
  <2>2. up'[d] = up[d]
    BY <1>0, Received
  <2>3. /\ Has(up[c], "ready")
        /\ \A type : ~Has(up'[c], type) /\ \A i \in 1 .. Len(up'[c]) : FALSE
    <3>1. Has(up[c], Head(up[c]).type)
      BY Received
    <3>2. Head(up[c]).type \in {"ready", "battle_loaded"} =>
            \A type : ~Has(up'[c], type) /\ \A i \in 1 .. Len(up'[c]) : FALSE
      BY Received
    <3> QED BY <3>1, <3>2
  <2> QED BY <2>1, <2>2, <2>3
<1>3. ready'[SideIn(seats, c)] /\ \A s \in Sides : s # SideIn(seats, c) => ready'[s] = ready[s]
  BY <1>1, <1>2 DEF Typed, TypeOK, Data, DataOf
<1>4. scene[c] = "menu" /\ sentReady[c] /\ NeverSet(Told(c), End(c))
  BY <1>2 DEF Alone, Flags
<1>5. ~ready[SideIn(seats, c)] /\ ~AllSet /\ ~callDue /\ ~Has(down[c], "lobby_allready")
  <2>1. End(c) \in Nat \ {0} /\ End(c) = Len(down[c]) + 1 /\ Len(down[c]) \in Nat
    BY <1>2, OwnFlag
  <2>2. ~ready[SideIn(seats, c)]
    <3>1. Told(c)[End(c)] # "set"
      BY <1>4, <2>1 DEF NeverSet
    <3> QED BY <1>2, <3>1, OwnFlag
  <2>3. ASSUME NEW i \in 1 .. Len(down[c]), down[c][i].type = "lobby_allready" PROVE FALSE
    <3>1. Told(c)[i - 1] = "set"
      BY <1>2, <2>3 DEF Alone, Flags
    <3>2. i - 1 \in 0 .. End(c)
      BY <2>1
    <3> QED BY <1>4, <3>1, <3>2 DEF NeverSet
  <2>4. ~AllSet
    BY <1>2, <2>2 DEF AllSet
  <2> QED BY <2>2, <2>3, <2>4, Parts DEF Has
<1>6. ~Coming(c) /\ ~Early(c) /\ ~Sync(c)
  BY <1>2, <1>4, <1>5 DEF Coming, Early, Alone, Word, Sync
<1>7. /\ \A e \in Clients : /\ Sync(e)' <=> Sync(e)
                            /\ Coming(e)' <=> Coming(e) \/ callDue'
                            /\ Early(e)' <=> Early(e) \/ callDue'
  <2> SUFFICES ASSUME NEW e \in Clients
               PROVE  /\ Sync(e)' <=> Sync(e)
                      /\ Coming(e)' <=> Coming(e) \/ callDue'
                      /\ Early(e)' <=> Early(e) \/ callDue'
    OBVIOUS
  <2>1. \A type : Has(down'[e], type) <=> Has(down[e], type)
    BY <1>2 DEF Has
  <2>2. (Sync(e)' <=> Sync(e)) /\ (Coming(e)' <=> Coming(e) \/ callDue')
    BY <1>1, <1>2, <1>5, <2>1 DEF Sync, Coming
  <2>3. scene'[e] = scene[e]
    BY <1>2
  <2> QED BY <2>2, <2>3 DEF Early
<1>8. Seated' /\ (BothHere' <=> BothHere)
  BY <1>1, ReceiveSeated
<1>9. callDue' <=> AllSet'
  BY <1>1, <1>5
(* The other player, when both are ready.                                  *)
<1>10. ASSUME BothHere
       PROVE  /\ Alone(d) /\ Starting(c) /\ Starting(d) /\ Joint(c, d) /\ Joint(d, c)
              /\ SideIn(seats, d) \in Sides /\ SideIn(seats, d) # SideIn(seats, c)
              /\ ~Early(d) /\ ~Coming(d) /\ scene[d] # "gate"
              /\ callDue' <=> ready[SideIn(seats, d)]
              /\ callDue' => /\ scene[d] = "menu" /\ ~loaded[c] /\ ~loaded[d] /\ ~Sync(d)
                             /\ \A i \in 1 .. Len(up[d]) : up[d][i].type = "unready"
  <2>1. /\ Alone(d) /\ Starting(c) /\ Starting(d) /\ Joint(c, d) /\ Joint(d, c)
    BY <1>10, Parts
  <2>2. Seating(seats) /\ Full(seats)
    BY <1>2, <1>10 DEF Seated
  <2>3. /\ SideIn(seats, d) \in Sides /\ SideIn(seats, d) # SideIn(seats, c)
        /\ \A s \in Sides : s = SideIn(seats, c) \/ s = SideIn(seats, d)
    BY <1>0, <2>2, SeatIn, TwoSides
  <2>4. ~Early(d) /\ ~Coming(d) /\ scene[d] # "gate"
    BY <1>4, <1>5, <2>1 DEF Joint, Early
  <2>5. callDue' <=> ready[SideIn(seats, d)]
    BY <1>3, <1>9, <2>3 DEF AllSet
  <2>6. callDue' => scene[d] = "menu" /\ \A i \in 1 .. Len(up[d]) : up[d][i].type = "unready"
    BY <1>5, <2>1, <2>5 DEF Joint
  <2>7. callDue' => ~loaded[c] /\ ~loaded[d]
    BY <1>0, <1>4, <2>1, <2>6 DEF Joint
  <2>8. callDue' => ~Sync(d)
    BY <2>1, <2>6 DEF Alone, Word, Sync
  <2> QED BY <2>1, <2>3, <2>4, <2>5, <2>6, <2>7, <2>8
<1>11. callDue' => ~loaded[c]
  <2>1. CASE BothHere
    BY <1>10, <2>1
  <2>2. CASE ~BothHere
    <3>1. c = Host
      BY <1>2, <2>2, HasSeat
    <3> QED BY <1>2, <1>4, <3>1 DEF Alone, Calls
  <2> QED BY <2>1, <2>2
<1>12. Alone(c)'
  <2> DEFINE t == Told(c)
             u == Told(c)'
             n == End(c)
  <2>1. /\ n \in Nat \ {0} /\ End(c)' = n
        /\ \A i \in 0 .. n : i # n => u[i] = t[i]
        /\ NeverSet(t, n)
    BY <1>2, <1>4, LastWord
  <2> HIDE DEF t, u, n
  <2>2. SetOnce(u, n)
    BY <2>1, FirstSet
  <2>3. Flags(c)'
    <3>1. \A i \in 1 .. Len(down'[c]) : down'[c][i].type # "lobby_allready"
      BY <1>2, <1>5 DEF Has
    <3>2. ~Has(up'[c], "ready") /\ sentReady'[c] /\ scene'[c] = "menu"
      BY <1>2, <1>4
    <3> QED BY <2>1, <2>2, <3>1, <3>2 DEF Flags, u
  <2>4. Uplink(c)'
    BY <1>2 DEF Uplink
  <2>5. Once(down'[c], "lobby_allready") /\ Once(down'[c], "battle_synced")
    BY <1>2 DEF Alone, Calls, Word
  <2>6. Calls(c)'
    <3>1. ~Has(down'[c], "lobby_allready") /\ ~Sync(c)' /\ scene'[c] = "menu"
      BY <1>2, <1>4, <1>5, <1>6, <1>7
    <3>2. Coming(c)' => ~loaded'[c]
      BY <1>1, <1>6, <1>7, <1>11
    <3>3. ~(c = Host /\ loaded'[c])
      BY <1>1, <1>2, <1>4 DEF Alone, Calls
    <3> QED BY <1>2, <2>5, <3>1, <3>2, <3>3 DEF Calls
  <2>7. Word(c)'
    BY <1>1, <1>2, <2>5 DEF Alone, Word
  <2> QED BY <2>3, <2>4, <2>6, <2>7 DEF Alone
<1>13. Present(d)' => Alone(d)'
  <2> SUFFICES ASSUME Present(d) PROVE Alone(d)'
    BY <1>2 DEF Present
  <2>0. BothHere
    BY <1>0, <1>2 DEF BothHere
  <2>00. /\ Alone(d) /\ ~Coming(d) /\ ~Early(d)
         /\ SideIn(seats, d) \in Sides /\ SideIn(seats, d) # SideIn(seats, c)
         /\ callDue' => /\ scene[d] = "menu" /\ ~loaded[d] /\ ~Sync(d)
                        /\ \A i \in 1 .. Len(up[d]) : up[d][i].type = "unready"
    BY <1>10, <2>0
  <2> DEFINE t == Told(d)
             u == Told(d)'
             n == End(d)
  <2>1. /\ n \in Nat \ {0} /\ End(d)' = n
        /\ \A i \in 0 .. n : i # n => u[i] = t[i]
        /\ \A i \in 1 .. Len(down[d]) : u[i - 1] = t[i - 1]
        /\ t[n] = Mine(d, Data) /\ u[n] = Mine(d, Data)'
    BY <1>0, <1>2, LastWord
  <2>2. u[n] \in {t[n], "clear"}
    <3>1. Mine(d, Data) = IF ready[SideIn(seats, d)] THEN "set" ELSE "clear"
      BY DEF Mine, Data
    <3>2. Mine(d, Data)' = IF ready'[SideIn(seats, d)] THEN "set" ELSE "clear"
      BY <1>1 DEF Mine, Data
    <3> QED BY <1>3, <2>00, <2>1, <3>1, <3>2
  <2> HIDE DEF t, u, n
  <2>3. /\ NeverSet(t, n) => NeverSet(u, n)
        /\ StaysClear(t, n) => StaysClear(u, n)
        /\ SetOnce(t, n) => SetOnce(u, n)
    BY <2>1, <2>2, Cleared
  <2>4. Flags(d)'
    <3>1. Flags(d)
      BY <2>00 DEF Alone
    <3>2. /\ SetOnce(u, n) /\ (~sentReady[d] \/ scene[d] # "menu" => StaysClear(u, n))
          /\ Has(up[d], "ready") => scene[d] = "menu" /\ sentReady[d] /\ NeverSet(u, n)
      BY <2>3, <3>1 DEF Flags, t, n
    <3>3. \A i \in 1 .. Len(down[d]) : down[d][i].type = "lobby_allready" => u[i - 1] = "set"
      BY <2>1, <3>1 DEF Flags, t
    <3> QED BY <1>2, <2>1, <3>2, <3>3 DEF Flags, u
  <2>5. callDue' => \A type : type # "unready" => ~Has(up[d], type)
    BY <2>00 DEF Has
  <2>6. Uplink(d)'
    BY <1>0, <1>2, <1>7, <2>00, <2>5 DEF Alone, Uplink
  <2>7. Once(down'[d], "lobby_allready") /\ Once(down'[d], "battle_synced")
    BY <1>2, <2>00 DEF Alone, Calls, Word
  <2>8. Calls(d)'
    <3>1. ~Has(down'[d], "lobby_allready")
      BY <1>2, <2>00 DEF Coming
    <3>2. Coming(d)' => /\ scene[d] = "menu" /\ ~loaded'[d] /\ ~Sync(d)'
                        /\ ~Has(up'[d], "battle_loaded")
      BY <1>0, <1>1, <1>2, <1>7, <2>00, <2>5
    <3>3. scene[d] \in {"called", "loading"} => FALSE
      BY <2>00 DEF Early
    <3>4. /\ Has(up'[d], "battle_loaded") => scene[d] = "gate" /\ ~loaded'[d] /\ ~Sync(d)'
          /\ d = Host /\ loaded'[d] => scene[d] \in {"gate", "battle"}
      BY <1>0, <1>1, <1>2, <1>7, <2>00 DEF Alone, Calls
    <3> QED BY <1>2, <2>7, <3>1, <3>2, <3>3, <3>4 DEF Calls
  <2>9. Word(d)'
    BY <1>1, <1>2, <2>00, <2>7 DEF Alone, Word
  <2> QED BY <2>4, <2>6, <2>8, <2>9 DEF Alone
<1>14. ASSUME BothHere PROVE Starting(c)' /\ Starting(d)' /\ Joint(c, d)' /\ Joint(d, c)'
  <2>1. ~Has(down'[d], "lobby_allready") /\ ~Has(down'[c], "lobby_allready")
    BY <1>2, <1>5, <1>10, <1>14 DEF Coming
  <2>2. /\ scene'[c] = "menu" /\ scene'[d] = scene[d]
        /\ scene[d] \notin {"called", "loading", "gate"}
        /\ callDue' => scene[d] = "menu"
    BY <1>2, <1>4, <1>10, <1>14 DEF Early
  <2>3. (Early(c)' <=> callDue') /\ (Early(d)' <=> callDue')
    BY <1>0, <1>6, <1>7, <1>10, <1>14
  <2>4. Starting(c)'
    BY <2>1, <2>2 DEF Starting, Has, InBattle
  <2>5. Starting(d)'
    <3>1. ~(InBattle(d)' /\ Early(d)') /\ scene'[d] # "called"
      BY <2>2, <2>3 DEF InBattle
    <3> QED BY <2>1, <3>1 DEF Starting, Has
  <2>6. Joint(c, d) /\ Joint(d, c) /\ (callDue' <=> ready[SideIn(seats, d)])
        /\ SideIn(seats, d) \in Sides /\ SideIn(seats, d) # SideIn(seats, c)
    BY <1>10, <1>14
  <2>7. Joint(c, d)'
    BY <1>1, <1>2, <1>9, <2>2, <2>3, <2>6 DEF Joint, InBattle
  <2>8. Joint(d, c)'
    <3>1. ~(ready'[SideIn(seats, d)] /\ ~AllSet')
      BY <1>3, <1>9, <2>6
    <3> QED BY <1>1, <1>2, <1>9, <2>2, <2>3, <2>6, <3>1 DEF Joint, InBattle
  <2> QED BY <2>4, <2>5, <2>7, <2>8
<1>15. (callDue => dirty /\ AllSet)' /\ (syncedDue => dirty)'
  BY <1>1, <1>9
<1> QED BY <1>0, <1>2, <1>8, <1>12, <1>13, <1>14, <1>15, Whole

-----------------------------------------------------------------------------
(* What the invariant is for.                                              *)

LEMMA InvNext ==
  ASSUME Host \in Clients, Patient, Inv, [Next]_vars
  PROVE  Inv'
<1>1. ASSUME NEW c \in Clients, Receive(c) PROVE Inv'
  <2>1. \/ Head(up[c]).type = "ready" /\ OnReady(c, Head(up[c]).chara)
        \/ OnUnready(c)
        \/ Head(up[c]).type = "battle_loaded" /\ OnLoaded(c)
        \/ Head(up[c]).type = "report_results" /\ OnResults(Head(up[c]).loser)
    BY <1>1 DEF Receive
  <2> QED BY <1>1, <2>1, ReadyKeeps, UnreadyKeeps, LoadedKeeps, ResultsKeeps
<1>2. ASSUME NEW c \in Clients, Close(c) \/ Deliver(c) \/ Quit(c) PROVE Inv'
  BY <1>2, CloseKeeps, DeliverKeeps, QuitKeeps
<1>3. ASSUME NEW c \in Clients, LoadBattle(c) \/ FinishLoading(c) \/ PassGate(c) PROVE Inv'
  BY <1>3, LoadBattleKeeps, FinishLoadingKeeps, PassGateKeeps
<1>4. ASSUME NEW c \in Clients, LeaveBattle(c) \/ ReturnToMenu(c) PROVE Inv'
  BY <1>4, LeaveBattleKeeps, ReturnToMenuKeeps
<1>5. ASSUME NEW c \in Clients, PressBack(c) \/ \E pick \in Picks : PressReady(c, pick) PROVE Inv'
  BY <1>5, PressBackKeeps, PressReadyKeeps
<1>6. ASSUME FinishStep PROVE Inv'
  BY <1>6, FinishStepKeeps
<1>7. ASSUME Connect \/ (\E side \in Sides : Fight(side)) \/ UNCHANGED vars PROVE Inv'
  BY <1>7, BattleKeeps
<1> QED BY <1>1, <1>2, <1>3, <1>4, <1>5, <1>6, <1>7 DEF Next

(* The server that gates a match is in one player's game, and players wait *)
(* for the lobby to show their last press: then the two sides of every     *)
(* battle have loaded the same players in the same seats with the same     *)
(* picks, whatever the delays of the last update.                          *)
THEOREM SameGameCorrect ==
  ASSUME Host \in Clients, Patient
  PROVE  Spec => []SameGame
<1>1. Init => Inv
  BY InvInit
<1>2. Inv /\ [Next]_vars => Inv'
  BY InvNext
<1>3. Inv => SameGame
  <2> SUFFICES ASSUME Inv, NEW c \in Clients, NEW d \in Clients, InBattle(c), InBattle(d)
               PROVE  game[c] = game[d]
    BY DEF SameGame
  <2>1. CASE c = d
    BY <2>1
  <2>2. CASE c # d
    <3>1. d = Other(c) /\ \A e \in Clients : e = c \/ e = d
      BY <2>2, TwoClients
    <3>2. BothHere
      BY <3>1 DEF BothHere, Present, InBattle
    <3> QED BY <3>1, <3>2 DEF Inv, Joint
  <2> QED BY <2>1, <2>2
<1> QED BY <1>1, <1>2, <1>3, PTL DEF Spec

-----------------------------------------------------------------------------
(* The rendezvous.                                                         *)

place == [c \in Clients |-> Place(c)]

(* The place a client moves to, and the places of the rest.                *)
LEMMA Moved ==
  ASSUME NEW c \in Clients, \A e \in Clients : e # c => scene'[e] = scene[e]
  PROVE  place' = [place EXCEPT ![c] = Place(c)'] /\ place[c] = Place(c)
<1>1. \A e \in Clients : e # c => Place(e)' = Place(e)
  BY DEF Place
<1> QED BY <1>1 DEF place

LEMMA MeetsNext ==
  ASSUME Host \in Clients, Inv, [Next]_vars
  PROVE  [R!Next]_place
<1>0. Typed /\ scene \in [Clients -> Scenes]
  BY DEF Inv, Typed, TypeOK
<1>1. ASSUME NEW c \in Clients, Deliver(c) PROVE [R!Next]_place
  <2>1. CASE scene' = scene
    BY <2>1 DEF place, Place
  <2>2. CASE scene' # scene
    <3> DEFINE d == Other(c)
    <3>1. /\ scene[c] = "menu" /\ scene' = [scene EXCEPT ![c] = "called"]
          /\ Head(down[c]).type = "lobby_allready"
      BY <1>1, <2>2 DEF Deliver
    <3>2. Early(c) /\ Present(c)
      <4>1. Coming(c)
        BY <1>1, <3>1, Delivered
      <4> QED BY <3>1, <4>1 DEF Early, Present
    <3>3. d \in Clients /\ d # c /\ \A e \in Clients : e = c \/ e = d
      BY TwoClients
    <3>4. scene[d] # "battle"
      <4> SUFFICES ASSUME scene[d] = "battle" PROVE FALSE
        OBVIOUS
      <4>1. BothHere /\ Present(d)
        BY <3>2, <3>3 DEF BothHere, Present
      <4>2. Early(d) /\ Alone(d)
        BY <3>2, <4>1, Parts DEF Joint
      <4> QED BY <4>2 DEF Early, Alone, Calls
    <3>5. place[c] = "lobby" /\ place' = [place EXCEPT ![c] = "called"]
      <4>1. Place(c) = "lobby" /\ Place(c)' = "called"
        BY <1>0, <3>1 DEF Place
      <4>2. \A e \in Clients : e # c => scene'[e] = scene[e]
        BY <1>0, <3>1
      <4> QED BY <4>1, <4>2, Moved
    <3>6. \A e \in Clients : place[e] \in {"lobby", "called", "arrived"} \cup {"gone"}
      <4> SUFFICES ASSUME NEW e \in Clients, scene[e] # "battle"
                   PROVE  Place(e) \in {"lobby", "called", "arrived", "gone"}
        BY <3>1, <3>3, <3>4 DEF place
      <4>1. scene[e] \in Scenes
        BY <1>0
      <4> QED BY <4>1 DEF Place, Scenes
    <3>7. R!Call(c)
      BY <3>5, <3>6 DEF R!Call, R!Move, R!Everyone, place
    <3> QED BY <3>7 DEF R!Next
  <2> QED BY <2>1, <2>2
<1>2. ASSUME NEW c \in Clients, LoadBattle(c) \/ ReturnToMenu(c) PROVE [R!Next]_place
  <2>1. /\ \/ scene[c] = "called" /\ scene' = [scene EXCEPT ![c] = "loading"]
           \/ scene[c] = "returning" /\ scene' = [scene EXCEPT ![c] = "menu"]
    BY <1>2 DEF LoadBattle, ReturnToMenu
  <2>2. Place(c)' = Place(c)
    BY <1>0, <2>1 DEF Place
  <2>3. \A e \in Clients : e # c => Place(e)' = Place(e)
    BY <1>0, <2>1 DEF Place
  <2> QED BY <2>2, <2>3 DEF place
<1>3. ASSUME NEW c \in Clients, FinishLoading(c) PROVE [R!Next]_place
  <2>1. /\ scene[c] = "loading" /\ scene' = [scene EXCEPT ![c] = "gate"]
    <3>1. scene[c] = "loading" /\ scene' = [scene EXCEPT ![c] = IF synced[c] THEN "battle" ELSE "gate"]
      BY <1>3 DEF FinishLoading
    <3>2. ~synced[c]
      BY <3>1, Parts DEF Present, Alone, Calls, Sync
    <3> QED BY <3>1, <3>2
  <2>2. place[c] = "called" /\ place' = [place EXCEPT ![c] = "arrived"]
    <3>1. Place(c) = "called" /\ Place(c)' = "arrived"
      BY <1>0, <2>1 DEF Place
    <3>2. \A e \in Clients : e # c => scene'[e] = scene[e]
      BY <1>0, <2>1
    <3> QED BY <3>1, <3>2, Moved
  <2>3. R!Arrive(c)
    BY <2>2 DEF R!Arrive, R!Move, place
  <2> QED BY <2>3 DEF R!Next
<1>4. ASSUME NEW c \in Clients, PassGate(c) PROVE [R!Next]_place
  <2> DEFINE d == Other(c)
  <2>1. /\ scene[c] = "gate" /\ scene' = [scene EXCEPT ![c] = "battle"] /\ synced[c]
    BY <1>4 DEF PassGate
  <2>2. d \in Clients /\ d # c /\ \A e \in Clients : e = c \/ e = d
    BY TwoClients
  <2>3. scene[d] \in {"gate", "battle", "gone"}
    <3> SUFFICES ASSUME scene[d] # "gone" PROVE scene[d] \in {"gate", "battle"}
      OBVIOUS
    <3>1. BothHere /\ Present(c)
      BY <2>1, <2>2 DEF BothHere, Present
    <3>2. Alone(c) /\ Joint(c, d)
      BY <3>1, Parts
    <3>3. ~Early(c)
      BY <2>1, <3>2 DEF Alone, Calls, Early, Sync
    <3> QED BY <2>1, <3>2, <3>3 DEF Joint
  <2>4. place[c] = "arrived" /\ place' = [place EXCEPT ![c] = "fighting"]
    <3>1. Place(c) = "arrived" /\ Place(c)' = "fighting"
      BY <1>0, <2>1 DEF Place
    <3>2. \A e \in Clients : e # c => scene'[e] = scene[e]
      BY <1>0, <2>1
    <3> QED BY <3>1, <3>2, Moved
  <2>5. \A e \in Clients : place[e] \in {"arrived", "fighting"} \cup {"gone"}
    BY <2>1, <2>2, <2>3 DEF place, Place
  <2>6. R!Start(c)
    BY <2>4, <2>5 DEF R!Start, R!Move, R!Everyone, place
  <2> QED BY <2>6 DEF R!Next
<1>5. ASSUME NEW c \in Clients, LeaveBattle(c) PROVE [R!Next]_place
  <2> DEFINE d == Other(c)
  <2>1. /\ scene[c] = "battle" /\ scene' = [scene EXCEPT ![c] = "returning"]
    BY <1>5 DEF LeaveBattle
  <2>2. d \in Clients /\ d # c /\ \A e \in Clients : e = c \/ e = d
    BY TwoClients
  <2>3. scene[d] \in {"menu", "battle", "returning", "gone"}
    BY <1>5, LeaveFinds DEF Present
  <2>4. place[c] = "fighting" /\ place' = [place EXCEPT ![c] = "lobby"]
    <3>1. Place(c) = "fighting" /\ Place(c)' = "lobby"
      BY <1>0, <2>1 DEF Place
    <3>2. \A e \in Clients : e # c => scene'[e] = scene[e]
      BY <1>0, <2>1
    <3> QED BY <3>1, <3>2, Moved
  <2>5. \A e \in Clients : place[e] \in {"fighting", "lobby"} \cup {"gone"}
    BY <2>1, <2>2, <2>3 DEF place, Place
  <2>6. R!End(c)
    BY <2>4, <2>5 DEF R!End, R!Move, R!Everyone, place
  <2> QED BY <2>6 DEF R!Next
<1>6. ASSUME NEW c \in Clients, Quit(c) PROVE [R!Next]_place
  <2>1. scene[c] # "gone" /\ scene' = [scene EXCEPT ![c] = "gone"] /\ scene[c] \in Scenes
    BY <1>0, <1>6 DEF Quit
  <2>2. place[c] # "gone" /\ place' = [place EXCEPT ![c] = "gone"]
    <3>1. Place(c) # "gone"
      BY <2>1 DEF Place, Scenes
    <3>2. Place(c)' = "gone"
      BY <1>0, <2>1 DEF Place
    <3>3. \A e \in Clients : e # c => scene'[e] = scene[e]
      BY <1>0, <2>1
    <3> QED BY <3>1, <3>2, <3>3, Moved
  <2>3. R!Leave(c)
    BY <2>2 DEF R!Leave, place
  <2> QED BY <2>3 DEF R!Next
<1>7. ASSUME scene' = scene PROVE [R!Next]_place
  BY <1>7 DEF place, Place
<1>8. ASSUME NEW c \in Clients, Receive(c) \/ Close(c) \/ PressBack(c) \/ \E pick \in Picks : PressReady(c, pick)
      PROVE  scene' = scene
  BY <1>8 DEF Receive, Close, PressBack, PressReady, client
<1>9. ASSUME FinishStep \/ Connect \/ (\E side \in Sides : Fight(side)) \/ UNCHANGED vars
      PROVE  scene' = scene
  BY <1>9 DEF FinishStep, Connect, Fight, client, vars
<1> QED BY <1>1, <1>2, <1>3, <1>4, <1>5, <1>6, <1>7, <1>8, <1>9 DEF Next

(* Under the same two conditions the gate is a rendezvous: nobody is in a  *)
(* battle before both have loaded it, and nobody is called to the next one *)
(* while the other is still in this one.                                   *)
THEOREM MeetsCorrect ==
  ASSUME Host \in Clients, Patient
  PROVE  Spec => Meets
<1>1. Init => Inv
  BY InvInit
<1>2. Inv /\ [Next]_vars => Inv'
  BY InvNext
<1>3. Init => R!Init
  BY DEF Init, R!Init, Place
<1>4. Inv /\ [Next]_vars => [R!Next]_place
  BY MeetsNext
<1> QED BY <1>1, <1>2, <1>3, <1>4, PTL DEF Spec, Meets, R!Spec, place
=============================================================================
